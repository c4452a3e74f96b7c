---------------------------- MODULE KVCacheProofs ----------------------------
(***************************************************************************)
(* Proofs about KVCache, for every number of sequences, cells and          *)
(* positions, every window, and all legal batches, ranges and shifts.      *)
(*                                                                         *)
(* The argument: Inv is inductive. It says of each stream that its indexes *)
(* agree with its cells (Good), and of each cell in use that the K it will *)
(* have once the copies that wait are done is rotated for its position     *)
(* less the shift it owes (Owes). Most calls are loops over cells, so the  *)
(* first part is about loops (ForEach): what one round keeps, the loop     *)
(* keeps (LoopKeeps, LoopRule), and what relates two loops round by round  *)
(* relates their results (Lockstep). The next gives for each operation on  *)
(* one cell what it makes of that cell, and that the counts move with it   *)
(* (CellRule). Then each call is a loop over facts of the second part.     *)
(*                                                                         *)
(* The last part says what a decode does to the positions of a sequence.   *)
(* The trial leaves behind what its purges removed, so that the batch does *)
(* not run on the cells it was tried on; AsTried says that it leaves the   *)
(* same all the same. In the trial the positions of a sequence are, before *)
(* each ubatch, those it had and was given but for the lowest, and what is *)
(* missing is behind the window of its next token (DecodePositions).       *)
(***************************************************************************)
EXTENDS KVCache, FiniteSetTheorems, WellFoundedInduction, TLAPS

-----------------------------------------------------------------------------
(* Numbers.                                                                *)

(* A set of numbers has a least one.  This is what the inductions below     *)
(* use: the library's induction theorems have an operator for a parameter.  *)
LEMMA Least ==
  ASSUME NEW S \in SUBSET Nat, S # {}
  PROVE  \E n \in S : \A m \in S : n <= m
<1>1. PICK n \in S : \A m \in S : <<m, n>> \notin OpToRel(<, Nat)
  BY NatLessThanWellFounded, WFMin
<1>2. \A m \in S : <<m, n>> \notin {ss \in Nat \X Nat : ss[1] < ss[2]}
  BY <1>1, Zenon DEF OpToRel
<1>3. ASSUME NEW m \in S PROVE n <= m
  <2>1. <<m, n>> \in Nat \X Nat /\ <<m, n>>[1] = m /\ <<m, n>>[2] = n
    OBVIOUS
  <2>2. ~(m < n)
    BY <1>2, <2>1
  <2>. QED BY <2>2
<1>. QED BY <1>3

(* Induction, with a set of numbers in the place of a predicate. *)
LEMMA Induction ==
  ASSUME NEW n \in Nat, NEW S, 0 \in S, \A k \in 1..n : k - 1 \in S => k \in S
  PROVE  0..n \subseteq S
<1>. SUFFICES ASSUME ~(0..n \subseteq S) PROVE FALSE
  OBVIOUS
<1>. DEFINE B == {k \in 0..n : k \notin S}
<1>1. B \in SUBSET Nat /\ B # {}
  OBVIOUS
<1>2. PICK k \in B : \A m \in B : k <= m
  BY <1>1, Least
<1>3. k \in 1..n
  BY <1>2
<1>4. k - 1 \in 0..n /\ k - 1 \notin B
  BY <1>2, <1>3
<1>. QED BY <1>3, <1>4

(* A set of integers with a bound has a greatest, or a least, member. *)
LEMMA MaxOf ==
  ASSUME NEW S \in SUBSET Int, S # {}, NEW n \in Int, \A x \in S : x <= n
  PROVE  Max(S) \in S /\ \A x \in S : x <= Max(S)
<1>. DEFINE U == {m \in Nat : \E x \in S : m = n - x}
<1>1. U \in SUBSET Nat /\ U # {}
  <2>1. PICK x \in S : TRUE
    OBVIOUS
  <2>2. n - x \in Nat
    BY <2>1
  <2>. QED BY <2>1, <2>2
<1>2. PICK m \in U : \A k \in U : m <= k
  BY <1>1, Least
<1>3. PICK x \in S : m = n - x
  BY <1>2
<1>4. \A y \in S : x >= y
  <2>1. TAKE y \in S
  <2>2. n - y \in U
    BY <2>1
  <2>3. m <= n - y
    BY <1>2, <2>2
  <2>. QED BY <1>3, <2>1, <2>3
<1>5. Max(S) \in S /\ \A y \in S : Max(S) >= y
  BY <1>4 DEF Max
<1>. QED BY <1>5

(* Its least one. *)
LEMMA MinOf ==
  ASSUME NEW S \in SUBSET Int, S # {}, NEW n \in Int, \A x \in S : n <= x
  PROVE  Min(S) \in S /\ \A x \in S : Min(S) <= x
<1>. DEFINE U == {m \in Nat : \E x \in S : m = x - n}
<1>1. U \in SUBSET Nat /\ U # {}
  <2>1. PICK x \in S : TRUE
    OBVIOUS
  <2>2. x - n \in Nat
    BY <2>1
  <2>. QED BY <2>1, <2>2
<1>2. PICK m \in U : \A k \in U : m <= k
  BY <1>1, Least
<1>3. PICK x \in S : m = x - n
  BY <1>2
<1>4. \A y \in S : x <= y
  <2>1. TAKE y \in S
  <2>2. y - n \in U
    BY <2>1
  <2>3. m <= y - n
    BY <1>2, <2>2
  <2>. QED BY <1>3, <2>1, <2>3
<1>5. Min(S) \in S /\ \A y \in S : Min(S) <= y
  BY <1>4 DEF Min
<1>. QED BY <1>5

-----------------------------------------------------------------------------
(* Loops.                                                                  *)

(* One round, and the recursive function in the definition of ForEach. *)
Round(f, S, prev, k) == IF k - 1 \in S THEN f[k - 1][prev] ELSE prev
IsLoop(h, f, c, S, n) ==
  h = [k \in 0..n |-> IF k = 0 THEN c ELSE Round(f, S, h[k - 1], k)]

(* The function exists, so ForEach is its last value. *)
LEMMA LoopDefined ==
  ASSUME NEW f, NEW c, NEW S, Max({-1} \cup S) + 1 \in Nat
  PROVE  \E h : IsLoop(h, f, c, S, Max({-1} \cup S) + 1) /\ ForEach(f, c, S) = h[Max({-1} \cup S) + 1]
<1>. DEFINE top == Max({-1} \cup S) + 1
            T == {m \in Nat : \E h : IsLoop(h, f, c, S, m)}
<1>1. 0 \in T
  <2>. DEFINE h == [k \in 0..0 |-> c]
  <2>1. h = [k \in 0..0 |-> IF k = 0 THEN c ELSE Round(f, S, h[k - 1], k)]
    OBVIOUS
  <2>. QED BY <2>1 DEF IsLoop
<1>2. ASSUME NEW m \in 1..top, m - 1 \in T PROVE m \in T
  <2>1. PICK h : h = [k \in 0 .. m - 1 |-> IF k = 0 THEN c ELSE Round(f, S, h[k - 1], k)]
    BY <1>2 DEF IsLoop
  <2>. DEFINE g == [k \in 0..m |-> IF k = m THEN Round(f, S, h[m - 1], m) ELSE h[k]]
              e == [k \in 0..m |-> IF k = 0 THEN c ELSE Round(f, S, g[k - 1], k)]
  <2>2. ASSUME NEW k \in 0..m PROVE g[k] = e[k]
    <3>1. CASE k = m
      <4>1. g[k - 1] = h[m - 1] /\ k # 0
        BY <3>1
      <4>. QED BY <3>1, <4>1
    <3>2. CASE k = 0
      <4>1. 0 \in 0 .. m - 1 /\ k # m
        BY <3>2
      <4>2. h[0] = c
        BY <2>1, <4>1
      <4>. QED BY <3>2, <4>1, <4>2
    <3>3. CASE k # 0 /\ k # m
      <4>1. k \in 0 .. m - 1 /\ k - 1 \in 0..m /\ k - 1 # m
        BY <3>3
      <4>2. g[k] = h[k] /\ g[k - 1] = h[k - 1]
        BY <3>3, <4>1
      <4>3. h[k] = Round(f, S, h[k - 1], k)
        BY <2>1, <3>3, <4>1
      <4>. QED BY <3>3, <4>2, <4>3
    <3>. QED BY <3>1, <3>2, <3>3
  <2>3. g = e
    BY <2>2
  <2>4. IsLoop(g, f, c, S, m)
    BY <2>3 DEF IsLoop
  <2>. QED BY <2>4
<1>3. top \in T
  <2>. HIDE DEF T
  <2>1. top \in Nat
    OBVIOUS
  <2>. HIDE DEF top
  <2>2. 0..top \subseteq T
    BY <1>1, <1>2, <2>1, Induction
  <2>. QED BY <2>1, <2>2
<1>. DEFINE e == CHOOSE h : IsLoop(h, f, c, S, top)
<1>4. IsLoop(e, f, c, S, top)
  BY <1>3
<1>5. ForEach(f, c, S) = e[top]
  BY DEF ForEach, IsLoop, Round
<1>. QED BY <1>4, <1>5

(* The values a loop goes through: over the indexes 0..n it is in S only    *)
(* that something happens.                                                  *)
LEMMA LoopValues ==
  ASSUME NEW n \in Nat, NEW f, NEW c, NEW S \in SUBSET (0..n)
  PROVE  \E h : /\ h[0] = c /\ h[n + 1] = ForEach(f, c, S)
                /\ \A k \in 0..n : h[k + 1] = IF k \in S THEN f[k][h[k]] ELSE h[k]
<1>. DEFINE top == Max({-1} \cup S) + 1
<1>1. top \in 0 .. n + 1 /\ \A k \in S : k + 1 <= top
  <2>. DEFINE S1 == {-1} \cup S
  <2>1. S1 \in SUBSET Int /\ S1 # {} /\ \A k \in S1 : k <= n /\ -1 <= k
    OBVIOUS
  <2>2. Max(S1) \in S1 /\ \A k \in S1 : k <= Max(S1)
    <3>. HIDE DEF S1
    <3>. QED BY <2>1, MaxOf
  <2>3. Max(S1) \in Int /\ -1 <= Max(S1) /\ Max(S1) <= n
    BY <2>1, <2>2
  <2>. QED BY <2>2, <2>3
<1>2. PICK h : IsLoop(h, f, c, S, top) /\ ForEach(f, c, S) = h[top]
  BY <1>1, LoopDefined
<1>. HIDE DEF top
<1>. DEFINE g == [k \in 0 .. n + 1 |-> h[IF k <= top THEN k ELSE top]]
<1>3. g[0] = c
  <2>1. h[0] = c
    BY <1>1, <1>2 DEF IsLoop
  <2>. QED BY <1>1, <2>1
<1>4. g[n + 1] = ForEach(f, c, S)
  <2>1. (IF n + 1 <= top THEN n + 1 ELSE top) = top
    BY <1>1
  <2>. QED BY <1>2, <2>1
<1>5. ASSUME NEW k \in 0..n PROVE g[k + 1] = IF k \in S THEN f[k][g[k]] ELSE g[k]
  <2>1. CASE k + 1 <= top
    <3>1. g[k + 1] = h[k + 1] /\ g[k] = h[k]
      BY <1>1, <2>1
    <3>2. h[k + 1] = Round(f, S, h[k], k + 1)
      <4>1. k + 1 \in 0..top /\ k + 1 # 0 /\ (k + 1) - 1 = k
        BY <1>1, <2>1
      <4>. QED BY <1>2, <4>1 DEF IsLoop
    <3>3. (k + 1) - 1 = k
      OBVIOUS
    <3>. QED BY <3>1, <3>2, <3>3 DEF Round
  <2>2. CASE ~(k + 1 <= top)
    <3>1. k \notin S
      BY <1>1, <2>2
    <3>2. g[k + 1] = h[top] /\ g[k] = h[top]
      BY <1>1, <2>2
    <3>. QED BY <3>1, <3>2
  <2>. QED BY <2>1, <2>2
<1>. QED BY <1>3, <1>4, <1>5

(* Two loops side by side: what relates their values before round k relates *)
(* them after it.  I[k] holds the pairs of values allowed before round k.   *)
LEMMA Lockstep ==
  ASSUME NEW n \in Nat, NEW f, NEW c, NEW S \in SUBSET (0..n),
         NEW g, NEW d, NEW T \in SUBSET (0..n),
         NEW I, <<c, d>> \in I[0],
         \A k \in 0..n : \A x, y : <<x, y>> \in I[k] =>
            <<IF k \in S THEN f[k][x] ELSE x, IF k \in T THEN g[k][y] ELSE y>> \in I[k + 1]
  PROVE  <<ForEach(f, c, S), ForEach(g, d, T)>> \in I[n + 1]
<1>1. PICK u : /\ u[0] = c /\ u[n + 1] = ForEach(f, c, S)
               /\ \A k \in 0..n : u[k + 1] = IF k \in S THEN f[k][u[k]] ELSE u[k]
  BY LoopValues
<1>2. PICK v : /\ v[0] = d /\ v[n + 1] = ForEach(g, d, T)
               /\ \A k \in 0..n : v[k + 1] = IF k \in T THEN g[k][v[k]] ELSE v[k]
  BY LoopValues
<1>. DEFINE U == {k \in 0 .. n + 1 : <<u[k], v[k]>> \in I[k]}
<1>3. 0 \in U
  BY <1>1, <1>2
<1>4. ASSUME NEW k \in 1 .. n + 1, k - 1 \in U PROVE k \in U
  <2>1. k - 1 \in 0..n /\ (k - 1) + 1 = k
    OBVIOUS
  <2>2. /\ u[k] = IF k - 1 \in S THEN f[k - 1][u[k - 1]] ELSE u[k - 1]
        /\ v[k] = IF k - 1 \in T THEN g[k - 1][v[k - 1]] ELSE v[k - 1]
    BY <1>1, <1>2, <2>1
  <2>3. <<u[k - 1], v[k - 1]>> \in I[k - 1]
    BY <1>4
  <2>4. <<u[k], v[k]>> \in I[k]
    BY <2>1, <2>2, <2>3
  <2>. QED BY <2>4
<1>5. n + 1 \in U
  <2>. HIDE DEF U
  <2>1. 0 .. n + 1 \subseteq U
    BY <1>3, <1>4, Induction, n + 1 \in Nat
  <2>. QED BY <2>1
<1>. QED BY <1>1, <1>2, <1>5

(* One loop, with the values allowed before each round; and one whose       *)
(* rounds all keep to the same values.                                      *)
LEMMA LoopRule ==
  ASSUME NEW n \in Nat, NEW f, NEW c, NEW S \in SUBSET (0..n),
         NEW I, c \in I[0],
         \A k \in 0..n : \A x \in I[k] : (IF k \in S THEN f[k][x] ELSE x) \in I[k + 1]
  PROVE  ForEach(f, c, S) \in I[n + 1]
<1>1. PICK u : /\ u[0] = c /\ u[n + 1] = ForEach(f, c, S)
               /\ \A k \in 0..n : u[k + 1] = IF k \in S THEN f[k][u[k]] ELSE u[k]
  BY LoopValues
<1>. DEFINE U == {k \in 0 .. n + 1 : u[k] \in I[k]}
<1>2. 0 \in U
  BY <1>1
<1>3. ASSUME NEW k \in 1 .. n + 1, k - 1 \in U PROVE k \in U
  <2>1. k - 1 \in 0..n /\ (k - 1) + 1 = k
    OBVIOUS
  <2>2. u[k] = IF k - 1 \in S THEN f[k - 1][u[k - 1]] ELSE u[k - 1]
    BY <1>1, <2>1
  <2>. QED BY <1>3, <2>1, <2>2
<1>4. n + 1 \in U
  <2>. HIDE DEF U
  <2>1. 0 .. n + 1 \subseteq U
    BY <1>2, <1>3, Induction, n + 1 \in Nat
  <2>. QED BY <2>1
<1>. QED BY <1>1, <1>4

(* One whose rounds all keep to the same values. *)
LEMMA LoopKeeps ==
  ASSUME NEW n \in Nat, NEW f, NEW c, NEW S \in SUBSET (0..n),
         NEW I, c \in I, \A k \in S : \A x \in I : f[k][x] \in I
  PROVE  ForEach(f, c, S) \in I
<1>. DEFINE J == [k \in 0 .. n + 1 |-> I]
<1>1. c \in J[0]
  OBVIOUS
<1>2. \A k \in 0..n : \A x \in J[k] : (IF k \in S THEN f[k][x] ELSE x) \in J[k + 1]
  OBVIOUS
<1>3. n + 1 \in 0 .. n + 1
  OBVIOUS
<1>4. J[n + 1] = I
  BY <1>3
<1>. HIDE DEF J
<1>5. ForEach(f, c, S) \in J[n + 1]
  BY <1>1, <1>2, LoopRule
<1>. QED BY <1>4, <1>5

-----------------------------------------------------------------------------
(* Cells.                                                                  *)

(* The cells of sequence s at position p, and those of them that are not i. *)
At(c, s, p) == {j \in Cells : s \in c.seq[j] /\ c.pos[j] = p}
Others(c, i, s, p) == {j \in Cells \ {i} : s \in c.seq[j] /\ c.pos[j] = p}

(* The cells and their indexes agree, but for a cell in use that has no     *)
(* sequence (yet); and there is no such cell.                               *)
Sound ==
  {c \in CellStates :
     /\ c.pos \in [Cells -> Pos \cup {-1}]
     /\ c.used = {i \in Cells : c.pos[i] # -1}
     /\ \A s \in Seqs, p \in Pos : c.seqPos[s][p] = Cardinality(At(c, s, p))
     /\ \A i \in Cells : c.shift[i] # 0 => c.hasShift /\ c.pos[i] # -1}
Good == {c \in Sound : \A i \in Cells : c.pos[i] = -1 <=> c.seq[i] = {}}

(* How much a cell at position q, of the sequences S, counts. *)
One(S, q, s, p) == IF s \in S /\ p = q THEN 1 ELSE 0

(* From c to d the cells but i stay as they are. *)
Apart(c, d, i) ==
  \A j \in Cells \ {i} : d.pos[j] = c.pos[j] /\ d.seq[j] = c.seq[j] /\ d.shift[j] = c.shift[j]

(* A stream has cells, finitely many. *)
LEMMA SizeFacts == Size \in Nat \ {0} /\ Cells = 0..Size - 1 /\ IsFiniteSet(Cells) /\ 0 \in Cells
<1>1. Size \in Nat \ {0}
  BY SizeAssumption DEF Size
<1>2. IsFiniteSet(0..Size - 1)
  BY <1>1, FS_Interval
<1>. QED BY <1>1, <1>2 DEF Cells

(* The number of cells at a position: cell i, and the others. *)
LEMMA CountSplit ==
  ASSUME NEW c \in CellStates, NEW i \in Cells, NEW s \in Seqs, NEW p
  PROVE  /\ Cardinality(Others(c, i, s, p)) \in Nat
         /\ Cardinality(At(c, s, p)) = Cardinality(Others(c, i, s, p)) + One(c.seq[i], c.pos[i], s, p)
<1>1. IsFiniteSet(Others(c, i, s, p))
  <2>1. Others(c, i, s, p) \in SUBSET Cells
    BY DEF Others
  <2>. QED BY <2>1, SizeFacts, FS_Subset
<1>2. Cardinality(Others(c, i, s, p)) \in Nat
  BY <1>1, FS_CardinalityType
<1>3. At(c, s, p) = IF s \in c.seq[i] /\ p = c.pos[i] THEN Others(c, i, s, p) \cup {i} ELSE Others(c, i, s, p)
  BY DEF At, Others
<1>4. i \notin Others(c, i, s, p)
  BY DEF Others
<1>5. Cardinality(Others(c, i, s, p) \cup {i}) = Cardinality(Others(c, i, s, p)) + 1
  BY <1>1, <1>4, FS_AddElement
<1>. QED BY <1>2, <1>3, <1>5 DEF One

(* A change of cell i that moves its counts with it. *)
Change(c, d, i) ==
  /\ Apart(c, d, i) /\ \A j \in Cells \ {i} : j \in d.used <=> j \in c.used
  /\ d.pos[i] \in Pos \cup {-1} /\ (i \in d.used <=> d.pos[i] # -1)
  /\ c.hasShift => d.hasShift
  /\ d.shift[i] # 0 => d.hasShift /\ d.pos[i] # -1
  /\ \A s \in Seqs, p \in Pos :
       d.seqPos[s][p] = c.seqPos[s][p] - One(c.seq[i], c.pos[i], s, p) + One(d.seq[i], d.pos[i], s, p)

(* It keeps the indexes in agreement. *)
LEMMA CellRule ==
  ASSUME NEW c \in Sound, NEW d \in CellStates, NEW i \in Cells, Change(c, d, i)
  PROVE  d \in Sound
<1>. USE DEF Change
<1>1. c \in CellStates /\ c.pos \in [Cells -> Pos \cup {-1}] /\ c.used = {j \in Cells : c.pos[j] # -1}
  BY DEF Sound
<1>2. d.pos \in [Cells -> Pos \cup {-1}]
  <2>1. d.pos \in [Cells -> Int]
    BY DEF CellStates
  <2>2. \A j \in Cells : d.pos[j] \in Pos \cup {-1}
    BY <1>1 DEF Apart
  <2>. QED BY <2>1, <2>2
<1>3. d.used = {j \in Cells : d.pos[j] # -1}
  <2>1. d.used \subseteq Cells
    BY DEF CellStates
  <2>2. \A j \in Cells : j \in d.used <=> d.pos[j] # -1
    BY <1>1 DEF Apart
  <2>. QED BY <2>1, <2>2
<1>4. ASSUME NEW s \in Seqs, NEW p \in Pos PROVE d.seqPos[s][p] = Cardinality(At(d, s, p))
  <2>1. c.seqPos[s][p] = Cardinality(At(c, s, p))
    BY DEF Sound
  <2>2. Others(d, i, s, p) = Others(c, i, s, p)
    BY DEF Others, Apart
  <2>3. /\ Cardinality(Others(c, i, s, p)) \in Nat
        /\ Cardinality(At(c, s, p)) = Cardinality(Others(c, i, s, p)) + One(c.seq[i], c.pos[i], s, p)
    BY <1>1, CountSplit
  <2>4. Cardinality(At(d, s, p)) = Cardinality(Others(c, i, s, p)) + One(d.seq[i], d.pos[i], s, p)
    BY <2>2, CountSplit
  <2>5. One(c.seq[i], c.pos[i], s, p) \in Int /\ One(d.seq[i], d.pos[i], s, p) \in Int
    BY DEF One
  <2>6. d.seqPos[s][p] = c.seqPos[s][p] - One(c.seq[i], c.pos[i], s, p) + One(d.seq[i], d.pos[i], s, p)
    OBVIOUS
  <2>. QED BY <2>1, <2>3, <2>4, <2>5, <2>6
<1>5. ASSUME NEW j \in Cells, d.shift[j] # 0 PROVE d.hasShift /\ d.pos[j] # -1
  <2>1. CASE j = i
    BY <1>5, <2>1
  <2>2. CASE j # i
    BY <1>5, <2>2 DEF Apart, Sound
  <2>. QED BY <2>1, <2>2
<1>. QED BY <1>2, <1>3, <1>4, <1>5 DEF Sound

(* Taking a cell out of the counts, and into them. *)
Counts == [Seqs -> [Pos -> Int]]

(* Taking a cell out of the counts. *)
LEMMA CountsOut ==
  ASSUME NEW c \in CellStates, NEW i \in Cells
  PROVE  \E P \in Counts :
           /\ SeqPosRm(c, i) = [c EXCEPT !.seqPos = P]
           /\ \A s \in Seqs, p \in Pos : P[s][p] = c.seqPos[s][p] - One(c.seq[i], c.pos[i], s, p)
<1>. DEFINE P == [s \in Seqs |-> IF s \in c.seq[i] THEN [c.seqPos[s] EXCEPT ![c.pos[i]] = @ - 1]
                                ELSE c.seqPos[s]]
<1>1. c.seqPos \in [Seqs -> [Pos -> Int]]
  BY DEF CellStates
<1>2. ASSUME NEW s \in Seqs
      PROVE  P[s] \in [Pos -> Int] /\ \A p \in Pos : P[s][p] = c.seqPos[s][p] - One(c.seq[i], c.pos[i], s, p)
  <2>. DEFINE row == c.seqPos[s]
              q == c.pos[i]
  <2>1. row \in [Pos -> Int]
    BY <1>1
  <2>2. P[s] = IF s \in c.seq[i] THEN [row EXCEPT ![q] = @ - 1] ELSE row
    OBVIOUS
  <2>. HIDE DEF P, row, q
  <2>3. \A p \in Pos : row[p] \in Int
    BY <2>1
  <2>4. CASE s \in c.seq[i]
    <3>1. P[s] = [p \in Pos |-> IF p = q THEN row[p] - 1 ELSE row[p]]
      BY <2>1, <2>2, <2>4
    <3>. QED BY <2>3, <2>4, <3>1 DEF One, q, row
  <2>5. CASE s \notin c.seq[i]
    BY <2>1, <2>2, <2>3, <2>5 DEF One, row
  <2>. QED BY <2>4, <2>5
<1>3. P \in Counts
  BY <1>2 DEF Counts
<1>4. SeqPosRm(c, i) = [c EXCEPT !.seqPos = P]
  BY DEF SeqPosRm
<1>. QED BY <1>2, <1>3, <1>4

(* Putting it into them. *)
LEMMA CountsIn ==
  ASSUME NEW c \in CellStates, NEW i \in Cells
  PROVE  \E P \in Counts :
           /\ SeqPosAdd(c, i) = [c EXCEPT !.seqPos = P]
           /\ \A s \in Seqs, p \in Pos : P[s][p] = c.seqPos[s][p] + One(c.seq[i], c.pos[i], s, p)
<1>. DEFINE P == [s \in Seqs |-> IF s \in c.seq[i] THEN [c.seqPos[s] EXCEPT ![c.pos[i]] = @ + 1]
                                ELSE c.seqPos[s]]
<1>1. c.seqPos \in [Seqs -> [Pos -> Int]]
  BY DEF CellStates
<1>2. ASSUME NEW s \in Seqs
      PROVE  P[s] \in [Pos -> Int] /\ \A p \in Pos : P[s][p] = c.seqPos[s][p] + One(c.seq[i], c.pos[i], s, p)
  <2>. DEFINE row == c.seqPos[s]
              q == c.pos[i]
  <2>1. row \in [Pos -> Int]
    BY <1>1
  <2>2. P[s] = IF s \in c.seq[i] THEN [row EXCEPT ![q] = @ + 1] ELSE row
    OBVIOUS
  <2>. HIDE DEF P, row, q
  <2>3. \A p \in Pos : row[p] \in Int
    BY <2>1
  <2>4. CASE s \in c.seq[i]
    <3>1. P[s] = [p \in Pos |-> IF p = q THEN row[p] + 1 ELSE row[p]]
      BY <2>1, <2>2, <2>4
    <3>. QED BY <2>3, <2>4, <3>1 DEF One, q, row
  <2>5. CASE s \notin c.seq[i]
    BY <2>1, <2>2, <2>3, <2>5 DEF One, row
  <2>. QED BY <2>4, <2>5
<1>3. P \in Counts
  BY <1>2 DEF Counts
<1>4. SeqPosAdd(c, i) = [c EXCEPT !.seqPos = P]
  BY DEF SeqPosAdd
<1>. QED BY <1>2, <1>3, <1>4

(* What each operation makes of its cell, and that it leaves the others.    *)
(* RmCell and Vacate: the cell is free.                                     *)
LEMMA RmCellFacts ==
  ASSUME NEW c \in Sound, NEW i \in Cells
  PROVE  LET d == RmCell(c, i) IN
         /\ d \in Sound /\ Apart(c, d, i) /\ d.head = c.head /\ d.hasShift = c.hasShift
         /\ d.pos[i] = -1 /\ d.seq[i] = {} /\ d.shift[i] = 0
<1>. DEFINE d == RmCell(c, i)
<1>1. c \in CellStates
  BY DEF Sound
<1>2. PICK P \in Counts :
           /\ SeqPosRm(c, i) = [c EXCEPT !.seqPos = P]
           /\ \A s \in Seqs, p \in Pos : P[s][p] = c.seqPos[s][p] - One(c.seq[i], c.pos[i], s, p)
  BY <1>1, CountsOut
<1>3. d = [pos |-> [c.pos EXCEPT ![i] = -1], seq |-> [c.seq EXCEPT ![i] = {}],
           shift |-> [c.shift EXCEPT ![i] = 0], hasShift |-> c.hasShift,
           used |-> c.used \ {i}, seqPos |-> P, head |-> c.head]
  <2>1. d = Vacate([c EXCEPT !.seqPos = P], i)
    BY <1>2 DEF RmCell
  <2>. HIDE DEF d
  <2>2. c = [pos |-> c.pos, seq |-> c.seq, shift |-> c.shift, hasShift |-> c.hasShift,
             used |-> c.used, seqPos |-> c.seqPos, head |-> c.head]
    BY <1>1 DEF CellStates
  <2>. QED BY <2>1, <2>2 DEF Vacate
<1>4. d \in CellStates
  BY <1>1, <1>3 DEF CellStates, Counts
<1>5. /\ Apart(c, d, i) /\ d.head = c.head /\ d.hasShift = c.hasShift
      /\ d.pos[i] = -1 /\ d.seq[i] = {} /\ d.shift[i] = 0
  BY <1>1, <1>3 DEF CellStates, Apart
<1>6. \A s \in Seqs, p \in Pos : One(d.seq[i], d.pos[i], s, p) = 0
  BY <1>5 DEF One
<1>7. \A s \in Seqs, p \in Pos : P[s][p] \in Int
  BY DEF Counts
<1>8. d \in Sound
  <2>1. d.seqPos = P /\ d.used = c.used \ {i}
    BY <1>3
  <2>2. \A s \in Seqs, p \in Pos :
           d.seqPos[s][p] = c.seqPos[s][p] - One(c.seq[i], c.pos[i], s, p) + One(d.seq[i], d.pos[i], s, p)
    BY <1>2, <1>6, <1>7, <2>1
  <2>. HIDE DEF d
  <2>3. Change(c, d, i)
    BY <1>4, <1>5, <2>1, <2>2 DEF Change, Apart
  <2>. QED BY <1>4, <2>3, CellRule
<1>. QED BY <1>5, <1>8

(* A state of the cells is the record of its fields. *)
LEMMA CellFields ==
  ASSUME NEW c \in CellStates
  PROVE  c = [pos |-> c.pos, seq |-> c.seq, shift |-> c.shift, hasShift |-> c.hasShift,
              used |-> c.used, seqPos |-> c.seqPos, head |-> c.head]
BY DEF CellStates

(* One count changed by x. *)
Bumped(R, s, q, x) == [R EXCEPT ![s][q] = @ + x]

(* Only that count changes. *)
LEMMA CountStep ==
  ASSUME NEW R \in Counts, NEW s \in Seqs, NEW q \in Pos, NEW x \in Int
  PROVE  /\ Bumped(R, s, q, x) \in Counts
         /\ \A z \in Seqs, p \in Pos :
              Bumped(R, s, q, x)[z][p] = IF z = s /\ p = q THEN R[z][p] + x ELSE R[z][p]
<1>. DEFINE P == [R EXCEPT ![s][q] = @ + x]
<1>1. ASSUME NEW z \in Seqs
      PROVE  P[z] \in [Pos -> Int] /\ \A p \in Pos : P[z][p] = IF z = s /\ p = q THEN R[z][p] + x ELSE R[z][p]
  <2>1. R[z] \in [Pos -> Int] /\ R[s] \in [Pos -> Int] /\ R[s][q] \in Int
    BY DEF Counts
  <2>2. P[z] = IF z = s THEN [R[s] EXCEPT ![q] = R[s][q] + x] ELSE R[z]
    BY DEF Counts
  <2>. HIDE DEF P
  <2>. QED BY <2>1, <2>2
<1>2. P \in Counts
  BY <1>1 DEF Counts
<1>. QED BY <1>1, <1>2 DEF Bumped, Counts

(* seq_rm of a sequence the cell has. *)
LEMMA SeqRmCellFacts ==
  ASSUME NEW c \in Sound, NEW i \in Cells, NEW s \in c.seq[i], c.pos[i] # -1
  PROVE  LET d == SeqRmCell(c, i, s) IN
         /\ d \in Sound /\ Apart(c, d, i) /\ d.head = c.head /\ d.hasShift = c.hasShift
         /\ d.seq[i] = c.seq[i] \ {s}
         /\ IF d.seq[i] = {} THEN d.pos[i] = -1 /\ d.shift[i] = 0
                             ELSE d.pos[i] = c.pos[i] /\ d.shift[i] = c.shift[i]
<1>1. c \in CellStates /\ c.pos[i] \in Pos /\ c.seqPos \in Counts /\ s \in Seqs
  BY DEF Sound, CellStates, Counts
<1>. DEFINE P == Bumped(c.seqPos, s, c.pos[i], -1)
<1>2. /\ P \in Counts
      /\ \A z \in Seqs, p \in Pos :
           P[z][p] = IF z = s /\ p = c.pos[i] THEN c.seqPos[z][p] + (-1) ELSE c.seqPos[z][p]
  <2>1. c.seqPos \in Counts
    BY <1>1 DEF Counts
  <2>2. ASSUME NEW R \in Counts, NEW q \in Pos
        PROVE  /\ Bumped(R, s, q, -1) \in Counts
               /\ \A z \in Seqs, p \in Pos :
                    Bumped(R, s, q, -1)[z][p] = IF z = s /\ p = q THEN R[z][p] + (-1) ELSE R[z][p]
    BY <1>1, CountStep, -1 \in Int
  <2>. HIDE DEF P
  <2>. QED BY <1>1, <2>1, <2>2 DEF P
<1>10. [c.seqPos EXCEPT ![s][c.pos[i]] = @ - 1] = P
  <2>1. c.seqPos[s][c.pos[i]] \in Int
    BY <1>1 DEF Counts
  <2>. QED BY <2>1 DEF Bumped
<1>11. c = [pos |-> c.pos, seq |-> c.seq, shift |-> c.shift, hasShift |-> c.hasShift,
            used |-> c.used, seqPos |-> c.seqPos, head |-> c.head]
  BY <1>1, CellFields
<1>. HIDE DEF P
<1>. DEFINE e == [c EXCEPT !.seq[i] = @ \ {s}, !.seqPos[s][c.pos[i]] = @ - 1]
            f == [pos |-> c.pos, seq |-> [c.seq EXCEPT ![i] = @ \ {s}], shift |-> c.shift,
                  hasShift |-> c.hasShift, used |-> c.used, seqPos |-> P, head |-> c.head]
<1>3. e = f
  <2>. HIDE DEF f
  <2>1. e = [c EXCEPT !.seq[i] = @ \ {s}, !.seqPos[s][c.pos[i]] = @ - 1]
    OBVIOUS
  <2>. HIDE DEF e
  <2>2. e = f
    BY <1>10, <1>11, <2>1 DEF f
  <2>. QED BY <2>2
<1>4. f \in CellStates /\ Apart(c, f, i) /\ f.seq[i] = c.seq[i] \ {s}
  BY <1>1, <1>2 DEF CellStates, Apart, Counts
<1>5. f \in Sound
  <2>1. f.pos = c.pos /\ f.shift = c.shift /\ f.used = c.used /\ f.hasShift = c.hasShift /\ f.seqPos = P
    OBVIOUS
  <2>. HIDE DEF f
  <2>2. \A z \in Seqs, p \in Pos :
           f.seqPos[z][p] = c.seqPos[z][p] - One(c.seq[i], c.pos[i], z, p) + One(f.seq[i], f.pos[i], z, p)
    <3>1. \A z \in Seqs, p \in Pos : c.seqPos[z][p] \in Int
      BY <1>1 DEF Counts
    <3>. QED BY <1>2, <1>4, <2>1, <3>1 DEF One
  <2>3. c.shift[i] # 0 => c.hasShift /\ c.pos[i] # -1
    BY DEF Sound
  <2>4. i \in c.used
    BY DEF Sound
  <2>5. Change(c, f, i)
    BY <1>1, <1>4, <2>1, <2>2, <2>3, <2>4 DEF Change
  <2>. QED BY <1>4, <2>5, CellRule
<1>6. SeqRmCell(c, i, s) = IF f.seq[i] = {} THEN Vacate(f, i) ELSE f
  BY <1>3 DEF SeqRmCell
<1>7. f.head = c.head /\ f.hasShift = c.hasShift /\ f.pos = c.pos /\ f.shift = c.shift
  OBVIOUS
<1>. HIDE DEF f
<1>8. CASE f.seq[i] # {}
  BY <1>4, <1>5, <1>6, <1>7, <1>8
<1>9. CASE f.seq[i] = {}
  <2>. DEFINE d == [pos |-> [f.pos EXCEPT ![i] = -1], seq |-> [f.seq EXCEPT ![i] = {}],
                    shift |-> [f.shift EXCEPT ![i] = 0], hasShift |-> f.hasShift,
                    used |-> f.used \ {i}, seqPos |-> f.seqPos, head |-> f.head]
  <2>1. Vacate(f, i) = d
    <3>1. f = [pos |-> f.pos, seq |-> f.seq, shift |-> f.shift, hasShift |-> f.hasShift,
               used |-> f.used, seqPos |-> f.seqPos, head |-> f.head]
      BY <1>4, CellFields
    <3>. HIDE DEF d
    <3>2. Vacate(f, i) = [f EXCEPT !.pos[i] = -1, !.seq[i] = {}, !.shift[i] = 0, !.used = @ \ {i}]
      BY DEF Vacate
    <3>. QED BY <3>1, <3>2 DEF d
  <2>2. d \in CellStates /\ Apart(f, d, i) /\ d.seq[i] = {} /\ d.pos[i] = -1 /\ d.shift[i] = 0
    BY <1>4 DEF CellStates, Apart
  <2>3. d.used = f.used \ {i} /\ d.hasShift = f.hasShift /\ d.head = f.head /\ d.seqPos = f.seqPos
    OBVIOUS
  <2>. HIDE DEF d
  <2>4. d \in Sound
    <3>1. \A z \in Seqs, p \in Pos : f.seqPos[z][p] \in Int
      BY <1>4 DEF CellStates
    <3>2. \A z \in Seqs, p \in Pos :
            d.seqPos[z][p] = f.seqPos[z][p] - One(f.seq[i], f.pos[i], z, p) + One(d.seq[i], d.pos[i], z, p)
      BY <1>9, <2>2, <2>3, <3>1 DEF One
    <3>3. Change(f, d, i)
      BY <1>5, <2>2, <2>3, <3>2 DEF Change
    <3>. QED BY <1>5, <2>2, <3>3, CellRule
  <2>5. Apart(c, d, i)
    BY <1>4, <2>2 DEF Apart
  <2>. QED BY <1>4, <1>6, <1>7, <1>9, <2>1, <2>2, <2>3, <2>4, <2>5
<1>. QED BY <1>8, <1>9

(* seq_add of a sequence the cell does not have. *)
LEMMA SeqAddCellFacts ==
  ASSUME NEW c \in Sound, NEW i \in Cells, NEW s \in Seqs, s \notin c.seq[i], c.pos[i] # -1
  PROVE  LET d == SeqAddCell(c, i, s) IN
         /\ d \in Sound /\ Apart(c, d, i) /\ d.head = c.head /\ d.hasShift = c.hasShift
         /\ d.seq[i] = c.seq[i] \cup {s} /\ d.pos = c.pos /\ d.shift = c.shift
<1>1. c \in CellStates /\ c.pos[i] \in Pos /\ c.seqPos \in Counts
  BY DEF Sound, CellStates, Counts
<1>. DEFINE P == Bumped(c.seqPos, s, c.pos[i], 1)
<1>2. /\ P \in Counts
      /\ \A z \in Seqs, p \in Pos :
           P[z][p] = IF z = s /\ p = c.pos[i] THEN c.seqPos[z][p] + 1 ELSE c.seqPos[z][p]
  <2>1. c.seqPos \in Counts
    BY <1>1 DEF Counts
  <2>2. ASSUME NEW R \in Counts, NEW q \in Pos
        PROVE  /\ Bumped(R, s, q, 1) \in Counts
               /\ \A z \in Seqs, p \in Pos :
                    Bumped(R, s, q, 1)[z][p] = IF z = s /\ p = q THEN R[z][p] + 1 ELSE R[z][p]
    BY <1>1, CountStep, 1 \in Int
  <2>. HIDE DEF P
  <2>. QED BY <1>1, <2>1, <2>2 DEF P
<1>10. [c.seqPos EXCEPT ![s][c.pos[i]] = @ + 1] = P
  BY DEF Bumped
<1>11. c = [pos |-> c.pos, seq |-> c.seq, shift |-> c.shift, hasShift |-> c.hasShift,
            used |-> c.used, seqPos |-> c.seqPos, head |-> c.head]
  BY <1>1, CellFields
<1>. HIDE DEF P
<1>. DEFINE f == [pos |-> c.pos, seq |-> [c.seq EXCEPT ![i] = @ \cup {s}], shift |-> c.shift,
                  hasShift |-> c.hasShift, used |-> c.used, seqPos |-> P, head |-> c.head]
<1>3. SeqAddCell(c, i, s) = f
  <2>. DEFINE d == SeqAddCell(c, i, s)
  <2>1. d = [c EXCEPT !.seq[i] = @ \cup {s}, !.seqPos[s][c.pos[i]] = @ + 1]
    BY DEF SeqAddCell
  <2>. HIDE DEF d
  <2>2. d = f
    BY <1>10, <1>11, <2>1
  <2>. QED BY <2>2 DEF d
<1>4. f \in CellStates /\ Apart(c, f, i) /\ f.seq[i] = c.seq[i] \cup {s}
  BY <1>1, <1>2 DEF CellStates, Apart, Counts
<1>5. f.pos = c.pos /\ f.shift = c.shift /\ f.used = c.used /\ f.hasShift = c.hasShift /\ f.seqPos = P
      /\ f.head = c.head
  OBVIOUS
<1>. HIDE DEF f
<1>6. f \in Sound
  <2>2. \A z \in Seqs, p \in Pos :
           f.seqPos[z][p] = c.seqPos[z][p] - One(c.seq[i], c.pos[i], z, p) + One(f.seq[i], f.pos[i], z, p)
    <3>1. \A z \in Seqs, p \in Pos : c.seqPos[z][p] \in Int
      BY <1>1 DEF Counts
    <3>. QED BY <1>2, <1>4, <1>5, <3>1 DEF One
  <2>3. c.shift[i] # 0 => c.hasShift /\ c.pos[i] # -1
    BY DEF Sound
  <2>4. i \in c.used
    BY DEF Sound
  <2>5. Change(c, f, i)
    BY <1>1, <1>4, <1>5, <2>2, <2>3, <2>4 DEF Change
  <2>. QED BY <1>4, <2>5, CellRule
<1>. QED BY <1>3, <1>4, <1>5, <1>6

(* pos_set of a free cell: it is in use, and has no sequence yet. *)
LEMMA PosSetFacts ==
  ASSUME NEW c \in Sound, NEW i \in Cells, c.pos[i] = -1, c.seq[i] = {}, NEW p \in Pos
  PROVE  LET d == PosSet(c, i, p) IN
         /\ d \in Sound /\ Apart(c, d, i) /\ d.head = c.head /\ d.hasShift = c.hasShift
         /\ d.pos[i] = p /\ d.seq = c.seq /\ d.shift = c.shift /\ d.shift[i] = 0
<1>1. c \in CellStates /\ c.shift[i] = 0 /\ Pos \subseteq Int
  BY DEF Sound, Pos
<1>. DEFINE f == [pos |-> [c.pos EXCEPT ![i] = p], seq |-> c.seq, shift |-> c.shift,
                  hasShift |-> c.hasShift, used |-> c.used \cup {i}, seqPos |-> c.seqPos, head |-> c.head]
<1>2. PosSet(c, i, p) = f
  <2>. DEFINE d == PosSet(c, i, p)
  <2>1. c = [pos |-> c.pos, seq |-> c.seq, shift |-> c.shift, hasShift |-> c.hasShift,
             used |-> c.used, seqPos |-> c.seqPos, head |-> c.head]
    BY <1>1, CellFields
  <2>2. d = [c EXCEPT !.pos[i] = p, !.used = @ \cup {i}]
    BY DEF PosSet
  <2>. HIDE DEF d
  <2>3. d = f
    BY <2>1, <2>2
  <2>. QED BY <2>3 DEF d
<1>3. f \in CellStates /\ Apart(c, f, i) /\ f.pos[i] = p
  BY <1>1 DEF CellStates, Apart
<1>4. /\ f.seq = c.seq /\ f.shift = c.shift /\ f.used = c.used \cup {i} /\ f.hasShift = c.hasShift
      /\ f.seqPos = c.seqPos /\ f.head = c.head
  OBVIOUS
<1>. HIDE DEF f
<1>5. f \in Sound
  <2>1. \A z \in Seqs, q \in Pos :
           f.seqPos[z][q] = c.seqPos[z][q] - One(c.seq[i], c.pos[i], z, q) + One(f.seq[i], f.pos[i], z, q)
    <3>1. \A z \in Seqs, q \in Pos : c.seqPos[z][q] \in Int
      BY <1>1 DEF CellStates
    <3>. QED BY <1>4, <3>1 DEF One
  <2>2. f.pos[i] # -1
    BY <1>3 DEF Pos
  <2>3. Change(c, f, i)
    BY <1>1, <1>3, <1>4, <2>1, <2>2 DEF Change, Apart
  <2>. QED BY <1>3, <2>3, CellRule
<1>. QED BY <1>1, <1>2, <1>3, <1>4, <1>5

(* Cell i of c given a position, sequences, a shift, with the counts P. *)
CellWith(c, i, p, S, x, P) ==
  [pos |-> [c.pos EXCEPT ![i] = p], seq |-> [c.seq EXCEPT ![i] = S],
   shift |-> [c.shift EXCEPT ![i] = x], hasShift |-> c.hasShift,
   used |-> IF p = -1 THEN c.used \ {i} ELSE c.used \cup {i}, seqPos |-> P, head |-> c.head]

(* It keeps the indexes in agreement if the counts follow. *)
LEMMA CellWithSound ==
  ASSUME NEW c \in Sound, NEW i \in Cells, NEW p \in Pos \cup {-1}, NEW S \in SUBSET Seqs,
         NEW x \in Int, NEW P \in Counts,
         x # 0 => c.hasShift /\ p # -1,
         \A s \in Seqs, q \in Pos :
           P[s][q] = c.seqPos[s][q] - One(c.seq[i], c.pos[i], s, q) + One(S, p, s, q)
  PROVE  CellWith(c, i, p, S, x, P) \in Sound
<1>. DEFINE d == CellWith(c, i, p, S, x, P)
<1>1. c \in CellStates /\ p \in Int
  BY DEF Sound, Pos
<1>2. /\ d \in CellStates /\ Apart(c, d, i) /\ d.hasShift = c.hasShift
      /\ d.pos[i] = p /\ d.seq[i] = S /\ d.shift[i] = x /\ d.seqPos = P
      /\ d.used = IF p = -1 THEN c.used \ {i} ELSE c.used \cup {i}
  BY <1>1 DEF CellWith, CellStates, Apart, Counts
<1>. HIDE DEF d
<1>3. Change(c, d, i)
  BY <1>2 DEF Change
<1>4. d \in Sound
  BY <1>2, <1>3, CellRule
<1>. QED BY <1>4 DEF d

(* The counts taken out of one state of the cells and into another. *)
LEMMA CountsMoved ==
  ASSUME NEW c \in Sound, NEW i \in Cells, NEW p \in Int, NEW S \in SUBSET Seqs,
         NEW x \in Int, NEW P \in Counts,
         \A s \in Seqs, q \in Pos : P[s][q] = c.seqPos[s][q] - One(c.seq[i], c.pos[i], s, q)
  PROVE  \E R \in Counts :
           /\ SeqPosAdd(CellWith(c, i, p, S, x, P), i) = CellWith(c, i, p, S, x, R)
           /\ \A s \in Seqs, q \in Pos :
                R[s][q] = c.seqPos[s][q] - One(c.seq[i], c.pos[i], s, q) + One(S, p, s, q)
<1>. DEFINE d == CellWith(c, i, p, S, x, P)
<1>1. c \in CellStates
  BY DEF Sound
<1>2. d \in CellStates /\ d.pos[i] = p /\ d.seq[i] = S /\ d.seqPos = P
  BY <1>1 DEF CellWith, CellStates, Apart, Counts
<1>. HIDE DEF d
<1>3. PICK R \in Counts :
           /\ SeqPosAdd(d, i) = [d EXCEPT !.seqPos = R]
           /\ \A s \in Seqs, q \in Pos : R[s][q] = d.seqPos[s][q] + One(d.seq[i], d.pos[i], s, q)
  BY <1>2, CountsIn
<1>4. \A s \in Seqs, q \in Pos :
                R[s][q] = c.seqPos[s][q] - One(c.seq[i], c.pos[i], s, q) + One(S, p, s, q)
  BY <1>2, <1>3
<1>5. [d EXCEPT !.seqPos = R] = CellWith(c, i, p, S, x, R)
  <2>. DEFINE e == [d EXCEPT !.seqPos = R]
  <2>1. d = [pos |-> [c.pos EXCEPT ![i] = p], seq |-> [c.seq EXCEPT ![i] = S],
             shift |-> [c.shift EXCEPT ![i] = x], hasShift |-> c.hasShift,
             used |-> IF p = -1 THEN c.used \ {i} ELSE c.used \cup {i}, seqPos |-> P, head |-> c.head]
    BY DEF d, CellWith
  <2>2. e = [d EXCEPT !.seqPos = R]
    OBVIOUS
  <2>. HIDE DEF e
  <2>3. e = CellWith(c, i, p, S, x, R)
    BY <2>1, <2>2 DEF CellWith
  <2>. QED BY <2>3 DEF e
<1>. QED BY <1>3, <1>4, <1>5 DEF d

(* pos_add, to a position that is kept: the cell owes the shift; below 0 it *)
(* is freed.                                                                *)
LEMMA PosAddFacts ==
  ASSUME NEW c \in Sound, NEW i \in Cells, c.pos[i] # -1, NEW x \in Int, c.pos[i] + x <= MaxPos
  PROVE  LET d == PosAdd(c, i, x) IN
         /\ d \in Sound /\ Apart(c, d, i) /\ d.head = c.head /\ d.hasShift
         /\ IF c.pos[i] + x < 0 THEN d.pos[i] = -1 /\ d.seq[i] = {} /\ d.shift[i] = 0
            ELSE d.pos[i] = c.pos[i] + x /\ d.seq[i] = c.seq[i] /\ d.shift[i] = c.shift[i] + x
<1>. DEFINE p == c.pos[i] + x
            S == c.seq[i]
            y == c.shift[i] + x
            e == [pos |-> c.pos, seq |-> c.seq, shift |-> c.shift, hasShift |-> TRUE,
                  used |-> c.used, seqPos |-> c.seqPos, head |-> c.head]
<1>1. /\ c \in CellStates /\ S \in SUBSET Seqs /\ y \in Int /\ p \in Int
      /\ c.pos[i] \in Pos /\ i \in c.used
  BY DEF Sound, CellStates, Pos
<1>e. /\ e \in Sound /\ e.pos = c.pos /\ e.seq = c.seq /\ e.shift = c.shift /\ e.hasShift
      /\ e.used = c.used /\ e.seqPos = c.seqPos /\ e.head = c.head
  BY <1>1 DEF Sound, CellStates, At
<1>f. e.hasShift = TRUE /\ e \in CellStates
  BY <1>1 DEF CellStates
<1>2. PICK P \in Counts :
           /\ SeqPosRm(c, i) = [c EXCEPT !.seqPos = P]
           /\ \A s \in Seqs, q \in Pos : P[s][q] = c.seqPos[s][q] - One(c.seq[i], c.pos[i], s, q)
  BY <1>1, CountsOut
<1>g. \A s \in Seqs, q \in Pos : P[s][q] = e.seqPos[s][q] - One(e.seq[i], e.pos[i], s, q)
  BY <1>2, <1>e
<1>. DEFINE b == [SeqPosRm(c, i) EXCEPT !.pos[i] = @ + x, !.shift[i] = @ + x, !.hasShift = TRUE]
            g == [pos |-> [c.pos EXCEPT ![i] = p], seq |-> c.seq,
                  shift |-> [c.shift EXCEPT ![i] = y], hasShift |-> TRUE,
                  used |-> c.used, seqPos |-> P, head |-> c.head]
<1>3. b = g
  <2>. HIDE DEF g
  <2>1. c = [pos |-> c.pos, seq |-> c.seq, shift |-> c.shift, hasShift |-> c.hasShift,
             used |-> c.used, seqPos |-> c.seqPos, head |-> c.head]
    BY <1>1, CellFields
  <2>2. b = [[c EXCEPT !.seqPos = P] EXCEPT !.pos[i] = @ + x, !.shift[i] = @ + x, !.hasShift = TRUE]
    BY <1>2
  <2>. HIDE DEF b
  <2>. QED BY <1>1, <2>1, <2>2 DEF g
<1>4. PosAdd(c, i, x) = IF b.pos[i] < 0 THEN Vacate(b, i) ELSE SeqPosAdd(b, i)
  BY DEF PosAdd
<1>. HIDE DEF b
<1>5. b.pos[i] = p
  <2>1. c.pos \in [Cells -> Int]
    BY <1>1 DEF CellStates
  <2>2. g.pos = [c.pos EXCEPT ![i] = p]
    OBVIOUS
  <2>. HIDE DEF g, p
  <2>. QED BY <1>3, <2>1, <2>2
<1>6. c.seq = [c.seq EXCEPT ![i] = S]
  BY <1>1 DEF CellStates
<1>7. CASE p < 0
  <2>. DEFINE d == CellWith(e, i, -1, {}, 0, P)
  <2>1. Vacate(b, i) = d
    <3>. DEFINE v == Vacate(b, i)
    <3>1. v = [g EXCEPT !.pos[i] = -1, !.seq[i] = {}, !.shift[i] = 0, !.used = @ \ {i}]
      BY <1>3 DEF Vacate
    <3>. HIDE DEF v
    <3>2. v = [pos |-> [c.pos EXCEPT ![i] = -1], seq |-> [c.seq EXCEPT ![i] = {}],
               shift |-> [c.shift EXCEPT ![i] = 0], hasShift |-> TRUE,
               used |-> c.used \ {i}, seqPos |-> P, head |-> c.head]
      BY <1>1, <3>1 DEF CellStates
    <3>. QED BY <3>2 DEF CellWith, v
  <2>2. \A s \in Seqs, q \in Pos : P[s][q] = e.seqPos[s][q] - One(e.seq[i], e.pos[i], s, q) + One({}, -1, s, q)
    <3>1. \A s \in Seqs, q \in Pos : P[s][q] \in Int /\ One({}, -1, s, q) = 0
      BY DEF One, Counts
    <3>. HIDE DEF e
    <3>. QED BY <1>g, <3>1
  <2>. HIDE DEF e
  <2>3. d \in Sound
    BY <1>e, <2>2, CellWithSound, -1 \in Pos \cup {-1}, {} \in SUBSET Seqs, 0 \in Int
  <2>4. /\ Apart(e, d, i) /\ d.head = e.head /\ d.hasShift = e.hasShift
        /\ d.pos[i] = -1 /\ d.seq[i] = {} /\ d.shift[i] = 0
    BY <1>f DEF CellWith, CellStates, Apart, Counts
  <2>5. PosAdd(c, i, x) = d
    BY <1>4, <1>5, <1>7, <2>1
  <2>. HIDE DEF d
  <2>6. Apart(c, d, i)
    BY <1>e, <2>4 DEF Apart
  <2>. QED BY <1>7, <1>e, <2>3, <2>4, <2>5, <2>6
<1>8. CASE ~(p < 0)
  <2>1. p \in Pos /\ p # -1
    BY <1>1, <1>8, SizeAssumption DEF Pos
  <2>2. b = CellWith(e, i, p, S, y, P)
    <3>1. c.used = c.used \cup {i}
      BY <1>1
    <3>. HIDE DEF p, S, y
    <3>. QED BY <1>3, <1>6, <2>1, <3>1 DEF CellWith
  <2>. HIDE DEF p, S, y, e
  <2>3. PICK R \in Counts :
           /\ SeqPosAdd(CellWith(e, i, p, S, y, P), i) = CellWith(e, i, p, S, y, R)
           /\ \A s \in Seqs, q \in Pos :
                R[s][q] = e.seqPos[s][q] - One(e.seq[i], e.pos[i], s, q) + One(S, p, s, q)
    BY <1>1, <1>e, <1>g, CountsMoved
  <2>. DEFINE d == CellWith(e, i, p, S, y, R)
  <2>4. d \in Sound
    BY <1>1, <1>e, <2>1, <2>3, CellWithSound
  <2>5. /\ Apart(e, d, i) /\ d.head = e.head /\ d.hasShift = e.hasShift
        /\ d.pos[i] = p /\ d.seq[i] = S /\ d.shift[i] = y
    BY <1>1, <1>f DEF CellWith, CellStates, Apart, Counts
  <2>6. PosAdd(c, i, x) = d
    BY <1>4, <1>5, <1>8, <2>2, <2>3
  <2>. HIDE DEF d
  <2>7. Apart(c, d, i)
    BY <1>e, <2>5 DEF Apart
  <2>. QED BY <1>8, <1>e, <2>4, <2>5, <2>6, <2>7 DEF p, S, y
<1>. QED BY <1>7, <1>8

(* seq_keep: the cell keeps the sequence, or is freed. *)
LEMMA SeqKeepCellFacts ==
  ASSUME NEW c \in Sound, NEW i \in Cells, NEW s \in Seqs, c.pos[i] = -1 <=> c.seq[i] = {}
  PROVE  LET d == SeqKeepCell(c, i, s) IN
         /\ d \in Sound /\ Apart(c, d, i) /\ d.head = c.head /\ d.hasShift = c.hasShift
         /\ \/ d.pos[i] = -1 /\ d.seq[i] = {} /\ d.shift[i] = 0
            \/ s \in c.seq[i] /\ d.pos[i] = c.pos[i] /\ d.seq[i] = {s} /\ d.shift[i] = c.shift[i]
<1>. DEFINE d == SeqKeepCell(c, i, s)
            p == c.pos[i]
            y == c.shift[i]
<1>1. c \in CellStates /\ {s} \in SUBSET Seqs /\ y \in Int /\ p \in Pos \cup {-1}
  BY DEF Sound, CellStates
<1>2. CASE s \in c.seq[i]
  <2>1. p # -1 /\ i \in c.used /\ p \in Int
    BY <1>1, <1>2 DEF Sound, Pos
  <2>2. PICK P \in Counts :
           /\ SeqPosRm(c, i) = [c EXCEPT !.seqPos = P]
           /\ \A z \in Seqs, q \in Pos : P[z][q] = c.seqPos[z][q] - One(c.seq[i], c.pos[i], z, q)
    BY <1>1, CountsOut
  <2>. DEFINE b == [SeqPosRm(c, i) EXCEPT !.seq[i] = {s}]
  <2>3. d = SeqPosAdd(b, i)
    BY <1>2 DEF SeqKeepCell
  <2>4. b = CellWith(c, i, p, {s}, y, P)
    <3>1. c = [pos |-> c.pos, seq |-> c.seq, shift |-> c.shift, hasShift |-> c.hasShift,
               used |-> c.used, seqPos |-> c.seqPos, head |-> c.head]
      BY <1>1, CellFields
    <3>2. b = [[c EXCEPT !.seqPos = P] EXCEPT !.seq[i] = {s}]
      BY <2>2
    <3>3. c.pos = [c.pos EXCEPT ![i] = p] /\ c.shift = [c.shift EXCEPT ![i] = y] /\ c.used = c.used \cup {i}
      BY <1>1, <2>1 DEF CellStates
    <3>. HIDE DEF b, p, y
    <3>4. b = [pos |-> c.pos, seq |-> [c.seq EXCEPT ![i] = {s}], shift |-> c.shift,
               hasShift |-> c.hasShift, used |-> c.used, seqPos |-> P, head |-> c.head]
      BY <3>1, <3>2
    <3>. QED BY <2>1, <3>3, <3>4 DEF CellWith
  <2>. HIDE DEF p, y
  <2>5. PICK R \in Counts :
           /\ SeqPosAdd(CellWith(c, i, p, {s}, y, P), i) = CellWith(c, i, p, {s}, y, R)
           /\ \A z \in Seqs, q \in Pos :
                R[z][q] = c.seqPos[z][q] - One(c.seq[i], c.pos[i], z, q) + One({s}, p, z, q)
    <3>. DEFINE S == {s}
    <3>1. S \in SUBSET Seqs
      BY <1>1
    <3>. HIDE DEF S
    <3>2. \E R \in Counts :
           /\ SeqPosAdd(CellWith(c, i, p, S, y, P), i) = CellWith(c, i, p, S, y, R)
           /\ \A z \in Seqs, q \in Pos :
                R[z][q] = c.seqPos[z][q] - One(c.seq[i], c.pos[i], z, q) + One(S, p, z, q)
      BY <1>1, <2>1, <2>2, <3>1, CountsMoved
    <3>. QED BY <3>2 DEF S
  <2>6. y # 0 => c.hasShift /\ p # -1
    BY <2>1 DEF Sound, y
  <2>. DEFINE f == CellWith(c, i, p, {s}, y, R)
  <2>7. f \in Sound
    BY <1>1, <2>5, <2>6, CellWithSound
  <2>8. /\ Apart(c, f, i) /\ f.head = c.head /\ f.hasShift = c.hasShift
        /\ f.pos[i] = p /\ f.seq[i] = {s} /\ f.shift[i] = y
    BY <1>1 DEF CellWith, CellStates, Apart, Counts
  <2>9. d = f
    BY <2>3, <2>4, <2>5
  <2>. HIDE DEF d, f
  <2>. QED BY <1>2, <2>1, <2>7, <2>8, <2>9 DEF d, p, y
<1>3. CASE s \notin c.seq[i] /\ c.seq[i] = {}
  <2>1. d = c
    BY <1>3 DEF SeqKeepCell
  <2>2. p = -1 /\ y = 0
    BY <1>1, <1>3 DEF Sound
  <2>. QED BY <1>3, <2>1, <2>2 DEF Apart
<1>4. CASE s \notin c.seq[i] /\ c.seq[i] # {}
  <2>1. d = RmCell(c, i)
    BY <1>4 DEF SeqKeepCell
  <2>. QED BY <2>1, RmCellFacts
<1>. QED BY <1>2, <1>3, <1>4

(* set, of a cell that owes nothing. *)
LEMMA SetCellFacts ==
  ASSUME NEW c \in Sound, NEW i \in Cells, c.pos[i] = -1 <=> c.seq[i] = {}, c.shift[i] = 0,
         NEW p \in Pos \cup {-1}, NEW S \in SUBSET Seqs
  PROVE  LET d == SetCell(c, i, p, S) IN
         /\ d \in Sound /\ Apart(c, d, i) /\ d.head = c.head /\ d.hasShift = c.hasShift
         /\ d.pos[i] = p /\ d.seq[i] = S /\ d.shift[i] = 0
<1>. DEFINE d == SetCell(c, i, p, S)
            o == IF c.pos[i] # -1 THEN SeqPosRm(c, i) ELSE c
            b == [o EXCEPT !.pos[i] = p, !.seq[i] = S, !.used = IF p = -1 THEN @ \ {i} ELSE @ \cup {i}]
<1>1. c \in CellStates /\ p \in Int
  BY DEF Sound, Pos
<1>2. PICK P \in Counts :
        /\ o = [c EXCEPT !.seqPos = P]
        /\ \A z \in Seqs, q \in Pos : P[z][q] = c.seqPos[z][q] - One(c.seq[i], c.pos[i], z, q)
  <2>1. CASE c.pos[i] # -1
    BY <1>1, <2>1, CountsOut
  <2>2. CASE c.pos[i] = -1
    <3>1. c = [c EXCEPT !.seqPos = c.seqPos] /\ c.seqPos \in Counts
      BY <1>1 DEF CellStates, Counts
    <3>2. \A z \in Seqs, q \in Pos : c.seqPos[z][q] = c.seqPos[z][q] - One(c.seq[i], c.pos[i], z, q)
      BY <2>2, <3>1 DEF One, Counts
    <3>. QED BY <2>2, <3>1, <3>2
  <2>. QED BY <2>1, <2>2
<1>3. b = CellWith(c, i, p, S, 0, P)
  <2>1. c = [pos |-> c.pos, seq |-> c.seq, shift |-> c.shift, hasShift |-> c.hasShift,
             used |-> c.used, seqPos |-> c.seqPos, head |-> c.head]
    BY <1>1, CellFields
  <2>2. b = [[c EXCEPT !.seqPos = P] EXCEPT !.pos[i] = p, !.seq[i] = S,
                !.used = IF p = -1 THEN @ \ {i} ELSE @ \cup {i}]
    BY <1>2
  <2>3. c.shift = [c.shift EXCEPT ![i] = 0]
    BY <1>1 DEF CellStates
  <2>. HIDE DEF b
  <2>4. b = [pos |-> [c.pos EXCEPT ![i] = p], seq |-> [c.seq EXCEPT ![i] = S], shift |-> c.shift,
             hasShift |-> c.hasShift, used |-> IF p = -1 THEN c.used \ {i} ELSE c.used \cup {i},
             seqPos |-> P, head |-> c.head]
    BY <2>1, <2>2
  <2>. QED BY <2>3, <2>4 DEF CellWith
<1>4. d = IF p = -1 THEN b ELSE SeqPosAdd(b, i)
  BY DEF SetCell
<1>. HIDE DEF b, d
<1>5. \A R \in Counts :
        LET f == CellWith(c, i, p, S, 0, R) IN
        /\ Apart(c, f, i) /\ f.head = c.head /\ f.hasShift = c.hasShift
        /\ f.pos[i] = p /\ f.seq[i] = S /\ f.shift[i] = 0
  BY <1>1 DEF CellWith, CellStates, Apart, Counts
<1>6. \E R \in Counts :
        /\ d = CellWith(c, i, p, S, 0, R)
        /\ \A z \in Seqs, q \in Pos :
             R[z][q] = c.seqPos[z][q] - One(c.seq[i], c.pos[i], z, q) + One(S, p, z, q)
  <2>1. CASE p = -1
    <3>1. \A z \in Seqs, q \in Pos : One(S, p, z, q) = 0 /\ P[z][q] \in Int
      <4>1. \A q \in Pos : q # -1
        BY DEF Pos
      <4>2. \A z \in Seqs, q \in Pos : P[z][q] \in Int
        BY DEF Counts
      <4>. QED BY <2>1, <4>1, <4>2 DEF One
    <3>2. \A z \in Seqs, q \in Pos :
             P[z][q] = c.seqPos[z][q] - One(c.seq[i], c.pos[i], z, q) + One(S, p, z, q)
      BY <1>2, <3>1
    <3>. QED BY <1>3, <1>4, <2>1, <3>2
  <2>2. CASE p # -1
    <3>1. PICK R \in Counts :
           /\ SeqPosAdd(CellWith(c, i, p, S, 0, P), i) = CellWith(c, i, p, S, 0, R)
           /\ \A z \in Seqs, q \in Pos :
                R[z][q] = c.seqPos[z][q] - One(c.seq[i], c.pos[i], z, q) + One(S, p, z, q)
      BY <1>1, <1>2, CountsMoved, 0 \in Int
    <3>. QED BY <1>3, <1>4, <2>2, <3>1
  <2>. QED BY <2>1, <2>2
<1>7. PICK R \in Counts :
        /\ d = CellWith(c, i, p, S, 0, R)
        /\ \A z \in Seqs, q \in Pos :
             R[z][q] = c.seqPos[z][q] - One(c.seq[i], c.pos[i], z, q) + One(S, p, z, q)
  BY <1>6
<1>8. d \in Sound
  BY <1>7, CellWithSound, 0 \in Int
<1>. QED BY <1>5, <1>7, <1>8 DEF d

-----------------------------------------------------------------------------
(* Loops over the cells of a stream.                                       *)

(* A loop over cells, or over sequences, with the values allowed before     *)
(* each round.                                                              *)
LEMMA CellsLoop ==
  ASSUME NEW f, NEW c, NEW S \in SUBSET Cells, NEW I, c \in I[0],
         \A k \in Cells : \A x \in I[k] : (IF k \in S THEN f[k][x] ELSE x) \in I[k + 1]
  PROVE  ForEach(f, c, S) \in I[Size]
<1>1. Size - 1 \in Nat /\ Cells = 0..Size - 1 /\ (Size - 1) + 1 = Size
  BY SizeFacts
<1>2. S \in SUBSET (0..Size - 1)
  BY <1>1
<1>3. \A k \in 0..Size - 1 : \A x \in I[k] : (IF k \in S THEN f[k][x] ELSE x) \in I[k + 1]
  BY <1>1
<1>4. ForEach(f, c, S) \in I[(Size - 1) + 1]
  BY <1>1, <1>2, <1>3, LoopRule
<1>. QED BY <1>1, <1>4

(* One whose rounds keep to the same values. *)
LEMMA CellsKeep ==
  ASSUME NEW f, NEW c, NEW S \in SUBSET Cells, NEW I, c \in I,
         \A k \in S : \A x \in I : f[k][x] \in I
  PROVE  ForEach(f, c, S) \in I
<1>1. Size - 1 \in Nat /\ S \in SUBSET (0..Size - 1)
  BY SizeFacts
<1>. QED BY <1>1, LoopKeeps

(* The head of a stream is free to move among its cells. *)
LEMMA HeadSet ==
  ASSUME NEW c \in Good, NEW h \in 0..Size, NEW d, d = [c EXCEPT !.head = h]
  PROVE  /\ d \in Good /\ d.pos = c.pos /\ d.seq = c.seq /\ d.shift = c.shift /\ d.head = h
         /\ d.hasShift = c.hasShift
<1>1. c \in CellStates
  BY DEF Good, Sound
<1>2. d = [pos |-> c.pos, seq |-> c.seq, shift |-> c.shift, hasShift |-> c.hasShift,
           used |-> c.used, seqPos |-> c.seqPos, head |-> h]
  <2>1. c = [pos |-> c.pos, seq |-> c.seq, shift |-> c.shift, hasShift |-> c.hasShift,
             used |-> c.used, seqPos |-> c.seqPos, head |-> c.head]
    BY <1>1, CellFields
  <2>. QED BY <2>1
<1>3. d \in CellStates
  BY <1>1, <1>2 DEF CellStates
<1>4. d.pos = c.pos /\ d.seq = c.seq /\ d.shift = c.shift /\ d.hasShift = c.hasShift
      /\ d.used = c.used /\ d.seqPos = c.seqPos /\ d.head = h
  BY <1>2
<1>5. \A s, p : At(d, s, p) = At(c, s, p)
  BY <1>4 DEF At
<1>6. d \in Sound
  <2>1. /\ c.pos \in [Cells -> Pos \cup {-1}]
        /\ c.used = {i \in Cells : c.pos[i] # -1}
        /\ \A s \in Seqs, p \in Pos : c.seqPos[s][p] = Cardinality(At(c, s, p))
        /\ \A i \in Cells : c.shift[i] # 0 => c.hasShift /\ c.pos[i] # -1
    BY DEF Good, Sound
  <2>2. \A s \in Seqs, p \in Pos : d.seqPos[s][p] = Cardinality(At(d, s, p))
    BY <1>4, <1>5, <2>1
  <2>3. \A i \in Cells : d.shift[i] # 0 => d.hasShift /\ d.pos[i] # -1
    BY <1>4, <2>1
  <2>4. d.pos \in [Cells -> Pos \cup {-1}] /\ d.used = {i \in Cells : d.pos[i] # -1}
    BY <1>4, <2>1
  <2>. QED BY <1>3, <2>2, <2>3, <2>4 DEF Sound
<1>. QED BY <1>4, <1>6 DEF Good

(* The lowest cell freed is a place for the head. *)
LEMMA NewHeadType == \A c, d : NewHead(c, d) \in 0..Size
<1>1. TAKE c, d
<1>. DEFINE S == {Size} \cup {i \in Cells : c.pos[i] # -1 /\ d.pos[i] = -1}
<1>2. S \in SUBSET Int /\ S # {} /\ \A x \in S : 0 <= x /\ x <= Size
  BY SizeFacts
<1>3. Min(S) \in S
  <2>. HIDE DEF S
  <2>. QED BY <1>2, MinOf
<1>. QED BY <1>2, <1>3, SizeFacts DEF NewHead

(* The head goes down to it, and nothing else changes. *)
LEMMA HeadLoweredFacts ==
  ASSUME NEW c, NEW d \in Good
  PROVE  LET e == HeadLowered(c, d) IN
         /\ e \in Good /\ e.pos = d.pos /\ e.seq = d.seq /\ e.shift = d.shift
         /\ e.hasShift = d.hasShift
<1>1. PICK h : h = IF NewHead(c, d) < d.head THEN NewHead(c, d) ELSE d.head
  OBVIOUS
<1>2. h \in 0..Size
  BY <1>1, NewHeadType DEF Good, Sound, CellStates
<1>3. HeadLowered(c, d) = [d EXCEPT !.head = h]
  BY <1>1 DEF HeadLowered
<1>. QED BY <1>2, <1>3, HeadSet

(* From c to d cells only lose: sequences, or all of what they have.  And   *)
(* the shift a cell owes is what it was with respect to its position.       *)
Rest(c, d) ==
  /\ d.hasShift => c.hasShift
  /\ \A i \in Cells : /\ d.seq[i] \subseteq c.seq[i]
                      /\ d.pos[i] = -1 \/ (d.pos[i] = c.pos[i] /\ d.shift[i] = c.shift[i])
Kept(c, d) ==
  \A i \in Cells : \/ d.pos[i] = -1
                   \/ c.pos[i] # -1 /\ d.pos[i] - d.shift[i] = c.pos[i] - c.shift[i]

(* Losing some, then some more. *)
LEMMA RestTransitive ==
  ASSUME NEW c, NEW d, NEW e, Rest(c, d), Rest(d, e)
  PROVE  Rest(c, e)
BY DEF Rest

(* What is left owes what it owed. *)
LEMMA RestKept ==
  ASSUME NEW c, NEW d, Rest(c, d)
  PROVE  Kept(c, d)
BY DEF Rest, Kept

(* A change of one cell that is as in Rest. *)
LEMMA RestStep ==
  ASSUME NEW c, NEW x, NEW y, NEW i \in Cells, Rest(c, x), Apart(x, y, i),
         y.hasShift => x.hasShift, y.seq[i] \subseteq x.seq[i],
         y.pos[i] = -1 \/ (y.pos[i] = x.pos[i] /\ y.shift[i] = x.shift[i])
  PROVE  Rest(c, y)
BY DEF Rest, Apart

(* A sequence removed from a range of positions. *)
LEMMA SeqRmInFacts ==
  ASSUME NEW c \in Good, NEW s \in Seqs, NEW r
  PROVE  LET d == SeqRmIn(c, s, r) IN
         /\ d \in Good /\ Rest(c, d)
         /\ \A i \in InRange(c, r) \cap OfSeq(c, s) : s \notin d.seq[i]
<1>. DEFINE S == InRange(c, r) \cap OfSeq(c, s)
            f == [i \in Cells |-> [d \in CellStates |-> SeqRmCell(d, i, s)]]
            X(k) == {d \in Good : /\ Rest(c, d)
                                  /\ \A i \in Cells : i < k => (i \in S => s \notin d.seq[i])
                                  /\ \A i \in Cells : i >= k => d.seq[i] = c.seq[i]}
            I == [k \in 0..Size |-> X(k)]
<1>1. S \in SUBSET Cells /\ \A i \in S : s \in c.seq[i]
  BY DEF InRange, OfSeq
<1>2. Size \in Nat /\ Cells = 0..Size - 1
  BY SizeFacts
<1>3. c \in I[0]
  <2>1. Rest(c, c)
    BY DEF Rest
  <2>2. \A i \in Cells : ~(i < 0)
    BY <1>2
  <2>. QED BY <1>2, <2>1, <2>2
<1>4. ASSUME NEW k \in Cells, NEW x \in X(k) PROVE (IF k \in S THEN f[k][x] ELSE x) \in X(k + 1)
  <2>1. k \in Int /\ \A i \in Cells : i \in Int /\ (i < k + 1 <=> i < k \/ i = k) /\ (i >= k + 1 <=> i >= k /\ i # k)
    BY <1>2
  <2>2. CASE k \notin S
    BY <2>1, <2>2
  <2>3. CASE k \in S
    <3>. DEFINE y == SeqRmCell(x, k, s)
    <3>1. x \in Sound /\ x \in CellStates /\ s \in x.seq[k] /\ x.pos[k] # -1
      BY <1>1, <2>1, <2>3 DEF Good, Sound
    <3>2. f[k][x] = y
      BY <3>1
    <3>3. /\ y \in Sound /\ Apart(x, y, k) /\ y.hasShift = x.hasShift
          /\ y.seq[k] = x.seq[k] \ {s}
          /\ IF y.seq[k] = {} THEN y.pos[k] = -1 /\ y.shift[k] = 0
                              ELSE y.pos[k] = x.pos[k] /\ y.shift[k] = x.shift[k]
      BY <3>1, SeqRmCellFacts
    <3>. HIDE DEF y
    <3>4. y \in Good
      BY <3>1, <3>3 DEF Good, Apart
    <3>5. Rest(c, y)
      BY <3>3, RestStep
    <3>6. \A i \in Cells : i # k => y.seq[i] = x.seq[i]
      BY <3>3 DEF Apart
    <3>. HIDE DEF S, f
    <3>7. y \in X(k + 1)
      BY <2>1, <3>3, <3>4, <3>5, <3>6
    <3>. QED BY <2>3, <3>2, <3>7
  <2>. QED BY <2>2, <2>3
<1>5. \A k \in Cells : \A x \in I[k] : (IF k \in S THEN f[k][x] ELSE x) \in I[k + 1]
  <2>1. \A k \in Cells : k \in 0..Size /\ k + 1 \in 0..Size
    BY <1>2
  <2>. HIDE DEF X, S, f
  <2>. QED BY <1>4, <2>1
<1>6. ForEach(f, c, S) \in X(Size)
  <2>1. I[Size] = X(Size)
    BY <1>2
  <2>. HIDE DEF I, X, S, f
  <2>. QED BY <1>1, <1>3, <1>5, <2>1, CellsLoop
<1>. DEFINE d == ForEach(f, c, S)
            e == HeadLowered(c, d)
<1>7. d \in Good /\ Rest(c, d) /\ \A i \in S : s \notin d.seq[i]
  <2>1. \A i \in S : i \in Cells /\ i < Size
    BY <1>1, <1>2
  <2>. HIDE DEF S, f, d
  <2>. QED BY <1>6, <2>1 DEF d
<1>8. SeqRmIn(c, s, r) = e
  BY DEF SeqRmIn
<1>. HIDE DEF S, d
<1>9. e \in Good /\ e.pos = d.pos /\ e.seq = d.seq /\ e.shift = d.shift /\ e.hasShift = d.hasShift
  BY <1>7, HeadLoweredFacts
<1>. HIDE DEF e
<1>10. Rest(c, e)
  BY <1>7, <1>9 DEF Rest
<1>. QED BY <1>7, <1>8, <1>9, <1>10 DEF S

(* All sequences removed from a range, and all but one from all cells. *)
LEMMA SeqRmAnyInFacts ==
  ASSUME NEW c \in Good, NEW r
  PROVE  SeqRmAnyIn(c, r) \in Good /\ Rest(c, SeqRmAnyIn(c, r))
<1>. DEFINE S == InRange(c, r)
            f == [i \in Cells |-> [d \in CellStates |-> RmCell(d, i)]]
            I == {d \in Good : Rest(c, d)}
            d == ForEach(f, c, S)
            e == HeadLowered(c, d)
<1>1. S \in SUBSET Cells
  BY DEF InRange
<1>2. c \in I
  BY DEF Rest
<1>3. ASSUME NEW k \in Cells, NEW x \in I PROVE f[k][x] \in I
  <2>. DEFINE y == RmCell(x, k)
  <2>1. x \in Sound /\ x \in CellStates
    BY DEF Good, Sound
  <2>2. /\ y \in Sound /\ Apart(x, y, k) /\ y.hasShift = x.hasShift
        /\ y.pos[k] = -1 /\ y.seq[k] = {} /\ y.shift[k] = 0
    BY <2>1, RmCellFacts
  <2>3. f[k][x] = y
    BY <2>1
  <2>. HIDE DEF y, f
  <2>4. y \in Good
    BY <2>2 DEF Good, Apart
  <2>5. Rest(c, y)
    BY <2>2, RestStep
  <2>. QED BY <2>3, <2>4, <2>5
<1>4. d \in I
  <2>1. \A k \in S : \A x \in I : f[k][x] \in I
    BY <1>1, <1>3
  <2>. HIDE DEF I, S, f
  <2>. QED BY <1>1, <1>2, <2>1, CellsKeep
<1>5. SeqRmAnyIn(c, r) = e
  BY DEF SeqRmAnyIn
<1>. HIDE DEF d
<1>6. e \in Good /\ e.pos = d.pos /\ e.seq = d.seq /\ e.shift = d.shift /\ e.hasShift = d.hasShift
  BY <1>4, HeadLoweredFacts
<1>. HIDE DEF e
<1>. QED BY <1>4, <1>5, <1>6 DEF Rest

(* All sequences but one removed from all cells. *)
LEMMA SeqKeepInFacts ==
  ASSUME NEW c \in Good, NEW s \in Seqs
  PROVE  SeqKeepIn(c, s) \in Good /\ Rest(c, SeqKeepIn(c, s))
<1>. DEFINE f == [i \in Cells |-> [d \in CellStates |-> SeqKeepCell(d, i, s)]]
            I == {d \in Good : Rest(c, d)}
            d == ForEach(f, c, Cells)
            e == HeadLowered(c, d)
<1>2. c \in I
  BY DEF Rest
<1>3. ASSUME NEW k \in Cells, NEW x \in I PROVE f[k][x] \in I
  <2>. DEFINE y == SeqKeepCell(x, k, s)
  <2>1. x \in Sound /\ x \in CellStates /\ (x.pos[k] = -1 <=> x.seq[k] = {})
    BY DEF Good, Sound
  <2>2. /\ y \in Sound /\ Apart(x, y, k) /\ y.hasShift = x.hasShift
        /\ \/ y.pos[k] = -1 /\ y.seq[k] = {} /\ y.shift[k] = 0
           \/ s \in x.seq[k] /\ y.pos[k] = x.pos[k] /\ y.seq[k] = {s} /\ y.shift[k] = x.shift[k]
    BY <2>1, SeqKeepCellFacts
  <2>3. f[k][x] = y
    BY <2>1
  <2>. HIDE DEF y, f
  <2>4. y \in Good
    BY <2>1, <2>2 DEF Good, Apart
  <2>5. Rest(c, y)
    BY <2>2, RestStep
  <2>. QED BY <2>3, <2>4, <2>5
<1>4. d \in I
  <2>. HIDE DEF I, f
  <2>. QED BY <1>2, <1>3, CellsKeep
<1>5. SeqKeepIn(c, s) = e
  BY DEF SeqKeepIn
<1>. HIDE DEF d
<1>6. e \in Good /\ e.pos = d.pos /\ e.seq = d.seq /\ e.shift = d.shift /\ e.hasShift = d.hasShift
  BY <1>4, HeadLoweredFacts
<1>. HIDE DEF e
<1>. QED BY <1>4, <1>5, <1>6 DEF Rest

(* A sequence added to the cells another has in a range, which it is not in *)
(* yet.                                                                     *)
LEMMA SeqCpInFacts ==
  ASSUME NEW c \in Good, NEW s \in Seqs, NEW t \in Seqs, NEW r, Shared(c, s, t, r) = {}
  PROVE  SeqCpIn(c, s, t, r) \in Good /\ Kept(c, SeqCpIn(c, s, t, r))
<1>. DEFINE S == InRange(c, r) \cap OfSeq(c, s)
            f == [i \in Cells |-> [d \in CellStates |-> SeqAddCell(d, i, t)]]
            X(k) == {d \in Good : /\ Kept(c, d) /\ d.pos = c.pos
                                  /\ \A i \in Cells : i >= k => d.seq[i] = c.seq[i]}
            I == [k \in 0..Size |-> X(k)]
<1>1. S \in SUBSET Cells /\ \A i \in S : t \notin c.seq[i] /\ c.seq[i] # {}
  BY DEF InRange, OfSeq, Shared
<1>2. Size \in Nat /\ Cells = 0..Size - 1
  BY SizeFacts
<1>3. c \in I[0]
  BY <1>2 DEF Kept
<1>4. ASSUME NEW k \in Cells, NEW x \in X(k) PROVE (IF k \in S THEN f[k][x] ELSE x) \in X(k + 1)
  <2>1. k \in Int /\ \A i \in Cells : i \in Int /\ (i >= k + 1 <=> i >= k /\ i # k)
    BY <1>2
  <2>2. CASE k \notin S
    BY <2>1, <2>2
  <2>3. CASE k \in S
    <3>. DEFINE y == SeqAddCell(x, k, t)
    <3>1. x \in Sound /\ x \in CellStates /\ t \notin x.seq[k] /\ x.pos[k] # -1
      BY <1>1, <2>1, <2>3 DEF Good, Sound
    <3>2. f[k][x] = y
      BY <3>1
    <3>3. /\ y \in Sound /\ Apart(x, y, k) /\ y.seq[k] = x.seq[k] \cup {t}
          /\ y.pos = x.pos /\ y.shift = x.shift
      BY <3>1, SeqAddCellFacts
    <3>. HIDE DEF y, S, f
    <3>4. y \in Good
      BY <3>1, <3>3 DEF Good, Apart
    <3>5. Kept(c, y)
      BY <3>3 DEF Kept
    <3>6. \A i \in Cells : i # k => y.seq[i] = x.seq[i]
      BY <3>3 DEF Apart
    <3>7. y \in X(k + 1)
      BY <2>1, <3>3, <3>4, <3>5, <3>6
    <3>. QED BY <2>3, <3>2, <3>7
  <2>. QED BY <2>2, <2>3
<1>5. \A k \in Cells : \A x \in I[k] : (IF k \in S THEN f[k][x] ELSE x) \in I[k + 1]
  <2>1. \A k \in Cells : k \in 0..Size /\ k + 1 \in 0..Size
    BY <1>2
  <2>. HIDE DEF X, S, f
  <2>. QED BY <1>4, <2>1
<1>6. ForEach(f, c, S) \in X(Size)
  <2>1. I[Size] = X(Size)
    BY <1>2
  <2>. HIDE DEF I, X, S, f
  <2>. QED BY <1>1, <1>3, <1>5, <2>1, CellsLoop
<1>. QED BY <1>6 DEF SeqCpIn

(* Positions shifted: a cell owes as much more as its position moves. *)
LEMMA SeqAddInFacts ==
  ASSUME NEW c \in Good, NEW s \in Seqs, NEW r, NEW shift \in Int,
         \A i \in InRange(c, r) \cap OfSeq(c, s) : c.pos[i] + shift <= MaxPos
  PROVE  SeqAddIn(c, s, r, shift) \in Good /\ Kept(c, SeqAddIn(c, s, r, shift))
<1>. DEFINE S == InRange(c, r) \cap OfSeq(c, s)
            f == [i \in Cells |-> [d \in CellStates |-> PosAdd(d, i, shift)]]
            X(k) == {d \in Good : /\ Kept(c, d)
                                  /\ \A i \in Cells : i >= k => d.seq[i] = c.seq[i] /\ d.pos[i] = c.pos[i]
                                                                /\ d.shift[i] = c.shift[i]}
            I == [k \in 0..Size |-> X(k)]
<1>1. S \in SUBSET Cells /\ \A i \in S : c.seq[i] # {} /\ c.pos[i] + shift <= MaxPos
  BY DEF InRange, OfSeq
<1>2. Size \in Nat /\ Cells = 0..Size - 1
  BY SizeFacts
<1>3. c \in I[0]
  BY <1>2 DEF Kept
<1>4. ASSUME NEW k \in Cells, NEW x \in X(k) PROVE (IF k \in S THEN f[k][x] ELSE x) \in X(k + 1)
  <2>1. k \in Int /\ k >= k /\ \A i \in Cells : i \in Int /\ (i >= k + 1 <=> i >= k /\ i # k)
    BY <1>2
  <2>2. CASE k \notin S
    BY <2>1, <2>2
  <2>3. CASE k \in S
    <3>. DEFINE y == PosAdd(x, k, shift)
    <3>1. /\ x \in Sound /\ x \in CellStates /\ c.pos[k] # -1
          /\ x.pos[k] = c.pos[k] /\ x.shift[k] = c.shift[k] /\ x.seq[k] = c.seq[k]
      BY <1>1, <2>1, <2>3 DEF Good, Sound
    <3>2. f[k][x] = y
      BY <3>1
    <3>8. x.pos[k] # -1 /\ x.pos[k] + shift <= MaxPos
      BY <1>1, <2>3, <3>1
    <3>3. /\ y \in Sound /\ Apart(x, y, k)
          /\ IF x.pos[k] + shift < 0 THEN y.pos[k] = -1 /\ y.seq[k] = {} /\ y.shift[k] = 0
             ELSE y.pos[k] = x.pos[k] + shift /\ y.seq[k] = x.seq[k] /\ y.shift[k] = x.shift[k] + shift
      BY <3>1, <3>8, PosAddFacts
    <3>9. x.pos[k] \in Int /\ x.shift[k] \in Int
      BY <3>1 DEF CellStates
    <3>. HIDE DEF y, S, f
    <3>4. y \in Good
      <4>1. y.pos[k] = -1 <=> y.seq[k] = {}
        BY <1>1, <2>3, <3>1, <3>3, <3>9 DEF S
      <4>. QED BY <3>3, <4>1 DEF Good, Apart
    <3>5. Kept(c, y)
      <4>1. y.pos[k] = -1 \/ (c.pos[k] # -1 /\ y.pos[k] - y.shift[k] = c.pos[k] - c.shift[k])
        BY <3>1, <3>3, <3>9
      <4>. QED BY <3>3, <4>1 DEF Kept, Apart
    <3>6. \A i \in Cells : i # k => y.seq[i] = x.seq[i] /\ y.pos[i] = x.pos[i] /\ y.shift[i] = x.shift[i]
      BY <3>3 DEF Apart
    <3>7. y \in X(k + 1)
      BY <2>1, <3>4, <3>5, <3>6
    <3>. QED BY <2>3, <3>2, <3>7
  <2>. QED BY <2>2, <2>3
<1>5. \A k \in Cells : \A x \in I[k] : (IF k \in S THEN f[k][x] ELSE x) \in I[k + 1]
  <2>1. \A k \in Cells : k \in 0..Size /\ k + 1 \in 0..Size
    BY <1>2
  <2>. HIDE DEF X, S, f
  <2>. QED BY <1>4, <2>1
<1>. DEFINE d == ForEach(f, c, S)
<1>6. d \in X(Size)
  <2>1. I[Size] = X(Size)
    BY <1>2
  <2>. HIDE DEF I, X, S, f
  <2>. QED BY <1>1, <1>3, <1>5, <2>1, CellsLoop
<1>. DEFINE e == [d EXCEPT !.head = IF NewHead(c, d) < Size THEN NewHead(c, d) ELSE 0]
<1>7. SeqAddIn(c, s, r, shift) = e
  BY DEF SeqAddIn
<1>8. d \in Good /\ Kept(c, d)
  BY <1>6
<1>. HIDE DEF d
<1>9. (IF NewHead(c, d) < Size THEN NewHead(c, d) ELSE 0) \in 0..Size
  BY <1>2, NewHeadType
<1>10. e \in Good /\ e.pos = d.pos /\ e.shift = d.shift
  <2>1. PICK h : h = IF NewHead(c, d) < Size THEN NewHead(c, d) ELSE 0
    OBVIOUS
  <2>2. e = [d EXCEPT !.head = h]
    BY <2>1
  <2>. HIDE DEF e
  <2>. QED BY <1>8, <1>9, <2>1, <2>2, HeadSet
<1>. HIDE DEF e
<1>. QED BY <1>7, <1>8, <1>10 DEF Kept

(* A stream without cells in use; the copy of a cell into it. *)
LEMMA ResetFacts ==
  /\ Reset \in Good /\ ~Reset.hasShift
  /\ \A i \in Cells : Reset.pos[i] = -1 /\ Reset.seq[i] = {} /\ Reset.shift[i] = 0
<1>. DEFINE c == Reset
<1>1. c = [pos |-> [i \in Cells |-> -1], seq |-> [i \in Cells |-> {}],
           shift |-> [i \in Cells |-> 0], hasShift |-> FALSE, used |-> {},
           seqPos |-> [s \in Seqs |-> [p \in Pos |-> 0]], head |-> 0]
  BY DEF Reset
<1>. HIDE DEF c
<1>2. c \in CellStates
  BY <1>1, SizeFacts DEF CellStates
<1>3. c.pos \in [Cells -> Pos \cup {-1}] /\ c.used = {i \in Cells : c.pos[i] # -1}
  BY <1>1
<1>4. ~c.hasShift /\ \A i \in Cells : c.pos[i] = -1 /\ c.seq[i] = {} /\ c.shift[i] = 0
  BY <1>1
<1>5. \A s \in Seqs, p \in Pos : c.seqPos[s][p] = Cardinality(At(c, s, p))
  <2>1. TAKE s \in Seqs, p \in Pos
  <2>2. At(c, s, p) = {}
    BY <1>4 DEF At
  <2>3. c.seqPos[s][p] = 0
    BY <1>1
  <2>. QED BY <2>2, <2>3, FS_EmptySet
<1>6. c \in Good
  BY <1>2, <1>3, <1>4, <1>5 DEF Good, Sound
<1>. QED BY <1>4, <1>6 DEF c

(* The copy of one cell into a free one owes what the cell owes. *)
LEMMA CpCellFacts ==
  ASSUME NEW c \in Good, NEW d \in Sound, NEW i \in Cells, NEW t \in Seqs,
         d.pos[i] = -1, d.seq[i] = {}, c.pos[i] # -1, c.pos[i] - c.shift[i] \in Pos
  PROVE  LET y == CpCell(c, d, i, t) IN
         /\ y \in Sound /\ Apart(d, y, i)
         /\ y.pos[i] = c.pos[i] /\ y.seq[i] = {t} /\ y.shift[i] = c.shift[i]
<1>. DEFINE q == c.shift[i]
            p == c.pos[i] - q
            e == PosSet(d, i, p)
            w == SeqAddCell(e, i, t)
            z == PosAdd(w, i, q)
<1>1. /\ c.pos[i] \in Int /\ c.pos[i] \in Pos /\ q \in Int /\ c.pos[i] <= MaxPos
      /\ 0 <= c.pos[i] /\ p \in Int /\ p + q = c.pos[i]
  BY SizeAssumption DEF Good, Sound, CellStates, Pos
<1>2. p \in Pos
  OBVIOUS
<1>3. CpCell(c, d, i, t) = IF q = 0 THEN w ELSE z
  BY DEF CpCell
<1>. HIDE DEF p, q
<1>4. /\ e \in Sound /\ Apart(d, e, i) /\ e.pos[i] = p /\ e.seq = d.seq /\ e.shift[i] = 0
  BY <1>2, PosSetFacts
<1>. HIDE DEF e
<1>5. e.pos[i] # -1 /\ t \notin e.seq[i] /\ e.seq[i] = {}
  BY <1>2, <1>4 DEF Pos
<1>6. /\ w \in Sound /\ Apart(e, w, i) /\ w.seq[i] = e.seq[i] \cup {t} /\ w.pos = e.pos
      /\ w.shift = e.shift
  BY <1>4, <1>5, SeqAddCellFacts
<1>. HIDE DEF w
<1>7. w.pos[i] = p /\ w.pos[i] # -1 /\ w.seq[i] = {t} /\ w.shift[i] = 0 /\ Apart(d, w, i)
  BY <1>4, <1>5, <1>6 DEF Apart
<1>8. CASE q = 0
  <2>1. p = c.pos[i]
    BY <1>1, <1>8
  <2>. QED BY <1>3, <1>6, <1>7, <1>8, <2>1 DEF q
<1>9. CASE q # 0
  <2>1. w.pos[i] + q = c.pos[i] /\ w.pos[i] + q <= MaxPos /\ ~(w.pos[i] + q < 0) /\ w.shift[i] + q = q
    BY <1>1, <1>7
  <2>2. /\ z \in Sound /\ Apart(w, z, i)
        /\ IF w.pos[i] + q < 0 THEN z.pos[i] = -1 /\ z.seq[i] = {} /\ z.shift[i] = 0
           ELSE z.pos[i] = w.pos[i] + q /\ z.seq[i] = w.seq[i] /\ z.shift[i] = w.shift[i] + q
    BY <1>1, <1>6, <1>7, <2>1, PosAddFacts
  <2>. HIDE DEF z
  <2>3. Apart(d, z, i)
    BY <1>7, <2>2 DEF Apart
  <2>. QED BY <1>3, <1>7, <1>9, <2>1, <2>2, <2>3 DEF q
<1>. QED BY <1>8, <1>9

(* A sequence copied to another stream: its cells owe there what they owe. *)
LEMMA SeqCpOverFacts ==
  ASSUME NEW c \in Good, NEW s \in Seqs, NEW t \in Seqs,
         \A i \in Cells : c.pos[i] # -1 => c.pos[i] - c.shift[i] \in Pos
  PROVE  SeqCpOver(c, s, t) \in Good /\ Kept(c, SeqCpOver(c, s, t))
<1>. DEFINE S == OfSeq(c, s)
            f == [i \in Cells |-> [d \in CellStates |-> CpCell(c, d, i, t)]]
            X(k) == {d \in Good : /\ Kept(c, d)
                                  /\ \A i \in Cells : i >= k => d.pos[i] = -1 /\ d.seq[i] = {}}
            I == [k \in 0..Size |-> X(k)]
<1>1. S \in SUBSET Cells /\ \A i \in S : c.pos[i] # -1
  BY DEF OfSeq, Good
<1>2. Size \in Nat /\ Cells = 0..Size - 1
  BY SizeFacts
<1>3. Reset \in I[0]
  BY <1>2, ResetFacts DEF Kept
<1>4. ASSUME NEW k \in Cells, NEW x \in X(k) PROVE (IF k \in S THEN f[k][x] ELSE x) \in X(k + 1)
  <2>1. k \in Int /\ k >= k /\ \A i \in Cells : i \in Int /\ (i >= k + 1 <=> i >= k /\ i # k)
    BY <1>2
  <2>2. CASE k \notin S
    BY <2>1, <2>2
  <2>3. CASE k \in S
    <3>. DEFINE y == CpCell(c, x, k, t)
    <3>1. x \in Sound /\ x \in CellStates /\ x.pos[k] = -1 /\ x.seq[k] = {}
      BY <2>1 DEF Good, Sound
    <3>2. f[k][x] = y
      BY <3>1
    <3>3. /\ y \in Sound /\ Apart(x, y, k)
          /\ y.pos[k] = c.pos[k] /\ y.seq[k] = {t} /\ y.shift[k] = c.shift[k]
      BY <1>1, <2>3, <3>1, CpCellFacts
    <3>. HIDE DEF y
    <3>4. y \in Good
      BY <1>1, <2>3, <3>3 DEF Good, Apart
    <3>. HIDE DEF f
    <3>5. Kept(c, y)
      BY <1>1, <2>3, <3>3 DEF Kept, Apart
    <3>. HIDE DEF S
    <3>6. \A i \in Cells : i # k => y.seq[i] = x.seq[i] /\ y.pos[i] = x.pos[i]
      BY <3>3 DEF Apart
    <3>7. y \in X(k + 1)
      BY <2>1, <3>4, <3>5, <3>6
    <3>. QED BY <2>3, <3>2, <3>7
  <2>. QED BY <2>2, <2>3
<1>5. \A k \in Cells : \A x \in I[k] : (IF k \in S THEN f[k][x] ELSE x) \in I[k + 1]
  <2>1. \A k \in Cells : k \in 0..Size /\ k + 1 \in 0..Size
    BY <1>2
  <2>. HIDE DEF X, S, f
  <2>. QED BY <1>4, <2>1
<1>. DEFINE d == ForEach(f, Reset, S)
<1>6. d \in X(Size)
  <2>1. I[Size] = X(Size)
    BY <1>2
  <2>. HIDE DEF I, X, S, f
  <2>. QED BY <1>1, <1>3, <1>5, <2>1, CellsLoop
<1>7. SeqCpOver(c, s, t) = [d EXCEPT !.head = c.head]
  BY DEF SeqCpOver
<1>8. d \in Good /\ Kept(c, d) /\ c.head \in 0..Size
  BY <1>6 DEF Good, Sound, CellStates
<1>. HIDE DEF d
<1>. DEFINE e == [d EXCEPT !.head = c.head]
<1>9. e \in Good /\ e.pos = d.pos /\ e.shift = d.shift
  <2>1. PICK h \in 0..Size : h = c.head
    BY <1>8
  <2>2. e = [d EXCEPT !.head = h]
    BY <2>1
  <2>. HIDE DEF e
  <2>. QED BY <1>8, <2>2, HeadSet
<1>. HIDE DEF e
<1>10. SeqCpOver(c, s, t) = e
  BY <1>7 DEF e
<1>. QED BY <1>8, <1>9, <1>10 DEF Kept

-----------------------------------------------------------------------------
(* Tokens placed into cells.                                               *)

(* A stream of which no cell owes a shift. *)
Still == {c \in Good : ~c.hasShift}

(* Its cells owe nothing. *)
LEMMA StillFacts ==
  ASSUME NEW c \in Still
  PROVE  /\ c \in Good /\ c \in Sound /\ c \in CellStates
         /\ \A i \in Cells : c.shift[i] = 0 /\ c.pos[i] \in Pos \cup {-1} /\ c.pos[i] \in Int
BY DEF Still, Good, Sound, CellStates

(* Losing some, it still owes nothing. *)
LEMMA RestStill ==
  ASSUME NEW c \in Still, NEW d \in Good, Rest(c, d)
  PROVE  d \in Still
BY DEF Still, Rest

(* A free cell gets a position and sequences. *)
LEMMA PutFacts ==
  ASSUME NEW c \in Sound, NEW i \in Cells, c.pos[i] = -1, c.seq[i] = {},
         NEW p \in Pos, NEW S \in SUBSET Seqs
  PROVE  LET d == Put(c, i, p, S) IN
         /\ d \in Sound /\ Apart(c, d, i) /\ d.hasShift = c.hasShift
         /\ d.pos[i] = p /\ d.seq[i] = S
<1>. DEFINE f == [s \in Seqs |-> [d \in CellStates |-> SeqAddCell(d, i, s)]]
            b == PosSet(c, i, p)
            X(k) == {d \in Sound : /\ Apart(c, d, i) /\ d.hasShift = c.hasShift /\ d.pos[i] = p
                                   /\ d.seq[i] = {s \in S : s < k}}
            I == [k \in 0..NSeq |-> X(k)]
            n == NSeq - 1
<1>1. n \in Nat /\ n + 1 = NSeq /\ NSeq \in Nat /\ Seqs = 0..n /\ S \in SUBSET (0..n)
  BY SizeAssumption DEF Seqs
<1>0. \A s \in S : s \in Int /\ 0 <= s /\ s <= n
  BY <1>1
<1>2. b \in I[0]
  <2>1. {s \in S : s < 0} = {}
    BY <1>0
  <2>2. b \in Sound /\ Apart(c, b, i) /\ b.hasShift = c.hasShift /\ b.pos[i] = p /\ b.seq = c.seq
    BY PosSetFacts
  <2>. HIDE DEF b
  <2>3. b \in X(0)
    BY <2>1, <2>2
  <2>. QED BY <1>1, <2>3
<1>3. ASSUME NEW k \in 0..n, NEW x \in X(k) PROVE (IF k \in S THEN f[k][x] ELSE x) \in X(k + 1)
  <2>0. k \in Int
    OBVIOUS
  <2>1. {s \in S : s < k + 1} = IF k \in S THEN {s \in S : s < k} \cup {k} ELSE {s \in S : s < k}
    <3>. HIDE DEF n
    <3>1. \A s \in S : s < k + 1 <=> s < k \/ s = k
      BY <1>0, <2>0
    <3>2. ~(k < k)
      BY <2>0
    <3>. QED BY <3>1, <3>2
  <2>2. CASE k \notin S
    <3>1. {s \in S : s < k + 1} = {s \in S : s < k}
      BY <2>1, <2>2
    <3>. QED BY <2>2, <3>1
  <2>3. CASE k \in S
    <3>. DEFINE y == SeqAddCell(x, i, k)
    <3>1. x \in Sound /\ x \in CellStates /\ x.pos[i] # -1 /\ k \notin x.seq[i] /\ k \in Seqs
      BY <1>1 DEF Sound, Pos
    <3>2. f[k][x] = y
      BY <3>1
    <3>3. /\ y \in Sound /\ Apart(x, y, i) /\ y.hasShift = x.hasShift
          /\ y.seq[i] = x.seq[i] \cup {k} /\ y.pos = x.pos
      BY <3>1, SeqAddCellFacts
    <3>. HIDE DEF y, f
    <3>4. Apart(c, y, i)
      BY <3>3 DEF Apart
    <3>5. y.seq[i] = {s \in S : s < k + 1}
      BY <2>1, <2>3, <3>3
    <3>6. y \in X(k + 1)
      BY <3>3, <3>4, <3>5
    <3>. QED BY <2>3, <3>2, <3>6
  <2>. QED BY <2>2, <2>3
<1>4. \A k \in 0..n : \A x \in I[k] : (IF k \in S THEN f[k][x] ELSE x) \in I[k + 1]
  <2>1. \A k \in 0..n : k \in 0..NSeq /\ k + 1 \in 0..NSeq
    BY <1>1
  <2>. HIDE DEF X, f
  <2>. QED BY <1>3, <2>1
<1>5. Put(c, i, p, S) = ForEach(f, b, S)
  BY DEF Put
<1>6. ForEach(f, b, S) \in X(n + 1)
  <2>1. I[n + 1] = X(n + 1)
    BY <1>1
  <2>. HIDE DEF I, X, f, b, n
  <2>. QED BY <1>1, <1>2, <1>4, <2>1, LoopRule
<1>7. {s \in S : s < n + 1} = S
  <2>1. n \in Int
    BY <1>1
  <2>. HIDE DEF n
  <2>2. \A s \in S : s < n + 1
    BY <1>0, <2>1
  <2>. QED BY <2>2
<1>. HIDE DEF f, b, n
<1>. QED BY <1>5, <1>6, <1>7

(* Tokens: a position, and at least one sequence. *)
Tokens == [pos : Pos, owners : (SUBSET Seqs) \ {{}}]
Placings == [c : Still, rm : [Seqs -> Int]]

(* A token placed into a cell, free or not, has it for itself. *)
LEMMA PlaceFacts ==
  ASSUME NEW a \in Placings, NEW i \in Cells, NEW tok \in Tokens
  PROVE  LET r == Place(a, i, tok) IN
         r \in Placings /\ Apart(a.c, r.c, i) /\ r.c.pos[i] = tok.pos /\ r.c.seq[i] = tok.owners
<1>. DEFINE e == IF a.c.pos[i] = -1 THEN a.c ELSE RmCell(a.c, i)
            d == Put(e, i, tok.pos, tok.owners)
            rm == [s \in Seqs |-> IF s \in a.c.seq[i] THEN Max({a.rm[s], a.c.pos[i]}) ELSE a.rm[s]]
<1>1. a.c \in Still /\ a.rm \in [Seqs -> Int] /\ tok.pos \in Pos /\ tok.owners \in (SUBSET Seqs) \ {{}}
  BY DEF Placings, Tokens
<1>2. /\ a.c \in Good /\ a.c \in Sound /\ ~a.c.hasShift
      /\ \A j \in Cells : a.c.pos[j] = -1 <=> a.c.seq[j] = {}
  BY <1>1 DEF Still, Good
<1>3. e \in Sound /\ Apart(a.c, e, i) /\ e.hasShift = a.c.hasShift /\ e.pos[i] = -1 /\ e.seq[i] = {}
  <2>1. CASE a.c.pos[i] = -1
    BY <1>2, <2>1 DEF Apart
  <2>2. CASE a.c.pos[i] # -1
    BY <1>2, <2>2, RmCellFacts
  <2>. QED BY <2>1, <2>2
<1>. HIDE DEF e
<1>4. /\ d \in Sound /\ Apart(e, d, i) /\ d.hasShift = e.hasShift
      /\ d.pos[i] = tok.pos /\ d.seq[i] = tok.owners
  BY <1>1, <1>3, PutFacts
<1>5. Place(a, i, tok) = [c |-> d, rm |-> rm]
  BY DEF Place, e
<1>. HIDE DEF d
<1>6. Apart(a.c, d, i)
  BY <1>3, <1>4 DEF Apart
<1>7. tok.pos # -1
  BY <1>1 DEF Pos
<1>8. d \in Still
  BY <1>1, <1>2, <1>3, <1>4, <1>6, <1>7 DEF Still, Good, Apart
<1>9. rm \in [Seqs -> Int]
  <2>1. a.c.pos[i] \in Int
    BY <1>1, StillFacts
  <2>2. ASSUME NEW m \in Int, NEW k \in Int PROVE Max({m, k}) \in Int
    <3>1. PICK h \in Int : \A x \in {m, k} : x <= h
      <4>1. m <= k \/ k <= m
        BY <2>2
      <4>. QED BY <4>1
    <3>2. {m, k} \in SUBSET Int /\ {m, k} # {}
      OBVIOUS
    <3>3. Max({m, k}) \in {m, k}
      BY <3>1, <3>2, MaxOf
    <3>. QED BY <3>2, <3>3
  <2>3. \A s \in Seqs : rm[s] \in Int
    BY <1>1, <2>1, <2>2
  <2>. QED BY <2>3
<1>. HIDE DEF rm
<1>. QED BY <1>4, <1>5, <1>6, <1>8, <1>9 DEF Placings

(* The tokens placed, and what is written into their cells, side by side:   *)
(* before round k.                                                          *)
Filling(c, row, idxs, toks, k) ==
  {q \in Placings \X [Cells -> Int] : \A i \in Cells :
     \/ /\ \A m \in 1..k - 1 : idxs[m] # i
        /\ q[1].c.pos[i] = c.pos[i] /\ q[1].c.seq[i] = c.seq[i] /\ q[2][i] = row[i]
     \/ \E m \in 1..k - 1 : /\ idxs[m] = i /\ q[2][i] = toks[m].pos
                            /\ q[1].c.pos[i] = toks[m].pos /\ q[1].c.seq[i] = toks[m].owners}

(* One round of both. *)
LEMMA FillingStep ==
  ASSUME NEW c, NEW row, NEW n \in Nat, NEW idxs \in [1..n -> Cells], NEW toks \in [1..n -> Tokens],
         NEW k \in 1..n, NEW x, NEW y, <<x, y>> \in Filling(c, row, idxs, toks, k)
  PROVE  <<Place(x, idxs[k], toks[k]), [y EXCEPT ![idxs[k]] = toks[k].pos]>>
            \in Filling(c, row, idxs, toks, k + 1)
<1>. DEFINE r == Place(x, idxs[k], toks[k])
            z == [y EXCEPT ![idxs[k]] = toks[k].pos]
<1>1. x \in Placings /\ y \in [Cells -> Int] /\ idxs[k] \in Cells /\ toks[k] \in Tokens
  BY DEF Filling
<1>2. /\ r \in Placings /\ Apart(x.c, r.c, idxs[k])
      /\ r.c.pos[idxs[k]] = toks[k].pos /\ r.c.seq[idxs[k]] = toks[k].owners
  BY <1>1, PlaceFacts
<1>3. toks[k].pos \in Int
  BY <1>1 DEF Tokens, Pos
<1>4. z \in [Cells -> Int] /\ z[idxs[k]] = toks[k].pos /\ \A i \in Cells : i # idxs[k] => z[i] = y[i]
  BY <1>1, <1>3
<1>5. 1..(k + 1) - 1 = (1..k - 1) \cup {k}
  OBVIOUS
<1>. HIDE DEF r, z
<1>6. ASSUME NEW i \in Cells
      PROVE  \/ /\ \A m \in 1..(k + 1) - 1 : idxs[m] # i
                /\ r.c.pos[i] = c.pos[i] /\ r.c.seq[i] = c.seq[i] /\ z[i] = row[i]
             \/ \E m \in 1..(k + 1) - 1 : /\ idxs[m] = i /\ z[i] = toks[m].pos
                                          /\ r.c.pos[i] = toks[m].pos /\ r.c.seq[i] = toks[m].owners
  <2>1. CASE i = idxs[k]
    BY <1>2, <1>4, <1>5, <2>1
  <2>2. CASE i # idxs[k]
    <3>1. r.c.pos[i] = x.c.pos[i] /\ r.c.seq[i] = x.c.seq[i] /\ z[i] = y[i]
      BY <1>2, <1>4, <2>2 DEF Apart
    <3>2. \/ /\ \A m \in 1..k - 1 : idxs[m] # i
             /\ x.c.pos[i] = c.pos[i] /\ x.c.seq[i] = c.seq[i] /\ y[i] = row[i]
          \/ \E m \in 1..k - 1 : /\ idxs[m] = i /\ y[i] = toks[m].pos
                                 /\ x.c.pos[i] = toks[m].pos /\ x.c.seq[i] = toks[m].owners
      BY DEF Filling
    <3>. QED BY <1>5, <2>2, <3>1, <3>2
  <2>. QED BY <2>1, <2>2
<1>7. <<r, z>> \in Placings \X [Cells -> Int] /\ <<r, z>>[1] = r /\ <<r, z>>[2] = z
  BY <1>2, <1>4
<1>8. <<r, z>> \in Filling(c, row, idxs, toks, k + 1)
  BY <1>6, <1>7, ZenonT(60) DEF Filling
<1>. QED BY <1>8 DEF r, z

(* All rounds of both. *)
LEMMA PlacedFacts ==
  ASSUME NEW c \in Still, NEW row \in [Cells -> Int], NEW n \in Nat,
         NEW idxs \in [1..n -> Cells], NEW toks \in [1..n -> Tokens],
         NEW ps, \A k \in 1..n : ps[k] = toks[k].pos
  PROVE  <<Placed(c, idxs, toks), Written(row, idxs, ps)>> \in Filling(c, row, idxs, toks, n + 1)
<1>. DEFINE a == [c |-> c, rm |-> [s \in Seqs |-> -1]]
            f == [k \in DOMAIN idxs |-> [acc \in [c : CellStates, rm : [Seqs -> Int]] |->
                    Place(acc, idxs[k], toks[k])]]
            g == [k \in DOMAIN idxs |-> [d \in [Cells -> Int] |-> [d EXCEPT ![idxs[k]] = ps[k]]]]
            I == [k \in 0..n + 1 |-> Filling(c, row, idxs, toks, k)]
            S == 1..n
<1>1. S \in SUBSET (0..n) /\ DOMAIN idxs = S
  OBVIOUS
<1>2. <<a, row>> \in I[0]
  <2>1. \A m \in 1..0 - 1 : FALSE
    OBVIOUS
  <2>2. a \in Placings /\ a.c = c
    BY DEF Placings
  <2>3. 0 \in 0..n + 1
    OBVIOUS
  <2>. HIDE DEF a
  <2>4. <<a, row>> \in Filling(c, row, idxs, toks, 0)
    BY <2>1, <2>2 DEF Filling
  <2>. QED BY <2>3, <2>4
<1>3. ASSUME NEW k \in 0..n, NEW x, NEW y, <<x, y>> \in I[k]
      PROVE  <<IF k \in S THEN f[k][x] ELSE x, IF k \in S THEN g[k][y] ELSE y>> \in I[k + 1]
  <2>1. k \in 0..n + 1 /\ k + 1 \in 0..n + 1
    OBVIOUS
  <2>2. <<x, y>> \in Filling(c, row, idxs, toks, k)
    BY <1>3, <2>1
  <2>3. CASE k = 0
    <3>1. 1..0 - 1 = 1..(0 + 1) - 1
      OBVIOUS
    <3>2. Filling(c, row, idxs, toks, 0) = Filling(c, row, idxs, toks, 0 + 1)
      BY <3>1 DEF Filling
    <3>3. k \notin S
      BY <2>3
    <3>. HIDE DEF S, f, g
    <3>. QED BY <2>1, <2>2, <2>3, <3>2, <3>3
  <2>4. CASE k \in S
    <3>1. x \in [c : CellStates, rm : [Seqs -> Int]] /\ y \in [Cells -> Int] /\ k \in DOMAIN idxs
      BY <2>2, <2>4 DEF Filling, Placings, Still, Good, Sound
    <3>2. f[k][x] = Place(x, idxs[k], toks[k])
      BY <3>1
    <3>3. g[k][y] = [y EXCEPT ![idxs[k]] = toks[k].pos]
      BY <2>4, <3>1
    <3>4. <<Place(x, idxs[k], toks[k]), [y EXCEPT ![idxs[k]] = toks[k].pos]>>
             \in Filling(c, row, idxs, toks, k + 1)
      BY <2>2, <2>4, FillingStep
    <3>. HIDE DEF f, g, S
    <3>. QED BY <2>1, <2>4, <3>2, <3>3, <3>4
  <2>. QED BY <2>3, <2>4
<1>4. Placed(c, idxs, toks) = ForEach(f, a, S)
  BY <1>1 DEF Placed
<1>5. Written(row, idxs, ps) = ForEach(g, row, S)
  BY <1>1 DEF Written
<1>6. <<ForEach(f, a, S), ForEach(g, row, S)>> \in I[n + 1]
  <2>. HIDE DEF f, g, a, I, S
  <2>. QED BY <1>1, <1>2, <1>3, Lockstep
<1>7. I[n + 1] = Filling(c, row, idxs, toks, n + 1)
  OBVIOUS
<1>. HIDE DEF f, g, a, I, S
<1>. QED BY <1>4, <1>5, <1>6, <1>7

(* Purging only removes. *)
LEMMA PurgeFacts ==
  ASSUME NEW c \in Still, NEW d \in Still, Rest(c, d), NEW s \in Seqs, NEW last
  PROVE  Purge(d, s, last) \in Still /\ Rest(c, Purge(d, s, last))
<1>. DEFINE e == SeqRmIn(d, s, <<SeqPosMin(d, s), last + 1>>)
<1>1. e \in Good /\ Rest(d, e)
  BY StillFacts, SeqRmInFacts
<1>2. Purge(d, s, last) = e \/ Purge(d, s, last) = d
  BY DEF Purge
<1>. HIDE DEF e
<1>3. e \in Still
  BY <1>1, RestStill
<1>4. Rest(c, e)
  BY <1>1, RestTransitive
<1>. QED BY <1>2, <1>3, <1>4

(* The tokens of a ubatch in their cells, and the rest of the stream.       *)
Filled(c, idxs, toks, d) ==
  /\ d \in Still
  /\ \A i \in Cells :
       \/ d.pos[i] = -1
       \/ i \notin ToSet(idxs) /\ d.pos[i] = c.pos[i]
       \/ \E m \in DOMAIN idxs :
             idxs[m] = i /\ d.pos[i] = toks[m].pos /\ d.seq[i] \subseteq toks[m].owners

(* What is written for them is their positions. *)
Fits(c, row) == \A i \in Cells : c.pos[i] = -1 \/ row[i] = c.pos[i]

(* apply_ubatch, in one stream, with what the computation writes. *)
LEMMA ApplyInFacts ==
  ASSUME NEW c \in Still, NEW row \in [Cells -> Int], NEW n \in Nat \ {0},
         NEW idxs \in [1..n -> Cells], NEW toks \in [1..n -> Tokens],
         NEW ps, \A k \in 1..n : ps[k] = toks[k].pos
  PROVE  /\ Filled(c, idxs, toks, ApplyIn(c, idxs, toks))
         /\ Written(row, idxs, ps) \in [Cells -> Int]
         /\ \A i \in Cells : Written(row, idxs, ps)[i] = row[i] \/ Written(row, idxs, ps)[i] \in Pos
         /\ Fits(c, row) => Fits(ApplyIn(c, idxs, toks), Written(row, idxs, ps))
<1>. DEFINE a == Placed(c, idxs, toks)
            w == Written(row, idxs, ps)
            f == [s \in Seqs |-> [d \in CellStates |-> Purge(d, s, a.rm[s])]]
            e == ForEach(f, a.c, Seqs)
            d == [e EXCEPT !.head = Last(idxs) + 1]
            I == {x \in Still : Rest(a.c, x)}
<1>1. <<a, w>> \in Filling(c, row, idxs, toks, n + 1)
  BY PlacedFacts
<1>2. a \in Placings /\ w \in [Cells -> Int] /\ a.c \in Still
  BY <1>1 DEF Filling, Placings
<1>3. ASSUME NEW i \in Cells
      PROVE  \/ i \notin ToSet(idxs) /\ a.c.pos[i] = c.pos[i] /\ w[i] = row[i]
             \/ \E m \in 1..n : /\ idxs[m] = i /\ w[i] = toks[m].pos
                                /\ a.c.pos[i] = toks[m].pos /\ a.c.seq[i] = toks[m].owners
  <2>1. 1..(n + 1) - 1 = 1..n /\ DOMAIN idxs = 1..n
    OBVIOUS
  <2>. HIDE DEF a, w
  <2>. QED BY <1>1, <2>1 DEF Filling, ToSet
<1>4. e \in Still /\ Rest(a.c, e)
  <2>1. a.c \in I
    BY <1>2 DEF Rest
  <2>2. ASSUME NEW s \in Seqs, NEW x \in I PROVE f[s][x] \in I
    <3>1. x \in CellStates /\ x \in Still /\ Rest(a.c, x)
      BY StillFacts
    <3>2. f[s][x] = Purge(x, s, a.rm[s])
      BY <3>1
    <3>. HIDE DEF f, a
    <3>3. Purge(x, s, a.rm[s]) \in I
      BY <1>2, <3>1, PurgeFacts
    <3>. QED BY <3>2, <3>3
  <2>3. Seqs \in SUBSET (0..NSeq) /\ NSeq \in Nat
    BY SizeAssumption DEF Seqs
  <2>4. e \in I
    <3>. HIDE DEF f, a, I
    <3>. QED BY <2>1, <2>2, <2>3, LoopKeeps
  <2>. QED BY <2>4
<1>5. ApplyIn(c, idxs, toks) = d
  BY DEF ApplyIn
<1>. HIDE DEF e, a, w, f, I
<1>6. /\ d \in Good /\ d.pos = e.pos /\ d.seq = e.seq /\ d.hasShift = e.hasShift
  <2>1. idxs[n] \in Cells
    OBVIOUS
  <2>2. Last(idxs) = idxs[n]
    <3>1. Len(idxs) = n
      OBVIOUS
    <3>. QED BY <3>1 DEF Last
  <2>3. PICK h \in 0..Size : h = Last(idxs) + 1
    BY <2>1, <2>2, SizeFacts
  <2>4. d = [e EXCEPT !.head = h] /\ e \in Good
    BY <1>4, <2>3, StillFacts
  <2>. HIDE DEF d
  <2>. QED BY <2>4, HeadSet
<1>. HIDE DEF d
<1>7. d \in Still
  BY <1>4, <1>6 DEF Still
<1>8. ASSUME NEW i \in Cells
      PROVE  \/ d.pos[i] = -1
             \/ i \notin ToSet(idxs) /\ d.pos[i] = c.pos[i] /\ w[i] = row[i]
             \/ \E m \in 1..n : /\ idxs[m] = i /\ w[i] = toks[m].pos
                                /\ d.pos[i] = toks[m].pos /\ d.seq[i] \subseteq toks[m].owners
  BY <1>3, <1>4, <1>6 DEF Rest
<1>9. DOMAIN idxs = 1..n
  OBVIOUS
<1>10. Filled(c, idxs, toks, d)
  BY <1>7, <1>8, <1>9 DEF Filled
<1>11. \A i \in Cells : w[i] = row[i] \/ w[i] \in Pos
  BY <1>3 DEF Tokens
<1>12. Fits(c, row) => Fits(d, w)
  BY <1>8 DEF Fits
<1>. QED BY <1>2, <1>5, <1>10, <1>11, <1>12 DEF w

-----------------------------------------------------------------------------
(* Finding cells, and making tokens.                                       *)

(* Cells listed from the lowest. *)
LEMMA AscendingFacts ==
  ASSUME NEW S \in SUBSET Cells
  PROVE  Ascending(S) \in Seq(S) /\ Len(Ascending(S)) <= Size
<1>. DEFINE f == [k \in S |-> [q \in Seq(S) |-> Append(q, k)]]
            X(k) == {q \in Seq(S) : Len(q) <= k}
            I == [k \in 0..Size |-> X(k)]
<1>1. Ascending(S) = ForEach(f, <<>>, S)
  BY DEF Ascending
<1>2. Size \in Nat /\ \A k \in Cells : k \in Int /\ k \in 0..Size /\ k + 1 \in 0..Size
  BY SizeFacts
<1>3. <<>> \in I[0]
  BY <1>2
<1>4. ASSUME NEW k \in Cells, NEW q \in X(k)
      PROVE  (IF k \in S THEN f[k][q] ELSE q) \in X(k + 1)
  <2>1. Len(q) \in Nat /\ Len(q) <= k + 1 /\ k \in Int
    BY <1>2
  <2>2. CASE k \in S
    <3>1. f[k][q] = Append(q, k)
      BY <2>2
    <3>2. Append(q, k) \in Seq(S) /\ Len(Append(q, k)) = Len(q) + 1
      BY <2>2
    <3>. HIDE DEF f
    <3>. QED BY <2>1, <2>2, <3>1, <3>2
  <2>3. CASE k \notin S
    <3>. HIDE DEF f
    <3>. QED BY <2>1, <2>3
  <2>. QED BY <2>2, <2>3
<1>5. \A k \in Cells : \A q \in I[k] : (IF k \in S THEN f[k][q] ELSE q) \in I[k + 1]
  <2>. HIDE DEF X, f
  <2>. QED BY <1>2, <1>4
<1>6. ForEach(f, <<>>, S) \in I[Size]
  <2>. HIDE DEF I, f
  <2>. QED BY <1>3, <1>5, CellsLoop
<1>7. I[Size] = X(Size)
  BY <1>2
<1>. HIDE DEF f, I
<1>. QED BY <1>1, <1>6, <1>7

(* The search wraps around at the last cell. *)
LEMMA Modulo ==
  ASSUME NEW a \in Int, NEW b \in Nat \ {0}
  PROVE  a % b \in 0..b - 1
OBVIOUS

(* find_slot: no cells, or as many as asked. *)
LEMMA FindSlotFacts ==
  ASSUME NEW c \in CellStates, NEW n \in Nat
  PROVE  FindSlot(c, n) = <<>> \/ (n # 0 /\ FindSlot(c, n) \in [1..n -> Cells] /\ FindSlot(c, n) # <<>>)
<1>. DEFINE h == IF c.head > Cardinality(c.used) + 2 * n THEN 0 ELSE c.head
            S == {k \in Cells : Usable(c, (h + k) % Size)}
            q == Ascending(S)
            r == [k \in 1..n |-> (h + q[k]) % Size]
<1>1. FindSlot(c, n) = IF Len(q) < n THEN <<>> ELSE r
  BY DEF FindSlot
<1>2. Size \in Nat \ {0} /\ Cells = 0..Size - 1 /\ h \in Int
  BY SizeFacts DEF CellStates
<1>3. S \in SUBSET Cells
  OBVIOUS
<1>4. q \in Seq(S)
  <2>. HIDE DEF S
  <2>. QED BY <1>3, AscendingFacts
<1>. HIDE DEF h, S, q
<1>5. CASE ~(Len(q) < n)
  <2>1. ASSUME NEW k \in 1..n PROVE (h + q[k]) % Size \in Cells
    <3>1. Len(q) \in Nat /\ k \in 1..Len(q)
      BY <1>4, <1>5
    <3>2. q[k] \in S
      BY <1>4, <3>1
    <3>3. q[k] \in Int
      <4>1. \A x \in Cells : x \in Int
        BY <1>2
      <4>. QED BY <1>3, <3>2, <4>1
    <3>. DEFINE a == h + q[k]
    <3>4. a \in Int
      BY <1>2, <3>3
    <3>. HIDE DEF a
    <3>5. a % Size \in 0..Size - 1
      BY <1>2, <3>4, Modulo
    <3>. QED BY <1>2, <3>5 DEF a
  <2>2. r \in [1..n -> Cells]
    BY <2>1
  <2>3. n = 0 => r = <<>>
    OBVIOUS
  <2>4. n # 0 => 1 \in DOMAIN r /\ r # <<>>
    <3>1. DOMAIN <<>> = {}
      OBVIOUS
    <3>2. n # 0 => 1 \in DOMAIN r
      OBVIOUS
    <3>. HIDE DEF r
    <3>. QED BY <3>1, <3>2
  <2>. HIDE DEF r
  <2>. QED BY <1>1, <1>5, <2>2, <2>3, <2>4
<1>6. CASE Len(q) < n
  BY <1>1, <1>6
<1>. QED BY <1>5, <1>6

(* The positions of a sequence in a stream: a set of them, the lowest and   *)
(* the highest.                                                             *)
LEMMA SeqPosMaxType ==
  ASSUME NEW c, NEW s
  PROVE  SeqPosMax(c, s) \in Pos \cup {-1}
<1>1. CASE Positions(c, s) = {}
  BY <1>1 DEF SeqPosMax
<1>2. CASE Positions(c, s) # {}
  <2>. DEFINE P == Positions(c, s)
  <2>1. P \in SUBSET Int /\ P \in SUBSET Pos /\ MaxPos \in Int /\ \A x \in P : x <= MaxPos
    BY SizeAssumption DEF Positions, Pos
  <2>2. SeqPosMax(c, s) = Max(P)
    BY <1>2 DEF SeqPosMax
  <2>. HIDE DEF P
  <2>3. P # {}
    BY <1>2 DEF P
  <2>4. Max(P) \in P
    BY <2>1, <2>3, MaxOf
  <2>. QED BY <2>1, <2>2, <2>4
<1>. QED BY <1>1, <1>2

(* A batch: lists of rows, each of some sequences. *)
LEMMA BatchFacts ==
  ASSUME NEW b \in Batches, NEW j \in DOMAIN b
  PROVE  /\ Len(b) \in Nat \ {0} /\ DOMAIN b = 1..Len(b) /\ j \in Nat \ {0}
         /\ Len(b[j]) \in Nat \ {0} /\ DOMAIN b[j] = 1..Len(b[j])
         /\ \A k \in 1..Len(b[j]) : b[j][k] \in SUBSET Seqs /\ b[j][k] # {}
         /\ UStreams(b[j]) \in SUBSET Streams
<1>. DEFINE T == (SUBSET Seqs) \ {{}}
            U == Seq(T) \ {<<>>}
<1>1. b \in Seq(U) \ {<<>>}
  BY BatchAssumption DEF Seqs
<1>. HIDE DEF U
<1>2. Len(b) \in Nat \ {0} /\ DOMAIN b = 1..Len(b) /\ j \in Nat \ {0} /\ b[j] \in U
  BY <1>1
<1>. USE DEF U
<1>3. b[j] \in Seq(T) /\ b[j] # <<>>
  BY <1>2
<1>. HIDE DEF T, U
<1>4. Len(b[j]) \in Nat \ {0} /\ DOMAIN b[j] = 1..Len(b[j]) /\ \A k \in 1..Len(b[j]) : b[j][k] \in T
  BY <1>3
<1>5. \A k \in 1..Len(b[j]) : b[j][k] \in SUBSET Seqs /\ b[j][k] # {}
  BY <1>4 DEF T
<1>6. UStreams(b[j]) \in SUBSET Streams
  <2>1. 1 \in 1..Len(b[j])
    BY <1>4
  <2>. QED BY <1>5, <2>1 DEF UStreams, Streams
<1>. QED BY <1>2, <1>4, <1>5, <1>6

(* The tokens of a batch up to one of them. *)
LEMMA UptoFacts ==
  ASSUME NEW b \in Batches, NEW j \in DOMAIN b, NEW k \in DOMAIN b[j]
  PROVE  IsFiniteSet(Upto(b, j, k)) /\ <<j, k>> \in Upto(b, j, k)
<1>. DEFINE R(m) == {m} \X {n \in DOMAIN b[m] : m < j \/ n <= k}
            W(x) == UNION {R(m) : m \in 1..x}
            S == {x \in 0..j : IsFiniteSet(W(x))}
<1>1. j \in Nat \ {0} /\ j <= Len(b) /\ Len(b) \in Nat /\ DOMAIN b = 1..Len(b) /\ k \in Nat
  BY BatchFacts
<1>2. ASSUME NEW m \in 1..j PROVE IsFiniteSet(R(m))
  <2>1. DOMAIN b[m] = 1..Len(b[m]) /\ Len(b[m]) \in Nat
    <3>1. m \in DOMAIN b
      BY <1>1
    <3>. QED BY <3>1, BatchFacts
  <2>2. IsFiniteSet(DOMAIN b[m])
    BY <2>1, FS_Interval
  <2>. DEFINE D == {n \in DOMAIN b[m] : m < j \/ n <= k}
  <2>3. IsFiniteSet(D)
    <3>1. D \in SUBSET DOMAIN b[m]
      OBVIOUS
    <3>. HIDE DEF D
    <3>. QED BY <2>2, <3>1, FS_Subset
  <2>. HIDE DEF D
  <2>. DEFINE M == {m}
  <2>4. IsFiniteSet(M)
    BY FS_Singleton
  <2>. HIDE DEF M
  <2>5. IsFiniteSet(M \X D)
    BY <2>3, <2>4, FS_Product
  <2>. QED BY <2>5 DEF M, D
<1>3. 0 \in S
  <2>1. W(0) = {}
    OBVIOUS
  <2>2. IsFiniteSet(W(0))
    BY <2>1, FS_EmptySet
  <2>. QED BY <1>1, <2>2
<1>4. ASSUME NEW x \in 1..j, x - 1 \in S PROVE x \in S
  <2>1. W(x) = W(x - 1) \cup R(x)
    <3>1. 1..x = (1..x - 1) \cup {x}
      OBVIOUS
    <3>. HIDE DEF R
    <3>. QED BY <3>1
  <2>2. IsFiniteSet(W(x - 1)) /\ IsFiniteSet(R(x))
    BY <1>2, <1>4
  <2>3. IsFiniteSet(W(x - 1) \cup R(x))
    <3>. HIDE DEF W, R
    <3>. QED BY <2>2, FS_Union
  <2>. HIDE DEF W, R
  <2>. QED BY <2>1, <2>3
<1>5. j \in S
  <2>. HIDE DEF S
  <2>1. 0..j \subseteq S
    BY <1>1, <1>3, <1>4, Induction
  <2>. QED BY <1>1, <2>1
<1>6. Upto(b, j, k) = W(j)
  BY DEF Upto
<1>7. <<j, k>> \in R(j) /\ j \in 1..j
  BY <1>1
<1>. HIDE DEF R
<1>. QED BY <1>5, <1>6, <1>7

(* A legal batch puts every token at a position. *)
LEMMA TokPosFacts ==
  ASSUME NEW b \in Batches, NEW j \in DOMAIN b, NEW k \in DOMAIN b[j], NEW s \in b[j][k], Legal(b)
  PROVE  TokPos(b, j, k, s) \in Pos
<1>. DEFINE Q == {q \in Upto(b, j, k) : s \in b[q[1]][q[2]]}
            m == SeqPosMax(v_cells[StreamOf(s)], s)
            n == Cardinality(Q)
<1>1. Q \in SUBSET Upto(b, j, k) /\ <<j, k>> \in Q
  BY UptoFacts
<1>2. TokPos(b, j, k, s) = m + n
  BY DEF TokPos
<1>3. TokPos(b, j, k, s) <= MaxPos
  BY DEF Legal
<1>4. m \in Pos \cup {-1}
  BY SeqPosMaxType
<1>5. n \in Nat /\ n # 0
  <2>. HIDE DEF Q
  <2>1. IsFiniteSet(Q)
    BY <1>1, UptoFacts, FS_Subset
  <2>. QED BY <1>1, <2>1, FS_CardinalityType, FS_EmptySet
<1>. HIDE DEF m, n
<1>. QED BY <1>2, <1>3, <1>4, <1>5, SizeAssumption DEF Pos

(* A token of a ubatch, in one of its streams: owned by the stream if it is *)
(* one of several, and placed as one of its owners has it.                  *)
LEMMA TokFacts ==
  ASSUME NEW b \in Batches, NEW j \in DOMAIN b, NEW t \in UStreams(b[j]), Legal(b),
         NEW k \in 1..Len(b[j])
  PROVE  LET tok == Toks(b, j, t)[k] IN
         /\ tok \in Tokens /\ t \in Seqs
         /\ unified => tok.owners = b[j][k]
         /\ ~unified => tok.owners = {t} /\ t \in b[j][k]
         /\ \E s \in tok.owners : tok.pos = TokPos(b, j, k, s)
<1>. DEFINE O == IF unified THEN b[j][k] ELSE {t}
            tok == Toks(b, j, t)[k]
<1>1. DOMAIN b[j] = 1..Len(b[j]) /\ k \in DOMAIN b[j] /\ t \in Streams /\ Streams \in SUBSET Seqs
  BY BatchFacts, SizeAssumption DEF Streams, Seqs
<1>2. b[j][k] \in SUBSET Seqs /\ b[j][k] # {}
  BY BatchFacts
<1>3. ~unified => t \in b[j][k]
  <2>1. ~unified => b[j][k] = b[j][1]
    BY <1>1 DEF Legal
  <2>. QED BY <2>1 DEF UStreams
<1>4. O \in (SUBSET Seqs) \ {{}} /\ O \subseteq b[j][k]
  BY <1>1, <1>2, <1>3
<1>5. \A s \in O : TokPos(b, j, k, s) \in Pos
  BY <1>1, <1>4, TokPosFacts
<1>6. tok = [pos |-> TokPos(b, j, k, CHOOSE s \in O : TRUE), owners |-> O]
  BY <1>1 DEF Toks
<1>7. (unified => O = b[j][k]) /\ (~unified => O = {t})
  OBVIOUS
<1>. HIDE DEF O, tok
<1>8. (CHOOSE s \in O : TRUE) \in O
  BY <1>4
<1>9. PICK s \in O : tok = [pos |-> TokPos(b, j, k, s), owners |-> O]
  BY <1>6, <1>8
<1>10. tok.owners = O /\ tok.pos = TokPos(b, j, k, s)
  BY <1>9
<1>11. tok \in Tokens
  BY <1>4, <1>5, <1>9 DEF Tokens
<1>12. \E r \in tok.owners : tok.pos = TokPos(b, j, k, r)
  BY <1>10
<1>. QED BY <1>1, <1>3, <1>7, <1>10, <1>11, <1>12 DEF tok

(* So what it puts into a stream are tokens. *)
LEMMA ToksFacts ==
  ASSUME NEW b \in Batches, NEW j \in DOMAIN b, NEW t \in UStreams(b[j]), Legal(b)
  PROVE  /\ Toks(b, j, t) \in [1..Len(b[j]) -> Tokens]
         /\ \A k \in 1..Len(b[j]) :
              /\ Toks(b, j, t)[k].owners = IF unified THEN b[j][k] ELSE {t}
              /\ t \in Seqs
              /\ ~unified => t \in b[j][k]
              /\ \E s \in Toks(b, j, t)[k].owners : Toks(b, j, t)[k].pos = TokPos(b, j, k, s)
<1>. DEFINE z == Toks(b, j, t)
<1>1. DOMAIN z = 1..Len(b[j]) /\ z = [k \in DOMAIN z |-> z[k]]
  BY BatchFacts DEF Toks
<1>2. ASSUME NEW k \in 1..Len(b[j])
      PROVE  /\ z[k] \in Tokens
             /\ z[k].owners = IF unified THEN b[j][k] ELSE {t}
             /\ t \in Seqs
             /\ ~unified => t \in b[j][k]
             /\ \E s \in z[k].owners : z[k].pos = TokPos(b, j, k, s)
  <2>1. /\ z[k] \in Tokens /\ t \in Seqs
        /\ unified => z[k].owners = b[j][k]
        /\ ~unified => z[k].owners = {t} /\ t \in b[j][k]
        /\ \E s \in z[k].owners : z[k].pos = TokPos(b, j, k, s)
    BY ONLY TokFacts, b \in Batches, j \in DOMAIN b, t \in UStreams(b[j]), Legal(b), k \in 1..Len(b[j])
  <2>. HIDE DEF z
  <2>2. z[k].owners = IF unified THEN b[j][k] ELSE {t}
    BY <2>1
  <2>. QED BY <2>1, <2>2
<1>. HIDE DEF z
<1>3. z \in [1..Len(b[j]) -> Tokens]
  BY <1>1, <1>2
<1>. QED BY <1>2, <1>3 DEF z

-----------------------------------------------------------------------------
(* Ubatches.                                                               *)

StillCaches == [Streams -> Still]
Rows == [Cells -> Pos \cup {Junk}]
Fitting ==
  {e \in [v : StillCaches, rot : [Streams -> Rows]] : \A t \in Streams : Fits(e.v[t], e.rot[t])}

(* Cells found for the ubatch j of a batch. *)
SlotsOf(b, j) ==
  {f \in Sinfos : \A t \in Streams :
     f[t] = <<>> \/ (t \in UStreams(b[j]) /\ f[t] \in [1..Len(b[j]) -> Cells])}

(* They are cells like any others. *)
LEMMA StillCachesFacts ==
  ASSUME NEW v \in StillCaches
  PROVE  v \in Caches /\ \A t \in Streams : v[t] \in Still
BY StillFacts DEF StillCaches, Caches

(* What find_slot returns for the ubatch. *)
LEMMA SlotsFacts ==
  ASSUME NEW v \in Caches, NEW b \in Batches, NEW j \in DOMAIN b
  PROVE  Slots(v, b, j) \in SlotsOf(b, j)
<1>. DEFINE n == Len(b[j])
            z == Slots(v, b, j)
<1>1. n \in Nat /\ <<>> \in Seq(Cells) /\ [1..n -> Cells] \in SUBSET Seq(Cells)
  BY BatchFacts
<1>2. ASSUME NEW t \in Streams
      PROVE  z[t] \in Seq(Cells) /\ (z[t] = <<>> \/ (t \in UStreams(b[j]) /\ z[t] \in [1..n -> Cells]))
  <2>1. v[t] \in CellStates
    BY DEF Caches
  <2>2. z[t] = IF t \in UStreams(b[j]) THEN FindSlot(v[t], n) ELSE <<>>
    BY DEF Slots
  <2>. HIDE DEF z, n
  <2>3. FindSlot(v[t], n) = <<>> \/ FindSlot(v[t], n) \in [1..n -> Cells]
    BY <1>1, <2>1, FindSlotFacts
  <2>. QED BY <1>1, <2>2, <2>3
<1>3. z = [t \in Streams |-> z[t]]
  BY DEF Slots
<1>. HIDE DEF z
<1>4. z \in Sinfos
  BY <1>2, <1>3 DEF Sinfos
<1>. QED BY <1>2, <1>4 DEF SlotsOf, z

(* Tokens written into the cells found for them, in each stream. *)
LEMMA UbatchIn ==
  ASSUME NEW b \in Batches, NEW j \in DOMAIN b, Legal(b), NEW t \in Streams,
         NEW f \in SlotsOf(b, j), f[t] # <<>>, NEW c \in Still, NEW row \in Rows
  PROVE  LET d == ApplyIn(c, f[t], Toks(b, j, t))
             w == Written(row, f[t], [k \in DOMAIN b[j] |-> Toks(b, j, t)[k].pos])
         IN Filled(c, f[t], Toks(b, j, t), d) /\ w \in Rows /\ (Fits(c, row) => Fits(d, w))
<1>. DEFINE n == Len(b[j])
            idxs == f[t]
            toks == Toks(b, j, t)
            ps == [k \in DOMAIN b[j] |-> toks[k].pos]
            w == Written(row, idxs, ps)
<1>1. n \in Nat \ {0} /\ DOMAIN b[j] = 1..n
  BY BatchFacts
<1>2. t \in UStreams(b[j]) /\ idxs \in [1..n -> Cells]
  BY DEF SlotsOf
<1>3. toks \in [1..n -> Tokens]
  BY <1>2, ToksFacts
<1>4. \A k \in 1..n : ps[k] = toks[k].pos
  BY <1>1
<1>5. row \in [Cells -> Int] /\ \A i \in Cells : row[i] \in Pos \cup {Junk}
  BY DEF Rows, Pos, Junk
<1>. HIDE DEF n, idxs, toks, ps
<1>6. /\ Filled(c, idxs, toks, ApplyIn(c, idxs, toks))
      /\ w \in [Cells -> Int]
      /\ \A i \in Cells : w[i] = row[i] \/ w[i] \in Pos
      /\ Fits(c, row) => Fits(ApplyIn(c, idxs, toks), w)
  BY <1>1, <1>2, <1>3, <1>4, <1>5, ApplyInFacts
<1>. HIDE DEF w
<1>7. w \in Rows
  BY <1>5, <1>6 DEF Rows
<1>. QED BY <1>6, <1>7 DEF n, idxs, toks, ps, w

(* apply_ubatch, in all streams. *)
LEMMA ApplyUbatchFacts ==
  ASSUME NEW b \in Batches, NEW j \in DOMAIN b, Legal(b),
         NEW f \in SlotsOf(b, j), NEW v \in StillCaches
  PROVE  /\ ApplyUbatch(v, b, j, f) \in StillCaches
         /\ \A t \in Streams :
              IF f[t] = <<>> THEN ApplyUbatch(v, b, j, f)[t] = v[t]
              ELSE Filled(v[t], f[t], Toks(b, j, t), ApplyUbatch(v, b, j, f)[t])
<1>. DEFINE w == ApplyUbatch(v, b, j, f)
<1>1. ASSUME NEW t \in Streams
      PROVE  /\ IF f[t] = <<>> THEN w[t] = v[t] ELSE Filled(v[t], f[t], Toks(b, j, t), w[t])
             /\ w[t] \in Still
  <2>1. w[t] = IF f[t] # <<>> THEN ApplyIn(v[t], f[t], Toks(b, j, t)) ELSE v[t]
    BY DEF ApplyUbatch
  <2>. HIDE DEF w
  <2>2. v[t] \in Still
    BY StillCachesFacts
  <2>3. [i \in Cells |-> Junk] \in Rows
    BY DEF Rows
  <2>4. f[t] # <<>> => Filled(v[t], f[t], Toks(b, j, t), ApplyIn(v[t], f[t], Toks(b, j, t)))
    BY <2>2, <2>3, UbatchIn
  <2>. QED BY <2>1, <2>2, <2>4 DEF Filled
<1>2. w = [t \in Streams |-> w[t]]
  BY DEF ApplyUbatch
<1>. HIDE DEF w
<1>3. w \in StillCaches
  BY <1>1, <1>2 DEF StillCaches
<1>. QED BY <1>1, <1>3 DEF w

(* A ubatch applied and computed: K fits the cells as before. *)
LEMMA ComputeUbatchFacts ==
  ASSUME NEW b \in Batches, NEW j \in DOMAIN b, Legal(b),
         NEW f \in SlotsOf(b, j), NEW e \in Fitting
  PROVE  ComputeUbatch(e, b, j, f) \in Fitting
<1>. DEFINE r == ComputeUbatch(e, b, j, f)
            w == ApplyUbatch(e.v, b, j, f)
            z == [t \in Streams |->
                    IF f[t] # <<>>
                    THEN Written(e.rot[t], f[t], [k \in DOMAIN b[j] |-> Toks(b, j, t)[k].pos])
                    ELSE e.rot[t]]
<1>1. e.v \in StillCaches /\ e.rot \in [Streams -> Rows] /\ \A t \in Streams : Fits(e.v[t], e.rot[t])
  BY DEF Fitting
<1>2. r = [v |-> w, rot |-> z]
  BY DEF ComputeUbatch
<1>3. w \in StillCaches
  BY <1>1, ApplyUbatchFacts
<1>4. ASSUME NEW t \in Streams PROVE z[t] \in Rows /\ Fits(w[t], z[t])
  <2>1. e.v[t] \in Still /\ e.rot[t] \in Rows /\ Fits(e.v[t], e.rot[t])
    BY <1>1, StillCachesFacts
  <2>2. CASE f[t] = <<>>
    <3>1. w[t] = e.v[t] /\ z[t] = e.rot[t]
      BY <2>2 DEF ApplyUbatch
    <3>. HIDE DEF w, z
    <3>. QED BY <2>1, <3>1
  <2>3. CASE f[t] # <<>>
    <3>. DEFINE x == ApplyIn(e.v[t], f[t], Toks(b, j, t))
                y == Written(e.rot[t], f[t], [k \in DOMAIN b[j] |-> Toks(b, j, t)[k].pos])
    <3>1. w[t] = x /\ z[t] = y
      BY <2>3 DEF ApplyUbatch
    <3>2. y \in Rows /\ (Fits(e.v[t], e.rot[t]) => Fits(x, y))
      BY <2>1, <2>3, UbatchIn
    <3>. HIDE DEF w, z, x, y
    <3>. QED BY <2>1, <3>1, <3>2
  <2>. QED BY <2>2, <2>3
<1>5. z \in [Streams -> Rows]
  BY <1>4
<1>. HIDE DEF w, z, r
<1>. QED BY <1>2, <1>3, <1>4, <1>5 DEF Fitting, r

-----------------------------------------------------------------------------
(* The trial run and its undoing.                                          *)

(* From v to w a cell is not given a position: it has that of v, or none.  *)
Fewer(v, w) ==
  \A t \in Streams : \A i \in Cells : w[t].pos[i] = -1 \/ w[t].pos[i] = v[t].pos[i]

(* The same for the cells a ubatch did not find.                           *)
FewerBeside(f, v, w) ==
  \A t \in Streams : \A i \in Cells :
    i \in ToSet(f[t]) \/ w[t].pos[i] = -1 \/ w[t].pos[i] = v[t].pos[i]

(* What the trial has before ubatch m of those it has tried, and at the end.*)
Level(a, m) == IF m \in 1..Len(a.stack) THEN a.stack[m].old ELSE a.v

Entries == [sinfo : Sinfos, old : StillCaches]

(* A trial that started from v: each entry of the stack leads to the next. *)
TrialsFrom(v, b) ==
  {a \in [ok : BOOLEAN, v : StillCaches, stack : Seq(Entries)] :
     /\ Level(a, 1) = v
     /\ Len(a.stack) <= Len(b)
     /\ \A m \in 1..Len(a.stack) :
          /\ a.stack[m].sinfo \in SlotsOf(b, m)
          /\ FewerBeside(a.stack[m].sinfo, Level(a, m), Level(a, m + 1))
          /\ a.stack[m].sinfo = Slots(Level(a, m), b, m)
          /\ \A t \in UStreams(b[m]) : a.stack[m].sinfo[t] # <<>>
          /\ Level(a, m + 1) = ApplyUbatch(Level(a, m), b, m, a.stack[m].sinfo)}

(* One more ubatch tried: the stack grows by it, or the trial has failed. *)
LEMMA TryUbatchFacts ==
  ASSUME NEW v \in StillCaches, NEW b \in Batches, Legal(b), NEW j \in DOMAIN b,
         NEW a \in TrialsFrom(v, b), a.ok => Len(a.stack) = j - 1
  PROVE  LET r == TryUbatch(a, b, j) IN r \in TrialsFrom(v, b) /\ (r.ok => Len(r.stack) = j)
<1>. DEFINE f == Slots(a.v, b, j)
            w == ApplyUbatch(a.v, b, j, f)
            e == [sinfo |-> f, old |-> a.v]
            r == TryUbatch(a, b, j)
<1>0. a = [ok |-> a.ok, v |-> a.v, stack |-> a.stack]
  BY DEF TrialsFrom
<1>1. /\ a.v \in StillCaches /\ a.stack \in Seq(Entries) /\ a.ok \in BOOLEAN
      /\ Level(a, 1) = v /\ Len(a.stack) <= Len(b) /\ Len(a.stack) \in Nat
      /\ \A m \in 1..Len(a.stack) :
           /\ a.stack[m].sinfo \in SlotsOf(b, m)
           /\ FewerBeside(a.stack[m].sinfo, Level(a, m), Level(a, m + 1))
           /\ a.stack[m].sinfo = Slots(Level(a, m), b, m)
           /\ \A t \in UStreams(b[m]) : a.stack[m].sinfo[t] # <<>>
           /\ Level(a, m + 1) = ApplyUbatch(Level(a, m), b, m, a.stack[m].sinfo)
  BY DEF TrialsFrom
<1>2. Len(b) \in Nat /\ j \in 1..Len(b)
  BY BatchFacts
<1>3. f \in SlotsOf(b, j)
  BY <1>1, SlotsFacts, StillCachesFacts
<1>6. f = Slots(a.v, b, j) /\ w = ApplyUbatch(a.v, b, j, f)
  OBVIOUS
<1>. HIDE DEF f
<1>4. w \in StillCaches
  BY <1>1, <1>3, ApplyUbatchFacts
<1>5. FewerBeside(f, a.v, w)
  <2>1. ASSUME NEW t \in Streams, NEW i \in Cells
        PROVE  i \in ToSet(f[t]) \/ w[t].pos[i] = -1 \/ w[t].pos[i] = a.v[t].pos[i]
    <3>1. IF f[t] = <<>> THEN w[t] = a.v[t] ELSE Filled(a.v[t], f[t], Toks(b, j, t), w[t])
      BY <1>1, <1>3, ApplyUbatchFacts
    <3>. HIDE DEF w
    <3>. QED BY <3>1 DEF Filled, ToSet
  <2>. HIDE DEF w
  <2>. QED BY <2>1 DEF FewerBeside
<1>. HIDE DEF w
<1>7. \/ r = [a EXCEPT !.ok = FALSE]
      \/ /\ a.ok /\ r = [ok |-> TRUE, v |-> w, stack |-> Append(a.stack, e)]
         /\ \A t \in UStreams(b[j]) : f[t] # <<>>
  BY DEF TryUbatch, f, w
<1>. HIDE DEF r
<1>8. CASE r = [a EXCEPT !.ok = FALSE]
  <2>1. r = [ok |-> FALSE, v |-> a.v, stack |-> a.stack]
    BY <1>0, <1>8
  <2>2. r.stack = a.stack /\ r.v = a.v /\ r.ok = FALSE
    BY <2>1
  <2>3. \A m : Level(r, m) = Level(a, m)
    BY <2>2 DEF Level
  <2>4. r \in [ok : BOOLEAN, v : StillCaches, stack : Seq(Entries)]
    BY <1>1, <2>1
  <2>5. Level(r, 1) = v /\ Len(r.stack) <= Len(b)
    BY <1>1, <2>2, <2>3
  <2>6. \A m \in 1..Len(r.stack) :
          /\ r.stack[m].sinfo \in SlotsOf(b, m)
          /\ FewerBeside(r.stack[m].sinfo, Level(r, m), Level(r, m + 1))
          /\ r.stack[m].sinfo = Slots(Level(r, m), b, m)
          /\ \A t \in UStreams(b[m]) : r.stack[m].sinfo[t] # <<>>
          /\ Level(r, m + 1) = ApplyUbatch(Level(r, m), b, m, r.stack[m].sinfo)
    BY ONLY <1>1, <2>2, <2>3
  <2>7. r \in TrialsFrom(v, b)
    BY ONLY <2>4, <2>5, <2>6 DEF TrialsFrom
  <2>. QED BY <2>2, <2>7 DEF r
<1>9. CASE /\ a.ok /\ r = [ok |-> TRUE, v |-> w, stack |-> Append(a.stack, e)]
           /\ \A t \in UStreams(b[j]) : f[t] # <<>>
  <2>1. e \in Entries /\ e.sinfo = f /\ e.old = a.v
    BY <1>1, <1>3 DEF Entries, SlotsOf
  <2>. HIDE DEF e
  <2>2. Len(a.stack) = j - 1
    BY <1>9
  <2>3. /\ Append(a.stack, e) \in Seq(Entries) /\ Len(Append(a.stack, e)) = j
        /\ Append(a.stack, e)[j] = e /\ \A m \in 1..j - 1 : Append(a.stack, e)[m] = a.stack[m]
    BY <1>1, <2>1, <2>2
  <2>4. /\ r.ok = TRUE /\ r.v = w /\ r.stack \in Seq(Entries) /\ Len(r.stack) = j
        /\ r.stack[j] = e /\ \A m \in 1..j - 1 : r.stack[m] = a.stack[m]
    BY <1>9, <2>3
  <2>5. Level(r, j + 1) = w
    BY <1>2, <2>4 DEF Level
  <2>6. Level(r, j) = a.v
    BY <1>2, <2>1, <2>4 DEF Level
  <2>7. Level(a, j) = a.v
    BY <1>2, <2>2 DEF Level
  <2>8. \A m \in 1..j : Level(r, m) = Level(a, m)
    <3>1. \A m \in 1..j - 1 : Level(r, m) = Level(a, m)
      BY <1>2, <2>2, <2>4 DEF Level
    <3>. QED BY <1>2, <2>6, <2>7, <3>1
  <2>9. Level(r, 1) = v
    BY <1>1, <1>2, <2>8
  <2>10. ASSUME NEW m \in 1..j
         PROVE  /\ r.stack[m].sinfo \in SlotsOf(b, m)
                /\ FewerBeside(r.stack[m].sinfo, Level(r, m), Level(r, m + 1))
                /\ r.stack[m].sinfo = Slots(Level(r, m), b, m)
                /\ \A t \in UStreams(b[m]) : r.stack[m].sinfo[t] # <<>>
                /\ Level(r, m + 1) = ApplyUbatch(Level(r, m), b, m, r.stack[m].sinfo)
    <3>1. CASE m = j
      BY <1>3, <1>5, <1>6, <1>9, <2>1, <2>4, <2>5, <2>6, <3>1
    <3>2. CASE m # j
      <4>1. m \in 1..j - 1 /\ m + 1 \in 1..j
        BY <1>2, <3>2
      <4>2. /\ a.stack[m].sinfo \in SlotsOf(b, m)
            /\ FewerBeside(a.stack[m].sinfo, Level(a, m), Level(a, m + 1))
            /\ a.stack[m].sinfo = Slots(Level(a, m), b, m)
            /\ \A t \in UStreams(b[m]) : a.stack[m].sinfo[t] # <<>>
            /\ Level(a, m + 1) = ApplyUbatch(Level(a, m), b, m, a.stack[m].sinfo)
        BY <1>1, <2>2, <4>1
      <4>. QED BY <2>4, <2>8, <4>1, <4>2
    <3>. QED BY <3>1, <3>2
  <2>11. r \in [ok : BOOLEAN, v : StillCaches, stack : Seq(Entries)]
    BY <1>4, <1>9, <2>3
  <2>12. r \in TrialsFrom(v, b)
    BY <1>2, <2>4, <2>9, <2>10, <2>11 DEF TrialsFrom
  <2>. QED BY <2>4, <2>12 DEF r
<1>. QED BY <1>7, <1>8, <1>9

(* The trial of a batch; if it succeeds, the stack has every ubatch. *)
LEMMA TriedFacts ==
  ASSUME NEW v \in StillCaches, NEW b \in Batches, Legal(b)
  PROVE  /\ Tried(v, b) \in TrialsFrom(v, b)
         /\ Tried(v, b).ok => Len(Tried(v, b).stack) = Len(b)
<1>. DEFINE a0 == [ok |-> TRUE, v |-> v, stack |-> <<>>]
            f == [j \in DOMAIN b |-> [a \in Trials |-> TryUbatch(a, b, j)]]
            n == Len(b)
            S == DOMAIN b
            X(k) == {a \in TrialsFrom(v, b) : a.ok => Len(a.stack) = k}
            I == [k \in 0..n + 1 |-> X(IF k = 0 THEN 0 ELSE k - 1)]
<1>1. n \in Nat /\ S = 1..n
  BY BatchAssumption
<1>2. a0 \in X(0)
  <2>1. a0.v = v /\ a0.stack = <<>> /\ a0.ok = TRUE /\ Len(<<>>) = 0 /\ 1..0 = {}
    OBVIOUS
  <2>2. a0 \in [ok : BOOLEAN, v : StillCaches, stack : Seq(Entries)]
    OBVIOUS
  <2>. HIDE DEF a0
  <2>3. Level(a0, 1) = v
    BY <2>1 DEF Level
  <2>4. a0 \in TrialsFrom(v, b)
    BY <1>1, <2>1, <2>2, <2>3 DEF TrialsFrom
  <2>. QED BY <2>1, <2>4
<1>3. a0 \in I[0]
  <2>1. 0 \in 0..n + 1
    BY <1>1
  <2>. HIDE DEF X, a0
  <2>. QED BY <1>2, <2>1
<1>4. TrialsFrom(v, b) \in SUBSET Trials
  <2>1. Entries \in SUBSET [sinfo : Sinfos, old : Caches]
    BY StillCachesFacts DEF Entries
  <2>2. Seq(Entries) \in SUBSET Seq([sinfo : Sinfos, old : Caches])
    <3>. DEFINE T == [sinfo : Sinfos, old : Caches]
    <3>. HIDE DEF T
    <3>1. ASSUME NEW q \in Seq(Entries) PROVE q \in Seq(T)
      <4>1. Len(q) \in Nat /\ q \in [1..Len(q) -> Entries]
        OBVIOUS
      <4>2. \A k \in 1..Len(q) : q[k] \in T
        BY <2>1, <4>1 DEF T
      <4>3. q \in [1..Len(q) -> T]
        BY <4>1, <4>2
      <4>. QED BY <4>1, <4>3
    <3>. QED BY <3>1 DEF T
  <2>. QED BY <2>2, StillCachesFacts DEF TrialsFrom, Trials
<1>5. ASSUME NEW j \in S, NEW a \in X(j - 1) PROVE f[j][a] \in X(j)
  <2>1. f[j][a] = TryUbatch(a, b, j)
    BY <1>4
  <2>2. a \in TrialsFrom(v, b) /\ (a.ok => Len(a.stack) = j - 1)
    OBVIOUS
  <2>3. TryUbatch(a, b, j) \in X(j)
    BY <2>2, TryUbatchFacts
  <2>. HIDE DEF X, f
  <2>. QED BY <2>1, <2>3
<1>6. \A k \in 0..n : \A a \in I[k] : (IF k \in S THEN f[k][a] ELSE a) \in I[k + 1]
  <2>1. \A k \in 0..n : k \in 0..n + 1 /\ k + 1 \in 0..n + 1 /\ k + 1 # 0 /\ (k + 1) - 1 = k
    BY <1>1
  <2>2. \A k \in 0..n : k \in S <=> k # 0
    BY <1>1
  <2>. HIDE DEF X, f, S, n
  <2>. QED BY <1>5, <2>1, <2>2
<1>7. Tried(v, b) = ForEach(f, a0, S)
  BY DEF Tried
<1>8. ForEach(f, a0, S) \in I[n + 1]
  <2>1. S \in SUBSET (0..n)
    BY <1>1
  <2>. HIDE DEF I, f, a0, S, n
  <2>. QED BY <1>1, <1>3, <1>6, <2>1, LoopRule
<1>9. I[n + 1] = X(n)
  BY <1>1
<1>. HIDE DEF I, f, a0
<1>. QED BY <1>7, <1>8, <1>9

(* The cells of one stream put back as they were in d: the others have      *)
(* their position of d or none, and so have all then.                       *)
PutBack(idxs, c, d, h) ==
  [ForEach([k \in DOMAIN idxs |-> [x \in CellStates |->
              SetCell(x, idxs[k], d.pos[idxs[k]], d.seq[idxs[k]])]],
           c, DOMAIN idxs) EXCEPT !.head = h]

(* It gives no cell a position that d does not have there. *)
LEMMA UndoInFacts ==
  ASSUME NEW n \in Nat \ {0}, NEW idxs \in [1..n -> Cells], NEW c \in Still, NEW d \in Still,
         \A i \in Cells : i \in ToSet(idxs) \/ c.pos[i] = -1 \/ c.pos[i] = d.pos[i],
         NEW h \in 0..Size
  PROVE  LET r == PutBack(idxs, c, d, h)
         IN r \in Still /\ \A i \in Cells : r.pos[i] = -1 \/ r.pos[i] = d.pos[i]
<1>. DEFINE f == [k \in DOMAIN idxs |-> [x \in CellStates |->
                    SetCell(x, idxs[k], d.pos[idxs[k]], d.seq[idxs[k]])]]
            X(k) == {x \in Still : \A i \in Cells :
                       \/ x.pos[i] = -1 \/ x.pos[i] = d.pos[i]
                       \/ \E m \in k..n : m # 0 /\ idxs[m] = i}
            I == [k \in 0..n + 1 |-> X(k)]
            S == DOMAIN idxs
            e == ForEach(f, c, S)
<1>1. S = 1..n /\ n \in Nat
  OBVIOUS
<1>2. c \in I[0]
  <2>1. \A i \in Cells : i \in ToSet(idxs) => \E m \in 0..n : m # 0 /\ idxs[m] = i
    BY DEF ToSet
  <2>2. c \in X(0)
    BY <2>1
  <2>3. 0 \in 0..n + 1
    BY <1>1
  <2>. QED BY <2>2, <2>3
<1>3. ASSUME NEW k \in S, NEW x \in X(k) PROVE f[k][x] \in X(k + 1)
  <2>. DEFINE i == idxs[k]
              p == d.pos[i]
              Q == d.seq[i]
              y == SetCell(x, i, p, Q)
  <2>1. i \in Cells /\ x \in CellStates /\ x \in Sound /\ x \in Good /\ x \in Still /\ x.shift[i] = 0
    BY <1>1, StillFacts
  <2>2. f[k][x] = y
    BY <2>1
  <2>3. p \in Pos \cup {-1} /\ Q \in SUBSET Seqs /\ (p = -1 <=> Q = {})
    <3>1. d \in Good /\ d \in CellStates
      BY StillFacts
    <3>2. p \in Pos \cup {-1}
      BY <2>1, StillFacts
    <3>. QED BY <2>1, <3>1, <3>2 DEF Good, CellStates
  <2>. HIDE DEF i, p, Q
  <2>4. x.pos[i] = -1 <=> x.seq[i] = {}
    BY <2>1 DEF Good
  <2>5. y \in Sound /\ Apart(x, y, i) /\ y.hasShift = x.hasShift /\ y.pos[i] = p /\ y.seq[i] = Q
    BY <2>1, <2>3, <2>4, SetCellFacts
  <2>. HIDE DEF y, f
  <2>6. y \in Still
    BY <2>1, <2>3, <2>5 DEF Still, Good, Apart
  <2>7. ASSUME NEW z \in Cells
        PROVE  \/ y.pos[z] = -1 \/ y.pos[z] = d.pos[z]
               \/ \E m \in k + 1..n : m # 0 /\ idxs[m] = z
    <3>1. CASE z = i
      BY <2>5, <3>1 DEF p
    <3>2. CASE z # i
      <4>1. y.pos[z] = x.pos[z]
        BY <2>5, <3>2 DEF Apart
      <4>2. \/ x.pos[z] = -1 \/ x.pos[z] = d.pos[z]
            \/ \E m \in k..n : m # 0 /\ idxs[m] = z
        OBVIOUS
      <4>3. \A m \in k..n : m = k \/ m \in k + 1..n
        BY <1>1
      <4>. QED BY <3>2, <4>1, <4>2, <4>3 DEF i
    <3>. QED BY <3>1, <3>2
  <2>8. y \in X(k + 1)
    BY <2>6, <2>7
  <2>. QED BY <2>2, <2>8
<1>4. \A k \in 0..n : \A x \in I[k] : (IF k \in S THEN f[k][x] ELSE x) \in I[k + 1]
  <2>1. \A k \in 0..n : k \in 0..n + 1 /\ k + 1 \in 0..n + 1 /\ (k \in S <=> k # 0)
    BY <1>1
  <2>2. X(0) \in SUBSET X(0 + 1)
    <3>1. \A m \in 0..n : m # 0 => m \in 0 + 1..n
      BY <1>1
    <3>. QED BY <3>1
  <2>. HIDE DEF X, f, S
  <2>. QED BY <1>3, <2>1, <2>2
<1>5. e \in I[n + 1]
  <2>1. S \in SUBSET (0..n)
    BY <1>1
  <2>. HIDE DEF I, f, S
  <2>. QED BY <1>1, <1>2, <1>4, <2>1, LoopRule
<1>6. e \in Still /\ \A i \in Cells : e.pos[i] = -1 \/ e.pos[i] = d.pos[i]
  <2>1. I[n + 1] = X(n + 1) /\ \A m \in n + 1..n : FALSE
    BY <1>1
  <2>2. e \in X(n + 1)
    BY <1>5, <2>1
  <2>. HIDE DEF e
  <2>. QED BY <2>1, <2>2
<1>. DEFINE r == PutBack(idxs, c, d, h)
<1>7. r = [e EXCEPT !.head = h]
  BY DEF PutBack
<1>. HIDE DEF e, r
<1>8. r \in Good /\ r.pos = e.pos /\ r.hasShift = e.hasShift
  BY <1>6, <1>7, StillFacts, HeadSet
<1>9. r \in Still /\ \A i \in Cells : r.pos[i] = -1 \/ r.pos[i] = d.pos[i]
  BY <1>6, <1>8 DEF Still
<1>. QED BY <1>9 DEF r

(* The index of a stream among those of a ubatch names a stream.            *)
LEMMA IndexOfStream ==
  ASSUME NEW U \in SUBSET Streams, NEW t \in Streams
  PROVE  Cardinality({x \in U : x < t}) \in Streams
<1>. DEFINE T == {x \in U : x < t}
<1>1. CASE unified
  <2>1. T = {}
    <3>1. t = 0 /\ \A x \in U : x = 0
      BY <1>1 DEF Streams
    <3>2. ~(0 < 0)
      OBVIOUS
    <3>. QED BY <3>1, <3>2
  <2>. QED BY <1>1, <2>1, FS_EmptySet DEF Streams
<1>2. CASE ~unified
  <2>1. Streams = 0..NSeq - 1 /\ NSeq \in Nat /\ t \in Nat /\ t <= NSeq - 1
    BY <1>2, SizeAssumption DEF Streams, Seqs
  <2>0. \A x \in U : x \in Int /\ 0 <= x
    BY <2>1
  <2>2. CASE t = 0
    <3>1. T = {}
      <4>1. \A x \in U : ~(x < t)
        BY <2>0, <2>2
      <4>. QED BY <4>1
    <3>. QED BY <2>1, <3>1, FS_EmptySet
  <2>3. CASE t # 0
    <3>1. T \in SUBSET (0..t - 1)
      <4>1. \A x \in U : x < t => x \in 0..t - 1
        BY <2>0, <2>1
      <4>. QED BY <4>1
    <3>. HIDE DEF T
    <3>. DEFINE A == 0..t - 1
    <3>2. IsFiniteSet(A) /\ Cardinality(A) = t
      BY <2>1, <2>3, FS_Interval
    <3>. HIDE DEF A
    <3>3. IsFiniteSet(T) /\ Cardinality(T) <= Cardinality(A)
      BY <3>1, <3>2, FS_Subset DEF A
    <3>4. Cardinality(T) \in Nat
      BY <3>3, FS_CardinalityType
    <3>. QED BY <2>1, <3>2, <3>3, <3>4 DEF T
  <2>. QED BY <2>2, <2>3
<1>. QED BY <1>1, <1>2

(* One entry of the stack undone. *)
LEMMA UndoFacts ==
  ASSUME NEW b \in Batches, NEW j \in DOMAIN b, NEW e \in Entries, e.sinfo \in SlotsOf(b, j),
         NEW v \in StillCaches, FewerBeside(e.sinfo, e.old, v)
  PROVE  Undo(v, b, j, e) \in StillCaches /\ Fewer(e.old, Undo(v, b, j, e))
<1>. DEFINE w == Undo(v, b, j, e)
            n == Len(b[j])
            h(t) == e.old[Cardinality({x \in UStreams(b[j]) : x < t})].head
            g(t) == PutBack(e.sinfo[t], v[t], e.old[t], h(t))
<1>1. n \in Nat \ {0} /\ UStreams(b[j]) \in SUBSET Streams
  BY BatchFacts
<1>2. e.old \in StillCaches
  BY DEF Entries
<1>3. ASSUME NEW t \in Streams
      PROVE  /\ w[t] \in Still
             /\ \A i \in Cells : w[t].pos[i] = -1 \/ w[t].pos[i] = e.old[t].pos[i]
  <2>1. v[t] \in Still /\ e.old[t] \in Still
    BY <1>2, StillCachesFacts
  <2>2. \A i \in Cells : \/ i \in ToSet(e.sinfo[t]) \/ v[t].pos[i] = -1
                         \/ v[t].pos[i] = e.old[t].pos[i]
    BY DEF FewerBeside
  <2>3. w[t] = IF e.sinfo[t] = <<>> THEN v[t] ELSE g(t)
    BY DEF Undo, PutBack
  <2>. HIDE DEF w
  <2>4. CASE e.sinfo[t] = <<>>
    <3>1. ToSet(<<>>) = {}
      BY DEF ToSet
    <3>. QED BY <2>1, <2>2, <2>3, <2>4, <3>1
  <2>5. CASE e.sinfo[t] # <<>>
    <3>1. e.sinfo[t] \in [1..n -> Cells]
      BY <2>5 DEF SlotsOf
    <3>2. h(t) \in 0..Size
      <4>. DEFINE m == Cardinality({x \in UStreams(b[j]) : x < t})
      <4>1. m \in Streams
        BY <1>1, IndexOfStream
      <4>. HIDE DEF m
      <4>2. e.old[m] \in Still
        BY <1>2, <4>1, StillCachesFacts
      <4>3. e.old[m].head \in 0..Size
        BY <4>2, StillFacts DEF CellStates
      <4>. QED BY <4>3 DEF m
    <3>. HIDE DEF h, n
    <3>3. g(t) \in Still /\ \A i \in Cells : g(t).pos[i] = -1 \/ g(t).pos[i] = e.old[t].pos[i]
      BY <1>1, <2>1, <2>2, <3>1, <3>2, UndoInFacts, ZenonT(60)
    <3>. HIDE DEF g
    <3>. QED BY <2>3, <2>5, <3>3
  <2>. QED BY <2>4, <2>5
<1>4. w = [t \in Streams |-> w[t]]
  BY DEF Undo
<1>. HIDE DEF w
<1>5. w \in StillCaches /\ Fewer(e.old, w)
  BY <1>3, <1>4 DEF StillCaches, Fewer
<1>. QED BY <1>5 DEF w

(* The whole stack undone: every cell is as it was at first, or free.       *)
LEMMA UndoneFacts ==
  ASSUME NEW v \in StillCaches, NEW b \in Batches, NEW a \in TrialsFrom(v, b)
  PROVE  Undone(a, b) \in StillCaches /\ Fewer(v, Undone(a, b))
<1>. DEFINE n == Len(a.stack)
            f == [m \in 1..n |-> [w \in Caches |-> Undo(w, b, n + 1 - m, a.stack[n + 1 - m])]]
            X(l) == {w \in StillCaches : Fewer(Level(a, l), w)}
            I == [k \in 0..n + 1 |-> X(IF k = 0 THEN n + 1 ELSE n + 2 - k)]
            S == 1..n
<1>1. /\ a.v \in StillCaches /\ a.stack \in Seq(Entries) /\ n \in Nat /\ n <= Len(b)
      /\ Len(b) \in Nat /\ DOMAIN b = 1..Len(b) /\ Level(a, 1) = v
      /\ \A m \in 1..n : /\ a.stack[m].sinfo \in SlotsOf(b, m)
                         /\ FewerBeside(a.stack[m].sinfo, Level(a, m), Level(a, m + 1))
                         /\ a.stack[m] \in Entries
  BY BatchAssumption DEF TrialsFrom
<1>2. a.v \in I[0]
  <2>1. Level(a, n + 1) = a.v
    BY <1>1 DEF Level
  <2>2. Fewer(a.v, a.v)
    BY DEF Fewer
  <2>3. a.v \in X(n + 1) /\ 0 \in 0..n + 1
    BY <1>1, <2>1, <2>2
  <2>. HIDE DEF X, n
  <2>. QED BY <2>3
<1>3. ASSUME NEW m \in S, NEW w \in X(n + 2 - m) PROVE f[m][w] \in X(n + 2 - (m + 1))
  <2>. DEFINE l == n + 1 - m
              e == a.stack[l]
  <2>1. l \in 1..n /\ n + 2 - m = l + 1 /\ n + 2 - (m + 1) = l /\ l \in DOMAIN b
    BY <1>1
  <2>2. w \in StillCaches /\ w \in Caches
    BY StillCachesFacts
  <2>3. f[m][w] = Undo(w, b, l, e)
    BY <2>2
  <2>. HIDE DEF l, f
  <2>4. Fewer(Level(a, l + 1), w)
    BY <2>1
  <2>5. /\ e.sinfo \in SlotsOf(b, l) /\ e \in Entries
        /\ FewerBeside(e.sinfo, Level(a, l), Level(a, l + 1)) /\ Level(a, l) = e.old
    BY <1>1, <2>1 DEF Level
  <2>. HIDE DEF e
  <2>6. FewerBeside(e.sinfo, e.old, w)
    BY <2>4, <2>5 DEF Fewer, FewerBeside
  <2>7. Undo(w, b, l, e) \in StillCaches /\ Fewer(e.old, Undo(w, b, l, e))
    BY <2>1, <2>2, <2>5, <2>6, UndoFacts
  <2>. QED BY <2>1, <2>3, <2>5, <2>7
<1>4. \A k \in 0..n : \A w \in I[k] : (IF k \in S THEN f[k][w] ELSE w) \in I[k + 1]
  <2>1. \A k \in 0..n : k \in 0..n + 1 /\ k + 1 \in 0..n + 1 /\ (k \in S <=> k # 0) /\ k + 1 # 0
    BY <1>1
  <2>2. n + 2 - (0 + 1) = n + 1
    BY <1>1
  <2>. HIDE DEF X, f, S, n
  <2>. QED BY <1>3, <2>1, <2>2
<1>5. Undone(a, b) = ForEach(f, a.v, S)
  BY DEF Undone
<1>6. ForEach(f, a.v, S) \in I[n + 1]
  <2>1. S \in SUBSET (0..n)
    BY <1>1
  <2>. HIDE DEF I, f, S, n
  <2>. QED BY <1>1, <1>2, <1>4, <2>1, LoopRule
<1>7. I[n + 1] = X(1)
  <2>1. n + 1 \in 0..n + 1 /\ n + 1 # 0 /\ n + 2 - (n + 1) = 1
    BY <1>1
  <2>. HIDE DEF X, n
  <2>. QED BY <2>1
<1>. HIDE DEF I, f, S, n
<1>. QED BY <1>1, <1>5, <1>6, <1>7

(* prepare: no cell gets a position by it, and it finds cells for all ubatches or fails. *)
LEMMA PrepareFacts ==
  ASSUME NEW v \in StillCaches, NEW b \in Batches, Legal(b)
  PROVE  LET p == Prepare(v, b) IN
         /\ p.v \in StillCaches /\ Fewer(v, p.v)
         /\ p.ok => \A j \in 1..Len(b) : p.sinfos[j] \in SlotsOf(b, j)
<1>. DEFINE a == Tried(v, b)
<1>1. a \in TrialsFrom(v, b) /\ (a.ok => Len(a.stack) = Len(b))
  BY TriedFacts
<1>2. Prepare(v, b) = [ok |-> a.ok, sinfos |-> [j \in DOMAIN a.stack |-> a.stack[j].sinfo],
                       v |-> Undone(a, b)]
  BY DEF Prepare
<1>. HIDE DEF a
<1>3. /\ DOMAIN a.stack = 1..Len(a.stack)
      /\ \A m \in 1..Len(a.stack) : a.stack[m].sinfo \in SlotsOf(b, m)
  BY <1>1 DEF TrialsFrom
<1>4. Undone(a, b) \in StillCaches /\ Fewer(v, Undone(a, b))
  BY <1>1, UndoneFacts
<1>. QED BY <1>1, <1>2, <1>3, <1>4

(* Ubatches computed: every K is rotated for the position its cell says.    *)
LEMMA ComputedFacts ==
  ASSUME NEW b \in Batches, Legal(b), NEW k \in 0..Len(b), NEW v, NEW data, NEW sinfos,
         [v |-> v, rot |-> data] \in Fitting,
         \A j \in 1..Len(b) : sinfos[j] \in SlotsOf(b, j)
  PROVE  Computed(v, data, b, sinfos, k) \in Fitting
<1>. DEFINE D == [v : Caches, rot : [Streams -> [Cells -> Int]]]
            f == [j \in 1..k |-> [e \in D |-> ComputeUbatch(e, b, j, sinfos[j])]]
            e0 == [v |-> v, rot |-> data]
            S == 1..k
<1>1. k \in Nat /\ S \in SUBSET (0..k) /\ S \in SUBSET (1..Len(b)) /\ DOMAIN b = 1..Len(b)
  BY BatchAssumption
<1>2. Fitting \in SUBSET D
  <2>1. [Streams -> Rows] \in SUBSET [Streams -> [Cells -> Int]]
    <3>1. Rows \in SUBSET [Cells -> Int]
      BY DEF Rows, Pos, Junk
    <3>. QED BY <3>1
  <2>. QED BY <2>1, StillCachesFacts DEF Fitting
<1>3. ASSUME NEW j \in S, NEW e \in Fitting PROVE f[j][e] \in Fitting
  <2>1. j \in DOMAIN b /\ sinfos[j] \in SlotsOf(b, j)
    BY <1>1
  <2>2. f[j][e] = ComputeUbatch(e, b, j, sinfos[j])
    BY <1>2
  <2>3. ComputeUbatch(e, b, j, sinfos[j]) \in Fitting
    BY <2>1, ComputeUbatchFacts
  <2>. HIDE DEF f
  <2>. QED BY <2>2, <2>3
<1>4. Computed(v, data, b, sinfos, k) = ForEach(f, e0, S)
  BY DEF Computed
<1>5. e0 \in Fitting
  OBVIOUS
<1>. HIDE DEF f, S, e0
<1>6. \A j \in S : \A e \in Fitting : f[j][e] \in Fitting
  BY <1>3
<1>. DEFINE A == Fitting
<1>7. e0 \in A /\ \A j \in S : \A e \in A : f[j][e] \in A
  BY <1>5, <1>6
<1>. HIDE DEF A
<1>8. ForEach(f, e0, S) \in A
  BY <1>1, <1>7, LoopKeeps
<1>. QED BY <1>4, <1>8 DEF A

-----------------------------------------------------------------------------
(* The roll-back of a failed ubatch.                                       *)

(* No cell of sequence s is at a position of its that the ubatch k gave.    *)
Gone(b, k, w, s) ==
  \A i \in Cells :
    s \in w[StreamOf(s)].seq[i] =>
      ~(RollbackFrom(b, k, s) <= w[StreamOf(s)].pos[i] /\ w[StreamOf(s)].pos[i] < MaxPos + 1)

(* A sequence has a stream. *)
LEMMA StreamOfType == \A s \in Seqs : StreamOf(s) \in Streams
BY DEF StreamOf, Streams

(* The sequences rolled back for are some of those of the tokens. *)
LEMMA FirstOwnersType ==
  ASSUME NEW b \in Batches, NEW k \in DOMAIN b
  PROVE  /\ FirstOwners(b, k) \in SUBSET Seqs
         /\ \A n \in DOMAIN b[k] : OwnedFirst(b[k][n]) \in SUBSET b[k][n]
<1>1. ASSUME NEW n \in DOMAIN b[k]
      PROVE  OwnedFirst(b[k][n]) \in SUBSET b[k][n] /\ b[k][n] \in SUBSET Seqs
  <2>. DEFINE row == b[k][n]
  <2>1. row \in SUBSET Seqs /\ row # {}
    BY BatchFacts
  <2>. HIDE DEF row
  <2>2. row \in SUBSET Int /\ \A s \in row : 0 <= s
    BY <2>1 DEF Seqs
  <2>. DEFINE z == 0
  <2>3. z \in Int /\ \A s \in row : z <= s
    BY <2>2
  <2>. HIDE DEF z
  <2>4. Min(row) \in row
    BY <2>1, <2>2, <2>3, MinOf
  <2>. QED BY <2>1, <2>4 DEF OwnedFirst, row
<1>. QED BY <1>1 DEF FirstOwners

(* What is removed stays removed when more is. *)
LEMMA GoneStays ==
  ASSUME NEW b, NEW k, NEW w \in StillCaches, NEW x \in StillCaches, NEW s \in Seqs, Gone(b, k, w, s),
         \A t \in Streams : Rest(w[t], x[t])
  PROVE  Gone(b, k, x, s)
<1>. DEFINE t == StreamOf(s)
            m == RollbackFrom(b, k, s)
<1>1. t \in Streams
  BY StreamOfType
<1>2. \A i \in Cells : s \in w[t].seq[i] => ~(m <= w[t].pos[i] /\ w[t].pos[i] < MaxPos + 1)
  BY DEF Gone
<1>. HIDE DEF t, m
<1>3. Rest(w[t], x[t]) /\ x[t] \in Still
  BY <1>1, StillCachesFacts
<1>4. ASSUME NEW i \in Cells, s \in x[t].seq[i]
      PROVE  ~(m <= x[t].pos[i] /\ x[t].pos[i] < MaxPos + 1)
  <2>1. x[t].pos[i] # -1
    BY <1>3, <1>4 DEF Still, Good
  <2>2. s \in w[t].seq[i] /\ x[t].pos[i] = w[t].pos[i]
    BY <1>3, <1>4, <2>1 DEF Rest
  <2>. QED BY <1>2, <2>2
<1>. QED BY <1>4 DEF Gone, t, m

(* The roll-back only removes, and removes all that is named. *)
LEMMA RollbackFacts ==
  ASSUME NEW v \in StillCaches, NEW b \in Batches, NEW k \in DOMAIN b
  PROVE  LET w == Rollback(v, b, k) IN
         /\ w \in StillCaches /\ \A t \in Streams : Rest(v[t], w[t])
         /\ \A s \in FirstOwners(b, k) : Gone(b, k, w, s)
<1>. DEFINE r(s) == <<RollbackFrom(b, k, s), MaxPos + 1>>
            f == [s \in Seqs |-> [w \in Caches |-> [w EXCEPT ![StreamOf(s)] = SeqRmIn(@, s, r(s))]]]
            S == FirstOwners(b, k)
            n == NSeq - 1
            X(m) == {w \in StillCaches : /\ \A t \in Streams : Rest(v[t], w[t])
                                         /\ \A s \in S : s < m => Gone(b, k, w, s)}
            I == [m \in 0..n + 1 |-> X(m)]
<1>1. n \in Nat /\ Seqs = 0..n /\ S \in SUBSET (0..n) /\ S \in SUBSET Seqs
  BY SizeAssumption, FirstOwnersType DEF Seqs
<1>2. v \in I[0]
  <2>1. \A t \in Streams : Rest(v[t], v[t])
    BY DEF Rest
  <2>2. \A s \in S : ~(s < 0)
    BY <1>1
  <2>3. v \in X(0) /\ 0 \in 0..n + 1
    BY <1>1, <2>1, <2>2
  <2>. HIDE DEF X, n
  <2>. QED BY <2>3
<1>3. ASSUME NEW m \in S, NEW w \in X(m) PROVE f[m][w] \in X(m + 1)
  <2>. DEFINE u == StreamOf(m)
              d == SeqRmIn(w[u], m, r(m))
              x == [w EXCEPT ![u] = d]
  <2>1. m \in Seqs /\ m \in Int /\ u \in Streams /\ w \in StillCaches /\ w \in Caches
    BY <1>1, StreamOfType, StillCachesFacts
  <2>2. f[m][w] = x
    BY <2>1
  <2>3. w[u] \in Still /\ w[u] \in Good
    BY <2>1, StillCachesFacts, StillFacts
  <2>4. d \in Good /\ Rest(w[u], d) /\ \A i \in InRange(w[u], r(m)) \cap OfSeq(w[u], m) : m \notin d.seq[i]
    <3>. DEFINE q == r(m)
    <3>. HIDE DEF q, u
    <3>1. LET y == SeqRmIn(w[u], m, q) IN
          y \in Good /\ Rest(w[u], y) /\ \A i \in InRange(w[u], q) \cap OfSeq(w[u], m) : m \notin y.seq[i]
      BY <2>1, <2>3, SeqRmInFacts
    <3>. QED BY <3>1 DEF q
  <2>. HIDE DEF d
  <2>5. d \in Still
    BY <2>3, <2>4, RestStill
  <2>6. x \in StillCaches /\ x[u] = d /\ \A t \in Streams : t # u => x[t] = w[t]
    BY <2>1, <2>5 DEF StillCaches
  <2>. HIDE DEF x
  <2>7. ASSUME NEW t \in Streams PROVE Rest(w[t], x[t])
    BY <2>4, <2>6 DEF Rest
  <2>8. ASSUME NEW t \in Streams PROVE Rest(v[t], x[t])
    <3>1. Rest(v[t], w[t])
      OBVIOUS
    <3>. QED BY <2>7, <3>1, RestTransitive
  <2>9. Gone(b, k, x, m)
    <3>1. ASSUME NEW i \in Cells, m \in d.seq[i]
          PROVE  ~(RollbackFrom(b, k, m) <= d.pos[i] /\ d.pos[i] < MaxPos + 1)
      <4>1. d.pos[i] # -1
        BY <2>5, <3>1 DEF Still, Good
      <4>2. m \in w[u].seq[i] /\ d.pos[i] = w[u].pos[i]
        BY <2>4, <3>1, <4>1 DEF Rest
      <4>. QED BY <2>4, <3>1, <4>2 DEF InRange, OfSeq
    <3>. QED BY <2>6, <3>1 DEF Gone
  <2>10. ASSUME NEW s \in S, s < m + 1 PROVE Gone(b, k, x, s)
    <3>1. CASE s = m
      BY <2>9, <3>1
    <3>2. CASE s # m
      <4>1. s < m /\ s \in Seqs
        BY <1>1, <2>1, <2>10, <3>2
      <4>2. Gone(b, k, w, s)
        BY <4>1
      <4>. QED BY <2>1, <2>6, <2>7, <4>1, <4>2, GoneStays
    <3>. QED BY <3>1, <3>2
  <2>11. x \in X(m + 1)
    BY <2>6, <2>8, <2>10
  <2>. HIDE DEF f, X
  <2>. QED BY <2>2, <2>11
<1>4. \A m \in 0..n : \A w \in I[m] : (IF m \in S THEN f[m][w] ELSE w) \in I[m + 1]
  <2>1. \A m \in 0..n : m \in 0..n + 1 /\ m + 1 \in 0..n + 1
    BY <1>1
  <2>2. ASSUME NEW m \in 0..n, m \notin S PROVE X(m) \in SUBSET X(m + 1)
    <3>1. \A s \in S : s < m + 1 => s < m
      BY <1>1, <2>2
    <3>. HIDE DEF S
    <3>. QED BY <3>1
  <2>. HIDE DEF X, f, S, n
  <2>. QED BY <1>3, <2>1, <2>2
<1>5. Rollback(v, b, k) = ForEach(f, v, S)
  BY DEF Rollback
<1>6. ForEach(f, v, S) \in I[n + 1]
  <2>. HIDE DEF I, f, S, n
  <2>. QED BY <1>1, <1>2, <1>4, LoopRule
<1>7. I[n + 1] = X(n + 1)
  BY <1>1
<1>8. \A s \in S : s < n + 1
  BY <1>1
<1>9. ForEach(f, v, S) \in X(n + 1)
  BY <1>6, <1>7
<1>. HIDE DEF I, f, n
<1>. QED BY <1>5, <1>8, <1>9

(* The roll-back starts at or below the position of each token it is for.   *)
LEMMA RollbackFromFacts ==
  ASSUME NEW b \in Batches, NEW k \in DOMAIN b, Legal(b), NEW m \in DOMAIN b[k],
         NEW s \in OwnedFirst(b[k][m])
  PROVE  /\ s \in FirstOwners(b, k) /\ TokPos(b, k, m, s) \in Pos
         /\ RollbackFrom(b, k, s) <= TokPos(b, k, m, s)
<1>. DEFINE P == {TokPos(b, k, n, s) : n \in {n \in DOMAIN b[k] : s \in OwnedFirst(b[k][n])}}
            z == 0
<1>1. \A n \in DOMAIN b[k] : s \in OwnedFirst(b[k][n]) => s \in b[k][n]
  BY FirstOwnersType
<1>2. \A n \in DOMAIN b[k] : s \in OwnedFirst(b[k][n]) => TokPos(b, k, n, s) \in Pos
  BY <1>1, TokPosFacts
<1>3. P \in SUBSET Pos /\ TokPos(b, k, m, s) \in P
  BY <1>2
<1>4. RollbackFrom(b, k, s) = Min(P)
  BY DEF RollbackFrom
<1>5. s \in FirstOwners(b, k)
  BY DEF FirstOwners
<1>. HIDE DEF P
<1>6. P \in SUBSET Int /\ P # {} /\ z \in Int /\ \A x \in P : z <= x
  BY <1>3 DEF Pos
<1>. HIDE DEF z
<1>7. \A x \in P : Min(P) <= x
  BY <1>6, MinOf
<1>. QED BY <1>2, <1>3, <1>4, <1>5, <1>7

(* A ubatch applied and rolled back: its cells are free, the others as they *)
(* were or free.                                                            *)
LEMMA AbortedFacts ==
  ASSUME NEW b \in Batches, NEW k \in DOMAIN b, Legal(b), Single(b),
         NEW v \in StillCaches, NEW f \in SlotsOf(b, k)
  PROVE  LET w == Rollback(ApplyUbatch(v, b, k, f), b, k) IN
         /\ w \in StillCaches
         /\ \A t \in Streams : \A i \in Cells :
              w[t].pos[i] = -1 \/ (i \notin ToSet(f[t]) /\ w[t].pos[i] = v[t].pos[i])
<1>. DEFINE d == ApplyUbatch(v, b, k, f)
            w == Rollback(d, b, k)
<1>1. /\ d \in StillCaches
      /\ \A t \in Streams : IF f[t] = <<>> THEN d[t] = v[t]
                            ELSE Filled(v[t], f[t], Toks(b, k, t), d[t])
  BY ApplyUbatchFacts
<1>. HIDE DEF d
<1>2. /\ w \in StillCaches /\ \A t \in Streams : Rest(d[t], w[t])
      /\ \A s \in FirstOwners(b, k) : Gone(b, k, w, s)
  BY <1>1, RollbackFacts
<1>. HIDE DEF w
<1>3. ASSUME NEW t \in Streams, NEW i \in Cells, w[t].pos[i] # -1
      PROVE  i \notin ToSet(f[t]) /\ w[t].pos[i] = v[t].pos[i]
  <2>1. w[t].pos[i] = d[t].pos[i] /\ w[t].seq[i] \subseteq d[t].seq[i]
    BY <1>2, <1>3 DEF Rest
  <2>2. CASE f[t] = <<>>
    <3>1. ToSet(<<>>) = {}
      BY DEF ToSet
    <3>. QED BY <1>1, <2>1, <2>2, <3>1
  <2>3. CASE f[t] # <<>>
    <3>. DEFINE toks == Toks(b, k, t)
    <3>1. Filled(v[t], f[t], toks, d[t]) /\ DOMAIN f[t] = 1..Len(b[k]) /\ t \in UStreams(b[k])
      BY <1>1, <2>3 DEF SlotsOf
    <3>0. \A m \in 1..Len(b[k]) :
            /\ toks[m].owners = (IF unified THEN b[k][m] ELSE {t})
            /\ ~unified => t \in b[k][m]
            /\ \E s \in toks[m].owners : toks[m].pos = TokPos(b, k, m, s)
      <4>1. t \in UStreams(b[k])
        BY <3>1
      <4>2. \A m \in 1..Len(b[k]) :
              /\ Toks(b, k, t)[m].owners = IF unified THEN b[k][m] ELSE {t}
              /\ t \in Seqs
              /\ ~unified => t \in b[k][m]
              /\ \E s \in Toks(b, k, t)[m].owners : Toks(b, k, t)[m].pos = TokPos(b, k, m, s)
        BY <4>1, ToksFacts
      <4>. QED BY <4>2
    <3>2. ASSUME NEW m \in DOMAIN f[t],
                 d[t].pos[i] = toks[m].pos, d[t].seq[i] \subseteq toks[m].owners
          PROVE  FALSE
      <4>1. m \in 1..Len(b[k]) /\ DOMAIN b[k] = 1..Len(b[k]) /\ b[k][m] \in SUBSET Seqs /\ b[k][m] # {}
        BY <3>1, BatchFacts
      <4>2. /\ toks[m].owners = (IF unified THEN b[k][m] ELSE {t})
            /\ ~unified => t \in b[k][m]
            /\ \E s \in toks[m].owners : toks[m].pos = TokPos(b, k, m, s)
        BY <3>0, <4>1
      <4>. HIDE DEF toks
      <4>3. \E s : toks[m].owners = {s} /\ s \in OwnedFirst(b[k][m]) /\ StreamOf(s) = t
        <5>1. CASE unified
          <6>1. Cardinality(b[k][m]) = 1
            BY <4>1, <5>1 DEF Single
          <6>2. IsFiniteSet(b[k][m])
            <7>1. IsFiniteSet(Seqs)
              BY SizeAssumption, FS_Interval DEF Seqs
            <7>. QED BY <4>1, <7>1, FS_Subset
          <6>3. PICK s : b[k][m] = {s}
            BY <6>1, <6>2, FS_Singleton
          <6>4. OwnedFirst(b[k][m]) = {Min({s})}
            BY <5>1, <6>3 DEF OwnedFirst
          <6>5. Min({s}) \in {s}
            BY <6>4, <4>1, FirstOwnersType, <6>3
          <6>6. StreamOf(s) = t
            BY <5>1 DEF StreamOf, Streams
          <6>. QED BY <4>2, <5>1, <6>3, <6>4, <6>5, <6>6
        <5>2. CASE ~unified
          BY <4>2, <5>2 DEF OwnedFirst, StreamOf, Streams
        <5>. QED BY <5>1, <5>2
      <4>4. PICK s : toks[m].owners = {s} /\ s \in OwnedFirst(b[k][m]) /\ StreamOf(s) = t
        BY <4>3
      <4>5. /\ s \in FirstOwners(b, k) /\ TokPos(b, k, m, s) \in Pos
            /\ RollbackFrom(b, k, s) <= TokPos(b, k, m, s)
        BY <4>1, <4>4, RollbackFromFacts
      <4>6. w[t].pos[i] = TokPos(b, k, m, s)
        BY <2>1, <3>2, <4>2, <4>4
      <4>7. TokPos(b, k, m, s) < MaxPos + 1
        BY <4>5, SizeAssumption DEF Pos
      <4>8. s \notin w[t].seq[i]
        BY <1>2, <4>4, <4>5, <4>6, <4>7 DEF Gone
      <4>9. w[t].seq[i] \subseteq {s}
        BY <2>1, <3>2, <4>4
      <4>10. w[t].seq[i] = {}
        BY <4>8, <4>9
      <4>11. w[t] \in Still
        BY <1>2, StillCachesFacts
      <4>. QED BY <1>3, <4>10, <4>11 DEF Still, Good
    <3>. HIDE DEF toks
    <3>. QED BY <1>3, <2>1, <3>1, <3>2 DEF Filled
  <2>. QED BY <2>2, <2>3
<1>. QED BY <1>2, <1>3 DEF w, d

-----------------------------------------------------------------------------
(* A stream restored, and the copies that wait.                            *)

(* The cells kept come first, with what they had.                           *)
LEMMA RestoredFacts ==
  ASSUME NEW c \in Still, NEW n \in 0..Size, NEW kept \in [1..n -> c.used]
  PROVE  /\ Restored(c, kept) \in Still
         /\ \A i \in Cells : Restored(c, kept).pos[i] =
                               IF i + 1 \in 1..n THEN c.pos[kept[i + 1]] ELSE -1
<1>. DEFINE f == [k \in DOMAIN kept |-> [d \in CellStates |->
                    Put(d, k - 1, c.pos[kept[k]], c.seq[kept[k]])]]
            S == DOMAIN kept
            X(k) == {x \in Still : \A i \in Cells :
                       x.pos[i] = IF i + 1 \in 1..k - 1 THEN c.pos[kept[i + 1]] ELSE -1}
            I == [k \in 0..n + 1 |-> X(k)]
<1>1. S = 1..n /\ n \in Nat /\ n <= Size /\ Size \in Nat /\ Cells = 0..Size - 1
  BY SizeFacts
<1>2. Reset \in I[0]
  <2>1. Reset \in Still
    BY ResetFacts DEF Still
  <2>2. \A i \in Cells : i + 1 \notin 1..0 - 1
    BY <1>1
  <2>3. Reset \in X(0)
    BY <2>1, <2>2, ResetFacts
  <2>. QED BY <1>1, <2>3
<1>3. ASSUME NEW k \in S, NEW x \in X(k) PROVE f[k][x] \in X(k + 1)
  <2>. DEFINE i == k - 1
              p == c.pos[kept[k]]
              Q == c.seq[kept[k]]
              y == Put(x, i, p, Q)
  <2>1. k \in Nat /\ i \in Cells /\ i + 1 = k /\ k \notin 1..k - 1
    BY <1>1
  <2>2. x \in CellStates /\ x \in Sound /\ x \in Still /\ x \in Good
    BY StillFacts
  <2>3. f[k][x] = y
    BY <2>2
  <2>4. x.pos[i] = -1 /\ x.seq[i] = {}
    BY <2>1, <2>2 DEF Still, Good
  <2>5. p \in Pos /\ Q \in SUBSET Seqs /\ Q # {}
    <3>. DEFINE z == kept[k]
    <3>1. z \in c.used
      BY <1>1
    <3>. HIDE DEF z
    <3>2. z \in Cells /\ c.pos[z] # -1 /\ c.pos[z] \in Pos \cup {-1} /\ c.seq[z] \in SUBSET Seqs
      BY <3>1 DEF Still, Good, Sound, CellStates
    <3>3. c.seq[z] # {}
      BY <3>2 DEF Still, Good
    <3>. QED BY <3>2, <3>3 DEF z
  <2>6. p = c.pos[kept[k]]
    OBVIOUS
  <2>. HIDE DEF i, p, Q
  <2>7. y \in Sound /\ Apart(x, y, i) /\ y.hasShift = x.hasShift /\ y.pos[i] = p /\ y.seq[i] = Q
    BY <2>1, <2>2, <2>4, <2>5, PutFacts
  <2>. HIDE DEF y, f
  <2>8. y \in Still
    <3>1. p # -1
      BY <2>5 DEF Pos
    <3>. QED BY <2>2, <2>5, <2>7, <3>1 DEF Still, Good, Apart
  <2>9. ASSUME NEW j \in Cells
        PROVE  y.pos[j] = IF j + 1 \in 1..(k + 1) - 1 THEN c.pos[kept[j + 1]] ELSE -1
    <3>1. CASE j = i
      BY <2>1, <2>6, <2>7, <3>1
    <3>2. CASE j # i
      <4>1. j + 1 \in 1..(k + 1) - 1 <=> j + 1 \in 1..k - 1
        BY <1>1, <2>1, <3>2
      <4>2. y.pos[j] = x.pos[j]
        BY <2>7, <3>2 DEF Apart
      <4>. QED BY <4>1, <4>2
    <3>. QED BY <3>1, <3>2
  <2>10. y \in X(k + 1)
    BY <2>8, <2>9
  <2>. QED BY <2>3, <2>10
<1>4. \A k \in 0..n : \A x \in I[k] : (IF k \in S THEN f[k][x] ELSE x) \in I[k + 1]
  <2>1. \A k \in 0..n : k \in 0..n + 1 /\ k + 1 \in 0..n + 1 /\ (k \in S <=> k # 0)
    BY <1>1
  <2>2. X(0) \in SUBSET X(0 + 1)
    <3>1. 1..0 - 1 = 1..(0 + 1) - 1
      OBVIOUS
    <3>. QED BY <3>1
  <2>. HIDE DEF X, f, S
  <2>. QED BY <1>3, <2>1, <2>2
<1>5. Restored(c, kept) = ForEach(f, Reset, S)
  BY DEF Restored
<1>6. ForEach(f, Reset, S) \in I[n + 1]
  <2>1. S \in SUBSET (0..n)
    BY <1>1
  <2>. HIDE DEF I, f, S
  <2>. QED BY <1>1, <1>2, <1>4, <2>1, LoopRule
<1>7. I[n + 1] = X(n + 1) /\ (n + 1) - 1 = n
  BY <1>1
<1>8. ForEach(f, Reset, S) \in X(n + 1)
  BY <1>6, <1>7
<1>. HIDE DEF I, f, S
<1>. QED BY <1>5, <1>7, <1>8

(* Streams and what their K is rotated for; copies from one to another.     *)
Grid == [Streams -> Rows]
Copies == Seq(Streams \X Streams)

(* A stream may take over the K of another. *)
LEMMA GridFacts ==
  ASSUME NEW g \in Grid
  PROVE  /\ g \in [Streams -> [Cells -> Int]]
         /\ \A s \in Streams : \A t \in Streams : [g EXCEPT ![t] = g[s]] \in Grid
BY DEF Grid, Rows, Pos, Junk

(* The copies, done in order. *)
LEMMA CopiedByType ==
  ASSUME NEW info \in Copies, NEW g \in Grid
  PROVE  CopiedBy(info, g) \in Grid
<1>. DEFINE f == [k \in DOMAIN info |-> [d \in [Streams -> [Cells -> Int]] |->
                    [d EXCEPT ![info[k][2]] = d[info[k][1]]]]]
            n == Len(info)
            S == DOMAIN info
<1>1. n \in Nat /\ S = 1..n /\ S \in SUBSET (0..n)
  BY DEF Copies
<1>2. ASSUME NEW k \in S, NEW x \in Grid PROVE f[k][x] \in Grid
  <2>1. info[k][1] \in Streams /\ info[k][2] \in Streams
    BY DEF Copies
  <2>2. f[k][x] = [x EXCEPT ![info[k][2]] = x[info[k][1]]]
    BY GridFacts
  <2>. HIDE DEF f
  <2>. QED BY <2>1, <2>2, GridFacts
<1>3. CopiedBy(info, g) = ForEach(f, g, S)
  BY DEF CopiedBy
<1>. DEFINE A == Grid
<1>4. g \in A /\ \A k \in S : \A x \in A : f[k][x] \in A
  BY <1>2
<1>. HIDE DEF f, S, n, A
<1>5. ForEach(f, g, S) \in A
  BY <1>1, <1>4, LoopKeeps
<1>. QED BY <1>3, <1>5 DEF A

(* No copy waits, and one more.                                             *)
LEMMA CopiedByNone ==
  ASSUME NEW g
  PROVE  CopiedBy(<<>>, g) = g
<1>. DEFINE f == [k \in DOMAIN <<>> |-> [d \in [Streams -> [Cells -> Int]] |->
                    [d EXCEPT ![<<>>[k][2]] = d[<<>>[k][1]]]]]
            S == DOMAIN <<>>
            I == {g}
            z == 0
<1>1. S = {} /\ z \in Nat
  OBVIOUS
<1>2. CopiedBy(<<>>, g) = ForEach(f, g, S)
  BY DEF CopiedBy
<1>3. g \in I
  OBVIOUS
<1>. HIDE DEF f, S, I, z
<1>4. ForEach(f, g, S) \in I
  BY <1>1, <1>3, LoopKeeps
<1>. QED BY <1>2, <1>4 DEF I

(* One more copy waits: it is done last. *)
LEMMA CopiedByOneMore ==
  ASSUME NEW info \in Copies, NEW g \in Grid, NEW s \in Streams, NEW t \in Streams
  PROVE  CopiedBy(Append(info, <<s, t>>), g) =
            [CopiedBy(info, g) EXCEPT ![t] = CopiedBy(info, g)[s]]
<1>. DEFINE next == Append(info, <<s, t>>)
            f == [k \in DOMAIN info |-> [d \in [Streams -> [Cells -> Int]] |->
                    [d EXCEPT ![info[k][2]] = d[info[k][1]]]]]
            h == [k \in DOMAIN next |-> [d \in [Streams -> [Cells -> Int]] |->
                    [d EXCEPT ![next[k][2]] = d[next[k][1]]]]]
            S == DOMAIN info
            T == DOMAIN next
            n == Len(info)
            I == [k \in 0..n + 2 |-> IF k = n + 2
                                     THEN {<<x, [x EXCEPT ![t] = x[s]]>> : x \in Grid}
                                     ELSE {<<x, x>> : x \in Grid}]
<1>1. /\ n \in Nat /\ S = 1..n /\ T = 1..n + 1
      /\ next[n + 1] = <<s, t>> /\ \A k \in 1..n : next[k] = info[k]
      /\ \A k \in S : info[k][1] \in Streams /\ info[k][2] \in Streams
  BY DEF Copies
<1>. HIDE DEF next, n
<1>2. <<g, g>> \in I[0]
  BY <1>1
<1>3. ASSUME NEW k \in 0..n + 1, NEW x, NEW y, <<x, y>> \in I[k]
      PROVE  <<IF k \in S THEN f[k][x] ELSE x, IF k \in T THEN h[k][y] ELSE y>> \in I[k + 1]
  <2>1. k \in 0..n + 2 /\ k + 1 \in 0..n + 2 /\ k # n + 2
    BY <1>1
  <2>2. x \in Grid /\ y = x
    BY <1>3, <2>1
  <2>3. x \in [Streams -> [Cells -> Int]]
    BY <2>2, GridFacts
  <2>4. CASE k = 0
    <3>1. k \notin S /\ k \notin T /\ k + 1 # n + 2
      BY <1>1, <2>4
    <3>. HIDE DEF f, h, S, T
    <3>. QED BY <2>1, <2>2, <3>1
  <2>5. CASE k \in 1..n
    <3>1. k \in S /\ k \in T /\ k + 1 # n + 2 /\ next[k] = info[k]
      BY <1>1, <2>5
    <3>2. f[k][x] = [x EXCEPT ![info[k][2]] = x[info[k][1]]]
      BY <2>3, <3>1
    <3>3. h[k][y] = [x EXCEPT ![info[k][2]] = x[info[k][1]]]
      BY <2>2, <2>3, <3>1
    <3>4. [x EXCEPT ![info[k][2]] = x[info[k][1]]] \in Grid
      BY <1>1, <2>2, <3>1, GridFacts
    <3>. HIDE DEF f, h, S, T
    <3>. QED BY <2>1, <3>1, <3>2, <3>3, <3>4
  <2>6. CASE k = n + 1
    <3>1. k \notin S /\ k \in T /\ k + 1 = n + 2 /\ next[k][1] = s /\ next[k][2] = t
      BY <1>1, <2>6
    <3>2. h[k][y] = [x EXCEPT ![t] = x[s]]
      BY <2>2, <2>3, <3>1
    <3>. HIDE DEF f, h, S, T
    <3>. QED BY <2>1, <2>2, <3>1, <3>2
  <2>. QED BY <1>1, <2>4, <2>5, <2>6
<1>4. CopiedBy(info, g) = ForEach(f, g, S) /\ CopiedBy(next, g) = ForEach(h, g, T)
  BY DEF CopiedBy
<1>5. <<ForEach(f, g, S), ForEach(h, g, T)>> \in I[(n + 1) + 1]
  <2>. DEFINE m == n + 1
  <2>1. m \in Nat /\ S \in SUBSET (0..m) /\ T \in SUBSET (0..m)
    BY <1>1
  <2>2. ASSUME NEW k \in 0..m, NEW x, NEW y, <<x, y>> \in I[k]
        PROVE  <<IF k \in S THEN f[k][x] ELSE x, IF k \in T THEN h[k][y] ELSE y>> \in I[k + 1]
    BY <1>3, <2>2
  <2>. HIDE DEF I, f, h, S, T, m
  <2>3. <<ForEach(f, g, S), ForEach(h, g, T)>> \in I[m + 1]
    BY <1>2, <2>1, <2>2, Lockstep
  <2>. QED BY <2>3 DEF m
<1>6. I[(n + 1) + 1] = {<<x, [x EXCEPT ![t] = x[s]]>> : x \in Grid}
  BY <1>1
<1>. HIDE DEF f, h, S, T, I
<1>. QED BY <1>4, <1>5, <1>6 DEF next

-----------------------------------------------------------------------------
(* The inductive invariant: the indexes of each stream agree, and the shift *)
(* each of its cells owes brings the K it will have, when the copies are    *)
(* done, to its position.                                                   *)
Owes(c, row) ==
  \A i \in Cells : c.pos[i] # -1 => row[i] \in Pos /\ row[i] = c.pos[i] - c.shift[i]

Inv ==
  /\ unified \in BOOLEAN /\ window \in Windows
  /\ v_cells \in [Streams -> Good]
  /\ rot \in Grid
  /\ sc_info \in Copies
  /\ \A t \in Streams : Owes(v_cells[t], Copied(rot)[t])

(* The number of streams and of cells never changes.                        *)
LEMMA Frame ==
  ASSUME unified' = unified
  PROVE  /\ Cells' = Cells /\ Streams' = Streams /\ Size' = Size
         /\ Good' = Good /\ Grid' = Grid /\ Copies' = Copies
<1>1. Size' = Size /\ Streams' = Streams
  BY DEF Size, Streams
<1>2. Cells' = Cells
  BY <1>1 DEF Cells
<1>3. CellStates' = CellStates
  BY <1>1, <1>2 DEF CellStates
<1>4. Sound' = Sound
  <2>1. ASSUME NEW c PROVE c \in Sound' <=> c \in Sound
    <3>1. \A s, p : At(c, s, p)' = At(c, s, p)
      BY <1>2 DEF At
    <3>. QED BY <1>2, <1>3, <3>1 DEF Sound
  <2>. QED BY <2>1
<1>5. Good' = Good
  <2>1. ASSUME NEW c PROVE c \in Good' <=> c \in Good
    BY <1>2, <1>4 DEF Good
  <2>. QED BY <2>1
<1>6. Grid' = Grid
  BY <1>1, <1>2 DEF Grid, Rows
<1>. QED BY <1>1, <1>2, <1>5, <1>6 DEF Copies

(* The copies of the next state. *)
LEMMA FrameCopied ==
  ASSUME unified' = unified
  PROVE  Copied(rot)' = CopiedBy(sc_info', rot')
<1>. DEFINE info == sc_info'
            A == [Streams -> [Cells -> Int]]
            f == [k \in DOMAIN info |-> [d \in A |-> [d EXCEPT ![info[k][2]] = d[info[k][1]]]]]
            B == [Streams' -> [Cells' -> Int]]
            g == [k \in DOMAIN info |-> [d \in B |-> [d EXCEPT ![info[k][2]] = d[info[k][1]]]]]
<1>1. A = B
  BY Frame
<1>. HIDE DEF A, B
<1>2. f = g
  BY <1>1
<1>3. CopiedBy(sc_info', rot') = ForEach(f, rot', DOMAIN info)
  BY DEF CopiedBy, A
<1>4. Copied(rot)' = ForEach(g, rot', DOMAIN info)
  BY DEF Copied, CopiedBy, B
<1>. HIDE DEF f, g
<1>. QED BY <1>2, <1>3, <1>4

(* What to show of a step. *)
LEMMA InvStep ==
  ASSUME Inv, UNCHANGED <<unified, window>>, v_cells' \in [Streams -> Good], rot' \in Grid,
         sc_info' \in Copies, \A t \in Streams : Owes(v_cells'[t], CopiedBy(sc_info', rot')[t])
  PROVE  Inv'
<1>1. unified' = unified
  OBVIOUS
<1>2. Copied(rot)' = CopiedBy(sc_info', rot')
  BY <1>1, FrameCopied
<1>3. \A t \in Streams : Owes(v_cells[t], Copied(rot)[t])'
  BY <1>1, <1>2, Frame DEF Owes
<1>. QED BY <1>1, <1>3, Frame DEF Inv

(* The invariant holds of an empty cache. *)
LEMMA InvInit == Init => Inv
<1>. SUFFICES ASSUME Init PROVE Inv
  OBVIOUS
<1>1. v_cells \in [Streams -> Good] /\ \A t \in Streams : v_cells[t] = Reset
  BY ResetFacts DEF Init
<1>2. rot \in Grid
  BY DEF Init, Grid, Rows
<1>3. \A t \in Streams : Owes(v_cells[t], Copied(rot)[t])
  BY <1>1, ResetFacts DEF Owes
<1>. QED BY <1>1, <1>2, <1>3 DEF Init, Inv, Copies

(* What is scrubbed is the K of free cells only, and only when no copy      *)
(* waits.                                                                   *)
LEMMA ScrubbedFacts ==
  ASSUME NEW g \in Grid
  PROVE  /\ Scrubbed(g) \in Grid
         /\ \A t \in Streams : \A i \in Cells :
              v_cells'[t].pos[i] # -1 => Scrubbed(g)[t][i] = g[t][i]
         /\ sc_info' # <<>> => Scrubbed(g) = g
<1>1. \A t \in Streams : \A i \in Cells :
        Scrubbed(g)[t][i] = IF v_cells'[t].pos[i] = -1 /\ sc_info' = <<>> THEN Junk ELSE g[t][i]
  BY DEF Scrubbed
<1>2. \A t \in Streams : \A i \in Cells : g[t][i] \in Pos \cup {Junk}
  BY DEF Grid, Rows
<1>3. Scrubbed(g) = [t \in Streams |-> [i \in Cells |-> Scrubbed(g)[t][i]]]
  BY DEF Scrubbed
<1>4. g = [t \in Streams |-> [i \in Cells |-> g[t][i]]]
  BY DEF Grid, Rows
<1>. DEFINE x == Scrubbed(g)
<1>. HIDE DEF x
<1>5. /\ x = [t \in Streams |-> [i \in Cells |-> x[t][i]]]
      /\ \A t \in Streams : \A i \in Cells :
           x[t][i] = IF v_cells'[t].pos[i] = -1 /\ sc_info' = <<>> THEN Junk ELSE g[t][i]
  BY <1>1, <1>3 DEF x
<1>6. \A t \in Streams : \A i \in Cells : x[t][i] \in Pos \cup {Junk}
  BY <1>2, <1>5
<1>7. x \in Grid
  BY <1>5, <1>6 DEF Grid, Rows
<1>8. sc_info' # <<>> => x = g
  <2>1. ASSUME sc_info' # <<>> PROVE x = g
    <3>1. \A t \in Streams : \A i \in Cells : x[t][i] = g[t][i]
      BY <1>5, <2>1
    <3>2. \A t \in Streams : [i \in Cells |-> x[t][i]] = [i \in Cells |-> g[t][i]]
      BY <3>1
    <3>3. [t \in Streams |-> [i \in Cells |-> x[t][i]]] = [t \in Streams |-> [i \in Cells |-> g[t][i]]]
      BY <3>2
    <3>. QED BY <1>4, <1>5, <3>3
  <2>. QED BY <2>1
<1>. QED BY <1>5, <1>7, <1>8 DEF x

(* Cells that keep what they owe, and copies that go on waiting.            *)
LEMMA KeptStep ==
  ASSUME Inv, UNCHANGED <<unified, window, sc_info>>, v_cells' \in [Streams -> Good],
         \A t \in Streams : Kept(v_cells[t], v_cells'[t]), rot' \in {rot, Scrubbed(rot)}
  PROVE  Inv'
<1>1. rot \in Grid /\ sc_info \in Copies /\ sc_info' = sc_info
  BY DEF Inv
<1>2. /\ rot' \in Grid
      /\ sc_info # <<>> => rot' = rot
      /\ \A t \in Streams : \A i \in Cells : v_cells'[t].pos[i] # -1 => rot'[t][i] = rot[t][i]
  BY <1>1, ScrubbedFacts
<1>3. ASSUME NEW t \in Streams, NEW i \in Cells, v_cells'[t].pos[i] # -1
      PROVE  CopiedBy(sc_info', rot')[t][i] = Copied(rot)[t][i]
  <2>1. CASE sc_info = <<>>
    <3>1. CopiedBy(<<>>, rot') = rot' /\ CopiedBy(<<>>, rot) = rot
      BY CopiedByNone
    <3>. QED BY <1>1, <1>2, <1>3, <2>1, <3>1 DEF Copied
  <2>2. CASE sc_info # <<>>
    BY <1>1, <1>2, <2>2 DEF Copied
  <2>. QED BY <2>1, <2>2
<1>4. ASSUME NEW t \in Streams PROVE Owes(v_cells'[t], CopiedBy(sc_info', rot')[t])
  <2>. DEFINE c == v_cells[t]
              d == v_cells'[t]
              x == Copied(rot)[t]
              y == CopiedBy(sc_info', rot')[t]
  <2>1. Owes(c, x) /\ Kept(c, d) /\ \A i \in Cells : d.pos[i] # -1 => y[i] = x[i]
    BY <1>3 DEF Inv
  <2>. HIDE DEF c, d, x, y
  <2>2. Owes(d, y)
    BY <2>1 DEF Owes, Kept
  <2>. QED BY <2>2 DEF d, y
<1>. QED BY <1>1, <1>2, <1>4, InvStep

(* No shift owed, no copy waiting.                                          *)
LEMMA SettledStep ==
  ASSUME Inv, UNCHANGED <<unified, window>>, sc_info' = <<>>,
         NEW v, NEW g, [v |-> v, rot |-> g] \in Fitting,
         v_cells' = v, rot' = Scrubbed(g)
  PROVE  Inv'
<1>1. v \in StillCaches /\ g \in Grid /\ \A t \in Streams : Fits(v[t], g[t])
  BY DEF Fitting, Grid
<1>2. v_cells' \in [Streams -> Good]
  BY <1>1, StillFacts DEF StillCaches
<1>3. rot' \in Grid /\ sc_info' \in Copies
  BY <1>1, ScrubbedFacts DEF Copies
<1>4. ASSUME NEW t \in Streams PROVE Owes(v_cells'[t], CopiedBy(sc_info', rot')[t])
  <2>1. CopiedBy(sc_info', rot')[t] = rot'[t]
    BY CopiedByNone
  <2>2. v[t] \in Still
    BY <1>1, StillCachesFacts
  <2>3. ASSUME NEW i \in Cells, v[t].pos[i] # -1
        PROVE  rot'[t][i] \in Pos /\ rot'[t][i] = v[t].pos[i] - v[t].shift[i]
    <3>1. rot'[t][i] = g[t][i]
      BY <1>1, <2>3, ScrubbedFacts
    <3>2. g[t][i] = v[t].pos[i]
      BY <1>1, <2>3 DEF Fits
    <3>3. v[t].shift[i] = 0 /\ v[t].pos[i] \in Pos /\ v[t].pos[i] \in Int
      BY <2>2, <2>3, StillFacts
    <3>. QED BY <3>1, <3>2, <3>3
  <2>. QED BY <2>1, <2>3 DEF Owes
<1>. QED BY <1>2, <1>3, <1>4, InvStep

(* One stream changed, the others not.                                      *)
LEMMA OneStreamKept ==
  ASSUME Inv, NEW t \in Streams, NEW d \in Good, Kept(v_cells[t], d),
         v_cells' = [v_cells EXCEPT ![t] = d],
         UNCHANGED <<unified, window, sc_info>>, rot' \in {rot, Scrubbed(rot)}
  PROVE  Inv'
<1>1. v_cells \in [Streams -> Good]
  BY DEF Inv
<1>2. v_cells' \in [Streams -> Good]
  BY <1>1
<1>3. \A u \in Streams : Kept(v_cells[u], v_cells'[u])
  BY <1>1 DEF Kept
<1>. QED BY <1>2, <1>3, KeptStep

(* A sequence removed from a range. *)
LEMMA SeqRmStep == ASSUME Inv, NEW s \in Seqs, NEW r, SeqRm(s, r) PROVE Inv'
<1>. DEFINE t == StreamOf(s)
            d == SeqRmIn(v_cells[t], s, r)
<1>1. t \in Streams /\ v_cells \in [Streams -> Good]
  BY StreamOfType DEF Inv
<1>2. /\ v_cells' = [v_cells EXCEPT ![t] = d]
      /\ UNCHANGED <<unified, window, sc_info>> /\ rot' \in {rot, Scrubbed(rot)}
  BY <1>1 DEF SeqRm
<1>. HIDE DEF t
<1>3. d \in Good /\ Kept(v_cells[t], d)
  BY <1>1, SeqRmInFacts, RestKept
<1>. QED BY <1>1, <1>2, <1>3, OneStreamKept

(* All other sequences removed. *)
LEMMA SeqKeepStep == ASSUME Inv, NEW s \in Seqs, SeqKeep(s) PROVE Inv'
<1>. DEFINE t == StreamOf(s)
            d == SeqKeepIn(v_cells[t], s)
<1>1. t \in Streams /\ v_cells \in [Streams -> Good]
  BY StreamOfType DEF Inv
<1>2. /\ v_cells' = [v_cells EXCEPT ![t] = d]
      /\ UNCHANGED <<unified, window, sc_info>> /\ rot' \in {rot, Scrubbed(rot)}
  BY <1>1 DEF SeqKeep
<1>. HIDE DEF t
<1>3. d \in Good /\ Kept(v_cells[t], d)
  BY <1>1, SeqKeepInFacts, RestKept
<1>. QED BY <1>1, <1>2, <1>3, OneStreamKept

(* Positions shifted. *)
LEMMA SeqAddStep == ASSUME Inv, NEW s \in Seqs, NEW r, NEW x \in Int, SeqAdd(s, r, x) PROVE Inv'
<1>. DEFINE t == StreamOf(s)
            d == SeqAddIn(v_cells[t], s, r, x)
<1>1. t \in Streams /\ v_cells \in [Streams -> Good]
  BY StreamOfType DEF Inv
<1>2. /\ v_cells' = [v_cells EXCEPT ![t] = d]
      /\ UNCHANGED <<unified, window, sc_info>> /\ rot' \in {rot, Scrubbed(rot)}
      /\ \A i \in InRange(v_cells[t], r) \cap OfSeq(v_cells[t], s) : v_cells[t].pos[i] + x <= MaxPos
  BY <1>1 DEF SeqAdd
<1>. HIDE DEF t
<1>3. d \in Good /\ Kept(v_cells[t], d)
  BY <1>1, <1>2, SeqAddInFacts
<1>. QED BY <1>1, <1>2, <1>3, OneStreamKept

(* A sequence copied within the one stream. *)
LEMMA SeqCpStep ==
  ASSUME Inv, NEW s \in Seqs, NEW t \in Seqs, NEW r, SeqCp(s, t, r)
  PROVE  Inv'
<1>. DEFINE u == 0
            d == SeqCpIn(v_cells[u], s, t, r)
<1>1. u \in Streams /\ v_cells \in [Streams -> Good]
  BY DEF Inv, SeqCp, Streams
<1>2. /\ v_cells' = [v_cells EXCEPT ![u] = d]
      /\ UNCHANGED <<unified, window, sc_info>> /\ rot' \in {rot, Scrubbed(rot)}
      /\ Shared(v_cells[u], s, t, r) = {}
  BY <1>1 DEF SeqCp
<1>. HIDE DEF u
<1>3. d \in Good /\ Kept(v_cells[u], d)
  BY <1>1, <1>2, SeqCpInFacts
<1>. QED BY <1>1, <1>2, <1>3, OneStreamKept

(* All sequences removed from a range. *)
LEMMA SeqRmAnyStep == ASSUME Inv, NEW r, SeqRmAny(r) PROVE Inv'
<1>1. v_cells \in [Streams -> Good]
  BY DEF Inv
<1>2. ASSUME NEW t \in Streams
      PROVE  v_cells'[t] \in Good /\ Kept(v_cells[t], v_cells'[t])
  <2>. DEFINE c == v_cells[t]
  <2>1. v_cells'[t] = SeqRmAnyIn(c, r) /\ c \in Good
    BY <1>1 DEF SeqRmAny
  <2>. HIDE DEF c
  <2>2. SeqRmAnyIn(c, r) \in Good /\ Rest(c, SeqRmAnyIn(c, r))
    BY <2>1, SeqRmAnyInFacts
  <2>3. Kept(c, SeqRmAnyIn(c, r))
    BY <2>2, RestKept
  <2>. QED BY <2>1, <2>2, <2>3 DEF c
<1>3. v_cells' \in [Streams -> Good]
  BY <1>2 DEF SeqRmAny
<1>4. UNCHANGED <<unified, window, sc_info>> /\ rot' \in {rot, Scrubbed(rot)}
  BY DEF SeqRmAny
<1>. QED BY <1>2, <1>3, <1>4, KeptStep

(* All cells freed. *)
LEMMA ClearStep == ASSUME Inv, Clear PROVE Inv'
<1>1. v_cells' \in [Streams -> Good] /\ \A t \in Streams : v_cells'[t] = Reset
  BY ResetFacts DEF Clear
<1>2. \A t \in Streams : Kept(v_cells[t], v_cells'[t])
  BY <1>1, ResetFacts DEF Kept
<1>3. UNCHANGED <<unified, window, sc_info>> /\ rot' \in {rot, Scrubbed(rot)}
  BY DEF Clear
<1>. QED BY <1>1, <1>2, <1>3, KeptStep

(* A copy to another stream: the cell there owes what the cell here owes,   *)
(* and its K will be a copy of the K here.                                  *)
LEMMA SeqCpStreamStep ==
  ASSUME Inv, NEW s \in Seqs, NEW t \in Seqs, SeqCpStream(s, t)
  PROVE  Inv'
<1>. DEFINE c == v_cells[s]
            d == SeqCpOver(c, s, t)
            x == Copied(rot)
<1>1. /\ s \in Streams /\ t \in Streams /\ v_cells \in [Streams -> Good] /\ c \in Good
      /\ rot \in Grid /\ sc_info \in Copies
  BY DEF Inv, SeqCpStream, Streams
<1>2. \A u \in Streams : Owes(v_cells[u], x[u])
  BY DEF Inv
<1>3. \A i \in Cells : c.pos[i] # -1 => c.pos[i] - c.shift[i] \in Pos
  BY <1>1, <1>2 DEF Owes
<1>. HIDE DEF c, x
<1>4. d \in Good /\ Kept(c, d)
  BY <1>1, <1>3, SeqCpOverFacts
<1>5. /\ v_cells' = [v_cells EXCEPT ![t] = d] /\ sc_info' = Append(sc_info, <<s, t>>)
      /\ UNCHANGED <<unified, window>> /\ rot' = Scrubbed(rot)
  BY DEF SeqCpStream, c
<1>6. sc_info' \in Copies /\ sc_info' # <<>>
  BY <1>1, <1>5 DEF Copies
<1>7. rot' = rot
  BY <1>1, <1>5, <1>6, ScrubbedFacts
<1>8. CopiedBy(sc_info', rot') = [x EXCEPT ![t] = x[s]] /\ x \in Grid
  <2>1. x = CopiedBy(sc_info, rot)
    BY DEF x, Copied
  <2>2. x \in Grid
    BY <1>1, <2>1, CopiedByType, ZenonT(30)
  <2>3. CopiedBy(Append(sc_info, <<s, t>>), rot) = [x EXCEPT ![t] = x[s]]
    BY <1>1, <2>1, CopiedByOneMore
  <2>. QED BY <1>5, <1>7, <2>2, <2>3
<1>. HIDE DEF d
<1>9. v_cells' \in [Streams -> Good]
  BY <1>1, <1>4, <1>5
<1>10. ASSUME NEW u \in Streams PROVE Owes(v_cells'[u], CopiedBy(sc_info', rot')[u])
  <2>1. CASE u = t
    <3>1. v_cells'[u] = d /\ CopiedBy(sc_info', rot')[u] = x[s]
      BY <1>1, <1>5, <1>8, <2>1 DEF Grid
    <3>2. Owes(c, x[s])
      BY <1>1, <1>2 DEF c
    <3>3. Owes(d, x[s])
      BY <1>4, <3>2 DEF Owes, Kept
    <3>. QED BY <3>1, <3>3
  <2>2. CASE u # t
    <3>1. v_cells'[u] = v_cells[u] /\ CopiedBy(sc_info', rot')[u] = x[u]
      BY <1>1, <1>5, <1>8, <2>2 DEF Grid
    <3>. QED BY <1>2, <3>1
  <2>. QED BY <2>1, <2>2
<1>. QED BY <1>1, <1>5, <1>6, <1>7, <1>9, <1>10, InvStep

(* The shifts of a stream are done with.                                    *)
LEMMA ShiftsDone ==
  ASSUME NEW c \in Good
  PROVE  LET d == [c EXCEPT !.shift = [i \in Cells |-> 0], !.hasShift = FALSE]
         IN d \in Still /\ d.pos = c.pos
<1>. DEFINE z == [i \in Cells |-> 0]
            d == [c EXCEPT !.shift = z, !.hasShift = FALSE]
<1>1. c \in Sound /\ c \in CellStates
  BY DEF Good, Sound
<1>2. z \in [Cells -> Int] /\ \A i \in Cells : z[i] = 0
  OBVIOUS
<1>3. d = [c EXCEPT !.shift = z, !.hasShift = FALSE]
  OBVIOUS
<1>. HIDE DEF z, d
<1>4. c = [pos |-> c.pos, seq |-> c.seq, shift |-> c.shift, hasShift |-> c.hasShift,
           used |-> c.used, seqPos |-> c.seqPos, head |-> c.head]
  BY <1>1, CellFields
<1>5. d = [pos |-> c.pos, seq |-> c.seq, shift |-> z, hasShift |-> FALSE,
           used |-> c.used, seqPos |-> c.seqPos, head |-> c.head]
  BY <1>3, <1>4
<1>6. d \in CellStates
  BY <1>1, <1>2, <1>5 DEF CellStates
<1>7. /\ d.pos = c.pos /\ d.seq = c.seq /\ d.shift = z /\ d.hasShift = FALSE
      /\ d.used = c.used /\ d.seqPos = c.seqPos
  BY <1>5
<1>8. \A s, p : At(d, s, p) = At(c, s, p)
  BY <1>7 DEF At
<1>9. d \in Sound
  BY <1>1, <1>2, <1>6, <1>7, <1>8 DEF Sound
<1>10. d \in Still
  BY <1>7, <1>9 DEF Good, Still
<1>. QED BY <1>7, <1>10 DEF d, z

(* The update: no shift is owed then, and every K is at its position.       *)
LEMMA UpdateFacts ==
  ASSUME Inv
  PROVE  /\ UpdatedCells \in StillCaches /\ UpdatedRot \in Grid
         /\ \A w \in StillCaches :
              Fewer(UpdatedCells, w) => [v |-> w, rot |-> UpdatedRot] \in Fitting
<1>. DEFINE w == UpdatedCells
            g == UpdatedRot
<1>1. v_cells \in [Streams -> Good]
  BY DEF Inv
<1>2. ASSUME NEW t \in Streams PROVE w[t] \in Still /\ w[t].pos = v_cells[t].pos
  <2>. DEFINE c == v_cells[t]
              d == [c EXCEPT !.shift = [i \in Cells |-> 0], !.hasShift = FALSE]
  <2>1. c \in Good /\ c \in Sound /\ c \in CellStates
    BY <1>1 DEF Good, Sound
  <2>2. CASE \E u \in Streams : v_cells[u].hasShift
    <3>1. w[t] = d
      BY <1>1, <2>2 DEF UpdatedCells
    <3>2. d \in Still /\ d.pos = c.pos
      BY <2>1, ShiftsDone
    <3>. HIDE DEF w, d
    <3>. QED BY <3>1, <3>2
  <2>3. CASE ~ \E u \in Streams : v_cells[u].hasShift
    <3>1. w[t] = c
      BY <2>3 DEF UpdatedCells
    <3>. HIDE DEF w
    <3>. QED BY <2>1, <2>3, <3>1 DEF Still
  <2>. QED BY <2>2, <2>3
<1>3. w = [t \in Streams |-> w[t]]
  BY <1>1 DEF UpdatedCells
<1>4. ASSUME NEW t \in Streams, NEW i \in Cells
      PROVE  /\ g[t][i] \in Pos \cup {Junk}
             /\ v_cells[t].pos[i] # -1 => g[t][i] = v_cells[t].pos[i]
  <2>. DEFINE c == v_cells[t]
              x == Copied(rot)[t]
  <2>1. c \in Good /\ Owes(c, x)
    BY <1>1 DEF Inv
  <2>2. g[t][i] = IF c.pos[i] = -1 THEN Junk ELSE x[i] + c.shift[i]
    BY DEF UpdatedRot
  <2>. HIDE DEF c, x, g
  <2>3. c.pos[i] \in Pos \cup {-1} /\ c.shift[i] \in Int /\ c.pos[i] \in Int
    BY <2>1 DEF Good, Sound, CellStates
  <2>4. c.pos[i] # -1 => x[i] + c.shift[i] = c.pos[i]
    <3>1. c.pos[i] # -1 => x[i] = c.pos[i] - c.shift[i]
      BY <2>1 DEF Owes
    <3>. QED BY <2>3, <3>1
  <2>. QED BY <2>2, <2>3, <2>4 DEF c
<1>5. g = [t \in Streams |-> [i \in Cells |-> g[t][i]]]
  BY DEF UpdatedRot
<1>. HIDE DEF w, g
<1>6. w \in StillCaches
  BY <1>2, <1>3 DEF StillCaches
<1>7. g \in Grid
  <2>. DEFINE z == [t \in Streams |-> [i \in Cells |-> g[t][i]]]
  <2>1. z \in Grid
    BY <1>4 DEF Grid, Rows
  <2>. QED BY <1>5, <2>1
<1>8. ASSUME NEW x \in StillCaches, Fewer(w, x) PROVE [v |-> x, rot |-> g] \in Fitting
  <2>1. ASSUME NEW t \in Streams PROVE Fits(x[t], g[t])
    BY <1>2, <1>4, <1>8, <2>1 DEF Fewer, Fits
  <2>2. g \in [Streams -> Rows]
    BY <1>7 DEF Grid
  <2>. QED BY <2>1, <2>2 DEF Fitting
<1>. QED BY <1>6, <1>7, <1>8 DEF w, g

(* A decode: update, trial, ubatches applied and computed. *)
LEMMA DecodeStepInv == ASSUME Inv, NEW b \in Batches, Decode(b) PROVE Inv'
<1>. DEFINE p == Trial(b)
            n == Len(b)
            e == Computed(p.v, UpdatedRot, b, p.sinfos, n)
<1>1. /\ Legal(b) /\ p.ok /\ v_cells' = e.v /\ sc_info' = <<>> /\ rot' = Scrubbed(e.rot)
      /\ UNCHANGED <<unified, window>>
  BY DEF Decode
<1>2. n \in Nat /\ n \in 0..n
  BY BatchAssumption
<1>3. /\ p.v \in StillCaches /\ Fewer(UpdatedCells, p.v)
      /\ \A j \in 1..n : p.sinfos[j] \in SlotsOf(b, j)
  BY <1>1, UpdateFacts, PrepareFacts DEF Trial
<1>. HIDE DEF p
<1>4. [v |-> p.v, rot |-> UpdatedRot] \in Fitting
  BY <1>3, UpdateFacts
<1>. HIDE DEF n
<1>5. e \in Fitting
  BY <1>1, <1>2, <1>3, <1>4, ComputedFacts DEF n
<1>. HIDE DEF e
<1>6. [v |-> e.v, rot |-> e.rot] \in Fitting
  BY <1>5 DEF Fitting
<1>. QED BY <1>1, <1>6, SettledStep

(* A refused decode: update and trial. *)
LEMMA DecodeRefusedStep == ASSUME Inv, NEW b \in Batches, DecodeRefused(b) PROVE Inv'
<1>. DEFINE p == Trial(b)
<1>1. /\ Legal(b) /\ v_cells' = p.v /\ sc_info' = <<>> /\ rot' = Scrubbed(UpdatedRot)
      /\ UNCHANGED <<unified, window>>
  BY DEF DecodeRefused
<1>2. p.v \in StillCaches /\ Fewer(UpdatedCells, p.v)
  BY <1>1, UpdateFacts, PrepareFacts DEF Trial
<1>. HIDE DEF p
<1>3. [v |-> p.v, rot |-> UpdatedRot] \in Fitting
  BY <1>2, UpdateFacts
<1>. QED BY <1>1, <1>3, SettledStep

(* A decode that fails at ubatch k: those before it are computed, it is rolled back. *)
LEMMA DecodeAbortedStep ==
  ASSUME Inv, NEW b \in Batches, NEW k \in DOMAIN b, Single(b), DecodeAborted(b, k)
  PROVE  Inv'
<1>. DEFINE p == Trial(b)
            n == k - 1
            e == Computed(p.v, UpdatedRot, b, p.sinfos, n)
            f == p.sinfos[k]
            w == Rollback(ApplyUbatch(e.v, b, k, f), b, k)
            g == [t \in Streams |-> [i \in Cells |-> IF i \in ToSet(f[t]) THEN Junk ELSE e.rot[t][i]]]
<1>1. /\ Legal(b) /\ p.ok /\ v_cells' = w /\ sc_info' = <<>> /\ rot' = Scrubbed(g)
      /\ UNCHANGED <<unified, window>>
  BY DEF DecodeAborted
<1>2. Len(b) \in Nat /\ n \in 0..Len(b) /\ k \in 1..Len(b)
  BY BatchFacts
<1>3. /\ p.v \in StillCaches /\ Fewer(UpdatedCells, p.v)
      /\ \A j \in 1..Len(b) : p.sinfos[j] \in SlotsOf(b, j)
  BY <1>1, UpdateFacts, PrepareFacts DEF Trial
<1>. HIDE DEF p
<1>4. [v |-> p.v, rot |-> UpdatedRot] \in Fitting
  BY <1>3, UpdateFacts
<1>. HIDE DEF n
<1>5. e \in Fitting
  BY <1>1, <1>2, <1>3, <1>4, ComputedFacts
<1>6. f \in SlotsOf(b, k)
  BY <1>2, <1>3
<1>. HIDE DEF e, f
<1>7. e.v \in StillCaches /\ e.rot \in Grid /\ \A t \in Streams : Fits(e.v[t], e.rot[t])
  BY <1>5 DEF Fitting, Grid
<1>8. /\ w \in StillCaches
      /\ \A t \in Streams : \A i \in Cells :
           w[t].pos[i] = -1 \/ (i \notin ToSet(f[t]) /\ w[t].pos[i] = e.v[t].pos[i])
  BY <1>1, <1>6, <1>7, AbortedFacts
<1>. HIDE DEF w
<1>9. g \in [Streams -> Rows] /\ \A t \in Streams : Fits(w[t], g[t])
  <2>1. ASSUME NEW t \in Streams, NEW i \in Cells PROVE e.rot[t][i] \in Pos \cup {Junk}
    BY <1>7 DEF Grid, Rows
  <2>2. g \in [Streams -> Rows]
    BY <2>1 DEF Rows
  <2>3. ASSUME NEW t \in Streams, NEW i \in Cells, w[t].pos[i] # -1
        PROVE  g[t][i] = w[t].pos[i]
    BY <1>7, <1>8, <2>3 DEF Fits
  <2>. HIDE DEF g
  <2>. QED BY <2>2, <2>3 DEF Fits
<1>. HIDE DEF g
<1>10. [v |-> w, rot |-> g] \in Fitting
  BY <1>8, <1>9 DEF Fitting
<1>. QED BY <1>1, <1>10, SettledStep

(* Settled: the K of every cell in use is at its position already.          *)
LEMMA SettledFacts ==
  ASSUME Inv, Settled
  PROVE  v_cells \in StillCaches /\ rot \in Grid /\ \A t \in Streams : Fits(v_cells[t], rot[t])
<1>1. v_cells \in [Streams -> Good] /\ rot \in Grid /\ sc_info = <<>>
  BY DEF Inv, Settled
<1>2. \A t \in Streams : v_cells[t] \in Still
  BY <1>1 DEF Settled, Still
<1>3. v_cells \in StillCaches
  BY <1>1, <1>2 DEF StillCaches
<1>4. Copied(rot) = rot
  BY <1>1, CopiedByNone DEF Copied
<1>5. ASSUME NEW t \in Streams PROVE Fits(v_cells[t], rot[t])
  <2>. DEFINE c == v_cells[t]
              x == rot[t]
  <2>1. c \in Still /\ Owes(c, x)
    BY <1>2, <1>4 DEF Inv
  <2>. HIDE DEF c, x
  <2>2. \A i \in Cells : c.shift[i] = 0 /\ c.pos[i] \in Int
    BY <2>1, StillFacts
  <2>3. Fits(c, x)
    BY <2>1, <2>2 DEF Fits, Owes
  <2>. QED BY <2>3 DEF c, x
<1>. QED BY <1>1, <1>3, <1>5

(* One stream replaced while nothing waits.                                 *)
LEMMA OneStreamSettled ==
  ASSUME Inv, Settled, UNCHANGED <<unified, window, sc_info>>,
         NEW t \in Streams, NEW d \in Still, NEW row \in Rows, Fits(d, row),
         v_cells' = [v_cells EXCEPT ![t] = d], rot' = Scrubbed([rot EXCEPT ![t] = row])
  PROVE  Inv'
<1>. DEFINE v == [v_cells EXCEPT ![t] = d]
            g == [rot EXCEPT ![t] = row]
<1>1. v_cells \in StillCaches /\ rot \in Grid /\ \A u \in Streams : Fits(v_cells[u], rot[u])
  BY SettledFacts
<1>2. v \in StillCaches /\ g \in [Streams -> Rows] /\ \A u \in Streams : Fits(v[u], g[u])
  BY <1>1 DEF StillCaches, Grid
<1>3. v_cells' = v /\ rot' = Scrubbed(g) /\ sc_info' = <<>>
  BY DEF Settled
<1>. HIDE DEF v, g
<1>4. [v |-> v, rot |-> g] \in Fitting
  BY <1>2 DEF Fitting
<1>. QED BY <1>3, <1>4, SettledStep

(* A sequence saved and restored as another, or removed for want of cells. *)
LEMMA StateCopyStep == ASSUME Inv, NEW s \in Seqs, NEW t \in Seqs, StateCopy(s, t) PROVE Inv'
<1>. DEFINE a == StreamOf(s)
            u == StreamOf(t)
            c == v_cells[a]
            saved == Saved(c, s)
            d == SeqRmIn(v_cells[u], t, All)
            n == Len(saved)
            idxs == FindSlot(d, n)
            toks == [k \in DOMAIN saved |-> [pos |-> c.pos[saved[k]], owners |-> {t}]]
            data == [k \in DOMAIN saved |-> rot[a][saved[k]]]
            y == ApplyIn(d, idxs, toks)
            row == Written(rot[u], idxs, data)
<1>1. /\ Settled /\ saved # <<>> /\ UNCHANGED <<unified, window, sc_info>>
      /\ \/ v_cells' = [v_cells EXCEPT ![u] = d] /\ rot' = Scrubbed(rot)
         \/ /\ idxs # <<>>
            /\ v_cells' = [v_cells EXCEPT ![u] = y]
            /\ rot' = Scrubbed([rot EXCEPT ![u] = row])
  BY DEF StateCopy
<1>2. a \in Streams /\ u \in Streams
  BY StreamOfType
<1>3. v_cells \in StillCaches /\ rot \in Grid /\ \A x \in Streams : Fits(v_cells[x], rot[x])
  BY <1>1, SettledFacts
<1>4. /\ c \in Still /\ v_cells[u] \in Still /\ v_cells[u] \in Good /\ rot[u] \in Rows
      /\ Fits(c, rot[a]) /\ Fits(v_cells[u], rot[u])
  BY <1>2, <1>3, StillCachesFacts, StillFacts DEF Grid
<1>5. saved \in Seq({i \in Cells : c.pos[i] # -1})
  <2>. DEFINE S == {i \in OfSeq(c, s) : ~Masked(c.pos[i], SeqPosMax(c, s))}
              Q == {i \in Cells : c.pos[i] # -1}
  <2>1. saved = Ascending(S)
    BY DEF Saved
  <2>. HIDE DEF c
  <2>2. S \in SUBSET Q /\ Q \in SUBSET Cells
    BY <1>4 DEF OfSeq, Still, Good
  <2>. HIDE DEF S, Q, saved
  <2>3. Ascending(S) \in Seq(S)
    BY <2>2, AscendingFacts
  <2>4. Ascending(S) \in Seq(Q)
    <3>. DEFINE z == Ascending(S)
    <3>. HIDE DEF z
    <3>1. z \in Seq(S)
      BY <2>3 DEF z
    <3>2. Len(z) \in Nat /\ z \in [1..Len(z) -> S]
      BY <3>1
    <3>3. z \in [1..Len(z) -> Q]
      BY <2>2, <3>2
    <3>4. z \in Seq(Q)
      BY <3>2, <3>3
    <3>. QED BY <3>4 DEF z
  <2>. QED BY <2>1, <2>4 DEF Q
<1>6. d \in Still /\ Rest(v_cells[u], d)
  <2>. DEFINE z == v_cells[u]
  <2>1. z \in Good /\ z \in Still
    BY <1>4
  <2>. HIDE DEF z
  <2>2. SeqRmIn(z, t, All) \in Good /\ Rest(z, SeqRmIn(z, t, All))
    BY <2>1, SeqRmInFacts
  <2>3. SeqRmIn(z, t, All) \in Still
    BY <2>1, <2>2, RestStill
  <2>. QED BY <2>2, <2>3 DEF z
<1>7. Fits(d, rot[u])
  <2>. HIDE DEF d
  <2>. QED BY <1>4, <1>6 DEF Rest, Fits
<1>8. DOMAIN saved = 1..n /\ n \in Nat \ {0} /\ \A k \in 1..n : saved[k] \in Cells /\ c.pos[saved[k]] # -1
  <2>. HIDE DEF saved, c
  <2>. QED BY <1>1, <1>5
<1>9. /\ toks \in [1..n -> Tokens] /\ \A k \in 1..n : data[k] = toks[k].pos
  <2>. HIDE DEF saved, c, n
  <2>1. \A k \in 1..n : c.pos[saved[k]] \in Pos
    BY <1>4, <1>8, StillFacts
  <2>2. \A k \in 1..n : rot[a][saved[k]] = c.pos[saved[k]]
    BY <1>4, <1>8 DEF Fits
  <2>. QED BY <1>8, <2>1, <2>2 DEF Tokens
<1>. HIDE DEF saved, c, n, toks, data, d
<1>10. CASE v_cells' = [v_cells EXCEPT ![u] = d] /\ rot' = Scrubbed(rot)
  <2>1. rot = [rot EXCEPT ![u] = rot[u]]
    BY <1>2, <1>3 DEF Grid
  <2>. HIDE DEF u
  <2>2. rot' = Scrubbed([rot EXCEPT ![u] = rot[u]])
    BY <1>10, <2>1
  <2>. QED BY <1>1, <1>2, <1>4, <1>6, <1>7, <1>10, <2>2, OneStreamSettled
<1>11. CASE /\ idxs # <<>>
            /\ v_cells' = [v_cells EXCEPT ![u] = y]
            /\ rot' = Scrubbed([rot EXCEPT ![u] = row])
  <2>1. idxs \in [1..n -> Cells]
    <3>1. d \in CellStates /\ n \in Nat
      BY <1>6, <1>8, StillFacts
    <3>. QED BY <1>11, <3>1, FindSlotFacts
  <2>. HIDE DEF idxs, u
  <2>. DEFINE R == rot[u]
  <2>2. R \in [Cells -> Int] /\ \A i \in Cells : R[i] \in Pos \cup {Junk}
    BY <1>4 DEF Rows, Pos, Junk
  <2>3. Fits(d, R) /\ row = Written(R, idxs, data)
    BY <1>7
  <2>. HIDE DEF R
  <2>4. /\ Filled(d, idxs, toks, ApplyIn(d, idxs, toks))
        /\ Written(R, idxs, data) \in [Cells -> Int]
        /\ \A i \in Cells : Written(R, idxs, data)[i] = R[i] \/ Written(R, idxs, data)[i] \in Pos
        /\ Fits(d, R) => Fits(ApplyIn(d, idxs, toks), Written(R, idxs, data))
    BY <1>6, <1>8, <1>9, <2>1, <2>2, ApplyInFacts
  <2>5. y \in Still /\ Fits(y, row)
    BY <2>3, <2>4 DEF Filled
  <2>6. row \in Rows
    <3>. HIDE DEF row
    <3>. QED BY <2>2, <2>3, <2>4 DEF Rows
  <2>. HIDE DEF y, row
  <2>. QED BY <1>1, <1>2, <1>11, <2>5, <2>6, OneStreamSettled
<1>. QED BY <1>1, <1>10, <1>11

(* A stream saved and restored. *)
LEMMA StateRestoreStep == ASSUME Inv, StateRestore PROVE Inv'
<1>. DEFINE u == 0
            c == v_cells[u]
            kept == Ascending(c.used)
            n == Len(kept)
            y == Restored(c, kept)
            row == [i \in Cells |-> IF i + 1 \in DOMAIN kept THEN rot[u][kept[i + 1]] ELSE Junk]
<1>1. /\ u \in Streams /\ Settled /\ UNCHANGED <<unified, window, sc_info>>
  BY DEF StateRestore, Streams
<1>2. v_cells \in StillCaches /\ rot \in Grid /\ \A x \in Streams : Fits(v_cells[x], rot[x])
  BY <1>1, SettledFacts
<1>3. v_cells' = [v_cells EXCEPT ![u] = y] /\ rot' = Scrubbed([rot EXCEPT ![u] = row])
  BY <1>1, <1>2 DEF StateRestore, Grid
<1>. HIDE DEF u
<1>4. c \in Still /\ rot[u] \in Rows /\ Fits(c, rot[u])
  BY <1>1, <1>2, StillCachesFacts DEF Grid
<1>. HIDE DEF c
<1>5. c.used \in SUBSET Cells /\ c.used = {i \in Cells : c.pos[i] # -1}
  BY <1>4 DEF Still, Good, Sound
<1>6. kept \in Seq(c.used) /\ n <= Size
  BY <1>5, AscendingFacts
<1>. HIDE DEF kept
<1>7. n \in 0..Size /\ DOMAIN kept = 1..n /\ kept \in [1..n -> c.used]
  BY <1>6, SizeFacts
<1>. HIDE DEF n
<1>8. y \in Still /\ \A i \in Cells : y.pos[i] = IF i + 1 \in 1..n THEN c.pos[kept[i + 1]] ELSE -1
  BY <1>4, <1>7, RestoredFacts
<1>. HIDE DEF y
<1>9. ASSUME NEW i \in Cells
      PROVE  row[i] \in Pos \cup {Junk} /\ (y.pos[i] # -1 => row[i] = y.pos[i])
  <2>1. CASE i + 1 \in 1..n
    <3>. DEFINE z == kept[i + 1]
    <3>1. z \in Cells /\ c.pos[z] # -1 /\ y.pos[i] = c.pos[z]
      BY <1>5, <1>7, <1>8, <2>1
    <3>2. row[i] = rot[u][z]
      BY <1>7, <2>1
    <3>. HIDE DEF z
    <3>. QED BY <1>4, <3>1, <3>2 DEF Rows, Fits
  <2>2. CASE i + 1 \notin 1..n
    BY <1>7, <1>8, <2>2
  <2>. QED BY <2>1, <2>2
<1>10. row \in Rows
  BY <1>9 DEF Rows
<1>. HIDE DEF row
<1>11. Fits(y, row)
  BY <1>9 DEF Fits
<1>. QED BY <1>1, <1>3, <1>8, <1>10, <1>11, OneStreamSettled

-----------------------------------------------------------------------------
(* Every step keeps the invariant. *)
LEMMA InvNext == Inv /\ [Next]_vars => Inv'
<1>. SUFFICES ASSUME Inv, [Next]_vars PROVE Inv'
  OBVIOUS
<1>1. CASE \E s \in Seqs : SeqKeep(s)
  BY <1>1, SeqKeepStep
<1>2. CASE \E s \in Seqs, r \in Ranges : SeqRm(s, r)
  BY <1>2, SeqRmStep
<1>3. CASE \E s \in Seqs, r \in Ranges, d \in Shifts : SeqAdd(s, r, d)
  BY <1>3, ShiftAssumption, SeqAddStep
<1>4. CASE \E s, t \in Seqs : SeqCpStream(s, t)
  BY <1>4, SeqCpStreamStep
<1>5. CASE \E s, t \in Seqs : StateCopy(s, t)
  BY <1>5, StateCopyStep
<1>6. CASE \E s, t \in Seqs, r \in Ranges : SeqCp(s, t, r)
  BY <1>6, SeqCpStep
<1>7. CASE \E r \in Ranges : SeqRmAny(r)
  BY <1>7, SeqRmAnyStep
<1>8. CASE \E b \in Batches : Decode(b)
  BY <1>8, DecodeStepInv
<1>9. CASE \E b \in Batches : DecodeRefused(b)
  BY <1>9, DecodeRefusedStep
<1>10. CASE \E b \in Batches : \E k \in DOMAIN b : Single(b) /\ DecodeAborted(b, k)
  BY <1>10, DecodeAbortedStep
<1>11. CASE StateRestore
  BY <1>11, StateRestoreStep
<1>12. CASE Clear
  BY <1>12, ClearStep
<1>13. CASE UNCHANGED vars
  <2>1. /\ UNCHANGED <<unified, window, sc_info>> /\ v_cells' = v_cells
        /\ rot' \in {rot, Scrubbed(rot)}
    BY <1>13 DEF vars
  <2>2. v_cells' \in [Streams -> Good] /\ \A t \in Streams : Kept(v_cells[t], v_cells'[t])
    BY <2>1 DEF Inv, Kept
  <2>. QED BY <2>1, <2>2, KeptStep
<1>. QED BY <1>1, <1>2, <1>3, <1>4, <1>5, <1>6, <1>7, <1>8, <1>9, <1>10, <1>11, <1>12, <1>13 DEF Next

(* The inductive invariant holds in every state.                            *)
THEOREM Invariant == Spec => []Inv
BY InvInit, InvNext, PTL DEF Spec

-----------------------------------------------------------------------------
(* What IndexesAgree says of a stream. *)
LEMMA GoodTypes ==
  ASSUME NEW c \in Good
  PROVE  /\ c \in CellStates /\ c.pos \in [Cells -> Pos \cup {-1}]
         /\ c.seqPos \in [Seqs -> [Pos -> 0..Size]]
         /\ c.used = {i \in Cells : c.pos[i] # -1}
         /\ \A i \in Cells : (c.pos[i] = -1) = (c.seq[i] = {})
         /\ \A s \in Seqs, p \in Pos :
              c.seqPos[s][p] = Cardinality({i \in OfSeq(c, s) : c.pos[i] = p})
         /\ \A i \in Cells : c.shift[i] # 0 => c.hasShift /\ c.pos[i] # -1
<1>1. c \in Sound /\ c \in CellStates /\ \A i \in Cells : c.pos[i] = -1 <=> c.seq[i] = {}
  BY DEF Good, Sound
<1>2. /\ c.pos \in [Cells -> Pos \cup {-1}] /\ c.used = {i \in Cells : c.pos[i] # -1}
      /\ \A s \in Seqs, p \in Pos : c.seqPos[s][p] = Cardinality(At(c, s, p))
      /\ \A i \in Cells : c.shift[i] # 0 => c.hasShift /\ c.pos[i] # -1
  BY <1>1 DEF Sound
<1>3. ASSUME NEW s \in Seqs, NEW p \in Pos
      PROVE  /\ c.seqPos[s][p] \in 0..Size
             /\ c.seqPos[s][p] = Cardinality({i \in OfSeq(c, s) : c.pos[i] = p})
  <2>1. At(c, s, p) = {i \in OfSeq(c, s) : c.pos[i] = p}
    BY DEF At, OfSeq
  <2>2. Cardinality(At(c, s, p)) \in 0..Size
    <3>1. At(c, s, p) \in SUBSET Cells
      BY DEF At
    <3>2. IsFiniteSet(At(c, s, p)) /\ Cardinality(At(c, s, p)) <= Cardinality(Cells)
      BY <3>1, SizeFacts, FS_Subset
    <3>3. Cardinality(Cells) = Size
      BY SizeFacts, FS_Interval
    <3>. QED BY <3>2, <3>3, SizeFacts, FS_CardinalityType
  <2>. QED BY <1>2, <2>1, <2>2
<1>4. c.seqPos \in [Seqs -> [Pos -> 0..Size]]
  <2>. DEFINE P == c.seqPos
  <2>1. P \in [Seqs -> [Pos -> Int]]
    BY <1>1 DEF CellStates
  <2>2. \A s \in Seqs, p \in Pos : P[s][p] \in 0..Size
    BY <1>3
  <2>. HIDE DEF P
  <2>3. P = [s \in Seqs |-> P[s]] /\ \A s \in Seqs : P[s] = [p \in Pos |-> P[s][p]]
    BY <2>1
  <2>4. \A s \in Seqs : P[s] \in [Pos -> 0..Size]
    BY <2>2, <2>3
  <2>. QED BY <2>3, <2>4 DEF P
<1>5. \A i \in Cells : (c.pos[i] = -1) = (c.seq[i] = {})
  BY <1>1
<1>. QED BY <1>1, <1>2, <1>3, <1>4, <1>5

(* Every variable, and every index of every stream, is of its type.         *)
THEOREM TypeCorrect == Spec => []TypeOK
<1>1. Inv => TypeOK
  <2>. SUFFICES ASSUME Inv PROVE TypeOK
    OBVIOUS
  <2>1. v_cells \in [Streams -> Good]
    BY DEF Inv
  <2>2. \A t \in Streams : v_cells[t] \in CellStates
    BY <2>1, GoodTypes
  <2>3. v_cells \in [Streams -> CellStates]
    BY <2>1, <2>2
  <2>4. \A t \in Streams : /\ v_cells[t].pos \in [Cells -> Pos \cup {-1}]
                           /\ v_cells[t].seqPos \in [Seqs -> [Pos -> 0..Size]]
    BY <2>1, GoodTypes
  <2>. QED BY <2>3, <2>4 DEF Inv, TypeOK, Grid, Rows
<1>. QED BY <1>1, Invariant, PTL

(* What llama_kv_cells keeps beside the cells agrees with them, after any   *)
(* calls, in any order, whether or not they succeeded.                      *)
THEOREM IndexesCorrect == Spec => []IndexesAgree
<1>1. Inv /\ TypeOK => IndexesAgree
  <2>. SUFFICES ASSUME Inv, TypeOK PROVE IndexesAgree
    OBVIOUS
  <2>1. ASSUME NEW t \in Streams PROVE v_cells[t] \in Good
    BY DEF Inv
  <2>. QED BY <2>1, GoodTypes DEF IndexesAgree
<1>. QED BY <1>1, Invariant, TypeCorrect, PTL

(* The update before the next decode leaves every K rotated for the         *)
(* position its cell says.                                                  *)
THEOREM ShiftCorrect == Spec => []ShiftIsOwed
<1>1. Inv => ShiftIsOwed
  <2>. SUFFICES ASSUME Inv, NEW t \in Streams, NEW i \in v_cells[t].used
                PROVE  Copied(rot)[t][i] = v_cells[t].pos[i] - v_cells[t].shift[i]
    BY DEF ShiftIsOwed
  <2>1. v_cells[t] \in Good /\ Owes(v_cells[t], Copied(rot)[t])
    BY DEF Inv
  <2>2. i \in Cells /\ v_cells[t].pos[i] # -1
    BY <2>1, GoodTypes
  <2>. QED BY <2>1, <2>2 DEF Owes
<1>. QED BY <1>1, Invariant, PTL

-----------------------------------------------------------------------------
(* What exactly a ubatch does to a stream.                                 *)

(* Cell i is the same in c and d. *)
Same(c, d, i) == c.pos[i] = d.pos[i] /\ c.seq[i] = d.seq[i]

(* The positions of a sequence are those of its cells; the lowest and the   *)
(* highest of them.                                                         *)
LEMMA PositionsFacts ==
  ASSUME NEW c \in Good, NEW s \in Seqs
  PROVE  /\ Positions(c, s) = {p \in Pos : \E i \in Cells : s \in c.seq[i] /\ c.pos[i] = p}
         /\ \A i \in Cells : s \in c.seq[i] =>
              /\ c.pos[i] \in Positions(c, s)
              /\ SeqPosMin(c, s) <= c.pos[i] /\ c.pos[i] <= SeqPosMax(c, s)
<1>. DEFINE P == Positions(c, s)
<1>1. /\ c \in CellStates /\ \A p \in Pos : c.seqPos[s][p] = Cardinality(At(c, s, p))
      /\ \A i \in Cells : c.pos[i] \in Pos \cup {-1} /\ (c.pos[i] = -1 <=> c.seq[i] = {})
  BY DEF Good, Sound
<1>2. ASSUME NEW p \in Pos PROVE p \in P <=> \E i \in Cells : s \in c.seq[i] /\ c.pos[i] = p
  <2>. DEFINE A == At(c, s, p)
  <2>1. A \in SUBSET Cells
    BY DEF At
  <2>2. IsFiniteSet(A)
    <3>. HIDE DEF A
    <3>. QED BY <2>1, SizeFacts, FS_Subset
  <2>3. Cardinality(A) \in Nat /\ (Cardinality(A) = 0 <=> A = {})
    <3>. HIDE DEF A
    <3>. QED BY <2>2, FS_CardinalityType, FS_EmptySet
  <2>4. p \in P <=> Cardinality(A) > 0
    BY <1>1 DEF Positions
  <2>5. A # {} <=> \E i \in Cells : s \in c.seq[i] /\ c.pos[i] = p
    BY DEF At
  <2>. HIDE DEF A, P
  <2>. QED BY <2>3, <2>4, <2>5
<1>3. P \in SUBSET Pos
  BY DEF Positions
<1>4. P \in SUBSET Int /\ MaxPos \in Int /\ \A x \in P : 0 <= x /\ x <= MaxPos
  BY <1>3, SizeAssumption DEF Pos
<1>5. ASSUME NEW i \in Cells, s \in c.seq[i]
      PROVE  c.pos[i] \in P /\ SeqPosMin(c, s) <= c.pos[i] /\ c.pos[i] <= SeqPosMax(c, s)
  <2>1. c.pos[i] \in P
    BY <1>1, <1>2, <1>5
  <2>2. SeqPosMin(c, s) = Min(P) /\ SeqPosMax(c, s) = Max(P)
    BY <2>1 DEF SeqPosMin, SeqPosMax
  <2>. HIDE DEF P
  <2>3. \A x \in P : Min(P) <= x
    BY <1>4, <2>1, MinOf
  <2>4. \A x \in P : x <= Max(P)
    BY <1>4, <2>1, MaxOf
  <2>. QED BY <2>1, <2>2, <2>3, <2>4
<1>. QED BY <1>2, <1>3, <1>5

(* A sequence removed from a range of positions, and from nothing else. *)
LEMMA SeqRmInExact ==
  ASSUME NEW c \in Good, NEW s \in Seqs, NEW r
  PROVE  \A i \in Cells :
           SeqRmIn(c, s, r).seq[i] = IF i \in InRange(c, r) THEN c.seq[i] \ {s} ELSE c.seq[i]
<1>. DEFINE S == InRange(c, r) \cap OfSeq(c, s)
            f == [i \in Cells |-> [d \in CellStates |-> SeqRmCell(d, i, s)]]
            X(k) == {d \in Good : \A i \in Cells :
                       d.seq[i] = IF i < k /\ i \in S THEN c.seq[i] \ {s} ELSE c.seq[i]}
            I == [k \in 0..Size |-> X(k)]
<1>1. S \in SUBSET Cells /\ \A i \in S : s \in c.seq[i]
  BY DEF InRange, OfSeq
<1>2. Size \in Nat /\ Cells = 0..Size - 1
  BY SizeFacts
<1>3. c \in I[0]
  <2>1. \A i \in Cells : ~(i < 0)
    BY <1>2
  <2>. QED BY <1>2, <2>1
<1>4. ASSUME NEW k \in Cells, NEW x \in X(k) PROVE (IF k \in S THEN f[k][x] ELSE x) \in X(k + 1)
  <2>1. k \in Int /\ ~(k < k) /\ \A i \in Cells : i \in Int /\ (i < k + 1 <=> i < k \/ i = k)
    BY <1>2
  <2>2. CASE k \notin S
    BY <2>1, <2>2
  <2>3. CASE k \in S
    <3>. DEFINE y == SeqRmCell(x, k, s)
    <3>1. x \in Sound /\ x \in CellStates /\ x.seq[k] = c.seq[k] /\ s \in x.seq[k] /\ x.pos[k] # -1
      BY <1>1, <2>1, <2>3 DEF Good, Sound
    <3>2. f[k][x] = y
      BY <3>1
    <3>3. /\ y \in Sound /\ Apart(x, y, k)
          /\ y.seq[k] = x.seq[k] \ {s}
          /\ y.seq[k] = {} => y.pos[k] = -1
          /\ y.seq[k] # {} => y.pos[k] = x.pos[k]
      BY <3>1, SeqRmCellFacts
    <3>. HIDE DEF y, f, S
    <3>4. y \in Good
      BY <3>1, <3>3 DEF Good, Apart
    <3>5. \A i \in Cells : i # k => y.seq[i] = x.seq[i]
      BY <3>3 DEF Apart
    <3>6. \A i \in Cells : y.seq[i] = IF i < k + 1 /\ i \in S THEN c.seq[i] \ {s} ELSE c.seq[i]
      BY <2>1, <2>3, <3>1, <3>3, <3>5
    <3>. QED BY <2>3, <3>2, <3>4, <3>6
  <2>. QED BY <2>2, <2>3
<1>5. \A k \in Cells : \A x \in I[k] : (IF k \in S THEN f[k][x] ELSE x) \in I[k + 1]
  <2>1. \A k \in Cells : k \in 0..Size /\ k + 1 \in 0..Size
    BY <1>2
  <2>. HIDE DEF X, S, f
  <2>. QED BY <1>4, <2>1
<1>6. ForEach(f, c, S) \in X(Size)
  <2>1. I[Size] = X(Size)
    BY <1>2
  <2>. HIDE DEF I, X, S, f
  <2>. QED BY <1>1, <1>3, <1>5, <2>1, CellsLoop
<1>. DEFINE d == ForEach(f, c, S)
            e == HeadLowered(c, d)
<1>7. d \in Good /\ \A i \in Cells : d.seq[i] = IF i \in S THEN c.seq[i] \ {s} ELSE c.seq[i]
  <2>1. \A i \in Cells : i < Size
    BY <1>2
  <2>. HIDE DEF S, f, d
  <2>. QED BY <1>6, <2>1 DEF d
<1>8. SeqRmIn(c, s, r) = e
  BY DEF SeqRmIn
<1>. HIDE DEF d
<1>9. e.seq = d.seq
  BY <1>7, HeadLoweredFacts
<1>. HIDE DEF e, f
<1>10. ASSUME NEW i \in Cells
       PROVE  e.seq[i] = IF i \in InRange(c, r) THEN c.seq[i] \ {s} ELSE c.seq[i]
  BY <1>7, <1>9 DEF OfSeq
<1>. QED BY <1>8, <1>10

(* The lowest position of a sequence, or -1. *)
LEMMA SeqPosMinType ==
  ASSUME NEW c, NEW s
  PROVE  SeqPosMin(c, s) \in Pos \cup {-1} /\ SeqPosMin(c, s) \in Int
<1>1. CASE Positions(c, s) = {}
  BY <1>1 DEF SeqPosMin
<1>2. CASE Positions(c, s) # {}
  <2>. DEFINE P == Positions(c, s)
  <2>1. P \in SUBSET Int /\ P \in SUBSET Pos /\ \A x \in P : 0 <= x
    BY DEF Positions, Pos
  <2>2. SeqPosMin(c, s) = Min(P)
    BY <1>2 DEF SeqPosMin
  <2>3. P # {}
    BY <1>2
  <2>. HIDE DEF P
  <2>4. Min(P) \in P
    BY <2>1, <2>3, MinOf
  <2>. QED BY <2>1, <2>2, <2>4
<1>. QED BY <1>1, <1>2

(* A purge takes from a sequence exactly its cells up to the last position. *)
LEMMA PurgeExact ==
  ASSUME NEW c \in Good, NEW s \in Seqs, NEW last \in Int
  PROVE  \A i \in Cells :
           Purge(c, s, last).seq[i] = IF c.pos[i] <= last THEN c.seq[i] \ {s} ELSE c.seq[i]
<1>. DEFINE m == SeqPosMin(c, s)
            r == <<m, last + 1>>
<1>1. ASSUME NEW i \in Cells
      PROVE  /\ c.pos[i] \in Int /\ (c.seq[i] = {} \/ 0 <= c.pos[i])
             /\ s \in c.seq[i] => m <= c.pos[i]
  BY PositionsFacts DEF Good, Sound, Pos
<1>. HIDE DEF m
<1>2. CASE last # -1 /\ m <= last
  <2>1. Purge(c, s, last) = SeqRmIn(c, s, r)
    BY <1>2 DEF Purge, m
  <2>2. \A i \in Cells : i \in InRange(c, r) <=> m <= c.pos[i] /\ c.pos[i] < last + 1
    BY DEF InRange
  <2>3. \A i \in Cells :
           SeqRmIn(c, s, r).seq[i] = IF i \in InRange(c, r) THEN c.seq[i] \ {s} ELSE c.seq[i]
    BY SeqRmInExact
  <2>. HIDE DEF r
  <2>4. ASSUME NEW i \in Cells
        PROVE  (IF i \in InRange(c, r) THEN c.seq[i] \ {s} ELSE c.seq[i])
                  = IF c.pos[i] <= last THEN c.seq[i] \ {s} ELSE c.seq[i]
    <3>1. c.pos[i] < last + 1 <=> c.pos[i] <= last
      BY <1>1
    <3>2. CASE s \in c.seq[i]
      BY <1>1, <2>2, <3>1, <3>2
    <3>3. CASE s \notin c.seq[i]
      <4>1. c.seq[i] \ {s} = c.seq[i]
        BY <3>3
      <4>. QED BY <4>1
    <3>. QED BY <3>2, <3>3
  <2>. QED BY <2>1, <2>3, <2>4
<1>3. CASE ~(last # -1 /\ m <= last)
  <2>1. Purge(c, s, last) = c
    BY <1>3 DEF Purge, m
  <2>2. ASSUME NEW i \in Cells, c.pos[i] <= last PROVE c.seq[i] \ {s} = c.seq[i]
    <3>1. s \notin c.seq[i]
      <4>1. CASE last = -1
        <5>1. ~(0 <= c.pos[i])
          BY <1>1, <2>2, <4>1
        <5>. QED BY <1>1, <5>1
      <4>2. CASE ~(m <= last)
        <5>1. m \in Int
          BY SeqPosMinType DEF m
        <5>. QED BY <1>1, <2>2, <4>2, <5>1
      <4>. QED BY <1>3, <4>1, <4>2
    <3>. QED BY <3>1
  <2>. QED BY <2>1, <2>2
<1>. QED BY <1>2, <1>3

(* The positions found cells of a sequence are at, and the highest: the     *)
(* last one overwritten.                                                    *)
Taken(c, idxs, n, s) == {-1} \cup {c.pos[idxs[l]] : l \in {l \in 1..n : s \in c.seq[idxs[l]]}}
LastTaken(c, idxs, s) == Max(Taken(c, idxs, Len(idxs), s))

Distinct(idxs) == \A k, l \in DOMAIN idxs : idxs[k] = idxs[l] => k = l

(* A greatest member of a set is its Max. *)
LEMMA MaxIs ==
  ASSUME NEW S \in SUBSET Int, NEW m \in S, \A x \in S : x <= m
  PROVE  Max(S) = m
<1>1. \E x \in S : \A y \in S : x >= y
  <2>1. \A y \in S : m >= y
    OBVIOUS
  <2>. QED BY <2>1
<1>2. Max(S) \in S /\ \A y \in S : Max(S) >= y
  BY <1>1 DEF Max
<1>. DEFINE k == Max(S)
<1>3. k \in Int /\ m \in Int /\ k <= m /\ k >= m
  BY <1>2
<1>. HIDE DEF k
<1>4. k = m
  BY <1>3
<1>. QED BY <1>4 DEF k

(* The greater of two. *)
LEMMA MaxOfTwo ==
  ASSUME NEW x \in Int, NEW y \in Int
  PROVE  Max({x, y}) = IF x <= y THEN y ELSE x
<1>. DEFINE S == {x, y}
            m == IF x <= y THEN y ELSE x
<1>1. S \in SUBSET Int /\ m \in S /\ \A z \in S : z <= m
  OBVIOUS
<1>. HIDE DEF S, m
<1>2. Max(S) = m
  BY <1>1, MaxIs
<1>. QED BY <1>2 DEF S, m

(* Positions, or -1. *)
LEMMA TakenType ==
  ASSUME NEW c \in Good, NEW n \in Nat, NEW idxs, \A l \in 1..n : idxs[l] \in Cells, NEW s
  PROVE  /\ Taken(c, idxs, n, s) \in SUBSET Int
         /\ \A x \in Taken(c, idxs, n, s) : -1 <= x /\ x <= MaxPos
         /\ MaxPos \in Int /\ -1 \in Taken(c, idxs, n, s)
<1>1. \A i \in Cells : c.pos[i] \in Int /\ -1 <= c.pos[i] /\ c.pos[i] <= MaxPos
  BY SizeAssumption DEF Good, Sound, Pos
<1>. QED BY <1>1, SizeAssumption DEF Taken

(* The tokens placed: what the last overwritten positions are. *)
LEMMA PlacedLast ==
  ASSUME NEW c \in Still, NEW n \in Nat, NEW idxs \in [1..n -> Cells], Distinct(idxs),
         NEW toks \in [1..n -> Tokens]
  PROVE  /\ Placed(c, idxs, toks) \in Placings
         /\ \A s \in Seqs : Placed(c, idxs, toks).rm[s] = LastTaken(c, idxs, s)
<1>. DEFINE a == [c |-> c, rm |-> [s \in Seqs |-> -1]]
            f == [k \in DOMAIN idxs |-> [acc \in [c : CellStates, rm : [Seqs -> Int]] |->
                    Place(acc, idxs[k], toks[k])]]
            T(k, s) == Taken(c, idxs, k, s)
            X(k) == {x \in Placings :
                       /\ \A i \in Cells : (\A l \in 1..k : idxs[l] # i) => Same(x.c, c, i)
                       /\ \A s \in Seqs : x.rm[s] \in T(k, s) /\ \A y \in T(k, s) : y <= x.rm[s]}
            I == [k \in 0..n + 1 |-> X(IF k = 0 THEN 0 ELSE k - 1)]
            S == 1..n
<1>1. S \in SUBSET (0..n) /\ DOMAIN idxs = S /\ c \in Good
  BY StillFacts
<1>2. a \in X(0)
  <2>1. 1..0 = {}
    OBVIOUS
  <2>2. a \in Placings /\ a.c = c /\ \A s \in Seqs : a.rm[s] = -1
    BY DEF Placings
  <2>3. \A s \in Seqs : T(0, s) = {-1}
    BY <2>1 DEF Taken
  <2>. HIDE DEF a, T
  <2>. QED BY <2>2, <2>3 DEF Same
<1>3. ASSUME NEW k \in S, NEW x \in X(k - 1) PROVE f[k][x] \in X(k)
  <2>. DEFINE i == idxs[k]
              r == Place(x, i, toks[k])
  <2>1. x \in Placings /\ x \in [c : CellStates, rm : [Seqs -> Int]] /\ x.c \in Still /\ x.rm \in [Seqs -> Int]
    BY DEF Placings, Still, Good, Sound
  <2>2. f[k][x] = r
    BY <1>1, <2>1
  <2>3. i \in Cells /\ toks[k] \in Tokens
    OBVIOUS
  <2>4. r \in Placings /\ Apart(x.c, r.c, i)
    BY <2>1, <2>3, PlaceFacts
  <2>5. 1..k = (1..k - 1) \cup {k}
    OBVIOUS
  <2>6. x.c.pos[i] = c.pos[i] /\ x.c.seq[i] = c.seq[i]
    <3>1. \A l \in 1..k - 1 : idxs[l] # i
      BY <1>1 DEF Distinct
    <3>. QED BY <2>3, <3>1 DEF Same
  <2>7. ASSUME NEW s \in Seqs
        PROVE  r.rm[s] = IF s \in c.seq[i] THEN Max({x.rm[s], c.pos[i]}) ELSE x.rm[s]
    BY <2>6 DEF Place
  <2>. HIDE DEF r, f
  <2>8. ASSUME NEW s \in Seqs
        PROVE  r.rm[s] \in T(k, s) /\ \A y \in T(k, s) : y <= r.rm[s]
    <3>. DEFINE m == x.rm[s]
    <3>1. m \in T(k - 1, s) /\ \A y \in T(k - 1, s) : y <= m
      OBVIOUS
    <3>2. T(k, s) = T(k - 1, s) \cup IF s \in c.seq[i] THEN {c.pos[i]} ELSE {}
      <4>1. {l \in 1..k : s \in c.seq[idxs[l]]}
              = {l \in 1..k - 1 : s \in c.seq[idxs[l]]} \cup IF s \in c.seq[i] THEN {k} ELSE {}
        BY <2>5
      <4>. QED BY <4>1 DEF Taken
    <3>3. T(k, s) \in SUBSET Int
      BY <1>1, TakenType
    <3>. HIDE DEF T, m, i
    <3>4. CASE s \in c.seq[i]
      <4>1. c.pos[i] \in Int /\ m \in Int /\ r.rm[s] = Max({m, c.pos[i]})
        BY <2>7, <3>1, <3>2, <3>3, <3>4 DEF m
      <4>2. r.rm[s] = IF m <= c.pos[i] THEN c.pos[i] ELSE m
        BY <4>1, MaxOfTwo
      <4>3. \A y \in T(k - 1, s) : y \in Int /\ y <= m
        BY <3>1, <3>2, <3>3
      <4>4. T(k, s) = T(k - 1, s) \cup {c.pos[i]}
        BY <3>2, <3>4
      <4>5. r.rm[s] \in Int /\ m <= r.rm[s] /\ c.pos[i] <= r.rm[s]
            /\ (r.rm[s] = m \/ r.rm[s] = c.pos[i])
        BY <4>1, <4>2
      <4>6. \A y \in T(k - 1, s) : y <= r.rm[s]
        BY <4>1, <4>3, <4>5
      <4>. QED BY <3>1, <4>4, <4>5, <4>6
    <3>5. CASE s \notin c.seq[i]
      BY <2>7, <3>1, <3>2, <3>5 DEF m
    <3>. QED BY <3>4, <3>5
  <2>9. ASSUME NEW z \in Cells, \A l \in 1..k : idxs[l] # z PROVE Same(r.c, c, z)
    <3>1. z # i /\ Same(x.c, c, z)
      BY <2>5, <2>9
    <3>. QED BY <2>4, <3>1 DEF Same, Apart
  <2>. HIDE DEF T
  <2>. QED BY <2>2, <2>4, <2>8, <2>9
<1>4. \A k \in 0..n : \A x \in I[k] : (IF k \in S THEN f[k][x] ELSE x) \in I[k + 1]
  <2>1. \A k \in 0..n : k \in 0..n + 1 /\ k + 1 \in 0..n + 1 /\ k + 1 # 0 /\ (k + 1) - 1 = k
    OBVIOUS
  <2>2. \A k \in 0..n : k \in S <=> k # 0
    OBVIOUS
  <2>. HIDE DEF X, f, S
  <2>. QED BY <1>3, <2>1, <2>2
<1>5. Placed(c, idxs, toks) = ForEach(f, a, S)
  BY <1>1 DEF Placed
<1>6. ForEach(f, a, S) \in I[n + 1]
  <2>1. a \in I[0]
    <3>1. 0 \in 0..n + 1
      OBVIOUS
    <3>. HIDE DEF X, a
    <3>. QED BY <1>2, <3>1
  <2>. HIDE DEF I, f, a, S
  <2>. QED BY <1>1, <1>4, <2>1, LoopRule
<1>7. I[n + 1] = X(n)
  <2>1. n + 1 \in 0..n + 1 /\ n + 1 # 0 /\ (n + 1) - 1 = n
    OBVIOUS
  <2>. HIDE DEF X
  <2>. QED BY <2>1
<1>. DEFINE e == Placed(c, idxs, toks)
<1>8. e \in Placings /\ \A s \in Seqs : e.rm[s] \in T(n, s) /\ \A y \in T(n, s) : y <= e.rm[s]
  <2>1. e \in X(n)
    <3>. HIDE DEF I, f, a, S, X
    <3>. QED BY <1>5, <1>6, <1>7
  <2>. HIDE DEF e, T
  <2>. QED BY <2>1
<1>9. \A s \in Seqs : T(n, s) \in SUBSET Int
  BY <1>1, TakenType
<1>10. Len(idxs) = n
  OBVIOUS
<1>. HIDE DEF e
<1>11. \A s \in Seqs : e.rm[s] = LastTaken(c, idxs, s)
  BY <1>8, <1>9, <1>10, MaxIs DEF LastTaken
<1>. QED BY <1>8, <1>11 DEF e

(* apply_ubatch, exactly: of the tokens and of what the other cells hold,   *)
(* a sequence keeps what is above the last position overwritten of it.      *)
Applied(c, idxs, toks, d) ==
  /\ d \in Still
  /\ \A k \in DOMAIN idxs :
       /\ d.seq[idxs[k]] = {s \in toks[k].owners : toks[k].pos > LastTaken(c, idxs, s)}
       /\ d.seq[idxs[k]] # {} => d.pos[idxs[k]] = toks[k].pos
  /\ \A i \in Cells : (\A k \in DOMAIN idxs : idxs[k] # i) =>
       /\ d.seq[i] = {s \in c.seq[i] : c.pos[i] > LastTaken(c, idxs, s)}
       /\ d.seq[i] # {} => d.pos[i] = c.pos[i]

(* The purges of all sequences. *)
LEMMA PurgedExact ==
  ASSUME NEW a \in Placings
  PROVE  LET e == ForEach([s \in Seqs |-> [d \in CellStates |-> Purge(d, s, a.rm[s])]], a.c, Seqs)
         IN /\ e \in Still /\ Rest(a.c, e)
            /\ \A i \in Cells : e.seq[i] = {s \in a.c.seq[i] : a.c.pos[i] > a.rm[s]}
<1>. DEFINE f == [s \in Seqs |-> [d \in CellStates |-> Purge(d, s, a.rm[s])]]
            c == a.c
            X(k) == {x \in Still : /\ Rest(c, x)
                                   /\ \A i \in Cells : x.seq[i] = {s \in c.seq[i] : s < k => c.pos[i] > a.rm[s]}}
            I == [k \in 0..NSeq + 1 |-> X(k)]
<1>1. c \in Still /\ c \in Good /\ a.rm \in [Seqs -> Int] /\ NSeq \in Nat /\ Seqs = 0..NSeq - 1
  BY StillFacts, SizeAssumption DEF Placings, Seqs
<1>2. \A i \in Cells : c.seq[i] \subseteq Seqs /\ c.pos[i] \in Int
  BY <1>1, StillFacts DEF CellStates
<1>3. c \in I[0]
  <2>1. \A s \in Seqs : ~(s < 0)
    BY <1>1
  <2>2. \A i \in Cells : c.seq[i] = {s \in c.seq[i] : s < 0 => c.pos[i] > a.rm[s]}
    <3>1. TAKE i \in Cells
    <3>2. \A s \in c.seq[i] : s \in Seqs
      BY <1>2
    <3>. HIDE DEF c
    <3>. QED BY <2>1, <3>2
  <2>3. Rest(c, c)
    BY DEF Rest
  <2>. HIDE DEF c
  <2>4. c \in X(0)
    BY <1>1, <2>2, <2>3
  <2>5. 0 \in 0..NSeq + 1
    BY <1>1
  <2>. HIDE DEF X
  <2>. QED BY <2>4, <2>5
<1>4. ASSUME NEW k \in Seqs, NEW x \in X(k) PROVE f[k][x] \in X(k + 1)
  <2>. DEFINE y == Purge(x, k, a.rm[k])
  <2>1. x \in Still /\ x \in CellStates /\ x \in Good /\ Rest(c, x)
    BY StillFacts
  <2>2. f[k][x] = y
    BY <2>1
  <2>3. y \in Still /\ Rest(c, y)
    BY <1>1, <2>1, PurgeFacts
  <2>4. \A i \in Cells : y.seq[i] = IF x.pos[i] <= a.rm[k] THEN x.seq[i] \ {k} ELSE x.seq[i]
    <3>1. a.rm[k] \in Int
      BY <1>1
    <3>. QED BY <2>1, <3>1, PurgeExact
  <2>5. \A i \in Cells : x.seq[i] = {s \in c.seq[i] : s < k => c.pos[i] > a.rm[s]}
    OBVIOUS
  <2>. HIDE DEF y, f, c
  <2>6. ASSUME NEW i \in Cells PROVE y.seq[i] = {s \in c.seq[i] : s < k + 1 => c.pos[i] > a.rm[s]}
    <3>1. k \in Int /\ ~(k < k) /\ \A s \in c.seq[i] : s \in Int /\ s \in Seqs /\ (s < k + 1 <=> s < k \/ s = k)
      BY <1>1, <1>2
    <3>2. k \in x.seq[i] => x.pos[i] = c.pos[i]
      BY <2>1 DEF Rest, Good
    <3>3. k \in x.seq[i] <=> k \in c.seq[i]
      BY <2>5, <3>1
    <3>4. c.pos[i] \in Int /\ a.rm[k] \in Int /\ (c.pos[i] > a.rm[k] <=> ~(c.pos[i] <= a.rm[k]))
      BY <1>1, <1>2
    <3>. DEFINE W == {s \in c.seq[i] : s < k + 1 => c.pos[i] > a.rm[s]}
    <3>5. ASSUME NEW s PROVE s \in y.seq[i] <=> s \in W
      <4>1. CASE s = k
        <5>1. k \in y.seq[i] <=> k \in x.seq[i] /\ ~(x.pos[i] <= a.rm[k])
          BY <2>4
        <5>2. k \in W <=> k \in c.seq[i] /\ c.pos[i] > a.rm[k]
          BY <3>1
        <5>. QED BY <3>2, <3>3, <3>4, <4>1, <5>1, <5>2
      <4>2. CASE s # k
        <5>1. s \in y.seq[i] <=> s \in x.seq[i]
          BY <2>4, <4>2
        <5>. QED BY <2>5, <3>1, <4>2, <5>1
      <4>. QED BY <4>1, <4>2
    <3>. HIDE DEF W
    <3>6. y.seq[i] = W
      BY <3>5
    <3>. QED BY <3>6 DEF W
  <2>. QED BY <2>2, <2>3, <2>6
<1>5. \A k \in 0..NSeq : \A x \in I[k] : (IF k \in Seqs THEN f[k][x] ELSE x) \in I[k + 1]
  <2>1. \A k \in 0..NSeq : k \in 0..NSeq + 1 /\ k + 1 \in 0..NSeq + 1 /\ (k \notin Seqs => k = NSeq)
    BY <1>1
  <2>2. X(NSeq) \in SUBSET X(NSeq + 1)
    <3>1. \A s \in Seqs : s < NSeq /\ s < NSeq + 1
      BY <1>1
    <3>2. \A i \in Cells : {s \in c.seq[i] : s < NSeq => c.pos[i] > a.rm[s]}
                             = {s \in c.seq[i] : s < NSeq + 1 => c.pos[i] > a.rm[s]}
      <4>. HIDE DEF c
      <4>. QED BY <1>2, <3>1
    <3>. QED BY <3>2
  <2>. HIDE DEF X, f
  <2>. QED BY <1>4, <2>1, <2>2
<1>. DEFINE e == ForEach(f, c, Seqs)
<1>6. e \in I[NSeq + 1]
  <2>1. Seqs \in SUBSET (0..NSeq)
    BY <1>1
  <2>. HIDE DEF I, f, c
  <2>. QED BY <1>1, <1>3, <1>5, <2>1, LoopRule
<1>7. e \in X(NSeq + 1)
  <2>1. NSeq + 1 \in 0..NSeq + 1
    BY <1>1
  <2>. HIDE DEF X, e
  <2>. QED BY <1>6, <2>1
<1>. HIDE DEF e
<1>8. \A i \in Cells : e.seq[i] = {s \in c.seq[i] : c.pos[i] > a.rm[s]}
  <2>1. \A s \in Seqs : s < NSeq + 1
    BY <1>1
  <2>2. \A i \in Cells : e.seq[i] = {s \in c.seq[i] : s < NSeq + 1 => c.pos[i] > a.rm[s]}
    BY <1>7
  <2>. HIDE DEF c
  <2>. QED BY <1>2, <2>1, <2>2
<1>. QED BY <1>7, <1>8 DEF e

(* apply_ubatch in one stream. *)
LEMMA ApplyInExact ==
  ASSUME NEW c \in Still, NEW n \in Nat \ {0}, NEW idxs \in [1..n -> Cells], Distinct(idxs),
         NEW toks \in [1..n -> Tokens]
  PROVE  Applied(c, idxs, toks, ApplyIn(c, idxs, toks))
<1>. DEFINE a == Placed(c, idxs, toks)
            row == [i \in Cells |-> 0]
            ps == [k \in 1..n |-> toks[k].pos]
            w == Written(row, idxs, ps)
            e == ForEach([s \in Seqs |-> [d \in CellStates |-> Purge(d, s, a.rm[s])]], a.c, Seqs)
            d == ApplyIn(c, idxs, toks)
<1>1. a \in Placings /\ \A s \in Seqs : a.rm[s] = LastTaken(c, idxs, s)
  BY PlacedLast
<1>2. \A k \in 1..n : a.c.pos[idxs[k]] = toks[k].pos /\ a.c.seq[idxs[k]] = toks[k].owners
  <2>1. row \in [Cells -> Int] /\ \A k \in 1..n : ps[k] = toks[k].pos
    OBVIOUS
  <2>. HIDE DEF row, ps
  <2>2. <<a, w>> \in Filling(c, row, idxs, toks, n + 1)
    BY <2>1, PlacedFacts
  <2>3. 1..(n + 1) - 1 = 1..n /\ DOMAIN idxs = 1..n
    OBVIOUS
  <2>. HIDE DEF a, w
  <2>4. \A i \in Cells : \/ \A m \in 1..n : idxs[m] # i
                         \/ \E m \in 1..n : /\ idxs[m] = i
                                            /\ a.c.pos[i] = toks[m].pos /\ a.c.seq[i] = toks[m].owners
    BY <2>2, <2>3 DEF Filling
  <2>5. TAKE k \in 1..n
  <2>6. PICK m \in 1..n : /\ idxs[m] = idxs[k]
                          /\ a.c.pos[idxs[k]] = toks[m].pos /\ a.c.seq[idxs[k]] = toks[m].owners
    <3>1. idxs[k] \in Cells
      OBVIOUS
    <3>. QED BY <2>4, <3>1
  <2>7. m = k
    BY <2>3, <2>6 DEF Distinct
  <2>. QED BY <2>6, <2>7
<1>3. \A i \in Cells : (\A k \in 1..n : idxs[k] # i) => Same(a.c, c, i)
  <2>1. row \in [Cells -> Int] /\ \A k \in 1..n : ps[k] = toks[k].pos
    OBVIOUS
  <2>. HIDE DEF row, ps
  <2>2. <<a, w>> \in Filling(c, row, idxs, toks, n + 1)
    BY <2>1, PlacedFacts
  <2>3. 1..(n + 1) - 1 = 1..n
    OBVIOUS
  <2>. HIDE DEF a, w
  <2>. QED BY <2>2, <2>3 DEF Filling, Same
<1>. HIDE DEF a
<1>4. /\ e \in Still /\ Rest(a.c, e)
      /\ \A i \in Cells : e.seq[i] = {s \in a.c.seq[i] : a.c.pos[i] > a.rm[s]}
  BY <1>1, PurgedExact
<1>5. d = [e EXCEPT !.head = Last(idxs) + 1]
  BY DEF ApplyIn, a
<1>. HIDE DEF e, d
<1>6. d \in Still /\ d.pos = e.pos /\ d.seq = e.seq
  <2>1. Last(idxs) = idxs[n] /\ idxs[n] \in Cells
    <3>1. Len(idxs) = n
      OBVIOUS
    <3>. QED BY <3>1 DEF Last
  <2>2. Last(idxs) + 1 \in 0..Size
    BY <2>1, SizeFacts
  <2>3. d \in Good /\ d.pos = e.pos /\ d.seq = e.seq /\ d.hasShift = e.hasShift
    BY <1>4, <1>5, <2>2, StillFacts, HeadSet
  <2>. QED BY <1>4, <2>3 DEF Still
<1>7. ASSUME NEW i \in Cells
      PROVE  /\ d.seq[i] = {s \in a.c.seq[i] : a.c.pos[i] > LastTaken(c, idxs, s)}
             /\ d.seq[i] # {} => d.pos[i] = a.c.pos[i]
  <2>1. a.c.seq[i] \subseteq Seqs
    BY <1>1, StillFacts DEF Placings, CellStates
  <2>2. e.seq[i] # {} => e.pos[i] = a.c.pos[i]
    BY <1>4, StillFacts DEF Rest, Good
  <2>. QED BY <1>1, <1>4, <1>6, <2>1, <2>2
<1>8. DOMAIN idxs = 1..n /\ \A k \in 1..n : idxs[k] \in Cells
  OBVIOUS
<1>9. ASSUME NEW k \in DOMAIN idxs
      PROVE  /\ d.seq[idxs[k]] = {s \in toks[k].owners : toks[k].pos > LastTaken(c, idxs, s)}
             /\ d.seq[idxs[k]] # {} => d.pos[idxs[k]] = toks[k].pos
  <2>1. idxs[k] \in Cells /\ a.c.pos[idxs[k]] = toks[k].pos /\ a.c.seq[idxs[k]] = toks[k].owners
    BY <1>2, <1>8
  <2>2. /\ d.seq[idxs[k]] = {s \in a.c.seq[idxs[k]] : a.c.pos[idxs[k]] > LastTaken(c, idxs, s)}
        /\ d.seq[idxs[k]] # {} => d.pos[idxs[k]] = a.c.pos[idxs[k]]
    BY <1>7, <2>1
  <2>. QED BY <2>1, <2>2
<1>10. ASSUME NEW i \in Cells, \A k \in DOMAIN idxs : idxs[k] # i
       PROVE  /\ d.seq[i] = {s \in c.seq[i] : c.pos[i] > LastTaken(c, idxs, s)}
              /\ d.seq[i] # {} => d.pos[i] = c.pos[i]
  <2>1. a.c.pos[i] = c.pos[i] /\ a.c.seq[i] = c.seq[i]
    BY <1>3, <1>8, <1>10 DEF Same
  <2>. QED BY <1>7, <2>1
<1>11. Applied(c, idxs, toks, d)
  BY <1>6, <1>9, <1>10 DEF Applied
<1>. QED BY <1>11 DEF d

(* No cells found in a stream: nothing changes there. *)
LEMMA AppliedNothing ==
  ASSUME NEW c \in Still, NEW toks
  PROVE  Applied(c, <<>>, toks, c)
<1>1. DOMAIN <<>> = {} /\ Len(<<>>) = 0 /\ 1..0 = {}
  OBVIOUS
<1>2. \A s : LastTaken(c, <<>>, s) = -1
  <2>1. \A s : Taken(c, <<>>, 0, s) = {-1}
    BY <1>1 DEF Taken
  <2>2. Max({-1}) = -1
    <3>. DEFINE S == {-1}
    <3>1. S \in SUBSET Int /\ -1 \in S /\ \A x \in S : x <= -1
      OBVIOUS
    <3>. HIDE DEF S
    <3>2. Max(S) = -1
      BY <3>1, MaxIs
    <3>. QED BY <3>2 DEF S
  <2>. QED BY <1>1, <2>1, <2>2 DEF LastTaken
<1>3. ASSUME NEW i \in Cells PROVE c.seq[i] = {s \in c.seq[i] : c.pos[i] > LastTaken(c, <<>>, s)}
  <2>1. c.seq[i] = {} \/ c.pos[i] \in Pos
    BY StillFacts DEF Good
  <2>2. c.seq[i] = {} \/ c.pos[i] > -1
    BY <2>1 DEF Pos
  <2>. QED BY <1>2, <2>2
<1>. QED BY <1>1, <1>3 DEF Applied

-----------------------------------------------------------------------------
(* What find_slot finds: cells that may be used, each once.                *)

(* Cells listed from the lowest: each one once. *)
LEMMA AscendingOrder ==
  ASSUME NEW S \in SUBSET Cells
  PROVE  LET q == Ascending(S) IN
         /\ q \in Seq(S)
         /\ \A m, l \in 1..Len(q) : q[m] = q[l] => m = l
<1>. DEFINE f == [k \in S |-> [q \in Seq(S) |-> Append(q, k)]]
            X(k) == {q \in Seq(S) : /\ \A m \in 1..Len(q) : q[m] < k
                                    /\ \A m, l \in 1..Len(q) : q[m] = q[l] => m = l}
            I == [k \in 0..Size |-> X(k)]
<1>1. Ascending(S) = ForEach(f, <<>>, S)
  BY DEF Ascending
<1>2. /\ Size \in Nat /\ \A k \in Cells : k \in Int /\ k \in 0..Size /\ k + 1 \in 0..Size
      /\ \A k \in S : k \in Int
  BY SizeFacts
<1>3. <<>> \in I[0]
  <2>1. Len(<<>>) = 0 /\ 1..0 = {} /\ 0 \in 0..Size
    BY <1>2
  <2>. QED BY <2>1
<1>4. ASSUME NEW k \in Cells, NEW q \in X(k)
      PROVE  (IF k \in S THEN f[k][q] ELSE q) \in X(k + 1)
  <2>1. /\ Len(q) \in Nat /\ k \in Int /\ \A m \in 1..Len(q) : q[m] \in Int /\ q[m] < k /\ q[m] < k + 1
    BY <1>2
  <2>2. CASE k \in S
    <3>. DEFINE r == Append(q, k)
    <3>1. f[k][q] = r
      BY <2>2
    <3>2. /\ r \in Seq(S) /\ Len(r) = Len(q) + 1 /\ r[Len(q) + 1] = k
          /\ \A m \in 1..Len(q) : r[m] = q[m]
      BY <2>2
    <3>. HIDE DEF f, r
    <3>3. \A m \in 1..Len(r) : m \in 1..Len(q) \/ m = Len(q) + 1
      BY <2>1, <3>2
    <3>4. \A m \in 1..Len(r) : r[m] < k + 1
      BY <2>1, <3>2, <3>3
    <3>5. ASSUME NEW m \in 1..Len(r), NEW l \in 1..Len(r), r[m] = r[l] PROVE m = l
      <4>1. CASE m \in 1..Len(q) /\ l \in 1..Len(q)
        <5>1. q[m] = q[l]
          BY <3>2, <3>5, <4>1
        <5>. QED BY <4>1, <5>1
      <4>2. CASE m = Len(q) + 1 /\ l = Len(q) + 1
        BY <4>2
      <4>3. CASE m \in 1..Len(q) /\ l = Len(q) + 1
        BY <2>1, <3>2, <3>5, <4>3
      <4>4. CASE m = Len(q) + 1 /\ l \in 1..Len(q)
        BY <2>1, <3>2, <3>5, <4>4
      <4>. QED BY <3>3, <4>1, <4>2, <4>3, <4>4
    <3>6. r \in X(k + 1)
      BY <3>2, <3>4, <3>5
    <3>. QED BY <2>2, <3>1, <3>6
  <2>3. CASE k \notin S
    <3>. HIDE DEF f
    <3>. QED BY <2>1, <2>3
  <2>. QED BY <2>2, <2>3
<1>5. \A k \in Cells : \A q \in I[k] : (IF k \in S THEN f[k][q] ELSE q) \in I[k + 1]
  <2>. HIDE DEF X, f
  <2>. QED BY <1>2, <1>4
<1>6. ForEach(f, <<>>, S) \in I[Size]
  <2>. HIDE DEF I, f
  <2>. QED BY <1>3, <1>5, CellsLoop
<1>7. I[Size] = X(Size)
  BY <1>2
<1>. DEFINE q == Ascending(S)
<1>8. q \in X(Size)
  <2>. HIDE DEF f, I, X
  <2>. QED BY <1>1, <1>6, <1>7
<1>9. q \in Seq(S) /\ \A m, l \in 1..Len(q) : q[m] = q[l] => m = l
  <2>. HIDE DEF q
  <2>. QED BY <1>8
<1>. QED BY <1>9

(* One turn around the cells. *)
LEMMA Remainder ==
  ASSUME NEW n \in Nat \ {0}, NEW a \in Nat, a < 2 * n
  PROVE  a % n = IF a < n THEN a ELSE a - n
OBVIOUS

(* find_slot. *)
LEMMA FindSlotExact ==
  ASSUME NEW c \in CellStates, NEW n \in Nat
  PROVE  LET q == FindSlot(c, n) IN
         Distinct(q) /\ \A k \in DOMAIN q : q[k] \in Cells /\ Usable(c, q[k])
<1>. DEFINE h == IF c.head > Cardinality(c.used) + 2 * n THEN 0 ELSE c.head
            S == {k \in Cells : Usable(c, (h + k) % Size)}
            q == Ascending(S)
            r == [k \in 1..n |-> (h + q[k]) % Size]
<1>1. FindSlot(c, n) = IF Len(q) < n THEN <<>> ELSE r
  BY DEF FindSlot
<1>2. Size \in Nat \ {0} /\ Cells = 0..Size - 1 /\ h \in 0..Size
  BY SizeFacts DEF CellStates
<1>3. S \in SUBSET Cells
  OBVIOUS
<1>4. q \in Seq(S) /\ \A m, l \in 1..Len(q) : q[m] = q[l] => m = l
  <2>. HIDE DEF S
  <2>. QED BY <1>3, AscendingOrder
<1>5. \A k \in S : k \in Cells /\ Usable(c, (h + k) % Size)
  OBVIOUS
<1>. HIDE DEF h, S, q
<1>6. CASE ~(Len(q) < n)
  <2>1. \A k \in 1..n : k \in 1..Len(q) /\ q[k] \in S
    BY <1>4, <1>6
  <2>2. ASSUME NEW k \in 1..n
        PROVE  /\ q[k] \in Int /\ 0 <= q[k] /\ q[k] < Size /\ r[k] = (h + q[k]) % Size
               /\ r[k] = IF h + q[k] < Size THEN h + q[k] ELSE h + q[k] - Size
    <3>1. q[k] \in Int /\ 0 <= q[k] /\ q[k] < Size
      BY <1>2, <1>5, <2>1
    <3>2. PICK a : a = h + q[k]
      OBVIOUS
    <3>3. a \in Nat /\ a < 2 * Size
      BY <1>2, <3>1, <3>2
    <3>4. a % Size = IF a < Size THEN a ELSE a - Size
      BY <1>2, <3>3, Remainder
    <3>5. r[k] = (h + q[k]) % Size
      OBVIOUS
    <3>. HIDE DEF r
    <3>6. r[k] = a % Size
      BY <3>2, <3>5, Zenon
    <3>7. r[k] = IF h + q[k] < Size THEN h + q[k] ELSE h + q[k] - Size
      BY <1>2, <3>1, <3>2, <3>3, <3>4, <3>6
    <3>. QED BY <3>1, <3>5, <3>7
  <2>3. \A k \in 1..n : r[k] \in Cells /\ Usable(c, r[k])
    <3>1. TAKE k \in 1..n
    <3>2. Usable(c, r[k])
      BY <1>5, <2>1, <2>2
    <3>. HIDE DEF r
    <3>. DEFINE x == r[k]
                y == q[k]
    <3>4. /\ y \in Int /\ 0 <= y /\ y < Size /\ h \in Int /\ 0 <= h /\ h <= Size /\ Size \in Int
          /\ x = IF h + y < Size THEN h + y ELSE h + y - Size
      BY <1>2, <2>2
    <3>. HIDE DEF x, y
    <3>5. x \in 0..Size - 1
      BY <3>4
    <3>3. r[k] \in Cells
      BY <1>2, <3>5 DEF x
    <3>. QED BY <3>2, <3>3
  <2>4. DOMAIN r = 1..n
    OBVIOUS
  <2>. HIDE DEF r
  <2>5. ASSUME NEW k \in 1..n, NEW l \in 1..n, r[k] = r[l] PROVE k = l
    <3>. DEFINE x == q[k]
                y == q[l]
    <3>2. /\ x \in Int /\ 0 <= x /\ x < Size /\ y \in Int /\ 0 <= y /\ y < Size
          /\ h \in Int /\ 0 <= h /\ h <= Size /\ Size \in Int
      BY <1>2, <2>2
    <3>4. /\ r[k] = IF h + x < Size THEN h + x ELSE h + x - Size
          /\ r[l] = IF h + y < Size THEN h + y ELSE h + y - Size
      BY <2>2
    <3>. HIDE DEF x, y
    <3>5. (IF h + x < Size THEN h + x ELSE h + x - Size)
               = (IF h + y < Size THEN h + y ELSE h + y - Size)
      BY <2>5, <3>4
    <3>3. x = y
      BY <3>2, <3>5
    <3>1. q[k] = q[l]
      BY <3>3 DEF x, y
    <3>. QED BY <1>4, <2>1, <3>1
  <2>6. Distinct(r)
    BY <2>4, <2>5 DEF Distinct
  <2>. QED BY <1>1, <1>6, <2>3, <2>4, <2>6
<1>7. CASE Len(q) < n
  <2>1. FindSlot(c, n) = <<>> /\ DOMAIN <<>> = {}
    BY <1>1, <1>7
  <2>. QED BY <2>1 DEF Distinct
<1>. QED BY <1>6, <1>7

-----------------------------------------------------------------------------
(* A batch runs as it was tried.                                           *)

(* Cells found for ubatch j in every stream, each once. *)
Found(b, j) == {f \in SlotsOf(b, j) : \A t \in Streams : Distinct(f[t])}

(* What find_slot returns for the ubatch. *)
LEMMA SlotsFound ==
  ASSUME NEW v \in StillCaches, NEW b \in Batches, NEW j \in DOMAIN b
  PROVE  LET f == Slots(v, b, j) IN
         /\ f \in Found(b, j)
         /\ \A t \in Streams : \A k \in DOMAIN f[t] : Usable(v[t], f[t][k])
<1>. DEFINE f == Slots(v, b, j)
            n == Len(b[j])
<1>1. f \in SlotsOf(b, j)
  BY SlotsFacts, StillCachesFacts
<1>2. n \in Nat
  BY BatchFacts
<1>3. ASSUME NEW t \in Streams
      PROVE  Distinct(f[t]) /\ \A k \in DOMAIN f[t] : Usable(v[t], f[t][k])
  <2>1. f[t] = IF t \in UStreams(b[j]) THEN FindSlot(v[t], n) ELSE <<>>
    BY DEF Slots
  <2>2. v[t] \in CellStates
    BY StillCachesFacts, StillFacts
  <2>. HIDE DEF f, n
  <2>3. CASE t \in UStreams(b[j])
    BY <1>2, <2>1, <2>2, <2>3, FindSlotExact
  <2>4. CASE t \notin UStreams(b[j])
    <3>1. f[t] = <<>> /\ DOMAIN <<>> = {}
      BY <2>1, <2>4
    <3>. QED BY <3>1 DEF Distinct
  <2>. QED BY <2>3, <2>4
<1>. HIDE DEF f
<1>. QED BY <1>1, <1>3 DEF Found, f

(* A ubatch applied, exactly. *)
LEMMA ApplyUbatchExact ==
  ASSUME NEW b \in Batches, NEW j \in DOMAIN b, Legal(b),
         NEW f \in Found(b, j), NEW v \in StillCaches
  PROVE  /\ ApplyUbatch(v, b, j, f) \in StillCaches
         /\ \A t \in Streams : Applied(v[t], f[t], Toks(b, j, t), ApplyUbatch(v, b, j, f)[t])
<1>. DEFINE w == ApplyUbatch(v, b, j, f)
            n == Len(b[j])
<1>1. f \in SlotsOf(b, j) /\ n \in Nat \ {0}
  BY BatchFacts DEF Found
<1>2. w \in StillCaches
  BY <1>1, ApplyUbatchFacts
<1>3. ASSUME NEW t \in Streams PROVE Applied(v[t], f[t], Toks(b, j, t), w[t])
  <2>1. w[t] = IF f[t] # <<>> THEN ApplyIn(v[t], f[t], Toks(b, j, t)) ELSE v[t]
    BY DEF ApplyUbatch
  <2>2. v[t] \in Still
    BY StillCachesFacts
  <2>. HIDE DEF w, n
  <2>3. CASE f[t] = <<>>
    BY <2>1, <2>2, <2>3, AppliedNothing
  <2>4. CASE f[t] # <<>>
    <3>1. t \in UStreams(b[j]) /\ f[t] \in [1..n -> Cells]
      BY <1>1, <2>4 DEF SlotsOf, n
    <3>2. Toks(b, j, t) \in [1..n -> Tokens]
      BY <3>1, ToksFacts DEF n
    <3>3. Distinct(f[t])
      BY DEF Found
    <3>. QED BY <1>1, <2>1, <2>2, <2>4, <3>1, <3>2, <3>3, ApplyInExact
  <2>. QED BY <2>3, <2>4
<1>. HIDE DEF w
<1>. QED BY <1>2, <1>3 DEF w

(* The cells of one stream put back, exactly. *)
LEMMA PutBackExact ==
  ASSUME NEW n \in Nat \ {0}, NEW idxs \in [1..n -> Cells], NEW c \in Still, NEW d \in Still,
         NEW h \in 0..Size
  PROVE  LET r == PutBack(idxs, c, d, h) IN
         /\ r \in Still
         /\ \A i \in Cells : IF i \in ToSet(idxs) THEN Same(r, d, i) ELSE Same(r, c, i)
<1>. DEFINE f == [k \in DOMAIN idxs |-> [x \in CellStates |->
                    SetCell(x, idxs[k], d.pos[idxs[k]], d.seq[idxs[k]])]]
            X(k) == {x \in Still : \A i \in Cells :
                       IF \E m \in 1..k : idxs[m] = i THEN Same(x, d, i) ELSE Same(x, c, i)}
            I == [k \in 0..n + 1 |-> X(IF k = 0 THEN 0 ELSE k - 1)]
            S == DOMAIN idxs
            e == ForEach(f, c, S)
<1>1. S = 1..n /\ n \in Nat
  OBVIOUS
<1>2. c \in I[0]
  <2>1. ~ \E m \in 1..0 : TRUE
    OBVIOUS
  <2>2. c \in X(0)
    BY <2>1 DEF Same
  <2>3. 0 \in 0..n + 1
    BY <1>1
  <2>. HIDE DEF X
  <2>. QED BY <2>2, <2>3
<1>3. ASSUME NEW k \in S, NEW x \in X(k - 1) PROVE f[k][x] \in X(k)
  <2>. DEFINE i == idxs[k]
              p == d.pos[i]
              Q == d.seq[i]
              y == SetCell(x, i, p, Q)
  <2>1. i \in Cells /\ x \in CellStates /\ x \in Sound /\ x \in Good /\ x \in Still /\ x.shift[i] = 0
    BY <1>1, StillFacts
  <2>2. f[k][x] = y
    BY <2>1
  <2>3. p \in Pos \cup {-1} /\ Q \in SUBSET Seqs /\ (p = -1 <=> Q = {})
    <3>1. d \in Good /\ d \in CellStates
      BY StillFacts
    <3>2. p \in Pos \cup {-1}
      BY <2>1, StillFacts
    <3>. QED BY <2>1, <3>1, <3>2 DEF Good, CellStates
  <2>0. p = d.pos[i] /\ Q = d.seq[i]
    OBVIOUS
  <2>. HIDE DEF p, Q
  <2>4. x.pos[i] = -1 <=> x.seq[i] = {}
    BY <2>1 DEF Good
  <2>5. y \in Sound /\ Apart(x, y, i) /\ y.hasShift = x.hasShift /\ y.pos[i] = p /\ y.seq[i] = Q
    BY <2>1, <2>3, <2>4, SetCellFacts
  <2>. HIDE DEF y, f
  <2>6. y \in Still
    BY <2>1, <2>3, <2>5 DEF Still, Good, Apart
  <2>7. 1..k = (1..k - 1) \cup {k}
    BY <1>1
  <2>8. ASSUME NEW z \in Cells
        PROVE  IF \E m \in 1..k : idxs[m] = z THEN Same(y, d, z) ELSE Same(y, c, z)
    <3>1. CASE z = i
      BY <2>0, <2>5, <2>7, <3>1 DEF Same
    <3>2. CASE z # i
      <4>1. Same(y, x, z)
        BY <2>5, <3>2 DEF Apart, Same
      <4>2. (\E m \in 1..k : idxs[m] = z) <=> (\E m \in 1..k - 1 : idxs[m] = z)
        BY <2>7, <3>2
      <4>3. IF \E m \in 1..k - 1 : idxs[m] = z THEN Same(x, d, z) ELSE Same(x, c, z)
        OBVIOUS
      <4>. QED BY <4>1, <4>2, <4>3 DEF Same
    <3>. QED BY <3>1, <3>2
  <2>9. y \in X(k)
    BY <2>6, <2>8
  <2>. QED BY <2>2, <2>9
<1>4. \A k \in 0..n : \A x \in I[k] : (IF k \in S THEN f[k][x] ELSE x) \in I[k + 1]
  <2>1. \A k \in 0..n : /\ k \in 0..n + 1 /\ k + 1 \in 0..n + 1 /\ (k \in S <=> k # 0)
                        /\ k + 1 # 0 /\ (k + 1) - 1 = k
    BY <1>1
  <2>. HIDE DEF X, f, S
  <2>. QED BY <1>3, <2>1
<1>5. e \in I[n + 1]
  <2>1. S \in SUBSET (0..n)
    BY <1>1
  <2>. HIDE DEF I, f, S
  <2>. QED BY <1>1, <1>2, <1>4, <2>1, LoopRule
<1>6. e \in X(n)
  <2>1. n + 1 \in 0..n + 1 /\ n + 1 # 0 /\ (n + 1) - 1 = n
    BY <1>1
  <2>. HIDE DEF X, e
  <2>. QED BY <1>5, <2>1
<1>. HIDE DEF e
<1>7. \A i \in Cells : i \in ToSet(idxs) <=> \E m \in 1..n : idxs[m] = i
  BY <1>1 DEF ToSet
<1>. DEFINE r == PutBack(idxs, c, d, h)
<1>8. r = [e EXCEPT !.head = h]
  BY DEF PutBack, e
<1>. HIDE DEF r
<1>9. r \in Good /\ r.pos = e.pos /\ r.seq = e.seq /\ r.hasShift = e.hasShift
  BY <1>6, <1>8, StillFacts, HeadSet
<1>10. r \in Still /\ \A i \in Cells : IF i \in ToSet(idxs) THEN Same(r, d, i) ELSE Same(r, c, i)
  BY <1>6, <1>7, <1>9 DEF Still, Same
<1>. QED BY <1>10 DEF r

(* One entry of the stack undone, exactly. *)
LEMMA UndoExact ==
  ASSUME NEW b \in Batches, NEW j \in DOMAIN b, NEW e \in Entries, e.sinfo \in SlotsOf(b, j),
         NEW v \in StillCaches
  PROVE  LET w == Undo(v, b, j, e) IN
         /\ w \in StillCaches
         /\ \A t \in Streams : \A i \in Cells :
              IF i \in ToSet(e.sinfo[t]) THEN Same(w[t], e.old[t], i) ELSE Same(w[t], v[t], i)
<1>. DEFINE w == Undo(v, b, j, e)
            n == Len(b[j])
            h(t) == e.old[Cardinality({x \in UStreams(b[j]) : x < t})].head
            g(t) == PutBack(e.sinfo[t], v[t], e.old[t], h(t))
<1>1. n \in Nat \ {0} /\ UStreams(b[j]) \in SUBSET Streams
  BY BatchFacts
<1>2. e.old \in StillCaches
  BY DEF Entries
<1>3. ASSUME NEW t \in Streams
      PROVE  /\ w[t] \in Still
             /\ \A i \in Cells :
                  IF i \in ToSet(e.sinfo[t]) THEN Same(w[t], e.old[t], i) ELSE Same(w[t], v[t], i)
  <2>1. v[t] \in Still /\ e.old[t] \in Still
    BY <1>2, StillCachesFacts
  <2>3. w[t] = IF e.sinfo[t] = <<>> THEN v[t] ELSE g(t)
    BY DEF Undo, PutBack
  <2>. HIDE DEF w
  <2>4. CASE e.sinfo[t] = <<>>
    <3>1. ToSet(<<>>) = {}
      BY DEF ToSet
    <3>. QED BY <2>1, <2>3, <2>4, <3>1 DEF Same
  <2>5. CASE e.sinfo[t] # <<>>
    <3>1. e.sinfo[t] \in [1..n -> Cells]
      BY <2>5 DEF SlotsOf
    <3>2. h(t) \in 0..Size
      <4>. DEFINE m == Cardinality({x \in UStreams(b[j]) : x < t})
      <4>1. m \in Streams
        BY <1>1, IndexOfStream
      <4>. HIDE DEF m
      <4>2. e.old[m] \in Still
        BY <1>2, <4>1, StillCachesFacts
      <4>3. e.old[m].head \in 0..Size
        BY <4>2, StillFacts DEF CellStates
      <4>. QED BY <4>3 DEF m
    <3>. HIDE DEF h, n
    <3>3. /\ g(t) \in Still
          /\ \A i \in Cells :
               IF i \in ToSet(e.sinfo[t]) THEN Same(g(t), e.old[t], i) ELSE Same(g(t), v[t], i)
      BY <1>1, <2>1, <3>1, <3>2, PutBackExact, ZenonT(60)
    <3>. HIDE DEF g
    <3>. QED BY <2>3, <2>5, <3>3
  <2>. QED BY <2>4, <2>5
<1>4. w = [t \in Streams |-> w[t]]
  BY DEF Undo
<1>. HIDE DEF w
<1>5. w \in StillCaches
  BY <1>3, <1>4 DEF StillCaches
<1>. QED BY <1>3, <1>5 DEF w

(* The cell i is not found by the ubatches l..j - 1, and is found by the    *)
(* ubatch j, or there is none.                                              *)
NextFound(F, n, i, l, j) ==
  /\ j = n + 1 \/ i \in ToSet(F[j])
  /\ \A m \in l..j - 1 : i \notin ToSet(F[m])

(* What a trial found in stream t. *)
TriedIn(a, t) == [m \in 1..Len(a.stack) |-> a.stack[m].sinfo[t]]

(* The whole stack undone: a cell is as the first ubatch to find it saw it. *)
LEMMA UndoneExact ==
  ASSUME NEW v \in StillCaches, NEW b \in Batches, NEW a \in TrialsFrom(v, b)
  PROVE  /\ Undone(a, b) \in StillCaches
         /\ \A t \in Streams : \A i \in Cells : \A j \in 1..Len(a.stack) + 1 :
              NextFound(TriedIn(a, t), Len(a.stack), i, 1, j)
                 => Same(Undone(a, b)[t], Level(a, j)[t], i)
<1>. DEFINE n == Len(a.stack)
            f == [m \in 1..n |-> [w \in Caches |-> Undo(w, b, n + 1 - m, a.stack[n + 1 - m])]]
            X(l) == {w \in StillCaches : \A t \in Streams : \A i \in Cells : \A j \in l..n + 1 :
                       NextFound(TriedIn(a, t), n, i, l, j) => Same(w[t], Level(a, j)[t], i)}
            I == [k \in 0..n + 1 |-> X(IF k = 0 THEN n + 1 ELSE n + 2 - k)]
            S == 1..n
<1>1. /\ a.v \in StillCaches /\ a.stack \in Seq(Entries) /\ n \in Nat /\ n <= Len(b)
      /\ Len(b) \in Nat /\ DOMAIN b = 1..Len(b)
      /\ \A m \in 1..n : a.stack[m].sinfo \in SlotsOf(b, m) /\ a.stack[m] \in Entries
  BY BatchAssumption DEF TrialsFrom
<1>2. a.v \in I[0]
  <2>1. Level(a, n + 1) = a.v
    BY <1>1 DEF Level
  <2>2. \A j \in n + 1..n + 1 : j = n + 1
    BY <1>1
  <2>3. a.v \in X(n + 1)
    BY <1>1, <2>1, <2>2 DEF Same
  <2>4. 0 \in 0..n + 1
    BY <1>1
  <2>. HIDE DEF X, n
  <2>. QED BY <2>3, <2>4
<1>3. ASSUME NEW m \in S, NEW w \in X(n + 2 - m) PROVE f[m][w] \in X(n + 2 - (m + 1))
  <2>. DEFINE l == n + 1 - m
              e == a.stack[l]
              u == Undo(w, b, l, e)
  <2>1. l \in 1..n /\ n + 2 - m = l + 1 /\ n + 2 - (m + 1) = l /\ l \in DOMAIN b
    BY <1>1
  <2>2. w \in StillCaches /\ w \in Caches
    BY StillCachesFacts
  <2>3. f[m][w] = u
    BY <2>2
  <2>4. w \in X(l + 1)
    BY <2>1
  <2>5. e.sinfo \in SlotsOf(b, l) /\ e \in Entries /\ Level(a, l) = e.old
    BY <1>1, <2>1 DEF Level
  <2>6. \A t \in Streams : TriedIn(a, t)[l] = e.sinfo[t]
    BY <2>1 DEF TriedIn
  <2>. HIDE DEF l, f, e
  <2>7. /\ u \in StillCaches
        /\ \A t \in Streams : \A i \in Cells :
             IF i \in ToSet(e.sinfo[t]) THEN Same(u[t], e.old[t], i) ELSE Same(u[t], w[t], i)
    BY <2>1, <2>2, <2>5, UndoExact
  <2>. HIDE DEF u
  <2>8. ASSUME NEW t \in Streams, NEW i \in Cells, NEW j \in l..n + 1, NextFound(TriedIn(a, t), n, i, l, j)
        PROVE  Same(u[t], Level(a, j)[t], i)
    <3>1. CASE j = l
      <4>1. i \in ToSet(e.sinfo[t])
        BY <1>1, <2>1, <2>6, <2>8, <3>1 DEF NextFound
      <4>. QED BY <2>5, <2>7, <3>1, <4>1
    <3>2. CASE j # l
      <4>1. j \in l + 1..n + 1 /\ l \in l..j - 1 /\ \A k \in l + 1..j - 1 : k \in l..j - 1
        BY <1>1, <2>1, <3>2
      <4>2. i \notin ToSet(e.sinfo[t])
        BY <2>6, <2>8, <4>1 DEF NextFound
      <4>3. NextFound(TriedIn(a, t), n, i, l + 1, j)
        BY <2>8, <4>1 DEF NextFound
      <4>4. Same(w[t], Level(a, j)[t], i)
        BY <2>4, <4>1, <4>3
      <4>. QED BY <2>7, <4>2, <4>4 DEF Same
    <3>. QED BY <3>1, <3>2
  <2>9. u \in X(l)
    BY <2>7, <2>8
  <2>. QED BY <2>1, <2>3, <2>9
<1>4. \A k \in 0..n : \A w \in I[k] : (IF k \in S THEN f[k][w] ELSE w) \in I[k + 1]
  <2>1. \A k \in 0..n : k \in 0..n + 1 /\ k + 1 \in 0..n + 1 /\ (k \in S <=> k # 0) /\ k + 1 # 0
    BY <1>1
  <2>2. n + 2 - (0 + 1) = n + 1
    BY <1>1
  <2>. HIDE DEF X, f, S, n
  <2>. QED BY <1>3, <2>1, <2>2
<1>5. Undone(a, b) = ForEach(f, a.v, S)
  BY DEF Undone
<1>6. ForEach(f, a.v, S) \in I[n + 1]
  <2>1. S \in SUBSET (0..n)
    BY <1>1
  <2>. HIDE DEF I, f, S, n
  <2>. QED BY <1>1, <1>2, <1>4, <2>1, LoopRule
<1>7. I[n + 1] = X(1)
  <2>1. n + 1 \in 0..n + 1 /\ n + 1 # 0 /\ n + 2 - (n + 1) = 1
    BY <1>1
  <2>. HIDE DEF X, n
  <2>. QED BY <2>1
<1>8. Undone(a, b) \in X(1)
  <2>. HIDE DEF I, f, S, n, X
  <2>. QED BY <1>5, <1>6, <1>7
<1>. HIDE DEF I, f, S
<1>. QED BY <1>8

(* Nothing taken, it is the same; the same cells found, the same is taken. *)
LEMMA SameTaken ==
  ASSUME NEW c, NEW d, NEW idxs, \A k \in 1..Len(idxs) : Same(c, d, idxs[k]), NEW s
  PROVE  LastTaken(c, idxs, s) = LastTaken(d, idxs, s)
<1>1. Taken(c, idxs, Len(idxs), s) = Taken(d, idxs, Len(idxs), s)
  BY DEF Taken, Same
<1>. QED BY <1>1 DEF LastTaken

(* A cell is the same if its sequences are, and its position if it has one. *)
LEMMA SameBySeq ==
  ASSUME NEW c \in Still, NEW d \in Still, NEW i \in Cells,
         c.seq[i] = d.seq[i], c.seq[i] # {} => c.pos[i] = d.pos[i]
  PROVE  Same(c, d, i)
<1>1. (c.pos[i] = -1 <=> c.seq[i] = {}) /\ (d.pos[i] = -1 <=> d.seq[i] = {})
  BY StillFacts DEF Good
<1>. QED BY <1>1 DEF Same

(* In one stream: V is the trial, and W runs from what its undoing left,    *)
(* with the same cells F and the same tokens T.  A cell keeps in W what the *)
(* undoing left in it until it is found, for that has survived the trial's  *)
(* purges; so W finds in it what V found, takes the same, and purges the    *)
(* same.                                                                    *)
LEMMA StreamAsTried ==
  ASSUME NEW n \in Nat, NEW V, NEW W, NEW F, NEW T,
         \A m \in 1..n + 1 : V[m] \in Still /\ W[m] \in Still,
         \A m \in 1..n : F[m] \in Seq(Cells),
         \A m \in 1..n : Applied(V[m], F[m], T[m], V[m + 1]) /\ Applied(W[m], F[m], T[m], W[m + 1]),
         \A i \in Cells : \A j \in 1..n + 1 : NextFound(F, n, i, 1, j) => Same(W[1], V[j], i)
  PROVE  \A i \in Cells : Same(W[n + 1], V[n + 1], i)
<1>. DEFINE Fresh(i, m) == \A l \in 1..m - 1 : i \notin ToSet(F[l])
            U == {m \in 1..n + 1 : \A i \in Cells : Fresh(i, m) =>
                    \A s \in V[m].seq[i] : \A j \in 1..m - 1 : V[m].pos[i] > LastTaken(V[j], F[j], s)}
            R == {m \in 1..n + 1 : \A i \in Cells :
                    IF Fresh(i, m) THEN Same(W[m], W[1], i) ELSE Same(W[m], V[m], i)}
<1>0. /\ \A m \in 1..n : /\ m \in 1..n + 1 /\ m + 1 \in 1..n + 1 /\ (m + 1) - 1 = m
                         /\ 1..m = (1..m - 1) \cup {m}
      /\ 1 \in 1..n + 1 /\ n + 1 \in 1..n + 1 /\ 1..1 - 1 = {} /\ (n + 1) - 1 = n
  OBVIOUS
<1>1. ASSUME NEW m \in 1..n
      PROVE  /\ DOMAIN F[m] = 1..Len(F[m]) /\ \A k \in DOMAIN F[m] : F[m][k] \in Cells
             /\ \A i : i \in ToSet(F[m]) <=> \E k \in DOMAIN F[m] : F[m][k] = i
  <2>1. F[m] \in Seq(Cells)
    OBVIOUS
  <2>. QED BY <2>1 DEF ToSet
<1>2. \A m \in 1..n + 1 : \A i \in Cells :
        /\ V[m].pos[i] = -1 <=> V[m].seq[i] = {}
        /\ W[m].pos[i] = -1 <=> W[m].seq[i] = {}
  BY StillFacts DEF Good
<1>3. ASSUME NEW m \in 1..n, NEW i \in Cells, i \notin ToSet(F[m])
      PROVE  /\ V[m + 1].seq[i] = {s \in V[m].seq[i] : V[m].pos[i] > LastTaken(V[m], F[m], s)}
             /\ V[m + 1].seq[i] # {} => V[m + 1].pos[i] = V[m].pos[i]
             /\ W[m + 1].seq[i] = {s \in W[m].seq[i] : W[m].pos[i] > LastTaken(W[m], F[m], s)}
             /\ W[m + 1].seq[i] # {} => W[m + 1].pos[i] = W[m].pos[i]
  <2>1. \A k \in DOMAIN F[m] : F[m][k] # i
    BY <1>1, <1>3
  <2>2. Applied(V[m], F[m], T[m], V[m + 1]) /\ Applied(W[m], F[m], T[m], W[m + 1])
    OBVIOUS
  <2>. QED BY <2>1, <2>2 DEF Applied
<1>4. 1..n + 1 \subseteq U
  <2>1. 1 \in U
    BY <1>0
  <2>2. ASSUME NEW m \in 1..n, m \in U PROVE m + 1 \in U
    <3>1. ASSUME NEW i \in Cells, Fresh(i, m + 1), NEW s \in V[m + 1].seq[i], NEW j \in 1..m
          PROVE  V[m + 1].pos[i] > LastTaken(V[j], F[j], s)
      <4>1. i \notin ToSet(F[m]) /\ Fresh(i, m)
        BY <1>0, <3>1
      <4>2. s \in V[m].seq[i] /\ V[m].pos[i] > LastTaken(V[m], F[m], s) /\ V[m + 1].pos[i] = V[m].pos[i]
        <5>1. /\ V[m + 1].seq[i] = {r \in V[m].seq[i] : V[m].pos[i] > LastTaken(V[m], F[m], r)}
              /\ V[m + 1].seq[i] # {} => V[m + 1].pos[i] = V[m].pos[i]
          BY <1>3, <4>1
        <5>. QED BY <5>1
      <4>3. CASE j = m
        BY <4>2, <4>3
      <4>4. CASE j \in 1..m - 1
        BY <2>2, <4>1, <4>2, <4>4
      <4>. QED BY <1>0, <4>3, <4>4
    <3>. HIDE DEF Fresh
    <3>. QED BY <1>0, <3>1
  <2>3. \A m \in 1..n + 1 : m - 1 \in 0..n
    OBVIOUS
  <2>. DEFINE U0 == {k \in 0..n : k + 1 \in U}
  <2>. HIDE DEF U
  <2>4. 0 \in U0
    BY <2>1
  <2>5. \A k \in 1..n : k - 1 \in U0 => k \in U0
    <3>1. \A k \in 1..n : (k - 1) + 1 = k /\ k \in 0..n
      OBVIOUS
    <3>. QED BY <2>2, <3>1
  <2>6. 0..n \subseteq U0
    <3>. HIDE DEF U0
    <3>. QED BY <2>4, <2>5, Induction
  <2>7. \A m \in 1..n + 1 : (m - 1) + 1 = m
    OBVIOUS
  <2>. QED BY <2>3, <2>6, <2>7
<1>5. ASSUME NEW i \in Cells, NEW m \in 1..n, Fresh(i, m + 1), NEW s \in W[1].seq[i]
      PROVE  W[1].pos[i] > LastTaken(V[m], F[m], s)
  <2>. DEFINE D == {j \in m + 1..n + 1 : j = n + 1 \/ i \in ToSet(F[j])}
  <2>1. D \in SUBSET Nat /\ n + 1 \in D
    OBVIOUS
  <2>2. PICK j \in D : \A k \in D : j <= k
    <3>. HIDE DEF D
    <3>. QED BY <2>1, Least
  <2>3. j \in 1..n + 1 /\ m \in 1..j - 1 /\ Fresh(i, j)
    <3>1. ASSUME NEW l \in 1..j - 1 PROVE i \notin ToSet(F[l])
      <4>1. CASE l \in 1..m
        BY <1>0, <1>5, <4>1
      <4>2. CASE l \in m + 1..n + 1
        <5>1. l \notin D
          BY <2>2
        <5>. QED BY <4>2, <5>1
      <4>. QED BY <4>1, <4>2
    <3>. QED BY <3>1
  <2>4. NextFound(F, n, i, 1, j)
    BY <2>2, <2>3 DEF NextFound
  <2>5. Same(W[1], V[j], i)
    BY <2>3, <2>4
  <2>6. j \in U
    BY <1>4, <2>3
  <2>. QED BY <2>3, <2>5, <2>6 DEF Same
<1>6. 1 \in R
  BY <1>0 DEF Same
<1>7. ASSUME NEW m \in 1..n, m \in R PROVE m + 1 \in R
  <2>. HIDE DEF U
  <2>1. ASSUME NEW i \in Cells, ~Fresh(i, m) \/ i \in ToSet(F[m]) PROVE Same(W[m], V[m], i)
    <3>1. CASE ~Fresh(i, m)
      BY <1>7, <3>1
    <3>2. CASE Fresh(i, m) /\ i \in ToSet(F[m])
      <4>1. NextFound(F, n, i, 1, m)
        BY <3>2 DEF NextFound
      <4>2. Same(W[1], V[m], i)
        BY <1>0, <4>1
      <4>3. Same(W[m], W[1], i)
        BY <1>7, <3>2
      <4>. QED BY <4>2, <4>3 DEF Same
    <3>. QED BY <2>1, <3>1, <3>2
  <2>2. \A s : LastTaken(W[m], F[m], s) = LastTaken(V[m], F[m], s)
    <3>1. \A k \in 1..Len(F[m]) : Same(W[m], V[m], F[m][k])
      BY <1>1, <2>1
    <3>. QED BY <3>1, SameTaken
  <2>0. V[m + 1] \in Still /\ W[m + 1] \in Still
    BY <1>0
  <2>3. ASSUME NEW i \in Cells, ~Fresh(i, m + 1) PROVE Same(W[m + 1], V[m + 1], i)
    <3>1. CASE i \in ToSet(F[m])
      <4>1. PICK k \in DOMAIN F[m] : F[m][k] = i
        BY <1>1, <3>1
      <4>2. Applied(V[m], F[m], T[m], V[m + 1]) /\ Applied(W[m], F[m], T[m], W[m + 1])
        OBVIOUS
      <4>3. /\ V[m + 1].seq[i] = {s \in T[m][k].owners : T[m][k].pos > LastTaken(V[m], F[m], s)}
            /\ W[m + 1].seq[i] = {s \in T[m][k].owners : T[m][k].pos > LastTaken(W[m], F[m], s)}
            /\ V[m + 1].seq[i] # {} => V[m + 1].pos[i] = T[m][k].pos
            /\ W[m + 1].seq[i] # {} => W[m + 1].pos[i] = T[m][k].pos
        BY <4>1, <4>2 DEF Applied
      <4>4. W[m + 1].seq[i] = V[m + 1].seq[i]
        BY <2>2, <4>3
      <4>5. V[m + 1].seq[i] # {} => W[m + 1].pos[i] = V[m + 1].pos[i]
        BY <4>3, <4>4
      <4>. QED BY <2>0, <4>4, <4>5, SameBySeq
    <3>2. CASE i \notin ToSet(F[m])
      <4>1. ~Fresh(i, m)
        BY <1>0, <2>3, <3>2
      <4>2. Same(W[m], V[m], i)
        BY <2>1, <4>1
      <4>3. /\ V[m + 1].seq[i] = {s \in V[m].seq[i] : V[m].pos[i] > LastTaken(V[m], F[m], s)}
            /\ V[m + 1].seq[i] # {} => V[m + 1].pos[i] = V[m].pos[i]
            /\ W[m + 1].seq[i] = {s \in W[m].seq[i] : W[m].pos[i] > LastTaken(W[m], F[m], s)}
            /\ W[m + 1].seq[i] # {} => W[m + 1].pos[i] = W[m].pos[i]
        BY <1>3, <3>2
      <4>4. W[m].seq[i] = V[m].seq[i] /\ W[m].pos[i] = V[m].pos[i]
        BY <4>2 DEF Same
      <4>5. {s \in W[m].seq[i] : W[m].pos[i] > LastTaken(W[m], F[m], s)}
              = {s \in V[m].seq[i] : V[m].pos[i] > LastTaken(V[m], F[m], s)}
        <5>. QED BY <2>2, <4>4
      <4>6. W[m + 1].seq[i] = V[m + 1].seq[i]
        BY <4>3, <4>5
      <4>. QED BY <2>0, <4>3, <4>4, <4>6, SameBySeq
    <3>. QED BY <3>1, <3>2
  <2>4. ASSUME NEW i \in Cells, Fresh(i, m + 1) PROVE Same(W[m + 1], W[1], i)
    <3>1. i \notin ToSet(F[m]) /\ Fresh(i, m)
      BY <1>0, <2>4
    <3>2. Same(W[m], W[1], i)
      BY <1>7, <3>1
    <3>3. W[m + 1].seq[i] = {s \in W[1].seq[i] : W[1].pos[i] > LastTaken(V[m], F[m], s)}
      BY <1>3, <2>2, <3>1, <3>2 DEF Same
    <3>4. W[m + 1].seq[i] = W[1].seq[i]
      BY <1>5, <2>4, <3>3
    <3>. QED BY <1>0, <1>2, <1>3, <3>1, <3>2, <3>4 DEF Same
  <2>. HIDE DEF Fresh
  <2>. QED BY <1>0, <2>3, <2>4
<1>8. n + 1 \in R
  <2>. DEFINE R0 == {k \in 0..n : k + 1 \in R}
  <2>. HIDE DEF R
  <2>1. 0 \in R0
    BY <1>6
  <2>2. \A k \in 1..n : k - 1 \in R0 => k \in R0
    <3>1. \A k \in 1..n : (k - 1) + 1 = k /\ k \in 0..n
      OBVIOUS
    <3>. QED BY <1>7, <3>1
  <2>3. 0..n \subseteq R0
    <3>. HIDE DEF R0
    <3>. QED BY <2>1, <2>2, Induction
  <2>. QED BY <2>3
<1>9. ASSUME NEW i \in Cells PROVE Same(W[n + 1], V[n + 1], i)
  <2>1. CASE Fresh(i, n + 1)
    <3>1. NextFound(F, n, i, 1, n + 1)
      BY <2>1 DEF NextFound
    <3>2. Same(W[1], V[n + 1], i) /\ Same(W[n + 1], W[1], i)
      BY <1>0, <1>8, <2>1, <3>1
    <3>. QED BY <3>2 DEF Same
  <2>2. CASE ~Fresh(i, n + 1)
    BY <1>8, <2>2
  <2>. QED BY <2>1, <2>2
<1>. QED BY <1>9

(* The ubatches of a batch applied one after the other, n of them: what the *)
(* cells are before each, and after the last.                               *)
IsRun(W, b, sinfos, n) ==
  /\ \A j \in 1..n + 1 : W[j] \in StillCaches
  /\ \A j \in 1..n : W[j + 1] = ApplyUbatch(W[j], b, j, sinfos[j])

(* The values a loop goes through, named.                                   *)
Rounds(h, f, c, S, n) ==
  /\ h[0] = c /\ h[n + 1] = ForEach(f, c, S)
  /\ \A k \in 0..n : h[k + 1] = IF k \in S THEN f[k][h[k]] ELSE h[k]

LEMMA LoopRounds ==
  ASSUME NEW n \in Nat, NEW f, NEW c, NEW S \in SUBSET (0..n)
  PROVE  \E h : Rounds(h, f, c, S, n)
BY LoopValues DEF Rounds

LEMMA ComputedRun ==
  ASSUME NEW b \in Batches, Legal(b), NEW v, NEW data, NEW sinfos,
         NEW n \in Nat, DOMAIN b = 1..n,
         [v |-> v, rot |-> data] \in Fitting,
         \A j \in 1..n : sinfos[j] \in SlotsOf(b, j)
  PROVE  \E W : W[1] = v /\ W[n + 1] = Computed(v, data, b, sinfos, n).v /\ IsRun(W, b, sinfos, n)
<1>. DEFINE D == [v : Caches, rot : [Streams -> [Cells -> Int]]]
            f == [j \in 1..n |-> [e \in D |-> ComputeUbatch(e, b, j, sinfos[j])]]
            e0 == [v |-> v, rot |-> data]
            S == 1..n
<1>1. Fitting \in SUBSET D
  <2>1. [Streams -> Rows] \in SUBSET [Streams -> [Cells -> Int]]
    <3>1. Rows \in SUBSET [Cells -> Int]
      BY DEF Rows, Pos, Junk
    <3>. QED BY <3>1
  <2>. QED BY <2>1, StillCachesFacts DEF Fitting
<1>2. ASSUME NEW j \in 1..n, NEW e \in Fitting
      PROVE  /\ f[j][e] \in Fitting
             /\ f[j][e].v = ApplyUbatch(e.v, b, j, sinfos[j])
  <2>1. j \in DOMAIN b /\ sinfos[j] \in SlotsOf(b, j)
    OBVIOUS
  <2>2. f[j][e] = ComputeUbatch(e, b, j, sinfos[j])
    BY <1>1
  <2>3. ComputeUbatch(e, b, j, sinfos[j]) \in Fitting
    BY <2>1, ComputeUbatchFacts
  <2>4. ComputeUbatch(e, b, j, sinfos[j]).v = ApplyUbatch(e.v, b, j, sinfos[j])
    BY DEF ComputeUbatch
  <2>. HIDE DEF f
  <2>. QED BY <2>2, <2>3, <2>4
<1>3. Computed(v, data, b, sinfos, n) = ForEach(f, e0, S)
  BY DEF Computed
<1>4. e0 \in Fitting /\ e0.v = v
  OBVIOUS
<1>5. S \in SUBSET (0..n) /\ 0 \notin S /\ 0 \in 0..n /\ \A j \in 1..n : j \in 0..n
  OBVIOUS
<1>. HIDE DEF f, e0
<1>6. PICK h : /\ h[0] = e0 /\ h[n + 1] = ForEach(f, e0, S)
               /\ \A k \in 0..n : h[k + 1] = IF k \in S THEN f[k][h[k]] ELSE h[k]
  <2>1. S \in SUBSET (0..n)
    BY <1>5
  <2>. HIDE DEF S
  <2>2. \E h : Rounds(h, f, e0, S, n)
    BY <2>1, LoopRounds
  <2>. QED BY <2>2 DEF Rounds
<1>7. h[1] = e0
  <2>1. h[0 + 1] = h[0]
    BY <1>5, <1>6
  <2>. QED BY <1>6, <2>1
<1>8. \A j \in 1..n : h[j + 1] = f[j][h[j]]
  BY <1>5, <1>6
<1>. DEFINE U == {k \in 0..n : h[k + 1] \in Fitting}
<1>9. 0..n \subseteq U
  <2>1. 0 \in U
    BY <1>4, <1>5, <1>7
  <2>2. ASSUME NEW k \in 1..n, k - 1 \in U PROVE k \in U
    <3>1. (k - 1) + 1 = k
      OBVIOUS
    <3>2. h[k] \in Fitting
      BY <2>2, <3>1
    <3>. QED BY <1>2, <1>5, <1>8, <3>2
  <2>. HIDE DEF U
  <2>. QED BY <2>1, <2>2, Induction
<1>10. ASSUME NEW j \in 1..n + 1 PROVE h[j] \in Fitting /\ h[j].v \in StillCaches
  <2>1. j - 1 \in 0..n /\ (j - 1) + 1 = j
    OBVIOUS
  <2>2. j - 1 \in U
    BY <1>9, <2>1
  <2>3. h[j] \in Fitting
    BY <2>1, <2>2
  <2>. QED BY <2>3 DEF Fitting
<1>. DEFINE W == [j \in 1..n + 1 |-> h[j].v]
<1>11. \A j \in 1..n : j \in 1..n + 1 /\ j + 1 \in 1..n + 1
  OBVIOUS
<1>12. ASSUME NEW j \in 1..n PROVE W[j + 1] = ApplyUbatch(W[j], b, j, sinfos[j])
  <2>1. W[j] = h[j].v /\ W[j + 1] = h[j + 1].v
    BY <1>11
  <2>2. h[j] \in Fitting
    BY <1>10, <1>11
  <2>. HIDE DEF W
  <2>. QED BY <1>2, <1>8, <2>1, <2>2
<1>13. 1 \in 1..n + 1 /\ n + 1 \in 1..n + 1
  OBVIOUS
<1>14. W[1] = v /\ W[n + 1] = Computed(v, data, b, sinfos, n).v
  BY <1>3, <1>4, <1>6, <1>7, <1>13
<1>15. \A j \in 1..n + 1 : W[j] \in StillCaches
  BY <1>10
<1>. HIDE DEF W
<1>16. IsRun(W, b, sinfos, n)
  BY <1>12, <1>15 DEF IsRun
<1>. QED BY <1>14, <1>16

(* A decode that succeeds leaves what its trial did: Level(a, j) is the     *)
(* trial a before ubatch j.                                                 *)
LEMMA AsTried ==
  ASSUME Inv, NEW b \in Batches, Decode(b)
  PROVE  LET a == Tried(UpdatedCells, b) IN
         /\ a \in TrialsFrom(UpdatedCells, b) /\ Len(a.stack) = Len(b)
         /\ v_cells' \in StillCaches
         /\ \A t \in Streams : \A i \in Cells : Same(v_cells'[t], a.v[t], i)
<1>. DEFINE a == Tried(UpdatedCells, b)
            p == Trial(b)
            n == Len(b)
            v1 == UpdatedCells
<1>1. Legal(b) /\ p.ok /\ v_cells' = Computed(p.v, UpdatedRot, b, p.sinfos, n).v
  BY DEF Decode
<1>2. v1 \in StillCaches
  BY UpdateFacts
<1>3. a \in TrialsFrom(v1, b) /\ (a.ok => Len(a.stack) = n)
  BY <1>1, <1>2, TriedFacts
<1>4. p = [ok |-> a.ok, sinfos |-> [j \in DOMAIN a.stack |-> a.stack[j].sinfo], v |-> Undone(a, b)]
  BY DEF Trial, Prepare
<1>. HIDE DEF a, v1
<1>5. /\ Len(a.stack) = n /\ p.v = Undone(a, b)
      /\ p.sinfos = [j \in DOMAIN a.stack |-> a.stack[j].sinfo]
  BY <1>1, <1>3, <1>4
<1>. HIDE DEF p
<1>6. /\ n \in Nat /\ DOMAIN b = 1..n /\ DOMAIN a.stack = 1..n
      /\ a.v \in StillCaches /\ a.stack \in Seq(Entries) /\ Level(a, 1) = v1
  BY <1>3, <1>5, BatchAssumption DEF TrialsFrom
<1>. HIDE DEF n
<1>7. ASSUME NEW m \in 1..n + 1 PROVE Level(a, m) \in StillCaches
  <2>1. CASE m \in 1..n
    <3>1. a.stack[m] \in Entries
      BY <1>5, <1>6, <2>1
    <3>. QED BY <1>5, <2>1, <3>1 DEF Level, Entries
  <2>2. CASE m \notin 1..n
    BY <1>5, <1>6, <2>2 DEF Level
  <2>. QED BY <2>1, <2>2
<1>8. \A m \in 1..n : m \in 1..n + 1 /\ m + 1 \in 1..n + 1
  BY <1>6
<1>9. ASSUME NEW m \in 1..n
      PROVE  /\ p.sinfos[m] = a.stack[m].sinfo
             /\ a.stack[m].sinfo \in Found(b, m) /\ a.stack[m].sinfo \in SlotsOf(b, m)
             /\ Level(a, m + 1) = ApplyUbatch(Level(a, m), b, m, a.stack[m].sinfo)
  <2>1. /\ a.stack[m].sinfo = Slots(Level(a, m), b, m)
        /\ Level(a, m + 1) = ApplyUbatch(Level(a, m), b, m, a.stack[m].sinfo)
    BY <1>3, <1>5 DEF TrialsFrom
  <2>2. Slots(Level(a, m), b, m) \in Found(b, m)
    BY <1>6, <1>7, <1>8, SlotsFound
  <2>3. p.sinfos[m] = a.stack[m].sinfo
    BY <1>5, <1>6
  <2>. QED BY <2>1, <2>2, <2>3 DEF Found
<1>10. /\ Undone(a, b) \in StillCaches
       /\ \A t \in Streams : \A i \in Cells : \A j \in 1..n + 1 :
            NextFound(TriedIn(a, t), n, i, 1, j) => Same(Undone(a, b)[t], Level(a, j)[t], i)
  <2>1. /\ Undone(a, b) \in StillCaches
        /\ \A t \in Streams : \A i \in Cells : \A j \in 1..Len(a.stack) + 1 :
             NextFound(TriedIn(a, t), Len(a.stack), i, 1, j)
                => Same(Undone(a, b)[t], Level(a, j)[t], i)
    BY <1>2, <1>3, UndoneExact
  <2>. QED BY <1>5, <2>1
<1>11. [v |-> p.v, rot |-> UpdatedRot] \in Fitting
  <2>1. Fewer(v1, Undone(a, b))
    BY <1>2, <1>3, UndoneFacts
  <2>. QED BY <1>5, <1>10, <2>1, UpdateFacts DEF v1
<1>12. PICK W : /\ W[1] = p.v /\ W[n + 1] = v_cells'
                /\ \A j \in 1..n + 1 : W[j] \in StillCaches
                /\ \A j \in 1..n : W[j + 1] = ApplyUbatch(W[j], b, j, p.sinfos[j])
  <2>1. n \in Nat /\ DOMAIN b = 1..n /\ Legal(b) /\ \A j \in 1..n : p.sinfos[j] \in SlotsOf(b, j)
    BY <1>1, <1>6, <1>9
  <2>2. \E W : W[1] = p.v /\ W[n + 1] = Computed(p.v, UpdatedRot, b, p.sinfos, n).v
                            /\ IsRun(W, b, p.sinfos, n)
    BY <1>11, <2>1, ComputedRun
  <2>. QED BY <1>1, <2>2 DEF IsRun
<1>13. ASSUME NEW t \in Streams PROVE \A i \in Cells : Same(v_cells'[t], a.v[t], i)
  <2>. DEFINE X == [m \in 1..n + 1 |-> Level(a, m)[t]]
              Y == [m \in 1..n + 1 |-> W[m][t]]
              F == TriedIn(a, t)
              T == [m \in 1..n |-> Toks(b, m, t)]
  <2>1. \A m \in 1..n + 1 : X[m] = Level(a, m)[t] /\ Y[m] = W[m][t]
    OBVIOUS
  <2>2. \A m \in 1..n : F[m] = a.stack[m].sinfo[t]
    BY <1>5 DEF TriedIn
  <2>3. \A m \in 1..n : T[m] = Toks(b, m, t)
    OBVIOUS
  <2>. HIDE DEF X, Y, F, T
  <2>4. \A m \in 1..n + 1 : X[m] \in Still /\ Y[m] \in Still
    BY <1>7, <1>12, <2>1, StillCachesFacts
  <2>5. \A m \in 1..n : F[m] \in Seq(Cells)
    BY <1>9, <2>2 DEF SlotsOf, Sinfos
  <2>6. ASSUME NEW m \in 1..n
        PROVE  Applied(X[m], F[m], T[m], X[m + 1]) /\ Applied(Y[m], F[m], T[m], Y[m + 1])
    <3>. DEFINE f == a.stack[m].sinfo
    <3>0. m \in DOMAIN b /\ f \in Found(b, m) /\ Level(a, m) \in StillCaches /\ W[m] \in StillCaches
      BY <1>6, <1>7, <1>8, <1>9, <1>12
    <3>. HIDE DEF f
    <3>1. Applied(Level(a, m)[t], f[t], Toks(b, m, t), ApplyUbatch(Level(a, m), b, m, f)[t])
      BY <1>1, <3>0, ApplyUbatchExact
    <3>2. Applied(W[m][t], f[t], Toks(b, m, t), ApplyUbatch(W[m], b, m, f)[t])
      BY <1>1, <3>0, ApplyUbatchExact
    <3>3. Level(a, m + 1) = ApplyUbatch(Level(a, m), b, m, f) /\ W[m + 1] = ApplyUbatch(W[m], b, m, f)
      BY <1>9, <1>12 DEF f
    <3>4. F[m] = f[t] /\ T[m] = Toks(b, m, t)
      BY <2>2, <2>3 DEF f
    <3>5. /\ X[m] = Level(a, m)[t] /\ X[m + 1] = Level(a, m + 1)[t]
          /\ Y[m] = W[m][t] /\ Y[m + 1] = W[m + 1][t]
      BY <1>8, <2>1
    <3>. QED BY <3>1, <3>2, <3>3, <3>4, <3>5
  <2>7. \A i \in Cells : \A j \in 1..n + 1 : NextFound(F, n, i, 1, j) => Same(Y[1], X[j], i)
    <3>1. Y[1] = Undone(a, b)[t]
      BY <1>5, <1>6, <1>12, <2>1
    <3>. QED BY <1>10, <2>1, <3>1 DEF F
  <2>8. \A i \in Cells : Same(Y[n + 1], X[n + 1], i)
    BY <1>6, <2>4, <2>5, <2>6, <2>7, StreamAsTried
  <2>9. Y[n + 1] = v_cells'[t] /\ X[n + 1] = a.v[t]
    <3>1. n + 1 \in 1..n + 1 /\ n + 1 \notin 1..n
      BY <1>6
    <3>2. Level(a, n + 1) = a.v
      BY <1>5, <3>1 DEF Level
    <3>. QED BY <1>12, <2>1, <3>1, <3>2
  <2>. QED BY <2>8, <2>9
<1>14. v_cells' \in StillCaches
  <2>1. n + 1 \in 1..n + 1
    BY <1>6
  <2>. QED BY <1>12, <2>1
<1>. QED BY <1>3, <1>5, <1>13, <1>14 DEF a, n, v1

-----------------------------------------------------------------------------
(* What a batch does to the positions of a sequence.                       *)

(* The positions of a sequence are those of its cells, whatever is beside. *)
LEMMA SamePositions ==
  ASSUME NEW c \in Good, NEW d \in Good, \A i \in Cells : Same(c, d, i), NEW s \in Seqs
  PROVE  Positions(c, s) = Positions(d, s)
<1>1. /\ Positions(c, s) = {p \in Pos : \E i \in Cells : s \in c.seq[i] /\ c.pos[i] = p}
      /\ Positions(d, s) = {p \in Pos : \E i \in Cells : s \in d.seq[i] /\ d.pos[i] = p}
  BY PositionsFacts
<1>. QED BY <1>1 DEF Same

(* The update leaves them. *)
LEMMA UpdateKeepsPositions ==
  ASSUME Inv, NEW t \in Streams, NEW s \in Seqs
  PROVE  Positions(UpdatedCells[t], s) = Positions(v_cells[t], s)
<1>. DEFINE c == v_cells[t]
            d == [c EXCEPT !.shift = [i \in Cells |-> 0], !.hasShift = FALSE]
            w == UpdatedCells
<1>1. v_cells \in [Streams -> Good] /\ c \in Good /\ c \in CellStates
  BY DEF Inv, Good, Sound
<1>2. d.seqPos = c.seqPos
  <2>1. c = [pos |-> c.pos, seq |-> c.seq, shift |-> c.shift, hasShift |-> c.hasShift,
             used |-> c.used, seqPos |-> c.seqPos, head |-> c.head]
    BY <1>1, CellFields
  <2>. HIDE DEF c
  <2>. QED BY <2>1
<1>3. w[t] = d \/ w[t] = c
  BY <1>1 DEF UpdatedCells
<1>. HIDE DEF w, c, d
<1>4. w[t].seqPos = c.seqPos
  BY <1>2, <1>3
<1>. QED BY <1>4 DEF Positions, w, c

(* Counting: C counts the members of R as they come. *)
LEMMA Enumerated ==
  ASSUME NEW n \in Nat, NEW C, NEW R \in SUBSET (1..n), C[0] \in Nat,
         \A k \in 1..n : C[k] = IF k \in R THEN C[k - 1] + 1 ELSE C[k - 1]
  PROVE  C[n] \in Nat /\ C[0] <= C[n] /\ {C[k] : k \in R} = C[0] + 1 .. C[n]
<1>. DEFINE U == {k \in 0..n : C[k] \in Nat /\ C[0] <= C[k]
                               /\ {C[l] : l \in R \cap (1..k)} = C[0] + 1 .. C[k]}
<1>1. 0 \in U
  <2>1. R \cap (1..0) = {} /\ C[0] + 1 .. C[0] = {} /\ 0 \in 0..n
    OBVIOUS
  <2>. QED BY <2>1
<1>2. ASSUME NEW k \in 1..n, k - 1 \in U PROVE k \in U
  <2>0. /\ k - 1 \in 0..n /\ k \in 0..n /\ 1..k = (1..k - 1) \cup {k}
        /\ C[k - 1] \in Nat /\ C[0] <= C[k - 1]
        /\ {C[l] : l \in R \cap (1..k - 1)} = C[0] + 1 .. C[k - 1]
    BY <1>2
  <2>1. CASE k \in R
    <3>1. C[k] = C[k - 1] + 1
      BY <2>1
    <3>2. R \cap (1..k) = (R \cap (1..k - 1)) \cup {k}
      BY <2>0, <2>1
    <3>3. {C[l] : l \in R \cap (1..k)} = {C[l] : l \in R \cap (1..k - 1)} \cup {C[k]}
      BY <3>2
    <3>4. C[0] + 1 .. C[k] = (C[0] + 1 .. C[k - 1]) \cup {C[k]}
      BY <2>0, <3>1
    <3>. QED BY <2>0, <3>1, <3>3, <3>4
  <2>2. CASE k \notin R
    <3>1. C[k] = C[k - 1]
      BY <2>2
    <3>2. R \cap (1..k) = R \cap (1..k - 1)
      BY <2>0, <2>2
    <3>. QED BY <2>0, <3>1, <3>2
  <2>. QED BY <2>1, <2>2
<1>3. 0..n \subseteq U
  <2>. HIDE DEF U
  <2>. QED BY <1>1, <1>2, Induction
<1>4. R \cap (1..n) = R
  OBVIOUS
<1>5. n \in U
  <2>1. n \in 0..n
    OBVIOUS
  <2>. HIDE DEF U
  <2>. QED BY <1>3, <2>1
<1>. QED BY <1>4, <1>5

(* The tokens of a sequence in the first j ubatches, and in ubatch j.       *)
Row(b, j, s) == {k \in DOMAIN b[j] : s \in b[j][k]}
Done(b, j, s) == UNION {{m} \X Row(b, m, s) : m \in 1..j}
DoneIn(b, j, k, s) == Done(b, j - 1, s) \cup ({j} \X {l \in Row(b, j, s) : l <= k})

(* Those before ubatch j, and with it.                                      *)
LEMMA DoneEnds ==
  ASSUME NEW b \in Batches, NEW j \in DOMAIN b, NEW s
  PROVE  /\ IsFiniteSet(Done(b, j - 1, s)) /\ DoneIn(b, j, 0, s) = Done(b, j - 1, s)
         /\ DoneIn(b, j, Len(b[j]), s) = Done(b, j, s)
<1>. DEFINE n == Len(b[j])
<1>0. /\ j \in Nat \ {0} /\ j <= Len(b) /\ DOMAIN b = 1..Len(b) /\ Len(b) \in Nat
      /\ Len(b[j]) \in Nat \ {0} /\ DOMAIN b[j] = 1..Len(b[j])
  BY BatchFacts
<1>1. Done(b, 0, s) = {}
  BY DEF Done
<1>2. IsFiniteSet(Done(b, j - 1, s))
  <2>. DEFINE U == {k \in 0..j - 1 : IsFiniteSet(Done(b, k, s))}
  <2>1. 0 \in U
    <3>1. 0 \in 0..j - 1
      BY <1>0
    <3>. QED BY <1>1, <3>1, FS_EmptySet
  <2>2. ASSUME NEW k \in 1..j - 1, k - 1 \in U PROVE k \in U
    <3>. DEFINE S == {k}
    <3>1. Done(b, k, s) = Done(b, k - 1, s) \cup (S \X Row(b, k, s))
      <4>1. 1..k = (1..k - 1) \cup {k}
        OBVIOUS
      <4>. QED BY <4>1 DEF Done
    <3>2. IsFiniteSet(Row(b, k, s))
      <4>1. k \in DOMAIN b
        BY <1>0
      <4>2. DOMAIN b[k] = 1..Len(b[k]) /\ Len(b[k]) \in Nat
        BY <4>1, BatchFacts
      <4>3. IsFiniteSet(DOMAIN b[k])
        BY <4>2, FS_Interval
      <4>4. Row(b, k, s) \in SUBSET DOMAIN b[k]
        BY DEF Row
      <4>. QED BY <4>3, <4>4, FS_Subset
    <3>3. IsFiniteSet(S)
      BY FS_Singleton
    <3>. HIDE DEF S
    <3>4. IsFiniteSet(S \X Row(b, k, s)) /\ IsFiniteSet(Done(b, k - 1, s))
      BY <2>2, <3>2, <3>3, FS_Product
    <3>. DEFINE A == Done(b, k - 1, s)
                B == S \X Row(b, k, s)
    <3>5. IsFiniteSet(Done(b, k, s))
      <4>1. IsFiniteSet(A) /\ IsFiniteSet(B) /\ Done(b, k, s) = A \cup B
        BY <3>1, <3>4
      <4>. HIDE DEF A, B
      <4>. QED BY <4>1, FS_Union
    <3>. QED BY <3>5
  <2>. HIDE DEF U
  <2>3. j - 1 \in Nat
    BY <1>0
  <2>4. 0..j - 1 \subseteq U
    BY <2>1, <2>2, <2>3, Induction
  <2>. QED BY <2>3, <2>4 DEF U
<1>3. Row(b, j, s) \in SUBSET (1..n)
  BY <1>0 DEF Row
<1>4. DoneIn(b, j, 0, s) = Done(b, j - 1, s)
  <2>1. {l \in Row(b, j, s) : l <= 0} = {}
    BY <1>0, <1>3
  <2>. QED BY <2>1 DEF DoneIn
<1>5. DoneIn(b, j, n, s) = Done(b, j, s)
  <2>1. {l \in Row(b, j, s) : l <= n} = Row(b, j, s)
    BY <1>0, <1>3
  <2>2. 1..j = (1..j - 1) \cup {j}
    BY <1>0
  <2>. QED BY <2>1, <2>2 DEF DoneIn, Done
<1>. QED BY <1>2, <1>4, <1>5

(* One more token.                                                          *)
LEMMA DoneStep ==
  ASSUME NEW b \in Batches, NEW j \in DOMAIN b, NEW s, NEW k \in 1..Len(b[j])
  PROVE  /\ k \in Row(b, j, s) => DoneIn(b, j, k, s) = DoneIn(b, j, k - 1, s) \cup {<<j, k>>}
         /\ k \notin Row(b, j, s) => DoneIn(b, j, k, s) = DoneIn(b, j, k - 1, s)
         /\ <<j, k>> \notin DoneIn(b, j, k - 1, s)
<1>0. /\ j \in Nat \ {0} /\ j <= Len(b) /\ DOMAIN b = 1..Len(b) /\ Len(b) \in Nat
      /\ Len(b[j]) \in Nat \ {0} /\ DOMAIN b[j] = 1..Len(b[j])
  BY BatchFacts
<1>1. Row(b, j, s) \in SUBSET (1..Len(b[j]))
  BY <1>0 DEF Row
<1>2. {l \in Row(b, j, s) : l <= k} = IF k \in Row(b, j, s) THEN {l \in Row(b, j, s) : l <= k - 1} \cup {k}
                                      ELSE {l \in Row(b, j, s) : l <= k - 1}
  BY <1>0, <1>1
<1>3. k \notin {l \in Row(b, j, s) : l <= k - 1}
  BY <1>0, <1>1
<1>4. <<j, k>> \notin Done(b, j - 1, s)
  BY <1>0 DEF Done
<1>. QED BY <1>2, <1>3, <1>4 DEF DoneIn

(* So a token's position is the last one of its sequence and their number.  *)
LEMMA TokPosCounts ==
  ASSUME NEW b \in Batches, NEW j \in DOMAIN b, NEW s, NEW k \in 1..Len(b[j])
  PROVE  TokPos(b, j, k, s) = SeqPosMax(v_cells[StreamOf(s)], s) + Cardinality(DoneIn(b, j, k, s))
<1>. DEFINE OwnedUpto == {q \in Upto(b, j, k) : s \in b[q[1]][q[2]]}
<1>0. /\ j \in Nat \ {0} /\ j <= Len(b) /\ DOMAIN b = 1..Len(b) /\ Len(b) \in Nat
      /\ Len(b[j]) \in Nat \ {0} /\ DOMAIN b[j] = 1..Len(b[j])
  BY BatchFacts
<1>1. ASSUME NEW q
      PROVE  (q \in Upto(b, j, k) /\ s \in b[q[1]][q[2]]) <=> q \in DoneIn(b, j, k, s)
  <2>1. q \in Upto(b, j, k) <=>
          \E m \in 1..j : \E l \in DOMAIN b[m] : (m < j \/ l <= k) /\ q = <<m, l>>
    BY DEF Upto
  <2>2. q \in Done(b, j - 1, s) <=>
          \E m \in 1..j - 1 : \E l \in DOMAIN b[m] : s \in b[m][l] /\ q = <<m, l>>
    BY DEF Done, Row
  <2>3. q \in {j} \X {l \in Row(b, j, s) : l <= k} <=>
          \E l \in DOMAIN b[j] : s \in b[j][l] /\ l <= k /\ q = <<j, l>>
    BY DEF Row
  <2>4. \A m, l : q = <<m, l>> => q[1] = m /\ q[2] = l
    OBVIOUS
  <2>5. (\A m \in 1..j : m = j \/ (m \in 1..j - 1 /\ m < j)) /\ j \in 1..j
        /\ (\A m \in 1..j - 1 : m \in 1..j /\ m < j) /\ ~(j < j)
    BY <1>0
  <2>. QED BY <2>1, <2>2, <2>3, <2>4, <2>5 DEF DoneIn
<1>2. OwnedUpto = DoneIn(b, j, k, s)
  BY <1>1
<1>. QED BY <1>2 DEF TokPos

(* The highest position of a sequence when the first j ubatches are in.     *)
Top(b, j, s) == SeqPosMax(v_cells[StreamOf(s)], s) + Cardinality(Done(b, j, s))

(* The tokens of a sequence in a ubatch go on from its last position, one   *)
(* after the other; in a stream that is not one of the ubatch's it has none.*)
LEMMA TokenPositions ==
  ASSUME NEW b \in Batches, NEW j \in DOMAIN b, Legal(b), NEW s \in Seqs,
         NEW t, t = StreamOf(s), unified \in BOOLEAN
  PROVE  /\ Top(b, j - 1, s) \in Int /\ Top(b, j, s) \in Int
         /\ -1 <= Top(b, j - 1, s) /\ Top(b, j - 1, s) <= Top(b, j, s)
         /\ t \in UStreams(b[j]) =>
              {Toks(b, j, t)[k].pos : k \in {k \in 1..Len(b[j]) : s \in Toks(b, j, t)[k].owners}}
                = Top(b, j - 1, s) + 1 .. Top(b, j, s)
         /\ t \notin UStreams(b[j]) => Top(b, j, s) = Top(b, j - 1, s)
<1>. DEFINE n == Len(b[j])
            R == Row(b, j, s)
            M == SeqPosMax(v_cells[t], s)
            C == [k \in 0..n |-> Cardinality(DoneIn(b, j, k, s))]
            x == Top(b, j - 1, s)
            y == Top(b, j, s)
<1>0. j \in Nat \ {0} /\ n \in Nat \ {0} /\ DOMAIN b[j] = 1..n
  BY BatchFacts
<1>1. M \in Int /\ -1 <= M
  <2>1. M \in Pos \cup {-1} /\ MaxPos \in Int
    BY SeqPosMaxType, SizeAssumption
  <2>. HIDE DEF M
  <2>. QED BY <2>1 DEF Pos
<1>2. R \in SUBSET (1..n)
  BY <1>0 DEF Row
<1>3. ASSUME NEW k \in 0..n PROVE IsFiniteSet(DoneIn(b, j, k, s))
  <2>. DEFINE A == Done(b, j - 1, s)
              S == {j}
              T == {l \in R : l <= k}
              B == S \X T
  <2>1. IsFiniteSet(A) /\ IsFiniteSet(S)
    BY DoneEnds, FS_Singleton
  <2>2. IsFiniteSet(T)
    <3>1. IsFiniteSet(1..n)
      BY <1>0, FS_Interval
    <3>2. T \in SUBSET (1..n)
      BY <1>2
    <3>. HIDE DEF T
    <3>. QED BY <3>1, <3>2, FS_Subset
  <2>3. DoneIn(b, j, k, s) = A \cup B
    BY DEF DoneIn
  <2>. HIDE DEF A, S, T
  <2>4. IsFiniteSet(B)
    BY <2>1, <2>2, FS_Product
  <2>. HIDE DEF B
  <2>. QED BY <2>1, <2>3, <2>4, FS_Union
<1>4. C[0] \in Nat /\ C[0] = Cardinality(Done(b, j - 1, s)) /\ C[n] = Cardinality(Done(b, j, s))
  <2>1. 0 \in 0..n /\ n \in 0..n
    BY <1>0
  <2>2. /\ DoneIn(b, j, 0, s) = Done(b, j - 1, s) /\ DoneIn(b, j, n, s) = Done(b, j, s)
        /\ IsFiniteSet(Done(b, j - 1, s))
    BY DoneEnds
  <2>3. C[0] = Cardinality(DoneIn(b, j, 0, s)) /\ C[n] = Cardinality(DoneIn(b, j, n, s))
    BY <2>1
  <2>. HIDE DEF C, n
  <2>. QED BY <2>2, <2>3, FS_CardinalityType
<1>5. ASSUME NEW k \in 1..n
      PROVE  C[k] = IF k \in R THEN C[k - 1] + 1 ELSE C[k - 1]
  <2>0. k \in 0..n /\ k - 1 \in 0..n
    BY <1>0
  <2>1. C[k] = Cardinality(DoneIn(b, j, k, s)) /\ C[k - 1] = Cardinality(DoneIn(b, j, k - 1, s))
    BY <2>0
  <2>2. /\ k \in R => DoneIn(b, j, k, s) = DoneIn(b, j, k - 1, s) \cup {<<j, k>>}
        /\ k \notin R => DoneIn(b, j, k, s) = DoneIn(b, j, k - 1, s)
        /\ <<j, k>> \notin DoneIn(b, j, k - 1, s)
    BY DoneStep
  <2>3. IsFiniteSet(DoneIn(b, j, k - 1, s))
    BY <1>3, <2>0
  <2>4. Cardinality(DoneIn(b, j, k - 1, s) \cup {<<j, k>>}) = Cardinality(DoneIn(b, j, k - 1, s)) + 1
    BY <2>2, <2>3, FS_AddElement
  <2>. HIDE DEF C, R
  <2>. QED BY <2>1, <2>2, <2>4
<1>6. ASSUME NEW k \in R PROVE TokPos(b, j, k, s) = M + C[k]
  <2>1. k \in 1..n /\ k \in 0..n
    BY <1>2
  <2>2. TokPos(b, j, k, s) = M + Cardinality(DoneIn(b, j, k, s))
    BY <2>1, TokPosCounts
  <2>. QED BY <2>1, <2>2
<1>. HIDE DEF C, R
<1>7. C[n] \in Nat /\ C[0] <= C[n] /\ {C[k] : k \in R} = C[0] + 1 .. C[n]
  BY <1>0, <1>2, <1>4, <1>5, Enumerated
<1>8. x = M + C[0] /\ y = M + C[n]
  BY <1>4 DEF Top
<1>. HIDE DEF M, x, y
<1>9. x \in Int /\ y \in Int /\ -1 <= x /\ x <= y
  BY <1>1, <1>4, <1>7, <1>8
<1>10. {TokPos(b, j, k, s) : k \in R} = x + 1 .. y
  <2>1. {TokPos(b, j, k, s) : k \in R} = {M + C[k] : k \in R}
    BY <1>6
  <2>2. {M + C[k] : k \in R} = {M + z : z \in {C[k] : k \in R}}
    OBVIOUS
  <2>3. {M + z : z \in C[0] + 1 .. C[n]} = x + 1 .. y
    <3>1. ASSUME NEW p \in x + 1 .. y PROVE p \in {M + z : z \in C[0] + 1 .. C[n]}
      <4>1. p - M \in C[0] + 1 .. C[n] /\ p = M + (p - M)
        BY <1>1, <1>4, <1>7, <1>8, <1>9
      <4>. QED BY <4>1
    <3>2. ASSUME NEW z \in C[0] + 1 .. C[n] PROVE M + z \in x + 1 .. y
      BY <1>1, <1>4, <1>7, <1>8, <1>9
    <3>. QED BY <3>1, <3>2
  <2>. QED BY <1>7, <2>1, <2>2, <2>3
<1>11. CASE t \in UStreams(b[j])
  <2>. DEFINE z == Toks(b, j, t)
              D == {k \in 1..n : s \in z[k].owners}
  <2>1. ASSUME NEW k \in 1..n
        PROVE  /\ k \in D <=> k \in R
               /\ k \in R => z[k].pos = TokPos(b, j, k, s)
    <3>1. /\ unified => z[k].owners = b[j][k]
          /\ ~unified => z[k].owners = {t} /\ t \in b[j][k]
          /\ \E r \in z[k].owners : z[k].pos = TokPos(b, j, k, r)
      BY <1>11, TokFacts
    <3>. HIDE DEF z
    <3>2. ~unified => t = s
      BY DEF StreamOf
    <3>3. k \in R <=> s \in b[j][k]
      BY <1>0 DEF R, Row
    <3>4. k \in D <=> k \in R
      BY <3>1, <3>2, <3>3
    <3>5. ASSUME k \in R PROVE z[k].pos = TokPos(b, j, k, s)
      <4>1. PICK r \in z[k].owners : z[k].pos = TokPos(b, j, k, r)
        BY <3>1
      <4>2. CASE unified
        <5>1. r \in b[j][k] /\ s \in b[j][k] /\ k \in DOMAIN b[j]
          BY <1>0, <3>1, <3>3, <3>5, <4>1, <4>2
        <5>2. \A u, w \in b[j][k] : u < w => TokPos(b, j, k, u) = TokPos(b, j, k, w)
          BY <4>2, <5>1 DEF Legal
        <5>3. r = s \/ r < s \/ s < r
          <6>1. b[j][k] \in SUBSET Seqs
            BY BatchFacts
          <6>2. r \in Seqs /\ NSeq \in Int
            BY <5>1, <6>1, SizeAssumption
          <6>. QED BY <6>2 DEF Seqs
        <5>. QED BY <4>1, <5>1, <5>2, <5>3
      <4>3. CASE ~unified
        BY <3>1, <3>2, <4>1, <4>3
      <4>. QED BY <4>2, <4>3
    <3>. QED BY <3>4, <3>5
  <2>2. D = R
    BY <1>2, <2>1
  <2>3. {z[k].pos : k \in D} = {TokPos(b, j, k, s) : k \in R}
    <3>. HIDE DEF z, D
    <3>. QED BY <1>2, <2>1, <2>2
  <2>4. {z[k].pos : k \in D} = x + 1 .. y
    BY <1>10, <2>3
  <2>. QED BY <1>9, <1>11, <2>4 DEF x, y
<1>12. CASE t \notin UStreams(b[j])
  <2>1. ~unified /\ t = s /\ s \notin b[j][1]
    BY <1>12 DEF StreamOf, UStreams
  <2>2. \A k \in DOMAIN b[j] : b[j][k] = b[j][1]
    BY <2>1 DEF Legal
  <2>3. R = {}
    BY <2>1, <2>2 DEF R, Row
  <2>4. x + 1 .. y = {}
    BY <1>10, <2>3
  <2>5. ~(x + 1 <= y)
    <3>1. x + 1 <= y => x + 1 \in x + 1 .. y
      BY <1>9
    <3>. QED BY <2>4, <3>1
  <2>6. x = y
    BY <1>9, <2>5
  <2>. QED BY <1>9, <1>12, <2>6 DEF x, y
<1>. QED BY <1>11, <1>12

(* L is -1, or a position the window hides from the token after m.          *)
Behind(L, m) == L \in Int /\ -1 <= L /\ (L = -1 \/ (window > 0 /\ m + 1 - L >= window))

(* The positions of P after L; those from x + 1 to y, alone and with P; and *)
(* those that tokens give a sequence.                                       *)
Above(P, L) == {p \in P : p > L}
Following(x, y) == x + 1 .. y
Extended(P, x, y) == P \cup (x + 1 .. y)
GivenTo(s, toks, n) == {toks[k].pos : k \in {k \in 1..n : s \in toks[k].owners}}

(* The last position overwritten of a sequence is -1, or that of a cell     *)
(* found.                                                                   *)
LEMMA LastTakenFacts ==
  ASSUME NEW c \in Still, NEW n \in Nat, NEW idxs \in [1..n -> Cells], NEW s
  PROVE  LET z == LastTaken(c, idxs, s) IN
         /\ z \in Int /\ -1 <= z
         /\ z = -1 \/ \E l \in 1..n : s \in c.seq[idxs[l]] /\ z = c.pos[idxs[l]]
         /\ \A l \in 1..n : s \in c.seq[idxs[l]] => c.pos[idxs[l]] <= z
<1>. DEFINE T == Taken(c, idxs, n, s)
            z == LastTaken(c, idxs, s)
<1>1. Len(idxs) = n
  OBVIOUS
<1>2. c \in Good
  BY StillFacts
<1>3. /\ T \in SUBSET Int /\ \A x \in T : -1 <= x /\ x <= MaxPos
      /\ MaxPos \in Int /\ -1 \in T
  BY <1>2, TakenType
<1>4. z = Max(T)
  BY <1>1 DEF LastTaken
<1>5. \A x : x \in T <=> x = -1 \/ \E l \in 1..n : s \in c.seq[idxs[l]] /\ x = c.pos[idxs[l]]
  BY DEF Taken
<1>. HIDE DEF T, z
<1>6. Max(T) \in T /\ \A x \in T : x <= Max(T)
  BY <1>3, MaxOf
<1>7. z \in T /\ \A x \in T : x <= z
  BY <1>4, <1>6
<1>8. z \in Int /\ -1 <= z
  BY <1>3, <1>7
<1>9. z = -1 \/ \E l \in 1..n : s \in c.seq[idxs[l]] /\ z = c.pos[idxs[l]]
  BY <1>5, <1>7
<1>10. \A l \in 1..n : s \in c.seq[idxs[l]] => c.pos[idxs[l]] <= z
  BY <1>5, <1>7
<1>. QED BY <1>8, <1>9, <1>10 DEF z

(* A ubatch in a stream, and a sequence: P are the positions it had or has  *)
(* been given, up to x, of which those above L are left; it is given        *)
(* x + 1 .. y.                                                              *)
OneUbatch(c, d, n, idxs, toks, s, x, y, P, L) ==
  /\ c \in Still /\ n \in Nat \ {0} /\ idxs \in [1..n -> Cells] /\ Applied(c, idxs, toks, d)
  /\ \A k \in 1..n : Usable(c, idxs[k])
  /\ x \in Int /\ y \in Int /\ -1 <= x /\ x <= y /\ GivenTo(s, toks, n) = Following(x, y)
  /\ P \in SUBSET (0..x) /\ Behind(L, x) /\ Positions(c, s) = Above(P, L)

(* It loses only what is behind the window.                                 *)
LEMMA UbatchPositions ==
  ASSUME NEW c, NEW d, NEW n, NEW idxs, NEW toks, NEW s \in Seqs, NEW x, NEW y, NEW P, NEW L,
         OneUbatch(c, d, n, idxs, toks, s, x, y, P, L), window \in Nat
  PROVE  \E K : Behind(K, y) /\ Positions(d, s) = Above(Extended(P, x, y), K)
<1>. USE DEF OneUbatch
<1>. DEFINE z == LastTaken(c, idxs, s)
            K == IF L <= z THEN z ELSE L
<1>0. /\ \A p : p \in Positions(c, s) <=> p \in P /\ p > L
      /\ \A p \in P : p \in Int /\ p <= x
      /\ \A p : p \in x + 1 .. y <=> \E k \in 1..n : s \in toks[k].owners /\ toks[k].pos = p
  <2>1. \A p : p \in Positions(c, s) <=> p \in P /\ p > L
    <3>. DEFINE A == Positions(c, s)
    <3>1. A = {p \in P : p > L}
      BY DEF Above
    <3>. HIDE DEF A
    <3>2. \A p : p \in A <=> p \in P /\ p > L
      BY <3>1
    <3>. QED BY <3>2 DEF A
  <2>2. ASSUME NEW p \in P PROVE p \in Int /\ p <= x
    <3>1. p \in 0..x
      OBVIOUS
    <3>. QED BY <3>1
  <2>3. \A p : p \in GivenTo(s, toks, n) <=> \E k \in 1..n : s \in toks[k].owners /\ toks[k].pos = p
    BY DEF GivenTo
  <2>. QED BY <2>1, <2>2, <2>3 DEF Following
<1>1. c \in Good /\ d \in Still /\ d \in Good
  BY StillFacts DEF Applied
<1>2. /\ Positions(c, s) = {p \in Pos : \E i \in Cells : s \in c.seq[i] /\ c.pos[i] = p}
      /\ Positions(d, s) = {p \in Pos : \E i \in Cells : s \in d.seq[i] /\ d.pos[i] = p}
      /\ \A i \in Cells : s \in c.seq[i] => c.pos[i] \in Positions(c, s)
  BY <1>1, PositionsFacts
<1>3. /\ z \in Int /\ -1 <= z
      /\ z = -1 \/ \E l \in 1..n : s \in c.seq[idxs[l]] /\ z = c.pos[idxs[l]]
      /\ \A l \in 1..n : s \in c.seq[idxs[l]] => c.pos[idxs[l]] <= z
  BY LastTakenFacts
<1>4. DOMAIN idxs = 1..n /\ \A k \in 1..n : idxs[k] \in Cells
  OBVIOUS
<1>5. /\ \A k \in 1..n :
           /\ d.seq[idxs[k]] = {r \in toks[k].owners : toks[k].pos > LastTaken(c, idxs, r)}
           /\ d.seq[idxs[k]] # {} => d.pos[idxs[k]] = toks[k].pos
      /\ \A i \in Cells : (\A k \in 1..n : idxs[k] # i) =>
           /\ d.seq[i] = {r \in c.seq[i] : c.pos[i] > LastTaken(c, idxs, r)}
           /\ d.seq[i] # {} => d.pos[i] = c.pos[i]
  BY <1>4 DEF Applied
<1>6. /\ \A k \in 1..n :
           s \in d.seq[idxs[k]] <=> s \in toks[k].owners /\ toks[k].pos > z
      /\ \A i \in Cells : (\A k \in 1..n : idxs[k] # i) =>
           (s \in d.seq[i] <=> s \in c.seq[i] /\ c.pos[i] > z)
  BY <1>5
<1>. HIDE DEF z
<1>7. L \in Int /\ -1 <= L /\ (L = -1 \/ (window > 0 /\ x + 1 - L >= window))
  BY DEF Behind
<1>8. z = -1 \/ (window > 0 /\ x + 1 - z >= window)
  <2>1. SUFFICES ASSUME z # -1 PROVE window > 0 /\ x + 1 - z >= window
    OBVIOUS
  <2>2. PICK l \in 1..n : s \in c.seq[idxs[l]] /\ z = c.pos[idxs[l]]
    BY <1>3, <2>1
  <2>. DEFINE i == idxs[l]
              m == SeqPosMax(c, s)
  <2>3. i \in Cells /\ s \in c.seq[i] /\ c.pos[i] = z /\ Usable(c, i)
    BY <1>4, <2>2
  <2>. HIDE DEF i
  <2>4. c.seq[i] = {s} /\ Masked(z, m + 1)
    <3>1. PICK r \in Seqs : c.seq[i] = {r} /\ Masked(c.pos[i], SeqPosMax(c, r) + 1)
      BY <2>1, <2>3 DEF Usable
    <3>2. r = s
      BY <2>3, <3>1
    <3>. QED BY <2>3, <3>1, <3>2
  <2>5. m \in Int /\ m <= x
    <3>1. Positions(c, s) \in SUBSET Int /\ \A p \in Positions(c, s) : p <= x
      BY <1>0
    <3>2. z \in Positions(c, s)
      BY <1>2, <2>3
    <3>3. m = Max(Positions(c, s))
      BY <3>2 DEF SeqPosMax
    <3>. HIDE DEF m
    <3>4. Max(Positions(c, s)) \in Positions(c, s)
      BY <3>1, <3>2, MaxOf
    <3>. QED BY <3>1, <3>3, <3>4
  <2>. HIDE DEF m
  <2>. QED BY <1>3, <2>4, <2>5 DEF Masked
<1>9. Behind(K, y) /\ K \in Int /\ K <= x /\ \A p : p \in Int => (p > K <=> p > L /\ p > z)
  <2>1. K \in Int /\ -1 <= K
    BY <1>3, <1>7
  <2>2. K = -1 \/ (window > 0 /\ x + 1 - K >= window)
    BY <1>3, <1>7, <1>8
  <2>3. \A p : p \in Int => (p > K <=> p > L /\ p > z)
    BY <1>3, <1>7
  <2>. HIDE DEF K
  <2>4. K = -1 \/ (window > 0 /\ y + 1 - K >= window)
    BY <2>1, <2>2
  <2>5. K <= x
    BY <2>1, <2>2
  <2>. QED BY <2>1, <2>3, <2>4, <2>5 DEF Behind
<1>. HIDE DEF K
<1>10. ASSUME NEW p \in Positions(d, s) PROVE p \in P \cup (x + 1 .. y) /\ p > K
  <2>1. PICK i \in Cells : s \in d.seq[i] /\ d.pos[i] = p
    BY <1>2
  <2>2. CASE \E k \in 1..n : idxs[k] = i
    <3>1. PICK k \in 1..n : idxs[k] = i
      BY <2>2
    <3>2. s \in toks[k].owners /\ toks[k].pos = p
      BY <1>5, <1>6, <2>1, <3>1
    <3>3. p \in x + 1 .. y
      BY <1>0, <3>2
    <3>4. p \in Int /\ p > x
      BY <3>3
    <3>. QED BY <1>9, <3>3, <3>4
  <2>3. CASE \A k \in 1..n : idxs[k] # i
    <3>1. s \in c.seq[i] /\ c.pos[i] > z /\ c.pos[i] = p
      BY <1>5, <1>6, <2>1, <2>3
    <3>2. p \in Positions(c, s)
      BY <1>2, <3>1
    <3>3. p \in P /\ p > L /\ p \in Int
      BY <1>0, <3>2
    <3>. QED BY <1>9, <3>1, <3>3
  <2>. QED BY <2>2, <2>3
<1>11. ASSUME NEW p \in P \cup (x + 1 .. y), p > K PROVE p \in Positions(d, s)
  <2>1. p \in Int /\ p > L /\ p > z
    BY <1>9, <1>11
  <2>2. CASE p \in P
    <3>1. p \in Positions(c, s)
      BY <1>0, <2>1, <2>2
    <3>2. PICK i \in Cells : p \in Pos /\ s \in c.seq[i] /\ c.pos[i] = p
      BY <1>2, <3>1
    <3>3. \A k \in 1..n : idxs[k] # i
      BY <1>3, <2>1, <3>2
    <3>4. s \in d.seq[i] /\ d.pos[i] = p
      BY <1>5, <1>6, <2>1, <3>2, <3>3
    <3>. QED BY <1>2, <3>2, <3>4
  <2>3. CASE p \in x + 1 .. y
    <3>1. PICK k \in 1..n : s \in toks[k].owners /\ toks[k].pos = p
      BY <1>0, <2>3
    <3>2. s \in d.seq[idxs[k]] /\ d.pos[idxs[k]] = p
      BY <1>5, <1>6, <2>1, <3>1
    <3>3. idxs[k] \in Cells
      BY <1>4
    <3>4. p \in Pos
      BY <1>1, <3>2, <3>3, PositionsFacts, d.pos[idxs[k]] \in Positions(d, s) DEF Positions
    <3>. QED BY <1>2, <3>2, <3>3, <3>4
  <2>. QED BY <2>2, <2>3
<1>12. Positions(d, s) = Above(Extended(P, x, y), K)
  BY <1>10, <1>11 DEF Above, Extended
<1>. QED BY <1>9, <1>12

(* The highest position of a sequence, if it has one.                       *)
LEMMA SeqPosMaxFacts ==
  ASSUME NEW c, NEW s
  PROVE  LET m == SeqPosMax(c, s) IN
         /\ m \in Int /\ -1 <= m
         /\ \A p \in Positions(c, s) : p \in Int /\ 0 <= p /\ p <= m
         /\ IF Positions(c, s) = {} THEN m = -1 ELSE m \in Positions(c, s)
<1>. DEFINE P == Positions(c, s)
            m == SeqPosMax(c, s)
<1>1. \A p \in P : p \in Int /\ 0 <= p /\ p <= MaxPos
  BY SizeAssumption DEF Positions, Pos
<1>2. m = IF P = {} THEN -1 ELSE Max(P)
  BY DEF SeqPosMax
<1>. HIDE DEF P, m
<1>3. P # {} => Max(P) \in P /\ \A p \in P : p <= Max(P)
  <2>1. P \in SUBSET Int /\ MaxPos \in Int
    BY <1>1, SizeAssumption
  <2>. QED BY <1>1, <2>1, MaxOf
<1>. QED BY <1>1, <1>2, <1>3 DEF P, m

(* What a successful decode does to the positions of a sequence: it goes on *)
(* from its last one, and what it loses is behind the window.               *)
LEMMA DecodePositions ==
  ASSUME Inv, NEW b \in Batches, Decode(b), NEW s \in Seqs
  PROVE  LET t == StreamOf(s)
             m == SeqPosMax(v_cells[t], s)
         IN \E y \in Int : \E K \in Int :
              /\ m <= y /\ Behind(K, y)
              /\ Positions(v_cells'[t], s) = Above(Positions(v_cells[t], s) \cup (m + 1 .. y), K)
<1>. DEFINE t == StreamOf(s)
            P == Positions(v_cells[t], s)
            m == SeqPosMax(v_cells[t], s)
            n == Len(b)
            a == Tried(UpdatedCells, b)
            V(k) == Level(a, k + 1)[t]
            To(k) == Top(b, k, s)
            U == {k \in 0..n : /\ To(k) \in Int /\ m <= To(k)
                               /\ \E K \in Int :
                                    /\ Behind(K, To(k))
                                    /\ Positions(V(k), s) = Above(P \cup (m + 1 .. To(k)), K)}
<1>1. /\ a \in TrialsFrom(UpdatedCells, b) /\ Len(a.stack) = n
      /\ v_cells' \in StillCaches /\ \A i \in Cells : Same(v_cells'[t], a.v[t], i)
  BY AsTried, StreamOfType
<1>2. t \in Streams /\ unified \in BOOLEAN /\ window \in Nat /\ v_cells \in [Streams -> Good]
  BY StreamOfType, WindowAssumption DEF Inv
<1>3. Legal(b) /\ n \in Nat /\ DOMAIN b = 1..n
  BY BatchAssumption DEF Decode
<1>. HIDE DEF a
<1>4. /\ a.v \in StillCaches /\ Level(a, 1) = UpdatedCells
      /\ \A k \in 1..n :
           /\ a.stack[k] \in Entries
           /\ a.stack[k].sinfo \in SlotsOf(b, k)
           /\ a.stack[k].sinfo = Slots(Level(a, k), b, k)
           /\ \A u \in UStreams(b[k]) : a.stack[k].sinfo[u] # <<>>
           /\ Level(a, k + 1) = ApplyUbatch(Level(a, k), b, k, a.stack[k].sinfo)
  BY <1>1 DEF TrialsFrom
<1>5. \A k \in 1..n + 1 : Level(a, k) \in StillCaches
  <2>1. ASSUME NEW k \in 1..n + 1 PROVE Level(a, k) \in StillCaches
    <3>1. CASE k \in 1..n
      <4>1. a.stack[k] \in Entries
        BY <1>4, <3>1
      <4>. QED BY <1>1, <3>1, <4>1 DEF Level, Entries
    <3>2. CASE k \notin 1..n
      BY <1>1, <1>4, <3>2 DEF Level
    <3>. QED BY <3>1, <3>2
  <2>. QED BY <2>1
<1>6. /\ m \in Int /\ -1 <= m /\ \A p \in P : p \in Int /\ 0 <= p /\ p <= m
  BY SeqPosMaxFacts
<1>7. 0 \in U
  <2>1. To(0) = m
    <3>1. Done(b, 0, s) = {}
      BY DEF Done
    <3>2. Cardinality({}) = 0
      BY FS_EmptySet
    <3>. QED BY <1>6, <3>1, <3>2 DEF Top
  <2>2. Positions(V(0), s) = P
    BY <1>2, <1>4, UpdateKeepsPositions
  <2>. HIDE DEF P, m, V, To
  <2>3. m + 1 .. m = {}
    BY <1>6
  <2>4. P = Above(P \cup (m + 1 .. m), -1)
    BY <1>6, <2>3 DEF Above
  <2>5. Behind(-1, m) /\ -1 \in Int
    BY DEF Behind
  <2>6. 0 \in 0..n /\ m <= m
    BY <1>3, <1>6
  <2>. QED BY <1>6, <2>1, <2>2, <2>4, <2>5, <2>6
<1>8. ASSUME NEW k \in 1..n, k - 1 \in U PROVE k \in U
  <2>. DEFINE x == To(k - 1)
              y == To(k)
              l == Len(b[k])
              f == a.stack[k].sinfo
              c == V(k - 1)
              d == V(k)
              Q == P \cup (m + 1 .. x)
  <2>1. x \in Int /\ m <= x
    BY <1>8
  <2>2. PICK L \in Int : Behind(L, x) /\ Positions(c, s) = Above(P \cup (m + 1 .. x), L)
    BY <1>8
  <2>3. k \in DOMAIN b /\ k \in 1..n + 1 /\ k + 1 \in 1..n + 1 /\ (k - 1) + 1 = k /\ k \in 0..n
    BY <1>3
  <2>4. c = Level(a, k)[t] /\ d = Level(a, k + 1)[t]
    BY <2>3
  <2>5. /\ x \in Int /\ y \in Int /\ -1 <= x /\ x <= y
        /\ t \in UStreams(b[k]) =>
             GivenTo(s, Toks(b, k, t), l) = x + 1 .. y
        /\ t \notin UStreams(b[k]) => y = x
    BY <1>2, <1>3, <2>3, TokenPositions DEF GivenTo
  <2>6. Level(a, k) \in StillCaches /\ c \in Still
    BY <1>2, <1>5, <2>3, <2>4, StillCachesFacts
  <2>7. /\ f \in Found(b, k) /\ f \in SlotsOf(b, k)
        /\ \A i \in DOMAIN f[t] : Usable(c, f[t][i])
    <3>1. /\ Slots(Level(a, k), b, k) \in Found(b, k)
          /\ \A i \in DOMAIN Slots(Level(a, k), b, k)[t] : Usable(Level(a, k)[t], Slots(Level(a, k), b, k)[t][i])
      BY <1>2, <2>3, <2>6, SlotsFound
    <3>. QED BY <1>4, <2>4, <3>1
  <2>8. d = ApplyUbatch(Level(a, k), b, k, f)[t]
    BY <1>4, <2>4
  <2>. HIDE DEF P, m, x, y, c, d, f
  <2>9. \E K \in Int : Behind(K, y) /\ Positions(d, s) = Above(Q \cup (x + 1 .. y), K)
    <3>1. CASE t \in UStreams(b[k])
      <4>1. f[t] \in [1..l -> Cells] /\ l \in Nat \ {0}
        BY <1>2, <1>4, <2>3, <2>7, <3>1, BatchFacts DEF SlotsOf, f
      <4>2. Applied(c, f[t], Toks(b, k, t), d)
        BY <1>2, <1>3, <2>3, <2>4, <2>6, <2>7, <2>8, ApplyUbatchExact
      <4>3. Q \in SUBSET (0..x)
        BY <1>6, <2>1
      <4>4. \A i \in 1..l : Usable(c, f[t][i])
        BY <2>7, <4>1
      <4>5. Positions(c, s) = Above(Q, L) /\ Behind(L, x)
        BY <2>2
      <4>6. GivenTo(s, Toks(b, k, t), l) = x + 1 .. y
        BY <2>5, <3>1
      <4>7. x \in Int /\ y \in Int /\ -1 <= x /\ x <= y /\ window \in Nat
        BY <1>2, <2>5
      <4>. HIDE DEF Q, l
      <4>. DEFINE idxs == f[t]
                  toks == Toks(b, k, t)
      <4>8. /\ idxs \in [1..l -> Cells] /\ Applied(c, idxs, toks, d) /\ \A i \in 1..l : Usable(c, idxs[i])
            /\ GivenTo(s, toks, l) = Following(x, y)
        BY <4>1, <4>2, <4>4, <4>6 DEF Following
      <4>. HIDE DEF idxs, toks
      <4>9. \E K : Behind(K, y) /\ Positions(d, s) = Above(Extended(Q, x, y), K)
        <5>1. OneUbatch(c, d, l, idxs, toks, s, x, y, Q, L)
          BY <2>6, <4>1, <4>3, <4>5, <4>7, <4>8 DEF OneUbatch
        <5>. QED BY <4>7, <5>1, UbatchPositions
      <4>. QED BY <4>9 DEF Behind, Extended
    <3>2. CASE t \notin UStreams(b[k])
      <4>1. f[t] = <<>>
        BY <1>2, <2>7, <3>2 DEF SlotsOf
      <4>2. d = c
        BY <1>2, <2>4, <2>8, <4>1 DEF ApplyUbatch
      <4>3. y = x /\ x + 1 .. y = {}
        BY <2>5, <3>2
      <4>4. Q \cup (x + 1 .. y) = Q
        BY <4>3
      <4>. QED BY <2>2, <4>2, <4>3, <4>4
    <3>. QED BY <3>1, <3>2
  <2>10. Q \cup (x + 1 .. y) = P \cup (m + 1 .. y)
    <3>1. (m + 1 .. x) \cup (x + 1 .. y) = m + 1 .. y
      BY <1>6, <2>1, <2>5
    <3>. QED BY <3>1
  <2>11. y \in Int /\ m <= y
    BY <1>6, <2>1, <2>5
  <2>12. \E K \in Int : Behind(K, y) /\ Positions(d, s) = Above(P \cup (m + 1 .. y), K)
    BY <2>9, <2>10
  <2>. QED BY <2>3, <2>11, <2>12 DEF y, d
<1>9. n \in U
  <2>1. n \in 0..n
    BY <1>3
  <2>. HIDE DEF U, n
  <2>2. 0..n \subseteq U
    BY <1>3, <1>7, <1>8, Induction
  <2>. QED BY <2>1, <2>2
<1>10. Positions(V(n), s) = Positions(v_cells'[t], s)
  <2>1. V(n) = a.v[t]
    <3>1. n + 1 \notin 1..n
      BY <1>3
    <3>. QED BY <1>1, <3>1 DEF Level
  <2>2. a.v[t] \in Good /\ v_cells'[t] \in Good
    BY <1>1, <1>2, <1>4, StillCachesFacts, StillFacts
  <2>. HIDE DEF V
  <2>3. Positions(v_cells'[t], s) = Positions(a.v[t], s)
    BY <1>1, <2>2, SamePositions
  <2>. QED BY <2>1, <2>3
<1>. HIDE DEF P, m, V, To
<1>11. PICK K \in Int : /\ Behind(K, To(n))
                        /\ Positions(V(n), s) = Above(P \cup (m + 1 .. To(n)), K)
  BY <1>9
<1>12. To(n) \in Int /\ m <= To(n)
  BY <1>9
<1>. HIDE DEF U, n
<1>13. \E y \in Int : \E L \in Int :
         /\ m <= y /\ Behind(L, y)
         /\ Positions(v_cells'[t], s) = Above(P \cup (m + 1 .. y), L)
  BY <1>10, <1>11, <1>12
<1>. QED BY <1>13 DEF P, m

(* So a sequence loses nothing its next token attends to.                   *)
LEMMA DecodeLosesNothing ==
  ASSUME Inv, NEW b \in Batches, Decode(b), NEW s \in Seqs
  PROVE  Lost(s) = {}
<1>. DEFINE t == StreamOf(s)
            P == Positions(v_cells[t], s)
            Q == Positions(v_cells'[t], s)
            m == SeqPosMax(v_cells[t], s)
            l == SeqPosMax(v_cells'[t], s)
            z == NextPos(s)
<1>1. PICK y \in Int : \E K \in Int : m <= y /\ Behind(K, y) /\ Q = Above(P \cup (m + 1 .. y), K)
  BY DecodePositions
<1>2. PICK K \in Int : m <= y /\ Behind(K, y) /\ Q = Above(P \cup (m + 1 .. y), K)
  BY <1>1
<1>3. /\ m \in Int /\ \A p \in P : p \in Int /\ 0 <= p /\ p <= m
      /\ l \in Int /\ \A p \in Q : p <= l
  BY SeqPosMaxFacts
<1>4. Lost(s) = {p \in P \ Q : ~Masked(p, z)}
  BY DEF Lost, PosOf
<1>5. z = Max({m, l}) + 1
  BY DEF NextPos, LastPos
<1>6. window \in Nat
  BY WindowAssumption DEF Inv
<1>. HIDE DEF P, Q, m, l, z
<1>7. z \in Int /\ m + 1 <= z /\ l + 1 <= z
  <2>1. Max({m, l}) = IF m <= l THEN l ELSE m
    BY <1>3, MaxOfTwo
  <2>. QED BY <1>3, <1>5, <2>1
<1>8. ASSUME NEW p \in P, p \notin Q PROVE Masked(p, z)
  <2>1. p \in Int /\ 0 <= p /\ p <= m /\ p <= K
    BY <1>2, <1>3, <1>8 DEF Above
  <2>2. window > 0 /\ y + 1 - K >= window
    BY <1>2, <2>1 DEF Behind
  <2>3. CASE z >= y + 1
    BY <1>6, <1>7, <2>1, <2>2, <2>3 DEF Masked
  <2>4. CASE ~(z >= y + 1)
    <3>1. y \in m + 1 .. y
      BY <1>3, <1>7, <2>4
    <3>2. y \notin Q
      BY <1>3, <1>7, <2>4
    <3>3. ~(y > K)
      BY <1>2, <3>1, <3>2 DEF Above
    <3>4. window = 1
      BY <1>6, <2>2, <3>3
    <3>. QED BY <1>3, <1>7, <2>1, <3>4 DEF Masked
  <2>. QED BY <2>3, <2>4
<1>. QED BY <1>4, <1>8

(* And its positions, if they were whole, are whole.                        *)
LEMMA DecodeMakesNoGap ==
  ASSUME Inv, NEW b \in Batches, Decode(b), NEW s \in Seqs, Whole(PosOf(v_cells, s))
  PROVE  Whole(PosOf(v_cells', s))
<1>. DEFINE t == StreamOf(s)
            P == Positions(v_cells[t], s)
            Q == Positions(v_cells'[t], s)
            m == SeqPosMax(v_cells[t], s)
<1>1. PICK y \in Int : \E K \in Int : m <= y /\ Behind(K, y) /\ Q = Above(P \cup (m + 1 .. y), K)
  BY DecodePositions
<1>2. PICK K \in Int : m <= y /\ Behind(K, y) /\ Q = Above(P \cup (m + 1 .. y), K)
  BY <1>1
<1>3. /\ m \in Int /\ \A p \in P : p \in Int /\ 0 <= p /\ p <= m
      /\ P # {} => m \in P
  BY SeqPosMaxFacts
<1>4. PosOf(v_cells, s) = P /\ PosOf(v_cells', s) = Q
  BY DEF PosOf
<1>. HIDE DEF P, Q, m
<1>5. \A p, q \in P : p..q \subseteq P
  BY <1>4 DEF Whole
<1>6. \A p : p \in Q <=> p > K /\ (p \in P \/ p \in m + 1 .. y)
  BY <1>2 DEF Above
<1>7. ASSUME NEW p \in Q, NEW q \in Q, NEW r \in p..q PROVE r \in Q
  <2>1. p \in Int /\ q \in Int /\ r \in Int /\ p <= r /\ r <= q /\ q <= y /\ p > K /\ r > K
    <3>1. p \in Int /\ q \in Int /\ p > K /\ q <= y
      BY <1>2, <1>3, <1>6
    <3>. QED BY <3>1
  <2>2. CASE r <= m
    <3>1. p \in P
      BY <1>3, <1>6, <2>1, <2>2
    <3>2. m \in P /\ r \in p..m
      BY <1>3, <2>1, <2>2, <3>1
    <3>3. r \in P
      BY <1>5, <3>1, <3>2
    <3>. QED BY <1>6, <2>1, <3>3
  <2>3. CASE ~(r <= m)
    <3>1. r \in m + 1 .. y
      BY <1>2, <1>3, <2>1, <2>3
    <3>. QED BY <1>6, <2>1, <3>1
  <2>. QED BY <2>2, <2>3
<1>. QED BY <1>4, <1>7 DEF Whole

(* A decode that succeeds never takes from a sequence a position its next   *)
(* token would still attend to.                                             *)
THEOREM DecodeKeepsWindow == Spec => WindowKept
<1>1. ASSUME Inv, DecodeStep PROVE \A s \in Seqs : Lost(s) = {}
  BY <1>1, DecodeLosesNothing DEF DecodeStep
<1>2. Inv => ((\E s \in Seqs : Lost(s) # {}) => ~DecodeStep)
  BY <1>1
<1>. QED BY <1>2, Invariant, PTL DEF WindowKept

(* A decode that succeeds leaves no gap between the first and the last      *)
(* position of a sequence, if there was none.                               *)
THEOREM DecodeKeepsWhole == Spec => NoNewGaps
<1>1. ASSUME Inv, DecodeStep, NEW s \in Seqs, Whole(PosOf(v_cells, s)) PROVE Whole(PosOf(v_cells', s))
  <2>1. PICK b \in Batches : Decode(b)
    BY <1>1 DEF DecodeStep
  <2>. QED BY <1>1, <2>1, DecodeMakesNoGap
<1>2. Inv => ((\E s \in Seqs : Whole(PosOf(v_cells, s)) /\ ~Whole(PosOf(v_cells', s))) => ~DecodeStep)
  BY <1>1
<1>. QED BY <1>2, Invariant, PTL DEF NoNewGaps

=============================================================================
