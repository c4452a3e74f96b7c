------------------------------ MODULE KVCache ------------------------------
(***************************************************************************)
(* The KV cache (src/src/llama-kv-cache.cpp over src/src/llama-kv-cells.h):*)
(* cells that hold a token's K and V for the sequences that share it, the  *)
(* indexes kept beside them (the set of used cells, and for each sequence  *)
(* how many cells it has at a position), and the calls that change them:   *)
(* the sequence operations, a decode with its search for cells, its trial  *)
(* run and its failures, and the restoring of a saved state.               *)
(*                                                                         *)
(* The cache is used by one thread: a call is one step. A loop over cells  *)
(* applies the operation on one cell in the order of the code (ForEach),   *)
(* which updates the indexes incrementally.                                *)
(*                                                                         *)
(* Abstracted: what K and V hold but the position K was rotated for, the   *)
(* splitting of a batch (any list of ubatches), 2D positions, layers, and  *)
(* the models that fix a token's cell (msa_strict_slots). Left out: the    *)
(* chunked and the symmetric window (is_masked_swa: only the standard one  *)
(* is here), and an update whose graph for the shifts fails.               *)
(***************************************************************************)
EXTENDS Integers, FiniteSetsExt, SequencesExt

CONSTANTS NSeq,      \* sequences: n_seq_max
          N,         \* cells of the one stream: kv_size
          NStream,   \* cells of a sequence's own stream
          MaxPos,    \* positions are kept up to it
          Windows,   \* sliding windows to consider, 0 for none: n_swa
          Batches,   \* batches to decode: lists of ubatches, lists of rows
          Ranges,    \* ranges of positions [p0, p1) to name in a call
          Shifts     \* shifts to name in a call

ASSUME SizeAssumption == NSeq \in Nat \ {0} /\ {N, NStream} \subseteq Nat \ {0} /\ MaxPos \in Nat
ASSUME WindowAssumption == Windows \subseteq Nat
ASSUME RangeAssumption == Ranges \subseteq (0..MaxPos) \X (0..MaxPos + 1)
ASSUME ShiftAssumption == Shifts \subseteq Int
ASSUME BatchAssumption ==
  \A b \in Batches : b \in Seq(Seq((SUBSET (0..NSeq - 1)) \ {{}}) \ {<<>>}) \ {<<>>}

VARIABLES
  unified,   \* one stream for all sequences (kv_unified), or one for each
  window,    \* n_swa
  v_cells,   \* stream -> its cells and their indexes, and its head (v_heads)
  rot,       \* stream -> cell -> position its K is rotated for
  sc_info    \* stream copies to do at the next update

vars == <<unified, window, v_cells, rot, sc_info>>

Seqs == 0..NSeq - 1
Size == IF unified THEN N ELSE NStream
Cells == 0..Size - 1
Pos == 0..MaxPos
All == <<0, MaxPos + 1>>
Junk == -1
Streams == IF unified THEN {0} ELSE Seqs
StreamOf(s) == IF unified THEN 0 ELSE s

CellStates ==
  [pos : [Cells -> Int], seq : [Cells -> SUBSET Seqs], shift : [Cells -> Int],
   hasShift : BOOLEAN, used : SUBSET Cells, seqPos : [Seqs -> [Pos -> Int]], head : 0..Size]

Reset == [pos |-> [i \in Cells |-> -1], seq |-> [i \in Cells |-> {}],
          shift |-> [i \in Cells |-> 0], hasShift |-> FALSE, used |-> {},
          seqPos |-> [s \in Seqs |-> [p \in Pos |-> 0]], head |-> 0]

Init ==
  /\ unified \in BOOLEAN
  /\ window \in Windows
  /\ v_cells = [t \in Streams |-> Reset]
  /\ rot = [t \in Streams |-> [i \in Cells |-> Junk]]
  /\ sc_info = <<>>

-----------------------------------------------------------------------------
(* A loop: what becomes of c when f[k] is applied to it for each number k  *)
(* of S in turn.                                                           *)

ForEach(f, c, S) ==
  LET n == Max({-1} \cup S) + 1
      after[k \in 0..n] ==
        IF k = 0 THEN c
        ELSE LET d == after[k - 1] IN IF k - 1 \in S THEN f[k - 1][d] ELSE d
  IN after[n]

(* The numbers of S in a sequence, from the lowest. *)
Ascending(S) == ForEach([k \in S |-> [q \in Seq(S) |-> Append(q, k)]], <<>>, S)

-----------------------------------------------------------------------------
(* llama_kv_cells: the operations on one cell.                             *)

SeqPosRm(c, i) ==
  [c EXCEPT !.seqPos = [s \in Seqs |->
     IF s \in c.seq[i] THEN [c.seqPos[s] EXCEPT ![c.pos[i]] = @ - 1] ELSE c.seqPos[s]]]
SeqPosAdd(c, i) ==
  [c EXCEPT !.seqPos = [s \in Seqs |->
     IF s \in c.seq[i] THEN [c.seqPos[s] EXCEPT ![c.pos[i]] = @ + 1] ELSE c.seqPos[s]]]

(* A plausible mistake: the shift of a freed cell is not reset. *)
VacateOwing(c, i) == [c EXCEPT !.pos[i] = -1, !.seq[i] = {}, !.used = @ \ {i}]

Vacate(c, i) ==
  [c EXCEPT !.pos[i] = -1, !.seq[i] = {}, !.shift[i] = 0, !.used = @ \ {i}]

RmCell(c, i) == Vacate(SeqPosRm(c, i), i)

SeqRmCell(c, i, s) ==
  LET d == [c EXCEPT !.seq[i] = @ \ {s}, !.seqPos[s][c.pos[i]] = @ - 1]
  IN IF d.seq[i] = {} THEN Vacate(d, i) ELSE d

SeqKeepCell(c, i, s) ==
  CASE s \in c.seq[i]  -> SeqPosAdd([SeqPosRm(c, i) EXCEPT !.seq[i] = {s}], i)
    [] c.seq[i] = {}   -> c
    [] OTHER           -> RmCell(c, i)

SeqAddCell(c, i, s) ==
  [c EXCEPT !.seq[i] = @ \cup {s}, !.seqPos[s][c.pos[i]] = @ + 1]

PosSet(c, i, p) == [c EXCEPT !.pos[i] = p, !.used = @ \cup {i}]

PosAdd(c, i, d) ==
  LET b == [SeqPosRm(c, i) EXCEPT !.pos[i] = @ + d, !.shift[i] = @ + d, !.hasShift = TRUE]
  IN IF b.pos[i] < 0 THEN Vacate(b, i) ELSE SeqPosAdd(b, i)

PosDiv(c, i, d) ==
  LET p == c.pos[i] \div d IN
  SeqPosAdd([SeqPosRm(c, i) EXCEPT !.pos[i] = p, !.shift[i] = @ + (c.pos[i] - p),
                                   !.hasShift = TRUE], i)

(* set: the indexes of a cell follow what is put back into it. *)
SetCell(c, i, p, S) ==
  LET b == [(IF c.pos[i] # -1 THEN SeqPosRm(c, i) ELSE c) EXCEPT
              !.pos[i] = p, !.seq[i] = S, !.used = IF p = -1 THEN @ \ {i} ELSE @ \cup {i}]
  IN IF p = -1 THEN b ELSE SeqPosAdd(b, i)

Positions(c, s) == {p \in Pos : c.seqPos[s][p] > 0}
SeqPosMin(c, s) == IF Positions(c, s) = {} THEN -1 ELSE Min(Positions(c, s))
SeqPosMax(c, s) == IF Positions(c, s) = {} THEN -1 ELSE Max(Positions(c, s))

InRange(c, r) == {i \in Cells : r[1] <= c.pos[i] /\ c.pos[i] < r[2]}
OfSeq(c, s) == {i \in Cells : s \in c.seq[i]}

(* The lowest cell a loop has freed. *)
NewHead(c, d) == Min({Size} \cup {i \in Cells : c.pos[i] # -1 /\ d.pos[i] = -1})
HeadLowered(c, d) == [d EXCEPT !.head = IF NewHead(c, d) < @ THEN NewHead(c, d) ELSE @]

-----------------------------------------------------------------------------
(* llama_kv_cache: a sequence operation on the stream of the sequence. The *)
(* K of a free cell is not looked at, unless a copy still waits for it.    *)

Scrubbed(data) ==
  [t \in Streams |-> [i \in Cells |->
     IF v_cells'[t].pos[i] = -1 /\ sc_info' = <<>> THEN Junk ELSE data[t][i]]]

SeqRmIn(c, s, r) ==
  HeadLowered(c, ForEach([i \in Cells |-> [d \in CellStates |-> SeqRmCell(d, i, s)]],
                         c, InRange(c, r) \cap OfSeq(c, s)))

SeqRm(s, r) ==
  /\ v_cells' = [v_cells EXCEPT ![StreamOf(s)] = SeqRmIn(@, s, r)]
  /\ UNCHANGED <<unified, window, sc_info>> /\ rot' = Scrubbed(rot)

SeqRmAnyIn(c, r) ==
  HeadLowered(c, ForEach([i \in Cells |-> [d \in CellStates |-> RmCell(d, i)]],
                         c, InRange(c, r)))

SeqRmAny(r) ==
  /\ v_cells' = [t \in Streams |-> SeqRmAnyIn(v_cells[t], r)]
  /\ UNCHANGED <<unified, window, sc_info>> /\ rot' = Scrubbed(rot)

SeqKeepIn(c, s) ==
  HeadLowered(c, ForEach([i \in Cells |-> [d \in CellStates |-> SeqKeepCell(d, i, s)]],
                         c, Cells))

SeqKeep(s) ==
  /\ v_cells' = [v_cells EXCEPT ![StreamOf(s)] = SeqKeepIn(@, s)]
  /\ UNCHANGED <<unified, window, sc_info>> /\ rot' = Scrubbed(rot)

Shared(c, s, t, r) == InRange(c, r) \cap OfSeq(c, s) \cap OfSeq(c, t)

SeqCpIn(c, s, t, r) ==
  ForEach([i \in Cells |-> [d \in CellStates |-> SeqAddCell(d, i, t)]],
          c, InRange(c, r) \cap OfSeq(c, s))

(* seq_add asserts that the cell does not have the sequence yet. *)
SeqCp(s, t, r) ==
  /\ unified /\ s # t /\ Shared(v_cells[0], s, t, r) = {}
  /\ v_cells' = [v_cells EXCEPT ![0] = SeqCpIn(@, s, t, r)]
  /\ UNCHANGED <<unified, window, rot, sc_info>>

(* Copying to another stream copies the cells now and the data later. *)
(* A plausible mistake: the copy is taken as up to date, whatever its cell owes. *)
CpCellUnshifted(c, d, i, t) == SeqAddCell(PosSet(d, i, c.pos[i]), i, t)

CpCell(c, d, i, t) ==
  LET q    == c.shift[i]
      with == SeqAddCell(PosSet(d, i, c.pos[i] - q), i, t)
  IN IF q = 0 THEN with ELSE PosAdd(with, i, q)

SeqCpOver(c, s, t) ==
  [ForEach([i \in Cells |-> [d \in CellStates |-> CpCell(c, d, i, t)]], Reset, OfSeq(c, s))
     EXCEPT !.head = c.head]

SeqCpStream(s, t) ==
  /\ ~unified /\ s # t
  /\ v_cells' = [v_cells EXCEPT ![t] = SeqCpOver(v_cells[s], s, t)]
  /\ sc_info' = Append(sc_info, <<s, t>>)
  /\ UNCHANGED <<unified, window>> /\ rot' = Scrubbed(rot)

SeqAddIn(c, s, r, shift) ==
  LET d == ForEach([i \in Cells |-> [e \in CellStates |-> PosAdd(e, i, shift)]],
                   c, InRange(c, r) \cap OfSeq(c, s))
  IN [d EXCEPT !.head = IF NewHead(c, d) < Size THEN NewHead(c, d) ELSE 0]

SeqAdd(s, r, shift) ==
  LET c == v_cells[StreamOf(s)] IN
  /\ shift # 0 /\ r[1] # r[2]
  /\ \A i \in InRange(c, r) \cap OfSeq(c, s) : c.pos[i] + shift <= MaxPos
  /\ v_cells' = [v_cells EXCEPT ![StreamOf(s)] = SeqAddIn(@, s, r, shift)]
  /\ UNCHANGED <<unified, window, sc_info>> /\ rot' = Scrubbed(rot)

SeqDiv(s, r) ==
  LET c == v_cells[StreamOf(s)] IN
  /\ v_cells' = [v_cells EXCEPT ![StreamOf(s)] =
       ForEach([i \in Cells |-> [e \in CellStates |-> PosDiv(e, i, 2)]],
               c, InRange(c, r) \cap OfSeq(c, s))]
  /\ UNCHANGED <<unified, window, rot, sc_info>>

Clear ==
  /\ v_cells' = [t \in Streams |-> Reset]
  /\ UNCHANGED <<unified, window, sc_info>> /\ rot' = Scrubbed(rot)

-----------------------------------------------------------------------------
(* memory_update: the copies between streams, in the order asked, then the *)
(* rotation of every K by the shift its cell owes.                         *)

CopiedBy(info, data) ==
  ForEach([k \in DOMAIN info |-> [d \in [Streams -> [Cells -> Int]] |->
             [d EXCEPT ![info[k][2]] = d[info[k][1]]]]],
          data, DOMAIN info)
Copied(data) == CopiedBy(sc_info, data)

UpdatedRot ==
  [t \in Streams |-> [i \in Cells |->
     IF v_cells[t].pos[i] = -1 THEN Junk ELSE Copied(rot)[t][i] + v_cells[t].shift[i]]]

UpdatedCells ==
  IF \E t \in Streams : v_cells[t].hasShift
  THEN [t \in Streams |-> [v_cells[t] EXCEPT !.shift = [i \in Cells |-> 0], !.hasShift = FALSE]]
  ELSE v_cells

-----------------------------------------------------------------------------
(* find_slot: the cells for n tokens of a stream, from its head on.        *)

Masked(p0, p1) == window > 0 /\ p1 - p0 >= window

(* A plausible mistake: a cell several sequences share is reused when one of them is past it. *)
UsableShared(c, i) ==
  c.pos[i] = -1 \/ \E s \in c.seq[i] : Masked(c.pos[i], SeqPosMax(c, s) + 1)

Usable(c, i) ==
  \/ c.pos[i] = -1
  \/ \E s \in Seqs : c.seq[i] = {s} /\ Masked(c.pos[i], SeqPosMax(c, s) + 1)

FindSlot(c, n) ==
  LET h     == IF c.head > Cardinality(c.used) + 2 * n THEN 0 ELSE c.head
      found == Ascending({k \in Cells : Usable(c, (h + k) % Size)})
  IN IF Len(found) < n THEN <<>> ELSE [k \in 1..n |-> (h + found[k]) % Size]

(* apply_ubatch, in one stream: the tokens go into the cells found; the    *)
(* positions of a sequence up to the last one overwritten are purged.      *)

Put(c, i, p, S) ==
  ForEach([s \in Seqs |-> [d \in CellStates |-> SeqAddCell(d, i, s)]], PosSet(c, i, p), S)

Place(acc, i, tok) ==
  [c  |-> Put(IF acc.c.pos[i] = -1 THEN acc.c ELSE RmCell(acc.c, i), i, tok.pos, tok.owners),
   rm |-> [s \in Seqs |-> IF s \in acc.c.seq[i] THEN Max({acc.rm[s], acc.c.pos[i]})
                          ELSE acc.rm[s]]]

(* A plausible mistake: only the cells found are freed. *)
PurgeNothing(c, s, last) == c

Purge(c, s, last) ==
  IF last # -1 /\ SeqPosMin(c, s) <= last THEN SeqRmIn(c, s, <<SeqPosMin(c, s), last + 1>>) ELSE c

Placed(c, idxs, toks) ==
  ForEach([k \in DOMAIN idxs |-> [acc \in [c : CellStates, rm : [Seqs -> Int]] |->
             Place(acc, idxs[k], toks[k])]],
          [c |-> c, rm |-> [s \in Seqs |-> -1]], DOMAIN idxs)

ApplyIn(c, idxs, toks) ==
  LET a == Placed(c, idxs, toks)
  IN [ForEach([s \in Seqs |-> [d \in CellStates |-> Purge(d, s, a.rm[s])]], a.c, Seqs)
        EXCEPT !.head = Last(idxs) + 1]

(* A ubatch is a list of rows: of tokens, each owned by a set of sequences *)
(* (split_simple, one stream), or of one token for each of the same        *)
(* sequences (split_equal). The positions of a sequence go on from its     *)
(* last one.                                                               *)

UStreams(u) == IF unified THEN {0} ELSE u[1]
Upto(b, j, k) ==
  UNION {{m} \X {n \in DOMAIN b[m] : m < j \/ n <= k} : m \in 1..j}
TokPos(b, j, k, s) ==
  SeqPosMax(v_cells[StreamOf(s)], s) + Cardinality({q \in Upto(b, j, k) : s \in b[q[1]][q[2]]})
Toks(b, j, t) ==
  [k \in DOMAIN b[j] |->
     LET owners == IF unified THEN b[j][k] ELSE {t}
     IN [pos |-> TokPos(b, j, k, CHOOSE s \in owners : TRUE), owners |-> owners]]

(* llama_batch_allocr::init: sequences that share a token are at the same  *)
(* positions, and split_equal takes only tokens of one sequence.           *)
Legal(b) ==
  \A j \in DOMAIN b : \A k \in DOMAIN b[j] :
    /\ ~unified => b[j][k] = b[j][1]
    /\ \A s \in b[j][k] : TokPos(b, j, k, s) <= MaxPos
    /\ unified => \A s, t \in b[j][k] :
         s < t => /\ TokPos(b, j, k, s) = TokPos(b, j, k, t)
                  /\ SeqPosMin(v_cells[0], s) = SeqPosMin(v_cells[0], t)

(* The cells found for a ubatch: none in a stream that is not one of its.  *)
Slots(v, b, j) ==
  [t \in Streams |-> IF t \in UStreams(b[j]) THEN FindSlot(v[t], Len(b[j])) ELSE <<>>]

ApplyUbatch(v, b, j, sinfo) ==
  [t \in Streams |-> IF sinfo[t] # <<>> THEN ApplyIn(v[t], sinfo[t], Toks(b, j, t)) ELSE v[t]]

-----------------------------------------------------------------------------
(* prepare: a trial run of all ubatches, undone from a stack of what the   *)
(* cells found held before. A head is put back from the entry of the       *)
(* ubatch's own index of the stream. What a purge removed stays removed.   *)

Sinfos == [Streams -> Seq(Cells)]
Caches == [Streams -> CellStates]
Trials == [ok : BOOLEAN, v : Caches, stack : Seq([sinfo : Sinfos, old : Caches])]

TryUbatch(a, b, j) ==
  LET sinfo == Slots(a.v, b, j) IN
  IF ~a.ok \/ \E t \in UStreams(b[j]) : sinfo[t] = <<>>
  THEN [a EXCEPT !.ok = FALSE]
  ELSE [ok |-> TRUE, v |-> ApplyUbatch(a.v, b, j, sinfo),
        stack |-> Append(a.stack, [sinfo |-> sinfo, old |-> a.v])]

Tried(v, b) ==
  ForEach([j \in DOMAIN b |-> [a \in Trials |-> TryUbatch(a, b, j)]],
          [ok |-> TRUE, v |-> v, stack |-> <<>>], DOMAIN b)

Undo(v, b, j, e) ==
  [t \in Streams |->
     LET idxs == e.sinfo[t]
         old  == e.old[t]
     IN IF idxs = <<>> THEN v[t]
        ELSE [ForEach([k \in DOMAIN idxs |-> [c \in CellStates |->
                         SetCell(c, idxs[k], old.pos[idxs[k]], old.seq[idxs[k]])]],
                      v[t], DOMAIN idxs)
              EXCEPT !.head = e.old[Cardinality({x \in UStreams(b[j]) : x < t})].head]]

Undone(a, b) ==
  LET n == Len(a.stack) IN
  ForEach([m \in 1..n |-> [v \in Caches |-> Undo(v, b, n + 1 - m, a.stack[n + 1 - m])]],
          a.v, 1..n)

Prepare(v, b) ==
  LET a == Tried(v, b)
  IN [ok |-> a.ok, sinfos |-> [j \in DOMAIN a.stack |-> a.stack[j].sinfo], v |-> Undone(a, b)]

(* The first k ubatches, applied and computed: what a token's K is rotated *)
(* for is written into its cell.                                           *)
Written(row, idxs, ps) ==
  ForEach([k \in DOMAIN idxs |-> [d \in [Cells -> Int] |-> [d EXCEPT ![idxs[k]] = ps[k]]]],
          row, DOMAIN idxs)

ComputeUbatch(e, b, j, sinfo) ==
  [v   |-> ApplyUbatch(e.v, b, j, sinfo),
   rot |-> [t \in Streams |->
              IF sinfo[t] # <<>>
              THEN Written(e.rot[t], sinfo[t], [k \in DOMAIN b[j] |-> Toks(b, j, t)[k].pos])
              ELSE e.rot[t]]]

Computed(v, data, b, sinfos, k) ==
  ForEach([j \in 1..k |-> [e \in [v : Caches, rot : [Streams -> [Cells -> Int]]] |->
             ComputeUbatch(e, b, j, sinfos[j])]],
          [v |-> v, rot |-> data], 1..k)

-----------------------------------------------------------------------------
(* llama_decode: the pending update, then the batch.                       *)

Trial(b) == Prepare(UpdatedCells, b)

Decode(b) ==
  LET p == Trial(b)
      e == Computed(p.v, UpdatedRot, b, p.sinfos, Len(b))
  IN /\ Legal(b) /\ p.ok
     /\ v_cells' = e.v
     /\ sc_info' = <<>>
     /\ rot' = Scrubbed(e.rot)
     /\ UNCHANGED <<unified, window>>

(* No cells for the whole batch: the caller is told to try a smaller one. *)
DecodeRefused(b) ==
  /\ Legal(b) /\ ~Trial(b).ok
  /\ v_cells' = Trial(b).v
  /\ sc_info' = <<>>
  /\ rot' = Scrubbed(UpdatedRot)
  /\ UNCHANGED <<unified, window>>

(* The computation of ubatch k fails: its positions are removed, from the  *)
(* first of the sequences of each token.                                   *)
OwnedFirst(row) == IF unified THEN {Min(row)} ELSE row
FirstOwners(b, k) == UNION {OwnedFirst(b[k][n]) : n \in DOMAIN b[k]}
RollbackFrom(b, k, s) ==
  Min({TokPos(b, k, n, s) : n \in {n \in DOMAIN b[k] : s \in OwnedFirst(b[k][n])}})
Rollback(v, b, k) ==
  ForEach([s \in Seqs |-> [w \in Caches |->
             [w EXCEPT ![StreamOf(s)] = SeqRmIn(@, s, <<RollbackFrom(b, k, s), MaxPos + 1>>)]]],
          v, FirstOwners(b, k))

DecodeAborted(b, k) ==
  LET p == Trial(b)
      e == Computed(p.v, UpdatedRot, b, p.sinfos, k - 1)
  IN /\ Legal(b) /\ p.ok
     /\ v_cells' = Rollback(ApplyUbatch(e.v, b, k, p.sinfos[k]), b, k)
     /\ sc_info' = <<>>
     /\ rot' = Scrubbed([t \in Streams |-> [i \in Cells |->
          IF i \in ToSet(p.sinfos[k][t]) THEN Junk ELSE e.rot[t][i]]])
     /\ UNCHANGED <<unified, window>>

-----------------------------------------------------------------------------
(* state_write and state_read: a sequence saved and restored as a sequence *)
(* (what is still in the window), and the whole of one stream. The caller  *)
(* has nothing pending: the shifts are not saved, and a copy would come    *)
(* later.                                                                  *)

Settled == sc_info = <<>> /\ \A t \in Streams : ~v_cells[t].hasShift

Saved(c, s) == Ascending({i \in OfSeq(c, s) : ~Masked(c.pos[i], SeqPosMax(c, s))})

StateCopy(s, t) ==
  LET c     == v_cells[StreamOf(s)]
      saved == Saved(c, s)
      d     == SeqRmIn(v_cells[StreamOf(t)], t, All)
      idxs  == FindSlot(d, Len(saved))
      toks  == [k \in DOMAIN saved |-> [pos |-> c.pos[saved[k]], owners |-> {t}]]
      data  == [k \in DOMAIN saved |-> rot[StreamOf(s)][saved[k]]]
  IN /\ Settled /\ saved # <<>>
     /\ UNCHANGED <<unified, window, sc_info>>
     /\ \/ /\ idxs = <<>>
           /\ v_cells' = [v_cells EXCEPT ![StreamOf(t)] = d]
           /\ rot' = Scrubbed(rot)
        \/ /\ idxs # <<>>
           /\ v_cells' = [v_cells EXCEPT ![StreamOf(t)] = ApplyIn(d, idxs, toks)]
           /\ rot' = Scrubbed([rot EXCEPT ![StreamOf(t)] = Written(@, idxs, data)])

Restored(c, kept) ==
  ForEach([k \in DOMAIN kept |-> [d \in CellStates |-> Put(d, k - 1, c.pos[kept[k]], c.seq[kept[k]])]],
          Reset, DOMAIN kept)

StateRestore ==
  LET kept == Ascending(v_cells[0].used) IN
  /\ unified /\ Settled /\ kept # <<>>
  /\ UNCHANGED <<unified, window, sc_info>>
  /\ v_cells' = [v_cells EXCEPT ![0] = Restored(@, kept)]
  /\ rot' = Scrubbed([rot EXCEPT ![0] = [i \in Cells |->
               IF i + 1 \in DOMAIN kept THEN @[kept[i + 1]] ELSE Junk]])

-----------------------------------------------------------------------------

Single(b) == unified => \A j \in DOMAIN b : \A k \in DOMAIN b[j] : Cardinality(b[j][k]) = 1

Next ==
  \/ \E s \in Seqs :
        \/ SeqKeep(s)
        \/ \E r \in Ranges : SeqRm(s, r) \/ \E d \in Shifts : SeqAdd(s, r, d)
        \/ \E t \in Seqs : SeqCpStream(s, t) \/ StateCopy(s, t) \/ \E r \in Ranges : SeqCp(s, t, r)
  \/ \E r \in Ranges : SeqRmAny(r)
  \/ \E b \in Batches :
        Decode(b) \/ DecodeRefused(b) \/ \E k \in DOMAIN b : Single(b) /\ DecodeAborted(b, k)
  \/ StateRestore
  \/ Clear

Spec == Init /\ [][Next]_vars

-----------------------------------------------------------------------------

TypeOK ==
  /\ unified \in BOOLEAN /\ window \in Windows
  /\ v_cells \in [Streams -> CellStates]
  /\ \A t \in Streams : /\ v_cells[t].pos \in [Cells -> Pos \cup {-1}]
                        /\ v_cells[t].seqPos \in [Seqs -> [Pos -> 0..Size]]
  /\ rot \in [Streams -> [Cells -> Pos \cup {Junk}]]

(* What llama_kv_cells keeps beside the cells agrees with them, whatever   *)
(* the order of the calls and whether or not they failed half-way: the     *)
(* used cells are those with a position, a cell in use has a sequence, the *)
(* count of a position of a sequence is the number of its cells there, and *)
(* no cell owes a shift unless has_shift says so.                          *)
IndexesAgree ==
  /\ TypeOK
  /\ \A t \in Streams : LET c == v_cells[t] IN
       /\ c.used = {i \in Cells : c.pos[i] # -1}
       /\ \A i \in Cells : (c.pos[i] = -1) = (c.seq[i] = {})
       /\ \A s \in Seqs, p \in Pos :
            c.seqPos[s][p] = Cardinality({i \in OfSeq(c, s) : c.pos[i] = p})
       /\ \A i \in Cells : c.shift[i] # 0 => c.hasShift /\ c.pos[i] # -1

(* The shift a cell owes is what brings its K, once the pending stream     *)
(* copies are done, to the cell's position: so the update before the next  *)
(* decode leaves every K rotated for the position the cell says, whatever  *)
(* was shifted, copied, removed, restored or aborted in between. Next      *)
(* leaves out two calls after which this fails: seq_div (KVCache_Div.cfg), *)
(* and the abort of a batch with a token of several sequences, whose cell  *)
(* the roll-back of one of them keeps without its K (Single).              *)
ShiftIsOwed ==
  \A t \in Streams : \A i \in v_cells[t].used :
    Copied(rot)[t][i] = v_cells[t].pos[i] - v_cells[t].shift[i]

LastPos(cs, s) == SeqPosMax(cs[StreamOf(s)], s)
PosOf(cs, s) == Positions(cs[StreamOf(s)], s)
(* Where a sequence goes on: it may have no cell left, if its window is 1. *)
NextPos(s) == Max({LastPos(v_cells, s), LastPos(v_cells', s)}) + 1
Lost(s) == {p \in PosOf(v_cells, s) \ PosOf(v_cells', s) : ~Masked(p, NextPos(s))}
DecodeStep ==
  (\E s \in Seqs : LastPos(v_cells', s) > LastPos(v_cells, s)) /\ \E b \in Batches : Decode(b)
RefusedStep ==
  (\A s \in Seqs : LastPos(v_cells', s) = LastPos(v_cells, s)) /\ \E b \in Batches : DecodeRefused(b)

(* Cells masked by the window are reused, and what lies below them is      *)
(* purged, in the trial run too: a decode that succeeds never takes from a *)
(* sequence a position its next token would still attend to.               *)
WindowKept == [][(\E s \in Seqs : Lost(s) # {}) => ~DecodeStep]_vars

(* A batch refused for want of cells leaves "the cells to their original   *)
(* state" (llama-kv-cache.cpp:853): at the least, every sequence keeps the *)
(* positions its next token attends to.                                    *)
RefusalKeepsWindow == [][(\E s \in Seqs : Lost(s) # {}) => ~RefusedStep]_vars

(* All positions between pos_min and pos_max of a sequence stay present    *)
(* (llama-kv-cache.cpp:1249): a decode that succeeds makes no gap.         *)
Whole(P) == \A p, q \in P : p..q \subseteq P
NoNewGaps ==
  [][(\E s \in Seqs : Whole(PosOf(v_cells, s)) /\ ~Whole(PosOf(v_cells', s))) => ~DecodeStep]_vars
=============================================================================
