----------------------------- MODULE MCKVCache -----------------------------
(* Instances of KVCache for TLC. *)
EXTENDS KVCache

MCWindows == {0, 2}
MCRanges == {<<0, 1>>, <<1, MaxPos + 1>>}
MCShifts == {-1}
MCBatches == {<< <<{0}>> >>, << <<{1}, {1}>> >>, << <<{0, 1}>> >>, << <<{0}>>, <<{1}>> >>}

(* Streams of their own are checked with the window only. *)
MCInit == Init /\ (unified \/ window # 0)

(* Bounds on the copies and the shifts that wait for an update. *)
Waiting ==
  /\ Len(sc_info) <= 1
  /\ \A t \in Streams : \A i \in Cells : v_cells[t].shift[i] >= -1

MCSpec == MCInit /\ [][Next /\ Waiting']_vars

(* A caller that also divides positions (seq_div). *)
MCSpecDiv == MCInit /\ [][(Next \/ \E s \in Seqs, r \in Ranges : SeqDiv(s, r)) /\ Waiting']_vars

(* One stream, and callers that decode one token at a time, a batch of    *)
(* ubatches of two tokens, or remove a sequence.                          *)
MCLongWindows == {3}
MCLongBatches == {<< <<{0}>> >>, << <<{1}>> >>,
                  << <<{0}, {0}>>, <<{0}, {1}>>, <<{1}, {1}>>, <<{1}, {1}>> >>}
MCFullRange == {<<0, MaxPos + 1>>}
MCInitLong == Init /\ unified
MCNextLong == \/ \E s \in Seqs, r \in Ranges : SeqRm(s, r)
              \/ \E b \in Batches : Decode(b) \/ DecodeRefused(b)
MCSpecLong == MCInitLong /\ [][MCNextLong]_vars
=============================================================================
