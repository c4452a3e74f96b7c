------------------------- MODULE StreamSessionProofs -------------------------
(***************************************************************************)
(* Proofs about the resumable streams: for any requests, conversations,    *)
(* readers and stoppers, any capacity and any lengths of chunks.           *)
(*                                                                         *)
(* The strengthening relates the map to those who took a session out of    *)
(* it. Only they finalize a session besides its own producer, so a session *)
(* in the map is not done while its producer works, and what is not done   *)
(* has accepted all that was produced (WindowInv). A session is held or in *)
(* the map, never both (MapInv), and a request that has not begun has no   *)
(* session that anybody could hold.                                        *)
(***************************************************************************)
EXTENDS StreamSession, SequenceTheorems, TLAPS

Writing == {"write", "dwrite"}

(* The buffer and the chunk in hand are consecutive pieces of the output.  *)
WindowOf(r) ==
  /\ Len(buffer[r]) <= Cap
  /\ buffer[r] = Bytes(dropped[r], Len(buffer[r]))
  /\ chunk[r].data = Bytes(made[r] - Len(chunk[r].data), Len(chunk[r].data))
  /\ LogicalEnd(r) + Len(chunk[r].data) <= made[r]
  /\ ~done[r] => LogicalEnd(r) + Len(chunk[r].data) = made[r]
  /\ req[r] \notin Writing => chunk[r].data = <<>>
WindowInv == \A r \in Requests : WindowOf(r)

(* Who has a session: the map under its conversation, or those about to    *)
(* finalize it.                                                            *)
MapInv ==
  /\ \A c \in Convs, s \in Requests :
       sessions[c] = s => ConvOf[s] = c /\ req[s] # "new" /\ ~Retiring(s)
  /\ \A r \in Requests : req[r] = "new" => ~done[r] /\ ~Retiring(r)
  /\ \A r \in Requests : held[r] # None => req[r] \in {"cancel", "finalize", "evicting"}
  /\ \A s \in Stoppers : held[s] # None => stopper[s] \in {"cancel", "finalize"}
  /\ gc.running => gc.snapshot = {}

(* A done session that a client can find is complete.                      *)
Complete(r) == req[r] = "gone" /\ LogicalEnd(r) + Len(chunk[r].data) = made[r]
DoneInMap == \A c \in Convs, s \in Requests : sessions[c] = s /\ done[s] => Complete(s)

(* What a replay has received ends where it reads on.                      *)
ReplayOf(rd) ==
  /\ rd.got = Bytes(rd.from, Len(rd.got))
  /\ rd.offset = rd.from + Len(rd.got)
  /\ rd.pc # "idle" => rd.sess \in Requests
  /\ rd.pc = "ended" => done[rd.sess] /\ rd.offset >= LogicalEnd(rd.sess)
ReplayInv == \A d \in Readers : ReplayOf(reader[d])

IInv == TypeOK /\ WindowInv /\ MapInv /\ DoneInMap /\ LiveIsFound /\ ReplayInv

-----------------------------------------------------------------------------
(* Consecutive bytes.                                                      *)

(* What a piece is made of. *)
LEMMA BytesFacts ==
  ASSUME NEW a \in Nat, NEW n \in Nat
  PROVE  /\ Bytes(a, n) \in Seq(Nat) /\ Len(Bytes(a, n)) = n
         /\ \A i \in 1..n : Bytes(a, n)[i] = a + i - 1
<1>1. \A i \in 1..n : a + i - 1 \in Nat
  OBVIOUS
<1>2. Bytes(a, n) \in [1..n -> Nat]
  BY <1>1 DEF Bytes
<1>3. Bytes(a, n) \in Seq(Nat) /\ Len(Bytes(a, n)) = n
  BY <1>2
<1>. QED BY <1>3 DEF Bytes

(* An empty piece. *)
LEMMA BytesEmpty == \A a \in Nat : Bytes(a, 0) = <<>>
<1>1. ASSUME NEW a \in Nat PROVE Bytes(a, 0) = <<>>
  <2>1. Bytes(a, 0) \in Seq(Nat) /\ Len(Bytes(a, 0)) = 0
    BY BytesFacts
  <2>. QED BY <2>1, EmptySeq
<1>. QED BY <1>1

(* The last bytes of a piece are a piece. *)
LEMMA BytesTail ==
  ASSUME NEW a \in Nat, NEW n \in Nat, NEW k \in 0..n
  PROVE  SubSeq(Bytes(a, n), k + 1, n) = Bytes(a + k, n - k)
<1>. DEFINE b == Bytes(a, n)
           c == SubSeq(b, k + 1, n)
<1>1. b \in Seq(Nat) /\ Len(b) = n /\ \A i \in 1..n : b[i] = a + i - 1
  BY BytesFacts
<1>2. k + 1 \in Int /\ n \in Int /\ \A i \in (k + 1)..n : b[i] \in Nat
  <2>1. \A i \in (k + 1)..n : i \in 1..n /\ a + i - 1 \in Nat
    OBVIOUS
  <2>. HIDE DEF b
  <2>. QED BY <1>1, <2>1
<1>. HIDE DEF b
<1>3. /\ c \in Seq(Nat) /\ Len(c) = IF k + 1 <= n THEN n - (k + 1) + 1 ELSE 0
      /\ \A i \in 1..(n - (k + 1) + 1) : c[i] = b[k + 1 + i - 1]
  BY ONLY <1>2, SubSeqProperties
<1>. HIDE DEF c
<1>4. Len(c) = n - k /\ \A i \in 1..(n - k) : c[i] = b[k + i]
  BY <1>3
<1>5. \A i \in 1..(n - k) : c[i] = a + k + i - 1
  BY <1>1, <1>4
<1>6. a + k \in Nat /\ n - k \in Nat
  OBVIOUS
<1>7. /\ Bytes(a + k, n - k) \in Seq(Nat) /\ Len(Bytes(a + k, n - k)) = n - k
      /\ \A i \in 1..(n - k) : Bytes(a + k, n - k)[i] = a + k + i - 1
  BY <1>6, BytesFacts
<1>8. c = Bytes(a + k, n - k)
  BY <1>3, <1>4, <1>5, <1>7, SeqEqual
<1>. QED BY <1>8 DEF c, b

(* A piece and the one that follows it are one piece. *)
LEMMA BytesConcat ==
  ASSUME NEW a \in Nat, NEW m \in Nat, NEW n \in Nat
  PROVE  Bytes(a, m) \o Bytes(a + m, n) = Bytes(a, m + n)
<1>. DEFINE b == Bytes(a, m)
           c == Bytes(a + m, n)
           d == Bytes(a, m + n)
<1>1. b \in Seq(Nat) /\ Len(b) = m /\ \A i \in 1..m : b[i] = a + i - 1
  BY BytesFacts
<1>2. c \in Seq(Nat) /\ Len(c) = n /\ \A i \in 1..n : c[i] = a + m + i - 1
  <2>1. a + m \in Nat
    OBVIOUS
  <2>. QED BY <2>1, BytesFacts
<1>3. d \in Seq(Nat) /\ Len(d) = m + n /\ \A i \in 1..(m + n) : d[i] = a + i - 1
  <2>1. m + n \in Nat
    OBVIOUS
  <2>. QED BY <2>1, BytesFacts
<1>. HIDE DEF b, c, d
<1>4. /\ b \o c \in Seq(Nat) /\ Len(b \o c) = m + n
      /\ \A i \in 1..(m + n) : (b \o c)[i] = IF i <= m THEN b[i] ELSE c[i - m]
  BY <1>1, <1>2, ConcatProperties, ZenonT(60)
<1>5. \A i \in 1..(m + n) : (b \o c)[i] = d[i]
  <2>1. ASSUME NEW i \in 1..(m + n) PROVE (b \o c)[i] = d[i]
    <3>1. CASE i <= m
      BY <1>1, <1>3, <1>4, <3>1
    <3>2. CASE ~(i <= m)
      <4>1. i - m \in 1..n
        BY <3>2
      <4>2. c[i - m] = a + m + (i - m) - 1
        BY <1>2, <4>1
      <4>3. (b \o c)[i] = c[i - m]
        BY <1>4, <3>2
      <4>4. d[i] = a + i - 1
        BY <1>3
      <4>. QED BY <4>2, <4>3, <4>4
    <3>. QED BY <3>1, <3>2
  <2>. QED BY <2>1
<1>6. b \o c = d
  BY <1>3, <1>4, <1>5, SeqEqual
<1>. QED BY <1>6 DEF b, c, d

(* A buffer without its first k bytes, and what follows it. *)
LEMMA BytesShifted ==
  ASSUME NEW p \in Nat, NEW m \in Nat, NEW n \in Nat, NEW k \in 0..m
  PROVE  SubSeq(Bytes(p, m), k + 1, m) \o Bytes(p + m, n) = Bytes(p + k, (m - k) + n)
<1>1. SubSeq(Bytes(p, m), k + 1, m) = Bytes(p + k, m - k)
  BY BytesTail
<1>2. p + k \in Nat /\ m - k \in Nat
  OBVIOUS
<1>3. Bytes(p + k, m - k) \o Bytes((p + k) + (m - k), n) = Bytes(p + k, (m - k) + n)
  BY <1>2, BytesConcat
<1>4. (p + k) + (m - k) = p + m
  OBVIOUS
<1>. QED BY <1>1, <1>3, <1>4

(* What the numbers of AppendBytes come to, for a chunk of cap_bytes or   *)
(* more, one that pushes bytes out, and one that fits.                     *)
LEMMA LongChunk ==
  ASSUME NEW p \in Nat, NEW m \in Nat, NEW n \in Nat, NEW total \in Nat, NEW cap \in Nat,
         p + m + n = total, n >= cap
  PROVE  /\ total - n \in Nat /\ n - cap \in 0..n /\ n - (n - cap) = cap
         /\ (total - n) + (n - cap) = total - cap /\ p + m + (n - cap) = total - cap
         /\ total - cap \in Nat /\ (total - cap) + cap = total
OBVIOUS

LEMMA ShortChunk ==
  ASSUME NEW p \in Nat, NEW m \in Nat, NEW n \in Nat, NEW total \in Nat, NEW cap \in Nat,
         m <= cap, p + m + n = total, ~(n >= cap), m + n - cap > 0
  PROVE  /\ m + n - cap \in 0..m /\ p + (m + n - cap) = total - cap /\ total - cap \in Nat
         /\ (m - (m + n - cap)) + n = cap /\ (total - cap) + cap = total /\ total - n = p + m
OBVIOUS

LEMMA FittingChunk ==
  ASSUME NEW p \in Nat, NEW m \in Nat, NEW n \in Nat, NEW total \in Nat, NEW cap \in Nat,
         p + m + n = total, ~(m + n - cap > 0)
  PROVE  m + n \in Nat /\ m + n <= cap /\ p + (m + n) = total /\ total - n = p + m
OBVIOUS

(* A chunk goes to the end of the buffer; what is too much drops out in front. *)
LEMMA Appended ==
  ASSUME TypeOK, WindowInv, NEW r \in Requests, AppendBytes(r, chunk[r].data)
  PROVE  \E w \in Seq(Nat), e \in Nat :
           /\ buffer' = [buffer EXCEPT ![r] = w] /\ dropped' = [dropped EXCEPT ![r] = e]
           /\ w = Bytes(e, Len(w)) /\ Len(w) <= Cap /\ e + Len(w) <= made[r]
           /\ ~done[r] => e + Len(w) = made[r]
           /\ done[r] => w = buffer[r] /\ e = dropped[r]
<1>1. PICK b \in Seq(Nat), p \in Nat, x \in Seq(Nat), total \in Nat, m \in Nat, n \in Nat :
        /\ b = buffer[r] /\ p = dropped[r] /\ x = chunk[r].data /\ total = made[r]
        /\ m = Len(b) /\ n = Len(x)
  BY BytesAssumption DEF TypeOK
<1>2. b = Bytes(p, m) /\ x = Bytes(total - n, n)
  BY <1>1 DEF WindowInv, WindowOf
<1>a. /\ Cap \in Nat /\ m <= Cap /\ p + m + n <= total
      /\ ~done[r] => p + m + n = total
  BY <1>1, CapAssumption DEF WindowInv, WindowOf, LogicalEnd
<1>3. buffer \in [Requests -> Seq(Nat)] /\ dropped \in [Requests -> Nat]
  BY DEF TypeOK
<1>. SUFFICES \E w \in Seq(Nat), e \in Nat :
           /\ buffer' = [buffer EXCEPT ![r] = w] /\ dropped' = [dropped EXCEPT ![r] = e]
           /\ w = Bytes(e, Len(w)) /\ Len(w) <= Cap /\ e + Len(w) <= total
           /\ ~done[r] => e + Len(w) = total
           /\ done[r] => w = b /\ e = p
  BY <1>1
<1>4. CASE x = <<>> \/ done[r]
  <2>1. buffer' = [buffer EXCEPT ![r] = b] /\ dropped' = [dropped EXCEPT ![r] = p]
    BY <1>1, <1>3, <1>4 DEF AppendBytes
  <2>2. p + m <= total /\ (~done[r] => p + m = total)
    <3>1. x = <<>> => n = 0
      BY <1>1
    <3>. QED BY <1>a, <1>4, <3>1
  <2>. QED BY <1>1, <1>2, <1>a, <2>1, <2>2
<1>5. CASE x # <<>> /\ ~done[r] /\ n >= Cap
  <2>1. /\ buffer' = [buffer EXCEPT ![r] = SubSeq(x, (n - Cap) + 1, n)]
        /\ dropped' = [dropped EXCEPT ![r] = p + m + (n - Cap)]
    BY <1>1, <1>3, <1>a, <1>5 DEF AppendBytes
  <2>2. /\ total - n \in Nat /\ n - Cap \in 0..n /\ n - (n - Cap) = Cap
        /\ (total - n) + (n - Cap) = total - Cap /\ p + m + (n - Cap) = total - Cap
        /\ total - Cap \in Nat /\ (total - Cap) + Cap = total
    <3>1. p + m + n = total
      BY <1>a, <1>5, Zenon
    <3>2. n >= Cap /\ Cap \in Nat
      BY <1>a, <1>5, Zenon
    <3>. QED BY <3>1, <3>2, LongChunk
  <2>3. SubSeq(Bytes(total - n, n), (n - Cap) + 1, n)
          = Bytes((total - n) + (n - Cap), n - (n - Cap))
    BY <2>2, BytesTail, ZenonT(60)
  <2>4. SubSeq(x, (n - Cap) + 1, n) = Bytes(total - Cap, Cap)
    BY <1>2, <2>2, <2>3
  <2>5. Bytes(total - Cap, Cap) \in Seq(Nat) /\ Len(Bytes(total - Cap, Cap)) = Cap
    BY <1>a, <2>2, BytesFacts
  <2>6. /\ buffer' = [buffer EXCEPT ![r] = Bytes(total - Cap, Cap)]
        /\ dropped' = [dropped EXCEPT ![r] = total - Cap]
    BY <2>1, <2>2, <2>4
  <2>7. Cap <= Cap /\ total <= total
    BY <1>a
  <2>. QED BY <1>5, <2>2, <2>5, <2>6, <2>7
<1>6. CASE x # <<>> /\ ~done[r] /\ ~(n >= Cap) /\ m + n - Cap > 0
  <2>1. /\ buffer' = [buffer EXCEPT ![r] = SubSeq(b, (m + n - Cap) + 1, m) \o x]
        /\ dropped' = [dropped EXCEPT ![r] = p + (m + n - Cap)]
    BY <1>1, <1>3, <1>a, <1>6 DEF AppendBytes
  <2>2. /\ p + m + n = total /\ Cap \in Nat /\ m <= Cap /\ ~(n >= Cap) /\ m + n - Cap > 0
    BY <1>a, <1>6, Zenon
  <2>3. /\ m + n - Cap \in 0..m /\ p + (m + n - Cap) = total - Cap /\ total - Cap \in Nat
        /\ (m - (m + n - Cap)) + n = Cap /\ (total - Cap) + Cap = total /\ total - n = p + m
    BY <2>2, ShortChunk
  <2>4. SubSeq(Bytes(p, m), (m + n - Cap) + 1, m) \o Bytes(p + m, n)
          = Bytes(p + (m + n - Cap), (m - (m + n - Cap)) + n)
    BY <2>3, BytesShifted, ZenonT(60)
  <2>5. SubSeq(b, (m + n - Cap) + 1, m) \o x = Bytes(total - Cap, Cap)
    BY <1>2, <2>3, <2>4, Zenon
  <2>6. Bytes(total - Cap, Cap) \in Seq(Nat) /\ Len(Bytes(total - Cap, Cap)) = Cap
    BY <1>a, <2>3, BytesFacts
  <2>7. /\ buffer' = [buffer EXCEPT ![r] = Bytes(total - Cap, Cap)]
        /\ dropped' = [dropped EXCEPT ![r] = total - Cap]
    BY <2>1, <2>3, <2>5, Zenon
  <2>8. Cap <= Cap /\ total <= total
    BY <1>a
  <2>. QED BY <1>6, <2>3, <2>6, <2>7, <2>8
<1>7. CASE x # <<>> /\ ~done[r] /\ ~(n >= Cap) /\ ~(m + n - Cap > 0)
  <2>1. /\ buffer' = [buffer EXCEPT ![r] = SubSeq(b, 1, m) \o x]
        /\ dropped' = [dropped EXCEPT ![r] = p]
    <3>1. /\ buffer' = [buffer EXCEPT ![r] = SubSeq(b, 0 + 1, m) \o x]
          /\ dropped' = [dropped EXCEPT ![r] = p + 0]
      BY <1>1, <1>3, <1>a, <1>7 DEF AppendBytes
    <3>2. 0 + 1 = 1 /\ p + 0 = p
      OBVIOUS
    <3>. QED BY <3>1, <3>2, Zenon
  <2>2. /\ p + m + n = total /\ Cap \in Nat /\ ~(m + n - Cap > 0)
    BY <1>a, <1>7, Zenon
  <2>3. m + n \in Nat /\ m + n <= Cap /\ p + (m + n) = total /\ total - n = p + m
    BY <2>2, FittingChunk
  <2>4. SubSeq(b, 1, m) = b
    BY <1>1, SubSeqFull
  <2>5. Bytes(p, m) \o Bytes(p + m, n) = Bytes(p, m + n)
    BY BytesConcat
  <2>6. SubSeq(b, 1, m) \o x = Bytes(p, m + n)
    BY <1>2, <2>3, <2>4, <2>5, Zenon
  <2>7. Bytes(p, m + n) \in Seq(Nat) /\ Len(Bytes(p, m + n)) = m + n
    BY <2>3, BytesFacts
  <2>8. buffer' = [buffer EXCEPT ![r] = Bytes(p, m + n)]
    BY <2>1, <2>6, Zenon
  <2>9. total <= total
    OBVIOUS
  <2>. QED BY <1>7, <2>1, <2>3, <2>7, <2>8, <2>9
<1>. QED BY <1>4, <1>5, <1>6, <1>7

-----------------------------------------------------------------------------
(* The steps of the write.                                                 *)

(* The chunk in hand is written. *)
LEMMA WriteStep ==
  ASSUME IInv, NEW r \in Requests, Write(r)
  PROVE  IInv'
<1>1. TypeOK /\ WindowInv /\ AppendBytes(r, chunk[r].data) /\ req[r] \in Writing
  BY DEF IInv, Write, Writing
<1>2. PICK w \in Seq(Nat), e \in Nat :
        /\ buffer' = [buffer EXCEPT ![r] = w] /\ dropped' = [dropped EXCEPT ![r] = e]
        /\ w = Bytes(e, Len(w)) /\ Len(w) <= Cap /\ e + Len(w) <= made[r]
        /\ ~done[r] => e + Len(w) = made[r]
        /\ done[r] => w = buffer[r] /\ e = dropped[r]
  BY <1>1, Appended
<1>3. /\ chunk' = [chunk EXCEPT ![r] = NoChunk]
      /\ UNCHANGED <<sessions, done, cancelled, made, held, reader, stopper, gc>>
      /\ \E x \in {"exit", "stream", "drain"} : req' = [req EXCEPT ![r] = x]
  <2>1. PICK x : /\ req' = [req EXCEPT ![r] = x]
                 /\ x = CASE ~chunk[r].more -> "exit"
                          [] req[r] = "write" -> "stream"
                          [] OTHER -> "drain"
    BY DEF Write
  <2>2. x \in {"exit", "stream", "drain"}
    BY <2>1
  <2>. QED BY <2>1, <2>2 DEF Write
<1>4. NoChunk \in [data : Seq(Nat), more : BOOLEAN] /\ NoChunk.data = <<>> /\ Len(<<>>) = 0
  BY DEF NoChunk
<1>5. TypeOK'
  BY <1>1, <1>2, <1>3, <1>4 DEF TypeOK, Points
<1>6. WindowInv'
  <2>1. ASSUME NEW q \in Requests, q # r PROVE WindowOf(q)'
    <3>1. /\ buffer'[q] = buffer[q] /\ dropped'[q] = dropped[q] /\ chunk'[q] = chunk[q]
          /\ made'[q] = made[q] /\ done'[q] = done[q] /\ req'[q] = req[q]
      BY <1>1, <1>2, <1>3, <2>1 DEF TypeOK
    <3>. QED BY <1>1, <3>1 DEF WindowInv, WindowOf, LogicalEnd
  <2>2. WindowOf(r)'
    <3>1. /\ buffer'[r] = w /\ dropped'[r] = e /\ chunk'[r].data = <<>>
          /\ made'[r] = made[r] /\ done'[r] = done[r] /\ made[r] \in Nat
      BY <1>1, <1>2, <1>3, <1>4, BytesAssumption DEF TypeOK
    <3>2. <<>> = Bytes(made[r] - 0, 0)
      BY <3>1, BytesEmpty
    <3>3. e + Len(w) + 0 = e + Len(w)
      BY <1>2
    <3>. QED BY <1>2, <1>4, <3>1, <3>2, <3>3 DEF WindowOf, LogicalEnd
  <2>. QED BY <2>1, <2>2 DEF WindowInv
<1>7. MapInv' /\ DoneInMap' /\ LiveIsFound'
  <2>1. /\ \A q \in Requests : /\ req'[q] = "new" <=> req[q] = "new"
                               /\ req[q] = "gone" => req'[q] = "gone"
                               /\ req[q] \in {"cancel", "finalize", "evicting"} => req'[q] = req[q]
    BY <1>1, <1>3 DEF TypeOK, Writing
  <2>2. ASSUME NEW c \in Convs, NEW q \in Requests, sessions[c] = q, done[q] PROVE Complete(q)'
    <3>1. Complete(q)
      BY <2>2 DEF IInv, DoneInMap
    <3>2. q # r
      BY <1>1, <3>1 DEF Complete, Writing
    <3>3. /\ buffer'[q] = buffer[q] /\ made' = made
          /\ dropped'[q] = dropped[q] /\ chunk'[q] = chunk[q]
      BY <1>1, <1>2, <1>3, <3>2 DEF TypeOK
    <3>. QED BY <2>1, <3>1, <3>3 DEF Complete, LogicalEnd
  <2>3. DoneInMap'
    BY <1>3, <2>2 DEF DoneInMap
  <2>. QED BY <1>3, <2>1, <2>3 DEF IInv, TypeOK, MapInv, LiveIsFound, Retiring
<1>8. ReplayInv'
  <2>1. ASSUME NEW d \in Readers PROVE ReplayOf(reader[d])'
    <3>1. \A q \in Requests : done[q] => LogicalEnd(q)' = LogicalEnd(q)
      BY <1>1, <1>2 DEF LogicalEnd, TypeOK
    <3>2. reader' = reader /\ done' = done /\ ReplayOf(reader[d])
      BY <1>3 DEF IInv, ReplayInv
    <3>. QED BY <3>1, <3>2 DEF ReplayOf
  <2>. QED BY <2>1 DEF ReplayInv
<1>. QED BY <1>5, <1>6, <1>7, <1>8 DEF IInv

(* The next chunk follows what the generation produced. *)
LEMMA NextOrigStep ==
  ASSUME IInv, NEW r \in Requests, NextChunk(r) \/ Drain(r)
  PROVE  IInv'
<1>1. PICK at \in Writing : NextOrig(r, at)
  BY DEF NextChunk, Drain, Writing
<1>2. /\ TypeOK /\ WindowOf(r) /\ req[r] \in {"stream", "drain"}
      /\ UNCHANGED <<sessions, session, held, reader, stopper, gc>>
  BY DEF IInv, WindowInv, NextChunk, Drain
<1>3. made[r] \in Nat /\ MaxBytes \in Nat /\ chunk[r].data = <<>> /\ Len(<<>>) = 0
  BY <1>2, BytesAssumption DEF TypeOK, WindowOf, Writing
<1>4. PICK n \in Nat, more \in BOOLEAN :
        /\ made[r] + n <= MaxBytes
        /\ chunk' = [chunk EXCEPT ![r] = [data |-> Bytes(made[r], n), more |-> more]]
        /\ made' = [made EXCEPT ![r] = made[r] + n]
        /\ req' = [req EXCEPT ![r] = at]
  <2>1. CASE cancelled[r]
    <3>1. /\ chunk' = [chunk EXCEPT ![r] = [data |-> <<>>, more |-> FALSE]]
          /\ req' = [req EXCEPT ![r] = at] /\ made' = made
      BY <1>1, <2>1 DEF NextOrig
    <3>2. <<>> = Bytes(made[r], 0) /\ made = [made EXCEPT ![r] = made[r] + 0]
          /\ made[r] + 0 <= MaxBytes
      BY <1>2, <1>3, BytesEmpty DEF TypeOK
    <3>. QED BY <3>1, <3>2
  <2>2. CASE ~cancelled[r]
    <3>1. PICK n \in Sizes \cup {0}, more \in BOOLEAN :
            /\ made[r] + n <= MaxBytes
            /\ chunk' = [chunk EXCEPT ![r] =
                           [data |-> [i \in 1..n |-> made[r] + i - 1], more |-> more]]
            /\ made' = [made EXCEPT ![r] = @ + n]
            /\ req' = [req EXCEPT ![r] = at]
      BY <1>1, <2>2 DEF NextOrig
    <3>2. n \in Nat
      BY BytesAssumption
    <3>. QED BY <1>2, <3>1, <3>2 DEF Bytes, TypeOK
  <2>. QED BY <2>1, <2>2
<1>5. Bytes(made[r], n) \in Seq(Nat) /\ Len(Bytes(made[r], n)) = n
  BY <1>3, BytesFacts
<1>6. TypeOK'
  <2>1. made[r] + n \in 0..MaxBytes
    BY <1>3, <1>4
  <2>. QED BY <1>2, <1>4, <1>5, <2>1 DEF TypeOK, Points, Writing, session
<1>7. WindowInv'
  <2>1. ASSUME NEW q \in Requests, q # r PROVE WindowOf(q)'
    <3>1. /\ buffer'[q] = buffer[q] /\ dropped'[q] = dropped[q] /\ chunk'[q] = chunk[q]
          /\ made'[q] = made[q] /\ done'[q] = done[q] /\ req'[q] = req[q]
      BY <1>2, <1>4, <2>1 DEF TypeOK, session
    <3>. QED BY <3>1 DEF IInv, WindowInv, WindowOf, LogicalEnd
  <2>2. WindowOf(r)'
    <3>1. /\ buffer'[r] = buffer[r] /\ dropped'[r] = dropped[r] /\ done'[r] = done[r]
          /\ chunk'[r].data = Bytes(made[r], n) /\ made'[r] = made[r] + n /\ req'[r] \in Writing
      BY <1>2, <1>4 DEF TypeOK, session
    <3>2. buffer[r] \in Seq(Nat) /\ dropped[r] \in Nat /\ Len(buffer[r]) \in Nat
      BY <1>2 DEF TypeOK
    <3>3. made[r] + n - n = made[r] /\ dropped[r] + Len(buffer[r]) <= made[r]
          /\ (~done[r] => dropped[r] + Len(buffer[r]) = made[r])
      BY <1>2, <1>3, <3>2 DEF WindowOf, LogicalEnd
    <3>4. dropped[r] + Len(buffer[r]) + n <= made[r] + n
          /\ (~done[r] => dropped[r] + Len(buffer[r]) + n = made[r] + n)
      BY <1>3, <3>2, <3>3
    <3>5. Len(buffer[r]) <= Cap /\ buffer[r] = Bytes(dropped[r], Len(buffer[r]))
      BY <1>2 DEF WindowOf
    <3>6. Len(chunk'[r].data) = n /\ chunk'[r].data = Bytes(made'[r] - n, n)
      <4>1. Len(chunk'[r].data) = n
        BY <1>5, <3>1, Zenon
      <4>2. made'[r] - n = made[r]
        BY <1>3, <3>1
      <4>. QED BY <3>1, <4>1, <4>2, Zenon
    <3>. QED BY <3>1, <3>4, <3>5, <3>6 DEF WindowOf, LogicalEnd
  <2>. QED BY <2>1, <2>2 DEF WindowInv
<1>8. MapInv' /\ DoneInMap' /\ LiveIsFound'
  <2>1. /\ \A q \in Requests : /\ req'[q] = "new" <=> req[q] = "new"
                               /\ req[q] = "gone" => req'[q] = "gone"
                               /\ req[q] \in {"cancel", "finalize", "evicting"} => req'[q] = req[q]
    BY <1>2, <1>4 DEF TypeOK, Writing
  <2>2. UNCHANGED <<sessions, done, held, stopper, gc>>
    BY <1>2 DEF session
  <2>3. MapInv'
    <3>1. /\ \A q \in Requests : Retiring(q)' <=> Retiring(q)
          /\ sessions \in [Convs -> Requests \cup {None}] /\ MapInv
      BY <2>2 DEF Retiring, IInv, TypeOK
    <3>. QED BY <2>1, <2>2, <3>1 DEF MapInv
  <2>4. DoneInMap'
    <3>1. ASSUME NEW c \in Convs, NEW q \in Requests, sessions[c] = q, done[q]
          PROVE  Complete(q)'
      <4>1. Complete(q)
        BY <3>1 DEF IInv, DoneInMap
      <4>2. q # r
        BY <1>2, <4>1 DEF Complete
      <4>3. made'[q] = made[q] /\ chunk'[q] = chunk[q]
        BY <1>2, <1>4, <4>2 DEF TypeOK
      <4>. QED BY <1>2, <2>1, <4>1, <4>3 DEF Complete, LogicalEnd, session
    <3>. QED BY <2>2, <3>1 DEF DoneInMap
  <2>5. LiveIsFound'
    BY <2>1, <2>2 DEF IInv, TypeOK, LiveIsFound, Retiring
  <2>. QED BY <2>3, <2>4, <2>5
<1>9. ReplayInv'
  BY <1>2 DEF IInv, ReplayInv, ReplayOf, LogicalEnd, session
<1>. QED BY <1>6, <1>7, <1>8, <1>9 DEF IInv

-----------------------------------------------------------------------------
(* What steps that leave the sessions' bytes alone leave true.             *)
LEMMA BytesKept ==
  ASSUME IInv, UNCHANGED <<buffer, dropped, made, chunk>>,
         \A q \in Requests : /\ done[q] => done'[q]
                             /\ req'[q] \notin Writing => req[q] \notin Writing
  PROVE  WindowInv'
BY DEF IInv, WindowInv, WindowOf, LogicalEnd

(* And the replays. *)
LEMMA ReplaysKept ==
  ASSUME IInv, UNCHANGED <<buffer, dropped, reader>>,
         \A q \in Requests : done[q] => done'[q]
  PROVE  ReplayInv'
BY DEF IInv, ReplayInv, ReplayOf, LogicalEnd

(* A thread goes on, and no session changes hands. *)
LEMMA PointStep ==
  ASSUME IInv, NEW r \in Requests,
         CancelPrevious(r) \/ SetNext(r) \/ ReturnUnstreamed(r) \/ Disconnect(r) \/ DrainCancelled(r)
  PROVE  IInv'
<1>1. PICK x \in {"finalize", "stream", "unstreamed", "drain", "exit"} :
        /\ req' = [req EXCEPT ![r] = x]
        /\ req[r] \in {"cancel", "ready", "stream", "drain"}
        /\ req[r] = "cancel" => x = "finalize"
  BY DEF CancelPrevious, SetNext, ReturnUnstreamed, Disconnect, DrainCancelled
<1>2. /\ UNCHANGED <<sessions, buffer, dropped, done, made, chunk, held, reader, stopper, gc>>
      /\ \/ cancelled' = cancelled
         \/ cancelled' = [cancelled EXCEPT ![held[r]] = TRUE]
  BY DEF CancelPrevious, SetNext, ReturnUnstreamed, Disconnect, DrainCancelled, session
<1>3. TypeOK
  BY DEF IInv
<1>4. TypeOK'
  BY <1>1, <1>2, <1>3 DEF TypeOK, Points
<1>5. /\ \A q \in Requests : /\ req'[q] = "new" <=> req[q] = "new"
                             /\ req[q] = "gone" => req'[q] = "gone"
                             /\ req[q] \in {"cancel", "finalize", "evicting"}
                                  => req'[q] \in {"cancel", "finalize", "evicting"}
                             /\ req'[q] \notin Writing => req[q] \notin Writing
                             /\ done[q] => done'[q]
  BY <1>1, <1>2, <1>3 DEF TypeOK, Writing
<1>6. MapInv' /\ DoneInMap' /\ LiveIsFound'
  <2>1. /\ \A q \in Requests : Retiring(q)' <=> Retiring(q)
        /\ sessions \in [Convs -> Requests \cup {None}] /\ MapInv
    BY <1>2, <1>3 DEF Retiring, IInv, TypeOK
  <2>2. MapInv'
    BY <1>2, <1>5, <2>1 DEF MapInv
  <2>3. DoneInMap' /\ LiveIsFound'
    BY <1>2, <1>5, <2>1 DEF IInv, DoneInMap, Complete, LogicalEnd, LiveIsFound
  <2>. QED BY <2>2, <2>3
<1>7. WindowInv' /\ ReplayInv'
  BY <1>2, <1>5, BytesKept, ReplaysKept
<1>. QED BY <1>4, <1>6, <1>7 DEF IInv

(* A stopper cancels the session it took. *)
LEMMA StopCancelStep ==
  ASSUME IInv, NEW s \in Stoppers, StopCancel(s)
  PROVE  IInv'
<1>1. /\ stopper' = [stopper EXCEPT ![s] = "finalize"]
      /\ cancelled' = [cancelled EXCEPT ![held[s]] = TRUE]
      /\ UNCHANGED <<sessions, buffer, dropped, done, req, made, chunk, held, reader, gc>>
  BY DEF StopCancel
<1>2. TypeOK
  BY DEF IInv
<1>3. TypeOK'
  BY <1>1, <1>2 DEF TypeOK
<1>4. /\ \A q \in Requests : Retiring(q)' <=> Retiring(q)
      /\ sessions \in [Convs -> Requests \cup {None}] /\ MapInv
  BY <1>1, <1>2 DEF Retiring, IInv, TypeOK
<1>5. \A q \in Stoppers : held[q] # None => stopper'[q] \in {"cancel", "finalize"}
  BY <1>1, <1>2, <1>4 DEF TypeOK, MapInv
<1>6. MapInv' /\ DoneInMap' /\ LiveIsFound'
  BY <1>1, <1>4, <1>5 DEF IInv, MapInv, DoneInMap, Complete, LogicalEnd, LiveIsFound
<1>7. WindowInv' /\ ReplayInv'
  BY <1>1, BytesKept, ReplaysKept
<1>. QED BY <1>3, <1>6, <1>7 DEF IInv

-----------------------------------------------------------------------------
(* A session is finalized by somebody who holds it, or by its producer.    *)

LEMMA FinalizeFrame ==
  ASSUME IInv, TypeOK', NEW S \in SUBSET Requests,
         done' = Finalized(S),
         UNCHANGED <<sessions, buffer, dropped, made, chunk, reader>>,
         \A q \in S : req'[q] = "gone" \/ Retiring(q),
         \A q \in Requests : /\ req'[q] = "new" <=> req[q] = "new"
                             /\ req[q] = "gone" => req'[q] = "gone"
                             /\ req'[q] \notin Writing => req[q] \notin Writing,
         \A q \in Requests : Retiring(q)' => Retiring(q),
         \A q \in Requests : Retiring(q) => Retiring(q)' \/ q \in S,
         \A q \in Requests : held'[q] # None => req'[q] \in {"cancel", "finalize", "evicting"},
         \A s \in Stoppers : held'[s] # None => stopper'[s] \in {"cancel", "finalize"},
         gc'.running => gc'.snapshot = {}
  PROVE  IInv'
<1>1. \A q \in Requests : /\ done'[q] <=> (done[q] \/ q \in S)
                          /\ done[q] => done'[q]
  BY DEF Finalized, IInv, TypeOK
<1>2. sessions \in [Convs -> Requests \cup {None}] /\ MapInv
  BY DEF IInv, TypeOK
<1>3. MapInv'
  <2>1. ASSUME NEW c \in Convs, NEW x \in Requests, sessions[c] = x
        PROVE  ConvOf[x] = c /\ req'[x] # "new" /\ ~Retiring(x)'
    BY <1>2, <2>1 DEF MapInv
  <2>2. ASSUME NEW q \in Requests, req'[q] = "new" PROVE ~done'[q] /\ ~Retiring(q)'
    BY <1>1, <1>2, <2>2 DEF MapInv
  <2>. QED BY <2>1, <2>2 DEF MapInv
<1>4. DoneInMap'
  <2>1. ASSUME NEW c \in Convs, NEW x \in Requests, sessions[c] = x, done'[x]
        PROVE  Complete(x)'
    <3>1. ~Retiring(x)
      BY <1>2, <2>1 DEF MapInv
    <3>2. CASE done[x]
      BY <2>1, <3>2 DEF IInv, DoneInMap, Complete, LogicalEnd
    <3>3. CASE ~done[x]
      <4>1. req'[x] = "gone"
        BY <1>1, <2>1, <3>1, <3>3
      <4>2. LogicalEnd(x) + Len(chunk[x].data) = made[x]
        BY <3>3 DEF IInv, WindowInv, WindowOf
      <4>. QED BY <4>1, <4>2 DEF Complete, LogicalEnd
    <3>. QED BY <3>2, <3>3
  <2>. QED BY <2>1 DEF DoneInMap
<1>5. LiveIsFound'
  <2>1. ASSUME NEW q \in Requests, req'[q] # "new", ~done'[q]
        PROVE  sessions'[ConvOf[q]] = q \/ Retiring(q)'
    BY <1>1, <2>1 DEF IInv, LiveIsFound
  <2>. QED BY <2>1 DEF LiveIsFound
<1>6. WindowInv' /\ ReplayInv'
  BY <1>1, BytesKept, ReplaysKept
<1>. QED BY <1>3, <1>4, <1>5, <1>6 DEF IInv

(* A request finalizes the session it replaced or evicted. *)
LEMMA FinalizeHeldStep ==
  ASSUME IInv, NEW r \in Requests, FinalizePrevious(r) \/ FinalizeEvicted(r)
  PROVE  IInv'
<1>. DEFINE S == {held[r]} \cap Requests
<1>1. PICK x \in {"ready", "exit"} :
        /\ req' = [req EXCEPT ![r] = x] /\ req[r] \in {"finalize", "evicting"}
  BY DEF FinalizePrevious, FinalizeEvicted
<1>2. /\ done' = Finalized({held[r]}) /\ held' = [held EXCEPT ![r] = None]
      /\ UNCHANGED <<sessions, buffer, dropped, cancelled, made, chunk, reader, stopper, gc>>
  BY DEF FinalizePrevious, FinalizeEvicted
<1>3. TypeOK /\ MapInv
  BY DEF IInv
<1>4. done' = Finalized(S)
  BY <1>2 DEF Finalized
<1>5. TypeOK'
  BY <1>1, <1>2, <1>3 DEF TypeOK, Points, Finalized, Actors
<1>6. \A q \in Requests : /\ req'[q] = "new" <=> req[q] = "new"
                          /\ req[q] = "gone" => req'[q] = "gone"
                          /\ req'[q] \notin Writing => req[q] \notin Writing
  BY <1>1, <1>3 DEF TypeOK, Writing
<1>7. \A q \in S : Retiring(q)
  BY DEF Retiring, Actors
<1>8. \A q \in Requests : Retiring(q)' => Retiring(q)
  BY <1>2, <1>3, NoneAssumption DEF Retiring, TypeOK, Actors
<1>9. \A q \in Requests : Retiring(q) => Retiring(q)' \/ q \in S
  BY <1>2, <1>3 DEF Retiring, TypeOK, Actors
<1>10. /\ \A q \in Requests : held'[q] # None => req'[q] \in {"cancel", "finalize", "evicting"}
       /\ \A s \in Stoppers : held'[s] # None => stopper'[s] \in {"cancel", "finalize"}
  BY <1>1, <1>2, <1>3 DEF TypeOK, MapInv, Actors
<1>11. S \in SUBSET Requests
  OBVIOUS
<1>12. gc'.running => gc'.snapshot = {}
  BY <1>2, <1>3 DEF MapInv
<1>. HIDE DEF S
<1>. QED BY <1>2, <1>4, <1>5, <1>6, <1>7, <1>8, <1>9, <1>10, <1>11, <1>12, FinalizeFrame

(* A stopper finalizes the session it took. *)
LEMMA StopFinalizeStep ==
  ASSUME IInv, NEW s \in Stoppers, StopFinalize(s)
  PROVE  IInv'
<1>. DEFINE S == {held[s]} \cap Requests
<1>1. /\ done' = Finalized({held[s]}) /\ held' = [held EXCEPT ![s] = None]
      /\ stopper' = [stopper EXCEPT ![s] = "idle"]
      /\ UNCHANGED <<sessions, buffer, dropped, cancelled, req, made, chunk, reader, gc>>
  BY DEF StopFinalize
<1>2. TypeOK /\ MapInv
  BY DEF IInv
<1>3. done' = Finalized(S)
  BY <1>1 DEF Finalized
<1>4. TypeOK'
  BY <1>1, <1>2 DEF TypeOK, Points, Finalized, Actors
<1>5. \A q \in S : Retiring(q)
  BY DEF Retiring, Actors
<1>6. \A q \in Requests : Retiring(q)' => Retiring(q)
  BY <1>1, <1>2, NoneAssumption DEF Retiring, TypeOK, Actors
<1>7. \A q \in Requests : Retiring(q) => Retiring(q)' \/ q \in S
  BY <1>1, <1>2 DEF Retiring, TypeOK, Actors
<1>8. /\ \A q \in Requests : held'[q] # None => req'[q] \in {"cancel", "finalize", "evicting"}
      /\ \A q \in Stoppers : held'[q] # None => stopper'[q] \in {"cancel", "finalize"}
  BY <1>1, <1>2, ActorsAssumption DEF TypeOK, MapInv, Actors
<1>9. S \in SUBSET Requests
  OBVIOUS
<1>10. gc'.running => gc'.snapshot = {}
  BY <1>1, <1>2 DEF MapInv
<1>. HIDE DEF S
<1>. QED BY <1>1, <1>3, <1>4, <1>5, <1>6, <1>7, <1>8, <1>9, <1>10, FinalizeFrame

(* The producer finalizes its own session, or the shutdown does. *)
LEMMA ProducerFinalizeStep ==
  ASSUME IInv, NEW r \in Requests, Destroy(r) \/ FinalizeLive(r)
  PROVE  IInv'
<1>1. TypeOK /\ MapInv
  BY DEF IInv
<1>2. {r} \in SUBSET Requests /\ done' = Finalized({r})
      /\ UNCHANGED <<sessions, buffer, dropped, cancelled, made, chunk, held, reader, stopper>>
  BY DEF Destroy, FinalizeLive
<1>3. CASE Destroy(r)
  <2>1. req[r] = "exit" /\ req' = [req EXCEPT ![r] = "gone"] /\ gc' = gc
    BY <1>3 DEF Destroy
  <2>2. TypeOK'
    BY <1>1, <1>2, <2>1 DEF TypeOK, Points, Finalized
  <2>3. /\ req'[r] = "gone"
        /\ \A q \in Requests : /\ req'[q] = "new" <=> req[q] = "new"
                               /\ req[q] = "gone" => req'[q] = "gone"
                               /\ req'[q] \notin Writing => req[q] \notin Writing
    BY <1>1, <2>1 DEF TypeOK, Writing
  <2>4. \A q \in Requests : Retiring(q)' <=> Retiring(q)
    BY <1>2, <2>1 DEF Retiring
  <2>5. /\ \A q \in Requests : held'[q] # None => req'[q] \in {"cancel", "finalize", "evicting"}
        /\ \A q \in Stoppers : held'[q] # None => stopper'[q] \in {"cancel", "finalize"}
    BY <1>1, <1>2, <2>1 DEF TypeOK, MapInv
  <2>6. gc'.running => gc'.snapshot = {}
    BY <1>1, <2>1 DEF MapInv
  <2>. QED BY <1>2, <2>2, <2>3, <2>4, <2>5, <2>6, FinalizeFrame
<1>4. CASE FinalizeLive(r)
  <2>1. r \in gc.snapshot /\ gc' = [gc EXCEPT !.snapshot = @ \ {r}] /\ req' = req
    BY <1>4 DEF FinalizeLive
  <2>2. TypeOK'
    BY <1>1, <1>2, <2>1 DEF TypeOK, Finalized
  <2>3. gc'.snapshot = gc.snapshot \ {r}
    BY <1>1, <2>1 DEF TypeOK
  <2>4. /\ Retiring(r)
        /\ \A q \in Requests : Retiring(q)' => Retiring(q)
        /\ \A q \in Requests : Retiring(q) => Retiring(q)' \/ q \in {r}
    BY <1>2, <2>1, <2>3 DEF Retiring
  <2>5. /\ \A q \in Requests : held'[q] # None => req'[q] \in {"cancel", "finalize", "evicting"}
        /\ \A q \in Stoppers : held'[q] # None => stopper'[q] \in {"cancel", "finalize"}
    BY <1>1, <1>2, <2>1 DEF MapInv
  <2>6. gc'.running => gc'.snapshot = {}
    BY <1>1, <2>1 DEF TypeOK, MapInv
  <2>. QED BY <1>2, <2>1, <2>2, <2>4, <2>5, <2>6, FinalizeFrame
<1>. QED BY <1>2, <1>3, <1>4

-----------------------------------------------------------------------------
(* Sessions leave the map: into somebody's hands, or because they are done. *)

(* What every step that takes a session out of the map leaves true. *)
LEMMA TakeFrame ==
  ASSUME IInv, TypeOK', UNCHANGED <<buffer, dropped, done, made, chunk, reader>>,
         \A c \in Convs : sessions'[c] \in {sessions[c], None},
         \A c \in Convs, q \in Requests :
           sessions[c] = q /\ sessions'[c] = None => Retiring(q)' \/ done[q],
         \A q \in Requests : Retiring(q) => Retiring(q)',
         \A q \in Requests :
           Retiring(q)' => \/ Retiring(q)
                           \/ \E c \in Convs : sessions[c] = q /\ sessions'[c] = None,
         \A q \in Requests : /\ req'[q] = "new" <=> req[q] = "new"
                             /\ req[q] = "gone" => req'[q] = "gone"
                             /\ req'[q] \notin Writing => req[q] \notin Writing,
         \A q \in Requests : held'[q] # None => req'[q] \in {"cancel", "finalize", "evicting"},
         \A s \in Stoppers : held'[s] # None => stopper'[s] \in {"cancel", "finalize"},
         gc'.running => gc'.snapshot = {}
  PROVE  IInv'
<1>1. sessions \in [Convs -> Requests \cup {None}] /\ MapInv
  BY DEF IInv, TypeOK
<1>2. MapInv'
  <2>1. ASSUME NEW c \in Convs, NEW x \in Requests, sessions'[c] = x
        PROVE  ConvOf[x] = c /\ req'[x] # "new" /\ ~Retiring(x)'
    <3>1. sessions[c] = x /\ x # None
      BY <2>1, NoneAssumption
    <3>2. ConvOf[x] = c /\ req[x] # "new" /\ ~Retiring(x)
      BY <1>1, <3>1 DEF MapInv
    <3>3. ASSUME NEW b \in Convs, sessions[b] = x PROVE b = c
      BY <1>1, <3>2, <3>3 DEF MapInv
    <3>4. ~\E b \in Convs : sessions[b] = x /\ sessions'[b] = None
      BY <2>1, <3>1, <3>3
    <3>. QED BY <3>2, <3>4
  <2>2. ASSUME NEW q \in Requests, req'[q] = "new" PROVE ~done'[q] /\ ~Retiring(q)'
    <3>1. ~done[q] /\ ~Retiring(q)
      BY <1>1, <2>2 DEF MapInv
    <3>2. \A c \in Convs : sessions[c] # q
      BY <1>1, <2>2 DEF MapInv
    <3>. QED BY <3>1, <3>2
  <2>. QED BY <2>1, <2>2 DEF MapInv
<1>3. DoneInMap'
  <2>1. ASSUME NEW c \in Convs, NEW x \in Requests, sessions'[c] = x, done[x]
        PROVE  Complete(x)'
    <3>1. sessions[c] = x
      BY <2>1, NoneAssumption
    <3>2. Complete(x)
      BY <2>1, <3>1 DEF IInv, DoneInMap
    <3>. QED BY <3>2 DEF Complete, LogicalEnd
  <2>. QED BY <2>1 DEF DoneInMap
<1>4. LiveIsFound'
  <2>1. ASSUME NEW q \in Requests, req'[q] # "new", ~done'[q]
        PROVE  sessions'[ConvOf[q]] = q \/ Retiring(q)'
    <3>1. sessions[ConvOf[q]] = q \/ Retiring(q)
      BY <2>1 DEF IInv, LiveIsFound
    <3>2. ConvOf[q] \in Convs
      BY ConvAssumption
    <3>3. sessions'[ConvOf[q]] = sessions[ConvOf[q]] \/ sessions'[ConvOf[q]] = None
      BY <3>2
    <3>. QED BY <2>1, <3>1, <3>2, <3>3
  <2>. QED BY <2>1 DEF LiveIsFound
<1>5. WindowInv' /\ ReplayInv'
  BY BytesKept, ReplaysKept
<1>. QED BY <1>2, <1>3, <1>4, <1>5 DEF IInv

(* Who takes a session is about to finalize it. *)
LEMMA HandedOver ==
  ASSUME NEW x \in Actors, NEW v, held[x] = None, gc' = gc,
         \A a \in Actors : held'[a] = IF a = x THEN v ELSE held[a]
  PROVE  /\ \A q \in Requests : Retiring(q) => Retiring(q)'
         /\ \A q \in Requests : Retiring(q)' => Retiring(q) \/ q = v
         /\ Retiring(v)'
<1>1. ASSUME NEW q \in Requests, Retiring(q) PROVE Retiring(q)'
  <2>1. CASE q \in gc.snapshot
    BY <2>1 DEF Retiring
  <2>2. CASE \E a \in Actors : held[a] = q
    <3>1. PICK a \in Actors : held[a] = q
      BY <2>2
    <3>2. a # x
      BY <3>1, NoneAssumption
    <3>3. held'[a] = q
      BY <3>1, <3>2
    <3>. QED BY <3>3 DEF Retiring
  <2>. QED BY <1>1, <2>1, <2>2 DEF Retiring
<1>2. ASSUME NEW q \in Requests, Retiring(q)' PROVE Retiring(q) \/ q = v
  BY <1>2 DEF Retiring
<1>3. Retiring(v)'
  BY DEF Retiring
<1>. QED BY <1>1, <1>2, <1>3

(* A request without a stream evicts the session of its conversation. *)
LEMMA EvictStep ==
  ASSUME IInv, NEW r \in Requests, Evict(r)
  PROVE  IInv'
<1>1. TypeOK /\ MapInv /\ ConvOf[r] \in Convs
  BY ConvAssumption DEF IInv
<1>. PICK v \in Requests \cup {None} : v = sessions[ConvOf[r]]
  BY <1>1 DEF TypeOK
<1>2. /\ req[r] = "unstreamed" /\ sessions' = [sessions EXCEPT ![ConvOf[r]] = None]
      /\ held' = [held EXCEPT ![r] = v]
      /\ req' = [req EXCEPT ![r] = IF v = None THEN "exit" ELSE "evicting"]
      /\ UNCHANGED <<buffer, dropped, done, cancelled, made, chunk, reader, stopper, gc>>
  BY DEF Evict, session
<1>3. held[r] = None
  BY <1>1, <1>2 DEF MapInv
<1>4. TypeOK'
  BY <1>1, <1>2, <1>3 DEF TypeOK, Points, Actors
<1>5. \A c \in Convs : sessions'[c] = IF c = ConvOf[r] THEN None ELSE sessions[c]
  BY <1>1, <1>2 DEF TypeOK
<1>6. \A a \in Actors : held'[a] = IF a = r THEN v ELSE held[a]
  BY <1>1, <1>2 DEF TypeOK, Actors
<1>7. /\ \A q \in Requests : Retiring(q) => Retiring(q)'
      /\ \A q \in Requests : Retiring(q)' => Retiring(q) \/ q = v
      /\ Retiring(v)'
  BY <1>2, <1>3, <1>6, HandedOver DEF Actors
<1>8. \A q \in Requests : /\ req'[q] = "new" <=> req[q] = "new"
                          /\ req[q] = "gone" => req'[q] = "gone"
                          /\ req'[q] \notin Writing => req[q] \notin Writing
  BY <1>1, <1>2 DEF TypeOK, Writing
<1>9. /\ \A q \in Requests : held'[q] # None => req'[q] \in {"cancel", "finalize", "evicting"}
      /\ \A q \in Stoppers : held'[q] # None => stopper'[q] \in {"cancel", "finalize"}
  BY <1>1, <1>2, <1>6, ActorsAssumption, SMTT(60) DEF TypeOK, MapInv, Actors
<1>10. /\ \A c \in Convs : sessions'[c] \in {sessions[c], None}
       /\ \A c \in Convs, q \in Requests :
            sessions[c] = q /\ sessions'[c] = None => Retiring(q)'
       /\ \A q \in Requests : Retiring(q)' =>
            Retiring(q) \/ \E c \in Convs : sessions[c] = q /\ sessions'[c] = None
  BY <1>1, <1>5, <1>7, NoneAssumption
<1>11. gc'.running => gc'.snapshot = {}
  BY <1>1, <1>2 DEF MapInv
<1>. QED BY <1>2, <1>4, <1>7, <1>8, <1>9, <1>10, <1>11, TakeFrame

(* A stopper takes the session. *)
LEMMA StopStep ==
  ASSUME IInv, NEW s \in Stoppers, NEW b \in Convs, Stop(s, b)
  PROVE  IInv'
<1>1. TypeOK /\ MapInv
  BY DEF IInv
<1>. PICK v \in Requests \cup {None} : v = sessions[b]
  BY <1>1 DEF TypeOK
<1>2. /\ stopper[s] = "idle" /\ v # None
      /\ sessions' = [sessions EXCEPT ![b] = None] /\ held' = [held EXCEPT ![s] = v]
      /\ stopper' = [stopper EXCEPT ![s] = "cancel"]
      /\ UNCHANGED <<buffer, dropped, done, cancelled, req, made, chunk, reader, gc>>
  BY DEF Stop, session
<1>3. v \in Requests /\ held[s] = None
  <2>1. stopper[s] \notin {"cancel", "finalize"}
    BY <1>2
  <2>2. held[s] = None
    BY <1>1, <2>1 DEF MapInv
  <2>. QED BY <1>2, <2>2
<1>4. TypeOK'
  BY <1>1, <1>2, <1>3 DEF TypeOK, Points, Actors
<1>5. \A c \in Convs : sessions'[c] = IF c = b THEN None ELSE sessions[c]
  BY <1>1, <1>2 DEF TypeOK
<1>6. \A a \in Actors : held'[a] = IF a = s THEN v ELSE held[a]
  BY <1>1, <1>2 DEF TypeOK, Actors
<1>7. /\ \A q \in Requests : Retiring(q) => Retiring(q)'
      /\ \A q \in Requests : Retiring(q)' => Retiring(q) \/ q = v
      /\ Retiring(v)'
  BY <1>2, <1>3, <1>6, HandedOver DEF Actors
<1>8. /\ \A q \in Requests : held'[q] # None => req'[q] \in {"cancel", "finalize", "evicting"}
      /\ \A q \in Stoppers : held'[q] # None => stopper'[q] \in {"cancel", "finalize"}
  BY <1>1, <1>2, <1>6, ActorsAssumption DEF TypeOK, MapInv, Actors
<1>9. /\ \A c \in Convs : sessions'[c] \in {sessions[c], None}
      /\ \A c \in Convs, q \in Requests :
           sessions[c] = q /\ sessions'[c] = None => Retiring(q)'
      /\ \A q \in Requests : Retiring(q)' =>
           Retiring(q) \/ \E c \in Convs : sessions[c] = q /\ sessions'[c] = None
  BY <1>5, <1>7, NoneAssumption
<1>10. gc'.running => gc'.snapshot = {}
  BY <1>1, <1>2 DEF MapInv
<1>. QED BY <1>2, <1>4, <1>7, <1>8, <1>9, <1>10, TakeFrame

(* The collector drops what is done; the shutdown takes all. *)
LEMMA CollectorSteps ==
  ASSUME IInv, Gc \/ StopGc
  PROVE  IInv'
<1>1. TypeOK /\ MapInv
  BY DEF IInv
<1>2. UNCHANGED <<buffer, dropped, done, cancelled, req, made, chunk, held, reader, stopper>>
  BY DEF Gc, StopGc, session
<1>h. /\ \A q \in Requests : /\ req'[q] = "new" <=> req[q] = "new"
                             /\ req[q] = "gone" => req'[q] = "gone"
                             /\ req'[q] \notin Writing => req[q] \notin Writing
      /\ \A q \in Requests : held'[q] # None => req'[q] \in {"cancel", "finalize", "evicting"}
      /\ \A q \in Stoppers : held'[q] # None => stopper'[q] \in {"cancel", "finalize"}
  BY <1>1, <1>2 DEF MapInv
<1>3. CASE Gc
  <2>1. PICK E \in SUBSET {c \in Convs : sessions[c] # None /\ done[sessions[c]]} :
          sessions' = [c \in Convs |-> IF c \in E THEN None ELSE sessions[c]]
    BY <1>3 DEF Gc
  <2>2. gc' = gc
    BY <1>3 DEF Gc
  <2>3. TypeOK'
    BY <1>1, <1>2, <2>1, <2>2 DEF TypeOK
  <2>4. \A q \in Requests : Retiring(q)' <=> Retiring(q)
    BY <1>2, <2>2 DEF Retiring
  <2>5. /\ \A c \in Convs : sessions'[c] \in {sessions[c], None}
        /\ \A c \in Convs, q \in Requests : sessions[c] = q /\ sessions'[c] = None => done[q]
    BY <2>1, NoneAssumption
  <2>6. gc'.running => gc'.snapshot = {}
    BY <1>1, <2>2 DEF MapInv
  <2>. QED BY <1>2, <1>h, <2>3, <2>4, <2>5, <2>6, TakeFrame
<1>4. CASE StopGc
  <2>1. /\ sessions' = [c \in Convs |-> None]
        /\ gc.running
        /\ gc' = [running |-> FALSE, snapshot |-> {sessions[c] : c \in Convs} \ {None}]
    BY <1>4 DEF StopGc
  <2>2. TypeOK'
    BY <1>1, <1>2, <2>1 DEF TypeOK
  <2>3. /\ \A c \in Convs, q \in Requests : sessions[c] = q => Retiring(q)'
        /\ \A q \in Requests : Retiring(q)' => Retiring(q) \/ \E c \in Convs : sessions[c] = q
    BY <1>2, <2>1, NoneAssumption DEF Retiring
  <2>4. \A q \in Requests : Retiring(q) => Retiring(q)'
    BY <1>1, <1>2, <2>1 DEF Retiring, MapInv
  <2>5. (\A c \in Convs : sessions'[c] = None) /\ (gc'.running => gc'.snapshot = {})
    BY <2>1
  <2>. QED BY <1>2, <1>h, <2>2, <2>3, <2>4, <2>5, TakeFrame
<1>. QED BY <1>3, <1>4

(* A request begins: its session replaces the one the map has. *)
LEMMA SetReqStep ==
  ASSUME IInv, NEW r \in Requests, SetReq(r)
  PROVE  IInv'
<1>1. TypeOK /\ MapInv /\ ConvOf[r] \in Convs
  BY ConvAssumption DEF IInv
<1>. PICK v \in Requests \cup {None} : v = sessions[ConvOf[r]]
  BY <1>1 DEF TypeOK
<1>2. /\ req[r] = "new" /\ sessions' = [sessions EXCEPT ![ConvOf[r]] = r]
      /\ held' = [held EXCEPT ![r] = v]
      /\ req' = [req EXCEPT ![r] = IF v = None THEN "ready" ELSE "cancel"]
      /\ UNCHANGED <<buffer, dropped, done, cancelled, made, chunk, reader, stopper, gc>>
  BY DEF SetReq, session
<1>3. held[r] = None /\ ~done[r] /\ ~Retiring(r) /\ \A c \in Convs : sessions[c] # r
  BY <1>1, <1>2 DEF MapInv
<1>4. TypeOK'
  BY <1>1, <1>2 DEF TypeOK, Points, Actors
<1>5. \A c \in Convs : sessions'[c] = IF c = ConvOf[r] THEN r ELSE sessions[c]
  BY <1>1, <1>2 DEF TypeOK
<1>6. \A a \in Actors : held'[a] = IF a = r THEN v ELSE held[a]
  BY <1>1, <1>2 DEF TypeOK, Actors
<1>7. /\ \A q \in Requests : Retiring(q) => Retiring(q)'
      /\ \A q \in Requests : Retiring(q)' => Retiring(q) \/ q = v
      /\ Retiring(v)'
  BY <1>2, <1>3, <1>6, HandedOver DEF Actors
<1>8. /\ req'[r] # "new" /\ req'[r] \notin Writing /\ req[r] \notin Writing
      /\ v # None => req'[r] = "cancel"
      /\ \A q \in Requests : q # r => req'[q] = req[q]
  BY <1>1, <1>2 DEF TypeOK, Writing
<1>9. MapInv'
  <2>1. ASSUME NEW c \in Convs, NEW x \in Requests, sessions'[c] = x
        PROVE  ConvOf[x] = c /\ req'[x] # "new" /\ ~Retiring(x)'
    <3>1. CASE c = ConvOf[r]
      <4>1. x = r /\ r # v
        BY <1>1, <1>3, <1>5, <2>1, <3>1
      <4>. QED BY <1>3, <1>7, <1>8, <3>1, <4>1
    <3>2. CASE c # ConvOf[r]
      <4>1. sessions[c] = x
        BY <1>5, <2>1, <3>2
      <4>2. ConvOf[x] = c /\ req[x] # "new" /\ ~Retiring(x)
        BY <1>1, <4>1 DEF MapInv
      <4>3. x # v
        BY <1>1, <3>2, <4>2 DEF MapInv
      <4>. QED BY <1>7, <1>8, <4>2, <4>3
    <3>. QED BY <3>1, <3>2
  <2>2. ASSUME NEW q \in Requests, req'[q] = "new" PROVE ~done'[q] /\ ~Retiring(q)'
    <3>1. q # r /\ req[q] = "new"
      BY <1>8, <2>2
    <3>2. ~done[q] /\ ~Retiring(q) /\ q # v
      BY <1>1, <3>1 DEF MapInv
    <3>. QED BY <1>2, <1>7, <3>2
  <2>3. \A q \in Requests : held'[q] # None => req'[q] \in {"cancel", "finalize", "evicting"}
    BY <1>1, <1>6, <1>8 DEF MapInv, Actors
  <2>4. \A s \in Stoppers : held'[s] # None => stopper'[s] \in {"cancel", "finalize"}
    BY <1>1, <1>2, <1>6, ActorsAssumption DEF MapInv, Actors
  <2>5. gc'.running => gc'.snapshot = {}
    BY <1>1, <1>2 DEF MapInv
  <2>. QED BY <2>1, <2>2, <2>3, <2>4, <2>5 DEF MapInv
<1>10. DoneInMap'
  <2>1. ASSUME NEW c \in Convs, NEW x \in Requests, sessions'[c] = x, done[x]
        PROVE  Complete(x)'
    <3>1. x # r /\ sessions[c] = x
      BY <1>3, <1>5, <2>1
    <3>2. Complete(x)
      BY <2>1, <3>1 DEF IInv, DoneInMap
    <3>. QED BY <1>2, <1>8, <3>1, <3>2 DEF Complete, LogicalEnd
  <2>. QED BY <1>2, <2>1 DEF DoneInMap
<1>11. LiveIsFound'
  <2>1. ASSUME NEW q \in Requests, req'[q] # "new", ~done[q]
        PROVE  sessions'[ConvOf[q]] = q \/ Retiring(q)'
    <3>1. CASE q = r
      BY <1>1, <1>5, <3>1
    <3>2. CASE q # r
      <4>1. sessions[ConvOf[q]] = q \/ Retiring(q)
        BY <1>8, <2>1, <3>2 DEF IInv, LiveIsFound
      <4>2. ConvOf[q] \in Convs
        BY ConvAssumption
      <4>. QED BY <1>5, <1>7, <4>1, <4>2
    <3>. QED BY <3>1, <3>2
  <2>. QED BY <1>2, <2>1 DEF LiveIsFound
<1>12. WindowInv' /\ ReplayInv'
  <2>1. \A q \in Requests : /\ done[q] => done'[q]
                            /\ req'[q] \notin Writing => req[q] \notin Writing
    BY <1>2, <1>8
  <2>. QED BY <1>2, <2>1, BytesKept, ReplaysKept
<1>. QED BY <1>4, <1>9, <1>10, <1>11, <1>12 DEF IInv

-----------------------------------------------------------------------------
(* The steps of a replay.                                                  *)

(* A replay changes its own record only. *)
LEMMA ReplayFrame ==
  ASSUME IInv, NEW d \in Readers, NEW rd,
         reader' = [reader EXCEPT ![d] = rd],
         UNCHANGED <<sessions, session, req, made, chunk, held, stopper, gc>>,
         rd \in [pc : {"idle", "found", "read", "ended"}, from : Nat, offset : Nat,
                 sess : Requests \cup {None}, got : Seq(Nat)],
         ReplayOf(rd)
  PROVE  IInv'
<1>1. TypeOK /\ UNCHANGED <<buffer, dropped, done, cancelled>>
  BY DEF IInv, session
<1>2. TypeOK'
  BY <1>1 DEF TypeOK
<1>3. \A q \in Requests : Retiring(q)' <=> Retiring(q)
  BY DEF Retiring
<1>4. MapInv' /\ DoneInMap' /\ LiveIsFound'
  BY <1>1, <1>3 DEF IInv, MapInv, DoneInMap, Complete, LogicalEnd, LiveIsFound
<1>5. WindowInv'
  BY <1>1, BytesKept
<1>6. ReplayInv'
  <2>1. ReplayOf(rd)'
    BY <1>1 DEF ReplayOf, LogicalEnd
  <2>2. ASSUME NEW e \in Readers PROVE ReplayOf(reader[e])'
    <3>1. CASE e = d
      <4>1. reader'[e] = rd
        BY <1>1, <3>1 DEF TypeOK
      <4>. QED BY <2>1, <4>1 DEF ReplayOf
    <3>2. CASE e # d
      <4>1. reader'[e] = reader[e] /\ ReplayOf(reader[e])
        BY <1>1, <3>2 DEF TypeOK, IInv, ReplayInv
      <4>. QED BY <1>1, <4>1 DEF ReplayOf, LogicalEnd
    <3>. QED BY <3>1, <3>2
  <2>. QED BY <2>2 DEF ReplayInv
<1>. QED BY <1>2, <1>4, <1>5, <1>6 DEF IInv

(* A connection that replays nothing. *)
LEMMA IdleReplay ==
  /\ ReplayOf(Idle)
  /\ Idle \in [pc : {"idle", "found", "read", "ended"}, from : Nat, offset : Nat,
               sess : Requests \cup {None}, got : Seq(Nat)]
<1>1. <<>> = Bytes(0, 0) /\ Len(<<>>) = 0 /\ 0 + 0 = 0 /\ <<>> \in Seq(Nat)
  BY BytesEmpty
<1>. QED BY <1>1 DEF ReplayOf, Idle

(* A replay goes on or is closed. *)
LEMMA ReplayStep ==
  ASSUME IInv, NEW d \in Readers, Replay(d) \/ ReaderGone(d)
  PROVE  IInv'
<1>. PICK rd : rd = reader[d]
  OBVIOUS
<1>1. /\ TypeOK /\ WindowInv /\ ReplayOf(rd)
      /\ UNCHANGED <<sessions, session, req, made, chunk, held, stopper, gc>>
  BY DEF IInv, ReplayInv, Replay, CheckOffset, ReadChunk, ReadLost, ReadDone, ReaderGone
<1>2. rd \in [pc : {"idle", "found", "read", "ended"}, from : Nat, offset : Nat,
              sess : Requests \cup {None}, got : Seq(Nat)]
  BY <1>1 DEF TypeOK
<1>3. /\ ReplayOf(Idle)
      /\ Idle \in [pc : {"idle", "found", "read", "ended"}, from : Nat, offset : Nat,
                   sess : Requests \cup {None}, got : Seq(Nat)]
  BY IdleReplay
<1>4. CASE reader' = [reader EXCEPT ![d] = Idle]
  BY <1>1, <1>3, <1>4, ReplayFrame
<1>5. CASE rd.pc = "found" /\ reader' = [reader EXCEPT ![d] = [rd EXCEPT !.pc = "read"]]
  <2>1. ReplayOf([rd EXCEPT !.pc = "read"])
    BY <1>1, <1>2, <1>5 DEF ReplayOf
  <2>. QED BY <1>1, <1>2, <1>5, <2>1, ReplayFrame
<1>6. CASE ReadDone(d)
  <2>1. reader' = [reader EXCEPT ![d] = [rd EXCEPT !.pc = "ended"]]
    BY <1>1, <1>6 DEF ReadDone, TypeOK
  <2>2. ReplayOf([rd EXCEPT !.pc = "ended"])
    BY <1>1, <1>2, <1>6 DEF ReadDone, ReplayOf, LogicalEnd
  <2>. QED BY <1>1, <1>2, <2>1, <2>2, ReplayFrame
<1>7. CASE ReadChunk(d)
  <2>. DEFINE data == Available(rd)
             next == [rd EXCEPT !.offset = @ + Len(data), !.got = @ \o data]
  <2>1. /\ reader' = [reader EXCEPT ![d] = next] /\ rd.pc = "read" /\ rd.sess \in Requests
        /\ dropped[rd.sess] <= rd.offset /\ rd.offset < LogicalEnd(rd.sess)
    BY <1>1, <1>7 DEF ReadChunk, TypeOK, ReplayOf
  <2>2. PICK p \in Nat, n \in Nat, a \in Nat, m \in Nat :
          /\ p = dropped[rd.sess] /\ n = Len(buffer[rd.sess]) /\ a = rd.from /\ m = Len(rd.got)
          /\ buffer[rd.sess] = Bytes(p, n)
    <3>1. /\ dropped[rd.sess] \in Nat /\ buffer[rd.sess] \in Seq(Nat)
          /\ rd.from \in Nat /\ rd.got \in Seq(Nat)
      BY <1>1, <1>2, <2>1 DEF TypeOK
    <3>2. Len(buffer[rd.sess]) \in Nat /\ Len(rd.got) \in Nat
      BY <3>1
    <3>3. buffer[rd.sess] = Bytes(dropped[rd.sess], Len(buffer[rd.sess]))
      BY <1>1, <2>1 DEF WindowInv, WindowOf
    <3>. QED BY <3>1, <3>2, <3>3
  <2>3. rd.got = Bytes(a, m) /\ rd.offset = a + m /\ p <= a + m /\ a + m < p + n
    BY <1>1, <2>1, <2>2 DEF ReplayOf, LogicalEnd
  <2>4. data = Bytes(a + m, (p + n) - (a + m)) /\ (p + n) - (a + m) \in Nat
    <3>1. /\ (a + m) - p \in 0..n /\ p + ((a + m) - p) = a + m
          /\ n - ((a + m) - p) = (p + n) - (a + m) /\ (p + n) - (a + m) \in Nat
      BY <2>3
    <3>2. SubSeq(Bytes(p, n), ((a + m) - p) + 1, n)
            = Bytes(p + ((a + m) - p), n - ((a + m) - p))
      BY <3>1, BytesTail
    <3>3. data = SubSeq(Bytes(p, n), ((a + m) - p) + 1, n)
      BY <2>2, <2>3, Zenon DEF Available
    <3>. QED BY <3>1, <3>2, <3>3, Zenon
  <2>5. PICK k \in Nat : k = (p + n) - (a + m)
    BY <2>4
  <2>6. data = Bytes(a + m, k) /\ a + m \in Nat /\ m + k \in Nat
    BY <2>4, <2>5
  <2>7. Len(data) = k
    BY <2>6, BytesFacts
  <2>8. rd.got \o data = Bytes(a, m + k)
    <3>1. Bytes(a, m) \o Bytes(a + m, k) = Bytes(a, m + k)
      BY BytesConcat
    <3>. HIDE DEF data
    <3>. QED BY <2>3, <2>6, <3>1, Zenon
  <2>9. Bytes(a, m + k) \in Seq(Nat) /\ Len(Bytes(a, m + k)) = m + k
    BY <2>6, BytesFacts
  <2>. HIDE DEF data
  <2>10. next = [rd EXCEPT !.offset = a + (m + k), !.got = Bytes(a, m + k)]
    <3>1. rd.offset + Len(data) = a + (m + k)
      <4>1. a + m + k = a + (m + k)
        OBVIOUS
      <4>. QED BY <2>3, <2>7, <4>1
    <3>. QED BY <2>8, <3>1
  <2>. HIDE DEF next
  <2>11. /\ ReplayOf(next)
         /\ next \in [pc : {"idle", "found", "read", "ended"}, from : Nat, offset : Nat,
                      sess : Requests \cup {None}, got : Seq(Nat)]
    <3>1. /\ next \in [pc : {"idle", "found", "read", "ended"}, from : Nat, offset : Nat,
                       sess : Requests \cup {None}, got : Seq(Nat)]
          /\ next.got = Bytes(a, m + k) /\ next.offset = a + (m + k)
          /\ next.from = a /\ next.pc = "read" /\ next.sess \in Requests
      <4>1. a + (m + k) \in Nat
        BY <2>6
      <4>. QED BY <1>2, <2>1, <2>2, <2>9, <2>10, <4>1
    <3>2. Len(next.got) = m + k
      BY <2>9, <3>1
    <3>. QED BY <3>1, <3>2 DEF ReplayOf
  <2>. QED BY <1>1, <2>1, <2>11, ReplayFrame
<1>. QED
  <2>1. \/ reader' = [reader EXCEPT ![d] = Idle]
        \/ rd.pc = "found" /\ reader' = [reader EXCEPT ![d] = [rd EXCEPT !.pc = "read"]]
        \/ ReadDone(d) \/ ReadChunk(d)
    BY DEF Replay, CheckOffset, ReadLost, ReaderGone
  <2>. QED BY <2>1, <1>4, <1>5, <1>6, <1>7

(* A replay begins. *)
LEMMA GetStep ==
  ASSUME IInv, NEW d \in Readers, NEW c \in Convs, NEW from \in Offsets, Get(d, c, from)
  PROVE  IInv'
<1>1. from \in Nat /\ sessions[c] \in Requests
  BY OffsetsAssumption DEF IInv, TypeOK, Get
<1>2. PICK s \in Requests : s = sessions[c]
  BY <1>1
<1>. DEFINE rd == [Idle EXCEPT !.pc = "found", !.sess = s, !.from = from, !.offset = from]
<1>3. reader' = [reader EXCEPT ![d] = rd]
  BY <1>2 DEF Get
<1>4. /\ ReplayOf(rd)
      /\ rd \in [pc : {"idle", "found", "read", "ended"}, from : Nat, offset : Nat,
                 sess : Requests \cup {None}, got : Seq(Nat)]
  <2>1. <<>> = Bytes(from, 0) /\ Len(<<>>) = 0 /\ from + 0 = from /\ <<>> \in Seq(Nat)
    BY <1>1, BytesEmpty
  <2>2. /\ rd.got = <<>> /\ rd.from = from /\ rd.offset = from
        /\ rd.pc = "found" /\ rd.sess = s
    BY DEF Idle
  <2>3. rd \in [pc : {"idle", "found", "read", "ended"}, from : Nat, offset : Nat,
                sess : Requests \cup {None}, got : Seq(Nat)]
    BY <1>1, <2>1 DEF Idle
  <2>. HIDE DEF rd
  <2>. QED BY <2>1, <2>2, <2>3 DEF ReplayOf
<1>5. UNCHANGED <<sessions, session, req, made, chunk, held, stopper, gc>>
  BY DEF Get
<1>. HIDE DEF rd
<1>. QED BY <1>3, <1>4, <1>5, ReplayFrame

-----------------------------------------------------------------------------
(* The invariant.                                                          *)

(* The initial states. *)
LEMMA Initially == Init => IInv
<1>. SUFFICES ASSUME Init PROVE IInv
  OBVIOUS
<1>1. TypeOK
  BY BytesAssumption DEF Init, TypeOK, NoChunk, Idle, Points, Actors
<1>2. WindowInv
  <2>1. <<>> = Bytes(0, 0) /\ <<>> = Bytes(0 - 0, 0) /\ Len(<<>>) = 0
    BY BytesEmpty
  <2>2. ASSUME NEW r \in Requests PROVE WindowOf(r)
    <3>1. /\ buffer[r] = <<>> /\ dropped[r] = 0 /\ chunk[r].data = <<>> /\ made[r] = 0
          /\ Len(buffer[r]) = 0 /\ Len(chunk[r].data) = 0 /\ ~done[r]
      BY <2>1 DEF Init, NoChunk
    <3>2. 0 <= Cap /\ 0 + 0 + 0 = 0 /\ 0 <= 0
      BY CapAssumption
    <3>. QED BY <2>1, <3>1, <3>2 DEF WindowOf, LogicalEnd
  <2>. QED BY <2>2 DEF WindowInv
<1>3. MapInv /\ DoneInMap /\ LiveIsFound
  BY NoneAssumption DEF Init, MapInv, DoneInMap, LiveIsFound, Retiring, Actors
<1>4. ReplayInv
  <2>1. ReplayOf(Idle)
    BY IdleReplay
  <2>. QED BY <2>1 DEF Init, ReplayInv
<1>. QED BY <1>1, <1>2, <1>3, <1>4 DEF IInv

(* Every step. *)
LEMMA Induction == IInv /\ [Next]_vars => IInv'
<1>. SUFFICES ASSUME IInv, [Next]_vars PROVE IInv'
  OBVIOUS
<1>1. ASSUME NEW r \in Requests, SetReq(r) \/ Proceed(r) \/ Await(r) \/ FinalizeLive(r)
      PROVE  IInv'
  BY <1>1, SetReqStep, PointStep, FinalizeHeldStep, NextOrigStep, WriteStep, EvictStep,
     ProducerFinalizeStep DEF Proceed, Await
<1>2. ASSUME NEW d \in Readers, Replay(d) \/ ReaderGone(d) PROVE IInv'
  BY <1>2, ReplayStep
<1>3. ASSUME NEW d \in Readers, NEW c \in Convs, NEW from \in Offsets, Get(d, c, from)
      PROVE  IInv'
  BY <1>3, GetStep
<1>4. ASSUME NEW s \in Stoppers, StopWork(s) \/ \E c \in Convs : Stop(s, c) PROVE IInv'
  BY <1>4, StopCancelStep, StopFinalizeStep, StopStep DEF StopWork
<1>5. CASE Gc \/ StopGc
  BY <1>5, CollectorSteps
<1>6. CASE UNCHANGED vars
  BY <1>6 DEF vars, session, IInv, TypeOK, WindowInv, WindowOf, LogicalEnd, MapInv, Retiring,
              DoneInMap, Complete, LiveIsFound, ReplayInv, ReplayOf
<1>. QED BY <1>1, <1>2, <1>3, <1>4, <1>5, <1>6 DEF Next

(* Every behaviour keeps the strengthening.                                *)
THEOREM Invariance == Spec => []IInv
<1>. QED BY Initially, Induction, PTL DEF Spec

(* Every variable keeps its type.                                          *)
THEOREM TypeCorrect == Spec => []TypeOK
<1>1. IInv => TypeOK
  BY DEF IInv
<1>. QED BY Invariance, <1>1, PTL

(* A session holds the last bytes accepted, each at its logical offset,    *)
(* and never more than cap_bytes (append and its two cases).               *)
THEOREM WindowCorrect == Spec => []BufferIsWindow
<1>1. IInv => BufferIsWindow
  <2>. SUFFICES ASSUME IInv, NEW r \in Requests
                PROVE  /\ Len(buffer[r]) <= Cap
                       /\ buffer[r] = Bytes(dropped[r], Len(buffer[r]))
                       /\ LogicalEnd(r) <= made[r]
    BY DEF BufferIsWindow
  <2>1. WindowOf(r)
    BY DEF IInv, WindowInv
  <2>2. PICK p \in Nat, m \in Nat, n \in Nat, total \in Nat :
          /\ p = dropped[r] /\ m = Len(buffer[r]) /\ n = Len(chunk[r].data) /\ total = made[r]
    BY BytesAssumption DEF IInv, TypeOK
  <2>3. p + m + n <= total
    BY <2>1, <2>2 DEF WindowOf, LogicalEnd
  <2>4. p + m <= total
    BY <2>3
  <2>. QED BY <2>1, <2>2, <2>4 DEF WindowOf, LogicalEnd
<1>. QED BY Invariance, <1>1, PTL

(* A replay delivers consecutive bytes from the offset it was asked for    *)
(* (read_from, one critical section for each chunk).                       *)
THEOREM ReplayCorrect == Spec => []ReplayContiguous
<1>1. IInv => ReplayContiguous
  BY DEF IInv, ReplayInv, ReplayOf, ReplayContiguous
<1>. QED BY Invariance, <1>1, PTL

(* A replay that ended has all the session accepted: after finalize,       *)
(* append takes nothing.                                                   *)
THEOREM EndedCorrect == Spec => []EndedHasAll
<1>1. IInv => EndedHasAll
  BY DEF IInv, ReplayInv, ReplayOf, EndedHasAll
<1>. QED BY Invariance, <1>1, PTL

(* A session a client can find lost nothing of its generation, and is done *)
(* only when its producer is gone.                                         *)
THEOREM FoundCorrect == Spec => []FoundIsComplete
<1>1. IInv => FoundIsComplete
  <2>1. ASSUME IInv, NEW c \in Convs, NEW s \in Requests, sessions[c] = s
        PROVE  /\ LogicalEnd(s) + Len(chunk[s].data) = made[s]
               /\ done[s] => req[s] = "gone"
    BY <2>1 DEF IInv, WindowInv, WindowOf, DoneInMap, Complete
  <2>2. ASSUME IInv, NEW c \in Convs, sessions[c] # None PROVE sessions[c] \in Requests
    BY <2>2 DEF IInv, TypeOK
  <2>. QED BY <2>1, <2>2 DEF FoundIsComplete
<1>. QED BY Invariance, <1>1, PTL

(* A session that is not done can be found, or somebody is about to        *)
(* finalize it.                                                            *)
THEOREM LiveCorrect == Spec => []LiveIsFound
<1>1. IInv => LiveIsFound
  BY DEF IInv
<1>. QED BY Invariance, <1>1, PTL
=============================================================================
