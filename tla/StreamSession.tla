--------------------------- MODULE StreamSession ---------------------------
(***************************************************************************)
(* Resumable streams (src/tools/server/server-stream.cpp): the bounded     *)
(* buffer of one generation (stream_session), the map of the sessions a    *)
(* client can find (stream_session_manager), the response that writes      *)
(* into its session (server_res_spipe), and the handlers that replay a     *)
(* session or stop it.                                                     *)
(*                                                                         *)
(* Every request with a conversation id owns one session, so a session is  *)
(* named by its request. A critical section of map_mu or of a session's mu *)
(* is one step; what is done outside of them interleaves. A byte is named  *)
(* by its place in the generation's output.                                *)
(*                                                                         *)
(* Abstracted: the text of the chunks, the clock (the TTL of a finished    *)
(* session may run out at any time), requests without a conversation id    *)
(* (they have no session), and the lookup of the state of sessions, which  *)
(* changes none.                                                           *)
(***************************************************************************)
EXTENDS Integers, Sequences

CONSTANTS Requests,   \* completion requests: each is one generation
          Convs,      \* conversation ids
          ConvOf,     \* request -> the id in its header
          Readers,    \* connections that replay a session
          Stoppers,   \* connections that stop a session
          Cap,        \* cap_bytes: STREAM_SESSION_MAX_BYTES
          MaxBytes,   \* bytes a generation may produce
          Sizes,      \* lengths of a chunk
          Offsets,    \* offsets a replay may ask for
          None        \* no session

ASSUME ConvAssumption == ConvOf \in [Requests -> Convs]
ASSUME CapAssumption == Cap \in Nat \ {0}
ASSUME BytesAssumption == MaxBytes \in Nat /\ Sizes \subseteq Nat \ {0}
ASSUME OffsetsAssumption == Offsets \subseteq Nat
ASSUME NoneAssumption == None \notin Requests
ASSUME ActorsAssumption == Requests \cap Stoppers = {}

VARIABLES
  sessions,   \* the map: conversation -> the session found under it, or None
  buffer,     \* session -> buffer: the bytes it still holds
  dropped,    \* session -> prefix_dropped
  done,       \* session -> done; completed_ts is set with it
  cancelled,  \* session -> cancelled
  req,        \* request -> what its worker thread is about to do
  made,       \* request -> bytes the generation has produced
  chunk,      \* request -> the chunk next_orig returned, and has_next
  held,       \* request or stopper -> the session it took out of the map, or None
  reader,     \* reader -> its session, offset and what it received
  stopper,    \* stopper -> program point
  gc          \* the manager: running, then stop_gc finalizing its snapshot

session == <<buffer, dropped, done, cancelled>>
vars == <<sessions, session, req, made, chunk, held, reader, stopper, gc>>

Actors == Requests \cup Stoppers

Points == {"new", "cancel", "finalize", "ready", "stream", "write", "drain",
           "dwrite", "unstreamed", "evicting", "exit", "gone"}

NoChunk == [data |-> <<>>, more |-> TRUE]
Idle == [pc |-> "idle", from |-> 0, offset |-> 0, sess |-> None, got |-> <<>>]

Init ==
  /\ sessions = [c \in Convs |-> None]
  /\ buffer = [r \in Requests |-> <<>>]
  /\ dropped = [r \in Requests |-> 0]
  /\ done = [r \in Requests |-> FALSE]
  /\ cancelled = [r \in Requests |-> FALSE]
  /\ req = [r \in Requests |-> "new"]
  /\ made = [r \in Requests |-> 0]
  /\ chunk = [r \in Requests |-> NoChunk]
  /\ held = [a \in Actors |-> None]
  /\ reader = [d \in Readers |-> Idle]
  /\ stopper = [s \in Stoppers |-> "idle"]
  /\ gc = [running |-> TRUE, snapshot |-> {}]

-----------------------------------------------------------------------------
(* stream_session                                                          *)

LogicalEnd(r) == dropped[r] + Len(buffer[r])

(* A plausible mistake: prefix_dropped misses the bytes that made room. *)
AppendMiscounted(r, data) ==
  LET all    == buffer[r] \o data
      toDrop == IF Len(all) > Cap THEN Len(all) - Cap ELSE 0
  IN IF done[r] THEN UNCHANGED <<buffer, dropped>>
     ELSE /\ buffer' = [buffer EXCEPT ![r] = SubSeq(all, toDrop + 1, Len(all))]
          /\ UNCHANGED dropped

(* A plausible mistake: a session that is done still takes bytes. *)
AppendAfterDone(r, data) ==
  LET all    == buffer[r] \o data
      toDrop == IF Len(all) > Cap THEN Len(all) - Cap ELSE 0
  IN /\ buffer' = [buffer EXCEPT ![r] = SubSeq(all, toDrop + 1, Len(all))]
     /\ dropped' = [dropped EXCEPT ![r] = @ + toDrop]

(* append: a chunk of cap_bytes or more leaves its own tail only. *)
AppendBytes(r, data) ==
  LET skip   == Len(data) - Cap
      excess == Len(buffer[r]) + Len(data) - Cap
      toDrop == IF excess > 0 THEN excess ELSE 0
  IN IF data = <<>> \/ done[r] THEN UNCHANGED <<buffer, dropped>>
     ELSE IF Len(data) >= Cap
     THEN /\ dropped' = [dropped EXCEPT ![r] = @ + Len(buffer[r]) + skip]
          /\ buffer' = [buffer EXCEPT ![r] = SubSeq(data, skip + 1, Len(data))]
     ELSE /\ dropped' = [dropped EXCEPT ![r] = @ + toDrop]
          /\ buffer' = [buffer EXCEPT ![r] = SubSeq(@, toDrop + 1, Len(@)) \o data]

Finalized(S) == [r \in Requests |-> done[r] \/ r \in S]

-----------------------------------------------------------------------------
(* The worker thread of a request: set_req installs its session, retiring  *)
(* the one it replaces outside of the lock.                                *)

SetReq(r) ==
  LET previous == sessions[ConvOf[r]] IN
  /\ req[r] = "new"
  /\ sessions' = [sessions EXCEPT ![ConvOf[r]] = r]
  /\ held' = [held EXCEPT ![r] = previous]
  /\ req' = [req EXCEPT ![r] = IF previous = None THEN "ready" ELSE "cancel"]
  /\ UNCHANGED <<session, made, chunk, reader, stopper, gc>>

CancelPrevious(r) ==
  /\ req[r] = "cancel"
  /\ cancelled' = [cancelled EXCEPT ![held[r]] = TRUE]
  /\ req' = [req EXCEPT ![r] = "finalize"]
  /\ UNCHANGED <<sessions, buffer, dropped, done, made, chunk, held, reader, stopper, gc>>

(* A plausible mistake: the fresh session is finalized, not the previous one. *)
FinalizeFresh(r) ==
  /\ req[r] = "finalize"
  /\ done' = Finalized({sessions[ConvOf[r]]})
  /\ held' = [held EXCEPT ![r] = None]
  /\ req' = [req EXCEPT ![r] = "ready"]
  /\ UNCHANGED <<sessions, buffer, dropped, cancelled, made, chunk, reader, stopper, gc>>

(* A plausible mistake: the previous session is cancelled only. *)
ForgetPrevious(r) ==
  /\ req[r] = "finalize"
  /\ held' = [held EXCEPT ![r] = None]
  /\ req' = [req EXCEPT ![r] = "ready"]
  /\ UNCHANGED <<sessions, session, made, chunk, reader, stopper, gc>>

FinalizePrevious(r) ==
  /\ req[r] = "finalize"
  /\ done' = Finalized({held[r]})
  /\ held' = [held EXCEPT ![r] = None]
  /\ req' = [req EXCEPT ![r] = "ready"]
  /\ UNCHANGED <<sessions, buffer, dropped, cancelled, made, chunk, reader, stopper, gc>>

(* At "ready" the handler posts its tasks and waits: for the first result   *)
(* if the response is to be streamed, for all of them if it is not. The    *)
(* wait asks for the connection, not for is_cancelled. It ends with the    *)
(* first result of a stream ...                                            *)
SetNext(r) ==
  /\ req[r] = "ready"
  /\ req' = [req EXCEPT ![r] = "stream"]
  /\ UNCHANGED <<sessions, session, made, chunk, held, reader, stopper, gc>>

(* ... or without a stream: an error, before or after the tasks are posted, *)
(* all the results of a response that is not streamed, or a client that is *)
(* gone.                                                                   *)
ReturnUnstreamed(r) ==
  /\ req[r] = "ready"
  /\ req' = [req EXCEPT ![r] = "unstreamed"]
  /\ UNCHANGED <<sessions, session, made, chunk, held, reader, stopper, gc>>

(* A plausible mistake: should_stop is not asked while results come. *)
NextOrigDeaf(r, at) ==
  \E n \in Sizes \cup {0}, more \in BOOLEAN :
    /\ made[r] + n <= MaxBytes
    /\ n = 0 /\ more => made[r] = MaxBytes
    /\ chunk' = [chunk EXCEPT ![r] =
                   [data |-> [i \in 1..n |-> made[r] + i - 1], more |-> more]]
    /\ made' = [made EXCEPT ![r] = @ + n]
    /\ req' = [req EXCEPT ![r] = at]

(* next_orig: nothing more once should_stop; a last chunk may be empty. A  *)
(* generation may go on for ever (n_predict = -1): past MaxBytes its       *)
(* chunks are not counted.                                                 *)
NextOrig(r, at) ==
  IF cancelled[r]
  THEN /\ chunk' = [chunk EXCEPT ![r] = [data |-> <<>>, more |-> FALSE]]
       /\ req' = [req EXCEPT ![r] = at]
       /\ UNCHANGED made
  ELSE \E n \in Sizes \cup {0}, more \in BOOLEAN :
         /\ made[r] + n <= MaxBytes
         /\ n = 0 /\ more => made[r] = MaxBytes
         /\ chunk' = [chunk EXCEPT ![r] =
                        [data |-> [i \in 1..n |-> made[r] + i - 1], more |-> more]]
         /\ made' = [made EXCEPT ![r] = @ + n]
         /\ req' = [req EXCEPT ![r] = at]

NextChunk(r) ==
  /\ req[r] = "stream"
  /\ NextOrig(r, "write")
  /\ UNCHANGED <<sessions, session, held, reader, stopper, gc>>

Write(r) ==
  /\ req[r] \in {"write", "dwrite"}
  /\ AppendBytes(r, chunk[r].data)
  /\ chunk' = [chunk EXCEPT ![r] = NoChunk]
  /\ req' = [req EXCEPT ![r] = CASE ~chunk[r].more -> "exit"
                                 [] req[r] = "write" -> "stream"
                                 [] OTHER -> "drain"]
  /\ UNCHANGED <<sessions, done, cancelled, made, held, reader, stopper, gc>>

(* The client is gone: on_complete drains the generation into the session. *)
Disconnect(r) ==
  /\ req[r] = "stream"
  /\ req' = [req EXCEPT ![r] = "drain"]
  /\ UNCHANGED <<sessions, session, made, chunk, held, reader, stopper, gc>>

Drain(r) ==
  /\ req[r] = "drain" /\ ~cancelled[r]
  /\ NextOrig(r, "dwrite")
  /\ UNCHANGED <<sessions, session, held, reader, stopper, gc>>

DrainCancelled(r) ==
  /\ req[r] = "drain" /\ cancelled[r]
  /\ req' = [req EXCEPT ![r] = "exit"]
  /\ UNCHANGED <<sessions, session, made, chunk, held, reader, stopper, gc>>

(* on_complete, without a set_next, evicts whatever session the             *)
(* conversation has now.                                                    *)
Evict(r) ==
  LET victim == sessions[ConvOf[r]] IN
  /\ req[r] = "unstreamed"
  /\ sessions' = [sessions EXCEPT ![ConvOf[r]] = None]
  /\ held' = [held EXCEPT ![r] = victim]
  /\ req' = [req EXCEPT ![r] = IF victim = None THEN "exit" ELSE "evicting"]
  /\ UNCHANGED <<session, made, chunk, reader, stopper, gc>>

FinalizeEvicted(r) ==
  /\ req[r] = "evicting"
  /\ done' = Finalized({held[r]})
  /\ held' = [held EXCEPT ![r] = None]
  /\ req' = [req EXCEPT ![r] = "exit"]
  /\ UNCHANGED <<sessions, buffer, dropped, cancelled, made, chunk, reader, stopper, gc>>

(* A plausible mistake: the producer end leaves its session as it is. *)
DestroyQuietly(r) ==
  /\ req[r] = "exit"
  /\ req' = [req EXCEPT ![r] = "gone"]
  /\ UNCHANGED <<sessions, session, made, chunk, held, reader, stopper, gc>>

(* The response is destroyed, and its producer end with it. *)
Destroy(r) ==
  /\ req[r] = "exit"
  /\ done' = Finalized({r})
  /\ req' = [req EXCEPT ![r] = "gone"]
  /\ UNCHANGED <<sessions, buffer, dropped, cancelled, made, chunk, held, reader, stopper, gc>>

-----------------------------------------------------------------------------
(* GET: find the session, check the offset, then replay what is there and  *)
(* wait for more. read_from is one critical section for each chunk.        *)

Get(d, c, from) ==
  /\ reader[d].pc = "idle" /\ sessions[c] # None
  /\ reader' = [reader EXCEPT ![d] = [Idle EXCEPT !.pc = "found", !.sess = sessions[c],
                                                  !.from = from, !.offset = from]]
  /\ UNCHANGED <<sessions, session, req, made, chunk, held, stopper, gc>>

CheckOffset(d) ==
  LET rd == reader[d] IN
  /\ rd.pc = "found"
  /\ reader' = [reader EXCEPT ![d] =
                  IF rd.from < dropped[rd.sess] THEN Idle ELSE [rd EXCEPT !.pc = "read"]]
  /\ UNCHANGED <<sessions, session, req, made, chunk, held, stopper, gc>>

(* A plausible mistake: the offset is taken for a place in the buffer. *)
AvailableUnshifted(rd) ==
  SubSeq(buffer[rd.sess], rd.offset + 1, Len(buffer[rd.sess]))

Available(rd) ==
  SubSeq(buffer[rd.sess], rd.offset - dropped[rd.sess] + 1, Len(buffer[rd.sess]))

ReadChunk(d) ==
  LET rd == reader[d]
      data == Available(rd) IN
  /\ rd.pc = "read"
  /\ dropped[rd.sess] <= rd.offset /\ rd.offset < LogicalEnd(rd.sess)
  /\ reader' = [reader EXCEPT ![d].offset = @ + Len(data), ![d].got = @ \o data]
  /\ UNCHANGED <<sessions, session, req, made, chunk, held, stopper, gc>>

(* The bytes at the offset were dropped meanwhile: the response ends. *)
ReadLost(d) ==
  /\ reader[d].pc = "read" /\ reader[d].offset < dropped[reader[d].sess]
  /\ reader' = [reader EXCEPT ![d] = Idle]
  /\ UNCHANGED <<sessions, session, req, made, chunk, held, stopper, gc>>

ReadDone(d) ==
  LET s == reader[d].sess IN
  /\ reader[d].pc = "read" /\ reader[d].offset >= LogicalEnd(s) /\ done[s]
  /\ reader' = [reader EXCEPT ![d].pc = "ended"]
  /\ UNCHANGED <<sessions, session, req, made, chunk, held, stopper, gc>>

(* should_stop: the reader's own connection is closed. *)
ReaderGone(d) ==
  /\ reader[d].pc \in {"found", "read", "ended"}
  /\ reader' = [reader EXCEPT ![d] = Idle]
  /\ UNCHANGED <<sessions, session, req, made, chunk, held, stopper, gc>>

-----------------------------------------------------------------------------
(* DELETE: evict_and_cancel.                                               *)

Stop(s, c) ==
  /\ stopper[s] = "idle" /\ sessions[c] # None
  /\ held' = [held EXCEPT ![s] = sessions[c]]
  /\ sessions' = [sessions EXCEPT ![c] = None]
  /\ stopper' = [stopper EXCEPT ![s] = "cancel"]
  /\ UNCHANGED <<session, req, made, chunk, reader, gc>>

StopCancel(s) ==
  /\ stopper[s] = "cancel"
  /\ cancelled' = [cancelled EXCEPT ![held[s]] = TRUE]
  /\ stopper' = [stopper EXCEPT ![s] = "finalize"]
  /\ UNCHANGED <<sessions, buffer, dropped, done, req, made, chunk, held, reader, gc>>

StopFinalize(s) ==
  /\ stopper[s] = "finalize"
  /\ done' = Finalized({held[s]})
  /\ held' = [held EXCEPT ![s] = None]
  /\ stopper' = [stopper EXCEPT ![s] = "idle"]
  /\ UNCHANGED <<sessions, buffer, dropped, cancelled, req, made, chunk, reader, gc>>

-----------------------------------------------------------------------------
(* The manager's thread drops what has expired (finalizing a finished      *)
(* session changes nothing); stop_gc, at exit, finalizes what is left.     *)

Gc ==
  /\ gc.running
  /\ \E expired \in SUBSET {c \in Convs : sessions[c] # None /\ done[sessions[c]]} :
       /\ expired # {}
       /\ sessions' = [c \in Convs |-> IF c \in expired THEN None ELSE sessions[c]]
  /\ UNCHANGED <<session, req, made, chunk, held, reader, stopper, gc>>

StopGc ==
  /\ gc.running
  /\ gc' = [running |-> FALSE, snapshot |-> {sessions[c] : c \in Convs} \ {None}]
  /\ sessions' = [c \in Convs |-> None]
  /\ UNCHANGED <<session, req, made, chunk, held, reader, stopper>>

FinalizeLive(r) ==
  /\ r \in gc.snapshot
  /\ done' = Finalized({r})
  /\ gc' = [gc EXCEPT !.snapshot = @ \ {r}]
  /\ UNCHANGED <<sessions, buffer, dropped, cancelled, req, made, chunk, held, reader, stopper>>

-----------------------------------------------------------------------------
(* What the thread of a request does once the generation, or the client,   *)
(* has given it something to do: the end of a chunk's way, and of its own. *)
(* next_orig waits for a result, but not once it is cancelled.             *)
Proceed(r) ==
  \/ CancelPrevious(r) \/ FinalizePrevious(r)
  \/ cancelled[r] /\ NextChunk(r)
  \/ Write(r) \/ DrainCancelled(r)
  \/ Evict(r) \/ FinalizeEvicted(r) \/ Destroy(r)

(* What waits for either of them. *)
Await(r) ==
  \/ SetNext(r) \/ ReturnUnstreamed(r)
  \/ ~cancelled[r] /\ NextChunk(r)
  \/ Drain(r) \/ Disconnect(r)

Replay(d) == CheckOffset(d) \/ ReadChunk(d) \/ ReadLost(d) \/ ReadDone(d)

StopWork(s) == StopCancel(s) \/ StopFinalize(s)

Next ==
  \/ \E r \in Requests : SetReq(r) \/ Proceed(r) \/ Await(r) \/ FinalizeLive(r)
  \/ \E d \in Readers : Replay(d) \/ ReaderGone(d)
  \/ \E d \in Readers, c \in Convs, from \in Offsets : Get(d, c, from)
  \/ \E s \in Stoppers : StopWork(s) \/ \E c \in Convs : Stop(s, c)
  \/ Gc \/ StopGc

Spec == Init /\ [][Next]_vars

(* A thread goes on when nobody keeps it waiting: the requests' (Proceed), *)
(* the replays', that of a stop once it took the session out, and that of  *)
(* the shutdown once begun. No result need ever come, for a generation may *)
(* have no limit and the first result may be queued behind one; clients    *)
(* may stay or leave, and the collector may stall.                         *)
Fairness ==
  /\ \A r \in Requests : WF_vars(Proceed(r))
  /\ \A d \in Readers : WF_vars(Replay(d))
  /\ \A s \in Stoppers : WF_vars(StopWork(s))
  /\ WF_vars(\E r \in Requests : FinalizeLive(r))

FairSpec == Spec /\ Fairness

-----------------------------------------------------------------------------
Bytes(from, n) == [i \in 1..n |-> from + i - 1]

TypeOK ==
  /\ sessions \in [Convs -> Requests \cup {None}]
  /\ buffer \in [Requests -> Seq(Nat)]
  /\ dropped \in [Requests -> Nat]
  /\ done \in [Requests -> BOOLEAN]
  /\ cancelled \in [Requests -> BOOLEAN]
  /\ req \in [Requests -> Points]
  /\ made \in [Requests -> 0..MaxBytes]
  /\ chunk \in [Requests -> [data : Seq(Nat), more : BOOLEAN]]
  /\ held \in [Actors -> Requests \cup {None}]
  /\ reader \in [Readers -> [pc : {"idle", "found", "read", "ended"},
                             from : Nat, offset : Nat, sess : Requests \cup {None},
                             got : Seq(Nat)]]
  /\ stopper \in [Stoppers -> {"idle", "cancel", "finalize"}]
  /\ gc \in [running : BOOLEAN, snapshot : SUBSET Requests]

(* A session holds at most cap_bytes, and they are the last ones accepted: *)
(* the byte at a logical offset is the byte the generation produced there. *)
BufferIsWindow ==
  \A r \in Requests :
    /\ Len(buffer[r]) <= Cap
    /\ buffer[r] = Bytes(dropped[r], Len(buffer[r]))
    /\ LogicalEnd(r) <= made[r]

(* A replay delivers consecutive bytes from the offset it was asked for,   *)
(* whatever the producer drops from the buffer meanwhile.                  *)
ReplayContiguous ==
  \A d \in Readers : reader[d].got = Bytes(reader[d].from, Len(reader[d].got))

(* A replay that ended with the session has all of it: nothing is appended *)
(* once a reader may have seen the session done.                           *)
EndedHasAll ==
  \A d \in Readers :
    reader[d].pc = "ended" => reader[d].offset >= LogicalEnd(reader[d].sess)

(* A session a client can find has received every byte its generation      *)
(* produced (but the chunk in hand), and is done only when the producer is *)
(* gone: nobody else finalizes it without taking it out of the map first.  *)
FoundIsComplete ==
  \A c \in Convs :
    LET s == sessions[c] IN
    s # None => /\ LogicalEnd(s) + Len(chunk[s].data) = made[s]
                /\ done[s] => req[s] = "gone"

Retiring(r) == r \in gc.snapshot \/ \E a \in Actors : held[a] = r

(* One live session for a conversation: a session that is not done is the  *)
(* one the map has, or somebody is about to finalize it.                   *)
LiveIsFound ==
  \A r \in Requests :
    req[r] # "new" /\ ~done[r] => sessions[ConvOf[r]] = r \/ Retiring(r)

(* No reader hangs: a replay ends once its session is cancelled, loses its *)
(* producer or is left to the shutdown.                                    *)
Ending(r) == cancelled[r] \/ req[r] \in {"exit", "gone"} \/ r \in gc.snapshot

ReplayEnds ==
  \A d \in Readers :
    reader[d].pc = "read" /\ Ending(reader[d].sess) ~> reader[d].pc # "read"

(* A cancelled request ends, an endless one too, whether or not its client  *)
(* is there, from wherever the flag finds it but for the wait for a first   *)
(* result: that one asks for the connection only (and so does the wait for  *)
(* all results of a response that is not streamed).                         *)
Waits(r) == req[r] \in {"new", "cancel", "finalize", "ready"}
CancelledEnds == \A r \in Requests : cancelled[r] /\ ~Waits(r) ~> req[r] = "gone"

(* README-dev.md:137: "A `DELETE` stops work by raising the flag and        *)
(* letting the worker unwind", wherever the worker is.                      *)
DeleteStops == \A r \in Requests : cancelled[r] ~> req[r] = "gone"

(* README-dev.md:135: the wrapped next "tees each chunk into the ring      *)
(* before the socket, so a chunk lost to a dead wire is already buffered". *)
TeedUnlessStopped ==
  \A r \in Requests :
    gc.running /\ ~cancelled[r] => LogicalEnd(r) + Len(chunk[r].data) = made[r]
=============================================================================
