--------------------------- MODULE TransferSession ---------------------------
(***************************************************************************)
(* The transfer engine of protocol/transfer.js: two sessions, one at each  *)
(* end of one ordered channel, each sending files to the other at once.    *)
(*                                                                         *)
(* A file is one call of send(): its chunks, its promise and the row of    *)
(* the sender's `outgoing` map it may occupy.  Per file, the module also   *)
(* keeps what became of it at the receiving end.  The handlers that await  *)
(* (the offer, the final digest, the sink's close and abort) are split at  *)
(* the await, so that timers, user actions, the sender's own chunk pump    *)
(* and close() run in between, as they do in the program.                  *)
(***************************************************************************)
EXTENDS Integers, Sequences, FiniteSets

CONSTANTS
  A, B,          \* the two sessions
  Files,         \* the calls of send() made over the life of the channel
  Source,        \* Source[f]: the session that sends f
  Chunks,        \* Chunks[f]: the number of chunks of f
  MaxStreamId,   \* MAX_STREAM_ID, 0xffff in the program
  MaxFaults,     \* bound: how many sink and source operations may throw
  NoFile         \* an absent map entry

Peers == {A, B}
StreamIds == 1..MaxStreamId
Other(p) == IF p = A THEN B ELSE A

ASSUME TransferAssumption ==
  /\ A # B
  /\ NoFile \notin Files
  /\ IsFiniteSet(Files)
  /\ Source \in [Files -> Peers]
  /\ Chunks \in [Files -> Nat \ {0}]   \* chunkCount: an empty file has one
  /\ MaxStreamId \in Nat \ {0}
  /\ MaxFaults \in Nat

VARIABLES
  \* the sending end, per file
  stream,     \* the stream id of its entry, 0 before beginSend
  promise,    \* what its promise was settled with, "pending" until then
  pump,       \* its pumpChunks: "idle", "running" or "over"
  next,       \* the index of the chunk the pump sends next
  cancelled,  \* entry.cancelled
  timer,      \* is its offer timer armed?
  \* the sending end, per session
  outgoing,   \* outgoing[p][s]: the file whose entry has stream id s
  nextId,     \* nextStreamId
  closed,
  \* the channel and the inbound chain, per session
  wire,       \* messages on their way to p
  inbound,    \* messages p has received, waiting for their turn
  handling,   \* the awaiting handler of p
  \* the receiving end
  incoming,   \* incoming[p][s]: the file p receives on stream s
  hashes,     \* per file: the chunks its receiver's digest has seen
  stored,     \* per file: the chunks its receiver's sink has stored
  sink,       \* per file: "none", "open", "closed" or "aborted"
  reported,   \* per file: the ends its receiver has reported for it
  faults

sendVars == <<stream, promise, pump, next, cancelled, timer, outgoing, nextId>>
recvVars == <<incoming, hashes, stored, sink, reported, faults>>
chanVars == <<wire, inbound, handling>>
vars == <<stream, promise, pump, next, cancelled, timer, outgoing, nextId,
          closed, wire, inbound, handling,
          incoming, hashes, stored, sink, reported, faults>>

(***************************************************************************)
(* The wire.  A control message carries its type and a stream id; an offer *)
(* also the file's description, done the digest of the file it ends, and a *)
(* chunk its index and bytes.                                              *)
(***************************************************************************)
ControlMessage == [type : {"seen", "accept", "reject", "cancel", "error"},
                   stream : StreamIds]
AckMessage == [type : {"ack"}, stream : StreamIds, ok : BOOLEAN]
FileMessage == [type : {"offer", "done"}, stream : StreamIds, file : Files]
ChunkMessage == [type : {"chunk"}, stream : StreamIds, file : Files, seq : Nat]
Message == ControlMessage \cup AckMessage \cup FileMessage \cup ChunkMessage

Control(t, s) == [type |-> t, stream |-> s]
Ack(s, ok) == [type |-> "ack", stream |-> s, ok |-> ok]
FileControl(t, s, f) == [type |-> t, stream |-> s, file |-> f]
ChunkFrame(s, f, i) == [type |-> "chunk", stream |-> s, file |-> f, seq |-> i]

Chunk(f, i) == [file |-> f, seq |-> i]
Contents(f) == {Chunk(f, i) : i \in 0..(Chunks[f] - 1)}

\* What p sends goes nowhere once the other end has closed.
Post(p, m) == IF closed[Other(p)] THEN wire
              ELSE [wire EXCEPT ![Other(p)] = Append(@, m)]

Idle == [type |-> "idle"]
Work(m, e, g) == [type |-> m.type, msg |-> m, entry |-> e, arriving |-> g]

\* A promise keeps what it was first settled with.
Settle(f, how) == [promise EXCEPT ![f] = IF @ = "pending" THEN how ELSE @]
\* The receiving session emits the event that ends file f.
Report(f, how) == reported' = [reported EXCEPT ![f] = @ \cup {how}]

Init ==
  /\ stream = [f \in Files |-> 0]
  /\ promise = [f \in Files |-> "unsent"]
  /\ pump = [f \in Files |-> "idle"]
  /\ next = [f \in Files |-> 0]
  /\ cancelled = [f \in Files |-> FALSE]
  /\ timer = [f \in Files |-> FALSE]
  /\ outgoing = [p \in Peers |-> [s \in StreamIds |-> NoFile]]
  /\ nextId = [p \in Peers |-> 1]
  /\ closed = [p \in Peers |-> FALSE]
  /\ wire = [p \in Peers |-> <<>>]
  /\ inbound = [p \in Peers |-> <<>>]
  /\ handling = [p \in Peers |-> Idle]
  /\ incoming = [p \in Peers |-> [s \in StreamIds |-> NoFile]]
  /\ hashes = [f \in Files |-> {}]
  /\ stored = [f \in Files |-> {}]
  /\ sink = [f \in Files |-> "none"]
  /\ reported = [f \in Files |-> {}]
  /\ faults = 0

-----------------------------------------------------------------------------
(* The sender's own steps. *)

\* How many increments, wrapping at MaxStreamId, take nextStreamId from n to s.
Steps(n, s) == IF s > n THEN s - n ELSE s - n + MaxStreamId

FreeIds(p) == {s \in StreamIds : outgoing[p][s] = NoFile}

\* Mutant: the id is incremented without wrapping.
AllocateUnwrapped(p) == nextId[p] + 1

\* The first id after nextStreamId that no entry of p uses.
AllocateStreamId(p) ==
  CHOOSE s \in FreeIds(p) :
    \A t \in FreeIds(p) : Steps(nextId[p], s) <= Steps(nextId[p], t)

\* send(): enter the file in `outgoing`, offer it and arm the offer timer.
BeginSend(f) ==
  LET p == Source[f]
      s == AllocateStreamId(p)
  IN /\ promise[f] = "unsent"
     /\ ~closed[p]
     /\ FreeIds(p) # {}
     /\ nextId' = [nextId EXCEPT ![p] = s]
     /\ stream' = [stream EXCEPT ![f] = s]
     /\ outgoing' = [outgoing EXCEPT ![p][s] = f]
     /\ promise' = [promise EXCEPT ![f] = "pending"]
     /\ timer' = [timer EXCEPT ![f] = TRUE]
     /\ wire' = Post(p, FileControl("offer", s, f))
     /\ UNCHANGED <<pump, next, cancelled, closed, inbound, handling, recvVars>>

\* send() on a channel that has closed: control() throws, the entry goes.
BeginSendClosed(f) ==
  LET p == Source[f] IN
  /\ promise[f] = "unsent"
  /\ closed[p]
  /\ FreeIds(p) # {}
  /\ nextId' = [nextId EXCEPT ![p] = AllocateStreamId(p)]
  /\ promise' = [promise EXCEPT ![f] = "closed"]
  /\ UNCHANGED <<stream, pump, next, cancelled, timer, outgoing, closed,
                 chanVars, recvVars>>

\* Mutant: a send given up keeps its entry in the map.
FreeNothing(p, s) == outgoing

Free(p, s) == [outgoing EXCEPT ![p][s] = NoFile]

\* The offer timer fires.
OfferTimeout(f) ==
  LET p == Source[f] IN
  /\ timer[f]
  /\ timer' = [timer EXCEPT ![f] = FALSE]
  /\ IF outgoing[p][stream[f]] = f
     THEN /\ outgoing' = Free(p, stream[f])
          /\ cancelled' = [cancelled EXCEPT ![f] = TRUE]
          /\ promise' = Settle(f, "timeout")
     ELSE UNCHANGED <<outgoing, cancelled, promise>>
  /\ UNCHANGED <<stream, pump, next, nextId, closed, chanVars, recvVars>>

\* Mutant: the pump starts with the offer instead of waiting for the accept.
PumpingEager(f) == pump[f] # "over" /\ promise[f] = "pending" /\ ~closed[Source[f]]

Pumping(f) == pump[f] = "running" /\ ~closed[Source[f]]

\* Mutant: the loop ends one chunk early.
LoopEndsEarly(f) == next[f] = Chunks[f] - 1

LoopEnds(f) == next[f] = Chunks[f]

\* One turn of the loop in pumpChunks.  The second check of entry.cancelled
\* and the send that follows it run without an await in between.
PumpChunk(f) ==
  /\ Pumping(f) /\ ~LoopEnds(f) /\ ~cancelled[f]
  /\ wire' = Post(Source[f], ChunkFrame(stream[f], f, next[f]))
  /\ next' = [next EXCEPT ![f] = @ + 1]
  /\ UNCHANGED <<stream, promise, pump, cancelled, timer, outgoing, nextId,
                 closed, inbound, handling, recvVars>>

\* After the last chunk: done, which no check of entry.cancelled precedes.
PumpDone(f) ==
  /\ Pumping(f) /\ LoopEnds(f)
  /\ wire' = Post(Source[f], FileControl("done", stream[f], f))
  /\ pump' = [pump EXCEPT ![f] = "over"]
  /\ UNCHANGED <<stream, promise, next, cancelled, timer, outgoing, nextId,
                 closed, inbound, handling, recvVars>>

\* Mutants of the catch of pumpChunks: it never rejects, or tells no one.
PumpThrowsUnsettled(f) ==
  /\ pump' = [pump EXCEPT ![f] = "over"]
  /\ wire' = Post(Source[f], Control("error", stream[f]))
  /\ outgoing' = Free(Source[f], stream[f])
  /\ UNCHANGED promise

PumpThrowsUntold(f) ==
  /\ pump' = [pump EXCEPT ![f] = "over"]
  /\ outgoing' = Free(Source[f], stream[f])
  /\ promise' = Settle(f, "failed")
  /\ UNCHANGED wire

\* The catch of pumpChunks reports to the other side and rejects.
PumpThrows(f) ==
  /\ pump' = [pump EXCEPT ![f] = "over"]
  /\ wire' = Post(Source[f], Control("error", stream[f]))
  /\ outgoing' = Free(Source[f], stream[f])
  /\ promise' = Settle(f, "failed")

\* The entry was cancelled, or source.readChunk throws.
PumpFails(f) ==
  /\ Pumping(f) /\ ~LoopEnds(f)
  /\ \/ cancelled[f] /\ UNCHANGED faults
     \/ faults < MaxFaults /\ faults' = faults + 1
  /\ PumpThrows(f)
  /\ UNCHANGED <<stream, next, cancelled, timer, nextId, closed, inbound,
                 handling, incoming, hashes, stored, sink, reported>>

\* On a closed channel the catch itself throws before it changes anything.
PumpClosed(f) ==
  /\ pump[f] = "running" /\ closed[Source[f]]
  /\ pump' = [pump EXCEPT ![f] = "over"]
  /\ UNCHANGED <<stream, promise, next, cancelled, timer, outgoing, nextId,
                 closed, chanVars, recvVars>>

\* The session's cancel(streamId).  The timer stays armed.
Cancel(f) ==
  LET p == Source[f] IN
  /\ stream[f] # 0 /\ outgoing[p][stream[f]] = f
  /\ cancelled' = [cancelled EXCEPT ![f] = TRUE]
  /\ wire' = Post(p, Control("cancel", stream[f]))
  /\ outgoing' = Free(p, stream[f])
  /\ UNCHANGED <<stream, promise, pump, next, timer, nextId, closed, inbound,
                 handling, recvVars>>

-----------------------------------------------------------------------------
(* Receiving: onMessage, then the inbound chain, one handler at a time. *)

Disarm(f) == timer' = [g \in Files |-> timer[g] /\ g # f]

\* onMessage: `seen` is acted on at once, an offer is answered with it ahead
\* of the queue, and everything else waits for its turn.
Receive(p) ==
  /\ ~closed[p]
  /\ wire[p] # <<>>
  /\ LET m == Head(wire[p])
         rest == [wire EXCEPT ![p] = Tail(@)]
     IN \/ /\ m.type = "seen"
           /\ wire' = rest
           /\ Disarm(outgoing[p][m.stream])
           /\ UNCHANGED inbound
        \/ /\ m.type # "seen"
           /\ wire' = IF m.type = "offer" /\ ~closed[Other(p)]
                      THEN [rest EXCEPT ![Other(p)] =
                              Append(@, Control("seen", m.stream))]
                      ELSE rest
           /\ inbound' = [inbound EXCEPT ![p] = Append(@, m)]
           /\ UNCHANGED timer
  /\ UNCHANGED <<stream, promise, pump, next, cancelled, outgoing, nextId,
                 closed, handling, recvVars>>

\* The turn of the next message comes: no two handlers of a session overlap.
Turn(p, types) ==
  /\ handling[p] = Idle
  /\ inbound[p] # <<>>
  /\ Head(inbound[p]).type \in types
  /\ inbound' = [inbound EXCEPT ![p] = Tail(@)]

\* The entries handleControl and handleChunk look up for the next message.
Entry(p) == outgoing[p][Head(inbound[p]).stream]
Arriving(p) == incoming[p][Head(inbound[p]).stream]

\* A message about a stream its handler knows nothing of, or an offer of one
\* that is already arriving.
HandleUnknown(p) ==
  /\ \/ Turn(p, {"offer"}) /\ Arriving(p) # NoFile
     \/ Turn(p, {"accept", "reject", "ack"}) /\ Entry(p) = NoFile
     \/ Turn(p, {"done", "chunk"}) /\ Arriving(p) = NoFile
     \/ Turn(p, {"cancel", "error"}) /\ Arriving(p) = NoFile /\ Entry(p) = NoFile
  /\ UNCHANGED <<sendVars, closed, wire, handling, recvVars>>

HandleAccept(p) ==
  /\ Turn(p, {"accept"})
  /\ Entry(p) # NoFile
  /\ Disarm(Entry(p))
  /\ pump' = [pump EXCEPT ![Entry(p)] = "running"]
  /\ UNCHANGED <<stream, promise, next, cancelled, outgoing, nextId, closed,
                 wire, handling, recvVars>>

HandleReject(p) ==
  /\ Turn(p, {"reject"})
  /\ Entry(p) # NoFile
  /\ Disarm(Entry(p))
  /\ outgoing' = Free(p, Head(inbound[p]).stream)
  /\ promise' = Settle(Entry(p), "declined")
  /\ UNCHANGED <<stream, pump, next, cancelled, nextId, closed, wire, handling,
                 recvVars>>

HandleAck(p) ==
  /\ Turn(p, {"ack"})
  /\ Entry(p) # NoFile
  /\ outgoing' = Free(p, Head(inbound[p]).stream)
  /\ promise' = Settle(Entry(p),
                       IF Head(inbound[p]).ok THEN "resolved" ELSE "mismatch")
  /\ UNCHANGED <<stream, pump, next, cancelled, timer, nextId, closed, wire,
                 handling, recvVars>>

\* The entry branch of cancel and error: the other side ended stream s, and
\* the file this session sends on the stream of that id is given up.
EndEntry(p, s, f) ==
  /\ Disarm(f)
  /\ cancelled' = [g \in Files |-> cancelled[g] \/ g = f]
  /\ outgoing' = IF f = NoFile THEN outgoing ELSE Free(p, s)
  /\ promise' = IF f = NoFile THEN promise ELSE Settle(f, "endedByPeer")
  /\ UNCHANGED <<stream, pump, next, nextId, closed, wire, hashes, stored, faults>>

HandleEndEntry(p) ==
  /\ Turn(p, {"cancel", "error"})
  /\ Arriving(p) = NoFile
  /\ Entry(p) # NoFile
  /\ EndEntry(p, Head(inbound[p]).stream, Entry(p))
  /\ UNCHANGED <<handling, incoming, sink, reported>>

\* A handler that awaits begins: what it looked up stays with it.
BeginHandling(p) ==
  /\ \/ Turn(p, {"offer"}) /\ Arriving(p) = NoFile
     \/ Turn(p, {"done", "cancel", "error"}) /\ Arriving(p) # NoFile
  /\ handling' = [handling EXCEPT ![p] =
                    Work(Head(inbound[p]), Entry(p), Arriving(p))]
  /\ UNCHANGED <<sendVars, closed, wire, recvVars>>

\* Chunk hashes are kept by index, chunks stored at the position of theirs.
Digested(S, c) == {h \in S : h.seq # c.seq} \cup {c}

\* Mutant: every write starts at the beginning of the file.
WrittenAtStart(S, c) == {c}

Written(S, c) == {h \in S : h.seq # c.seq} \cup {c}

\* handleChunk: the digest is updated first, then the sink.  When sink.write
\* throws, that is reported as an event, and nothing else.
HandleChunk(p) ==
  /\ Turn(p, {"chunk"})
  /\ LET g == Arriving(p)
         c == Chunk(Head(inbound[p]).file, Head(inbound[p]).seq)
     IN /\ g # NoFile
        /\ hashes' = [hashes EXCEPT ![g] = Digested(@, c)]
        /\ \/ stored' = [stored EXCEPT ![g] = Written(@, c)] /\ UNCHANGED faults
           \/ faults < MaxFaults /\ faults' = faults + 1 /\ UNCHANGED stored
  /\ UNCHANGED <<sendVars, closed, wire, handling, incoming, sink, reported>>

-----------------------------------------------------------------------------
(* The ends of the handlers that await. *)

\* The handler of a message of one of these types returns, or throws.
Finish(p, types) ==
  /\ handling[p].type \in types
  /\ handling' = [handling EXCEPT ![p] = Idle]
  /\ UNCHANGED <<stream, pump, next, nextId, closed, inbound, hashes, stored>>

\* autoAccept said yes and createSink delivered.  On a session closed in the
\* meantime the entry is set all the same, and control() throws.
AcceptOffer(p) ==
  /\ Finish(p, {"offer"})
  /\ LET m == handling[p].msg IN
       /\ sink' = [sink EXCEPT ![m.file] = "open"]
       /\ incoming' = [incoming EXCEPT ![p][m.stream] = m.file]
       /\ wire' = IF closed[p] THEN wire ELSE Post(p, Control("accept", m.stream))
  /\ UNCHANGED <<promise, cancelled, timer, outgoing, reported, faults>>

\* autoAccept said no, or threw.
RejectOffer(p) ==
  /\ Finish(p, {"offer"})
  /\ LET m == handling[p].msg IN
       IF closed[p] THEN UNCHANGED <<reported, wire>>
       ELSE /\ Report(m.file, "declined")
            /\ wire' = Post(p, Control("reject", m.stream))
  /\ UNCHANGED <<promise, cancelled, timer, outgoing, incoming, sink, faults>>

\* Mutants: the failure is answered like a refusal, or after an ack.
SinkThrowsRejects(p, f) ==
  /\ faults < MaxFaults /\ faults' = faults + 1
  /\ Report(f, "sinkFailed")
  /\ wire' = Post(p, Control("reject", handling[p].msg.stream))

SinkThrowsAcked(p, f) ==
  /\ faults < MaxFaults /\ faults' = faults + 1
  /\ Report(f, "sinkFailed")
  /\ wire' = Post(p, Ack(handling[p].msg.stream, TRUE))

\* An operation of the sink of f throws out of its handler: an event reports
\* it, and the other side hears nothing.
SinkThrows(p, f) ==
  /\ faults < MaxFaults /\ faults' = faults + 1
  /\ Report(f, "sinkFailed")
  /\ UNCHANGED wire

\* createSink throws.
SinkUnavailable(p) ==
  /\ Finish(p, {"offer"})
  /\ SinkThrows(p, handling[p].msg.file)
  /\ UNCHANGED <<promise, cancelled, timer, outgoing, incoming, sink>>

Verified(w) == hashes[w.arriving] = Contents(w.msg.file)

\* sink.close throws: the entry stays in `incoming`.
SinkCloseFails(p) ==
  /\ Finish(p, {"done"})
  /\ Verified(handling[p])
  /\ ~closed[p]
  /\ SinkThrows(p, handling[p].arriving)
  /\ UNCHANGED <<promise, cancelled, timer, outgoing, incoming, sink>>

\* Mutant: the entry of a transfer that ended stays in `incoming`.
ForgetNothing(p, s) == incoming

Forget(p, s) == [incoming EXCEPT ![p][s] = NoFile]

EndTransfer(p, ok) ==
  LET w == handling[p] IN
  /\ sink' = [sink EXCEPT ![w.arriving] = IF ok THEN "closed" ELSE "aborted"]
  /\ Report(w.arriving, IF ok THEN "complete" ELSE "mismatch")
  /\ wire' = Post(p, Ack(w.msg.stream, ok))
  /\ incoming' = Forget(p, w.msg.stream)

\* done: the digests are compared, the sink closed or aborted, the sender told.
CompleteTransfer(p) ==
  /\ Finish(p, {"done"})
  /\ ~closed[p]
  /\ EndTransfer(p, Verified(handling[p]))
  /\ UNCHANGED <<promise, cancelled, timer, outgoing, faults>>

\* The session closed, and aborted the sink, while the sink was closing.
CompleteClosed(p) ==
  /\ Finish(p, {"done"})
  /\ closed[p]
  /\ \E end \in {"closed", "aborted"} :
       sink' = [sink EXCEPT ![handling[p].arriving] = end]
  /\ UNCHANGED <<promise, cancelled, timer, outgoing, wire, incoming, reported,
                 faults>>

\* The sender cancelled, or failed: the sink is aborted, and then the entry
\* found under the same id in `outgoing` when the turn began is ended too.
EndArriving(p) ==
  /\ Finish(p, {"cancel", "error"})
  /\ LET w == handling[p] IN
       /\ sink' = [sink EXCEPT ![w.arriving] = "aborted"]
       /\ Report(w.arriving, "ended")
       /\ incoming' = Forget(p, w.msg.stream)
       /\ EndEntry(p, w.msg.stream, w.entry)

-----------------------------------------------------------------------------
(* close(), with the channel it belongs to: every caller closes both. *)

Outstanding(p) == {f \in Files : \E s \in StreamIds : outgoing[p][s] = f}
Incomplete(p) == {f \in Files : \E s \in StreamIds : incoming[p][s] = f}

\* Whatever the closing end had in transit may be lost from some point on;
\* what was on its way to it, or queued there, is never handled.
Close(p) ==
  /\ ~closed[p]
  /\ closed' = [closed EXCEPT ![p] = TRUE]
  /\ timer' = [f \in Files |-> timer[f] /\ f \notin Outstanding(p)]
  /\ cancelled' = [f \in Files |-> cancelled[f] \/ f \in Outstanding(p)]
  /\ promise' = [f \in Files |->
                   IF f \in Outstanding(p) THEN Settle(f, "closed")[f] ELSE promise[f]]
  /\ sink' = [f \in Files |-> IF f \in Incomplete(p) THEN "aborted" ELSE sink[f]]
  /\ outgoing' = [outgoing EXCEPT ![p] = [s \in StreamIds |-> NoFile]]
  /\ incoming' = [incoming EXCEPT ![p] = [s \in StreamIds |-> NoFile]]
  /\ inbound' = [inbound EXCEPT ![p] = <<>>]
  /\ \E n \in 0..Len(wire[Other(p)]) :
       wire' = [wire EXCEPT ![p] = <<>>, ![Other(p)] = SubSeq(@, 1, n)]
  /\ UNCHANGED <<stream, pump, next, nextId, handling, hashes, stored, reported,
                 faults>>

-----------------------------------------------------------------------------
SenderStep(f) ==
  PumpChunk(f) \/ PumpDone(f) \/ PumpFails(f) \/ PumpClosed(f) \/ OfferTimeout(f)

HandlerStep(p) ==
  \/ HandleUnknown(p) \/ HandleAccept(p) \/ HandleReject(p) \/ HandleAck(p)
  \/ HandleEndEntry(p) \/ BeginHandling(p) \/ HandleChunk(p)
  \/ CompleteTransfer(p) \/ CompleteClosed(p) \/ SinkCloseFails(p)
  \/ EndArriving(p)

AnswerStep(p) == AcceptOffer(p) \/ RejectOffer(p) \/ SinkUnavailable(p)

Next ==
  \/ \E f \in Files : BeginSend(f) \/ BeginSendClosed(f) \/ Cancel(f) \/ SenderStep(f)
  \/ \E p \in Peers : Receive(p) \/ HandlerStep(p) \/ AnswerStep(p) \/ Close(p)

Spec == Init /\ [][Next]_vars

(***************************************************************************)
(* The event loop runs every queued callback, the channel delivers what it *)
(* accepted, a pump goes on, an armed timer fires, the host answers an     *)
(* offer, and an end whose far end closed learns of it.  Nothing obliges   *)
(* anyone to send, to cancel or to close first.                            *)
(***************************************************************************)
Fairness ==
  /\ \A f \in Files : WF_vars(SenderStep(f))
  /\ \A p \in Peers : /\ WF_vars(Receive(p))
                      /\ WF_vars(HandlerStep(p) \/ AnswerStep(p))
                      /\ WF_vars(closed[Other(p)] /\ Close(p))

FairSpec == Spec /\ Fairness

-----------------------------------------------------------------------------
(* Properties. *)

Promises == {"unsent", "pending", "resolved", "declined", "mismatch",
             "failed", "timeout", "endedByPeer", "closed"}
Outcomes == {"complete", "declined", "mismatch", "ended", "sinkFailed"}
ChunkSet == [file : Files, seq : Nat]
WorkSet == [type : {"idle"}]
           \cup [type : {"offer", "done"}, msg : FileMessage,
                 entry : Files \cup {NoFile}, arriving : Files \cup {NoFile}]
           \cup [type : {"cancel", "error"}, msg : ControlMessage,
                 entry : Files \cup {NoFile}, arriving : Files \cup {NoFile}]

\* The type invariant: what each variable of the two sessions ranges over.
TypeOK ==
  /\ stream \in [Files -> 0..MaxStreamId]
  /\ promise \in [Files -> Promises]
  /\ pump \in [Files -> {"idle", "running", "over"}]
  /\ next \in [Files -> Nat]
  /\ cancelled \in [Files -> BOOLEAN]
  /\ timer \in [Files -> BOOLEAN]
  /\ outgoing \in [Peers -> [StreamIds -> Files \cup {NoFile}]]
  /\ nextId \in [Peers -> StreamIds]
  /\ closed \in [Peers -> BOOLEAN]
  /\ wire \in [Peers -> Seq(Message)]
  /\ inbound \in [Peers -> Seq(Message)]
  /\ handling \in [Peers -> WorkSet]
  /\ incoming \in [Peers -> [StreamIds -> Files \cup {NoFile}]]
  /\ hashes \in [Files -> SUBSET ChunkSet]
  /\ stored \in [Files -> SUBSET ChunkSet]
  /\ sink \in [Files -> {"none", "open", "closed", "aborted"}]
  /\ reported \in [Files -> SUBSET Outcomes]
  /\ faults \in Nat

\* A sender is told its file arrived only if the receiver verified that very
\* file, closed its sink and reported it complete (the ack of lines 269-300
\* and its handler, which knows the file by its stream id alone).
ResolvedMeansComplete ==
  \A f \in Files : promise[f] = "resolved" => "complete" \in reported[f]

\* A send is marked declined, which keeps the caller from routing the file
\* through the relay instead, only if the receiving device refused that file.
DeclinedMeansRefused ==
  \A f \in Files : promise[f] = "declined" => "declined" \in reported[f]

Travelling(p) == {wire[p][i] : i \in DOMAIN wire[p]}
                   \cup {inbound[p][i] : i \in DOMAIN inbound[p]}

\* No byte of a file its receiver has not accepted is ever sent, refused or
\* abandoned files included: pumping starts from an accept alone.
OnlyAcceptedBytesTravel ==
  \A f \in Files : \A m \in Travelling(Other(Source[f])) :
    m.type = "chunk" /\ m.file = f => sink[f] # "none"

\* The final digests always agree on an intact channel: no interleaving of the
\* pump, the channel and the awaiting handlers lets "done" overtake a chunk.
NoSpuriousMismatch == \A f \in Files : "mismatch" \notin reported[f]

\* A file reported complete has had each of its chunks, and nothing else,
\* stored by its sink.  Sinks do fail: see MaxFaults.
CompleteIsStored ==
  \A f \in Files : "complete" \in reported[f] => stored[f] = Contents(f)

\* As long as no sink or source has failed, whatever else was cancelled, timed
\* out or closed, a file reported complete is complete.
StoredUnlessFault == faults = 0 => CompleteIsStored

\* The other side's cancel and error end what the other side sends.  A session
\* has no way to end what it receives, so no send is ever ended by its receiver.
StreamsSeparate == \A f \in Files : promise[f] # "endedByPeer"

\* close() settles every send still in flight.
CloseSettles ==
  \A f \in Files : closed[Source[f]] => promise[f] # "pending"

\* An entry in `outgoing` is that of a send still unsettled, under the id it
\* was given: whatever settles a send has freed its id, also when ids wrap.
EntryIsPending ==
  \A p \in Peers, s \in StreamIds :
    LET f == outgoing[p][s] IN
    f # NoFile => Source[f] = p /\ stream[f] = s /\ promise[f] = "pending"

\* No file is reported as ended twice, nor in two ways.
EndsOnce == \A f \in Files : Cardinality(reported[f] \ {"sinkFailed"}) <= 1

\* cancel() has removed the entry of a send that nothing else has settled.
Withdrawn(f) == /\ promise[f] = "pending"
                /\ cancelled[f]
                /\ outgoing[Source[f]][stream[f]] # f

\* Every send is settled, unless the caller withdrew it with cancel() or the
\* receiver's sink failed, neither of which anyone answers.
SendSettles ==
  \A f \in Files :
    promise[f] = "pending" ~>
      (promise[f] # "pending" \/ Withdrawn(f) \/ "sinkFailed" \in reported[f])

Receiving(f) ==
  LET q == Other(Source[f]) IN
  stream[f] # 0 /\ ~closed[q] /\ incoming[q][stream[f]] = f

\* No accepted file is left half received: its sink is closed or aborted,
\* at the latest by close(), unless the sink itself failed or the sender had
\* run out of patience before the accept reached it.
SinksEnd ==
  \A f \in Files :
    Receiving(f) ~>
      (sink[f] # "open" \/ promise[f] = "timeout" \/ "sinkFailed" \in reported[f])

=============================================================================
