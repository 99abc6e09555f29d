-------------------------- MODULE TransferOrder_proofs --------------------------
(***************************************************************************)
(* More about TransferSession: what the order of one channel gives its     *)
(* receiver.  TransferSession_proofs argues about which messages are under *)
(* way; here it matters what is ahead of each of them.                     *)
(***************************************************************************)
EXTENDS TransferSession_proofs

-----------------------------------------------------------------------------
(***************************************************************************)
(* An offer is made once; a chunk, or done, comes with every earlier chunk *)
(* of its file in the digest or ahead of it.                               *)
(***************************************************************************)

\* The messages ahead of position j of s.
Before(s, j) == {s[k] : k \in 1..(j - 1)}

\* How many chunks are sent before m.
Due(m) == IF m.type = "chunk" THEN m.seq ELSE Chunks[m.file]

\* The first n chunks of f are in its digest or among the messages S.
Sent(f, s, n, S) ==
  \A i \in 0..(n - 1) : Chunk(f, i) \in hashes[f] \/ ChunkFrame(s, f, i) \in S

\* What is true of a message to p with the messages S ahead of it.
QueuedRight(p, m, S) ==
  /\ m.type = "offer" =>
       /\ sink[m.file] = "none" /\ reported[m.file] = {}
       /\ \A x \in S : x.type = "offer" => x.file # m.file
  /\ m.type = "chunk" => m.seq < Chunks[m.file]
  /\ m.type = "done" => sink[m.file] # "none"
  /\ m.type \in {"chunk", "done"} /\ incoming[p][m.stream] = m.file =>
       Sent(m.file, m.stream, Due(m), S)

\* The messages on their way to p, each with those ahead of it: the handlers
\* take all that is inbound before anything that is still on the wire.
Queue(p) ==
  {<<inbound[p][j], Before(inbound[p], j)>> : j \in 1..Len(inbound[p])}
    \cup {<<wire[p][j], Elements(inbound[p]) \cup Before(wire[p], j)>> : j \in 1..Len(wire[p])}

QueuesRight == \A p \in Peers : \A e \in Queue(p) : QueuedRight(p, e[1], e[2])

\* What is true of an awaiting handler of p.
TurnRight(p, w) ==
  /\ w.type = "offer" =>
       /\ sink[w.msg.file] = "none" /\ reported[w.msg.file] = {}
       /\ \A x \in Travelling(p) : x.type = "offer" => x.file # w.msg.file
  /\ w.type = "done" => hashes[w.arriving] = Contents(w.arriving)
  /\ w.type \in {"done", "cancel", "error"} =>
       sink[w.arriving] # "none" /\ reported[w.arriving] \subseteq {"sinkFailed"}

TurnsRight == \A p \in Peers : TurnRight(p, handling[p])

ArrivingRight ==
  \A p \in Peers, s \in StreamIds :
    LET f == incoming[p][s] IN
    f # NoFile => sink[f] # "none" /\ reported[f] \subseteq {"sinkFailed"}

\* What is true of a file, whoever sends it.
FileRight(f) ==
  LET q == Other(Source[f]) IN
  /\ next[f] <= Chunks[f]
  /\ hashes[f] \subseteq Contents(f)
  /\ sink[f] = "none" => next[f] = 0
  /\ stream[f] = 0 => sink[f] = "none" /\ reported[f] = {}
  /\ ~closed[Source[f]] /\ ~closed[q] /\ stream[f] # 0 /\ incoming[q][stream[f]] = f =>
       Sent(f, stream[f], next[f], Travelling(q))
  /\ "complete" \in reported[f] => hashes[f] = Contents(f)
  /\ "mismatch" \notin reported[f]
  /\ \E end \in Outcomes : reported[f] \subseteq {end, "sinkFailed"}
  /\ faults = 0 => stored[f] = hashes[f]

FilesRight == \A f \in Files : FileRight(f)

OrderKept == QueuesRight /\ TurnsRight /\ ArrivingRight /\ FilesRight

-----------------------------------------------------------------------------
(***************************************************************************)
(* The outgoing map, whether ids wrap or not: an id is given only when it  *)
(* is free, and whatever settles a send frees the id of that very send.    *)
(***************************************************************************)

\* f is a send of p that was begun, on the stream of id s.
Owns(p, s, f) == f \in Files /\ Source[f] = p /\ stream[f] = s /\ promise[f] # "unsent"

\* The handler of cancel and error settles, when its sink is aborted, the entry
\* it found when it began.
EntriesHeld ==
  \A p \in Peers :
    LET w == handling[p] IN
    w.type \in {"cancel", "error"} /\ w.entry # NoFile =>
      Owns(p, w.msg.stream, w.entry)

\* An offer timer is armed only by beginSend.
TimersBegun == \A f \in Files : timer[f] => stream[f] # 0 /\ promise[f] # "unsent"

\* The inductive invariant of the outgoing map.
EntriesOwned == TypeOK /\ Entered /\ EntryIsPending /\ EntriesHeld /\ TimersBegun

\* A step that settles at most the sends whose ids it frees.
LEMMA EntriesKept ==
  ASSUME EntryIsPending, TypeOK, stream' = stream,
         \A p \in Peers, s \in StreamIds :
           outgoing'[p][s] # NoFile =>
             /\ outgoing'[p][s] = outgoing[p][s]
             /\ promise'[outgoing[p][s]] = promise[outgoing[p][s]]
  PROVE  EntryIsPending'
BY DEF EntryIsPending

LEMMA FreeIsOnlyThat ==
  ASSUME TypeOK, NEW p \in Peers, NEW s \in StreamIds, NEW q \in Peers, NEW t \in StreamIds
  PROVE  Free(p, s)[q][t] = IF q = p /\ t = s THEN NoFile ELSE outgoing[q][t]
BY DEF TypeOK, Free

\* Freeing the id s of p and settling the file that owned it, if any did.
LEMMA EntriesSettled ==
  ASSUME EntryIsPending, TypeOK, stream' = stream,
         NEW p \in Peers, NEW s \in StreamIds, NEW f \in Files, NEW how,
         Source[f] = p, stream[f] = s,
         outgoing' = Free(p, s),
         promise' = promise \/ promise' = Settle(f, how)
  PROVE  EntryIsPending'
<1>1. ASSUME NEW q \in Peers, NEW t \in StreamIds, outgoing'[q][t] # NoFile
      PROVE  /\ outgoing'[q][t] = outgoing[q][t]
             /\ promise'[outgoing[q][t]] = promise[outgoing[q][t]]
  <2>1. ~(q = p /\ t = s) /\ outgoing'[q][t] = outgoing[q][t]
    BY <1>1, FreeIsOnlyThat
  <2>2. outgoing[q][t] \in Files /\ outgoing[q][t] # f
    BY <1>1, <2>1 DEF EntryIsPending, TypeOK
  <2>3. QED
    BY <2>1, <2>2 DEF Settle, TypeOK
<1>2. QED
  BY <1>1, EntriesKept

LEMMA EntriesSender ==
  ASSUME EntriesOwned, NEW f \in Files,
         BeginSend(f) \/ BeginSendClosed(f) \/ Cancel(f) \/ SenderStep(f)
  PROVE  EntryIsPending'
<1> USE DEF sendVars, recvVars, chanVars
<1>0. TypeOK /\ EntryIsPending /\ Source[f] \in Peers
  BY TransferAssumption DEF EntriesOwned
<1>i. stream[f] # 0 => stream[f] \in StreamIds
  BY <1>0 DEF TypeOK, StreamIds
<1>1. CASE BeginSend(f)
  <2> DEFINE p == Source[f]
             s == AllocateStreamId(p)
  <2>1. s \in StreamIds
    BY <1>0, <1>1, AllocateFree DEF BeginSend, TypeOK, FreeIds
  <2>2. ASSUME NEW q \in Peers, NEW t \in StreamIds, outgoing'[q][t] # NoFile
        PROVE  LET g == outgoing'[q][t] IN
               Source[g] = q /\ stream'[g] = t /\ promise'[g] = "pending"
    <3>1. CASE q = p /\ t = s
      BY <1>0, <1>1, <2>1, <3>1 DEF BeginSend, TypeOK
    <3>2. CASE ~(q = p /\ t = s)
      <4>1. outgoing'[q][t] = outgoing[q][t]
        BY <1>0, <1>1, <2>1, <3>2 DEF BeginSend, TypeOK
      <4>2. outgoing[q][t] \in Files /\ outgoing[q][t] # f
        BY <1>0, <1>1, <2>2, <4>1 DEF BeginSend, TypeOK, EntryIsPending
      <4>3. QED
        BY <1>0, <1>1, <2>2, <4>1, <4>2 DEF BeginSend, TypeOK, EntryIsPending
    <3>3. QED
      BY <3>1, <3>2
  <2>3. QED
    BY <2>2 DEF EntryIsPending
<1>2. CASE BeginSendClosed(f)
  <2>1. \A q \in Peers, t \in StreamIds :
          outgoing[q][t] # NoFile => promise'[outgoing[q][t]] = promise[outgoing[q][t]]
    BY <1>0, <1>2 DEF BeginSendClosed, TypeOK, EntryIsPending
  <2>2. QED
    BY <1>0, <1>2, <2>1, EntriesKept DEF BeginSendClosed
<1>3. CASE Cancel(f)
  BY <1>0, <1>i, <1>3, EntriesSettled DEF Cancel
<1>4. CASE PumpFails(f)
  <2>1. stream[f] \in StreamIds
    BY <1>i, <1>4 DEF PumpFails, Pumping, EntriesOwned, Entered
  <2>2. QED
    BY <1>0, <1>4, <2>1, EntriesSettled DEF PumpFails, PumpThrows
<1>5. CASE OfferTimeout(f) /\ outgoing[Source[f]][stream[f]] = f
  <2>1. outgoing' = Free(Source[f], stream[f]) /\ promise' = Settle(f, "timeout")
    BY <1>5 DEF OfferTimeout
  <2>2. stream[f] \in StreamIds
    BY <1>i, <1>5 DEF OfferTimeout, EntriesOwned, TimersBegun
  <2>3. QED
    BY <1>0, <1>5, <2>1, <2>2, EntriesSettled DEF OfferTimeout
<1>6. CASE UNCHANGED <<stream, outgoing, promise>>
  BY <1>0, <1>6, EntriesKept
<1>7. CASE OfferTimeout(f) /\ outgoing[Source[f]][stream[f]] # f
  BY <1>6, <1>7 DEF OfferTimeout
<1>8. QED
  BY <1>1, <1>2, <1>3, <1>4, <1>5, <1>6, <1>7
     DEF SenderStep, PumpChunk, PumpDone, PumpClosed

LEMMA EntriesHandler ==
  ASSUME EntriesOwned, NEW p \in Peers, Receive(p) \/ HandlerStep(p) \/ AnswerStep(p)
  PROVE  EntryIsPending'
<1> USE DEF sendVars, recvVars, chanVars
<1>0. TypeOK /\ EntryIsPending
  BY DEF EntriesOwned
<1>1. CASE UNCHANGED <<stream, outgoing, promise>>
  BY <1>0, <1>1, EntriesKept
<1>2. ASSUME NEW types, Turn(p, types), Entry(p) # NoFile
      PROVE  LET s == Head(inbound[p]).stream IN
             s \in StreamIds /\ Entry(p) \in Files /\ Source[Entry(p)] = p /\ stream[Entry(p)] = s
  BY <1>0, <1>2, TurnType, MessageFields DEF EntryIsPending, Entry
<1>3. CASE HandleReject(p) \/ HandleAck(p)
  BY <1>0, <1>2, <1>3, EntriesSettled DEF HandleReject, HandleAck
<1>4. CASE HandleEndEntry(p)
  BY <1>0, <1>2, <1>4, EntriesSettled DEF HandleEndEntry, EndEntry
<1>5. CASE EndArriving(p)
  <2> DEFINE w == handling[p]
  <2>1. w \in WorkSet /\ w.type \in {"cancel", "error"}
    BY <1>0, <1>5 DEF TypeOK, EndArriving, Finish
  <2>2. w.msg.stream \in StreamIds /\ w.entry \in Files \cup {NoFile}
    BY <2>1, WorkFields, MessageFields
  <2>3. CASE w.entry = NoFile
    BY <1>1, <1>5, <2>3 DEF EndArriving, EndEntry
  <2>4. CASE w.entry # NoFile
    <3>1. w.entry \in Files /\ Source[w.entry] = p /\ stream[w.entry] = w.msg.stream
      BY <2>1, <2>4 DEF EntriesOwned, EntriesHeld, Owns
    <3>2. stream' = stream /\ outgoing' = Free(p, w.msg.stream)
          /\ promise' = Settle(w.entry, "endedByPeer")
      BY <1>5, <2>4 DEF EndArriving, EndEntry
    <3>3. QED
      BY <1>0, <2>2, <3>1, <3>2, EntriesSettled
  <2>5. QED
    BY <2>3, <2>4
<1>6. QED
  BY <1>1, <1>3, <1>4, <1>5
     DEF Receive, HandlerStep, HandleUnknown, HandleAccept, BeginHandling,
         HandleChunk, CompleteTransfer, CompleteClosed, SinkCloseFails,
         AnswerStep, AcceptOffer, RejectOffer, SinkUnavailable, Finish

LEMMA EntriesClose ==
  ASSUME EntriesOwned, NEW p \in Peers, Close(p)
  PROVE  EntryIsPending'
<1>0. TypeOK /\ EntryIsPending
  BY DEF EntriesOwned
<1>1. ASSUME NEW q \in Peers, NEW t \in StreamIds, outgoing'[q][t] # NoFile
      PROVE  /\ outgoing'[q][t] = outgoing[q][t]
             /\ promise'[outgoing[q][t]] = promise[outgoing[q][t]]
  <2>1. q # p /\ outgoing'[q][t] = outgoing[q][t]
    BY <1>0, <1>1 DEF Close, TypeOK
  <2>2. outgoing[q][t] \in Files /\ Source[outgoing[q][t]] # p
    BY <1>0, <1>1, <2>1 DEF EntryIsPending, TypeOK
  <2>3. outgoing[q][t] \notin Outstanding(p)
    BY <1>0, <2>2, TransferAssumption DEF Outstanding, EntryIsPending
  <2>4. QED
    BY <2>1, <2>2, <2>3 DEF Close
<1>2. QED
  BY <1>0, <1>1, EntriesKept DEF Close

\* A send that was begun keeps its id and stays begun.
LEMMA OwnsStays ==
  ASSUME TypeOK, [Next]_vars, NEW f \in Files, promise[f] # "unsent"
  PROVE  stream'[f] = stream[f] /\ promise'[f] # "unsent"
<1> USE DEF sendVars, recvVars, chanVars
<1>1. CASE stream' = stream /\ promise' = promise
  BY <1>1
<1>2. ASSUME NEW g \in Files, BeginSend(g) \/ BeginSendClosed(g)
      PROVE  stream'[f] = stream[f] /\ promise'[f] # "unsent"
  BY <1>2 DEF BeginSend, BeginSendClosed, TypeOK
<1>3. ASSUME stream' = stream, NEW g, NEW how, how # "unsent", promise' = Settle(g, how)
      PROVE  stream'[f] = stream[f] /\ promise'[f] # "unsent"
  BY <1>3 DEF Settle, TypeOK
<1>4. ASSUME NEW g \in Files, Cancel(g) \/ SenderStep(g)
      PROVE  stream'[f] = stream[f] /\ promise'[f] # "unsent"
  <2>1. /\ stream' = stream
        /\ promise' = promise \/ \E how \in {"timeout", "failed"} : promise' = Settle(g, how)
    BY <1>4 DEF Cancel, SenderStep, PumpChunk, PumpDone, PumpFails, PumpThrows,
       PumpClosed, OfferTimeout
  <2>2. QED
    BY <1>1, <1>3, <2>1
<1>5. ASSUME NEW p \in Peers, Receive(p) \/ HandlerStep(p) \/ AnswerStep(p)
      PROVE  stream'[f] = stream[f] /\ promise'[f] # "unsent"
  <2>1. /\ stream' = stream
        /\ \/ promise' = promise
           \/ \E g : \E how \in {"declined", "resolved", "mismatch", "endedByPeer"} :
                promise' = Settle(g, how)
    BY <1>5 DEF Receive, HandlerStep, HandleUnknown, HandleAccept, HandleReject,
         HandleAck, HandleEndEntry, EndEntry, BeginHandling, HandleChunk,
         CompleteTransfer, CompleteClosed, SinkCloseFails, EndArriving,
         AnswerStep, AcceptOffer, RejectOffer, SinkUnavailable, Finish
  <2>2. QED
    BY <1>1, <1>3, <2>1
<1>6. ASSUME NEW p \in Peers, Close(p)
      PROVE  stream'[f] = stream[f] /\ promise'[f] # "unsent"
  BY <1>6 DEF Close, Settle, TypeOK
<1>7. CASE UNCHANGED vars
  BY <1>1, <1>7 DEF vars
<1>8. QED
  BY <1>2, <1>4, <1>5, <1>6, <1>7 DEF Next

\* A handler of p begins, ends or stays as it is.
LEMMA HandlingMoves ==
  ASSUME TypeOK, [Next]_vars, NEW p \in Peers
  PROVE  handling'[p] = handling[p] \/ handling'[p] = Idle \/ BeginHandling(p)
<1> USE DEF sendVars, recvVars, chanVars
<1>1. CASE UNCHANGED vars
  BY <1>1 DEF vars
<1>2. ASSUME NEW f \in Files,
             BeginSend(f) \/ BeginSendClosed(f) \/ Cancel(f) \/ SenderStep(f)
      PROVE  handling' = handling
  BY <1>2 DEF BeginSend, BeginSendClosed, Cancel, SenderStep, PumpChunk,
     PumpDone, PumpFails, PumpClosed, OfferTimeout
<1>3. ASSUME NEW q \in Peers, Receive(q) \/ HandlerStep(q) \/ AnswerStep(q) \/ Close(q)
      PROVE  \/ handling' = handling
             \/ handling' = [handling EXCEPT ![q] = Idle]
             \/ BeginHandling(q)
  BY <1>3 DEF Receive, HandlerStep, HandleUnknown, HandleAccept, HandleReject,
     HandleAck, HandleEndEntry, HandleChunk, CompleteTransfer,
     CompleteClosed, SinkCloseFails, EndArriving, Finish, AnswerStep,
     AcceptOffer, RejectOffer, SinkUnavailable, Close
<1>4. ASSUME NEW q \in Peers, q # p, BeginHandling(q) PROVE handling'[p] = handling[p]
  BY <1>4 DEF BeginHandling, TypeOK
<1>5. ASSUME NEW q \in Peers, handling' = [handling EXCEPT ![q] = Idle]
      PROVE  handling'[p] \in {handling[p], Idle}
  BY <1>5 DEF TypeOK
<1>6. QED
  BY <1>1, <1>2, <1>3, <1>4, <1>5 DEF Next

LEMMA EntriesHeldNext ==
  ASSUME EntriesOwned, [Next]_vars
  PROVE  EntriesHeld'
<1> USE DEF sendVars, recvVars, chanVars
<1> SUFFICES ASSUME NEW p \in Peers,
                    handling'[p].type \in {"cancel", "error"}, handling'[p].entry # NoFile
             PROVE  Owns(p, handling[p].msg.stream, handling[p].entry)'
  BY DEF EntriesHeld
<1>0. TypeOK /\ EntryIsPending
  BY DEF EntriesOwned
<1>1. CASE handling'[p] = handling[p]
  <2>1. Owns(p, handling[p].msg.stream, handling[p].entry)
    BY <1>1 DEF EntriesOwned, EntriesHeld
  <2>2. QED
    BY <1>0, <1>1, <2>1, OwnsStays DEF Owns
<1>2. CASE handling'[p] = Idle
  BY <1>2 DEF Idle
<1>3. CASE BeginHandling(p)
  <2>1. handling'[p] = Work(Head(inbound[p]), Entry(p), Arriving(p))
    BY <1>0, <1>3 DEF BeginHandling, TypeOK
  <2>2. handling'[p].entry = Entry(p) /\ handling'[p].msg = Head(inbound[p])
    BY <2>1 DEF Work
  <2>3. Head(inbound[p]).stream \in StreamIds /\ Entry(p) \in Files
    BY <1>0, <1>3, <2>2, TurnType, MessageFields DEF BeginHandling
  <2>4. Owns(p, Head(inbound[p]).stream, Entry(p))
    BY <1>0, <2>2, <2>3 DEF EntryIsPending, Entry, Owns
  <2>5. QED
    BY <1>0, <2>2, <2>4, OwnsStays DEF Owns
<1>4. QED
  BY <1>0, <1>1, <1>2, <1>3, HandlingMoves

LEMMA TimersNext ==
  ASSUME EntriesOwned, [Next]_vars
  PROVE  TimersBegun'
<1> USE DEF sendVars, recvVars, chanVars
<1>0. TypeOK /\ TimersBegun
  BY DEF EntriesOwned
<1>1. ASSUME \A f \in Files : timer'[f] => timer[f] PROVE TimersBegun'
  BY <1>0, <1>1, OwnsStays DEF TimersBegun
<1>2. ASSUME NEW f \in Files, BeginSend(f) PROVE TimersBegun'
  <2>1. stream'[f] # 0
    <3>1. AllocateStreamId(Source[f]) \in StreamIds
      BY <1>0, <1>2, AllocateFree, TransferAssumption DEF BeginSend, TypeOK, FreeIds
    <3>2. stream'[f] = AllocateStreamId(Source[f])
      BY <1>0, <1>2 DEF BeginSend, TypeOK
    <3>3. QED
      BY <3>1, <3>2 DEF StreamIds
  <2>2. \A g \in Files : g # f => timer'[g] = timer[g]
    BY <1>0, <1>2 DEF BeginSend, TypeOK
  <2>3. promise'[f] # "unsent"
    BY <1>0, <1>2 DEF BeginSend, TypeOK
  <2>4. QED
    BY <1>0, <2>1, <2>2, <2>3, OwnsStays DEF TimersBegun
<1>3. ASSUME timer' = timer \/ (\E f : timer' = [timer EXCEPT ![f] = FALSE]) \/ (\E f : Disarm(f))
      PROVE  TimersBegun'
  BY <1>0, <1>1, <1>3 DEF Disarm, TypeOK
<1>4. ASSUME NEW p \in Peers, Close(p) PROVE TimersBegun'
  BY <1>1, <1>4 DEF Close
<1>5. CASE UNCHANGED vars
  BY <1>3, <1>5 DEF vars
<1>6. ASSUME NEW f \in Files, BeginSendClosed(f) \/ Cancel(f) \/ SenderStep(f)
      PROVE  TimersBegun'
  BY <1>3, <1>6 DEF BeginSendClosed, Cancel, SenderStep, PumpChunk, PumpDone,
     PumpFails, PumpClosed, OfferTimeout
<1>7. ASSUME NEW p \in Peers, Receive(p) \/ HandlerStep(p) \/ AnswerStep(p)
      PROVE  TimersBegun'
  BY <1>3, <1>7 DEF Receive, HandlerStep, HandleUnknown, HandleAccept, HandleReject,
     HandleAck, HandleEndEntry, EndEntry, BeginHandling, HandleChunk,
     CompleteTransfer, CompleteClosed, SinkCloseFails, EndArriving,
     AnswerStep, AcceptOffer, RejectOffer, SinkUnavailable, Finish
<1>8. QED
  BY <1>2, <1>4, <1>5, <1>6, <1>7 DEF Next

\* The inductive invariant behind EntryIsPending, for any number of ids.
THEOREM EntriesInvariant == Spec => []EntriesOwned
<1>1. Init => EntriesOwned
  <2>1. Init => EntryIsPending /\ EntriesHeld /\ TimersBegun
    BY DEF Init, EntryIsPending, EntriesHeld, TimersBegun, Idle
  <2>2. QED
    BY <2>1, TypeInit, EnteredInit DEF EntriesOwned
<1>2. EntriesOwned /\ [Next]_vars => EntriesOwned'
  <2> SUFFICES ASSUME EntriesOwned, [Next]_vars PROVE EntriesOwned'
    OBVIOUS
  <2>1. TypeOK' /\ Entered'
    BY TypeNext, EnteredNext DEF EntriesOwned
  <2>2. EntryIsPending'
    <3>1. CASE UNCHANGED vars
      BY <3>1 DEF vars, EntriesOwned, EntryIsPending
    <3>2. QED
      BY <3>1, EntriesSender, EntriesHandler, EntriesClose DEF Next
  <2>3. QED
    BY <2>1, <2>2, EntriesHeldNext, TimersNext DEF EntriesOwned
<1>3. QED
  BY <1>1, <1>2, PTL DEF Spec

\* What settles a send has freed its id, also when ids wrap: an entry of the
\* outgoing map is that of a send nobody settled, under its own id.
THEOREM EntriesCorrect == Spec => []EntryIsPending
<1>1. EntriesOwned => EntryIsPending
  BY DEF EntriesOwned
<1>2. QED
  BY <1>1, EntriesInvariant, PTL

-----------------------------------------------------------------------------
(* The queue of a session, step by step. *)

LEMMA BeforeOf ==
  ASSUME NEW S, NEW s \in Seq(S)
  PROVE  /\ \A m \in S : \A j \in 1..Len(Append(s, m)) :
              \/ /\ j \in 1..Len(s) /\ Append(s, m)[j] = s[j]
                 /\ Before(Append(s, m), j) = Before(s, j)
              \/ /\ Append(s, m)[j] = m
                 /\ Before(Append(s, m), j) = Elements(s)
         /\ s # <<>> => \A j \in 1..Len(Tail(s)) :
              /\ j + 1 \in 1..Len(s) /\ Tail(s)[j] = s[j + 1]
              /\ Before(s, j + 1) = {Head(s)} \cup Before(Tail(s), j)
         /\ s # <<>> => 1 \in 1..Len(s) /\ Head(s) = s[1] /\ Before(s, 1) = {}
         /\ s # <<>> => Elements(s) = {Head(s)} \cup Elements(Tail(s))
         /\ \A n \in 0..Len(s) : \A j \in 1..Len(SubSeq(s, 1, n)) :
              /\ j \in 1..Len(s) /\ SubSeq(s, 1, n)[j] = s[j]
              /\ Before(SubSeq(s, 1, n), j) = Before(s, j)
<1>1. Len(s) \in Nat /\ DOMAIN s = 1..Len(s)
  BY LenProperties
<1>2. ASSUME NEW m \in S, NEW j \in 1..Len(Append(s, m))
      PROVE  \/ /\ j \in 1..Len(s) /\ Append(s, m)[j] = s[j]
                /\ Before(Append(s, m), j) = Before(s, j)
             \/ /\ Append(s, m)[j] = m
                /\ Before(Append(s, m), j) = Elements(s)
  <2> DEFINE a == Append(s, m)
  <2>1. Len(a) = Len(s) + 1 /\ a[Len(s) + 1] = m /\ \A i \in 1..Len(s) : a[i] = s[i]
    BY AppendProperties
  <2> HIDE DEF a
  <2>2. \A k \in 1..(j - 1) : k \in 1..Len(s) /\ a[k] = s[k]
    BY <1>1, <1>2, <2>1 DEF a
  <2>3. Before(a, j) = {s[k] : k \in 1..(j - 1)}
    BY <2>2 DEF Before
  <2>4. CASE j = Len(s) + 1
    BY <1>1, <2>1, <2>3, <2>4 DEF Elements, a
  <2>5. CASE j \in 1..Len(s)
    BY <2>1, <2>3, <2>5 DEF Before, a
  <2>6. QED
    BY <1>1, <1>2, <2>1, <2>4, <2>5 DEF a
<1>3. ASSUME s # <<>>
      PROVE  /\ Tail(s) \in Seq(S) /\ Len(Tail(s)) = Len(s) - 1 /\ Len(s) > 0
             /\ \A i \in 1..Len(Tail(s)) : Tail(s)[i] = s[i + 1]
             /\ Head(s) = s[1]
  BY <1>1, <1>3, HeadTailProperties, EmptySeq
<1>4. ASSUME s # <<>>, NEW j \in 1..Len(Tail(s))
      PROVE  /\ j + 1 \in 1..Len(s) /\ Tail(s)[j] = s[j + 1]
             /\ Before(s, j + 1) = {Head(s)} \cup Before(Tail(s), j)
  <2> DEFINE t == Tail(s)
  <2>1. /\ Len(t) = Len(s) - 1 /\ Head(s) = s[1]
        /\ \A i \in 1..Len(t) : t[i] = s[i + 1]
    BY <1>3, <1>4
  <2>2. j \in 1..Len(t)
    BY <1>4
  <2> HIDE DEF t
  <2>3. \A k \in 1..(j - 1) : k + 1 \in 1..j /\ t[k] = s[k + 1]
    BY <1>1, <2>1, <2>2
  <2>4. \A k \in 1..j : k = 1 \/ (k - 1 \in 1..(j - 1) /\ t[k - 1] = s[k])
    BY <1>1, <2>1, <2>2
  <2>5. 1 \in 1..j
    BY <1>1, <2>1, <2>2
  <2>6. {s[k] : k \in 1..j} = {s[1]} \cup {t[k] : k \in 1..(j - 1)}
    BY <2>3, <2>4, <2>5
  <2>7. j + 1 - 1 = j
    BY <1>1, <2>1, <2>2
  <2>8. QED
    BY <1>1, <2>1, <2>2, <2>6, <2>7 DEF Before, t
<1>5. ASSUME s # <<>>
      PROVE  Elements(s) = {Head(s)} \cup Elements(Tail(s))
  <2> DEFINE t == Tail(s)
  <2>1. /\ Len(t) = Len(s) - 1 /\ Head(s) = s[1] /\ DOMAIN t = 1..Len(t) /\ Len(s) > 0
        /\ \A i \in 1..Len(t) : t[i] = s[i + 1]
    BY <1>3, <1>5, LenProperties
  <2> HIDE DEF t
  <2>2. \A k \in DOMAIN t : k + 1 \in DOMAIN s /\ t[k] = s[k + 1]
    BY <1>1, <2>1
  <2>3. \A k \in DOMAIN s : k = 1 \/ (k - 1 \in DOMAIN t /\ t[k - 1] = s[k])
    BY <1>1, <2>1
  <2>4. 1 \in DOMAIN s
    BY <1>1, <2>1
  <2>5. {s[k] : k \in DOMAIN s} = {s[1]} \cup {t[k] : k \in DOMAIN t}
    BY <2>2, <2>3, <2>4
  <2>6. QED
    BY <2>1, <2>5 DEF Elements, t
<1>6. ASSUME s # <<>> PROVE 1 \in 1..Len(s) /\ Head(s) = s[1] /\ Before(s, 1) = {}
  BY <1>1, <1>3, <1>6 DEF Before
<1>7. ASSUME NEW n \in 0..Len(s), NEW j \in 1..Len(SubSeq(s, 1, n))
      PROVE  /\ j \in 1..Len(s) /\ SubSeq(s, 1, n)[j] = s[j]
             /\ Before(SubSeq(s, 1, n), j) = Before(s, j)
  <2> DEFINE t == SubSeq(s, 1, n)
  <2>1. Len(t) = n /\ \A i \in 1..n : t[i] = s[i]
    BY <1>1, SubSeqProperties
  <2>2. j \in 1..n /\ j \in 1..Len(s)
    BY <1>1, <1>7, <2>1
  <2> HIDE DEF t
  <2>3. \A k \in 1..(j - 1) : t[k] = s[k]
    BY <1>1, <2>1, <2>2
  <2>4. QED
    BY <2>1, <2>2, <2>3 DEF Before, t
<1>8. QED
  BY <1>2, <1>4, <1>5, <1>6, <1>7

LEMMA QueueTravels ==
  ASSUME TypeOK, NEW p \in Peers
  PROVE  /\ \A e \in Queue(p) : e[1] \in Travelling(p) /\ e[2] \subseteq Travelling(p)
         /\ \A x \in Travelling(p) : \E e \in Queue(p) : e[1] = x
<1>1. /\ DOMAIN inbound[p] = 1..Len(inbound[p]) /\ DOMAIN wire[p] = 1..Len(wire[p])
      /\ Len(inbound[p]) \in Nat /\ Len(wire[p]) \in Nat
  BY LenProperties DEF TypeOK
<1>2. ASSUME NEW j \in 1..Len(inbound[p])
      PROVE  inbound[p][j] \in Travelling(p) /\ Before(inbound[p], j) \subseteq Travelling(p)
  <2>1. 1..(j - 1) \subseteq 1..Len(inbound[p])
    BY <1>1
  <2>2. QED
    BY <1>1, <1>2, <2>1 DEF Before, Travelling
<1>3. ASSUME NEW j \in 1..Len(wire[p])
      PROVE  wire[p][j] \in Travelling(p) /\ Before(wire[p], j) \subseteq Travelling(p)
  <2>1. 1..(j - 1) \subseteq 1..Len(wire[p])
    BY <1>1
  <2>2. QED
    BY <1>1, <1>3, <2>1 DEF Before, Travelling
<1>4. Elements(inbound[p]) \subseteq Travelling(p)
  BY DEF Elements, Travelling
<1>5. \A e \in Queue(p) : e[1] \in Travelling(p) /\ e[2] \subseteq Travelling(p)
  BY <1>2, <1>3, <1>4 DEF Queue
<1>6. \A x \in Travelling(p) : \E e \in Queue(p) : e[1] = x
  <2>1. ASSUME NEW x \in Travelling(p)
        PROVE  \E e \in Queue(p) : e[1] = x
    <3>1. CASE \E i \in DOMAIN inbound[p] : x = inbound[p][i]
      <4>1. PICK i \in 1..Len(inbound[p]) : x = inbound[p][i]
        BY <1>1, <3>1
      <4>2. <<inbound[p][i], Before(inbound[p], i)>> \in Queue(p)
        BY DEF Queue
      <4>3. QED
        BY <4>1, <4>2
    <3>2. CASE \E i \in DOMAIN wire[p] : x = wire[p][i]
      <4>1. PICK i \in 1..Len(wire[p]) : x = wire[p][i]
        BY <1>1, <3>2
      <4>2. <<wire[p][i], Elements(inbound[p]) \cup Before(wire[p], i)>> \in Queue(p)
        BY DEF Queue
      <4>3. QED
        BY <4>1, <4>2
    <3>3. QED
      BY <2>1, <3>1, <3>2 DEF Travelling
  <2>2. QED
    BY <2>1
<1>7. QED
  BY <1>5, <1>6

LEMMA QueueTravelsNext ==
  TypeOK' =>
    (\A p \in Peers :
       /\ \A e \in Queue(p) : e[1] \in Travelling(p) /\ e[2] \subseteq Travelling(p)
       /\ \A x \in Travelling(p) : x \in Message /\ \E e \in Queue(p) : e[1] = x)'
<1>1. TypeOK =>
        \A p \in Peers :
          /\ \A e \in Queue(p) : e[1] \in Travelling(p) /\ e[2] \subseteq Travelling(p)
          /\ \A x \in Travelling(p) : x \in Message /\ \E e \in Queue(p) : e[1] = x
  BY QueueTravels, TravellingType
<1>2. QED
  BY <1>1, PTL

\* What p posts queues behind everything else, or reaches nobody.
LEMMA QueuePost ==
  ASSUME TypeOK, NEW p \in Peers, NEW m \in Message,
         wire' = Post(p, m), inbound' = inbound,
         NEW q \in Peers, NEW e \in Queue(q)'
  PROVE  \/ e \in Queue(q)
         \/ q = Other(p) /\ ~closed[q] /\ e[1] = m /\ e[2] = Travelling(q)
<1>1. wire[q] \in Seq(Message) /\ wire \in [Peers -> Seq(Message)]
  BY DEF TypeOK
<1>2. wire'[q] = wire[q] \/ (q = Other(p) /\ ~closed[q] /\ wire'[q] = Append(wire[q], m))
  BY <1>1, Others DEF Post
<1>3. CASE wire'[q] = wire[q]
  BY <1>3 DEF Queue
<1>4. CASE q = Other(p) /\ ~closed[q] /\ wire'[q] = Append(wire[q], m)
  <2>1. CASE e \in {<<inbound[q][j], Before(inbound[q], j)>> : j \in 1..Len(inbound[q])}
    BY <2>1 DEF Queue
  <2>2. CASE \E j \in 1..Len(wire'[q]) :
               e = <<wire'[q][j], Elements(inbound[q]) \cup Before(wire'[q], j)>>
    <3>1. PICK j \in 1..Len(wire'[q]) :
            e = <<wire'[q][j], Elements(inbound[q]) \cup Before(wire'[q], j)>>
      BY <2>2
    <3>2. \/ /\ j \in 1..Len(wire[q]) /\ wire'[q][j] = wire[q][j]
             /\ Before(wire'[q], j) = Before(wire[q], j)
          \/ /\ wire'[q][j] = m /\ Before(wire'[q], j) = Elements(wire[q])
      BY <1>1, <1>4, BeforeOf
    <3>3. QED
      BY <1>4, <3>1, <3>2, TravellingElements DEF Queue
  <2>3. QED
    BY <2>1, <2>2 DEF Queue
<1>5. QED
  BY <1>2, <1>3, <1>4

\* A turn takes the first message of a queue from ahead of all others.
LEMMA QueueTurn ==
  ASSUME TypeOK, NEW p \in Peers, NEW types, Turn(p, types), wire' = wire
  PROVE  /\ <<Head(inbound[p]), {}>> \in Queue(p)
         /\ \A q \in Peers : \A e \in Queue(q)' :
              \E d \in Queue(q) : /\ d[1] = e[1]
                                 /\ d[2] = IF q = p THEN {Head(inbound[p])} \cup e[2] ELSE e[2]
<1> DEFINE h == Head(inbound[p])
<1>1. /\ inbound[p] \in Seq(Message) /\ inbound[p] # <<>> /\ inbound \in [Peers -> Seq(Message)]
      /\ inbound' = [inbound EXCEPT ![p] = Tail(@)]
  BY DEF TypeOK, Turn
<1>2. <<h, {}>> \in Queue(p)
  BY <1>1, BeforeOf DEF Queue
<1>3. ASSUME NEW q \in Peers, q # p PROVE Queue(q)' = Queue(q)
  BY <1>1, <1>3 DEF Queue
<1>4. ASSUME NEW e \in Queue(p)'
      PROVE  \E d \in Queue(p) : d[1] = e[1] /\ d[2] = {h} \cup e[2]
  <2>1. inbound'[p] = Tail(inbound[p])
    BY <1>1
  <2>2. CASE \E j \in 1..Len(Tail(inbound[p])) :
               e = <<Tail(inbound[p])[j], Before(Tail(inbound[p]), j)>>
    <3>1. PICK j \in 1..Len(Tail(inbound[p])) :
            e = <<Tail(inbound[p])[j], Before(Tail(inbound[p]), j)>>
      BY <2>2
    <3>2. /\ j + 1 \in 1..Len(inbound[p]) /\ Tail(inbound[p])[j] = inbound[p][j + 1]
          /\ Before(inbound[p], j + 1) = {h} \cup Before(Tail(inbound[p]), j)
      BY <1>1, BeforeOf
    <3>3. <<inbound[p][j + 1], Before(inbound[p], j + 1)>> \in Queue(p)
      BY <3>2 DEF Queue
    <3>4. QED
      BY <3>1, <3>2, <3>3
  <2>3. CASE \E j \in 1..Len(wire[p]) :
               e = <<wire[p][j], Elements(Tail(inbound[p])) \cup Before(wire[p], j)>>
    <3>1. PICK j \in 1..Len(wire[p]) :
            e = <<wire[p][j], Elements(Tail(inbound[p])) \cup Before(wire[p], j)>>
      BY <2>3
    <3>2. Elements(inbound[p]) = {h} \cup Elements(Tail(inbound[p]))
      BY <1>1, BeforeOf
    <3>3. <<wire[p][j], Elements(inbound[p]) \cup Before(wire[p], j)>> \in Queue(p)
      BY DEF Queue
    <3>4. QED
      BY <3>1, <3>2, <3>3
  <2>4. QED
    BY <2>1, <2>2, <2>3 DEF Queue
<1>5. QED
  BY <1>2, <1>3, <1>4

\* Reading the wire moves its first message to the end of what is inbound; the
\* answer "seen" and an offer's "seen" that is acted on at once aside, no queue changes.
LEMMA QueueReceive ==
  ASSUME TypeOK, NEW p \in Peers, Receive(p), NEW q \in Peers, NEW e \in Queue(q)'
  PROVE  \/ e[1].type = "seen"
         \/ \E d \in Queue(q) : /\ d[1] = e[1]
                                /\ \A x \in e[2] : x \in d[2]
                                /\ \A x \in d[2] : x \in e[2] \/ x.type = "seen"
<1> DEFINE h == Head(wire[p])
           t == Tail(wire[p])
<1>1. /\ wire \in [Peers -> Seq(Message)] /\ inbound \in [Peers -> Seq(Message)]
      /\ wire[p] # <<>> /\ Other(p) \in Peers /\ Other(p) # p
      /\ h \in Message /\ t \in Seq(Message)
  BY Others, HeadTailProperties DEF TypeOK, Receive
<1>2. Control("seen", h.stream) \in Message /\ Control("seen", h.stream).type = "seen"
  BY <1>1, MessageFields, Messages
<1>3. /\ wire'[p] = t
      /\ wire'[Other(p)] = wire[Other(p)]
         \/ wire'[Other(p)] = Append(wire[Other(p)], Control("seen", h.stream))
      /\ inbound'[Other(p)] = inbound[Other(p)]
      /\ \/ h.type = "seen" /\ inbound'[p] = inbound[p]
         \/ inbound'[p] = Append(inbound[p], h)
  BY <1>1 DEF Receive
<1>4. CASE q = Other(p)
  <2>1. CASE wire'[q] = wire[q]
    <3>1. e \in Queue(q)
      BY <1>3, <1>4, <2>1 DEF Queue
    <3>2. QED
      BY <3>1
  <2>2. CASE wire'[q] = Append(wire[q], Control("seen", h.stream))
    <3>1. CASE e \in {<<inbound[q][j], Before(inbound[q], j)>> : j \in 1..Len(inbound[q])}
      BY <3>1 DEF Queue
    <3>2. CASE \E j \in 1..Len(wire'[q]) :
                 e = <<wire'[q][j], Elements(inbound[q]) \cup Before(wire'[q], j)>>
      <4>1. PICK j \in 1..Len(wire'[q]) :
              e = <<wire'[q][j], Elements(inbound[q]) \cup Before(wire'[q], j)>>
        BY <3>2
      <4>2. \/ /\ j \in 1..Len(wire[q]) /\ wire'[q][j] = wire[q][j]
               /\ Before(wire'[q], j) = Before(wire[q], j)
            \/ wire'[q][j].type = "seen"
        BY <1>1, <1>2, <2>2, BeforeOf
      <4>3. CASE wire'[q][j].type = "seen"
        BY <4>1, <4>3
      <4>4. CASE /\ j \in 1..Len(wire[q]) /\ wire'[q][j] = wire[q][j]
                 /\ Before(wire'[q], j) = Before(wire[q], j)
        <5>1. e \in Queue(q)
          BY <4>1, <4>4 DEF Queue
        <5>2. QED
          BY <5>1
      <4>5. QED
        BY <4>2, <4>3, <4>4
    <3>3. QED
      BY <1>3, <1>4, <3>1, <3>2 DEF Queue
  <2>3. QED
    BY <1>3, <1>4, <2>1, <2>2
<1>5. CASE q = p
  <2>i. /\ h = wire[p][1] /\ 1 \in 1..Len(wire[p]) /\ Before(wire[p], 1) = {}
        /\ \A j \in 1..Len(t) : /\ j + 1 \in 1..Len(wire[p]) /\ t[j] = wire[p][j + 1]
                                /\ Before(wire[p], j + 1) = {h} \cup Before(t, j)
    BY <1>1, BeforeOf
  <2>1. CASE \E j \in 1..Len(inbound'[p]) : e = <<inbound'[p][j], Before(inbound'[p], j)>>
    <3>1. PICK j \in 1..Len(inbound'[p]) : e = <<inbound'[p][j], Before(inbound'[p], j)>>
      BY <2>1
    <3>2. \/ /\ j \in 1..Len(inbound[p]) /\ inbound'[p][j] = inbound[p][j]
             /\ Before(inbound'[p], j) = Before(inbound[p], j)
          \/ inbound'[p][j] = h /\ Before(inbound'[p], j) = Elements(inbound[p])
      <4>1. CASE inbound'[p] = inbound[p]
        BY <3>1, <4>1
      <4>2. CASE inbound'[p] = Append(inbound[p], h)
        BY <1>1, <3>1, <4>2, BeforeOf
      <4>3. QED
        BY <1>3, <4>1, <4>2
    <3>3. CASE /\ j \in 1..Len(inbound[p]) /\ inbound'[p][j] = inbound[p][j]
               /\ Before(inbound'[p], j) = Before(inbound[p], j)
      <4>1. e \in Queue(p)
        BY <3>1, <3>3 DEF Queue
      <4>2. QED
        BY <1>5, <4>1
    <3>4. CASE inbound'[p][j] = h /\ Before(inbound'[p], j) = Elements(inbound[p])
      <4>1. <<wire[p][1], Elements(inbound[p]) \cup Before(wire[p], 1)>> \in Queue(p)
        BY <2>i DEF Queue
      <4>2. QED
        BY <1>5, <2>i, <3>1, <3>4, <4>1
    <3>5. QED
      BY <3>2, <3>3, <3>4
  <2>2. CASE \E j \in 1..Len(t) : e = <<t[j], Elements(inbound'[p]) \cup Before(t, j)>>
    <3>1. PICK j \in 1..Len(t) : e = <<t[j], Elements(inbound'[p]) \cup Before(t, j)>>
      BY <2>2
    <3>2. <<wire[p][j + 1], Elements(inbound[p]) \cup Before(wire[p], j + 1)>> \in Queue(p)
      BY <2>i, <3>1 DEF Queue
    <3>3. \/ Elements(inbound'[p]) = Elements(inbound[p]) \cup {h}
          \/ h.type = "seen" /\ Elements(inbound'[p]) = Elements(inbound[p])
      BY <1>1, <1>3, ElementsOf
    <3>4. t[j] = wire[p][j + 1] /\ Before(wire[p], j + 1) = {h} \cup Before(t, j)
      BY <2>i, <3>1
    <3> HIDE DEF h, t
    <3>5. QED
      BY <1>5, <3>1, <3>2, <3>3, <3>4
  <2>3. QED
    BY <1>3, <1>5, <2>1, <2>2 DEF Queue
<1>6. QED
  BY <1>4, <1>5, Others DEF Peers, Other

\* A close empties the queue of the closing end and cuts the other one short.
LEMMA QueueClose ==
  ASSUME TypeOK, NEW p \in Peers, Close(p), NEW q \in Peers
  PROVE  Queue(q)' \subseteq Queue(q)
<1>1. /\ wire \in [Peers -> Seq(Message)] /\ inbound \in [Peers -> Seq(Message)]
      /\ Other(p) \in Peers /\ Other(p) # p
  BY Others DEF TypeOK
<1>2. PICK n \in 0..Len(wire[Other(p)]) :
        wire' = [wire EXCEPT ![p] = <<>>, ![Other(p)] = SubSeq(@, 1, n)]
  BY DEF Close
<1>3. /\ wire'[p] = <<>> /\ inbound'[p] = <<>>
      /\ wire'[Other(p)] = SubSeq(wire[Other(p)], 1, n)
      /\ inbound'[Other(p)] = inbound[Other(p)]
  BY <1>1, <1>2 DEF Close
<1>4. CASE q = p
  <2>1. Len(wire'[q]) = 0 /\ Len(inbound'[q]) = 0
    BY <1>3, <1>4
  <2>2. QED
    BY <2>1 DEF Queue
<1>5. CASE q = Other(p)
  <2>1. ASSUME NEW j \in 1..Len(SubSeq(wire[q], 1, n))
        PROVE  /\ j \in 1..Len(wire[q]) /\ SubSeq(wire[q], 1, n)[j] = wire[q][j]
               /\ Before(SubSeq(wire[q], 1, n), j) = Before(wire[q], j)
    BY <1>1, <1>2, <1>5, BeforeOf
  <2>2. ASSUME NEW e \in Queue(q)' PROVE e \in Queue(q)
    <3>1. CASE e \in {<<inbound[q][j], Before(inbound[q], j)>> : j \in 1..Len(inbound[q])}
      BY <3>1 DEF Queue
    <3>2. CASE \E j \in 1..Len(wire'[q]) :
                 e = <<wire'[q][j], Elements(inbound[q]) \cup Before(wire'[q], j)>>
      <4>1. PICK j \in 1..Len(wire'[q]) :
              e = <<wire'[q][j], Elements(inbound[q]) \cup Before(wire'[q], j)>>
        BY <3>2
      <4>2. j \in 1..Len(wire[q]) /\ e = <<wire[q][j], Elements(inbound[q]) \cup Before(wire[q], j)>>
        BY <1>3, <1>5, <2>1, <4>1
      <4>3. QED
        BY <4>2 DEF Queue
    <3>3. QED
      BY <1>3, <1>5, <2>2, <3>1, <3>2 DEF Queue
  <2>3. QED
    BY <2>2
<1>6. QED
  BY <1>4, <1>5, Others DEF Peers, Other

-----------------------------------------------------------------------------
(* What a step does to a file at its receiving end. *)

\* Only the handler awaiting on behalf of a file, or a close, changes its sink,
\* and only that handler reports on it.
LEMMA Touched ==
  ASSUME TypeOK, [Next]_vars, NEW f \in Files
  PROVE  \/ sink'[f] = sink[f] /\ reported'[f] = reported[f]
         \/ \E p \in Peers : /\ handling[p].type = "offer" /\ f = handling[p].msg.file
                             /\ AnswerStep(p)
         \/ \E p \in Peers : /\ handling[p].type \in {"done", "cancel", "error"}
                             /\ f = handling[p].arriving
                             /\ \/ CompleteTransfer(p) \/ CompleteClosed(p)
                                \/ SinkCloseFails(p) \/ EndArriving(p)
         \/ \E p \in Peers : f \in Incomplete(p) /\ Close(p) /\ reported'[f] = reported[f]
<1> USE DEF sendVars, recvVars, chanVars
<1>1. CASE UNCHANGED <<sink, reported>>
  BY <1>1
<1>2. ASSUME NEW g \in Files, BeginSend(g) \/ BeginSendClosed(g) \/ Cancel(g) \/ SenderStep(g)
      PROVE  UNCHANGED <<sink, reported>>
  BY <1>2 DEF BeginSend, BeginSendClosed, Cancel, SenderStep, PumpChunk, PumpDone,
     PumpFails, PumpThrows, PumpClosed, OfferTimeout
<1>3. ASSUME NEW p \in Peers, Close(p)
      PROVE  \/ sink'[f] = sink[f] /\ reported'[f] = reported[f]
             \/ f \in Incomplete(p) /\ Close(p) /\ reported'[f] = reported[f]
  BY <1>3 DEF Close
<1>4. ASSUME NEW p \in Peers, AnswerStep(p)
      PROVE  \/ sink'[f] = sink[f] /\ reported'[f] = reported[f]
             \/ handling[p].type = "offer" /\ f = handling[p].msg.file
  <2>1. handling[p].type = "offer"
    BY <1>4 DEF AnswerStep, AcceptOffer, RejectOffer, SinkUnavailable, Finish
  <2>2. CASE f # handling[p].msg.file
    BY <1>4, <2>2 DEF AnswerStep, AcceptOffer, RejectOffer, SinkUnavailable, SinkThrows,
       Report, TypeOK
  <2>3. QED
    BY <2>1, <2>2
<1>5. ASSUME NEW p \in Peers, CompleteTransfer(p) \/ CompleteClosed(p)
                              \/ SinkCloseFails(p) \/ EndArriving(p)
      PROVE  \/ sink'[f] = sink[f] /\ reported'[f] = reported[f]
             \/ /\ handling[p].type \in {"done", "cancel", "error"}
                /\ f = handling[p].arriving
  <2>1. handling[p].type \in {"done", "cancel", "error"}
    BY <1>5 DEF CompleteTransfer, CompleteClosed, SinkCloseFails, EndArriving, Finish
  <2>2. CASE f # handling[p].arriving
    BY <1>5, <2>2 DEF CompleteTransfer, EndTransfer, CompleteClosed, SinkCloseFails, SinkThrows,
       EndArriving, Report, TypeOK
  <2>3. QED
    BY <2>1, <2>2
<1>6. ASSUME NEW p \in Peers, Receive(p) \/ HandlerStep(p)
      PROVE  \/ UNCHANGED <<sink, reported>>
             \/ CompleteTransfer(p) \/ CompleteClosed(p) \/ SinkCloseFails(p) \/ EndArriving(p)
  BY <1>6 DEF Receive, HandlerStep, HandleUnknown, HandleAccept, HandleReject,
     HandleAck, HandleEndEntry, EndEntry, BeginHandling, HandleChunk
<1>7. CASE UNCHANGED vars
  BY <1>1, <1>7 DEF vars
<1>8. QED
  BY <1>1, <1>2, <1>3, <1>4, <1>5, <1>6, <1>7 DEF Next

\* What an awaiting handler works for: a file the other end sends.
LEMMA WorksFor ==
  ASSUME AnswersTrue, NEW p \in Peers
  PROVE  LET w == handling[p] IN
         /\ w \in WorkSet
         /\ w.type \in {"offer", "done"} => /\ w.msg.file \in Files
                                            /\ Receives(p, w.msg.stream, w.msg.file)
         /\ w.type \in {"done", "cancel", "error"} =>
              w.arriving \in Files /\ Receives(p, w.msg.stream, w.arriving)
         /\ w.type = "done" => w.arriving = w.msg.file
         /\ w.type # "idle" => w.msg.stream \in StreamIds
<1> DEFINE w == handling[p]
<1>1. w \in WorkSet /\ WorkSound(p, w)
  BY DEF AnswersTrue, ChannelSound, TypeOK
<1> HIDE DEF w
<1>2. w.type # "idle" => w.msg.stream \in StreamIds
  BY <1>1, WorkFields, MessageFields
<1>3. w.type \in {"offer", "done"} => w.msg.file \in Files /\ Receives(p, w.msg.stream, w.msg.file)
  BY <1>1 DEF WorkSound, Receives, Sends
<1>4. w.type \in {"done", "cancel", "error"} =>
        w.arriving \in Files /\ Receives(p, w.msg.stream, w.arriving)
  BY <1>1 DEF WorkSound, Receives, Sends
<1>5. w.type = "done" => w.arriving = w.msg.file
  BY <1>2, <1>3, <1>4, SameFile DEF AnswersTrue, Receives
<1>6. QED
  BY <1>1, <1>2, <1>3, <1>4, <1>5 DEF w

\* A chunk of a stream goes into the digest of the file received on it, whose
\* chunk it is: the digest only grows, within the contents of the file.
LEMMA DigestsGrow ==
  ASSUME AnswersTrue, OrderKept, [Next]_vars, NEW f \in Files
  PROVE  /\ hashes[f] \subseteq hashes'[f] /\ hashes'[f] \subseteq Contents(f)
         /\ faults' = 0 => stored'[f] = hashes'[f]
<1> USE DEF sendVars, recvVars, chanVars
<1>0. /\ TypeOK /\ hashes[f] \subseteq Contents(f)
      /\ faults = 0 => stored[f] = hashes[f]
      /\ faults \in Nat
  BY DEF AnswersTrue, TypeOK, OrderKept, FilesRight, FileRight
<1>1. ASSUME UNCHANGED <<hashes, stored>>, faults' = 0 => faults = 0
      PROVE  /\ hashes[f] \subseteq hashes'[f] /\ hashes'[f] \subseteq Contents(f)
             /\ faults' = 0 => stored'[f] = hashes'[f]
  BY <1>0, <1>1
<1>2. ASSUME NEW p \in Peers, HandleChunk(p)
      PROVE  /\ hashes[f] \subseteq hashes'[f] /\ hashes'[f] \subseteq Contents(f)
             /\ faults' = 0 => stored'[f] = hashes'[f]
  <2> DEFINE g == Arriving(p)
             c == Chunk(Head(inbound[p]).file, Head(inbound[p]).seq)
  <2>1. PICK m \in Message : m = Head(inbound[p])
    BY <1>0, <1>2, TurnType DEF HandleChunk
  <2>2. m.type = "chunk" /\ m \in Travelling(p) /\ <<m, {}>> \in Queue(p)
    BY <1>0, <1>2, <2>1, TurnType, TravellingTurn, QueueTurn DEF HandleChunk
  <2>3. /\ Receives(p, m.stream, m.file) /\ Receives(p, m.stream, g)
        /\ m.stream \in StreamIds /\ g \in Files
    <3>1. MessageSound(p, m)
      BY <2>2 DEF AnswersTrue, ChannelSound
    <3>2. g # NoFile
      BY <1>2 DEF HandleChunk
    <3>3. QED
      BY <1>0, <1>2, <2>1, <2>2, <3>1, <3>2, EntrySends
         DEF HandleChunk, MessageSound, AnswersTrue, Receives, Sends
  <2>4. g = m.file
    BY <2>3, SameFile DEF AnswersTrue, Receives
  <2>5. m.seq \in Nat /\ m.seq < Chunks[m.file]
    <3>1. QueuedRight(p, m, {})
      BY <2>2 DEF OrderKept, QueuesRight
    <3>2. QED
      BY <2>2, <3>1, MessageFields DEF QueuedRight
  <2>6. c \in Contents(g) /\ c = Chunk(g, m.seq)
    BY <2>1, <2>3, <2>4, <2>5, TransferAssumption DEF Contents
  <2>7. ASSUME NEW S, S \subseteq Contents(g)
        PROVE  Digested(S, c) = S \cup {c} /\ Written(S, c) = S \cup {c}
    <3>1. \A h \in S : h.seq = c.seq => h = c
      BY <2>6, <2>7 DEF Contents, Chunk
    <3>2. QED
      BY <3>1 DEF Digested, Written
  <2>8. /\ hashes' = [hashes EXCEPT ![g] = Digested(@, c)]
        /\ \/ stored' = [stored EXCEPT ![g] = Written(@, c)] /\ UNCHANGED faults
           \/ faults' = faults + 1 /\ UNCHANGED stored
    BY <1>2 DEF HandleChunk
  <2> HIDE DEF c, g
  <2>9. CASE f = g
    <3>1. hashes'[f] = hashes[f] \cup {c}
      BY <1>0, <2>7, <2>8, <2>9 DEF TypeOK
    <3>2. faults = 0 => Written(stored[f], c) = hashes[f] \cup {c}
      BY <1>0, <2>7, <2>9
    <3>3. faults' = 0 => faults = 0 /\ stored'[f] = Written(stored[f], c)
      BY <1>0, <2>3, <2>8, <2>9 DEF TypeOK
    <3>4. QED
      BY <1>0, <2>6, <2>9, <3>1, <3>2, <3>3
  <2>10. CASE f # g
    <3>1. hashes'[f] = hashes[f] /\ stored'[f] = stored[f]
      BY <1>0, <2>8, <2>10 DEF TypeOK
    <3>2. QED
      BY <1>0, <2>8, <3>1
  <2>11. QED
    BY <2>9, <2>10
<1>3. CASE UNCHANGED vars
  BY <1>1, <1>3 DEF vars
<1>4. ASSUME NEW g \in Files, BeginSend(g) \/ BeginSendClosed(g) \/ Cancel(g) \/ SenderStep(g)
      PROVE  UNCHANGED <<hashes, stored>> /\ (faults' = 0 => faults = 0)
  BY <1>0, <1>4 DEF BeginSend, BeginSendClosed, Cancel, SenderStep, PumpChunk, PumpDone,
     PumpFails, PumpThrows, PumpClosed, OfferTimeout
<1>5. ASSUME NEW p \in Peers, Receive(p) \/ HandlerStep(p) \/ AnswerStep(p) \/ Close(p),
             ~HandleChunk(p)
      PROVE  UNCHANGED <<hashes, stored>> /\ (faults' = 0 => faults = 0)
  BY <1>0, <1>5 DEF Receive, HandlerStep, HandleUnknown, HandleAccept, HandleReject,
     HandleAck, HandleEndEntry, EndEntry, BeginHandling, CompleteTransfer, CompleteClosed,
     SinkCloseFails, SinkThrows, EndArriving, AnswerStep, AcceptOffer, RejectOffer,
     SinkUnavailable, Finish, Close
<1>6. QED
  BY <1>1, <1>2, <1>3, <1>4, <1>5 DEF Next

\* The file of an offer, or of a handler that awaits an answer, is not one of a
\* transfer: its stream has been given, its sink has not been opened.
LEMMA OffersUntouched ==
  ASSUME AnswersTrue, OrderKept, [Next]_vars, NEW p \in Peers,
         NEW m \in Travelling(p), m.type = "offer"
  PROVE  sink'[m.file] = "none" /\ reported'[m.file] = {}
<1>1. /\ TypeOK /\ m \in Message
      /\ Receives(p, m.stream, m.file) /\ m.file \in Files
  <2>1. TypeOK /\ MessageSound(p, m)
    BY DEF AnswersTrue, ChannelSound
  <2>2. QED
    BY <2>1, TravellingType DEF MessageSound, Receives, Sends
<1>2. sink[m.file] = "none" /\ reported[m.file] = {}
  <2>1. PICK e \in Queue(p) : e[1] = m
    BY <1>1, QueueTravels
  <2>2. QED
    BY <2>1 DEF OrderKept, QueuesRight, QueuedRight
<1>3. ASSUME NEW q \in Peers, Receives(q, m.stream, m.file) \/ \E s : Receives(q, s, m.file)
      PROVE  q = p
  BY <1>1, <1>3, Others DEF Receives, Sends
<1>4. ASSUME NEW q \in Peers, handling[q].type = "offer", m.file = handling[q].msg.file
      PROVE  FALSE
  <2>1. q = p
    BY <1>3, <1>4, WorksFor
  <2>2. QED
    BY <1>4, <2>1 DEF OrderKept, TurnsRight, TurnRight
<1>5. ASSUME NEW q \in Peers, handling[q].type \in {"done", "cancel", "error"},
             m.file = handling[q].arriving
      PROVE  FALSE
  BY <1>2, <1>5 DEF OrderKept, TurnsRight, TurnRight
<1>6. ASSUME NEW q \in Peers, m.file \in Incomplete(q) PROVE FALSE
  <2>1. PICK s \in StreamIds : incoming[q][s] = m.file
    BY <1>6 DEF Incomplete
  <2>2. m.file # NoFile
    BY <1>1, TransferAssumption
  <2>3. QED
    BY <1>2, <2>1, <2>2 DEF OrderKept, ArrivingRight
<1>7. QED
  BY <1>1, <1>2, <1>4, <1>5, <1>6, Touched

\* A stream that carries chunks of a file it is not yet mapped to never will be:
\* offers are accepted before their chunks are sent.
LEMMA IncomingStays ==
  ASSUME AnswersTrue, OrderKept, [Next]_vars, NEW p \in Peers,
         NEW s \in StreamIds, NEW f \in Files, sink[f] # "none", incoming'[p][s] = f
  PROVE  incoming[p][s] = f
<1> USE DEF sendVars, recvVars, chanVars
<1>0. TypeOK /\ f # NoFile
  BY TransferAssumption DEF AnswersTrue
<1>1. CASE UNCHANGED vars
  BY <1>1 DEF vars
<1>2. ASSUME NEW g \in Files, BeginSend(g) \/ BeginSendClosed(g) \/ Cancel(g) \/ SenderStep(g)
      PROVE  UNCHANGED incoming
  BY <1>2 DEF BeginSend, BeginSendClosed, Cancel, SenderStep, PumpChunk, PumpDone,
     PumpFails, PumpThrows, PumpClosed, OfferTimeout
<1>3. ASSUME NEW q \in Peers, NEW t, incoming' = Forget(q, t) PROVE incoming[p][s] = f
  BY <1>0, <1>3 DEF Forget, TypeOK
<1>4. ASSUME NEW q \in Peers, Receive(q) \/ HandlerStep(q) \/ AnswerStep(q), ~AcceptOffer(q)
      PROVE  \E t : incoming' = Forget(q, t) \/ incoming' = incoming
  BY <1>4 DEF Receive, HandlerStep, HandleUnknown, HandleAccept, HandleReject,
     HandleAck, HandleEndEntry, BeginHandling, HandleChunk, CompleteTransfer,
     EndTransfer, CompleteClosed, SinkCloseFails, EndArriving, AnswerStep,
     RejectOffer, SinkUnavailable
<1>5. ASSUME NEW q \in Peers, AcceptOffer(q) PROVE incoming[p][s] = f
  <2>1. handling[q].type = "offer"
        /\ incoming' = [incoming EXCEPT ![q][handling[q].msg.stream] = handling[q].msg.file]
    BY <1>5 DEF AcceptOffer, Finish
  <2>2. sink[handling[q].msg.file] = "none"
    BY <2>1 DEF OrderKept, TurnsRight, TurnRight
  <2>3. QED
    BY <1>0, <2>1, <2>2 DEF TypeOK
<1>6. ASSUME NEW q \in Peers, Close(q) PROVE incoming[p][s] = f
  BY <1>0, <1>6 DEF Close, TypeOK
<1>7. QED
  BY <1>1, <1>2, <1>3, <1>4, <1>5, <1>6 DEF Next

-----------------------------------------------------------------------------
(* What a step does to a queue. *)

\* A message ahead of others has gone for good reason: what it brought is kept.
Gone(p, x) ==
  x.type = "chunk" /\ incoming'[p][x.stream] = x.file => Chunk(x.file, x.seq) \in hashes'[x.file]

\* T follows S as the messages ahead of one: none is new that matters, and none
\* is missing that does.
Follows(p, S, T) ==
  /\ \A x \in T : x.type = "offer" => x \in S
  /\ \A x \in S : x \in T \/ Gone(p, x)

\* A new message that tells of a file comes from its sender, behind all others.
PostedTo(p, m) ==
  /\ ~closed[p]
  /\ \E f \in Files :
       /\ Source[f] = Other(p)
       /\ \/ BeginSend(f) /\ m = FileControl("offer", AllocateStreamId(Source[f]), f)
          \/ PumpChunk(f) /\ m = ChunkFrame(stream[f], f, next[f])
          \/ PumpDone(f) /\ m = FileControl("done", stream[f], f)

\* The first message of a queue is dropped only once it can be spared.
LEMMA HeadGone ==
  ASSUME AnswersTrue, OrderKept, NEW p \in Peers, HandlerStep(p), NEW types, Turn(p, types),
         NEW h, h = Head(inbound[p])
  PROVE  Gone(p, h)
<1> USE DEF sendVars, recvVars, chanVars
<1>0. TypeOK
  BY DEF AnswersTrue
<1>1. SUFFICES ASSUME h.type = "chunk", incoming'[p][h.stream] = h.file
               PROVE  Chunk(h.file, h.seq) \in hashes'[h.file]
  BY DEF Gone
<1>2. /\ h \in Message /\ h.file \in Files /\ h.file # NoFile /\ h.stream \in StreamIds
      /\ handling[p] = Idle
  <2>1. h \in Message /\ handling[p] = Idle
    BY <1>0, TurnType DEF Turn
  <2>2. QED
    BY <1>1, <2>1, MessageFields, TransferAssumption
<1>3. CASE HandleChunk(p)
  <2>1. Arriving(p) = h.file
    BY <1>1, <1>3 DEF HandleChunk, Arriving
  <2>2. hashes' = [hashes EXCEPT ![h.file] = Digested(@, Chunk(h.file, h.seq))]
    BY <1>3, <2>1 DEF HandleChunk
  <2>3. hashes'[h.file] = Digested(hashes[h.file], Chunk(h.file, h.seq))
    BY <1>0, <1>2, <2>2 DEF TypeOK
  <2>4. QED
    BY <2>3 DEF Digested
<1>4. CASE HandleUnknown(p)
  <2>1. Arriving(p) = NoFile
    BY <1>1, <1>4 DEF HandleUnknown, Turn
  <2>2. QED
    BY <1>1, <1>2, <1>4, <2>1 DEF HandleUnknown, Arriving
<1>5. QED
  BY <1>1, <1>2, <1>3, <1>4 DEF HandlerStep, HandleAccept, HandleReject, HandleAck,
     HandleEndEntry, BeginHandling, CompleteTransfer, CompleteClosed, SinkCloseFails,
     EndArriving, Finish, Turn, Idle

LEMMA QueueMoves ==
  ASSUME AnswersTrue, OrderKept, [Next]_vars, NEW p \in Peers, NEW e \in Queue(p)'
  PROVE  \/ e[1].type \notin {"offer", "chunk", "done"}
         \/ PostedTo(p, e[1]) /\ e[2] = Travelling(p)
         \/ \E d \in Queue(p) : d[1] = e[1] /\ Follows(p, d[2], e[2])
<1> USE DEF sendVars, recvVars, chanVars
<1>0. TypeOK /\ \A f \in Files : Source[f] \in Peers
  BY TransferAssumption DEF AnswersTrue
<1>1. ASSUME e \in Queue(p)
      PROVE  \E d \in Queue(p) : d[1] = e[1] /\ Follows(p, d[2], e[2])
  BY <1>1 DEF Follows
<1>2. CASE UNCHANGED <<wire, inbound>>
  BY <1>1, <1>2 DEF Queue
<1>3. ASSUME NEW q \in Peers, NEW m \in Message, wire' = Post(q, m), inbound' = inbound
      PROVE  \/ p = Other(q) /\ ~closed[p] /\ e[1] = m /\ e[2] = Travelling(p)
             \/ \E d \in Queue(p) : d[1] = e[1] /\ Follows(p, d[2], e[2])
  BY <1>0, <1>1, <1>3, QueuePost
<1>4. ASSUME NEW f \in Files, BeginSend(f) \/ BeginSendClosed(f) \/ Cancel(f) \/ SenderStep(f)
      PROVE  \/ e[1].type \notin {"offer", "chunk", "done"}
             \/ PostedTo(p, e[1]) /\ e[2] = Travelling(p)
             \/ \E d \in Queue(p) : d[1] = e[1] /\ Follows(p, d[2], e[2])
  <2> DEFINE q == Source[f]
  <2>0. q \in Peers /\ Other(Other(q)) = q
    BY <1>0, Others
  <2>i. stream[f] # 0 => stream[f] \in StreamIds
    BY <1>0 DEF TypeOK, StreamIds
  <2>1. CASE BeginSend(f)
    <3> DEFINE m == FileControl("offer", AllocateStreamId(q), f)
    <3>1. m \in Message
      BY <1>0, <2>1, AllocateFree, Messages DEF BeginSend, TypeOK, FreeIds
    <3>2. wire' = Post(q, m) /\ inbound' = inbound
      BY <2>1 DEF BeginSend
    <3> HIDE DEF m
    <3>3. CASE p = Other(q) /\ ~closed[p] /\ e[1] = m /\ e[2] = Travelling(p)
      BY <2>0, <2>1, <3>3 DEF PostedTo, m
    <3>4. QED
      BY <1>3, <2>0, <3>1, <3>2, <3>3
  <2>2. CASE PumpChunk(f)
    <3> DEFINE m == ChunkFrame(stream[f], f, next[f])
    <3>1. stream[f] \in StreamIds /\ next[f] \in Nat
      BY <1>0, <2>i, <2>2 DEF PumpChunk, Pumping, AnswersTrue, Entered, TypeOK
    <3>2. m \in Message /\ wire' = Post(q, m) /\ inbound' = inbound
      BY <2>2, <3>1, Messages DEF PumpChunk
    <3> HIDE DEF m
    <3>3. CASE p = Other(q) /\ ~closed[p] /\ e[1] = m /\ e[2] = Travelling(p)
      BY <2>0, <2>2, <3>3 DEF PostedTo, m
    <3>4. QED
      BY <1>3, <2>0, <3>2, <3>3
  <2>3. CASE PumpDone(f)
    <3> DEFINE m == FileControl("done", stream[f], f)
    <3>1. stream[f] \in StreamIds
      BY <1>0, <2>i, <2>3 DEF PumpDone, Pumping, AnswersTrue, Entered
    <3>2. m \in Message /\ wire' = Post(q, m) /\ inbound' = inbound
      BY <2>3, <3>1, Messages DEF PumpDone
    <3> HIDE DEF m
    <3>3. CASE p = Other(q) /\ ~closed[p] /\ e[1] = m /\ e[2] = Travelling(p)
      BY <2>0, <2>3, <3>3 DEF PostedTo, m
    <3>4. QED
      BY <1>3, <2>0, <3>2, <3>3
  <2>4. CASE Cancel(f) \/ PumpFails(f)
    <3>1. stream[f] \in StreamIds
      BY <2>i, <2>4 DEF Cancel, PumpFails, Pumping, AnswersTrue, Entered
    <3>2. \E t \in {"cancel", "error"} : wire' = Post(q, Control(t, stream[f]))
      BY <2>4 DEF Cancel, PumpFails, PumpThrows
    <3>3. PICK m \in Message : m.type \in {"cancel", "error"} /\ wire' = Post(q, m)
      BY <3>1, <3>2, Messages
    <3>4. inbound' = inbound
      BY <2>4 DEF Cancel, PumpFails
    <3>5. QED
      BY <1>3, <2>0, <3>3, <3>4
  <2>5. QED
    BY <1>2, <1>4, <2>1, <2>2, <2>3, <2>4
       DEF BeginSendClosed, SenderStep, PumpClosed, OfferTimeout
<1>5. ASSUME NEW q \in Peers, Receive(q)
      PROVE  \/ e[1].type \notin {"offer", "chunk", "done"}
             \/ \E d \in Queue(p) : d[1] = e[1] /\ Follows(p, d[2], e[2])
  <2>1. CASE e[1].type = "seen"
    BY <2>1
  <2>2. ASSUME NEW d \in Queue(p), d[1] = e[1], \A x \in e[2] : x \in d[2],
               \A x \in d[2] : x \in e[2] \/ x.type = "seen"
        PROVE  Follows(p, d[2], e[2])
    BY <2>2 DEF Follows, Gone
  <2>3. QED
    BY <1>0, <1>5, <2>1, <2>2, QueueReceive
<1>6. ASSUME NEW q \in Peers, Close(q)
      PROVE  \E d \in Queue(p) : d[1] = e[1] /\ Follows(p, d[2], e[2])
  BY <1>0, <1>1, <1>6, QueueClose
<1>7. ASSUME NEW q \in Peers, HandlerStep(q), NEW types, Turn(q, types), wire' = wire
      PROVE  \E d \in Queue(p) : d[1] = e[1] /\ Follows(p, d[2], e[2])
  <2>1. PICK d \in Queue(p) :
          d[1] = e[1] /\ d[2] = IF p = q THEN {Head(inbound[q])} \cup e[2] ELSE e[2]
    BY <1>0, <1>7, QueueTurn
  <2>2. Gone(q, Head(inbound[q]))
    BY <1>7, HeadGone
  <2>3. \A x \in e[2] : x \in d[2]
    BY <2>1
  <2>4. \A x \in d[2] : x \in e[2] \/ Gone(p, x)
    BY <2>1, <2>2
  <2>5. QED
    BY <2>1, <2>3, <2>4 DEF Follows
<1>8. ASSUME NEW q \in Peers, HandlerStep(q) \/ AnswerStep(q)
      PROVE  \/ e[1].type \notin {"offer", "chunk", "done"}
             \/ \E d \in Queue(p) : d[1] = e[1] /\ Follows(p, d[2], e[2])
  <2> DEFINE w == handling[q]
  <2>1. ASSUME w.type # "idle"
        PROVE  /\ w.msg.stream \in StreamIds
               /\ \A t \in {"accept", "reject"} :
                    Control(t, w.msg.stream) \in Message /\ Control(t, w.msg.stream).type = t
               /\ \A ok \in BOOLEAN : Ack(w.msg.stream, ok) \in Message
                                      /\ Ack(w.msg.stream, ok).type = "ack"
    BY <2>1, WorksFor, Messages
  <2>2. ASSUME NEW m \in Message, m.type \in {"accept", "reject", "ack"},
               wire' = Post(q, m), inbound' = inbound
        PROVE  \/ e[1].type \notin {"offer", "chunk", "done"}
               \/ \E d \in Queue(p) : d[1] = e[1] /\ Follows(p, d[2], e[2])
    BY <1>3, <2>2
  <2>3. CASE (AcceptOffer(q) \/ RejectOffer(q)) /\ ~closed[q]
    <3>1. /\ w.type = "offer" /\ inbound' = inbound
          /\ \E t \in {"accept", "reject"} : wire' = Post(q, Control(t, w.msg.stream))
      BY <2>3 DEF AcceptOffer, RejectOffer, Finish
    <3>2. QED
      BY <2>1, <2>2, <3>1
  <2>4. CASE CompleteTransfer(q)
    <3>1. /\ w.type = "done" /\ inbound' = inbound
          /\ wire' = Post(q, Ack(w.msg.stream, Verified(w)))
      BY <2>4 DEF CompleteTransfer, EndTransfer, Finish
    <3>2. Verified(w) \in BOOLEAN
      BY DEF Verified
    <3>3. QED
      BY <2>1, <2>2, <3>1, <3>2
  <2>5. CASE UNCHANGED <<wire, inbound>>
    BY <1>1, <2>5 DEF Queue
  <2>6. CASE HandlerStep(q) /\ \E types : Turn(q, types) /\ wire' = wire
    BY <1>7, <2>6
  <2>7. QED
    BY <1>8, <2>3, <2>4, <2>5, <2>6
       DEF HandlerStep, HandleUnknown, HandleAccept, HandleReject, HandleAck,
           HandleEndEntry, EndEntry, BeginHandling, HandleChunk, CompleteClosed,
           SinkCloseFails, SinkThrows, EndArriving, AnswerStep, AcceptOffer,
           RejectOffer, SinkUnavailable, Finish
<1>9. CASE UNCHANGED vars
  BY <1>2, <1>9 DEF vars
<1>10. QED
  BY <1>4, <1>5, <1>6, <1>8, <1>9 DEF Next

-----------------------------------------------------------------------------
(* The order is kept by every step. *)

LEMMA QueuesNext ==
  ASSUME NoWrap, AnswersTrue, OrderKept, [Next]_vars
  PROVE  QueuesRight'
<1> SUFFICES ASSUME NEW p \in Peers, NEW e \in Queue(p)'
             PROVE  QueuedRight(p, e[1], e[2])'
  BY DEF QueuesRight
<1> DEFINE m == e[1]
<1>0. /\ TypeOK /\ Grows /\ AnswersTrue'
      /\ \A f \in Files : Source[f] \in Peers
  BY AnswersNext, GrowsNext, TransferAssumption DEF AnswersTrue
<1>1. m \in Message /\ m \in Travelling(p)' /\ e[2] \subseteq Travelling(p)'
  BY <1>0, QueueTravelsNext DEF AnswersTrue
<1>2. CASE m.type \notin {"offer", "chunk", "done"}
  BY <1>2 DEF QueuedRight
<1>3. ASSUME NEW f \in Files, BeginSend(f) \/ PumpChunk(f) \/ PumpDone(f)
      PROVE  UNCHANGED <<incoming, hashes, sink, reported>>
  BY <1>3 DEF BeginSend, PumpChunk, PumpDone, recvVars
<1>4. CASE PostedTo(p, m) /\ e[2] = Travelling(p)
  <2>1. PICK f \in Files :
          /\ Source[f] = Other(p)
          /\ \/ BeginSend(f) /\ m = FileControl("offer", AllocateStreamId(Source[f]), f)
             \/ PumpChunk(f) /\ m = ChunkFrame(stream[f], f, next[f])
             \/ PumpDone(f) /\ m = FileControl("done", stream[f], f)
    BY <1>4 DEF PostedTo
  <2>2. FileRight(f) /\ Other(Source[f]) = p /\ ~closed[p] /\ next[f] \in Nat
    BY <1>0, <1>4, <2>1, Others DEF OrderKept, FilesRight, PostedTo, TypeOK
  <2>3. CASE BeginSend(f) /\ m = FileControl("offer", AllocateStreamId(Source[f]), f)
    <3>1. m.type = "offer" /\ m.file = f
      BY <2>3 DEF FileControl
    <3>2. stream[f] = 0
      BY <2>3 DEF BeginSend, AnswersTrue, IdsInOrder
    <3>3. sink[f] = "none" /\ reported[f] = {}
      BY <2>2, <3>2 DEF FileRight
    <3>4. ASSUME NEW x \in Travelling(p), x.type = "offer" PROVE x.file # f
      <4>1. MessageSound(p, x) /\ x \in Message
        BY <1>0, TravellingType DEF AnswersTrue, ChannelSound
      <4>2. stream[x.file] \in StreamIds
        BY <3>4, <4>1, MessageFields DEF MessageSound, Receives, Sends
      <4>3. QED
        BY <3>2, <4>2 DEF StreamIds
    <3> HIDE DEF m
    <3>5. QED
      BY <1>3, <1>4, <2>3, <3>1, <3>3, <3>4 DEF QueuedRight, m
  <2>4. CASE PumpChunk(f) /\ m = ChunkFrame(stream[f], f, next[f])
    <3>1. m.type = "chunk" /\ m.file = f /\ m.seq = next[f] /\ m.stream = stream[f]
      BY <2>4 DEF ChunkFrame
    <3>2. next[f] < Chunks[f]
      BY <2>2, <2>4, TransferAssumption DEF FileRight, PumpChunk, LoopEnds
    <3>3. incoming[p][stream[f]] = f => Sent(f, stream[f], next[f], Travelling(p))
      BY <2>2, <2>4 DEF FileRight, PumpChunk, Pumping, AnswersTrue, Entered
    <3> HIDE DEF m
    <3>4. incoming' = incoming /\ hashes' = hashes
      BY <1>3, <2>4
    <3>5. incoming'[p][m.stream] = m.file => Sent(m.file, m.stream, Due(m), e[2])'
      BY <1>4, <3>1, <3>3, <3>4 DEF Sent, Due, m
    <3>6. QED
      BY <3>1, <3>2, <3>5 DEF QueuedRight, m
  <2>5. CASE PumpDone(f) /\ m = FileControl("done", stream[f], f)
    <3>1. m.type = "done" /\ m.file = f /\ m.stream = stream[f]
      BY <2>5 DEF FileControl
    <3>2. next[f] = Chunks[f] /\ sink[f] # "none"
      BY <2>5 DEF PumpDone, Pumping, LoopEnds, AnswersTrue, PumpsAccepted
    <3>3. incoming[p][stream[f]] = f => Sent(f, stream[f], next[f], Travelling(p))
      BY <2>2, <2>5 DEF FileRight, PumpDone, Pumping, AnswersTrue, Entered
    <3>4. incoming' = incoming /\ hashes' = hashes /\ sink' = sink
      BY <1>3, <2>5
    <3> HIDE DEF m
    <3>5. incoming'[p][m.stream] = m.file => Sent(m.file, m.stream, Due(m), e[2])'
      BY <1>4, <3>1, <3>2, <3>3, <3>4 DEF Sent, Due, m
    <3>6. QED
      BY <3>1, <3>2, <3>4, <3>5 DEF QueuedRight, m
  <2>6. QED
    BY <2>1, <2>3, <2>4, <2>5
<1>5. ASSUME NEW d \in Queue(p), d[1] = m, Follows(p, d[2], e[2])
      PROVE  QueuedRight(p, m, e[2])'
  <2>1. QueuedRight(p, m, d[2]) /\ m \in Travelling(p) /\ MessageSound(p, m)
    BY <1>0, <1>5, QueueTravels DEF OrderKept, QueuesRight, AnswersTrue, ChannelSound
  <2> HIDE DEF m
  <2>2. m.type = "offer" => /\ sink'[m.file] = "none" /\ reported'[m.file] = {}
                            /\ \A x \in e[2] : x.type = "offer" => x.file # m.file
    BY <1>5, <2>1, OffersUntouched DEF QueuedRight, Follows
  <2>3. m.type = "chunk" => m.seq < Chunks[m.file]
    BY <2>1 DEF QueuedRight
  <2>4. m.type \in {"chunk", "done"} => m.file \in Files /\ m.stream \in StreamIds /\ sink[m.file] # "none"
    BY <1>1, <2>1, MessageFields DEF QueuedRight, MessageSound
  <2>5. m.type = "done" => sink'[m.file] # "none"
    BY <1>0, <2>4 DEF Grows
  <2>6. ASSUME m.type \in {"chunk", "done"}, incoming'[p][m.stream] = m.file
        PROVE  Sent(m.file, m.stream, Due(m), e[2])'
    <3>1. Sent(m.file, m.stream, Due(m), d[2])
      BY <2>1, <2>4, <2>6, IncomingStays DEF QueuedRight
    <3>2. hashes[m.file] \subseteq hashes'[m.file]
      BY <2>4, <2>6, DigestsGrow
    <3>3. ASSUME NEW i, ChunkFrame(m.stream, m.file, i) \in d[2]
          PROVE  Chunk(m.file, i) \in hashes'[m.file] \/ ChunkFrame(m.stream, m.file, i) \in e[2]
      BY <1>5, <2>6, <3>3 DEF Follows, Gone, ChunkFrame
    <3>4. QED
      BY <3>1, <3>2, <3>3 DEF Sent, Due
  <2>7. QED
    BY <2>2, <2>3, <2>5, <2>6 DEF QueuedRight
<1>6. QED
  BY <1>2, <1>4, <1>5, QueueMoves

\* An offer under way was so before, or was made by this very step.
LEMMA OffersTravel ==
  ASSUME AnswersTrue, OrderKept, [Next]_vars, NEW p \in Peers,
         NEW x \in Travelling(p)', x.type = "offer", TypeOK'
  PROVE  x \in Travelling(p) \/ \E f \in Files : BeginSend(f) /\ x.file = f
<1>1. PICK e \in Queue(p)' : e[1] = x
  BY QueueTravelsNext
<1>2. CASE PostedTo(p, e[1])
  BY <1>1, <1>2 DEF PostedTo, FileControl, ChunkFrame
<1>3. CASE \E d \in Queue(p) : d[1] = e[1]
  BY <1>1, <1>3, QueueTravels DEF AnswersTrue
<1>4. QED
  BY <1>1, <1>2, <1>3, QueueMoves

LEMMA TurnsNext ==
  ASSUME NoWrap, AnswersTrue, OrderKept, [Next]_vars
  PROVE  TurnsRight'
<1> SUFFICES ASSUME NEW p \in Peers PROVE TurnRight(p, handling[p])'
  BY DEF TurnsRight
<1> DEFINE w == handling[p]
<1>0. TypeOK /\ Grows /\ AnswersTrue' /\ TypeOK'
  BY AnswersNext, GrowsNext DEF AnswersTrue
<1>1. CASE handling'[p] = Idle
  BY <1>1 DEF TurnRight, Idle
<1>2. CASE handling'[p] = w /\ w # Idle
  <2>1. TurnRight(p, w) /\ w \in WorkSet
    BY <1>0, WorksFor DEF OrderKept, TurnsRight
  <2>2. ASSUME NEW q \in Peers, AnswerStep(q) \/ CompleteTransfer(q) \/ CompleteClosed(q)
                               \/ SinkCloseFails(q) \/ EndArriving(q)
        PROVE  q # p
    <3>1. handling'[q] = Idle
      BY <1>0, <2>2 DEF AnswerStep, AcceptOffer, RejectOffer, SinkUnavailable, CompleteTransfer,
         CompleteClosed, SinkCloseFails, EndArriving, Finish, TypeOK
    <3>2. QED
      BY <1>2, <3>1
  <2>3. ASSUME NEW f \in Files, NEW s \in StreamIds, Receives(p, s, f)
        PROVE  \/ sink'[f] = sink[f] /\ reported'[f] = reported[f]
               \/ sink[f] # "none" /\ reported'[f] = reported[f]
    <3>1. ASSUME NEW q \in Peers, NEW t \in StreamIds, Receives(q, t, f) PROVE q = p
      BY <2>3, <3>1, Others DEF Receives, Sends
    <3>2. ASSUME NEW q \in Peers, f \in Incomplete(q) PROVE sink[f] # "none"
      BY <3>2, TransferAssumption DEF Incomplete, OrderKept, ArrivingRight
    <3>3. QED
      BY <1>0, <2>2, <3>1, <3>2, Touched, WorksFor
  <2>4. CASE w.type = "offer"
    <3>1. /\ w.msg.file \in Files /\ w.msg.stream \in StreamIds
          /\ Receives(p, w.msg.stream, w.msg.file)
      BY <2>4, WorksFor
    <3>2. sink'[w.msg.file] = "none" /\ reported'[w.msg.file] = {}
      BY <2>1, <2>3, <2>4, <3>1 DEF TurnRight
    <3>3. ASSUME NEW x \in Travelling(p)', x.type = "offer" PROVE x.file # w.msg.file
      <4>1. CASE x \in Travelling(p)
        BY <2>1, <2>4, <3>3, <4>1 DEF TurnRight
      <4>2. CASE \E f \in Files : BeginSend(f) /\ x.file = f
        BY <3>1, <4>2 DEF BeginSend, AnswersTrue, IdsInOrder, Receives, Sends, StreamIds
      <4>3. QED
        BY <1>0, <3>3, <4>1, <4>2, OffersTravel
    <3>4. QED
      BY <1>2, <2>4, <3>2, <3>3 DEF TurnRight
  <2>5. CASE w.type \in {"done", "cancel", "error"}
    <3>1. /\ w.arriving \in Files /\ w.msg.stream \in StreamIds
          /\ Receives(p, w.msg.stream, w.arriving)
      BY <2>5, WorksFor
    <3>2. sink'[w.arriving] # "none" /\ reported'[w.arriving] \subseteq {"sinkFailed"}
      BY <1>0, <2>1, <2>3, <2>5, <3>1 DEF TurnRight, Grows
    <3>3. w.type = "done" => hashes'[w.arriving] = Contents(w.arriving)
      <4>1. PICK g \in Files : g = w.arriving
        BY <3>1
      <4>2. w.type = "done" => hashes[g] = Contents(g)
        BY <2>1, <4>1 DEF TurnRight
      <4>3. hashes[g] \subseteq hashes'[g] /\ hashes'[g] \subseteq Contents(g)
        BY DigestsGrow
      <4>4. QED
        BY <4>1, <4>2, <4>3
    <3>4. QED
      BY <1>2, <2>5, <3>2, <3>3, TransferAssumption DEF TurnRight, Contents
  <2>6. QED
    BY <1>2, <2>1, <2>4, <2>5, WorkFields DEF WorkSet, Idle, TurnRight
<1>3. CASE BeginHandling(p)
  <2> DEFINE m == Head(inbound[p])
             g == Arriving(p)
  <2>1. /\ handling'[p] = Work(m, Entry(p), g)
        /\ UNCHANGED <<hashes, sink, reported, incoming>>
    BY <1>0, <1>3 DEF BeginHandling, TypeOK, recvVars
  <2>2. PICK types : Turn(p, types) /\ types \subseteq {"offer", "done", "cancel", "error"}
    BY <1>3 DEF BeginHandling
  <2>3. /\ <<m, {}>> \in Queue(p)
        /\ \A e \in Queue(p)' : \E d \in Queue(p) : d[1] = e[1] /\ d[2] = {m} \cup e[2]
    BY <1>0, <1>3, <2>2, QueueTurn DEF BeginHandling
  <2>4. QueuedRight(p, m, {}) /\ m \in Message /\ m \in Travelling(p)
    BY <1>0, <1>3, <2>2, <2>3, TurnType, TravellingTurn DEF OrderKept, QueuesRight, BeginHandling
  <2>5. /\ handling'[p].type = m.type /\ handling'[p].msg = m /\ handling'[p].arriving = g
        /\ m.type # "offer" => g # NoFile
        /\ m.type = "offer" => g = NoFile
        /\ m.type \in {"offer", "done", "cancel", "error"}
    BY <1>3, <2>1 DEF Work, BeginHandling, Turn
  <2>6. g # NoFile => /\ m.stream \in StreamIds /\ Receives(p, m.stream, g) /\ g \in Files
                      /\ sink[g] # "none" /\ reported[g] \subseteq {"sinkFailed"}
                      /\ incoming[p][m.stream] = g
    BY <1>0, <2>2, EntrySends DEF OrderKept, ArrivingRight, Arriving, AnswersTrue, Receives, Sends
  <2>7. ASSUME m.type = "offer", NEW x \in Travelling(p)', x.type = "offer"
        PROVE  x.file # m.file
    <3>1. PICK e \in Queue(p)' : e[1] = x
      BY <1>0, <2>7, QueueTravelsNext
    <3>2. PICK d \in Queue(p) : d[1] = x /\ d[2] = {m} \cup e[2]
      BY <2>3, <3>1
    <3>3. QueuedRight(p, x, d[2])
      BY <3>2 DEF OrderKept, QueuesRight
    <3>4. QED
      BY <2>7, <3>2, <3>3 DEF QueuedRight
  <2>8. m.type = "done" => hashes[g] = Contents(g)
    <3>1. SUFFICES ASSUME m.type = "done" PROVE hashes[g] = Contents(g)
      OBVIOUS
    <3>2. Receives(p, m.stream, m.file)
      BY <2>4, <3>1 DEF AnswersTrue, ChannelSound, MessageSound
    <3>3. g = m.file /\ g \in Files
      BY <2>5, <2>6, <3>1, <3>2, SameFile DEF AnswersTrue, Receives
    <3>4. Sent(g, m.stream, Chunks[g], {})
      BY <2>4, <2>5, <2>6, <3>1, <3>3 DEF QueuedRight, Due
    <3>5. Contents(g) \subseteq hashes[g]
      BY <3>4 DEF Sent, Contents
    <3>6. QED
      BY <3>3, <3>5 DEF OrderKept, FilesRight, FileRight
  <2> HIDE DEF m, g
  <2>9. m.type = "offer" => sink[m.file] = "none" /\ reported[m.file] = {}
    BY <2>4 DEF QueuedRight
  <2>10. QED
    BY <2>1, <2>5, <2>6, <2>7, <2>8, <2>9 DEF TurnRight, Contents
<1>4. QED
  BY <1>0, <1>1, <1>2, <1>3, HandlingMoves

\* What is reported of a file, and when.
LEMMA Reports ==
  ASSUME AnswersTrue, OrderKept, [Next]_vars, NEW f \in Files
  PROVE  \/ reported'[f] = reported[f]
         \/ /\ reported[f] = {} /\ sink[f] = "none" /\ stream[f] # 0
            /\ \/ reported'[f] = {"sinkFailed"} /\ sink'[f] = "none"
               \/ reported'[f] = {"declined"} /\ sink'[f] = "none"
         \/ /\ reported[f] \subseteq {"sinkFailed"} /\ sink[f] # "none"
            /\ \/ reported'[f] = {"sinkFailed"}
               \/ /\ reported'[f] = reported[f] \cup {"complete"}
                  /\ hashes[f] = Contents(f) /\ hashes'[f] = Contents(f)
                  /\ \A p \in Peers, s \in StreamIds : incoming'[p][s] # f
               \/ /\ reported'[f] = reported[f] \cup {"ended"}
                  /\ \A p \in Peers, s \in StreamIds : incoming'[p][s] # f
<1>0. TypeOK /\ f # NoFile
  BY TransferAssumption DEF AnswersTrue
<1>1. ASSUME NEW p \in Peers, handling[p].type = "offer", f = handling[p].msg.file, AnswerStep(p)
      PROVE  \/ reported'[f] = reported[f]
             \/ /\ reported[f] = {} /\ sink[f] = "none" /\ stream[f] # 0
                /\ reported'[f] \in {{"sinkFailed"}, {"declined"}} /\ sink'[f] = "none"
  <2>1. sink[f] = "none" /\ reported[f] = {}
    BY <1>1 DEF OrderKept, TurnsRight, TurnRight
  <2>2. stream[f] # 0
    BY <1>1, WorksFor DEF Receives, Sends, StreamIds
  <2>3. CASE AcceptOffer(p)
    BY <2>3 DEF AcceptOffer
  <2>4. CASE RejectOffer(p)
    BY <1>0, <1>1, <2>1, <2>2, <2>4 DEF RejectOffer, Report, TypeOK
  <2>5. CASE SinkUnavailable(p)
    BY <1>0, <1>1, <2>1, <2>2, <2>5 DEF SinkUnavailable, SinkThrows, Report, TypeOK
  <2>6. QED
    BY <1>1, <2>3, <2>4, <2>5 DEF AnswerStep
<1>2. ASSUME NEW p \in Peers, handling[p].type \in {"done", "cancel", "error"},
             f = handling[p].arriving,
             CompleteTransfer(p) \/ CompleteClosed(p) \/ SinkCloseFails(p) \/ EndArriving(p)
      PROVE  \/ reported'[f] = reported[f]
             \/ /\ reported[f] \subseteq {"sinkFailed"} /\ sink[f] # "none"
                /\ \/ reported'[f] = {"sinkFailed"}
                   \/ /\ reported'[f] = reported[f] \cup {"complete"}
                      /\ hashes[f] = Contents(f) /\ hashes'[f] = Contents(f)
                      /\ \A q \in Peers, s \in StreamIds : incoming'[q][s] # f
                   \/ /\ reported'[f] = reported[f] \cup {"ended"}
                      /\ \A q \in Peers, s \in StreamIds : incoming'[q][s] # f
  <2> DEFINE w == handling[p]
  <2>1. reported[f] \subseteq {"sinkFailed"} /\ sink[f] # "none"
    BY <1>2 DEF OrderKept, TurnsRight, TurnRight
  <2>2. w.msg.stream \in StreamIds /\ Receives(p, w.msg.stream, f)
    BY <1>2, WorksFor
  <2>3. ASSUME incoming' = Forget(p, w.msg.stream), NEW q \in Peers, NEW s \in StreamIds
        PROVE  incoming'[q][s] # f
    <3>1. CASE incoming[q][s] = f
      <4>1. Receives(q, s, f)
        BY <1>0, <3>1 DEF AnswersTrue, MapsSound
      <4>2. q = p /\ s = w.msg.stream
        BY <2>2, <4>1, Others DEF Receives, Sends
      <4>3. QED
        BY <1>0, <2>3, <4>2 DEF Forget, TypeOK
    <3>2. CASE incoming[q][s] # f
      BY <1>0, <2>3, <3>2 DEF Forget, TypeOK
    <3>3. QED
      BY <3>1, <3>2
  <2>4. CASE CompleteTransfer(p)
    <3>1. w.type = "done" /\ w.arriving = w.msg.file /\ hashes' = hashes
      BY <2>4, WorksFor DEF CompleteTransfer, Finish
    <3>2. hashes[f] = Contents(f) /\ Verified(w)
      BY <1>2, <3>1 DEF OrderKept, TurnsRight, TurnRight, Verified
    <3>3. /\ reported'[f] = reported[f] \cup {"complete"}
          /\ incoming' = Forget(p, w.msg.stream)
      BY <1>0, <1>2, <2>4, <3>2 DEF CompleteTransfer, EndTransfer, Report, TypeOK
    <3>4. QED
      BY <2>1, <2>3, <3>1, <3>2, <3>3
  <2>5. CASE CompleteClosed(p)
    BY <2>5 DEF CompleteClosed
  <2>6. CASE SinkCloseFails(p)
    BY <1>0, <1>2, <2>1, <2>6 DEF SinkCloseFails, SinkThrows, Report, TypeOK
  <2>7. CASE EndArriving(p)
    <3>1. /\ reported'[f] = reported[f] \cup {"ended"}
          /\ incoming' = Forget(p, w.msg.stream)
      BY <1>0, <1>2, <2>7 DEF EndArriving, Report, TypeOK
    <3>2. QED
      BY <2>1, <2>3, <3>1
  <2>8. QED
    BY <1>2, <2>4, <2>5, <2>6, <2>7
<1>3. QED
  BY <1>0, <1>1, <1>2, Touched

LEMMA ArrivingNext ==
  ASSUME NoWrap, AnswersTrue, OrderKept, [Next]_vars
  PROVE  ArrivingRight'
<1> SUFFICES ASSUME NEW p \in Peers, NEW s \in StreamIds, incoming'[p][s] # NoFile
             PROVE  /\ sink'[incoming'[p][s]] # "none"
                    /\ reported'[incoming'[p][s]] \subseteq {"sinkFailed"}
  BY DEF ArrivingRight
<1>0. TypeOK /\ TypeOK' /\ Grows
  BY AnswersNext, GrowsNext DEF AnswersTrue
<1>1. PICK f \in Files : f = incoming'[p][s]
  BY <1>0 DEF TypeOK
<1>2. CASE sink[f] # "none"
  <2>1. incoming[p][s] = f
    BY <1>1, <1>2, IncomingStays
  <2>2. reported[f] \subseteq {"sinkFailed"}
    BY <1>1, <2>1 DEF OrderKept, ArrivingRight
  <2>3. reported'[f] \subseteq {"sinkFailed"}
    BY <1>1, <1>2, <2>2, Reports
  <2>4. QED
    BY <1>0, <1>1, <1>2, <2>3 DEF Grows
<1>3. CASE sink[f] = "none"
  <2>1. incoming[p][s] # f
    BY <1>1, <1>3 DEF OrderKept, ArrivingRight
  <2>2. PICK q \in Peers : AcceptOffer(q)
    <3>1. CASE UNCHANGED incoming
      BY <1>1, <2>1, <3>1
    <3>2. ASSUME NEW q \in Peers, NEW t, incoming' = Forget(q, t) PROVE FALSE
      BY <1>0, <1>1, <2>1, <3>2 DEF Forget, TypeOK
    <3>3. ASSUME NEW q \in Peers, Close(q) PROVE FALSE
      BY <1>0, <1>1, <2>1, <3>3 DEF Close, TypeOK
    <3>4. ASSUME NEW q \in Peers, Receive(q) \/ HandlerStep(q) \/ AnswerStep(q), ~AcceptOffer(q)
          PROVE  \E t : incoming' = Forget(q, t) \/ incoming' = incoming
      BY <3>4 DEF Receive, HandlerStep, HandleUnknown, HandleAccept, HandleReject,
         HandleAck, HandleEndEntry, BeginHandling, HandleChunk, CompleteTransfer,
         EndTransfer, CompleteClosed, SinkCloseFails, EndArriving, AnswerStep,
         RejectOffer, SinkUnavailable, recvVars
    <3>5. ASSUME NEW g \in Files, BeginSend(g) \/ BeginSendClosed(g) \/ Cancel(g) \/ SenderStep(g)
          PROVE  UNCHANGED incoming
      BY <3>5 DEF BeginSend, BeginSendClosed, Cancel, SenderStep, PumpChunk, PumpDone,
         PumpFails, PumpThrows, PumpClosed, OfferTimeout, recvVars
    <3>6. QED
      BY <3>1, <3>2, <3>3, <3>4, <3>5 DEF Next, vars
  <2>3. /\ handling[q].type = "offer"
        /\ incoming' = [incoming EXCEPT ![q][handling[q].msg.stream] = handling[q].msg.file]
        /\ sink' = [sink EXCEPT ![handling[q].msg.file] = "open"]
        /\ reported' = reported
    BY <2>2 DEF AcceptOffer, Finish
  <2>4. f = handling[q].msg.file
    BY <1>0, <1>1, <2>1, <2>3 DEF TypeOK
  <2>5. reported[f] = {} /\ sink'[f] = "open"
    BY <1>0, <2>3, <2>4 DEF OrderKept, TurnsRight, TurnRight, TypeOK
  <2>6. QED
    BY <1>1, <2>3, <2>5
<1>4. QED
  BY <1>2, <1>3

\* No chunk is lost between two open ends.
LEMMA ChunksStay ==
  ASSUME AnswersTrue, OrderKept, [Next]_vars, NEW q \in Peers,
         NEW x \in Travelling(q), x.type = "chunk", \A p \in Peers : ~Close(p)
  PROVE  x \in Travelling(q)' \/ Gone(q, x)
<1> USE DEF sendVars, recvVars, chanVars
<1>0. /\ TypeOK /\ TypeOK /\ wire \in [Peers -> Seq(Message)] /\ inbound \in [Peers -> Seq(Message)]
      /\ x \in Elements(wire[q]) \/ x \in Elements(inbound[q])
  BY TravellingElements DEF AnswersTrue, TypeOK
<1>i. Travelling(q)' = Elements(wire'[q]) \cup Elements(inbound'[q])
  BY DEF Travelling, Elements
<1>1. CASE UNCHANGED <<wire, inbound>>
  BY <1>1 DEF Travelling
<1>2. ASSUME NEW p \in Peers, NEW m \in Message, wire' = Post(p, m), inbound' = inbound
      PROVE  x \in Travelling(q)'
  <2>1. wire'[q] = wire[q] \/ wire'[q] = Append(wire[q], m)
    BY <1>0, <1>2, Others DEF Post
  <2>2. Elements(wire[q]) \subseteq Elements(wire'[q])
    <3>1. wire[q] \in Seq(Message)
      BY <1>0
    <3>2. Elements(Append(wire[q], m)) = Elements(wire[q]) \cup {m}
      BY <1>2, <3>1, ElementsOf
    <3>3. QED
      BY <2>1, <3>2
  <2>3. QED
    BY <1>0, <1>2, <1>i, <2>2
<1>3. ASSUME NEW p \in Peers, Receive(p) PROVE x \in Travelling(q)'
  <2> DEFINE h == Head(wire[p])
  <2>1. /\ wire[p] # <<>> /\ Other(p) \in Peers /\ Other(p) # p
        /\ h \in Message /\ Control("seen", h.stream) \in Message
    BY <1>0, <1>3, Others, HeadTailProperties, MessageFields, Messages DEF Receive
  <2>2. /\ wire'[p] = Tail(wire[p])
        /\ wire'[Other(p)] = wire[Other(p)]
           \/ wire'[Other(p)] = Append(wire[Other(p)], Control("seen", h.stream))
        /\ inbound'[Other(p)] = inbound[Other(p)]
        /\ \/ h.type = "seen" /\ inbound'[p] = inbound[p]
           \/ inbound'[p] = Append(inbound[p], h)
    BY <1>0, <1>3, <2>1 DEF Receive
  <2>3. CASE q = Other(p)
    <3>1. Elements(wire[q]) \subseteq Elements(wire'[q])
      <4>1. \A m \in Message : Elements(Append(wire[q], m)) = Elements(wire[q]) \cup {m}
        BY <1>0, ElementsOf
      <4>2. wire'[q] = wire[q] \/ wire'[q] = Append(wire[q], Control("seen", h.stream))
        BY <2>2, <2>3
      <4>3. QED
        BY <2>1, <4>1, <4>2
    <3>2. QED
      BY <1>0, <1>i, <2>2, <2>3, <3>1
  <2>4. CASE q = p
    <3>1. Elements(wire[p]) = {h} \cup Elements(wire'[p])
      BY <1>0, <2>1, <2>2, BeforeOf
    <3>2. \/ h.type = "seen" /\ Elements(inbound'[p]) = Elements(inbound[p])
          \/ Elements(inbound'[p]) = Elements(inbound[p]) \cup {h}
      BY <1>0, <2>1, <2>2, ElementsOf
    <3> HIDE DEF h
    <3>3. QED
      BY <1>0, <1>i, <2>4, <3>1, <3>2
  <2>5. QED
    BY <2>3, <2>4, Others DEF Peers, Other
<1>4. ASSUME NEW p \in Peers, HandlerStep(p), NEW types, Turn(p, types), wire' = wire
      PROVE  x \in Travelling(q)' \/ Gone(q, x)
  <2>1. Gone(p, Head(inbound[p]))
    BY <1>4, HeadGone
  <2>2. inbound[p] # <<>> /\ inbound' = [inbound EXCEPT ![p] = Tail(@)]
    BY <1>4 DEF Turn
  <2>3. Elements(inbound[p]) = {Head(inbound[p])} \cup Elements(Tail(inbound[p]))
    BY <1>0, <2>2, BeforeOf
  <2>4. CASE q = p
    BY <1>0, <1>4, <1>i, <2>1, <2>2, <2>3, <2>4
  <2>5. CASE q # p
    BY <1>0, <1>4, <1>i, <2>2, <2>5
  <2>6. QED
    BY <2>4, <2>5
<1>5. ASSUME NEW f \in Files, BeginSend(f) \/ BeginSendClosed(f) \/ Cancel(f) \/ SenderStep(f)
      PROVE  x \in Travelling(q)'
  <2>1. Source[f] \in Peers
    BY TransferAssumption
  <2>i. stream[f] # 0 => stream[f] \in StreamIds
    BY <1>0 DEF TypeOK, StreamIds
  <2>2. CASE BeginSend(f)
    <3>1. FileControl("offer", AllocateStreamId(Source[f]), f) \in Message
      BY <1>0, <2>1, <2>2, AllocateFree, Messages DEF BeginSend, TypeOK, FreeIds
    <3>2. QED
      BY <1>2, <2>1, <2>2, <3>1 DEF BeginSend
  <2>3. CASE PumpChunk(f)
    <3>1. ChunkFrame(stream[f], f, next[f]) \in Message
      BY <1>0, <2>i, <2>3, Messages DEF PumpChunk, Pumping, AnswersTrue, Entered, TypeOK
    <3>2. QED
      BY <1>2, <2>1, <2>3, <3>1 DEF PumpChunk
  <2>4. CASE PumpDone(f)
    <3>1. FileControl("done", stream[f], f) \in Message
      BY <1>0, <2>i, <2>4, Messages DEF PumpDone, Pumping, AnswersTrue, Entered
    <3>2. QED
      BY <1>2, <2>1, <2>4, <3>1 DEF PumpDone
  <2>5. CASE Cancel(f) \/ PumpFails(f)
    <3>1. stream[f] \in StreamIds
      BY <2>i, <2>5 DEF Cancel, PumpFails, Pumping, AnswersTrue, Entered
    <3>2. Control("cancel", stream[f]) \in Message /\ Control("error", stream[f]) \in Message
      BY <3>1, Messages
    <3>3. QED
      BY <1>2, <2>1, <2>5, <3>2 DEF Cancel, PumpFails, PumpThrows
  <2>6. QED
    BY <1>5, <2>2, <2>3, <2>4, <2>5
       DEF BeginSendClosed, SenderStep, PumpClosed, OfferTimeout, Travelling
<1>6. ASSUME NEW p \in Peers, HandlerStep(p) \/ AnswerStep(p)
      PROVE  x \in Travelling(q)' \/ Gone(q, x)
  <2> DEFINE w == handling[p]
  <2>1. ASSUME w.type # "idle"
        PROVE  /\ \A t \in {"accept", "reject"} : Control(t, w.msg.stream) \in Message
               /\ Ack(w.msg.stream, Verified(w)) \in Message
    <3>1. w.msg.stream \in StreamIds
      BY <2>1, WorksFor
    <3>2. Verified(w) \in BOOLEAN
      BY DEF Verified
    <3>3. QED
      BY <3>1, <3>2, Messages
  <2>2. CASE (AcceptOffer(p) \/ RejectOffer(p)) /\ ~closed[p]
    <3>1. /\ w.type = "offer" /\ inbound' = inbound
          /\ \E t \in {"accept", "reject"} : wire' = Post(p, Control(t, w.msg.stream))
      BY <2>2 DEF AcceptOffer, RejectOffer, Finish
    <3>2. QED
      BY <1>2, <2>1, <3>1
  <2>3. CASE CompleteTransfer(p)
    <3>1. /\ w.type = "done" /\ inbound' = inbound
          /\ wire' = Post(p, Ack(w.msg.stream, Verified(w)))
      BY <2>3 DEF CompleteTransfer, EndTransfer, Finish
    <3>2. QED
      BY <1>2, <2>1, <3>1
  <2>4. CASE HandlerStep(p) /\ \E types : Turn(p, types) /\ wire' = wire
    BY <1>4, <2>4
  <2>5. QED
    BY <1>1, <1>6, <2>2, <2>3, <2>4
       DEF HandlerStep, HandleUnknown, HandleAccept, HandleReject, HandleAck,
           HandleEndEntry, EndEntry, BeginHandling, HandleChunk, CompleteClosed,
           SinkCloseFails, SinkThrows, EndArriving, AnswerStep, AcceptOffer,
           RejectOffer, SinkUnavailable, Finish
<1>7. CASE UNCHANGED vars
  BY <1>1, <1>7 DEF vars
<1>8. QED
  BY <1>3, <1>5, <1>6, <1>7 DEF Next

\* The pump alone moves on, one chunk at a time, and no session opens again.
LEMMA PumpMoves ==
  ASSUME AnswersTrue, [Next]_vars, NEW f \in Files
  PROVE  /\ next'[f] = next[f] \/ PumpChunk(f)
         /\ \A p \in Peers : ~closed'[p] => ~closed[p] /\ ~Close(p)
<1> USE DEF sendVars, recvVars, chanVars
<1>0. TypeOK
  BY DEF AnswersTrue
<1>1. CASE UNCHANGED <<next, closed>>
  <2>1. \A p \in Peers : ~Close(p)
    BY <1>0, <1>1 DEF Close, TypeOK
  <2>2. QED
    BY <1>1, <2>1
<1>2. ASSUME NEW g \in Files, BeginSend(g) \/ BeginSendClosed(g) \/ Cancel(g) \/ SenderStep(g)
      PROVE  closed' = closed /\ (next'[f] = next[f] \/ PumpChunk(f))
  <2>1. CASE PumpChunk(g)
    BY <1>0, <2>1 DEF PumpChunk, TypeOK
  <2>2. QED
    BY <1>2, <2>1 DEF BeginSend, BeginSendClosed, Cancel, SenderStep, PumpDone, PumpFails,
       PumpClosed, OfferTimeout
<1>3. ASSUME closed' = closed, NEW p \in Peers PROVE ~Close(p)
  BY <1>0, <1>3 DEF Close, TypeOK
<1>4. ASSUME NEW p \in Peers, Receive(p) \/ HandlerStep(p) \/ AnswerStep(p)
      PROVE  UNCHANGED <<next, closed>>
  BY <1>4 DEF Receive, HandlerStep, HandleUnknown, HandleAccept, HandleReject,
     HandleAck, HandleEndEntry, EndEntry, BeginHandling, HandleChunk,
     CompleteTransfer, CompleteClosed, SinkCloseFails, EndArriving,
     AnswerStep, AcceptOffer, RejectOffer, SinkUnavailable, Finish
<1>5. ASSUME NEW p \in Peers, Close(p)
      PROVE  /\ next' = next
             /\ \A q \in Peers : ~closed'[q] => ~closed[q] /\ ~Close(q)
  BY <1>0, <1>5 DEF Close, TypeOK
<1>6. CASE UNCHANGED vars
  BY <1>1, <1>6 DEF vars
<1>7. QED
  BY <1>1, <1>2, <1>3, <1>4, <1>5, <1>6 DEF Next

LEMMA FilesNext ==
  ASSUME NoWrap, AnswersTrue, OrderKept, [Next]_vars
  PROVE  FilesRight'
<1> SUFFICES ASSUME NEW f \in Files PROVE FileRight(f)'
  BY DEF FilesRight
<1> DEFINE q == Other(Source[f])
           s == stream[f]
<1>0. /\ TypeOK /\ TypeOK' /\ Grows /\ q \in Peers /\ Source[f] \in Peers /\ Other(q) = Source[f]
      /\ Chunks[f] \in Nat \ {0} /\ next[f] \in Nat /\ f # NoFile
  BY AnswersNext, GrowsNext, Others, TransferAssumption DEF AnswersTrue, TypeOK
<1>1. FileRight(f)
  BY DEF OrderKept, FilesRight
<1>2. PumpChunk(f) => sink[f] # "none" /\ next'[f] = next[f] + 1 /\ next[f] # Chunks[f]
  BY <1>0 DEF PumpChunk, Pumping, AnswersTrue, PumpsAccepted, LoopEnds, TypeOK
<1>3. next'[f] = next[f] \/ PumpChunk(f)
  BY PumpMoves
<1>4. next'[f] <= Chunks[f]
  BY <1>0, <1>1, <1>2, <1>3 DEF FileRight
<1>5. hashes'[f] \subseteq Contents(f) /\ (faults' = 0 => stored'[f] = hashes'[f])
  BY DigestsGrow
<1>6. sink'[f] = "none" => next'[f] = 0
  BY <1>0, <1>1, <1>2, <1>3 DEF FileRight, Grows
<1>7. stream'[f] = 0 => sink'[f] = "none" /\ reported'[f] = {}
  <2>1. SUFFICES ASSUME stream'[f] = 0 PROVE sink'[f] = "none" /\ reported'[f] = {}
    OBVIOUS
  <2>2. s = 0 /\ sink[f] = "none" /\ reported[f] = {}
    BY <1>0, <1>1, <2>1 DEF Grows, FileRight
  <2>3. ASSUME NEW p \in Peers, f \in Incomplete(p) PROVE FALSE
    BY <1>0, <2>2, <2>3 DEF Incomplete, OrderKept, ArrivingRight
  <2>4. ASSUME NEW p \in Peers, handling[p].type = "offer", f = handling[p].msg.file PROVE FALSE
    BY <2>2, <2>4, WorksFor DEF Receives, Sends, StreamIds
  <2>5. ASSUME NEW p \in Peers, handling[p].type \in {"done", "cancel", "error"},
               f = handling[p].arriving
        PROVE  FALSE
    BY <2>2, <2>5, WorksFor DEF Receives, Sends, StreamIds
  <2>6. QED
    BY <1>0, <2>2, <2>3, <2>4, <2>5, Touched
<1>8. ASSUME ~closed'[Source[f]], ~closed'[q], stream'[f] # 0, incoming'[q][stream'[f]] = f
      PROVE  Sent(f, stream[f], next[f], Travelling(q))'
  <2>1. CASE sink[f] = "none"
    <3>1. next'[f] = 0
      BY <1>1, <1>2, <1>3, <2>1 DEF FileRight
    <3>2. QED
      BY <3>1 DEF Sent
  <2>2. CASE sink[f] # "none"
    <3>1. s # 0 /\ stream'[f] = s /\ s \in StreamIds
      BY <1>0, <1>1, <2>2 DEF FileRight, Grows, TypeOK, StreamIds
    <3>2. ~closed[Source[f]] /\ ~closed[q] /\ \A p \in Peers : ~Close(p)
      BY <1>0, <1>8, PumpMoves DEF Peers, Other
    <3>3. incoming[q][s] = f
      BY <1>0, <1>8, <2>2, <3>1, IncomingStays
    <3>4. Sent(f, s, next[f], Travelling(q))
      BY <1>1, <3>1, <3>2, <3>3 DEF FileRight
    <3>5. hashes[f] \subseteq hashes'[f]
      BY DigestsGrow
    <3>6. ASSUME NEW i, ChunkFrame(s, f, i) \in Travelling(q)
          PROVE  Chunk(f, i) \in hashes'[f] \/ ChunkFrame(s, f, i) \in Travelling(q)'
      <4>1. ChunkFrame(s, f, i) \in Travelling(q)' \/ Gone(q, ChunkFrame(s, f, i))
        BY <1>0, <3>2, <3>6, ChunksStay DEF ChunkFrame
      <4>2. incoming'[q][s] = f
        BY <1>8, <3>1
      <4>3. QED
        BY <4>1, <4>2 DEF Gone, ChunkFrame
    <3>7. CASE next'[f] = next[f]
      BY <3>1, <3>4, <3>5, <3>6, <3>7 DEF Sent
    <3>8. CASE PumpChunk(f)
      <4>1. ChunkFrame(s, f, next[f]) \in Travelling(q)'
        <5>1. wire' = [wire EXCEPT ![q] = Append(@, ChunkFrame(s, f, next[f]))]
          BY <3>2, <3>8 DEF PumpChunk, Post
        <5>2. wire'[q] = Append(wire[q], ChunkFrame(s, f, next[f]))
          BY <1>0, <5>1 DEF TypeOK
        <5>3. ChunkFrame(s, f, next[f]) \in Message /\ wire[q] \in Seq(Message)
          BY <1>0, <3>1, Messages DEF TypeOK
        <5>4. ChunkFrame(s, f, next[f]) \in Elements(wire'[q])
          BY <5>2, <5>3, ElementsOf
        <5>5. QED
          BY <5>4 DEF Travelling, Elements
      <4>2. ASSUME NEW i \in 0..(next'[f] - 1)
            PROVE  Chunk(f, i) \in hashes'[f] \/ ChunkFrame(s, f, i) \in Travelling(q)'
        <5>1. i \in 0..(next[f] - 1) \/ i = next[f]
          BY <1>0, <1>2, <3>8, <4>2
        <5>2. QED
          BY <3>4, <3>5, <3>6, <4>1, <5>1 DEF Sent
      <4>3. QED
        BY <3>1, <4>2 DEF Sent
    <3>9. QED
      BY <1>3, <3>7, <3>8
  <2>3. QED
    BY <2>1, <2>2
<1>9. "complete" \in reported'[f] => hashes'[f] = Contents(f)
  <2>1. "complete" \in reported'[f] => "complete" \in reported[f] \/ hashes[f] = Contents(f)
    BY Reports
  <2>2. hashes[f] \subseteq hashes'[f]
    BY DigestsGrow
  <2>3. QED
    BY <1>1, <1>5, <2>1, <2>2 DEF FileRight
<1>10. "mismatch" \notin reported'[f]
  BY <1>1, Reports DEF FileRight
<1>11. \E end \in Outcomes : reported'[f] \subseteq {end, "sinkFailed"}
  BY <1>1, Reports DEF FileRight, Outcomes
<1>12. QED
  <2>1. next'[f] <= Chunks[f] /\ hashes'[f] \subseteq Contents(f)'
    BY <1>4, <1>5 DEF Contents
  <2>2. ~closed'[Source[f]] /\ ~closed'[q] /\ stream'[f] # 0 /\ incoming'[q][stream'[f]] = f =>
          Sent(f, stream[f], next[f], Travelling(q))'
    BY <1>8 DEF Sent, Travelling
  <2>3. "complete" \in reported'[f] => hashes'[f] = Contents(f)'
    BY <1>9 DEF Contents
  <2>4. QED
    BY <1>5, <1>6, <1>7, <1>10, <1>11, <2>1, <2>2, <2>3 DEF FileRight

-----------------------------------------------------------------------------
(* What the order gives. *)

LEMMA OrderInit == Init => OrderKept
<1> SUFFICES ASSUME Init PROVE OrderKept
  OBVIOUS
<1>1. ASSUME NEW p \in Peers PROVE Queue(p) = {}
  <2>1. Len(wire[p]) = 0 /\ Len(inbound[p]) = 0
    BY <1>1 DEF Init
  <2>2. QED
    BY <2>1 DEF Queue
<1>2. QueuesRight
  BY <1>1 DEF QueuesRight
<1>3. TurnsRight /\ ArrivingRight
  BY DEF Init, TurnsRight, TurnRight, Idle, ArrivingRight
<1>4. ASSUME NEW f \in Files PROVE FileRight(f)
  <2>1. /\ stream[f] = 0 /\ next[f] = 0 /\ hashes[f] = {} /\ stored[f] = {}
        /\ sink[f] = "none" /\ reported[f] = {}
    BY DEF Init
  <2>2. Chunks[f] \in Nat \ {0}
    BY TransferAssumption
  <2>3. QED
    BY <2>1, <2>2 DEF FileRight, Outcomes
<1>5. QED
  BY <1>2, <1>3, <1>4 DEF OrderKept, FilesRight

\* The inductive invariant of the order of one channel: every chunk is behind
\* the accept, ahead of done, and in the digest or still to come.
THEOREM OrderCorrect ==
  ASSUME NoWrap
  PROVE  Spec => [](AnswersTrue /\ OrderKept)
<1>1. Init => AnswersTrue /\ OrderKept
  BY AnswersInit, OrderInit
<1>2. AnswersTrue /\ OrderKept /\ [Next]_vars => (AnswersTrue /\ OrderKept)'
  <2> SUFFICES ASSUME AnswersTrue, OrderKept, [Next]_vars
               PROVE  AnswersTrue' /\ OrderKept'
    OBVIOUS
  <2>1. QED
    BY AnswersNext, QueuesNext, TurnsNext, ArrivingNext, FilesNext DEF OrderKept
<1>3. QED
  BY <1>1, <1>2, PTL DEF Spec

\* The final digests always agree: done never overtakes a chunk.
THEOREM NoMismatchCorrect ==
  ASSUME NoWrap
  PROVE  Spec => []NoSpuriousMismatch
<1>1. OrderKept => NoSpuriousMismatch
  BY DEF OrderKept, FilesRight, FileRight, NoSpuriousMismatch
<1>2. QED
  BY <1>1, OrderCorrect, PTL

\* A file ends once, in one way.
THEOREM EndsOnceCorrect ==
  ASSUME NoWrap
  PROVE  Spec => []EndsOnce
<1>1. OrderKept => EndsOnce
  <2> SUFFICES ASSUME OrderKept, NEW f \in Files
               PROVE  Cardinality(reported[f] \ {"sinkFailed"}) <= 1
    BY DEF EndsOnce
  <2>1. PICK end \in Outcomes : reported[f] \subseteq {end, "sinkFailed"}
    BY DEF OrderKept, FilesRight, FileRight
  <2>2. reported[f] \ {"sinkFailed"} \subseteq {end}
    BY <2>1
  <2>3. Cardinality({end}) = 1 /\ IsFiniteSet({end})
    BY FS_Singleton
  <2>4. QED
    BY <2>2, <2>3, FS_Subset, FS_CardinalityType
<1>2. QED
  BY <1>1, OrderCorrect, PTL

\* While no sink or source failed, a file reported complete has all its chunks stored.
THEOREM StoredCorrect ==
  ASSUME NoWrap
  PROVE  Spec => []StoredUnlessFault
<1>1. OrderKept => StoredUnlessFault
  BY DEF OrderKept, FilesRight, FileRight, StoredUnlessFault, CompleteIsStored
<1>2. QED
  BY <1>1, OrderCorrect, PTL
=============================================================================
