------------------------ MODULE TransferSession_proofs ------------------------
(***************************************************************************)
(* Proofs about TransferSession, for any set of files and any stream id    *)
(* space: the types, and what a sender may conclude from a settled send.   *)
(***************************************************************************)
EXTENDS TransferSession, FiniteSetTheorems, SequenceTheorems,
        WellFoundedInduction, TLAPS

-----------------------------------------------------------------------------
(* Stream ids. *)

\* Every nonempty set of natural numbers has a least element: the initial
\* segments they end are finite sets, among which one has none below it.
LEMMA LeastExists ==
  ASSUME NEW T, T \subseteq Nat, T # {}
  PROVE  \E x \in T : \A y \in T : x <= y
<1> DEFINE R == StrictSubsetOrdering(Nat)
           F == FiniteSubsetsOf(Nat)
           I == {0..x : x \in T}
<1>1. IsWellFoundedOn(R, F)
  BY FS_StrictSubsetOrderingWellFounded
<1>2. I \subseteq F
  <2>1. SUFFICES ASSUME NEW x \in T PROVE 0..x \in F
    OBVIOUS
  <2>2. x \in Nat /\ 0..x \subseteq Nat
    OBVIOUS
  <2>3. IsFiniteSet(0..x)
    BY <2>2, FS_Interval
  <2>4. QED
    BY <2>2, <2>3 DEF FiniteSubsetsOf
<1>3. I # {}
  OBVIOUS
<1> HIDE DEF R, F, I
<1>4. PICK i \in I : \A j \in I : <<j, i>> \notin R
  BY <1>1, <1>2, <1>3, WFMin
<1>5. PICK x \in T : i = 0..x
  BY DEF I
<1>6. ASSUME NEW y \in T, y < x PROVE FALSE
  <2>1. 0..y \subseteq 0..x /\ 0..y # 0..x
    BY <1>6
  <2>2. <<0..y, 0..x>> \in R
    BY <2>1 DEF R, StrictSubsetOrdering
  <2>3. QED
    BY <1>4, <1>5, <2>2 DEF I
<1>7. QED
  BY <1>6

LEMMA StepsType ==
  ASSUME NEW n \in StreamIds, NEW s \in StreamIds
  PROVE  /\ Steps(n, s) \in Nat \ {0}
         /\ n + 1 \in StreamIds => Steps(n, n + 1) = 1
         /\ Steps(n, s) = 1 /\ n < MaxStreamId => s = n + 1
BY TransferAssumption DEF Steps, StreamIds

\* allocateStreamId returns an id that no entry of the session uses.
LEMMA AllocateFree ==
  ASSUME nextId \in [Peers -> StreamIds], NEW p \in Peers, FreeIds(p) # {}
  PROVE  /\ AllocateStreamId(p) \in FreeIds(p)
         /\ \A t \in FreeIds(p) :
              Steps(nextId[p], AllocateStreamId(p)) <= Steps(nextId[p], t)
<1> DEFINE T == {Steps(nextId[p], s) : s \in FreeIds(p)}
<1>1. T \subseteq Nat /\ T # {}
  BY StepsType DEF FreeIds
<1>2. PICK x \in T : \A y \in T : x <= y
  BY <1>1, LeastExists
<1>3. PICK s \in FreeIds(p) : x = Steps(nextId[p], s)
  BY <1>2
<1>4. \E u \in FreeIds(p) :
        \A t \in FreeIds(p) : Steps(nextId[p], u) <= Steps(nextId[p], t)
  BY <1>2, <1>3
<1>5. QED
  BY <1>4 DEF AllocateStreamId

-----------------------------------------------------------------------------
(* What the helpers of the model return. *)

LEMMA Others ==
  ASSUME NEW p \in Peers
  PROVE  Other(p) \in Peers /\ Other(p) # p /\ Other(Other(p)) = p
BY TransferAssumption DEF Peers, Other

LEMMA Messages ==
  /\ \A t \in {"seen", "accept", "reject", "cancel", "error"}, s \in StreamIds :
       Control(t, s) \in Message /\ Control(t, s).type = t
         /\ Control(t, s).stream = s
  /\ \A s \in StreamIds, ok \in BOOLEAN :
       Ack(s, ok) \in Message /\ Ack(s, ok).type = "ack"
         /\ Ack(s, ok).stream = s /\ Ack(s, ok).ok = ok
  /\ \A t \in {"offer", "done"}, s \in StreamIds, f \in Files :
       FileControl(t, s, f) \in Message /\ FileControl(t, s, f).type = t
         /\ FileControl(t, s, f).stream = s /\ FileControl(t, s, f).file = f
  /\ \A s \in StreamIds, f \in Files, i \in Nat :
       ChunkFrame(s, f, i) \in Message /\ ChunkFrame(s, f, i).type = "chunk"
         /\ ChunkFrame(s, f, i).stream = s /\ ChunkFrame(s, f, i).file = f
BY DEF Message, ControlMessage, AckMessage, FileMessage, ChunkMessage,
       Control, Ack, FileControl, ChunkFrame

LEMMA MessageFields ==
  ASSUME NEW m \in Message
  PROVE  /\ m.stream \in StreamIds
         /\ m.type \in {"offer", "done"} => m \in FileMessage /\ m.file \in Files
         /\ m.type = "chunk" => m.file \in Files /\ m.seq \in Nat
         /\ m.type \in {"cancel", "error"} => m \in ControlMessage
BY DEF Message, ControlMessage, AckMessage, FileMessage, ChunkMessage

LEMMA WorkFields ==
  ASSUME NEW w \in WorkSet
  PROVE  /\ w.type \in {"idle", "offer", "done", "cancel", "error"}
         /\ w.type # "idle" => /\ w.msg \in Message
                               /\ w.entry \in Files \cup {NoFile}
                               /\ w.arriving \in Files \cup {NoFile}
         /\ w.type \in {"offer", "done"} => w.msg.file \in Files
BY DEF WorkSet, Message, FileMessage, ControlMessage

\* Posting appends to the other session's wire, unless that session closed.
LEMMA PostType ==
  ASSUME TypeOK, NEW p \in Peers, NEW m \in Message
  PROVE  Post(p, m) \in [Peers -> Seq(Message)]
BY Others DEF TypeOK, Post

LEMMA TurnType ==
  ASSUME TypeOK, NEW p \in Peers, NEW types, Turn(p, types)
  PROVE  /\ inbound' \in [Peers -> Seq(Message)]
         /\ Head(inbound[p]) \in Message
         /\ Head(inbound[p]).type \in types
         /\ Entry(p) \in Files \cup {NoFile}
         /\ Arriving(p) \in Files \cup {NoFile}
<1>1. inbound[p] \in Seq(Message) /\ inbound[p] # <<>>
  BY DEF TypeOK, Turn
<1>2. Head(inbound[p]) \in Message /\ Tail(inbound[p]) \in Seq(Message)
  BY <1>1, HeadTailProperties
<1>3. inbound' \in [Peers -> Seq(Message)]
  BY <1>2 DEF TypeOK, Turn
<1>4. Head(inbound[p]).stream \in StreamIds
  BY <1>2, MessageFields
<1>5. QED
  BY <1>2, <1>3, <1>4 DEF TypeOK, Turn, Entry, Arriving

LEMMA Names ==
  /\ {"declined", "resolved", "mismatch", "failed", "timeout", "endedByPeer",
      "closed"} \subseteq Promises
  /\ {"complete", "declined", "mismatch", "ended", "sinkFailed"} \subseteq Outcomes
BY DEF Promises, Outcomes

LEMMA HelperTypes ==
  ASSUME TypeOK
  PROVE  /\ \A f : \A how \in Promises : Settle(f, how) \in [Files -> Promises]
         /\ \A p, s : Free(p, s) \in [Peers -> [StreamIds -> Files \cup {NoFile}]]
         /\ \A p, s : Forget(p, s) \in [Peers -> [StreamIds -> Files \cup {NoFile}]]
         /\ \A f : Disarm(f) => timer' \in [Files -> BOOLEAN]
         /\ \A f : \A how \in Outcomes :
              Report(f, how) => reported' \in [Files -> SUBSET Outcomes]
<1>1. ASSUME NEW f, NEW how \in Promises
      PROVE  Settle(f, how) \in [Files -> Promises]
  BY DEF TypeOK, Settle
<1>2. ASSUME NEW p, NEW s
      PROVE  /\ Free(p, s) \in [Peers -> [StreamIds -> Files \cup {NoFile}]]
             /\ Forget(p, s) \in [Peers -> [StreamIds -> Files \cup {NoFile}]]
  BY DEF TypeOK, Free, Forget
<1>3. ASSUME NEW f, Disarm(f)
      PROVE  timer' \in [Files -> BOOLEAN]
  BY <1>3 DEF TypeOK, Disarm
<1>4. ASSUME NEW f, NEW how \in Outcomes, Report(f, how)
      PROVE  reported' \in [Files -> SUBSET Outcomes]
  BY <1>4 DEF TypeOK, Report
<1>5. QED
  BY <1>1, <1>2, <1>3, <1>4

-----------------------------------------------------------------------------
(* Type correctness. *)

LEMMA TypeInit == Init => TypeOK
<1>1. 1 \in StreamIds
  BY TransferAssumption DEF StreamIds
<1>2. Idle \in WorkSet
  BY DEF Idle, WorkSet
<1>3. QED
  BY <1>1, <1>2, TransferAssumption DEF Init, TypeOK, Promises

\* Types alone are not inductive: a pump posts chunks under the id its entry
\* was given, so a pump runs, and an entry exists, only after beginSend.
Entered ==
  /\ \A p \in Peers, s \in StreamIds :
       outgoing[p][s] # NoFile => stream[outgoing[p][s]] # 0
  /\ \A f \in Files : pump[f] = "running" => stream[f] # 0

LEMMA EnteredInit == Init => Entered
BY TransferAssumption DEF Init, Entered

LEMMA TypeSender ==
  ASSUME TypeOK, Entered, NEW f \in Files
  PROVE  /\ BeginSend(f) => TypeOK'
         /\ BeginSendClosed(f) => TypeOK'
         /\ Cancel(f) => TypeOK'
         /\ SenderStep(f) => TypeOK'
<1> USE DEF recvVars, chanVars
<1>0. Source[f] \in Peers /\ Chunks[f] \in Nat
  BY TransferAssumption
<1>s. StreamIds \subseteq 0..MaxStreamId
  BY DEF StreamIds
<1>i. stream[f] # 0 => stream[f] \in StreamIds
  BY DEF TypeOK, StreamIds
<1>1. ASSUME BeginSend(f) PROVE TypeOK'
  <2>1. AllocateStreamId(Source[f]) \in StreamIds
    BY <1>0, <1>1, AllocateFree DEF BeginSend, TypeOK, FreeIds
  <2>2. wire' \in [Peers -> Seq(Message)]
    BY <1>0, <1>1, <2>1, PostType, Messages DEF BeginSend
  <2>3. QED
    BY <1>0, <1>s, <1>1, <2>1, <2>2 DEF BeginSend, TypeOK, Promises
<1>2. ASSUME BeginSendClosed(f) PROVE TypeOK'
  <2>1. AllocateStreamId(Source[f]) \in StreamIds
    BY <1>0, <1>2, AllocateFree DEF BeginSendClosed, TypeOK, FreeIds
  <2>2. QED
    BY <1>0, <1>2, <2>1 DEF BeginSendClosed, TypeOK, Promises
<1>3. ASSUME Cancel(f) PROVE TypeOK'
  <2>1. wire' \in [Peers -> Seq(Message)]
    BY <1>0, <1>i, <1>3, PostType, Messages DEF Cancel
  <2>2. QED
    BY <1>3, <2>1, HelperTypes DEF Cancel, TypeOK
<1>4. ASSUME SenderStep(f) PROVE TypeOK'
  <2>1. CASE PumpChunk(f)
    <3>1. ChunkFrame(stream[f], f, next[f]) \in Message
      BY <1>i, <2>1, Messages DEF PumpChunk, Pumping, Entered, TypeOK
    <3>2. wire' \in [Peers -> Seq(Message)]
      BY <1>0, <2>1, <3>1, PostType DEF PumpChunk
    <3>3. QED
      BY <2>1, <3>2 DEF PumpChunk, TypeOK
  <2>2. CASE PumpDone(f)
    <3>1. FileControl("done", stream[f], f) \in Message
      BY <1>i, <2>2, Messages DEF PumpDone, Pumping, Entered
    <3>2. wire' \in [Peers -> Seq(Message)]
      BY <1>0, <2>2, <3>1, PostType DEF PumpDone
    <3>3. QED
      BY <2>2, <3>2 DEF PumpDone, TypeOK
  <2>3. CASE PumpFails(f)
    <3>1. Control("error", stream[f]) \in Message
      BY <1>i, <2>3, Messages DEF PumpFails, Pumping, Entered
    <3>2. wire' \in [Peers -> Seq(Message)]
      BY <1>0, <2>3, <3>1, PostType DEF PumpFails, PumpThrows
    <3>3. faults' \in Nat
      BY <2>3 DEF PumpFails, PumpThrows, TypeOK
    <3>4. /\ promise' \in [Files -> Promises]
          /\ outgoing' \in [Peers -> [StreamIds -> Files \cup {NoFile}]]
      BY <2>3, Names, HelperTypes DEF PumpFails, PumpThrows
    <3>5. QED
      BY <2>3, <3>2, <3>3, <3>4 DEF PumpFails, PumpThrows, TypeOK
  <2>4. CASE PumpClosed(f)
    BY <2>4 DEF PumpClosed, TypeOK
  <2>5. CASE OfferTimeout(f)
    <3>1. promise' \in [Files -> Promises]
      BY <2>5, Names, HelperTypes DEF OfferTimeout, TypeOK
    <3>2. outgoing' \in [Peers -> [StreamIds -> Files \cup {NoFile}]]
      BY <2>5, HelperTypes DEF OfferTimeout, TypeOK
    <3>3. QED
      BY <2>5, <3>1, <3>2 DEF OfferTimeout, TypeOK
  <2>6. QED
    BY <1>4, <2>1, <2>2, <2>3, <2>4, <2>5 DEF SenderStep
<1>5. QED
  BY <1>1, <1>2, <1>3, <1>4

LEMMA TypeReceive ==
  ASSUME TypeOK, NEW p \in Peers, Receive(p)
  PROVE  TypeOK'
<1> DEFINE m == Head(wire[p])
           rest == [wire EXCEPT ![p] = Tail(@)]
<1>1. wire[p] \in Seq(Message) /\ wire[p] # <<>>
  BY DEF TypeOK, Receive
<1>2. m \in Message /\ Tail(wire[p]) \in Seq(Message)
  BY <1>1, HeadTailProperties
<1>3. rest \in [Peers -> Seq(Message)]
  BY <1>2 DEF TypeOK
<1>4. Control("seen", m.stream) \in Message
  BY <1>2, MessageFields, Messages
<1>5. Append(inbound[p], m) \in Seq(Message)
  BY <1>2, AppendProperties DEF TypeOK
<1> HIDE DEF m, rest
<1>6. inbound' \in [Peers -> Seq(Message)]
  BY <1>5 DEF Receive, TypeOK, m
<1>7. [rest EXCEPT ![Other(p)] = Append(@, Control("seen", m.stream))]
        \in [Peers -> Seq(Message)]
  <2>1. rest[Other(p)] \in Seq(Message)
    BY <1>3, Others
  <2>2. Append(rest[Other(p)], Control("seen", m.stream)) \in Seq(Message)
    BY <1>4, <2>1, AppendProperties
  <2>3. QED
    BY <1>3, <2>2
<1>8. wire' \in [Peers -> Seq(Message)]
  BY <1>3, <1>7 DEF Receive, m, rest
<1>9. timer' \in [Files -> BOOLEAN]
  BY HelperTypes DEF Receive, TypeOK
<1>10. QED
  BY <1>6, <1>8, <1>9 DEF Receive, TypeOK, recvVars

LEMMA TypeHandler ==
  ASSUME TypeOK, NEW p \in Peers, HandlerStep(p)
  PROVE  TypeOK'
<1> USE DEF sendVars, recvVars, chanVars
<1>w. handling[p] \in WorkSet
  BY DEF TypeOK
<1>i. Idle \in WorkSet
  BY DEF Idle, WorkSet
<1>1. CASE HandleUnknown(p)
  <2>1. inbound' \in [Peers -> Seq(Message)]
    BY <1>1, TurnType DEF HandleUnknown
  <2>2. QED
    BY <1>1, <2>1 DEF HandleUnknown, TypeOK
<1>2. CASE HandleAccept(p)
  <2>1. /\ inbound' \in [Peers -> Seq(Message)]
        /\ timer' \in [Files -> BOOLEAN]
    BY <1>2, TurnType, HelperTypes DEF HandleAccept
  <2>2. QED
    BY <1>2, <2>1 DEF HandleAccept, TypeOK
<1>3. CASE HandleReject(p)
  <2>1. /\ inbound' \in [Peers -> Seq(Message)]
        /\ timer' \in [Files -> BOOLEAN]
    BY <1>3, TurnType, HelperTypes DEF HandleReject
  <2>2. promise' \in [Files -> Promises]
    BY <1>3, Names, HelperTypes DEF HandleReject
  <2>3. outgoing' \in [Peers -> [StreamIds -> Files \cup {NoFile}]]
    BY <1>3, HelperTypes DEF HandleReject
  <2>4. QED
    BY <1>3, <2>1, <2>2, <2>3 DEF HandleReject, TypeOK
<1>4. CASE HandleAck(p)
  <2>1. inbound' \in [Peers -> Seq(Message)]
    BY <1>4, TurnType DEF HandleAck
  <2>2. promise' \in [Files -> Promises]
    BY <1>4, Names, HelperTypes DEF HandleAck
  <2>3. outgoing' \in [Peers -> [StreamIds -> Files \cup {NoFile}]]
    BY <1>4, HelperTypes DEF HandleAck
  <2>4. QED
    BY <1>4, <2>1, <2>2, <2>3 DEF HandleAck, TypeOK
<1>5. ASSUME NEW s, NEW f, EndEntry(p, s, f)
      PROVE  /\ timer' \in [Files -> BOOLEAN]
             /\ cancelled' \in [Files -> BOOLEAN]
             /\ outgoing' \in [Peers -> [StreamIds -> Files \cup {NoFile}]]
             /\ promise' \in [Files -> Promises]
  <2>1. timer' \in [Files -> BOOLEAN]
    BY <1>5, HelperTypes DEF EndEntry
  <2>2. cancelled' \in [Files -> BOOLEAN]
    BY <1>5 DEF EndEntry, TypeOK
  <2>3. outgoing' \in [Peers -> [StreamIds -> Files \cup {NoFile}]]
    BY <1>5, HelperTypes DEF EndEntry, TypeOK
  <2>4. promise' \in [Files -> Promises]
    BY <1>5, Names, HelperTypes DEF EndEntry, TypeOK
  <2>5. QED
    BY <2>1, <2>2, <2>3, <2>4
<1>6. CASE HandleEndEntry(p)
  <2>1. inbound' \in [Peers -> Seq(Message)]
    BY <1>6, TurnType DEF HandleEndEntry
  <2>2. EndEntry(p, Head(inbound[p]).stream, Entry(p))
    BY <1>6 DEF HandleEndEntry
  <2>3. QED
    BY <1>5, <1>6, <2>1, <2>2 DEF HandleEndEntry, EndEntry, TypeOK
<1>7. CASE BeginHandling(p)
  <2>1. inbound' \in [Peers -> Seq(Message)]
    BY <1>7, TurnType DEF BeginHandling
  <2>2. /\ Head(inbound[p]) \in Message
        /\ Head(inbound[p]).type \in {"offer", "done", "cancel", "error"}
        /\ Entry(p) \in Files \cup {NoFile}
        /\ Arriving(p) \in Files \cup {NoFile}
    BY <1>7, TurnType DEF BeginHandling
  <2>3. Work(Head(inbound[p]), Entry(p), Arriving(p)) \in WorkSet
    BY <2>2, MessageFields DEF Work, WorkSet
  <2>4. QED
    BY <1>7, <2>1, <2>3 DEF BeginHandling, TypeOK
<1>8. CASE HandleChunk(p)
  <2> DEFINE c == Chunk(Head(inbound[p]).file, Head(inbound[p]).seq)
  <2>1. /\ inbound' \in [Peers -> Seq(Message)]
        /\ Head(inbound[p]) \in Message
        /\ Head(inbound[p]).type = "chunk"
    BY <1>8, TurnType DEF HandleChunk
  <2>2. c \in ChunkSet
    BY <2>1, MessageFields DEF Chunk, ChunkSet
  <2> HIDE DEF c
  <2>3. hashes' \in [Files -> SUBSET ChunkSet]
    BY <1>8, <2>2 DEF HandleChunk, Digested, TypeOK, c
  <2>4. stored' \in [Files -> SUBSET ChunkSet]
    <3>1. \/ stored' = [stored EXCEPT ![Arriving(p)] = Written(@, c)]
          \/ stored' = stored
      BY <1>8 DEF HandleChunk, c
    <3>2. stored \in [Files -> SUBSET ChunkSet]
      BY DEF TypeOK
    <3>3. \A g \in Files : Written(stored[g], c) \in SUBSET ChunkSet
      BY <2>2, <3>2 DEF Written
    <3>4. QED
      BY <3>1, <3>2, <3>3
  <2>5. faults' \in Nat
    BY <1>8 DEF HandleChunk, TypeOK
  <2>6. QED
    BY <1>8, <2>1, <2>3, <2>4, <2>5 DEF HandleChunk, TypeOK
<1>9. CASE CompleteTransfer(p)
  <2>1. handling[p].type = "done"
    BY <1>9 DEF CompleteTransfer, Finish
  <2>2. Ack(handling[p].msg.stream, Verified(handling[p])) \in Message
    BY <1>w, <2>1, WorkFields, MessageFields, Messages DEF Verified
  <2>3. wire' \in [Peers -> Seq(Message)]
    BY <1>9, <2>2, PostType DEF CompleteTransfer, EndTransfer
  <2>4. /\ reported' \in [Files -> SUBSET Outcomes]
        /\ incoming' \in [Peers -> [StreamIds -> Files \cup {NoFile}]]
    BY <1>9, Names, HelperTypes DEF CompleteTransfer, EndTransfer
  <2>5. sink' \in [Files -> {"none", "open", "closed", "aborted"}]
    BY <1>9 DEF CompleteTransfer, EndTransfer, TypeOK
  <2>6. QED
    BY <1>i, <1>9, <2>3, <2>4, <2>5 DEF CompleteTransfer, Finish, TypeOK
<1>10. CASE CompleteClosed(p)
  BY <1>i, <1>10 DEF CompleteClosed, Finish, TypeOK
<1>11. CASE SinkCloseFails(p)
  <2>1. reported' \in [Files -> SUBSET Outcomes] /\ faults' \in Nat
    BY <1>11, Names, HelperTypes DEF SinkCloseFails, SinkThrows, TypeOK
  <2>2. QED
    BY <1>i, <1>11, <2>1 DEF SinkCloseFails, SinkThrows, Finish, TypeOK
<1>12. CASE EndArriving(p)
  <2>1. EndEntry(p, handling[p].msg.stream, handling[p].entry)
    BY <1>12 DEF EndArriving
  <2>2. /\ reported' \in [Files -> SUBSET Outcomes]
        /\ incoming' \in [Peers -> [StreamIds -> Files \cup {NoFile}]]
    BY <1>12, Names, HelperTypes DEF EndArriving
  <2>3. sink' \in [Files -> {"none", "open", "closed", "aborted"}]
    BY <1>12 DEF EndArriving, TypeOK
  <2>4. QED
    BY <1>i, <1>5, <1>12, <2>1, <2>2, <2>3 DEF EndArriving, EndEntry, Finish, TypeOK
<1>13. QED
  BY <1>1, <1>2, <1>3, <1>4, <1>6, <1>7, <1>8, <1>9, <1>10, <1>11, <1>12
     DEF HandlerStep

LEMMA TypeAnswer ==
  ASSUME TypeOK, NEW p \in Peers, AnswerStep(p)
  PROVE  TypeOK'
<1> DEFINE w == handling[p]
<1>1. w.type = "offer"
  BY DEF AnswerStep, AcceptOffer, RejectOffer, SinkUnavailable, Finish
<1>2. w.msg \in Message /\ w.msg.stream \in StreamIds /\ w.msg.file \in Files
  BY <1>1, WorkFields, MessageFields DEF TypeOK
<1>3. Idle \in WorkSet
  BY DEF Idle, WorkSet
<1>4. CASE AcceptOffer(p)
  <2>1. wire' \in [Peers -> Seq(Message)]
    <3>1. Control("accept", w.msg.stream) \in Message
      BY <1>2, Messages
    <3>2. QED
      BY <1>4, <3>1, PostType DEF AcceptOffer, TypeOK
  <2>2. /\ sink' \in [Files -> {"none", "open", "closed", "aborted"}]
        /\ incoming' \in [Peers -> [StreamIds -> Files \cup {NoFile}]]
    BY <1>2, <1>4 DEF AcceptOffer, TypeOK
  <2>3. QED
    BY <1>3, <1>4, <2>1, <2>2 DEF AcceptOffer, Finish, TypeOK
<1>5. CASE RejectOffer(p)
  <2>1. wire' \in [Peers -> Seq(Message)]
    <3>1. Control("reject", w.msg.stream) \in Message
      BY <1>2, Messages
    <3>2. QED
      BY <1>5, <3>1, PostType DEF RejectOffer, TypeOK
  <2>2. reported' \in [Files -> SUBSET Outcomes]
    BY <1>5, Names, HelperTypes DEF RejectOffer, TypeOK
  <2>3. QED
    BY <1>3, <1>5, <2>1, <2>2 DEF RejectOffer, Finish, TypeOK
<1>6. CASE SinkUnavailable(p)
  <2>1. reported' \in [Files -> SUBSET Outcomes] /\ faults' \in Nat
    BY <1>6, Names, HelperTypes DEF SinkUnavailable, SinkThrows, TypeOK
  <2>2. QED
    BY <1>3, <1>6, <2>1 DEF SinkUnavailable, SinkThrows, Finish, TypeOK
<1>7. QED
  BY <1>4, <1>5, <1>6 DEF AnswerStep

LEMMA TypeClose ==
  ASSUME TypeOK, NEW p \in Peers, Close(p)
  PROVE  TypeOK'
<1>1. PICK n \in 0..Len(wire[Other(p)]) :
        wire' = [wire EXCEPT ![p] = <<>>, ![Other(p)] = SubSeq(@, 1, n)]
  BY DEF Close
<1>2. Other(p) \in Peers /\ wire[Other(p)] \in Seq(Message)
  BY Others DEF TypeOK
<1>3. SubSeq(wire[Other(p)], 1, n) \in Seq(Message)
  BY <1>2, SubSeqProperties
<1>4. <<>> \in Seq(Message)
  OBVIOUS
<1>5. wire' \in [Peers -> Seq(Message)] /\ inbound' \in [Peers -> Seq(Message)]
  BY <1>1, <1>2, <1>3, <1>4, Others DEF Close, TypeOK
<1>6. /\ outgoing' \in [Peers -> [StreamIds -> Files \cup {NoFile}]]
      /\ incoming' \in [Peers -> [StreamIds -> Files \cup {NoFile}]]
  BY DEF Close, TypeOK
<1>7. promise' \in [Files -> Promises]
  <2>1. \A f \in Files : Settle(f, "closed")[f] \in Promises
    BY Names, HelperTypes
  <2>2. QED
    BY <2>1 DEF Close, TypeOK
<1>8. /\ timer' \in [Files -> BOOLEAN]
      /\ cancelled' \in [Files -> BOOLEAN]
      /\ closed' \in [Peers -> BOOLEAN]
  BY DEF Close, TypeOK
<1>9. sink' \in [Files -> {"none", "open", "closed", "aborted"}]
  BY DEF Close, TypeOK
<1>10. QED
  BY <1>5, <1>6, <1>7, <1>8, <1>9 DEF Close, TypeOK

LEMMA EnteredNext ==
  ASSUME TypeOK, TypeOK', Entered, [Next]_vars
  PROVE  Entered'
<1> USE DEF sendVars, recvVars, chanVars
<1>0. \A f \in Files : Source[f] \in Peers
  BY TransferAssumption
<1>1. CASE UNCHANGED vars
  BY <1>1 DEF vars, Entered
<1>2. ASSUME NEW f \in Files, BeginSend(f) PROVE Entered'
  <2>1. AllocateStreamId(Source[f]) \in StreamIds
    BY <1>0, <1>2, AllocateFree DEF BeginSend, TypeOK, FreeIds
  <2>2. \A g \in Files : g # f => stream'[g] = stream[g]
    BY <1>2 DEF BeginSend, TypeOK
  <2>3. stream'[f] # 0
    BY <1>2, <2>1, TransferAssumption DEF BeginSend, TypeOK, StreamIds
  <2>4. ASSUME NEW p \in Peers, NEW s \in StreamIds, outgoing'[p][s] # NoFile
        PROVE  outgoing'[p][s] = f \/ outgoing'[p][s] = outgoing[p][s]
    BY <1>0, <1>2 DEF BeginSend, TypeOK
  <2>5. QED
    BY <1>2, <2>2, <2>3, <2>4 DEF BeginSend, Entered, TypeOK
<1>3. ASSUME stream' = stream,
             \A p \in Peers, s \in StreamIds :
               outgoing'[p][s] \in {outgoing[p][s], NoFile},
             \A f \in Files : pump'[f] = "running" => pump[f] = "running"
      PROVE  Entered'
  BY <1>3 DEF Entered
<1>4. ASSUME NEW p \in Peers, NEW s, outgoing' = Free(p, s) \/ outgoing' = outgoing
      PROVE  \A q \in Peers, t \in StreamIds : outgoing'[q][t] \in {outgoing[q][t], NoFile}
  <2>1. ASSUME NEW q \in Peers, NEW t \in StreamIds
        PROVE  Free(p, s)[q][t] \in {outgoing[q][t], NoFile}
    <3>1. CASE q = p /\ t = s
      BY <3>1 DEF Free, TypeOK
    <3>2. CASE ~(q = p /\ t = s)
      BY <3>2 DEF Free, TypeOK
    <3>3. QED
      BY <3>1, <3>2
  <2>2. QED
    BY <1>4, <2>1
<1>5. ASSUME NEW f \in Files, BeginSendClosed(f) \/ Cancel(f) \/ SenderStep(f)
      PROVE  Entered'
  <2>1. outgoing' = Free(Source[f], stream[f]) \/ outgoing' = outgoing
    BY <1>5 DEF BeginSendClosed, Cancel, SenderStep, PumpChunk, PumpDone,
         PumpFails, PumpThrows, PumpClosed, OfferTimeout
  <2>2. stream' = stream
    BY <1>5 DEF BeginSendClosed, Cancel, SenderStep, PumpChunk, PumpDone,
         PumpFails, PumpClosed, OfferTimeout
  <2>3. pump' = pump \/ pump' = [pump EXCEPT ![f] = "over"]
    BY <1>5 DEF BeginSendClosed, Cancel, SenderStep, PumpChunk, PumpDone,
         PumpFails, PumpThrows, PumpClosed, OfferTimeout
  <2>4. \A g \in Files : pump'[g] = "running" => pump[g] = "running"
    BY <2>3 DEF TypeOK
  <2>5. QED
    BY <1>0, <1>3, <1>4, <2>1, <2>2, <2>4
<1>6. ASSUME NEW p \in Peers, HandleAccept(p) PROVE Entered'
  <2>1. Entry(p) \in Files /\ stream[Entry(p)] # 0
    <3>1. Head(inbound[p]) \in Message
      BY <1>6, TurnType DEF HandleAccept
    <3>2. Entry(p) \in Files \cup {NoFile}
      BY <1>6, TurnType DEF HandleAccept
    <3>3. QED
      BY <1>6, <3>1, <3>2, MessageFields DEF HandleAccept, Entry, Entered
  <2>2. QED
    BY <1>6, <2>1 DEF HandleAccept, Entered, TypeOK
<1>7. ASSUME NEW p \in Peers, Receive(p) \/ HandlerStep(p) \/ AnswerStep(p),
             ~HandleAccept(p)
      PROVE  Entered'
  <2>1. stream' = stream /\ pump' = pump
    BY <1>7 DEF Receive, HandlerStep, HandleUnknown, HandleReject, HandleAck,
         HandleEndEntry, EndEntry, BeginHandling, HandleChunk, CompleteTransfer,
         CompleteClosed, SinkCloseFails, EndArriving, AnswerStep, AcceptOffer,
         RejectOffer, SinkUnavailable, Finish
  <2>2. \E s : outgoing' = Free(p, s) \/ outgoing' = outgoing
    BY <1>7 DEF Receive, HandlerStep, HandleUnknown, HandleReject, HandleAck,
         HandleEndEntry, EndEntry, BeginHandling, HandleChunk, CompleteTransfer,
         CompleteClosed, SinkCloseFails, EndArriving, AnswerStep, AcceptOffer,
         RejectOffer, SinkUnavailable
  <2>3. QED
    BY <1>3, <1>4, <2>1, <2>2
<1>8. ASSUME NEW p \in Peers, Close(p) PROVE Entered'
  <2>1. \A q \in Peers, s \in StreamIds : outgoing'[q][s] \in {outgoing[q][s], NoFile}
    BY <1>8 DEF Close, TypeOK
  <2>2. QED
    BY <1>3, <1>8, <2>1 DEF Close
<1>9. QED
  BY <1>1, <1>2, <1>5, <1>6, <1>7, <1>8 DEF Next

LEMMA TypeNext ==
  ASSUME TypeOK, Entered, [Next]_vars
  PROVE  TypeOK'
<1>1. CASE UNCHANGED vars
  BY <1>1 DEF vars, TypeOK
<1>2. QED
  BY <1>1, TypeSender, TypeReceive, TypeHandler, TypeAnswer, TypeClose DEF Next

\* Every variable of the two sessions keeps its type, whatever the number of
\* files and of stream ids, reused ids included.
THEOREM TypeCorrect == Spec => []TypeOK
<1>1. Init => TypeOK /\ Entered
  BY TypeInit, EnteredInit
<1>2. TypeOK /\ Entered /\ [Next]_vars => (TypeOK /\ Entered)'
  BY TypeNext, EnteredNext
<1>3. QED
  BY <1>1, <1>2, PTL DEF Spec

-----------------------------------------------------------------------------
(***************************************************************************)
(* What a settled send means.  An answer names its file by the stream id   *)
(* alone, so the argument is about ids: as long as ids have not wrapped,   *)
(* no two files of a session share one, an entry in either map and every   *)
(* message on its way stand for the one file that owns the id, and an      *)
(* answer says what its receiver did to that file.                         *)
(***************************************************************************)

\* Fewer files than ids: the id of a file is never given to another.
NoWrap == Cardinality(Files) < MaxStreamId

Begun(p) == {f \in Files : Source[f] = p /\ promise[f] # "unsent"}

\* Ids are handed out in order, each to one file.
IdsInOrder ==
  /\ \A p \in Peers : nextId[p] = 1 + Cardinality(Begun(p))
  /\ \A f \in Files :
       stream[f] # 0 => stream[f] <= nextId[Source[f]] /\ promise[f] # "unsent"
  /\ \A f, g \in Files :
       Source[f] = Source[g] /\ stream[f] = stream[g] /\ stream[f] # 0 => f = g

\* f is the file that p sends, or receives, on the stream of id s.
Sends(p, s, f) == f \in Files /\ Source[f] = p /\ stream[f] = s
Receives(p, s, f) == Sends(Other(p), s, f)

MapsSound ==
  \A p \in Peers, s \in StreamIds :
    /\ outgoing[p][s] # NoFile => Sends(p, s, outgoing[p][s])
    /\ incoming[p][s] # NoFile => Receives(p, s, incoming[p][s])

WorkSound(p, w) ==
  /\ w.type \in {"offer", "done"} => Receives(p, w.msg.stream, w.msg.file)
  /\ w.type \in {"done", "cancel", "error"} => Receives(p, w.msg.stream, w.arriving)

\* What a message to p promises.
MessageSound(p, m) ==
  /\ m.type \in {"offer", "done", "chunk"} => Receives(p, m.stream, m.file)
  /\ m.type = "chunk" => sink[m.file] # "none"
  /\ m.type = "accept" => \E f \in Files : Sends(p, m.stream, f) /\ sink[f] # "none"
  /\ m.type = "reject" =>
       \E f \in Files : Sends(p, m.stream, f) /\ "declined" \in reported[f]
  /\ m.type = "ack" /\ m.ok = TRUE =>
       \E f \in Files : Sends(p, m.stream, f) /\ "complete" \in reported[f]

ChannelSound ==
  \A p \in Peers :
    /\ WorkSound(p, handling[p])
    /\ \A m \in Travelling(p) : MessageSound(p, m)

PumpsAccepted == \A f \in Files : pump[f] = "running" => sink[f] # "none"

AnswersTrue ==
  /\ TypeOK /\ Entered /\ IdsInOrder
  /\ MapsSound /\ ChannelSound /\ PumpsAccepted
  /\ ResolvedMeansComplete /\ DeclinedMeansRefused

\* What no step takes back: an id, an accept, a report.
Grows ==
  \A f \in Files : /\ stream[f] # 0 => stream'[f] = stream[f]
                   /\ sink[f] # "none" => sink'[f] # "none"
                   /\ reported[f] \subseteq reported'[f]

LEMMA BegunFinite ==
  ASSUME NEW p \in Peers
  PROVE  /\ IsFiniteSet(Begun(p))
         /\ Cardinality(Begun(p)) \in Nat
         /\ \A f \in Files : promise[f] = "unsent" =>
              Cardinality(Begun(p)) < Cardinality(Files)
<1>1. Begun(p) \subseteq Files /\ IsFiniteSet(Files)
  BY TransferAssumption DEF Begun
<1>2. IsFiniteSet(Begun(p)) /\ Cardinality(Begun(p)) \in Nat
  BY <1>1, FS_Subset, FS_CardinalityType
<1>3. ASSUME NEW f \in Files, promise[f] = "unsent"
      PROVE  Cardinality(Begun(p)) < Cardinality(Files)
  <2>1. f \notin Begun(p)
    BY <1>3 DEF Begun
  <2>2. Begun(p) # Files
    BY <2>1
  <2>3. QED
    BY <1>1, <2>2, FS_Subset, FS_CardinalityType
<1>4. QED
  BY <1>2, <1>3

\* While a file of p is unsent, the next id in order is there, and is free.
LEMMA NextIdFree ==
  ASSUME NoWrap, TypeOK, IdsInOrder, MapsSound,
         NEW f \in Files, promise[f] = "unsent", FreeIds(Source[f]) # {}
  PROVE  AllocateStreamId(Source[f]) = nextId[Source[f]] + 1
<1> DEFINE p == Source[f]
           n == nextId[p]
<1>1. p \in Peers /\ n \in StreamIds
  BY TransferAssumption DEF TypeOK
<1>2. Cardinality(Files) \in Nat
  BY TransferAssumption, FS_CardinalityType
<1>3. n < MaxStreamId
  BY <1>1, <1>2, BegunFinite, TransferAssumption DEF IdsInOrder, NoWrap
<1>4. n + 1 \in StreamIds
  BY <1>1, <1>3, TransferAssumption DEF StreamIds
<1>5. n + 1 \in FreeIds(p)
  <2>1. SUFFICES ASSUME outgoing[p][n + 1] # NoFile PROVE FALSE
    BY <1>4 DEF FreeIds
  <2>2. PICK g \in Files : Source[g] = p /\ stream[g] = n + 1
    BY <1>1, <1>4, <2>1 DEF MapsSound, Sends
  <2>3. QED
    BY <1>1, <1>3, <2>2 DEF IdsInOrder, StreamIds
<1>6. AllocateStreamId(p) \in StreamIds
      /\ Steps(n, AllocateStreamId(p)) <= Steps(n, n + 1)
  BY <1>1, <1>5, AllocateFree DEF TypeOK, FreeIds
<1>7. Steps(n, AllocateStreamId(p)) = 1
  BY <1>1, <1>4, <1>6, StepsType
<1>8. QED
  BY <1>1, <1>3, <1>6, <1>7, StepsType

LEMMA IdsInit == Init => IdsInOrder
<1>1. ASSUME Init, NEW p \in Peers PROVE Begun(p) = {}
  BY <1>1 DEF Init, Begun
<1>2. Cardinality({}) = 0
  BY FS_EmptySet
<1>3. ASSUME Init PROVE \A p \in Peers : nextId[p] = 1 + Cardinality(Begun(p))
  <2>1. ASSUME NEW p \in Peers PROVE nextId[p] = 1 + Cardinality(Begun(p))
    <3>1. nextId[p] = 1
      BY <1>3 DEF Init
    <3>2. QED
      BY <1>1, <1>2, <1>3, <3>1
  <2>2. QED
    BY <2>1
<1>4. Init => \A f \in Files : stream[f] = 0
  BY DEF Init
<1>5. QED
  BY <1>3, <1>4 DEF IdsInOrder

LEMMA GrowsNext ==
  ASSUME TypeOK, IdsInOrder, [Next]_vars
  PROVE  Grows
<1> USE DEF sendVars, recvVars, chanVars
<1>1. CASE UNCHANGED vars
  BY <1>1 DEF vars, Grows
<1>2. ASSUME NEW f \in Files, BeginSend(f) PROVE Grows
  <2>1. stream[f] = 0
    BY <1>2 DEF BeginSend, IdsInOrder
  <2>2. \A g \in Files : g # f => stream'[g] = stream[g]
    BY <1>2 DEF BeginSend, TypeOK
  <2>3. QED
    BY <1>2, <2>1, <2>2 DEF BeginSend, Grows
<1>3. ASSUME NEW f \in Files, BeginSendClosed(f) \/ Cancel(f) \/ SenderStep(f)
      PROVE  Grows
  BY <1>3 DEF BeginSendClosed, Cancel, SenderStep, PumpChunk, PumpDone,
       PumpFails, PumpClosed, OfferTimeout, Grows
<1>4. ASSUME stream' = stream,
             \/ sink' = sink
             \/ \E g : \E end \in {"open", "closed", "aborted"} :
                  sink' = [sink EXCEPT ![g] = end],
             reported' = reported \/ \E g, how : Report(g, how)
      PROVE  Grows
  <2>1. ASSUME NEW f \in Files, sink[f] # "none" PROVE sink'[f] # "none"
    BY <1>4, <2>1 DEF TypeOK
  <2>2. ASSUME NEW f \in Files PROVE reported[f] \subseteq reported'[f]
    <3>1. reported \in [Files -> SUBSET Outcomes]
      BY DEF TypeOK
    <3>2. CASE reported' = reported
      BY <3>2
    <3>3. CASE \E g, how : Report(g, how)
      <4>1. PICK g, how : reported' = [reported EXCEPT ![g] = @ \cup {how}]
        BY <3>3 DEF Report
      <4>2. QED
        BY <3>1, <4>1
    <3>4. QED
      BY <1>4, <3>2, <3>3
  <2>3. QED
    BY <1>4, <2>1, <2>2 DEF Grows
<1>5. ASSUME NEW p \in Peers, Receive(p) \/ HandlerStep(p) \/ AnswerStep(p)
      PROVE  Grows
  <2>1. stream' = stream
    BY <1>5 DEF Receive, HandlerStep, HandleUnknown, HandleAccept, HandleReject,
         HandleAck, HandleEndEntry, EndEntry, BeginHandling, HandleChunk,
         CompleteTransfer, CompleteClosed, SinkCloseFails, EndArriving,
         AnswerStep, AcceptOffer, RejectOffer, SinkUnavailable, Finish
  <2>2. CASE UNCHANGED <<sink, reported>>
    BY <1>4, <2>1, <2>2
  <2>3. CASE CompleteTransfer(p) \/ CompleteClosed(p) \/ SinkCloseFails(p)
             \/ EndArriving(p) \/ AnswerStep(p)
    <3>1. \/ sink' = sink
          \/ \E g : \E end \in {"open", "closed", "aborted"} :
               sink' = [sink EXCEPT ![g] = end]
      BY <2>3 DEF CompleteTransfer, EndTransfer, CompleteClosed, SinkCloseFails,
           EndArriving, AnswerStep, AcceptOffer, RejectOffer, SinkUnavailable
    <3>2. reported' = reported \/ \E g, how : Report(g, how)
      BY <2>3 DEF CompleteTransfer, EndTransfer, CompleteClosed, SinkCloseFails,
           SinkThrows, EndArriving, AnswerStep, AcceptOffer, RejectOffer,
           SinkUnavailable
    <3>3. QED
      BY <1>4, <2>1, <3>1, <3>2
  <2>4. QED
    BY <1>5, <2>2, <2>3 DEF Receive, HandlerStep, HandleUnknown, HandleAccept,
         HandleReject, HandleAck, HandleEndEntry, BeginHandling, HandleChunk
<1>6. ASSUME NEW p \in Peers, Close(p) PROVE Grows
  BY <1>6 DEF Close, Grows
<1>7. QED
  BY <1>1, <1>2, <1>3, <1>5, <1>6 DEF Next

LEMMA IdsNext ==
  ASSUME NoWrap, TypeOK, IdsInOrder, MapsSound, [Next]_vars
  PROVE  IdsInOrder'
<1> USE DEF sendVars, recvVars, chanVars
<1>0. \A f \in Files : Source[f] \in Peers
  BY TransferAssumption
<1>1. ASSUME UNCHANGED <<stream, nextId>>,
             \A f \in Files : promise'[f] = "unsent" <=> promise[f] = "unsent"
      PROVE  IdsInOrder'
  <2>1. \A p \in Peers : Begun(p)' = Begun(p)
    BY <1>1 DEF Begun
  <2>2. QED
    BY <1>1, <2>1 DEF IdsInOrder
<1>2. ASSUME NEW f, NEW how \in Promises \ {"unsent"}, promise' = Settle(f, how)
      PROVE  \A g \in Files : promise'[g] = "unsent" <=> promise[g] = "unsent"
  BY <1>2 DEF Settle, TypeOK
<1>3. {"declined", "resolved", "mismatch", "failed", "timeout", "endedByPeer",
       "closed"} \subseteq Promises \ {"unsent"}
  BY DEF Promises
<1>4. ASSUME UNCHANGED vars PROVE IdsInOrder'
  BY <1>1, <1>4 DEF vars
<1>5. ASSUME NEW f \in Files, BeginSend(f) \/ BeginSendClosed(f)
      PROVE  IdsInOrder'
  <2> DEFINE p == Source[f]
  <2>1. /\ promise[f] = "unsent" /\ stream[f] = 0 /\ p \in Peers
        /\ promise'[f] # "unsent"
        /\ \A g \in Files : g # f => promise'[g] = promise[g] /\ stream'[g] = stream[g]
    BY <1>0, <1>5 DEF BeginSend, BeginSendClosed, IdsInOrder, TypeOK
  <2>a. AllocateStreamId(p) = nextId[p] + 1
    BY <1>5, <2>1, NextIdFree DEF BeginSend, BeginSendClosed
  <2>b. nextId[p] \in Nat
    BY <2>1 DEF TypeOK, StreamIds
  <2>2. nextId' = [nextId EXCEPT ![p] = @ + 1] /\ nextId[p] \in Nat
    BY <1>5, <2>a, <2>b DEF BeginSend, BeginSendClosed
  <2>3. stream'[f] = 0 \/ stream'[f] = nextId[p] + 1
    BY <1>0, <1>5, <2>1, NextIdFree DEF BeginSend, BeginSendClosed, TypeOK
  <2>4. Begun(p)' = Begun(p) \cup {f} /\ f \notin Begun(p)
    BY <2>1 DEF Begun
  <2>5. \A q \in Peers : q # p => Begun(q)' = Begun(q)
    BY <2>1 DEF Begun
  <2>6. Cardinality(Begun(p)') = Cardinality(Begun(p)) + 1
    BY <2>1, <2>4, BegunFinite, FS_AddElement
  <2>7. \A q \in Peers : nextId'[q] = 1 + Cardinality(Begun(q)')
    <3>1. nextId'[p] = nextId[p] + 1 /\ \A q \in Peers : q # p => nextId'[q] = nextId[q]
      BY <2>1, <2>2 DEF TypeOK
    <3>2. nextId'[p] = 1 + Cardinality(Begun(p)')
      BY <2>1, <2>6, <3>1, BegunFinite DEF IdsInOrder
    <3>3. QED
      BY <2>5, <3>1, <3>2 DEF IdsInOrder
  <2>8. \A g \in Files : stream'[g] # 0 =>
          stream'[g] <= nextId'[Source[g]] /\ promise'[g] # "unsent"
    <3>1. \A g \in Files : nextId[Source[g]] <= nextId'[Source[g]] /\ nextId'[p] = nextId[p] + 1
          /\ nextId[Source[g]] \in Nat /\ stream[g] \in Nat /\ nextId'[Source[g]] \in Nat
      BY <1>0, <2>1, <2>2, TransferAssumption DEF TypeOK, StreamIds
    <3>2. QED
      BY <2>1, <2>3, <3>1 DEF IdsInOrder
  <2>9. \A g, h \in Files :
          Source[g] = Source[h] /\ stream'[g] = stream'[h] /\ stream'[g] # 0 => g = h
    <3>1. \A g \in Files : Source[g] = p /\ g # f => stream'[g] # nextId[p] + 1
      <4>1. \A g \in Files : stream[g] \in Nat
        BY DEF TypeOK
      <4>2. QED
        BY <2>1, <2>b, <4>1 DEF IdsInOrder
    <3>2. QED
      BY <2>1, <2>3, <3>1 DEF IdsInOrder
  <2>10. QED
    BY <2>7, <2>8, <2>9 DEF IdsInOrder
<1>6. ASSUME NEW f \in Files, Cancel(f) \/ SenderStep(f) PROVE IdsInOrder'
  <2>1. UNCHANGED <<stream, nextId>>
    BY <1>6 DEF Cancel, SenderStep, PumpChunk, PumpDone, PumpFails, PumpClosed,
         OfferTimeout
  <2>2. promise' = promise \/ promise' = Settle(f, "failed") \/ promise' = Settle(f, "timeout")
    BY <1>6 DEF Cancel, SenderStep, PumpChunk, PumpDone, PumpFails, PumpThrows,
         PumpClosed, OfferTimeout
  <2>3. QED
    BY <1>1, <1>2, <1>3, <2>1, <2>2
<1>7. ASSUME NEW p \in Peers, Receive(p) \/ HandlerStep(p) \/ AnswerStep(p)
      PROVE  IdsInOrder'
  <2>1. UNCHANGED <<stream, nextId>>
    BY <1>7 DEF Receive, HandlerStep, HandleUnknown, HandleAccept, HandleReject,
         HandleAck, HandleEndEntry, EndEntry, BeginHandling, HandleChunk,
         CompleteTransfer, CompleteClosed, SinkCloseFails, EndArriving,
         AnswerStep, AcceptOffer, RejectOffer, SinkUnavailable, Finish
  <2>2. \/ promise' = promise
        \/ \E f : \E how \in {"declined", "resolved", "mismatch", "endedByPeer"} :
             promise' = Settle(f, how)
    BY <1>7 DEF Receive, HandlerStep, HandleUnknown, HandleAccept, HandleReject,
         HandleAck, HandleEndEntry, EndEntry, BeginHandling, HandleChunk,
         CompleteTransfer, CompleteClosed, SinkCloseFails, EndArriving,
         AnswerStep, AcceptOffer, RejectOffer, SinkUnavailable
  <2>3. QED
    BY <1>1, <1>2, <1>3, <2>1, <2>2
<1>8. ASSUME NEW p \in Peers, Close(p) PROVE IdsInOrder'
  <2>1. \A f \in Files : Settle(f, "closed")[f] = "unsent" <=> promise[f] = "unsent"
    BY DEF Settle, TypeOK
  <2>2. QED
    BY <1>1, <1>8, <2>1 DEF Close
<1>9. QED
  BY <1>4, <1>5, <1>6, <1>7, <1>8 DEF Next

-----------------------------------------------------------------------------
(* The messages on their way, step by step. *)

Elements(s) == {s[i] : i \in DOMAIN s}

LEMMA ElementsOf ==
  ASSUME NEW S, NEW s \in Seq(S)
  PROVE  /\ Elements(s) \subseteq S
         /\ \A m \in S : Elements(Append(s, m)) = Elements(s) \cup {m}
         /\ s # <<>> => Head(s) \in Elements(s) /\ Elements(Tail(s)) \subseteq Elements(s)
         /\ \A n \in 0..Len(s) : Elements(SubSeq(s, 1, n)) \subseteq Elements(s)
<1>1. Elements(s) \subseteq S
  BY DEF Elements
<1>2. ASSUME NEW m \in S PROVE Elements(Append(s, m)) = Elements(s) \cup {m}
  <2> DEFINE a == Append(s, m)
  <2>a. /\ Len(s) \in Nat /\ DOMAIN s = 1..Len(s)
        /\ DOMAIN a = 1..(Len(s) + 1)
        /\ a[Len(s) + 1] = m /\ \A i \in 1..Len(s) : a[i] = s[i]
    BY AppendProperties
  <2> HIDE DEF a
  <2>1. \A i \in DOMAIN a : a[i] = m \/ (i \in DOMAIN s /\ a[i] = s[i])
    BY <2>a
  <2>2. \A i \in DOMAIN s : i \in DOMAIN a /\ a[i] = s[i]
    BY <2>a
  <2>3. Len(s) + 1 \in DOMAIN a /\ a[Len(s) + 1] = m
    BY <2>a
  <2>4. QED
    BY <2>1, <2>2, <2>3 DEF Elements, a
<1>3. ASSUME s # <<>>
      PROVE  Head(s) \in Elements(s) /\ Elements(Tail(s)) \subseteq Elements(s)
  <2>1. 1 \in DOMAIN s /\ Head(s) = s[1]
    BY <1>3
  <2>2. \A i \in DOMAIN Tail(s) : i + 1 \in DOMAIN s /\ Tail(s)[i] = s[i + 1]
    BY <1>3
  <2>3. QED
    BY <2>1, <2>2 DEF Elements
<1>4. ASSUME NEW n \in 0..Len(s) PROVE Elements(SubSeq(s, 1, n)) \subseteq Elements(s)
  <2>1. \A i \in DOMAIN SubSeq(s, 1, n) : i \in DOMAIN s /\ SubSeq(s, 1, n)[i] = s[i]
    BY SubSeqProperties
  <2>2. QED
    BY <2>1 DEF Elements
<1>5. QED
  BY <1>1, <1>2, <1>3, <1>4

LEMMA TravellingElements ==
  \A p \in Peers : Travelling(p) = Elements(wire[p]) \cup Elements(inbound[p])
BY DEF Travelling, Elements

LEMMA TravellingType ==
  ASSUME TypeOK, NEW p \in Peers
  PROVE  Travelling(p) \subseteq Message
<1>1. wire[p] \in Seq(Message) /\ inbound[p] \in Seq(Message)
  BY DEF TypeOK
<1>2. QED
  BY <1>1, ElementsOf, TravellingElements

\* What p posts reaches the other session, or nobody.
LEMMA TravellingPost ==
  ASSUME TypeOK, NEW p \in Peers, NEW m \in Message,
         wire' = Post(p, m), inbound' = inbound,
         NEW q \in Peers, NEW x \in Travelling(q)'
  PROVE  x \in Travelling(q) \/ (x = m /\ q = Other(p))
<1>1. wire[q] \in Seq(Message) /\ wire \in [Peers -> Seq(Message)]
  BY DEF TypeOK
<1>2. wire'[q] = wire[q] \/ (q = Other(p) /\ wire'[q] = Append(wire[q], m))
  BY <1>1, Others DEF Post
<1>3. Travelling(q)' = Elements(wire'[q]) \cup Elements(inbound'[q])
  BY DEF Travelling, Elements
<1>4. Elements(wire'[q]) \subseteq Elements(wire[q]) \cup {y \in {m} : q = Other(p)}
  <2>1. Elements(Append(wire[q], m)) = Elements(wire[q]) \cup {m}
    BY <1>1, ElementsOf
  <2>2. QED
    BY <1>2, <2>1
<1>5. QED
  BY <1>3, <1>4, TravellingElements

LEMMA TravellingTurn ==
  ASSUME TypeOK, NEW p \in Peers, NEW types, Turn(p, types), wire' = wire
  PROVE  /\ Head(inbound[p]) \in Travelling(p)
         /\ \A q \in Peers : Travelling(q)' \subseteq Travelling(q)
<1>1. inbound[p] \in Seq(Message) /\ inbound[p] # <<>> /\ inbound \in [Peers -> Seq(Message)]
  BY DEF TypeOK, Turn
<1>2. Head(inbound[p]) \in Elements(inbound[p])
      /\ Elements(Tail(inbound[p])) \subseteq Elements(inbound[p])
  BY <1>1, ElementsOf
<1>3. \A q \in Peers : Elements(inbound'[q]) \subseteq Elements(inbound[q])
  BY <1>1, <1>2 DEF Turn
<1>4. \A q \in Peers : Travelling(q)' = Elements(wire'[q]) \cup Elements(inbound'[q])
  BY DEF Travelling, Elements
<1>5. QED
  BY <1>2, <1>3, <1>4, TravellingElements

LEMMA TravellingReceive ==
  ASSUME TypeOK, NEW p \in Peers, Receive(p), NEW q \in Peers, NEW x \in Travelling(q)'
  PROVE  x \in Travelling(q) \/ x.type = "seen"
<1> DEFINE m == Head(wire[p])
           rest == [wire EXCEPT ![p] = Tail(@)]
           answered == [rest EXCEPT ![Other(p)] = Append(@, Control("seen", m.stream))]
<1>1. /\ wire \in [Peers -> Seq(Message)] /\ inbound \in [Peers -> Seq(Message)]
      /\ wire[p] \in Seq(Message) /\ wire[p] # <<>>
  BY DEF TypeOK, Receive
<1>2. m \in Message /\ m \in Elements(wire[p])
  BY <1>1, HeadTailProperties, ElementsOf
<1>3. /\ rest \in [Peers -> Seq(Message)]
      /\ \A r \in Peers : Elements(rest[r]) \subseteq Elements(wire[r])
  BY <1>1, HeadTailProperties, ElementsOf
<1>4. /\ Control("seen", m.stream) \in Message
      /\ Control("seen", m.stream).type = "seen"
  BY <1>2, MessageFields, Messages
<1>5. \A r \in Peers :
        Elements(answered[r]) \subseteq Elements(rest[r]) \cup {Control("seen", m.stream)}
  <2> HIDE DEF m, rest
  <2>1. \A r \in Peers : answered[r] \in {rest[r], Append(rest[r], Control("seen", m.stream))}
    BY <1>3
  <2>2. \A r \in Peers : Elements(Append(rest[r], Control("seen", m.stream)))
                          = Elements(rest[r]) \cup {Control("seen", m.stream)}
    BY <1>3, <1>4, ElementsOf
  <2>3. QED
    BY <2>1, <2>2
<1>6. Elements(Append(inbound[p], m)) = Elements(inbound[p]) \cup {m}
  BY <1>1, <1>2, ElementsOf
<1>7. wire' = rest \/ wire' = answered
  BY DEF Receive
<1>8. inbound' = inbound \/ inbound' = [inbound EXCEPT ![p] = Append(@, m)]
  BY DEF Receive
<1> HIDE DEF m, rest, answered
<1>9. Elements(wire'[q]) \subseteq Elements(wire[q]) \cup {Control("seen", m.stream)}
  BY <1>3, <1>5, <1>7
<1>10. Elements(inbound'[q]) \subseteq Elements(inbound[q]) \cup (IF q = p THEN {m} ELSE {})
  BY <1>1, <1>6, <1>8
<1>11. Travelling(q)' = Elements(wire'[q]) \cup Elements(inbound'[q])
  BY DEF Travelling, Elements
<1>12. QED
  BY <1>2, <1>4, <1>9, <1>10, <1>11, TravellingElements

LEMMA TravellingClose ==
  ASSUME TypeOK, NEW p \in Peers, Close(p), NEW q \in Peers
  PROVE  Travelling(q)' \subseteq Travelling(q)
<1>1. /\ wire \in [Peers -> Seq(Message)] /\ inbound \in [Peers -> Seq(Message)]
      /\ wire[q] \in Seq(Message) /\ inbound[q] \in Seq(Message)
      /\ wire[Other(p)] \in Seq(Message) /\ Other(p) \in Peers
  BY Others DEF TypeOK
<1>2. PICK n \in 0..Len(wire[Other(p)]) :
        wire' = [wire EXCEPT ![p] = <<>>, ![Other(p)] = SubSeq(@, 1, n)]
  BY DEF Close
<1>3. wire'[q] \in {wire[q], <<>>} \/ (q = Other(p) /\ wire'[q] = SubSeq(wire[q], 1, n))
  BY <1>1, <1>2, Others
<1>4. inbound'[q] \in {inbound[q], <<>>}
  BY <1>1 DEF Close
<1>5. Elements(<<>>) = {}
  BY DEF Elements
<1>6. Elements(wire'[q]) \subseteq Elements(wire[q])
  BY <1>1, <1>2, <1>3, <1>5, ElementsOf
<1>7. Elements(inbound'[q]) \subseteq Elements(inbound[q])
  BY <1>4, <1>5
<1>8. Travelling(q)' = Elements(wire'[q]) \cup Elements(inbound'[q])
  BY DEF Travelling, Elements
<1>9. QED
  BY <1>6, <1>7, <1>8, TravellingElements

-----------------------------------------------------------------------------
(* What was true of an id stays true of it. *)

LEMMA SendsStays ==
  ASSUME Grows, NEW p, NEW s \in StreamIds, NEW f, Sends(p, s, f)
  PROVE  Sends(p, s, f)'
BY TransferAssumption DEF Grows, Sends, StreamIds

LEMMA MessageStays ==
  ASSUME Grows, NEW p, NEW m \in Message, MessageSound(p, m)
  PROVE  MessageSound(p, m)'
<1>1. m.stream \in StreamIds
  BY MessageFields
<1>2. \A q, f : Sends(q, m.stream, f) => Sends(q, m.stream, f)'
  BY <1>1, SendsStays
<1>3. m.type \in {"offer", "done", "chunk"} => m.file \in Files
  BY MessageFields
<1>4. QED
  BY <1>2, <1>3 DEF MessageSound, Receives, Grows

LEMMA WorkStays ==
  ASSUME Grows, NEW p, NEW w \in WorkSet, WorkSound(p, w)
  PROVE  WorkSound(p, w)'
<1>1. w.type # "idle" => w.msg.stream \in StreamIds
  BY WorkFields, MessageFields
<1>2. \A f : w.type # "idle" /\ Receives(p, w.msg.stream, f)
               => Receives(p, w.msg.stream, f)'
  BY <1>1, SendsStays DEF Receives
<1>3. QED
  BY <1>2 DEF WorkSound

\* A sound answer is about the file whose entry it finds.
LEMMA SameFile ==
  ASSUME IdsInOrder, NEW p, NEW s \in StreamIds, NEW f, NEW g,
         Sends(p, s, f), Sends(p, s, g)
  PROVE  f = g
BY TransferAssumption DEF IdsInOrder, Sends, StreamIds

LEMMA EntrySends ==
  ASSUME TypeOK, MapsSound, NEW p \in Peers, NEW types, Turn(p, types)
  PROVE  /\ Head(inbound[p]).stream \in StreamIds
         /\ Entry(p) # NoFile => Sends(p, Head(inbound[p]).stream, Entry(p))
         /\ Arriving(p) # NoFile => Receives(p, Head(inbound[p]).stream, Arriving(p))
<1>1. Head(inbound[p]).stream \in StreamIds
  BY TurnType, MessageFields
<1>2. QED
  BY <1>1 DEF MapsSound, Entry, Arriving

LEMMA MapsNext ==
  ASSUME NoWrap, TypeOK, IdsInOrder, MapsSound, ChannelSound, Grows, [Next]_vars
  PROVE  MapsSound'
<1> USE DEF sendVars, recvVars, chanVars
<1>0. \A f \in Files : Source[f] \in Peers
  BY TransferAssumption
<1>1. ASSUME NEW p \in Peers, NEW s \in StreamIds,
             outgoing'[p][s] \in {outgoing[p][s], NoFile}
      PROVE  outgoing'[p][s] # NoFile => Sends(p, s, outgoing[p][s])'
  BY <1>1, SendsStays DEF MapsSound
<1>2. ASSUME NEW p \in Peers, NEW s \in StreamIds,
             incoming'[p][s] \in {incoming[p][s], NoFile}
      PROVE  incoming'[p][s] # NoFile => Receives(p, s, incoming[p][s])'
  BY <1>2, SendsStays DEF MapsSound, Receives
<1>3. ASSUME \A p \in Peers, s \in StreamIds :
               /\ outgoing'[p][s] \in {outgoing[p][s], NoFile}
               /\ incoming'[p][s] \in {incoming[p][s], NoFile}
      PROVE  MapsSound'
  <2>1. ASSUME NEW p \in Peers, NEW s \in StreamIds
        PROVE  /\ outgoing'[p][s] # NoFile => Sends(p, s, outgoing[p][s])'
               /\ incoming'[p][s] # NoFile => Receives(p, s, incoming[p][s])'
    BY <1>1, <1>2, <1>3
  <2>2. QED
    BY <2>1 DEF MapsSound
<1>4. CASE UNCHANGED vars
  BY <1>3, <1>4 DEF vars
<1>5. ASSUME NEW p, NEW s, NEW q \in Peers, NEW t \in StreamIds
      PROVE  /\ Free(p, s)[q][t] \in {outgoing[q][t], NoFile}
             /\ Forget(p, s)[q][t] \in {incoming[q][t], NoFile}
  <2>1. CASE q = p /\ t = s
    BY <2>1 DEF Free, Forget, TypeOK
  <2>2. CASE ~(q = p /\ t = s)
    BY <2>2 DEF Free, Forget, TypeOK
  <2>3. QED
    BY <2>1, <2>2
<1>6. ASSUME NEW f \in Files, BeginSend(f) PROVE MapsSound'
  <2> DEFINE p == Source[f]
             s == nextId[p] + 1
  <2>1. AllocateStreamId(p) = s
    BY <1>6, NextIdFree DEF BeginSend
  <2>2. stream'[f] = s
    BY <1>6, <2>1 DEF BeginSend, TypeOK
  <2>3. ASSUME NEW q \in Peers, NEW t \in StreamIds
        PROVE  \/ outgoing'[q][t] = outgoing[q][t]
               \/ q = p /\ t = s /\ outgoing'[q][t] = f
    BY <1>0, <1>6, <2>1 DEF BeginSend, TypeOK
  <2>4. ASSUME NEW q \in Peers, NEW t \in StreamIds
        PROVE  outgoing'[q][t] # NoFile => Sends(q, t, outgoing[q][t])'
    <3>1. CASE outgoing'[q][t] = outgoing[q][t]
      BY <1>1, <3>1
    <3>2. CASE q = p /\ t = s /\ outgoing'[q][t] = f
      BY <2>2, <3>2 DEF Sends
    <3>3. QED
      BY <2>3, <3>1, <3>2
  <2>5. ASSUME NEW q \in Peers, NEW t \in StreamIds
        PROVE  incoming'[q][t] # NoFile => Receives(q, t, incoming[q][t])'
    BY <1>2, <1>6 DEF BeginSend
  <2>6. QED
    BY <2>4, <2>5 DEF MapsSound
<1>7. ASSUME NEW f \in Files, BeginSendClosed(f) \/ Cancel(f) \/ SenderStep(f)
      PROVE  MapsSound'
  <2>1. outgoing' = Free(Source[f], stream[f]) \/ outgoing' = outgoing
    BY <1>7 DEF BeginSendClosed, Cancel, SenderStep, PumpChunk, PumpDone,
         PumpFails, PumpThrows, PumpClosed, OfferTimeout
  <2>2. incoming' = incoming
    BY <1>7 DEF BeginSendClosed, Cancel, SenderStep, PumpChunk, PumpDone,
         PumpFails, PumpClosed, OfferTimeout
  <2>3. QED
    BY <1>3, <1>5, <2>1, <2>2
<1>8. ASSUME NEW p \in Peers, Receive(p) \/ HandlerStep(p) \/ AnswerStep(p),
             ~AcceptOffer(p)
      PROVE  MapsSound'
  <2>1. \E s : outgoing' = Free(p, s) \/ outgoing' = outgoing
    BY <1>8 DEF Receive, HandlerStep, HandleUnknown, HandleAccept, HandleReject,
         HandleAck, HandleEndEntry, EndEntry, BeginHandling, HandleChunk,
         CompleteTransfer, CompleteClosed, SinkCloseFails, EndArriving,
         AnswerStep, RejectOffer, SinkUnavailable
  <2>2. \E s : incoming' = Forget(p, s) \/ incoming' = incoming
    BY <1>8 DEF Receive, HandlerStep, HandleUnknown, HandleAccept, HandleReject,
         HandleAck, HandleEndEntry, BeginHandling, HandleChunk, CompleteTransfer,
         EndTransfer, CompleteClosed, SinkCloseFails, EndArriving, AnswerStep,
         RejectOffer, SinkUnavailable
  <2>3. QED
    BY <1>3, <1>5, <2>1, <2>2
<1>9. ASSUME NEW p \in Peers, AcceptOffer(p) PROVE MapsSound'
  <2>1. PICK w \in WorkSet : w = handling[p]
    BY DEF TypeOK
  <2>2. w.type = "offer" /\ WorkSound(p, w)
    BY <1>9, <2>1 DEF AcceptOffer, Finish, ChannelSound
  <2>3. w.msg.stream \in StreamIds /\ Receives(p, w.msg.stream, w.msg.file)'
    BY <2>2, WorkFields, MessageFields, SendsStays DEF WorkSound, Receives
  <2>4. outgoing' = outgoing
        /\ incoming' = [incoming EXCEPT ![p][w.msg.stream] = w.msg.file]
    BY <1>9, <2>1 DEF AcceptOffer
  <2>5. ASSUME NEW q \in Peers, NEW t \in StreamIds
        PROVE  incoming'[q][t] # NoFile => Receives(q, t, incoming[q][t])'
    <3>1. \/ incoming'[q][t] = incoming[q][t]
          \/ q = p /\ t = w.msg.stream /\ incoming'[q][t] = w.msg.file
      BY <2>4 DEF TypeOK
    <3>2. CASE incoming'[q][t] = incoming[q][t]
      BY <1>2, <3>2
    <3>3. CASE q = p /\ t = w.msg.stream /\ incoming'[q][t] = w.msg.file
      BY <2>3, <3>3
    <3>4. QED
      BY <3>1, <3>2, <3>3
  <2>6. QED
    BY <1>1, <2>4, <2>5 DEF MapsSound
<1>10. ASSUME NEW p \in Peers, Close(p) PROVE MapsSound'
  <2>1. ASSUME NEW q \in Peers, NEW t \in StreamIds
        PROVE  /\ outgoing'[q][t] \in {outgoing[q][t], NoFile}
               /\ incoming'[q][t] \in {incoming[q][t], NoFile}
    BY <1>10 DEF Close, TypeOK
  <2>2. QED
    BY <1>3, <2>1
<1>11. QED
  BY <1>4, <1>6, <1>7, <1>8, <1>9, <1>10 DEF Next

\* An awaiting handler was begun by a sound message.
LEMMA WorksNext ==
  ASSUME TypeOK, MapsSound, ChannelSound, Grows, [Next]_vars, NEW p \in Peers
  PROVE  WorkSound(p, handling[p])'
<1> USE DEF sendVars, recvVars, chanVars
<1>1. ASSUME handling'[p] = handling[p] PROVE WorkSound(p, handling[p])'
  <2>1. PICK w \in WorkSet : w = handling[p]
    BY DEF TypeOK
  <2>2. WorkSound(p, w)'
    BY <2>1, WorkStays DEF ChannelSound
  <2>3. QED
    BY <1>1, <2>1, <2>2 DEF WorkSound
<1>2. ASSUME handling'[p] = Idle PROVE WorkSound(p, handling[p])'
  BY <1>2 DEF WorkSound, Idle
<1>3. ASSUME BeginHandling(p) PROVE WorkSound(p, handling[p])'
  <2>1. PICK m \in Message : m = Head(inbound[p])
    BY <1>3, TurnType DEF BeginHandling
  <2>2. MessageSound(p, m)
    BY <1>3, <2>1, TravellingTurn DEF BeginHandling, ChannelSound
  <2>3. m.type \in {"offer", "done"} => Receives(p, m.stream, m.file)
    BY <2>2 DEF MessageSound
  <2>4. m.type # "offer" => Receives(p, m.stream, Arriving(p))
    BY <1>3, <2>1, EntrySends DEF BeginHandling, Turn
  <2>5. PICK w \in WorkSet : w = Work(m, Entry(p), Arriving(p))
    <3>1. /\ m.type \in {"offer", "done", "cancel", "error"}
          /\ Entry(p) \in Files \cup {NoFile}
          /\ Arriving(p) \in Files \cup {NoFile}
      BY <1>3, <2>1, TurnType DEF BeginHandling
    <3>2. Work(m, Entry(p), Arriving(p)) \in WorkSet
      BY <3>1, MessageFields DEF Work, WorkSet
    <3>3. QED
      BY <3>2
  <2>6. WorkSound(p, w)'
    <3>1. w.type = m.type /\ w.msg = m /\ w.arriving = Arriving(p)
      BY <2>5 DEF Work
    <3>2. WorkSound(p, w)
      BY <2>3, <2>4, <3>1 DEF WorkSound
    <3>3. QED
      BY <3>2, WorkStays
  <2>7. handling'[p] = w
    BY <1>3, <2>1, <2>5 DEF BeginHandling, TypeOK
  <2>8. QED
    BY <2>6, <2>7 DEF WorkSound
<1>4. handling'[p] = handling[p] \/ handling'[p] = Idle \/ BeginHandling(p)
  <2>1. CASE UNCHANGED vars
    BY <2>1 DEF vars
  <2>2. ASSUME NEW f \in Files,
               BeginSend(f) \/ BeginSendClosed(f) \/ Cancel(f) \/ SenderStep(f)
        PROVE  handling' = handling
    BY <2>2 DEF BeginSend, BeginSendClosed, Cancel, SenderStep, PumpChunk,
         PumpDone, PumpFails, PumpClosed, OfferTimeout
  <2>3. ASSUME NEW q \in Peers, Receive(q) \/ HandlerStep(q) \/ AnswerStep(q) \/ Close(q)
        PROVE  \/ handling' = handling
               \/ handling' = [handling EXCEPT ![q] = Idle]
               \/ BeginHandling(q)
    BY <2>3 DEF Receive, HandlerStep, HandleUnknown, HandleAccept, HandleReject,
         HandleAck, HandleEndEntry, HandleChunk, CompleteTransfer,
         CompleteClosed, SinkCloseFails, EndArriving, Finish, AnswerStep,
         AcceptOffer, RejectOffer, SinkUnavailable, Close
  <2>4. ASSUME NEW q \in Peers, q # p, BeginHandling(q) PROVE handling'[p] = handling[p]
    BY <2>4 DEF BeginHandling, TypeOK
  <2>5. ASSUME NEW q \in Peers, handling' = [handling EXCEPT ![q] = Idle]
        PROVE  handling'[p] \in {handling[p], Idle}
    BY <2>5 DEF TypeOK
  <2>6. QED
    BY <2>1, <2>2, <2>3, <2>4, <2>5 DEF Next
<1>5. QED
  BY <1>1, <1>2, <1>3, <1>4

\* What a step puts on its way is sound, or says only "seen", cancel or error.
LEMMA PostedSound ==
  ASSUME NoWrap, TypeOK, Entered, IdsInOrder, MapsSound, ChannelSound,
         PumpsAccepted, Grows, [Next]_vars,
         NEW q \in Peers, NEW x \in Travelling(q)'
  PROVE  x \in Travelling(q) \/ MessageSound(q, x)'
<1> USE DEF sendVars, recvVars, chanVars
<1>0. \A f \in Files : Source[f] \in Peers
  BY TransferAssumption
<1>1. ASSUME x.type \in {"seen", "cancel", "error"} PROVE MessageSound(q, x)'
  BY <1>1 DEF MessageSound
<1>2. CASE UNCHANGED vars
  BY <1>2 DEF vars, Travelling
<1>3. ASSUME NEW f \in Files, BeginSend(f) \/ BeginSendClosed(f) \/ Cancel(f) \/ SenderStep(f)
      PROVE  x \in Travelling(q) \/ MessageSound(q, x)'
  <2> DEFINE p == Source[f]
  <2>0. p \in Peers /\ Other(Other(p)) = p
    BY <1>0, Others
  <2>i. stream[f] # 0 => stream[f] \in StreamIds /\ stream'[f] = stream[f]
    BY DEF TypeOK, StreamIds, Grows
  <2>1. CASE BeginSend(f)
    <3> DEFINE s == AllocateStreamId(p)
    <3>1. s \in StreamIds /\ stream'[f] = s
      BY <1>0, <2>1, AllocateFree DEF BeginSend, TypeOK, FreeIds
    <3>2. PICK m \in Message : m = FileControl("offer", s, f)
      BY <3>1, Messages
    <3>3. m.type = "offer" /\ m.stream = s /\ m.file = f
      BY <3>1, <3>2, Messages
    <3>4. wire' = Post(p, m) /\ inbound' = inbound
      BY <2>1, <3>2 DEF BeginSend
    <3>5. x \in Travelling(q) \/ (x = m /\ q = Other(p))
      BY <2>0, <3>4, TravellingPost
    <3>6. MessageSound(Other(p), m)'
      BY <2>0, <3>1, <3>3 DEF MessageSound, Receives, Sends
    <3>7. QED
      BY <3>5, <3>6
  <2>2. CASE UNCHANGED <<wire, inbound>>
    BY <2>2 DEF Travelling
  <2>3. ASSUME NEW m \in Message, wire' = Post(p, m), inbound' = inbound,
               MessageSound(Other(p), m)'
        PROVE  x \in Travelling(q) \/ MessageSound(q, x)'
    BY <2>0, <2>3, TravellingPost
  <2>4. CASE PumpChunk(f)
    <3>1. stream[f] \in StreamIds /\ sink'[f] # "none" /\ next[f] \in Nat
      BY <2>i, <2>4 DEF PumpChunk, Pumping, Entered, PumpsAccepted, TypeOK, Grows
    <3>2. PICK m \in Message : m = ChunkFrame(stream[f], f, next[f])
      BY <3>1, Messages
    <3>3. m.type = "chunk" /\ m.stream = stream[f] /\ m.file = f
      BY <3>1, <3>2, Messages
    <3>4. MessageSound(Other(p), m)'
      BY <2>0, <2>i, <3>1, <3>3, TransferAssumption
         DEF MessageSound, Receives, Sends, StreamIds
    <3>5. QED
      BY <2>3, <2>4, <3>2, <3>4 DEF PumpChunk
  <2>5. CASE PumpDone(f)
    <3>1. stream[f] \in StreamIds
      BY <2>i, <2>5 DEF PumpDone, Pumping, Entered
    <3>2. PICK m \in Message : m = FileControl("done", stream[f], f)
      BY <3>1, Messages
    <3>3. m.type = "done" /\ m.stream = stream[f] /\ m.file = f
      BY <3>1, <3>2, Messages
    <3>4. MessageSound(Other(p), m)'
      BY <2>0, <2>i, <3>1, <3>3, TransferAssumption
         DEF MessageSound, Receives, Sends, StreamIds
    <3>5. QED
      BY <2>3, <2>5, <3>2, <3>4 DEF PumpDone
  <2>6. CASE Cancel(f) \/ PumpFails(f)
    <3>1. stream[f] \in StreamIds
      BY <2>i, <2>6 DEF Cancel, PumpFails, Pumping, Entered
    <3>2. \E t \in {"cancel", "error"} : wire' = Post(p, Control(t, stream[f]))
      BY <2>6 DEF Cancel, PumpFails, PumpThrows
    <3>3. PICK m \in Message : /\ m.type \in {"cancel", "error"}
                               /\ wire' = Post(p, m)
      BY <3>1, <3>2, Messages
    <3>4. MessageSound(Other(p), m)'
      BY <3>3 DEF MessageSound
    <3>5. QED
      BY <2>3, <2>6, <3>3, <3>4 DEF Cancel, PumpFails
  <2>7. QED
    BY <1>3, <2>1, <2>2, <2>4, <2>5, <2>6
       DEF BeginSendClosed, SenderStep, PumpClosed, OfferTimeout
<1>4. ASSUME NEW p \in Peers, Receive(p)
      PROVE  x \in Travelling(q) \/ MessageSound(q, x)'
  BY <1>1, <1>4, TravellingReceive
<1>5. ASSUME NEW p \in Peers, Close(p) PROVE x \in Travelling(q)
  BY <1>5, TravellingClose
<1>6. ASSUME NEW p \in Peers, NEW types, Turn(p, types), wire' = wire
      PROVE  x \in Travelling(q)
  BY <1>6, TravellingTurn
<1>7. ASSUME NEW p \in Peers, HandlerStep(p) \/ AnswerStep(p)
      PROVE  x \in Travelling(q) \/ MessageSound(q, x)'
  <2>0. Other(p) \in Peers /\ Other(Other(p)) = p
    BY Others
  <2>1. CASE UNCHANGED <<wire, inbound>>
    BY <2>1 DEF Travelling
  <2>2. CASE \E types : Turn(p, types) /\ wire' = wire
    BY <1>6, <2>2
  <2>3. ASSUME NEW m \in Message, wire' = Post(p, m), inbound' = inbound,
               MessageSound(Other(p), m)'
        PROVE  x \in Travelling(q) \/ MessageSound(q, x)'
    BY <2>3, TravellingPost
  <2>4. PICK w \in WorkSet : w = handling[p]
    BY DEF TypeOK
  <2>5. WorkSound(p, w)'
    BY <2>4, WorkStays DEF ChannelSound
  <2>6. CASE AcceptOffer(p) /\ ~closed[p]
    <3>1. w.type = "offer" /\ w.msg.stream \in StreamIds /\ w.msg.file \in Files
      BY <2>4, <2>6, WorkFields, MessageFields DEF AcceptOffer, Finish
    <3>2. PICK m \in Message : m = Control("accept", w.msg.stream)
      BY <3>1, Messages
    <3>3. m.type = "accept" /\ m.stream = w.msg.stream
      BY <3>1, <3>2, Messages
    <3>4. sink'[w.msg.file] = "open"
      BY <2>4, <2>6, <3>1 DEF AcceptOffer, TypeOK
    <3>5. MessageSound(Other(p), m)'
      BY <2>0, <2>5, <3>1, <3>3, <3>4 DEF MessageSound, WorkSound, Receives
    <3>6. QED
      BY <2>3, <2>4, <2>6, <3>2, <3>5 DEF AcceptOffer, Finish
  <2>7. CASE RejectOffer(p) /\ ~closed[p]
    <3>1. w.type = "offer" /\ w.msg.stream \in StreamIds /\ w.msg.file \in Files
      BY <2>4, <2>7, WorkFields, MessageFields DEF RejectOffer, Finish
    <3>2. PICK m \in Message : m = Control("reject", w.msg.stream)
      BY <3>1, Messages
    <3>3. m.type = "reject" /\ m.stream = w.msg.stream
      BY <3>1, <3>2, Messages
    <3>4. "declined" \in reported'[w.msg.file]
      BY <2>4, <2>7, <3>1 DEF RejectOffer, Report, TypeOK
    <3>5. MessageSound(Other(p), m)'
      BY <2>0, <2>5, <3>1, <3>3, <3>4 DEF MessageSound, WorkSound, Receives
    <3>6. QED
      BY <2>3, <2>4, <2>7, <3>2, <3>5 DEF RejectOffer, Finish
  <2>8. CASE CompleteTransfer(p)
    <3> DEFINE ok == Verified(w)
    <3>1. w.type = "done" /\ w.msg.stream \in StreamIds
      BY <2>4, <2>8, WorkFields, MessageFields DEF CompleteTransfer, Finish
    <3>2. ok \in BOOLEAN
      BY DEF Verified
    <3>3. PICK m \in Message : m = Ack(w.msg.stream, ok)
      BY <3>1, <3>2, Messages
    <3>4. m.type = "ack" /\ m.stream = w.msg.stream /\ m.ok = ok
      BY <3>1, <3>2, <3>3, Messages
    <3>5. Receives(p, w.msg.stream, w.arriving)'
      BY <2>5, <3>1 DEF WorkSound
    <3>6. w.arriving \in Files
      BY <3>5 DEF Receives, Sends
    <3>7. ok => "complete" \in reported'[w.arriving]
      BY <2>4, <2>8, <3>6 DEF CompleteTransfer, EndTransfer, Report, TypeOK
    <3>8. MessageSound(Other(p), m)'
      BY <2>0, <3>4, <3>5, <3>6, <3>7 DEF MessageSound, Receives
    <3>9. QED
      BY <2>3, <2>4, <2>8, <3>3, <3>8 DEF CompleteTransfer, EndTransfer, Finish
  <2>9. QED
    BY <1>7, <2>1, <2>2, <2>6, <2>7, <2>8
       DEF HandlerStep, HandleUnknown, HandleAccept, HandleReject, HandleAck,
           HandleEndEntry, EndEntry, BeginHandling, HandleChunk, CompleteClosed,
           SinkCloseFails, SinkThrows, EndArriving, AnswerStep, AcceptOffer,
           RejectOffer, SinkUnavailable, Finish
<1>8. QED
  BY <1>2, <1>3, <1>4, <1>5, <1>7 DEF Next

LEMMA ChannelNext ==
  ASSUME NoWrap, TypeOK, TypeOK', Entered, IdsInOrder, MapsSound, ChannelSound,
         PumpsAccepted, Grows, [Next]_vars
  PROVE  ChannelSound'
<1>1. ASSUME NEW p \in Peers, NEW m \in Travelling(p)' PROVE MessageSound(p, m)'
  <2>1. CASE m \in Travelling(p)
    <3>1. m \in Message /\ MessageSound(p, m)
      BY <2>1, TravellingType DEF ChannelSound
    <3>2. QED
      BY <3>1, MessageStays
  <2>2. QED
    BY <2>1, PostedSound
<1>2. QED
  BY <1>1, WorksNext DEF ChannelSound

-----------------------------------------------------------------------------
(* What the sender concludes. *)

LEMMA PumpsNext ==
  ASSUME TypeOK, IdsInOrder, MapsSound, ChannelSound, PumpsAccepted, Grows,
         [Next]_vars
  PROVE  PumpsAccepted'
<1> USE DEF sendVars, recvVars, chanVars
<1>1. ASSUME \A f \in Files : pump'[f] = "running" => pump[f] = "running"
      PROVE  PumpsAccepted'
  BY <1>1 DEF PumpsAccepted, Grows
<1>2. CASE UNCHANGED pump
  BY <1>1, <1>2
<1>3. CASE \E f \in Files : pump' = [pump EXCEPT ![f] = "over"]
  BY <1>1, <1>3 DEF TypeOK
<1>4. ASSUME NEW p \in Peers, HandleAccept(p) PROVE PumpsAccepted'
  <2>1. PICK m \in Message : m = Head(inbound[p])
    BY <1>4, TurnType DEF HandleAccept
  <2>2. m.type = "accept" /\ m \in Travelling(p) /\ m.stream \in StreamIds
    BY <1>4, <2>1, TurnType, TravellingTurn, EntrySends DEF HandleAccept
  <2>3. PICK g \in Files : Sends(p, m.stream, g) /\ sink[g] # "none"
    BY <2>2 DEF ChannelSound, MessageSound
  <2>4. Entry(p) = g
    BY <1>4, <2>1, <2>3, EntrySends, SameFile DEF HandleAccept
  <2>5. pump' = [pump EXCEPT ![g] = "running"]
    BY <1>4, <2>4 DEF HandleAccept
  <2>6. QED
    BY <2>3, <2>5 DEF PumpsAccepted, Grows, TypeOK
<1>5. QED
  BY <1>2, <1>3, <1>4 DEF Next, vars, BeginSend, BeginSendClosed, Cancel,
     SenderStep, PumpChunk, PumpDone, PumpFails, PumpThrows, PumpClosed,
     OfferTimeout, Receive, HandlerStep, HandleUnknown, HandleReject, HandleAck,
     HandleEndEntry, EndEntry, BeginHandling, HandleChunk, CompleteTransfer,
     CompleteClosed, SinkCloseFails, EndArriving, AnswerStep, AcceptOffer,
     RejectOffer, SinkUnavailable, Finish, Close

LEMMA ResolvedNext ==
  ASSUME TypeOK, IdsInOrder, MapsSound, ChannelSound, Grows, [Next]_vars,
         ResolvedMeansComplete, DeclinedMeansRefused
  PROVE  ResolvedMeansComplete' /\ DeclinedMeansRefused'
<1> USE DEF sendVars, recvVars, chanVars
<1> DEFINE Concluding == {"resolved", "declined"}
<1>1. ASSUME \A f \in Files : promise'[f] \in Concluding => promise'[f] = promise[f]
      PROVE  ResolvedMeansComplete' /\ DeclinedMeansRefused'
  BY <1>1 DEF ResolvedMeansComplete, DeclinedMeansRefused, Grows
<1>2. CASE UNCHANGED promise
  BY <1>1, <1>2
<1>3. ASSUME NEW f, NEW how, how \notin Concluding, promise' = Settle(f, how)
      PROVE  ResolvedMeansComplete' /\ DeclinedMeansRefused'
  BY <1>1, <1>3 DEF Settle, TypeOK
<1>4. ASSUME NEW p \in Peers, HandleAck(p)
      PROVE  ResolvedMeansComplete' /\ DeclinedMeansRefused'
  <2>1. PICK m \in Message : m = Head(inbound[p])
    BY <1>4, TurnType DEF HandleAck
  <2>2. m.type = "ack" /\ m \in Travelling(p) /\ m.stream \in StreamIds
    BY <1>4, <2>1, TurnType, TravellingTurn, EntrySends DEF HandleAck
  <2>3. CASE m.ok = TRUE
    <3>1. PICK g \in Files : Sends(p, m.stream, g) /\ "complete" \in reported[g]
      BY <2>2, <2>3 DEF ChannelSound, MessageSound
    <3>2. Entry(p) = g
      BY <1>4, <2>1, <3>1, EntrySends, SameFile DEF HandleAck
    <3>3. promise' = Settle(g, "resolved")
      BY <1>4, <2>1, <2>3, <3>2 DEF HandleAck
    <3>4. QED
      BY <3>1, <3>3 DEF Settle, TypeOK, ResolvedMeansComplete,
         DeclinedMeansRefused, Grows
  <2>4. CASE m.ok # TRUE
    <3>1. m.ok = FALSE
      BY <2>2, <2>4 DEF Message, ControlMessage, AckMessage, FileMessage, ChunkMessage
    <3>2. promise' = Settle(Entry(p), "mismatch")
      BY <1>4, <2>1, <3>1 DEF HandleAck
    <3>3. QED
      BY <1>3, <3>2
  <2>5. QED
    BY <2>3, <2>4
<1>5. ASSUME NEW p \in Peers, HandleReject(p)
      PROVE  ResolvedMeansComplete' /\ DeclinedMeansRefused'
  <2>1. PICK m \in Message : m = Head(inbound[p])
    BY <1>5, TurnType DEF HandleReject
  <2>2. m.type = "reject" /\ m \in Travelling(p) /\ m.stream \in StreamIds
    BY <1>5, <2>1, TurnType, TravellingTurn, EntrySends DEF HandleReject
  <2>3. PICK g \in Files : Sends(p, m.stream, g) /\ "declined" \in reported[g]
    BY <2>2 DEF ChannelSound, MessageSound
  <2>4. Entry(p) = g
    BY <1>5, <2>1, <2>3, EntrySends, SameFile DEF HandleReject
  <2>5. promise' = Settle(g, "declined")
    BY <1>5, <2>4 DEF HandleReject
  <2>6. QED
    BY <2>3, <2>5 DEF Settle, TypeOK, ResolvedMeansComplete,
       DeclinedMeansRefused, Grows
<1>6. ASSUME NEW f \in Files,
             BeginSend(f) \/ BeginSendClosed(f) \/ Cancel(f) \/ SenderStep(f)
      PROVE  ResolvedMeansComplete' /\ DeclinedMeansRefused'
  <2>1. \/ UNCHANGED promise
        \/ \E how \in {"pending", "closed"} : promise' = [promise EXCEPT ![f] = how]
        \/ \E how \in {"failed", "timeout"} : promise' = Settle(f, how)
    BY <1>6 DEF BeginSend, BeginSendClosed, Cancel, SenderStep, PumpChunk,
       PumpDone, PumpFails, PumpThrows, PumpClosed, OfferTimeout
  <2>2. CASE \E how \in {"pending", "closed"} : promise' = [promise EXCEPT ![f] = how]
    BY <1>1, <2>2 DEF TypeOK
  <2>3. QED
    BY <1>2, <1>3, <2>1, <2>2
<1>7. ASSUME NEW p \in Peers, Close(p)
      PROVE  ResolvedMeansComplete' /\ DeclinedMeansRefused'
  <2>1. \A f \in Files : Settle(f, "closed")[f] \in {promise[f], "closed"}
    BY DEF Settle, TypeOK
  <2>2. QED
    BY <1>1, <1>7, <2>1 DEF Close
<1>8. ASSUME NEW p \in Peers, Receive(p) \/ HandlerStep(p) \/ AnswerStep(p),
             ~HandleAck(p), ~HandleReject(p)
      PROVE  ResolvedMeansComplete' /\ DeclinedMeansRefused'
  <2>1. UNCHANGED promise \/ \E f : promise' = Settle(f, "endedByPeer")
    BY <1>8 DEF Receive, HandlerStep, HandleUnknown, HandleAccept, HandleEndEntry,
       EndEntry, BeginHandling, HandleChunk, CompleteTransfer, CompleteClosed,
       SinkCloseFails, EndArriving, AnswerStep, AcceptOffer, RejectOffer,
       SinkUnavailable
  <2>2. QED
    BY <1>2, <1>3, <2>1
<1>9. CASE UNCHANGED vars
  BY <1>2, <1>9 DEF vars
<1>10. QED
  BY <1>4, <1>5, <1>6, <1>7, <1>8, <1>9 DEF Next

LEMMA AnswersInit == Init => AnswersTrue
<1> SUFFICES ASSUME Init PROVE AnswersTrue
  OBVIOUS
<1>1. \A p \in Peers : Travelling(p) = {}
  BY DEF Init, Travelling
<1>2. \A p \in Peers : WorkSound(p, handling[p])
  BY DEF Init, Idle, WorkSound
<1>3. MapsSound /\ PumpsAccepted /\ ResolvedMeansComplete /\ DeclinedMeansRefused
  BY DEF Init, MapsSound, PumpsAccepted, ResolvedMeansComplete, DeclinedMeansRefused
<1>4. QED
  BY <1>1, <1>2, <1>3, TypeInit, EnteredInit, IdsInit DEF AnswersTrue, ChannelSound

LEMMA AnswersNext ==
  ASSUME NoWrap, AnswersTrue, [Next]_vars
  PROVE  AnswersTrue'
<1>1. TypeOK' /\ Entered'
  BY TypeNext, EnteredNext DEF AnswersTrue
<1>2. Grows /\ IdsInOrder'
  BY GrowsNext, IdsNext DEF AnswersTrue
<1>3. MapsSound' /\ ChannelSound' /\ PumpsAccepted'
  BY <1>1, <1>2, MapsNext, ChannelNext, PumpsNext DEF AnswersTrue
<1>4. ResolvedMeansComplete' /\ DeclinedMeansRefused'
  BY <1>2, ResolvedNext DEF AnswersTrue
<1>5. QED
  BY <1>1, <1>2, <1>3, <1>4 DEF AnswersTrue

\* Until ids wrap, every answer names the one file its receiver answered for,
\* and no chunk is sent of a file that was not accepted.
THEOREM AnswersCorrect ==
  ASSUME NoWrap
  PROVE  Spec => []AnswersTrue
<1>1. AnswersTrue /\ [Next]_vars => AnswersTrue'
  BY AnswersNext
<1>2. QED
  BY <1>1, AnswersInit, PTL DEF Spec

\* A resolved send is a file its receiver verified, closed and reported complete.
THEOREM ResolvedCorrect ==
  ASSUME NoWrap
  PROVE  Spec => []ResolvedMeansComplete
<1>1. AnswersTrue => ResolvedMeansComplete
  BY DEF AnswersTrue
<1>2. QED
  BY <1>1, AnswersCorrect, PTL

\* A declined send is a file its receiver refused.
THEOREM DeclinedCorrect ==
  ASSUME NoWrap
  PROVE  Spec => []DeclinedMeansRefused
<1>1. AnswersTrue => DeclinedMeansRefused
  BY DEF AnswersTrue
<1>2. QED
  BY <1>1, AnswersCorrect, PTL

\* Every chunk on its way is one of a file its receiver accepted.
THEOREM AcceptedCorrect ==
  ASSUME NoWrap
  PROVE  Spec => []OnlyAcceptedBytesTravel
<1>1. AnswersTrue => OnlyAcceptedBytesTravel
  <2>1. SUFFICES ASSUME AnswersTrue, NEW f \in Files,
                        NEW m \in Travelling(Other(Source[f])),
                        m.type = "chunk", m.file = f
                 PROVE  sink[f] # "none"
    BY DEF OnlyAcceptedBytesTravel
  <2>2. Other(Source[f]) \in Peers
    BY Others, TransferAssumption
  <2>3. MessageSound(Other(Source[f]), m)
    BY <2>1, <2>2 DEF AnswersTrue, ChannelSound
  <2>4. QED
    BY <2>1, <2>3 DEF MessageSound
<1>2. QED
  BY <1>1, AnswersCorrect, PTL

=============================================================================
