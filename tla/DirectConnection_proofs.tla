---------------------- MODULE DirectConnection_proofs ----------------------
(* Theorems about DirectConnection, for any sends of the two devices, any      *)
(* number of socket drops and quiet links.  LinkInv is inductive: whatever    *)
(* replaces, drops or loses a connection, the ones that live are those the   *)
(* maps hold, and a send that waits or sends does so on its device's own.    *)
EXTENDS DirectConnection, TLAPS

USE DirectAssumption

\* A send that is dialling or sending does so on its device's connection.
UsesTheMap ==
  \A s \in Sends :
    status[s] \in {"dialling", "sending", "moving"} =>
      conn[From[s]] # NoLink /\ using[s] = conn[From[s]]

LinkInv == OneLink /\ NobodyWaits /\ UsesTheMap

-----------------------------------------------------------------------------
(* Devices and messages. *)

\* There are two devices, and each link is dialled by one of them.
LEMMA TwoDevices ==
  ASSUME NEW d \in Devices
  PROVE  /\ Other(d) \in Devices /\ Other(d) # d
         /\ Devices = {d, Other(d)}
         /\ \A k \in Sends : Dials(Other(d), k) <=> ~Dials(d, k)
<1>1. PICK h \in Devices : h # Lower /\ Devices = {Lower, h}
  OBVIOUS
<1>2. \E o \in Devices : o # d
  BY <1>1
<1>3. Other(d) \in Devices /\ Other(d) # d
  BY <1>2 DEF Other
<1>4. Devices = {d, Other(d)}
  BY <1>1, <1>3
<1> QED
  BY <1>3, <1>4 DEF Dials

\* Sequences keep the type of their elements.
LEMMA SeqTypes ==
  ASSUME NEW S, NEW q \in Seq(S)
  PROVE  /\ \A x \in S : Append(q, x) \in Seq(S)
         /\ q # << >> => Head(q) \in S /\ Tail(q) \in Seq(S)
OBVIOUS

\* What the server sends on is right for whom it reaches.
LEMMA SignalledType ==
  ASSUME TypeOK, NEW d \in Devices, NEW m \in Message(Other(d)), NEW box,
         DOMAIN box = Devices, \A e \in Devices : box[e] \in Seq(Message(e))
  PROVE  /\ DOMAIN Signalled(box, d, m) = Devices
         /\ \A e \in Devices : Signalled(box, d, m)[e] \in Seq(Message(e))
<1>1. Peer(FALSE) \in Message(d)
  BY DEF Message
<1>2. Other(d) \in Devices
  BY TwoDevices
<1>3. Append(box[d], Peer(FALSE)) \in Seq(Message(d))
  BY <1>1, SeqTypes
<1>4. Append(box[Other(d)], m) \in Seq(Message(Other(d)))
  BY <1>2, SeqTypes
<1> QED
  BY <1>2, <1>3, <1>4 DEF Signalled, To

\* Taking the head of an inbox leaves messages.
LEMMA ReceivedType ==
  ASSUME TypeOK, NEW d \in Devices, inbox[d] # << >>
  PROVE  /\ DOMAIN Received(d) = Devices
         /\ \A e \in Devices : Received(d)[e] \in Seq(Message(e))
         /\ Head(inbox[d]) \in Message(d)
<1>1. inbox[d] \in Seq(Message(d))
  BY DEF TypeOK
<1>2. Tail(inbox[d]) \in Seq(Message(d)) /\ Head(inbox[d]) \in Message(d)
  BY <1>1, SeqTypes
<1> QED
  BY <1>2 DEF TypeOK, Received

-----------------------------------------------------------------------------
(* Types. *)

StageOK == /\ stage \in [Devices -> [Sends -> Stages]]
           /\ \A d \in Devices : stage[d] \in Ends(d)

\* One end of a link moves on.
LEMMA SetEnd ==
  ASSUME NEW d \in Devices, NEW ends \in Ends(d), NEW k \in Sends,
         NEW v \in StagesAt(d, k)
  PROVE  [ends EXCEPT ![k] = v] \in Ends(d)
<1>1. v \in Stages
  BY DEF StagesAt, Stages
<1> QED
  BY <1>1 DEF Ends

\* The ends of one device move on.
LEMMA SetStage ==
  ASSUME TypeOK, NEW d \in Devices, NEW ends \in Ends(d),
         stage' = [stage EXCEPT ![d] = ends]
  PROVE  StageOK'
BY DEF TypeOK, StageOK, Ends

\* The same for one end of one link.
LEMMA MoveEnd ==
  ASSUME TypeOK, NEW d \in Devices, NEW k \in Sends, NEW v \in StagesAt(d, k),
         stage' = [stage EXCEPT ![d][k] = v]
  PROVE  StageOK'
<1>1. stage[d] \in Ends(d) /\ stage' = [stage EXCEPT ![d] = [stage[d] EXCEPT ![k] = v]]
  BY DEF TypeOK
<1>2. [stage[d] EXCEPT ![k] = v] \in Ends(d)
  BY <1>1, SetEnd
<1> QED
  BY <1>1, <1>2, SetStage

\* A dropped connection is closed, and its sends have heard.
LEMMA DropType ==
  ASSUME TypeOK, NEW d \in Devices
  PROVE  /\ Dropped(d) \in Ends(d)
         /\ \A k \in Sends : Dropped(d)[k] = IF k = conn[d] THEN "closed" ELSE stage[d][k]
         /\ StatusAfterDrop(d) \in [Sends -> Statuses]
<1>1. /\ stage[d] \in Ends(d) /\ conn[d] \in Sends \cup {NoLink}
      /\ stage[d] \in [Sends -> Stages]
  BY DEF TypeOK
<1>2. /\ Dropped(d) \in Ends(d)
      /\ \A k \in Sends : Dropped(d)[k] = IF k = conn[d] THEN "closed" ELSE stage[d][k]
  BY <1>1, SetEnd DEF Dropped, StagesAt
<1>3. StatusAfterDrop(d) \in [Sends -> Statuses]
  BY DEF TypeOK, StatusAfterDrop, Rejected, Statuses
<1> QED
  BY <1>2, <1>3

\* What Drop and DropExpected do to the types.
LEMMA DropKeepsTypes ==
  ASSUME TypeOK, NEW d \in Devices, Drop(d) \/ \E k \in Sends : DropExpected(d, k)
  PROVE  /\ conn' \in [Devices -> Sends \cup {NoLink}]
         /\ StageOK'
         /\ status' \in [Sends -> Statuses]
<1>1. CASE Drop(d)
  BY <1>1, DropType, SetStage DEF TypeOK, Drop
<1>2. CASE UNCHANGED <<conn, stage, status>>
  BY <1>2 DEF TypeOK, StageOK
<1> QED
  BY <1>1, <1>2 DEF DropExpected

\* What Connect does to the types.
LEMMA ConnectType ==
  ASSUME TypeOK, NEW s \in Sends, NEW link \in Sends \cup {NoLink},
         NEW stages \in Ends(From[s]), NEW st \in [Sends -> Statuses],
         Connect(s, link, stages, st)
  PROVE  /\ conn' \in [Devices -> Sends \cup {NoLink}]
         /\ StageOK'
         /\ handling' \in [Devices -> SUBSET Calls]
         /\ status' \in [Sends -> Statuses]
         /\ using' \in [Sends -> Sends \cup {NoLink}]
         /\ \A e \in Devices, j \in Sends :
              /\ Call("start", j, j) \in handling'[e] => Dials(e, j)
              /\ Call("offer", j, j) \in handling'[e] => ~Dials(e, j)
<1> DEFINE d == From[s]
<1>1. d \in Devices /\ Dials(d, s)
  BY DEF Dials
<1>2. Call("start", s, s) \in Calls
  BY DEF Call, Calls
<1>3. \A j \in Sends : /\ Call("start", j, j) = Call("start", s, s) => j = s
                       /\ Call("offer", j, j) # Call("start", s, s)
  BY DEF Call
<1>4. conn' \in [Devices -> Sends \cup {NoLink}] /\ using' \in [Sends -> Sends \cup {NoLink}]
  BY <1>1 DEF Connect, TypeOK
<1>5. status' \in [Sends -> Statuses]
  BY DEF Connect, Statuses
<1>6. StageOK'
  <2>1. [stages EXCEPT ![s] = "offering"] \in Ends(d)
    BY <1>1, SetEnd DEF StagesAt
  <2> QED
    BY <1>1, <2>1, SetStage DEF Connect
<1>7. /\ handling' \in [Devices -> SUBSET Calls]
      /\ \A e \in Devices, j \in Sends :
           /\ Call("start", j, j) \in handling'[e] => Dials(e, j)
           /\ Call("offer", j, j) \in handling'[e] => ~Dials(e, j)
  BY <1>1, <1>2, <1>3 DEF Connect, TypeOK
<1> QED
  BY <1>4, <1>5, <1>6, <1>7

\* The types hold from the start.
LEMMA TypeInit == Init => TypeOK
BY DEF Init, TypeOK, Stages, StagesAt, Ends, Statuses

\* Every step keeps the types.
LEMMA TypeNext == TypeOK /\ [Next]_vars => TypeOK'
<1> SUFFICES ASSUME TypeOK, [Next]_vars PROVE TypeOK'
  OBVIOUS
<1>1. ASSUME NEW s \in Sends,
             SendDirect(s) \/ Retry(s)
      PROVE  TypeOK'
  <2>1. From[s] \in Devices
    OBVIOUS
  <2>2. PICK link \in Sends \cup {NoLink}, stages \in Ends(From[s]),
             st \in [Sends -> Statuses] :
          Connect(s, link, stages, st)
    <3>1. CASE SendDirect(s)
      <4>1. /\ conn[From[s]] \in Sends \cup {NoLink} /\ stage[From[s]] \in Ends(From[s])
            /\ status \in [Sends -> Statuses]
            /\ Connect(s, conn[From[s]], stage[From[s]], status)
        BY <2>1, <3>1 DEF SendDirect, TypeOK
      <4> QED
        BY <4>1
    <3>2. CASE Retry(s)
      <4> DEFINE d == From[s]
                 ours == conn[d] = using[s]
                 link == IF ours THEN NoLink ELSE conn[d]
                 stages == IF ours THEN Dropped(d) ELSE stage[d]
                 st == IF ours THEN StatusAfterDrop(d) ELSE status
      <4>1. Connect(s, link, stages, st)
        BY <3>2 DEF Retry
      <4>2. link \in Sends \cup {NoLink} /\ st \in [Sends -> Statuses]
        BY <2>1, DropType DEF TypeOK
      <4>3. stages \in Ends(d)
        BY <2>1, DropType DEF TypeOK
      <4> QED
        BY <4>1, <4>2, <4>3
    <3> QED
      BY <1>1, <3>1, <3>2
  <2>3. /\ retry' \in [Sends -> BOOLEAN]
        /\ UNCHANGED <<inbox, otherUnchanged>>
    BY <1>1 DEF SendDirect, Retry, TypeOK
  <2> QED
    BY <2>2, <2>3, ConnectType DEF TypeOK, StageOK, otherUnchanged
<1>2. ASSUME NEW s \in Sends,
             \/ SendByRelay(s) \/ Routed(s) \/ Accept(s) \/ Decline(s) \/ Finish(s)
             \/ SendFails(s)
      PROVE  TypeOK'
  <2>1. status' \in [Sends -> Statuses]
    <3>1. \E v \in Statuses : status' = [status EXCEPT ![s] = v]
      BY <1>2 DEF SendByRelay, Routed, Accept, Decline, Finish, SendFails, Statuses
    <3> QED
      BY <3>1 DEF TypeOK
  <2>2. UNCHANGED <<linkVars, using, retry, inbox, otherUnchanged>>
    BY <1>2 DEF SendByRelay, Routed, Accept, Decline, Finish, SendFails
  <2> QED
    BY <2>1, <2>2 DEF TypeOK, linkVars, otherUnchanged
<1>3. ASSUME NEW s \in Sends, FallBack(s) PROVE TypeOK'
  <2>1. From[s] \in Devices
    OBVIOUS
  <2>2. /\ conn' \in [Devices -> Sends \cup {NoLink}]
        /\ StageOK'
    BY <1>3, <2>1, DropType, SetStage DEF FallBack, TypeOK
  <2>3. status' \in [Sends -> Statuses]
    BY <1>3, <2>1, DropType DEF FallBack, Statuses
  <2> QED
    BY <1>3, <2>2, <2>3 DEF FallBack, TypeOK, StageOK, otherUnchanged
<1>4. ASSUME NEW s \in Sends, GoQuiet(s) PROVE TypeOK'
  BY <1>4 DEF GoQuiet, TypeOK, linkVars, serverVars, sendVars
<1>5. ASSUME NEW d \in Devices, ReceiveNoDirect(d) PROVE TypeOK'
  <2>1. inbox' = Received(d) /\ inbox[d] # << >>
    BY <1>5 DEF ReceiveNoDirect, Receives
  <2>2. CASE Drop(d)
    BY <1>5, <2>1, <2>2, ReceivedType, DropKeepsTypes
    DEF ReceiveNoDirect, TypeOK, otherUnchanged, StageOK
  <2>3. CASE UNCHANGED <<conn, stage, status>>
    BY <1>5, <2>1, <2>3, ReceivedType DEF ReceiveNoDirect, TypeOK, otherUnchanged
  <2>4. CASE /\ conn[d] # NoLink /\ Starting(d, conn[d])
             /\ stage' = [stage EXCEPT ![d][conn[d]] = "refused"]
             /\ UNCHANGED <<conn, status>>
    <3>1. conn[d] \in Sends
      BY <2>4 DEF TypeOK
    <3>2. "refused" \in StagesAt(d, conn[d])
      BY <2>4, <3>1 DEF Starting, TypeOK, StagesAt
    <3>3. StageOK'
      BY <2>4, <3>1, <3>2, MoveEnd
    <3> QED
      BY <1>5, <2>1, <2>4, <3>3, ReceivedType
      DEF ReceiveNoDirect, TypeOK, otherUnchanged, StageOK
  <2> QED
    BY <1>5, <2>2, <2>3, <2>4 DEF ReceiveNoDirect, Refused
<1>6. ASSUME NEW d \in Devices, SocketLost(d) PROVE TypeOK'
  <2>1. /\ DOMAIN inbox' = Devices
        /\ \A e \in Devices : inbox'[e] \in Seq(Message(e))
    BY <1>6 DEF SocketLost, TypeOK
  <2>2. CASE Drop(d)
    BY <1>6, <2>1, <2>2, DropKeepsTypes DEF SocketLost, TypeOK, StageOK
  <2>3. CASE UNCHANGED <<conn, stage, status>>
    BY <1>6, <2>1, <2>3 DEF SocketLost, TypeOK
  <2> QED
    BY <1>6, <2>2, <2>3 DEF SocketLost
<1>7. ASSUME NEW d \in Devices, ServerNotices(d) \/ Reconnect(d) PROVE TypeOK'
  <2>1. Other(d) \in Devices /\ \A e \in Devices, up \in BOOLEAN : Peer(up) \in Message(e)
    BY TwoDevices DEF Message
  <2>2. \A e \in Devices, up \in BOOLEAN : Append(inbox[e], Peer(up)) \in Seq(Message(e))
    BY <2>1, SeqTypes DEF TypeOK
  <2>3. /\ DOMAIN inbox' = Devices
        /\ \A e \in Devices : inbox'[e] \in Seq(Message(e))
    <3>1. CASE ServerNotices(d)
      BY <2>1, <2>2, <3>1 DEF ServerNotices, To, TypeOK
    <3>2. CASE Reconnect(d)
      <4>1. Other(d) # d
        BY TwoDevices
      <4> QED
        BY <2>1, <2>2, <3>2, <4>1 DEF Reconnect, To, TypeOK
    <3> QED
      BY <1>7, <3>1, <3>2
  <2>4. known' \in [Devices -> BOOLEAN] /\ sock' \in [Devices -> BOOLEAN]
    <3>1. /\ sock' = sock \/ sock' = [sock EXCEPT ![d] = TRUE]
          /\ \E v \in BOOLEAN : known' = [known EXCEPT ![d] = v]
      BY <1>7 DEF ServerNotices, Reconnect
    <3>2. sock \in [Devices -> BOOLEAN] /\ known \in [Devices -> BOOLEAN]
      BY DEF TypeOK
    <3>3. sock' \in [Devices -> BOOLEAN]
      BY <3>1, <3>2
    <3>4. PICK v \in BOOLEAN : known' = [known EXCEPT ![d] = v]
      BY <3>1
    <3>5. known' \in [Devices -> BOOLEAN]
      BY <3>2, <3>4
    <3> QED
      BY <3>3, <3>5
  <2>5. UNCHANGED <<webrtc, linkVars, online, sendVars, quiet, drops, breaks>>
    BY <1>7 DEF ServerNotices, Reconnect
  <2> QED
    BY <2>3, <2>4, <2>5 DEF TypeOK, linkVars, sendVars
<1>8. ASSUME NEW d \in Devices, NEW up \in BOOLEAN, ReceivePeer(d, up) PROVE TypeOK'
  <2>1. inbox' = Received(d) /\ inbox[d] # << >>
    BY <1>8 DEF ReceivePeer, Receives
  <2>2. CASE Drop(d)
    <3>1. /\ conn' \in [Devices -> Sends \cup {NoLink}]
          /\ StageOK'
          /\ status' \in [Sends -> Statuses]
      BY <2>2, DropKeepsTypes
    <3>2. /\ DOMAIN inbox' = Devices
          /\ \A e \in Devices : inbox'[e] \in Seq(Message(e))
      BY <2>1, ReceivedType
    <3> QED
      BY <1>8, <3>1, <3>2 DEF ReceivePeer, TypeOK, StageOK
  <2>3. CASE UNCHANGED <<conn, stage, status>>
    BY <1>8, <2>1, <2>3, ReceivedType DEF ReceivePeer, TypeOK
  <2> QED
    BY <1>8, <2>2, <2>3 DEF ReceivePeer
<1>9. ASSUME NEW d \in Devices, NEW k \in Sends, Started(d, k) PROVE TypeOK'
  <2>1. Dials(d, k) /\ Other(d) \in Devices /\ ~Dials(Other(d), k)
    BY <1>9, TwoDevices DEF Started, Starting, TypeOK
  <2>2. Offer(k) \in Message(Other(d))
    BY <2>1 DEF Message
  <2>3. /\ handling' \in [Devices -> SUBSET Calls]
        /\ \A e \in Devices : handling'[e] \subseteq handling[e]
    BY <1>9 DEF Started, TypeOK
  <2>4. CASE /\ inbox' = Signalled(inbox, d, Offer(k))
             /\ stage' = [stage EXCEPT ![d][k] = IF @ = "offering" THEN "offered" ELSE @]
             /\ UNCHANGED <<conn, status>>
    <3>1. /\ DOMAIN inbox' = Devices
          /\ \A e \in Devices : inbox'[e] \in Seq(Message(e))
      BY <2>2, <2>4, SignalledType DEF TypeOK
    <3>2. StageOK'
      <4> DEFINE v == IF stage[d][k] = "offering" THEN "offered" ELSE stage[d][k]
      <4>1. v \in StagesAt(d, k)
        BY <2>1 DEF TypeOK, Ends, StagesAt
      <4>2. stage' = [stage EXCEPT ![d][k] = v]
        BY <2>4
      <4> QED
        BY <4>1, <4>2, MoveEnd
    <3> QED
      BY <1>9, <2>3, <2>4, <3>1, <3>2 DEF Started, TypeOK, StageOK, otherUnchanged
  <2>5. CASE /\ DropExpected(d, k)
             /\ inbox' = IF stage[d][k] = "refused" THEN Signalled(inbox, d, Offer(k))
                                                     ELSE inbox
    <3>1. /\ DOMAIN inbox' = Devices
          /\ \A e \in Devices : inbox'[e] \in Seq(Message(e))
      BY <2>2, <2>5, SignalledType DEF TypeOK
    <3>2. /\ conn' \in [Devices -> Sends \cup {NoLink}]
          /\ StageOK'
          /\ status' \in [Sends -> Statuses]
      BY <2>5, DropKeepsTypes
    <3> QED
      BY <1>9, <2>3, <3>1, <3>2 DEF Started, TypeOK, StageOK, otherUnchanged
  <2> QED
    BY <1>9, <2>4, <2>5 DEF Started
<1>10. ASSUME NEW d \in Devices, NEW k \in Sends, ReceiveOffer(d, k) PROVE TypeOK'
  <2>1. /\ inbox[d] # << >> /\ Offer(k) = Head(inbox[d])
    BY <1>10 DEF ReceiveOffer, Receives
  <2>2. Offer(k) \in Message(d)
    BY <2>1, ReceivedType
  <2>3. ~Dials(d, k)
    BY <2>2 DEF Message, Offer, Answer, NoDirect, Peer
  <2>4. /\ DOMAIN inbox' = Devices
        /\ \A e \in Devices : inbox'[e] \in Seq(Message(e))
    <3>1. NoDirect \in Message(Other(d))
      BY DEF Message
    <3> QED
      BY <1>10, <2>1, <3>1, ReceivedType, SignalledType DEF ReceiveOffer
  <2>5. CASE UNCHANGED <<linkVars, status>>
    BY <1>10, <2>4, <2>5 DEF ReceiveOffer, TypeOK, linkVars, otherUnchanged
  <2>6. CASE /\ TakeOver(d, k)
             /\ conn' = [conn EXCEPT ![d] = k]
             /\ handling' = [handling EXCEPT ![d] = @ \cup {Call("offer", k, k)}]
    <3>1. Call("offer", k, k) \in Calls
      BY DEF Call, Calls
    <3>2. \A j \in Sends : /\ Call("offer", j, j) = Call("offer", k, k) => j = k
                           /\ Call("start", j, j) # Call("offer", k, k)
      BY DEF Call
    <3>3. /\ handling' \in [Devices -> SUBSET Calls]
          /\ \A e \in Devices, j \in Sends :
               /\ Call("start", j, j) \in handling'[e] => Dials(e, j)
               /\ Call("offer", j, j) \in handling'[e] => ~Dials(e, j)
      BY <2>3, <2>6, <3>1, <3>2 DEF TypeOK
    <3>4. StageOK'
      BY <2>3, <2>6, DropType, SetEnd, SetStage DEF TakeOver, StagesAt
    <3>5. status' \in [Sends -> Statuses] /\ conn' \in [Devices -> Sends \cup {NoLink}]
      BY <2>6, DropType DEF TakeOver, TypeOK
    <3> QED
      BY <1>10, <2>4, <3>3, <3>4, <3>5 DEF ReceiveOffer, TypeOK, StageOK, otherUnchanged
  <2> QED
    BY <1>10, <2>5, <2>6 DEF ReceiveOffer
<1>11. ASSUME NEW d \in Devices, NEW k \in Sends, ReceiveAnswer(d, k) PROVE TypeOK'
  <2>1. inbox' = Received(d) /\ inbox[d] # << >>
    BY <1>11 DEF ReceiveAnswer, Receives
  <2>2. conn[d] # NoLink => Call("answer", k, conn[d]) \in Calls
    BY DEF Call, Calls, TypeOK
  <2>3. \A j, e \in Sends : /\ Call("offer", j, j) # Call("answer", k, e)
                            /\ Call("start", j, j) # Call("answer", k, e)
    BY DEF Call
  <2>4. /\ handling' \in [Devices -> SUBSET Calls]
        /\ \A e \in Devices, j \in Sends :
             /\ Call("start", j, j) \in handling'[e] => Call("start", j, j) \in handling[e]
             /\ Call("offer", j, j) \in handling'[e] => Call("offer", j, j) \in handling[e]
    BY <1>11, <2>2, <2>3 DEF ReceiveAnswer, TypeOK
  <2> QED
    BY <1>11, <2>1, <2>4, ReceivedType DEF ReceiveAnswer, TypeOK, otherUnchanged, sendVars
<1>12. ASSUME NEW d \in Devices, NEW k \in Sends, Answered(d, k) PROVE TypeOK'
  <2>1. ~Dials(d, k) /\ Other(d) \in Devices /\ Dials(Other(d), k)
    BY <1>12, TwoDevices DEF Answered, TypeOK
  <2>2. Answer(k) \in Message(Other(d))
    BY <2>1 DEF Message
  <2>3. /\ handling' \in [Devices -> SUBSET Calls]
        /\ \A e \in Devices : handling'[e] \subseteq handling[e]
    BY <1>12 DEF Answered, TypeOK
  <2>4. CASE /\ inbox' = Signalled(inbox, d, Answer(k))
             /\ stage' = [stage EXCEPT ![d][k] = IF @ = "answering" THEN "answered" ELSE @]
             /\ UNCHANGED <<conn, status>>
    <3>1. /\ DOMAIN inbox' = Devices
          /\ \A e \in Devices : inbox'[e] \in Seq(Message(e))
      BY <2>2, <2>4, SignalledType DEF TypeOK
    <3>2. StageOK'
      <4> DEFINE v == IF stage[d][k] = "answering" THEN "answered" ELSE stage[d][k]
      <4>1. v \in StagesAt(d, k)
        BY <2>1 DEF TypeOK, Ends, StagesAt
      <4>2. stage' = [stage EXCEPT ![d][k] = v]
        BY <2>4
      <4> QED
        BY <4>1, <4>2, MoveEnd
    <3> QED
      BY <1>12, <2>3, <2>4, <3>1, <3>2 DEF Answered, TypeOK, StageOK, otherUnchanged
  <2>5. CASE Drop(d) /\ UNCHANGED inbox
    BY <1>12, <2>3, <2>5, DropKeepsTypes DEF Answered, TypeOK, StageOK, otherUnchanged
  <2> QED
    BY <1>12, <2>4, <2>5 DEF Answered
<1>13. ASSUME NEW d \in Devices, NEW k \in Sends, NEW e \in Sends, Taken(d, k, e)
       PROVE  TypeOK'
  <2>1. /\ handling' \in [Devices -> SUBSET Calls]
        /\ \A o \in Devices : handling'[o] \subseteq handling[o]
    BY <1>13 DEF Taken, TypeOK
  <2>2. CASE /\ AwaitsAnswer(d, e)
             /\ stage' = [stage EXCEPT ![d][e] = IF @ = "refused" THEN @
                                                ELSE IF k = e THEN "taken" ELSE "crossed"]
             /\ UNCHANGED <<conn, status>>
    <3>1. Dials(d, e)
      BY <2>2 DEF AwaitsAnswer, TypeOK, Ends, StagesAt
    <3>2. PICK v \in {"refused", "taken", "crossed"} : stage' = [stage EXCEPT ![d][e] = v]
      BY <2>2 DEF TypeOK
    <3>3. v \in StagesAt(d, e)
      BY <3>1 DEF StagesAt
    <3>4. StageOK'
      BY <3>2, <3>3, MoveEnd
    <3> QED
      BY <1>13, <2>1, <2>2, <3>4 DEF Taken, TypeOK, StageOK, otherUnchanged
  <2>3. CASE Drop(d)
    BY <1>13, <2>1, <2>3, DropKeepsTypes DEF Taken, TypeOK, StageOK, otherUnchanged
  <2> QED
    BY <1>13, <2>2, <2>3 DEF Taken
<1>14. ASSUME NEW d \in Devices, NEW k \in Sends, Open(d, k) PROVE TypeOK'
  <2>1. StageOK'
    BY <1>14, MoveEnd DEF Open, StagesAt
  <2> QED
    BY <1>14, <2>1 DEF Open, TypeOK, StageOK, otherUnchanged, sendVars
<1>15. ASSUME NEW d \in Devices, NEW k \in Sends, FailsToConnect(d, k) \/ ChannelLost(d, k)
       PROVE  TypeOK'
  <2>1. DropExpected(d, k)
    BY <1>15 DEF FailsToConnect, ChannelLost, LostAt
  <2>2. UNCHANGED <<handling, inbox, using, retry, otherUnchanged>>
    BY <1>15 DEF FailsToConnect, ChannelLost
  <2> QED
    BY <2>1, <2>2, DropKeepsTypes DEF TypeOK, StageOK, otherUnchanged
<1>16. CASE UNCHANGED vars
  BY <1>16 DEF vars, TypeOK
<1> QED
  BY <1>1, <1>2, <1>3, <1>4, <1>5, <1>6, <1>7, <1>8, <1>9, <1>10, <1>11, <1>12,
     <1>13, <1>14, <1>15, <1>16
  DEF Next

\* Every variable keeps its type, and no device answers its own offer.
THEOREM TypeCorrect == Spec => []TypeOK
BY TypeInit, TypeNext, PTL DEF Spec

-----------------------------------------------------------------------------
(* Connections and the sends that use them. *)

\* Nobody waits for a connection at the start.
LEMMA LinkInit == Init => LinkInv
BY DEF Init, LinkInv, OneLink, NobodyWaits, UsesTheMap, Live

\* The invariant survives at a device whose connection is dropped, whatever else
\* its sends turn to, as long as they turn to no connection.
LEMMA DropKeepsLinks ==
  ASSUME TypeOK, LinkInv, NEW d \in Devices,
         conn' = [conn EXCEPT ![d] = NoLink],
         stage' = [stage EXCEPT ![d] = Dropped(d)],
         UNCHANGED using,
         \A s \in Sends : \/ status'[s] = StatusAfterDrop(d)[s]
                         \/ status'[s] \notin {"dialling", "sending", "moving"}
  PROVE  LinkInv'
<1>1. OneLink'
  <2> SUFFICES ASSUME NEW e \in Devices, NEW k \in Sends
               PROVE  Live(e, k)' <=> conn'[e] = k
    BY DEF OneLink
  <2>1. CASE e = d
    <3>1. stage'[e][k] = IF k = conn[d] THEN "closed" ELSE stage[d][k]
      BY <2>1, DropType DEF TypeOK
    <3>2. conn'[e] = NoLink
      BY <2>1 DEF TypeOK
    <3> QED
      BY <2>1, <3>1, <3>2 DEF LinkInv, OneLink, Live
  <2>2. CASE e # d
    <3>1. stage'[e] = stage[e] /\ conn'[e] = conn[e]
      BY <2>2 DEF TypeOK
    <3> QED
      BY <3>1 DEF LinkInv, OneLink, Live
  <2> QED
    BY <2>1, <2>2
<1>2. \A s \in Sends : status'[s] \in {"dialling", "sending", "moving"} =>
        From[s] # d /\ status'[s] = status[s]
  <2> SUFFICES ASSUME NEW s \in Sends, status'[s] \in {"dialling", "sending", "moving"}
               PROVE  From[s] # d /\ status'[s] = status[s]
    OBVIOUS
  <2>1. status'[s] = StatusAfterDrop(d)[s]
    OBVIOUS
  <2>2. CASE conn[d] = NoLink
    BY <2>1, <2>2 DEF StatusAfterDrop, LinkInv, UsesTheMap
  <2>3. CASE conn[d] # NoLink
    BY <2>1, <2>3 DEF StatusAfterDrop, Rejected, LinkInv, UsesTheMap
  <2> QED
    BY <2>2, <2>3
<1>3. \A e \in Devices : e # d => stage'[e] = stage[e] /\ conn'[e] = conn[e]
  BY DEF TypeOK
<1> QED
  BY <1>1, <1>2, <1>3 DEF LinkInv, NobodyWaits, UsesTheMap, Live

\* The invariant survives when a device turns to its only connection, the one at
\* hand or a new one.
LEMMA ConnectKeepsLinks ==
  ASSUME TypeOK, LinkInv, NEW s \in Sends, NEW link \in Sends \cup {NoLink},
         NEW stages \in Ends(From[s]), NEW st \in [Sends -> Statuses],
         Connect(s, link, stages, st),
         \A k \in Sends : stages[k] \notin {"none", "closed"} <=> link = k,
         \A t \in Sends :
           st[t] \in {"dialling", "sending", "moving"} =>
             /\ st[t] = status[t]
             /\ From[t] = From[s] => link # NoLink /\ link = conn[From[s]] /\ stages = stage[From[s]]
  PROVE  LinkInv'
<1> DEFINE d == From[s]
           k == IF link = NoLink THEN s ELSE link
<1>1. d \in Devices /\ k \in Sends
  OBVIOUS
<1>2. conn' = [conn EXCEPT ![d] = k] /\ status' = [st EXCEPT ![s] = "dialling"]
      /\ using' = [using EXCEPT ![s] = k]
  BY DEF Connect
<1>3. /\ stage'[d] = IF link = NoLink THEN [stages EXCEPT ![s] = "offering"] ELSE stages
      /\ \A e \in Devices : e # d => stage'[e] = stage[e] /\ conn'[e] = conn[e]
      /\ conn'[d] = k
  BY <1>1, <1>2 DEF Connect, TypeOK
<1>4. \A j \in Sends : stage'[d][j] \notin {"none", "closed"} <=> j = k
  BY <1>1, <1>3 DEF Ends
<1>5. OneLink'
  <2> SUFFICES ASSUME NEW e \in Devices, NEW j \in Sends
               PROVE  Live(e, j)' <=> conn'[e] = j
    BY DEF OneLink
  <2>1. CASE e = d
    BY <1>3, <1>4, <2>1 DEF Live
  <2>2. CASE e # d
    BY <1>3, <2>2 DEF LinkInv, OneLink, Live
  <2> QED
    BY <2>1, <2>2
<1>6. ASSUME NEW t \in Sends, status'[t] \in {"dialling", "sending", "moving"}
      PROVE  /\ conn'[From[t]] # NoLink /\ using'[t] = conn'[From[t]]
             /\ status'[t] \in {"sending", "moving"} => stage'[From[t]][using'[t]] = "open"
  <2>1. CASE t = s
    BY <1>1, <1>2, <1>3, <2>1 DEF TypeOK
  <2>2. CASE t # s
    <3>1. /\ status'[t] = st[t] /\ st[t] = status[t] /\ using'[t] = using[t]
      BY <1>2, <1>6, <2>2 DEF TypeOK
    <3>2. /\ conn[From[t]] # NoLink /\ using[t] = conn[From[t]]
          /\ status[t] \in {"sending", "moving"} => stage[From[t]][using[t]] = "open"
      BY <1>6, <3>1 DEF LinkInv, UsesTheMap, NobodyWaits
    <3>3. conn'[From[t]] = conn[From[t]] /\ stage'[From[t]] = stage[From[t]]
      BY <1>1, <1>3, <1>6, <3>1
    <3> QED
      BY <3>1, <3>2, <3>3
  <2> QED
    BY <2>1, <2>2
<1>7. UsesTheMap'
  BY <1>6 DEF UsesTheMap
<1>8. NobodyWaits'
  <2> SUFFICES ASSUME NEW t \in Sends, status'[t] = "dialling"
               PROVE  Live(From[t], using[t])'
    BY <1>6 DEF NobodyWaits
  <2>1. conn' \in [Devices -> Sends \cup {NoLink}] /\ From[t] \in Devices
    BY ConnectType
  <2>2. conn'[From[t]] \in Sends /\ using'[t] = conn'[From[t]]
    BY <1>6, <2>1
  <2> QED
    BY <1>5, <2>1, <2>2 DEF OneLink
<1> QED
  BY <1>5, <1>7, <1>8 DEF LinkInv

\* The invariant survives what leaves conn, using and the sends that wait alone,
\* and moves an end of a link on without closing it.
LEMMA MoveKeepsLinks ==
  ASSUME TypeOK, LinkInv, NEW d \in Devices, NEW k \in Sends, NEW v,
         v \notin {"none", "closed"}, stage[d][k] \notin {"none", "closed", "open"},
         stage' = [stage EXCEPT ![d][k] = v],
         UNCHANGED <<conn, using, status>>
  PROVE  LinkInv'
<1>1. \A e \in Devices, j \in Sends :
        stage'[e][j] = IF e = d /\ j = k THEN v ELSE stage[e][j]
  BY DEF TypeOK
<1>2. OneLink'
  BY <1>1 DEF LinkInv, OneLink, Live
<1>3. UsesTheMap'
  BY DEF LinkInv, UsesTheMap
<1>4. NobodyWaits'
  <2> SUFFICES ASSUME NEW s \in Sends, status[s] \in {"dialling", "sending", "moving"}
               PROVE  /\ status[s] = "dialling" => Live(From[s], using[s])'
                      /\ status[s] # "dialling" => stage'[From[s]][using[s]] = "open"
    BY DEF NobodyWaits
  <2>1. From[s] \in Devices /\ using[s] \in Sends
    BY DEF LinkInv, UsesTheMap, TypeOK
  <2> QED
    BY <1>1, <2>1 DEF LinkInv, NobodyWaits, Live
<1> QED
  BY <1>2, <1>3, <1>4 DEF LinkInv

\* Drop and DropExpected keep the invariant.
LEMMA DropStep ==
  ASSUME TypeOK, LinkInv, NEW d \in Devices, UNCHANGED using,
         Drop(d) \/ \E k \in Sends : DropExpected(d, k)
  PROVE  LinkInv'
<1>1. CASE Drop(d)
  BY <1>1, DropKeepsLinks DEF Drop
<1>2. CASE UNCHANGED <<conn, stage, status>>
  BY <1>2 DEF LinkInv, OneLink, NobodyWaits, UsesTheMap, Live
<1> QED
  BY <1>1, <1>2 DEF DropExpected

\* Every step keeps the invariant.
LEMMA LinkNext == TypeOK /\ LinkInv /\ [Next]_vars => LinkInv'
<1> SUFFICES ASSUME TypeOK, LinkInv, [Next]_vars PROVE LinkInv'
  OBVIOUS
<1>1. ASSUME NEW s \in Sends, SendDirect(s) PROVE LinkInv'
  <2> DEFINE d == From[s]
  <2>1. d \in Devices /\ conn[d] \in Sends \cup {NoLink} /\ stage[d] \in Ends(d)
        /\ status \in [Sends -> Statuses]
    BY DEF TypeOK
  <2>2. Connect(s, conn[d], stage[d], status)
    BY <1>1 DEF SendDirect
  <2>3. \A k \in Sends : stage[d][k] \notin {"none", "closed"} <=> conn[d] = k
    BY <2>1 DEF LinkInv, OneLink, Live
  <2>4. \A t \in Sends : status[t] \in {"dialling", "sending", "moving"} =>
          (From[t] = d => conn[d] # NoLink)
    BY DEF LinkInv, UsesTheMap
  <2> QED
    BY <2>1, <2>2, <2>3, <2>4, ConnectKeepsLinks
<1>2. ASSUME NEW s \in Sends, Retry(s) PROVE LinkInv'
  <2> DEFINE d == From[s]
  <2>1. d \in Devices /\ conn[d] \in Sends \cup {NoLink} /\ stage[d] \in Ends(d)
        /\ status \in [Sends -> Statuses]
    BY DEF TypeOK
  <2>2. \A t \in Sends : status[t] \in {"dialling", "sending", "moving"} =>
          (From[t] = d => conn[d] # NoLink /\ using[t] = conn[d])
    BY DEF LinkInv, UsesTheMap
  <2>3. \A k \in Sends : stage[d][k] \notin {"none", "closed"} <=> conn[d] = k
    BY <2>1 DEF LinkInv, OneLink, Live
  <2>4. CASE conn[d] = using[s]
    <3>1. Connect(s, NoLink, Dropped(d), StatusAfterDrop(d))
      BY <1>2, <2>4 DEF Retry
    <3>2. Dropped(d) \in Ends(d) /\ StatusAfterDrop(d) \in [Sends -> Statuses]
      BY <2>1, DropType
    <3>3. \A k \in Sends : Dropped(d)[k] \notin {"none", "closed"} <=> NoLink = k
      BY <2>1, <2>3, DropType
    <3>4. \A t \in Sends : StatusAfterDrop(d)[t] \in {"dialling", "sending", "moving"} =>
            StatusAfterDrop(d)[t] = status[t] /\ From[t] # d
      BY <2>2 DEF StatusAfterDrop, Rejected
    <3> QED
      BY <3>1, <3>2, <3>3, <3>4, ConnectKeepsLinks
  <2>5. CASE conn[d] # using[s]
    <3>1. Connect(s, conn[d], stage[d], status)
      BY <1>2, <2>5 DEF Retry
    <3> QED
      BY <2>1, <2>2, <2>3, <3>1, ConnectKeepsLinks
  <2> QED
    BY <2>4, <2>5
<1>3. ASSUME NEW s \in Sends, FallBack(s) PROVE LinkInv'
  <2>1. From[s] \in Devices
    OBVIOUS
  <2>2. \A t \in Sends : \/ status'[t] = StatusAfterDrop(From[s])[t]
                        \/ status'[t] \notin {"dialling", "sending", "moving"}
    BY <1>3, <2>1, DropType DEF FallBack
  <2> QED
    BY <1>3, <2>1, <2>2, DropKeepsLinks DEF FallBack
<1>4. ASSUME NEW s \in Sends,
             \/ SendByRelay(s) \/ Accept(s) \/ Decline(s) \/ Finish(s) \/ SendFails(s)
             \/ Routed(s)
      PROVE  LinkInv'
  <2>1. UNCHANGED <<conn, stage, using>>
    BY <1>4 DEF SendByRelay, Routed, Accept, Decline, Finish, SendFails, linkVars
  <2>2. PICK v \in Statuses :
          /\ status' = [status EXCEPT ![s] = v]
          /\ \/ v \notin {"dialling", "sending", "moving"}
             \/ /\ status[s] \in {"dialling", "sending", "moving"}
                /\ v # "dialling"
                /\ stage[From[s]][using[s]] = "open"
    BY <1>4
    DEF SendByRelay, Routed, Accept, Decline, Finish, SendFails, Statuses, LinkInv,
        NobodyWaits
  <2>3. \A t \in Sends : status'[t] = IF t = s THEN v ELSE status[t]
    BY <2>2 DEF TypeOK
  <2> QED
    BY <2>1, <2>2, <2>3 DEF LinkInv, OneLink, NobodyWaits, UsesTheMap, Live
<1>5. ASSUME NEW d \in Devices, NEW k \in Sends, ReceiveOffer(d, k) PROVE LinkInv'
  <2>1. CASE UNCHANGED <<linkVars, status>>
    BY <1>5, <2>1
    DEF ReceiveOffer, linkVars, LinkInv, OneLink, NobodyWaits, UsesTheMap, Live
  <2>2. CASE TakeOver(d, k) /\ conn' = [conn EXCEPT ![d] = k]
    <3>1. /\ stage'[d] = [Dropped(d) EXCEPT ![k] = "answering"] /\ conn'[d] = k
          /\ \A e \in Devices : e # d => stage'[e] = stage[e] /\ conn'[e] = conn[e]
          /\ status' = StatusAfterDrop(d) /\ using' = using
      BY <1>5, <2>2 DEF TakeOver, TypeOK, ReceiveOffer
    <3>2. \A j \in Sends : stage'[d][j] =
            IF j = k THEN "answering" ELSE IF j = conn[d] THEN "closed" ELSE stage[d][j]
      BY <3>1, DropType DEF Ends
    <3>3. OneLink'
      <4> SUFFICES ASSUME NEW e \in Devices, NEW j \in Sends
                   PROVE  Live(e, j)' <=> conn'[e] = j
        BY DEF OneLink
      <4>1. CASE e = d
        BY <3>1, <3>2, <4>1 DEF LinkInv, OneLink, Live
      <4>2. CASE e # d
        BY <3>1, <4>2 DEF LinkInv, OneLink, Live
      <4> QED
        BY <4>1, <4>2
    <3>4. \A t \in Sends : status'[t] \in {"dialling", "sending", "moving"} =>
            From[t] # d /\ status'[t] = status[t]
      BY <3>1 DEF StatusAfterDrop, Rejected, LinkInv, UsesTheMap
    <3> QED
      BY <3>1, <3>3, <3>4 DEF LinkInv, NobodyWaits, UsesTheMap, Live
  <2> QED
    BY <1>5, <2>1, <2>2 DEF ReceiveOffer
<1>6. ASSUME NEW d \in Devices,
             \/ ReceiveNoDirect(d) \/ SocketLost(d) \/ \E up \in BOOLEAN : ReceivePeer(d, up)
             \/ \E k \in Sends : FailsToConnect(d, k) \/ ChannelLost(d, k)
      PROVE  LinkInv'
  <2>1. /\ \/ Drop(d) \/ UNCHANGED <<conn, stage, status>>
           \/ \E k \in Sends : DropExpected(d, k)
           \/ /\ conn[d] # NoLink /\ stage[d][conn[d]] # "open"
              /\ stage' = [stage EXCEPT ![d][conn[d]] = "refused"]
              /\ UNCHANGED <<conn, status>>
        /\ UNCHANGED using
    BY <1>6
    DEF ReceiveNoDirect, Refused, SocketLost, ReceivePeer, FailsToConnect, ChannelLost,
        LostAt
  <2>2. CASE UNCHANGED <<conn, stage, status>>
    BY <2>1, <2>2 DEF LinkInv, OneLink, NobodyWaits, UsesTheMap, Live
  <2>3. CASE /\ conn[d] # NoLink /\ stage[d][conn[d]] # "open"
             /\ stage' = [stage EXCEPT ![d][conn[d]] = "refused"]
             /\ UNCHANGED <<conn, status>>
    <3>1. conn[d] \in Sends
      BY <2>3 DEF TypeOK
    <3>2. stage[d][conn[d]] \notin {"none", "closed", "open"}
      BY <2>3, <3>1 DEF LinkInv, OneLink, Live
    <3>3. \E v \in {"refused"} : stage' = [stage EXCEPT ![d][conn[d]] = v]
      BY <2>3
    <3> QED
      BY <2>1, <2>3, <3>1, <3>2, <3>3, MoveKeepsLinks
  <2> QED
    BY <2>1, <2>2, <2>3, DropStep
<1>7. ASSUME NEW d \in Devices, NEW k \in Sends, Started(d, k) \/ Answered(d, k)
      PROVE  LinkInv'
  <2>1. UNCHANGED using
    BY <1>7 DEF Started, Answered
  <2>2. CASE Drop(d) \/ DropExpected(d, k)
    BY <2>1, <2>2, DropStep
  <2>3. CASE /\ UNCHANGED <<conn, status>>
             /\ \/ stage' = [stage EXCEPT ![d][k] = IF @ = "offering" THEN "offered" ELSE @]
                \/ stage' = [stage EXCEPT ![d][k] = IF @ = "answering" THEN "answered" ELSE @]
    <3>1. \/ UNCHANGED stage
          \/ /\ stage[d][k] \in {"offering", "answering"}
             /\ \E v \in {"offered", "answered"} : stage' = [stage EXCEPT ![d][k] = v]
      BY <2>3 DEF TypeOK
    <3>2. CASE UNCHANGED stage
      BY <2>1, <2>3, <3>2 DEF LinkInv, OneLink, NobodyWaits, UsesTheMap, Live
    <3> QED
      BY <2>1, <2>3, <3>1, <3>2, MoveKeepsLinks
  <2> QED
    BY <1>7, <2>2, <2>3 DEF Started, Answered
<1>8. ASSUME NEW d \in Devices, NEW k \in Sends, NEW e \in Sends, Taken(d, k, e)
      PROVE  LinkInv'
  <2>1. UNCHANGED using
    BY <1>8 DEF Taken
  <2>2. CASE Drop(d)
    BY <2>1, <2>2, DropStep
  <2>3. CASE /\ AwaitsAnswer(d, e) /\ UNCHANGED <<conn, status>>
             /\ stage' = [stage EXCEPT ![d][e] = IF @ = "refused" THEN @
                                                ELSE IF k = e THEN "taken" ELSE "crossed"]
    <3>1. \E v \in {"refused", "taken", "crossed"} : stage' = [stage EXCEPT ![d][e] = v]
      BY <2>3 DEF TypeOK
    <3>2. stage[d][e] \notin {"none", "closed", "open"}
      BY <2>3 DEF AwaitsAnswer
    <3> QED
      BY <2>1, <2>3, <3>1, <3>2, MoveKeepsLinks
  <2> QED
    BY <1>8, <2>2, <2>3 DEF Taken
<1>9. ASSUME NEW d \in Devices, NEW k \in Sends, Open(d, k) PROVE LinkInv'
  <2>1. stage[d][k] \notin {"none", "closed", "open"}
    BY <1>9 DEF Open
  <2>2. /\ \E v \in {"open"} : stage' = [stage EXCEPT ![d][k] = v]
        /\ UNCHANGED <<conn, using, status>>
    BY <1>9 DEF Open, sendVars
  <2> QED
    BY <2>1, <2>2, MoveKeepsLinks
<1>10. CASE UNCHANGED <<conn, stage, using, status>>
  BY <1>10 DEF LinkInv, OneLink, NobodyWaits, UsesTheMap, Live
<1>11. ASSUME NEW d \in Devices,
              ServerNotices(d) \/ Reconnect(d) \/ \E k \in Sends : ReceiveAnswer(d, k)
       PROVE  LinkInv'
  BY <1>10, <1>11 DEF ServerNotices, Reconnect, ReceiveAnswer, linkVars, sendVars
<1>12. ASSUME NEW s \in Sends, GoQuiet(s) PROVE LinkInv'
  BY <1>10, <1>12 DEF GoQuiet, linkVars, sendVars
<1>13. CASE UNCHANGED vars
  BY <1>10, <1>13 DEF vars
<1> QED
  BY <1>1, <1>2, <1>3, <1>4, <1>5, <1>6, <1>7, <1>8, <1>9, <1>11, <1>12, <1>13
  DEF Next

\* The inductive invariant.
THEOREM LinkInvariant == Spec => []LinkInv
BY TypeInit, TypeNext, LinkInit, LinkNext, PTL DEF Spec

\* No connection is leaked: those that live are those the maps hold.
THEOREM OneLinkCorrect == Spec => []OneLink
<1>1. LinkInv => OneLink
  BY DEF LinkInv
<1> QED
  BY <1>1, LinkInvariant, PTL

\* Nobody waits on a closed connection.
THEOREM NobodyWaitsCorrect == Spec => []NobodyWaits
<1>1. LinkInv => NobodyWaits
  BY DEF LinkInv
<1> QED
  BY <1>1, LinkInvariant, PTL
=============================================================================
