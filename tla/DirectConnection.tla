-------------------------- MODULE DirectConnection --------------------------
(* Direct connections between two paired devices (client.js, webrtc.js): the  *)
(* connections map of each device, the signals that set a WebRTC link up, the *)
(* rule for two devices that dial each other at once, and the sends that use  *)
(* a link, retry on a fresh one and fall back to the relay.                   *)
(*                                                                           *)
(* The server in between passes signals on and says who is online.  A link is *)
(* named after the send that dialled it: a send dials at most once, because   *)
(* only one that reused a link gets a second try.                             *)
EXTENDS Integers, Sequences, FiniteSets

CONSTANTS
  Devices,    \* the two devices
  Lower,      \* the one with the lower id
  Sends,      \* calls of send()
  From,       \* the device that makes a send
  MaxDrops,   \* how often a signaling socket may drop
  MaxBreaks,  \* how many links may go quiet
  NoLink

ASSUME DirectAssumption ==
  /\ \E d \in Devices : d # Lower /\ Devices = {Lower, d}
  /\ From \in [Sends -> Devices]
  /\ NoLink \notin Sends
  /\ MaxDrops \in Nat
  /\ MaxBreaks \in Nat

Other(d) == CHOOSE o \in Devices : o # d

VARIABLES
  webrtc,    \* the devices whose runtime has WebRTC
  conn,      \* conn[d]: the link in d's connections map, or NoLink
  stage,     \* stage[d][k]: how far d's end of link k is
  handling,  \* handling[d]: start() and handleSignal() calls that are awaiting
  sock,      \* sock[d]: d's signaling socket is ready
  known,     \* known[d]: the server holds a socket of d
  online,    \* online[d]: d takes the other device to be online
  inbox,     \* inbox[d]: what the server has sent to d's socket
  status,    \* status[s]: how far a send is
  using,     \* using[s]: the link it waits for or sends on
  retry,     \* retry[s]: its failure is worth a second, fresh connection
  quiet,     \* links that carry nothing any more
  drops, breaks

linkVars == <<conn, stage, handling>>
serverVars == <<sock, known, online, inbox>>
sendVars == <<status, using, retry>>
vars == <<webrtc, conn, stage, handling, sock, known, online, inbox, status, using,
          retry, quiet, drops, breaks>>

-----------------------------------------------------------------------------
(* Ends, messages, sends. *)

Dials(d, k) == From[k] = d

\* "offering" and "offered" at the device that dialled, "refused" when it is told
\* before its offer is out that there is no direct path; "answering" and
\* "answered" at the other; "taken" once the dialler took the link's answer, and
\* "crossed" once it took the answer of another link; "open" with a session.
Stages == {"none", "offering", "offered", "refused", "answering", "answered",
           "taken", "crossed", "open", "closed"}
StagesAt(d, k) ==
  {"none", "open", "closed"} \cup
    IF Dials(d, k) THEN {"offering", "offered", "refused", "taken", "crossed"}
                   ELSE {"answering", "answered"}
Ends(d) == {ends \in [Sends -> Stages] : \A k \in Sends : ends[k] \in StagesAt(d, k)}

Live(d, k) == stage[d][k] \notin {"none", "closed"}

Offer(k) == [kind |-> "offer", link |-> k]
Answer(k) == [kind |-> "answer", link |-> k]
NoDirect == [kind |-> "no-direct"]
Peer(up) == [kind |-> "peer", online |-> up]

\* What can be on its way to a device: nobody is offered, or asked to answer, its
\* own link.
Message(d) ==
  {Offer(k) : k \in {s \in Sends : ~Dials(d, s)}}
    \cup {Answer(k) : k \in {s \in Sends : Dials(d, s)}}
    \cup {NoDirect} \cup {Peer(up) : up \in BOOLEAN}

\* An await in progress: what it is about, and the entry it has looked up.
Call(kind, k, entry) == [kind |-> kind, link |-> k, entry |-> entry]
Calls == [kind : {"start", "offer", "answer"}, link : Sends, entry : Sends]

Statuses == {"idle", "dialling", "late", "sending", "moving", "undialled", "broke",
             "direct", "declined", "relay"}

\* start() of a link the device dials is awaiting.
Starting(d, k) == Call("start", k, k) \in handling[d]

\* Promise reactions run before anything else does at their device.  Who awaits a
\* link hears of its end once start() has ended too.
Reacts(s) ==
  \/ status[s] = "broke"
  \/ status[s] = "undialled" /\ ~Starting(From[s], using[s])
Reacting(d) == \E s \in Sends : From[s] = d /\ Reacts(s)

\* A session with a transfer in either direction is not idle.
Idle(d, k) ==
  \/ stage[d][k] # "open"
  \/ \A s \in Sends : using[s] = k =>
       /\ From[s] = d => status[s] \notin {"sending", "moving"}
       /\ From[s] # d => status[s] # "moving"

-----------------------------------------------------------------------------
(* Dropping a connection, sending a signal. *)

\* Mutant: closing a link leaves whoever awaited it waiting.
Unsettled(d, k, st) == st

\* close() rejects whoever awaits the link, and the session what it carries.
\* A link that was already open has settled: its caller, late, goes on to find the
\* session closed.
Rejected(d, k, st) ==
  [s \in Sends |->
     IF From[s] # d \/ using[s] # k THEN st[s]
     ELSE IF st[s] = "dialling"
          THEN IF stage[d][k] = "open" THEN "late" ELSE "undialled"
     ELSE IF st[s] \in {"sending", "moving"} THEN "broke"
     ELSE st[s]]

\* dropConnection(deviceId): the map's entry goes and its transport is closed.
Dropped(d) ==
  IF conn[d] = NoLink THEN stage[d] ELSE [stage[d] EXCEPT ![conn[d]] = "closed"]
StatusAfterDrop(d) ==
  IF conn[d] = NoLink THEN status ELSE Rejected(d, conn[d], status)
Drop(d) ==
  /\ conn' = [conn EXCEPT ![d] = NoLink]
  /\ stage' = [stage EXCEPT ![d] = Dropped(d)]
  /\ status' = StatusAfterDrop(d)

\* dropConnection(deviceId, entry): nothing happens unless the map still holds it.
DropExpected(d, k) ==
  IF conn[d] = k THEN Drop(d) ELSE UNCHANGED <<conn, stage, status>>

To(box, d, m) == [box EXCEPT ![d] = IF sock[d] THEN Append(@, m) ELSE @]

\* signaling.signal(): the server passes a signal on, or says that it cannot.  On
\* a socket that is open but not yet ready again the signal is lost.
Signalled(box, d, m) ==
  IF ~sock[d] THEN box
  ELSE IF known[Other(d)] THEN To(box, Other(d), m)
  ELSE To(box, d, Peer(FALSE))

Init ==
  /\ webrtc \in SUBSET Devices \ {{}}
  /\ conn = [d \in Devices |-> NoLink]
  /\ stage = [d \in Devices |-> [k \in Sends |-> "none"]]
  /\ handling = [d \in Devices |-> {}]
  /\ sock = [d \in Devices |-> TRUE]
  /\ known = [d \in Devices |-> TRUE]
  /\ online = [d \in Devices |-> TRUE]
  /\ inbox = [d \in Devices |-> << >>]
  /\ status = [s \in Sends |-> "idle"]
  /\ using = [s \in Sends |-> NoLink]
  /\ retry = [s \in Sends |-> FALSE]
  /\ quiet = {}
  /\ drops = 0
  /\ breaks = 0

-----------------------------------------------------------------------------
(* A send. *)

\* connect(): the connection at hand, or a new one; `link` and `stages` are what
\* the map and the ends of the device are by now.
Connect(s, link, stages, st) ==
  LET d == From[s]
      k == IF link = NoLink THEN s ELSE link
  IN
  /\ conn' = [conn EXCEPT ![d] = k]
  /\ stage' = [stage EXCEPT ![d] =
                 IF link = NoLink THEN [stages EXCEPT ![s] = "offering"] ELSE stages]
  /\ handling' = [handling EXCEPT ![d] =
                    IF link = NoLink THEN @ \cup {Call("start", s, s)} ELSE @]
  /\ using' = [using EXCEPT ![s] = k]
  /\ status' = [st EXCEPT ![s] = "dialling"]

otherUnchanged == <<webrtc, sock, known, online, quiet, drops, breaks>>

\* send() tries the direct path when its socket is ready, having waited for it,
\* and the other device is taken to be online.
SendDirect(s) ==
  LET d == From[s] IN
  /\ status[s] = "idle" /\ ~Reacting(d)
  /\ d \in webrtc /\ sock[d] /\ online[d]
  /\ Connect(s, conn[d], stage[d], status)
  /\ retry' = [retry EXCEPT ![s] = conn[d] # NoLink]
  /\ UNCHANGED <<inbox, otherUnchanged>>

SendByRelay(s) ==
  LET d == From[s] IN
  /\ status[s] = "idle" /\ ~Reacting(d)
  /\ ~(d \in webrtc /\ sock[d] /\ online[d])
  /\ status' = [status EXCEPT ![s] = "relay"]
  /\ UNCHANGED <<linkVars, using, retry, inbox, otherUnchanged>>

\* The link is ready, and its route known: the session sends, or finds that it
\* has been closed meanwhile.
Routed(s) ==
  LET d == From[s] IN
  /\ ~Reacting(d)
  /\ \/ /\ status[s] = "dialling" /\ stage[d][using[s]] = "open"
        /\ status' = [status EXCEPT ![s] = "sending"]
     \/ /\ status[s] = "late"
        /\ status' = [status EXCEPT ![s] = "broke"]
  /\ UNCHANGED <<linkVars, using, retry, inbox, otherUnchanged>>

Carries(k) == k \notin quiet /\ \A d \in Devices : stage[d][k] = "open"

Accept(s) ==
  /\ status[s] = "sending" /\ ~Reacting(From[s])
  /\ Carries(using[s])
  /\ status' = [status EXCEPT ![s] = "moving"]
  /\ UNCHANGED <<linkVars, using, retry, inbox, otherUnchanged>>

Decline(s) ==
  /\ status[s] = "sending" /\ ~Reacting(From[s])
  /\ Carries(using[s])
  /\ status' = [status EXCEPT ![s] = "declined"]
  /\ UNCHANGED <<linkVars, using, retry, inbox, otherUnchanged>>

Finish(s) ==
  /\ status[s] = "moving" /\ ~Reacting(From[s])
  /\ Carries(using[s])
  /\ status' = [status EXCEPT ![s] = "direct"]
  /\ UNCHANGED <<linkVars, using, retry, inbox, otherUnchanged>>

\* The session gives this transfer up: no answer, an error at either end.
SendFails(s) ==
  /\ status[s] \in {"sending", "moving"} /\ ~Reacting(From[s])
  /\ status' = [status EXCEPT ![s] = "broke"]
  /\ UNCHANGED <<linkVars, using, retry, inbox, otherUnchanged>>

\* A kept connection proved dead: drop it, if it is still the one, and connect
\* once more.
Retry(s) ==
  LET d == From[s]
      ours == conn[d] = using[s]
  IN
  /\ status[s] = "broke" /\ retry[s]
  /\ Connect(s, IF ours THEN NoLink ELSE conn[d],
                IF ours THEN Dropped(d) ELSE stage[d],
                IF ours THEN StatusAfterDrop(d) ELSE status)
  /\ retry' = [retry EXCEPT ![s] = FALSE]
  /\ UNCHANGED <<inbox, otherUnchanged>>

\* A connection that could not be set up, or a send that failed for good, ends
\* at the relay; the device's connection, whichever it is by now, is dropped.
FallBack(s) ==
  LET d == From[s] IN
  /\ Reacts(s) /\ (status[s] = "broke" => ~retry[s])
  /\ conn' = [conn EXCEPT ![d] = NoLink]
  /\ stage' = [stage EXCEPT ![d] = Dropped(d)]
  /\ status' = [StatusAfterDrop(d) EXCEPT ![s] = "relay"]
  /\ UNCHANGED <<handling, using, retry, inbox, otherUnchanged>>

-----------------------------------------------------------------------------
(* Signals. *)

\* start() has its offer and signs it.  One closed meanwhile may have got too
\* far to notice, and is sent all the same; so is one refused meanwhile.
Started(d, k) ==
  /\ Starting(d, k) /\ ~Reacting(d)
  /\ handling' = [handling EXCEPT ![d] = @ \ {Call("start", k, k)}]
  /\ \/ /\ stage[d][k] # "refused"
        /\ inbox' = Signalled(inbox, d, Offer(k))
        /\ stage' = [stage EXCEPT ![d][k] = IF @ = "offering" THEN "offered" ELSE @]
        /\ UNCHANGED <<conn, status>>
     \/ /\ ~sock[d] \/ stage[d][k] \in {"closed", "refused"}
        /\ inbox' = IF stage[d][k] = "refused" THEN Signalled(inbox, d, Offer(k)) ELSE inbox
        /\ DropExpected(d, k)
  /\ UNCHANGED <<using, retry, otherUnchanged>>

\* Mutant: a new offer replaces the map's entry without closing it.
Replaced(d, k) ==
  /\ stage' = [stage EXCEPT ![d][k] = "answering"]
  /\ UNCHANGED status

\* A new offer means the other side gave up on the connection at hand.
TakeOver(d, k) ==
  /\ stage' = [stage EXCEPT ![d] = [Dropped(d) EXCEPT ![k] = "answering"]]
  /\ status' = StatusAfterDrop(d)

\* Of two devices that dial each other, the lower id keeps its own attempt.
KeepsOwn(d) ==
  /\ conn[d] # NoLink /\ Dials(d, conn[d])
  /\ stage[d][conn[d]] # "open"
  /\ d = Lower

Received(d) == [inbox EXCEPT ![d] = Tail(@)]
Receives(d, m) == /\ inbox[d] # << >> /\ Head(inbox[d]) = m
                  /\ ~Reacting(d)

ReceiveOffer(d, k) ==
  /\ Receives(d, Offer(k))
  /\ \/ /\ KeepsOwn(d)
        /\ inbox' = Received(d)
        /\ UNCHANGED <<linkVars, status>>
     \/ /\ ~KeepsOwn(d) /\ d \in webrtc
        /\ inbox' = Received(d)
        /\ TakeOver(d, k)
        /\ conn' = [conn EXCEPT ![d] = k]
        /\ handling' = [handling EXCEPT ![d] = @ \cup {Call("offer", k, k)}]
     \/ /\ d \notin webrtc
        /\ inbox' = Signalled(Received(d), d, NoDirect)
        /\ UNCHANGED <<linkVars, status>>
  /\ UNCHANGED <<using, retry, otherUnchanged>>

\* An answer is for whichever connection the map holds when it arrives.
ReceiveAnswer(d, k) ==
  /\ Receives(d, Answer(k))
  /\ inbox' = Received(d)
  /\ handling' = [handling EXCEPT ![d] =
                    IF conn[d] = NoLink THEN @ ELSE @ \cup {Call("answer", k, conn[d])}]
  /\ UNCHANGED <<conn, stage, sendVars, otherUnchanged>>

\* There is no direct path: a connection still being set up fails, but no sooner
\* than start() ends.
Refused(d, k) ==
  IF Starting(d, k)
  THEN stage' = [stage EXCEPT ![d][k] = "refused"] /\ UNCHANGED <<conn, status>>
  ELSE Drop(d)

ReceiveNoDirect(d) ==
  /\ Receives(d, NoDirect)
  /\ inbox' = Received(d)
  /\ IF conn[d] # NoLink /\ stage[d][conn[d]] # "open"
     THEN Refused(d, conn[d])
     ELSE UNCHANGED <<conn, stage, status>>
  /\ UNCHANGED <<handling, using, retry, otherUnchanged>>

\* The other device came or went; without it a connection is of no use.
ReceivePeer(d, up) ==
  /\ Receives(d, Peer(up))
  /\ inbox' = Received(d)
  /\ online' = [online EXCEPT ![d] = up]
  /\ IF up THEN UNCHANGED <<conn, stage, status>> ELSE Drop(d)
  /\ UNCHANGED <<handling, using, retry, webrtc, sock, known, quiet, drops, breaks>>

\* handleSignal has answered an offer.  A failure, for a connection closed
\* meanwhile or a socket that is not open, drops whatever connection there is.
Answered(d, k) ==
  /\ Call("offer", k, k) \in handling[d] /\ ~Reacting(d)
  /\ handling' = [handling EXCEPT ![d] = @ \ {Call("offer", k, k)}]
  /\ \/ /\ inbox' = Signalled(inbox, d, Answer(k))
        /\ stage' = [stage EXCEPT ![d][k] = IF @ = "answering" THEN "answered" ELSE @]
        /\ UNCHANGED <<conn, status>>
     \/ /\ ~sock[d] \/ stage[d][k] = "closed"
        /\ Drop(d)
        /\ UNCHANGED inbox
  /\ UNCHANGED <<using, retry, otherUnchanged>>

\* Mutant: any connection takes an answer.
Takes(d, e) == Live(d, e)

\* An answer is for a connection with an offer out.
AwaitsAnswer(d, e) == stage[d][e] \in {"offering", "offered", "refused"}

\* handleSignal has verified an answer.  Only a connection with an offer out can
\* take one; at any other the failure drops whatever connection there is.
Taken(d, k, e) ==
  /\ Call("answer", k, e) \in handling[d] /\ ~Reacting(d)
  /\ handling' = [handling EXCEPT ![d] = @ \ {Call("answer", k, e)}]
  /\ \/ /\ AwaitsAnswer(d, e)
        /\ stage' = [stage EXCEPT ![d][e] = IF @ = "refused" THEN @
                                           ELSE IF k = e THEN "taken" ELSE "crossed"]
        /\ UNCHANGED <<conn, status>>
     \/ /\ stage[d][e] # "offered"
        /\ Drop(d)
  /\ UNCHANGED <<inbox, using, retry, otherUnchanged>>

-----------------------------------------------------------------------------
(* Links and sockets. *)

\* Both ends hold each other's description: the channel opens at each in turn.
Open(d, k) ==
  LET o == Other(d) IN
  /\ ~Reacting(d) /\ k \notin quiet
  /\ stage[d][k] = IF Dials(d, k) THEN "taken" ELSE "answered"
  /\ stage[o][k] \in {"open", IF Dials(o, k) THEN "taken" ELSE "answered"}
  /\ stage' = [stage EXCEPT ![d][k] = "open"]
  /\ UNCHANGED <<conn, handling, inbox, sendVars, otherUnchanged>>

\* The answer timer, the connect timer, or ICE giving up.
FailsToConnect(d, k) ==
  /\ ~Reacting(d) /\ ~Starting(d, k)
  /\ Live(d, k) /\ stage[d][k] # "open"
  /\ DropExpected(d, k)
  /\ UNCHANGED <<handling, inbox, using, retry, otherUnchanged>>

\* Mutant: nothing watches a channel once it is open.
Unwatched(d, k) == UNCHANGED <<conn, stage, status>>

\* A channel that the other end closed, or that has gone quiet, is dropped.
LostAt(d, k) == DropExpected(d, k)

ChannelLost(d, k) ==
  /\ ~Reacting(d)
  /\ stage[d][k] = "open"
  /\ k \in quiet \/ stage[Other(d)][k] = "closed"
  /\ LostAt(d, k)
  /\ UNCHANGED <<handling, inbox, using, retry, otherUnchanged>>

GoQuiet(k) ==
  /\ k \notin quiet /\ breaks < MaxBreaks
  /\ \E d \in Devices : stage[d][k] = "open"
  /\ quiet' = quiet \cup {k}
  /\ breaks' = breaks + 1
  /\ UNCHANGED <<webrtc, linkVars, serverVars, sendVars, drops>>

\* The device's own socket drops: an idle connection goes with it, one that
\* carries a file is left to finish.  `online` is kept as it was.
SocketLost(d) ==
  /\ ~Reacting(d)
  /\ sock[d] /\ drops < MaxDrops
  /\ drops' = drops + 1
  /\ sock' = [sock EXCEPT ![d] = FALSE]
  /\ inbox' = [inbox EXCEPT ![d] = << >>]
  /\ IF conn[d] # NoLink /\ Idle(d, conn[d])
     THEN Drop(d)
     ELSE UNCHANGED <<conn, stage, status>>
  /\ UNCHANGED <<webrtc, handling, known, online, using, retry, quiet, breaks>>

\* The server finds the socket dead and tells the other device.
ServerNotices(d) ==
  /\ ~sock[d] /\ known[d]
  /\ known' = [known EXCEPT ![d] = FALSE]
  /\ inbox' = To(inbox, Other(d), Peer(FALSE))
  /\ UNCHANGED <<webrtc, linkVars, sock, online, sendVars, quiet, drops, breaks>>

\* A new socket announces the device and asks who is there; only who is online
\* is listed.
Reconnect(d) ==
  LET o == Other(d)
      told == To(inbox, o, Peer(TRUE))
  IN
  /\ ~sock[d]
  /\ sock' = [sock EXCEPT ![d] = TRUE]
  /\ known' = [known EXCEPT ![d] = TRUE]
  /\ inbox' = IF known[o] THEN [told EXCEPT ![d] = Append(@, Peer(TRUE))] ELSE told
  /\ UNCHANGED <<webrtc, linkVars, online, sendVars, quiet, drops, breaks>>

-----------------------------------------------------------------------------
(* The specification. *)

Next ==
  \/ \E s \in Sends :
       \/ SendDirect(s) \/ SendByRelay(s) \/ Routed(s) \/ Accept(s) \/ Decline(s)
       \/ Finish(s) \/ SendFails(s) \/ Retry(s) \/ FallBack(s) \/ GoQuiet(s)
  \/ \E d \in Devices :
       \/ ReceiveNoDirect(d) \/ SocketLost(d) \/ ServerNotices(d) \/ Reconnect(d)
       \/ \E up \in BOOLEAN : ReceivePeer(d, up)
       \/ \E k \in Sends :
            \/ Started(d, k) \/ ReceiveOffer(d, k) \/ ReceiveAnswer(d, k)
            \/ Answered(d, k) \/ Open(d, k) \/ FailsToConnect(d, k)
            \/ ChannelLost(d, k)
            \/ \E e \in Sends : Taken(d, k, e)

Spec == Init /\ [][Next]_vars

\* Awaits end, timers fire, the server delivers, a channel that can open opens,
\* an accepted transfer goes on, a socket comes back.
Fairness ==
  /\ \A s \in Sends :
       /\ WF_vars(Routed(s)) /\ WF_vars(Accept(s) \/ Decline(s)) /\ WF_vars(Finish(s))
       /\ WF_vars(Retry(s)) /\ WF_vars(FallBack(s))
  /\ \A d \in Devices :
       /\ WF_vars(Reconnect(d))
       /\ WF_vars(ReceiveNoDirect(d) \/ (\E up \in BOOLEAN : ReceivePeer(d, up))
                    \/ \E k \in Sends : ReceiveOffer(d, k) \/ ReceiveAnswer(d, k))
       /\ \A k \in Sends :
            /\ WF_vars(Started(d, k)) /\ WF_vars(Answered(d, k))
            /\ WF_vars(Open(d, k)) /\ WF_vars(FailsToConnect(d, k))
            /\ WF_vars(ChannelLost(d, k))
            /\ \A e \in Sends : WF_vars(Taken(d, k, e))

FairSpec == Spec /\ Fairness

-----------------------------------------------------------------------------
(* Properties. *)

TypeOK ==
  /\ webrtc \subseteq Devices
  /\ conn \in [Devices -> Sends \cup {NoLink}]
  /\ stage \in [Devices -> [Sends -> Stages]]
  /\ handling \in [Devices -> SUBSET Calls]
  /\ DOMAIN inbox = Devices /\ \A d \in Devices : inbox[d] \in Seq(Message(d))
  /\ \A d \in Devices : stage[d] \in Ends(d)
  /\ \A d \in Devices, k \in Sends :
       /\ Call("start", k, k) \in handling[d] => Dials(d, k)
       /\ Call("offer", k, k) \in handling[d] => ~Dials(d, k)
  /\ sock \in [Devices -> BOOLEAN] /\ known \in [Devices -> BOOLEAN]
  /\ online \in [Devices -> BOOLEAN]
  /\ status \in [Sends -> Statuses]
  /\ using \in [Sends -> Sends \cup {NoLink}]
  /\ retry \in [Sends -> BOOLEAN]
  /\ quiet \subseteq Sends
  /\ drops \in Nat /\ breaks \in Nat

\* No connection is leaked: one that has not been closed is the one the map holds,
\* whichever callback, timer, signal or failing send replaced or dropped it.
OneLink ==
  \A d \in Devices, k \in Sends : Live(d, k) <=> conn[d] = k

\* Nobody waits on a closed connection: the link a send awaits is being set up or
\* open, and the one it sends on is open, at the send's own end.
NobodyWaits ==
  \A s \in Sends :
    /\ status[s] = "dialling" => Live(From[s], using[s])
    /\ status[s] \in {"sending", "moving"} => stage[From[s]][using[s]] = "open"

\* Every send ends, directly, declined or at the relay.
Ended(s) == status[s] \in {"idle", "direct", "declined", "relay"}
SendEnds == \A s \in Sends : ~Ended(s) ~> Ended(s)

\* A connection that is over at one end does not stay open at the other, where
\* the next send would be written into it.
HalfOpenEnds ==
  \A d \in Devices, k \in Sends :
    stage[d][k] = "open" /\ stage[Other(d)][k] = "closed" ~> stage[d][k] = "closed"

\* Two devices that dial each other do not drop each other's attempt: a device
\* whose own attempt gave way keeps the link that took its place.
GlareKeepsOne ==
  [][\A s \in Sends :
       LET d == From[s] IN
       status[s] = "undialled" /\ status'[s] = "relay" => conn'[d] = conn[d]]_vars
=============================================================================
