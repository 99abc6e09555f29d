------------------------------- MODULE Pairing -------------------------------
(* Two devices of people who typed the same code pair in the code's room: the *)
(* exchange of hellos and confirmation tags (client.js, pairing.js), over     *)
(* sockets that drop and come back (signaling.js), in the room either of the  *)
(* two servers keeps: a set of connections (core.js) or of device ids         *)
(* (worker/room.js).                                                         *)
(*                                                                           *)
(* A hello is named after the device and the attempt that made it, a tag is   *)
(* the set of the two hellos it covers.  Nothing makes handle() wait for the  *)
(* call before it, so each await is a continuation of its own.                *)
EXTENDS Integers, Sequences, FiniteSets

CONSTANTS
  Devices,      \* the two devices
  MaxTroubles,  \* how often a device starts over or a socket dies
  None

ASSUME PairingAssumption ==
  /\ IsFiniteSet(Devices) /\ Cardinality(Devices) = 2
  /\ MaxTroubles \in Nat
  /\ None \notin Devices \X Nat

Attempts == 1..(1 + MaxTroubles)
Hellos == Devices \X Attempts

VARIABLES
  backend,    \* "hub" or "object": the server that keeps the room
  occ,        \* its occupants: a device's present connection, or an old one
  aged,       \* devices in whose attempt the room's alarm was not set anew
  net,        \* net[d]: d's socket is ready, dead without d's knowing, or off
  down,       \* down[d]: what travels to d
  joins,      \* joins[d]: d's signaling client rejoins the room when ready again
  phase,      \* phase[<<d, n>>]: how far attempt n of d is
  owner,      \* owner[d]: the attempt in pendingPairings, 0 for none
  theirHello, theirTag, myTag, sentHello,  \* of an attempt, as in runPairing
  work,       \* work[d]: continuations that wait for the cryptography or the vault
  vault,      \* vault[d]: the devices d trusts
  refused,    \* refused[d]: d was told that the room is full
  troubles

serverVars == <<backend, occ, aged, troubles>>
attemptVars == <<theirHello, theirTag, myTag, sentHello>>
vars == <<serverVars, net, down, joins, phase, owner, attemptVars, work, vault, refused>>

Init ==
  /\ backend \in {"hub", "object"}
  /\ occ = {} /\ aged = {} /\ troubles = 0
  /\ net = [d \in Devices |-> "ready"]
  /\ down = [d \in Devices |-> <<>>]
  /\ joins = [d \in Devices |-> FALSE]
  /\ phase = [x \in Hellos |-> "none"]
  /\ owner = [d \in Devices |-> 0]
  /\ theirHello = [x \in Hellos |-> None]
  /\ theirTag = [x \in Hellos |-> None]
  /\ myTag = [x \in Hellos |-> None]
  /\ sentHello = [x \in Hellos |-> FALSE]
  /\ work = [d \in Devices |-> {}]
  /\ vault = [d \in Devices |-> {}]
  /\ refused = [d \in Devices |-> FALSE]

-----------------------------------------------------------------------------
(* The room. *)

Here(d) == <<d, "present">>

\* Slip: the limit is compared one too late.
FullLater(d) == Here(d) \notin occ /\ Cardinality(occ) > 2

Full(d) == Here(d) \notin occ /\ Cardinality(occ) >= 2

\* What the room passes on from d, appended to the queues q.
Relayed(d, m, q) ==
  [e \in Devices |->
    IF net[d] = "ready" /\ {Here(d), Here(e)} \subseteq occ /\ e # d /\ net[e] = "ready"
    THEN Append(q[e], m) ELSE q[e]]

\* A ready client joins: both occupants hear of it, or it hears the room is full.
Join(d) ==
  IF Full(d)
  THEN refused' = [refused EXCEPT ![d] = TRUE] /\ UNCHANGED <<occ, down>>
  ELSE LET now == occ \union {Here(d)} IN
       /\ occ' = now
       /\ refused' = [refused EXCEPT ![d] = FALSE]
       /\ down' = [e \in Devices |->
            IF Here(e) \in now /\ (e = d \/ net[e] = "ready")
            THEN Append(down[e], [type |-> "joined", occupants |-> Cardinality(now)]) ELSE down[e]]

\* Only a device that was not in the room sets the object's alarm anew.
Renews(d) == Here(d) \notin occ /\ ~Full(d)

\* Slip: an attempt that ends stops listening and stays in the room.
Stays(d) == occ

\* What is left when d leaves: a socket that is down tells no one.
Left(d) == IF net[d] = "ready" THEN occ \ {Here(d)} ELSE occ

\* The hub notices that a dead connection closed.
ServerNotices(d) ==
  /\ <<d, "old">> \in occ
  /\ occ' = occ \ {<<d, "old">>}
  /\ UNCHANGED <<backend, aged, troubles, net, down, joins, phase, owner, attemptVars, work, vault, refused>>

\* The object's alarm frees the room.  An attempt gives up before that, unless it
\* found its device in the room and nobody has joined since.
Expire ==
  /\ backend = "object" /\ occ # {}
  /\ \A d \in Devices : owner[d] = 0 \/ d \in aged
  /\ occ' = {}
  /\ UNCHANGED <<backend, aged, troubles, net, down, joins, phase, owner, attemptVars, work, vault, refused>>

-----------------------------------------------------------------------------
(* Sockets. *)

Drop(d) ==
  /\ troubles < MaxTroubles /\ net[d] = "ready"
  /\ troubles' = troubles + 1
  /\ net' = [net EXCEPT ![d] = "dead"]
  /\ down' = [down EXCEPT ![d] = <<>>]
  /\ occ' = IF backend = "hub" /\ Here(d) \in occ
            THEN (occ \ {Here(d)}) \union {<<d, "old">>} ELSE occ
  /\ UNCHANGED <<backend, aged, joins, phase, owner, attemptVars, work, vault, refused>>

Lost(d) ==
  /\ net[d] = "dead"
  /\ net' = [net EXCEPT ![d] = "off"]
  /\ UNCHANGED <<serverVars, down, joins, phase, owner, attemptVars, work, vault, refused>>

Reconnect(d) ==
  /\ net[d] = "off"
  /\ net' = [net EXCEPT ![d] = "ready"]
  /\ IF joins[d] THEN Join(d) ELSE UNCHANGED <<occ, down, refused>>
  /\ aged' = IF joins[d] /\ Renews(d) THEN {} ELSE aged
  /\ UNCHANGED <<backend, troubles, joins, phase, owner, attemptVars, work, vault>>

-----------------------------------------------------------------------------
(* Attempts. *)

Running == {"starting", "live"}

\* The dialog's run(): the attempt before it was cancelled.
Pair(d) == \E n \in Attempts :
  /\ phase[<<d, n>>] = "none"
  /\ \A m \in 1..(n - 1) : phase[<<d, m>>] \notin Running \union {"none"}
  /\ IF n = 1 THEN UNCHANGED troubles ELSE troubles < MaxTroubles /\ troubles' = troubles + 1
  /\ phase' = [phase EXCEPT ![<<d, n>>] = "starting"]
  /\ UNCHANGED <<backend, occ, aged, net, down, joins, owner, attemptVars, work, vault, refused>>

\* The code is derived and the socket ready: attempts get there in order.
Begin(d) == \E n \in Attempts :
  /\ phase[<<d, n>>] = "starting" /\ net[d] = "ready"
  /\ \A m \in 1..(n - 1) : phase[<<d, m>>] # "aborted"
  /\ phase' = [phase EXCEPT ![<<d, n>>] = "live"]
  /\ owner' = [owner EXCEPT ![d] = n]
  /\ joins' = [joins EXCEPT ![d] = TRUE]
  /\ Join(d)
  /\ aged' = IF Renews(d) THEN {} ELSE aged \union {d}
  /\ UNCHANGED <<backend, troubles, net, attemptVars, work, vault>>

\* Slip: what an attempt left running finishes it again.
SettlesLate(d, n) == phase[<<d, n>>] # "starting"

Settles(d, n) == phase[<<d, n>>] \in {"live", "aborted"}

\* finish(), which does nothing for an attempt that is settled.
Finish(d, n, how) ==
  IF Settles(d, n)
  THEN /\ phase' = [phase EXCEPT ![<<d, n>>] = how]
       /\ owner' = [owner EXCEPT ![d] = 0]
       /\ joins' = [joins EXCEPT ![d] = FALSE]
       /\ occ' = Left(d)
  ELSE UNCHANGED <<phase, owner, joins, occ>>

\* cancel(), or the attempt's own timer.
GiveUp(d) == \E n \in Attempts :
  /\ \/ phase[<<d, n>>] = "live" /\ Finish(d, n, "over")
     \/ /\ phase[<<d, n>>] = "starting"
        /\ phase' = [phase EXCEPT ![<<d, n>>] = "aborted"]
        /\ UNCHANGED <<owner, joins, occ>>
  /\ UNCHANGED <<backend, aged, troubles, net, down, attemptVars, work, vault, refused>>

\* An attempt that finds itself cancelled once it is connected.
Aborted(d) == \E n \in Attempts :
  /\ phase[<<d, n>>] = "aborted" /\ net[d] = "ready"
  /\ Finish(d, n, "over")
  /\ UNCHANGED <<backend, aged, troubles, net, down, attemptVars, work, vault, refused>>

-----------------------------------------------------------------------------
(* The exchange. *)

Hello(x) == [type |-> "hello", hello |-> x]
Confirm(t) == [type |-> "confirm", tag |-> t]
Tag(x, h) == {x, h}

\* handle() says hello first if it has not.
Greeted(d, x, q) == IF sentHello[x] THEN q ELSE Relayed(d, Hello(x), q)

\* Slip: the device's own tag will do while the other's has not come.
CheckOwn(x, h, t) ==
  IF h = None THEN {} ELSE {<<"check", x[2], h, IF t = None THEN Tag(x, h) ELSE t>>}

\* tryConfirm(): with a hello and a tag the check of one against the other starts.
Check(x, h, t) == IF h = None \/ t = None THEN {} ELSE {<<"check", x[2], h, t>>}

HearJoined(d, x, m, rest) ==
  /\ m.type = "joined"
  /\ down' = IF m.occupants >= 2 THEN Relayed(d, Hello(x), rest) ELSE rest
  /\ sentHello' = [sentHello EXCEPT ![x] = @ \/ m.occupants >= 2]
  /\ UNCHANGED <<theirHello, theirTag, work>>

HearConfirm(d, x, m, rest) ==
  /\ m.type = "confirm"
  /\ theirTag' = [theirTag EXCEPT ![x] = m.tag]
  /\ work' = [work EXCEPT ![d] = @ \union Check(x, theirHello[x], m.tag)]
  /\ down' = Greeted(d, x, rest)
  /\ sentHello' = [sentHello EXCEPT ![x] = TRUE]
  /\ UNCHANGED theirHello

\* Slip: a hello that repeats is not answered.
NotAgain(d, x, q) == q

\* The confirmation goes out again for a hello that repeats.
Again(d, x, q) == IF myTag[x] = None THEN q ELSE Relayed(d, Confirm(myTag[x]), q)

HearHello(d, x, m, rest) ==
  /\ m.type = "hello"
  /\ sentHello' = [sentHello EXCEPT ![x] = TRUE]
  /\ \/ /\ theirHello[x] = m.hello
        /\ down' = Again(d, x, Greeted(d, x, rest))
        /\ UNCHANGED <<theirHello, theirTag, work>>
     \/ /\ theirHello[x] # m.hello
        /\ theirHello' = [theirHello EXCEPT ![x] = m.hello]
        /\ theirTag' = [theirTag EXCEPT ![x] = None]
        /\ work' = [work EXCEPT ![d] = @ \union {<<"verify", x[2]>>}]
        /\ down' = Greeted(d, x, rest)

Hear(d) ==
  /\ net[d] = "ready" /\ down[d] # <<>>
  /\ LET m == Head(down[d])
         rest == [down EXCEPT ![d] = Tail(@)]
         x == <<d, owner[d]>>
     IN IF owner[d] = 0
        THEN down' = rest /\ UNCHANGED <<theirHello, theirTag, sentHello, work>>
        ELSE HearJoined(d, x, m, rest) \/ HearConfirm(d, x, m, rest) \/ HearHello(d, x, m, rest)
  /\ UNCHANGED <<serverVars, net, joins, phase, owner, myTag, vault, refused>>

\* verifyHello() returned: the tag is computed over the hello that is there now.
Verified(d) == \E n \in Attempts :
  /\ <<"verify", n>> \in work[d]
  /\ work' = [work EXCEPT ![d] = (@ \ {<<"verify", n>>}) \union {<<"tag", n, theirHello[<<d, n>>]>>}]
  /\ UNCHANGED <<serverVars, net, down, joins, phase, owner, attemptVars, vault, refused>>

\* confirmationTag() returned: the tag is sent, whatever became of the attempt;
\* a socket that is not open fails it.
Tagged(d) == \E n \in Attempts, h \in Hellos : LET x == <<d, n>> IN
  /\ <<"tag", n, h>> \in work[d]
  /\ myTag' = [myTag EXCEPT ![x] = Tag(x, h)]
  /\ IF net[d] = "off"
     THEN /\ Finish(d, n, "failed")
          /\ work' = [work EXCEPT ![d] = @ \ {<<"tag", n, h>>}]
          /\ UNCHANGED down
     ELSE /\ down' = Relayed(d, Confirm(Tag(x, h)), down)
          /\ work' = [work EXCEPT ![d] =
                        (@ \ {<<"tag", n, h>>}) \union Check(x, theirHello[x], theirTag[x])]
          /\ UNCHANGED <<phase, owner, joins, occ>>
  /\ UNCHANGED <<backend, aged, troubles, net, theirHello, theirTag, sentHello, vault, refused>>

\* checkConfirmation() returned: a wrong tag ends the attempt, and the hello that
\* is there now goes to the vault.
Checked(d) == \E w \in work[d] :
  /\ w[1] = "check"
  /\ LET x == <<d, w[2]>> IN
     \/ /\ w[4] # Tag(x, w[3])
        /\ Finish(d, w[2], "mismatch")
        /\ work' = [work EXCEPT ![d] = @ \ {w}]
     \/ /\ w[4] = Tag(x, w[3])
        /\ work' = [work EXCEPT ![d] = (@ \ {w}) \union {<<"store", w[2], theirHello[x][1]>>}]
        /\ UNCHANGED <<phase, owner, joins, occ>>
  /\ UNCHANGED <<backend, aged, troubles, net, down, attemptVars, vault, refused>>

\* vault.add() returned.
Stored(d) == \E w \in work[d] :
  /\ w[1] = "store"
  /\ vault' = [vault EXCEPT ![d] = @ \union {w[3]}]
  /\ Finish(d, w[2], "paired")
  /\ work' = [work EXCEPT ![d] = @ \ {w}]
  /\ UNCHANGED <<backend, aged, troubles, net, down, attemptVars, refused>>

-----------------------------------------------------------------------------

Crypto(d) == Verified(d) \/ Tagged(d) \/ Checked(d) \/ Stored(d)

Moves(d) == Begin(d) \/ Aborted(d) \/ Hear(d) \/ Crypto(d) \/ Lost(d) \/ Reconnect(d) \/ ServerNotices(d)

Next == Expire \/ \E d \in Devices : Pair(d) \/ GiveUp(d) \/ Drop(d) \/ Moves(d)

Spec == Init /\ [][Next]_vars

\* The network carries what it is given, a dead socket is found out, awaits
\* return, and the room's alarm fires; nobody has to pair, to cancel or to drop.
FairSpec == Spec /\ WF_vars(Expire) /\ \A d \in Devices : WF_vars(Moves(d))

-----------------------------------------------------------------------------
(* Properties. *)

Live(d) == {n \in Attempts : phase[<<d, n>>] = "live"}

Tags == {Tag(y, z) : y, z \in Hellos}

TypeOK ==
  /\ backend \in {"hub", "object"}
  /\ occ \subseteq Devices \X {"present", "old"} /\ Cardinality(occ) <= 2 /\ aged \subseteq Devices
  /\ net \in [Devices -> {"ready", "dead", "off"}]
  /\ joins \in [Devices -> BOOLEAN] /\ refused \in [Devices -> BOOLEAN]
  /\ phase \in [Hellos ->
       {"none", "starting", "aborted", "live", "over", "failed", "mismatch", "paired"}]
  /\ owner \in [Devices -> Nat]
  /\ theirHello \in [Hellos -> Hellos \union {None}]
  /\ theirTag \in [Hellos -> Tags \union {None}] /\ myTag \in [Hellos -> Tags \union {None}]
  /\ sentHello \in [Hellos -> BOOLEAN]
  /\ vault \in [Devices -> SUBSET Devices]
  /\ troubles \in 0..MaxTroubles

\* An attempt that is live hears its room and will be back in it after a drop: no
\* attempt that ended before, nor what it left running, takes that away.
LiveIsHeard ==
  \A d \in Devices : \A n \in Live(d) : owner[d] = n /\ joins[d]

\* A device trusts another only if that one confirmed a hello of its own: it has
\* the code and has seen whom it pairs with, however attempts, drops and
\* repeated hellos interleave.
StoredIsMutual ==
  \A d \in Devices : \A e \in vault[d] :
    e # d /\ \E n, m \in Attempts : myTag[<<e, m>>] = Tag(<<d, n>>, <<e, m>>)

\* Two devices that both hold an attempt open do not sit there until it times out,
\* unless one was told that the room is full.  (The room that the alarm frees under
\* two attempts, both aged, takes more troubles than a run has.)
NobodyStuck ==
  []<>(\E d \in Devices : Live(d) = {} \/ refused[d])

\* A room in which nobody pairs any more is free for the next to use its code.
LeftRoomIsFreed ==
  (\A d \in Devices : owner[d] = 0) ~> (occ = {} \/ \E d \in Devices : owner[d] # 0)

\* An attempt fails for a wrong tag only if the other device proved another code,
\* which no device here does.
NoFalseAlarm ==
  \A x \in Hellos : phase[x] # "mismatch"
=============================================================================
