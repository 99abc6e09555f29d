------------------------------ MODULE Presence ------------------------------
(* One device's rendezvous socket at both its ends: the signaling client that *)
(* dials, proves who it is, probes and dials again (signaling.js), and the    *)
(* object that keeps the device's sockets, closes those that went quiet and   *)
(* tells a watcher when the device comes and goes (worker/device.js).         *)
(*                                                                           *)
(* A socket is named after the generation the client opened it under.  What   *)
(* the client does on account of time (backoff, jitter) is left open; what a  *)
(* network may do to a socket it does to those in bad.                        *)
EXTENDS Integers, FiniteSets

CONSTANTS
  MaxFaults,  \* how many sockets the network may spoil
  MaxCalls    \* how often the host calls wake() or close()

ASSUME PresenceAssumption == MaxFaults \in Nat /\ MaxCalls \in Nat

\* Every opening takes a generation, and so does every loss, wake and close;
\* a socket is lost only when the network spoilt it.
Gens == 1..(1 + 2 * (MaxFaults + MaxCalls))
NoSocket == 0

VARIABLES
  gen,       \* generation
  socket,    \* the client's socket, or NoSocket
  conn,      \* conn[s]: readyState of the client's end of s
  closed, ready,
  retry,     \* the generation the last lost() scheduled a new attempt for
  pong,      \* the generation captured by the pong timer, 0 when none runs
  building,  \* the challenges handle() is still signing an answer to
  waiting,   \* what the client was, "open" or "closed", when a connect() that has not
             \* settled was called
  at,        \* at[s]: the object's end of s
  answers,   \* answers[s]: the challenges whose answers travel on s
  pings,     \* the sockets a ping travels on
  down,      \* down[s]: what travels to the client on s
  bad,       \* sockets whose network delays, drops or fails
  pinged,    \* pinged[s]: what the runtime noted of the last ping on s
  verifying, \* <<s, n>>: an answer to challenge n that came on s is being checked
  sweeping,  \* sockets whose handleAuth is past its announcement's start
  alarm,     \* an alarm is set
  told,      \* a device that watches this one takes it to be online
  calls

clientVars == <<gen, socket, conn, closed, ready, retry, pong, building, waiting, calls>>
serverVars == <<at, pinged, verifying, sweeping, alarm, told>>
netVars == <<answers, pings, down, bad>>
vars == <<clientVars, serverVars, netVars>>

Live(s) == s = gen
IsOpen(s) == s # NoSocket /\ conn[s] = "open"

-----------------------------------------------------------------------------
(* The client. *)

Init ==
  /\ gen = 0 /\ socket = NoSocket /\ conn = [s \in Gens |-> "none"]
  /\ closed = FALSE /\ ready = FALSE /\ retry = 0 /\ pong = 0
  /\ building = {} /\ waiting = {} /\ calls = 0
  /\ at = [s \in Gens |-> "none"] /\ pinged = [s \in Gens |-> "never"]
  /\ verifying = {} /\ sweeping = {} /\ alarm = FALSE
  /\ told = FALSE
  /\ answers = [s \in Gens |-> {}] /\ pings = {}
  /\ down = [s \in Gens |-> {}] /\ bad = {}

\* close() on the client's end: the close event comes later.
Shut(s) ==
  IF s # NoSocket /\ conn[s] \in {"connecting", "open"}
  THEN [conn EXCEPT ![s] = "closing"] ELSE conn

\* open(), on the ends c the sockets have by then.
OpenFrom(g, c) ==
  /\ gen' = g + 1 /\ socket' = g + 1 /\ ready' = FALSE
  /\ conn' = [c EXCEPT ![g + 1] = "connecting"]
  /\ at' = [at EXCEPT ![g + 1] = "dialled"]

\* Slips: the pong timer outlives its socket; the new attempt is scheduled for
\* the generation that is over; those waiting for connect() are not told; a
\* reconnect that wake() superseded opens one more socket.
KeepaliveRuns == pong' = pong
ScheduledEarly == gen
Unflushed == waiting' = waiting
NeverSuperseded == FALSE

StopKeepalive == pong' = 0
Scheduled == gen + 1
FlushReady == waiting' = {}
Superseded == retry # gen

\* lost(), on the ends c: no retry once the client was closed.
Lost(c) ==
  /\ gen' = gen + 1 /\ StopKeepalive /\ ready' = FALSE /\ conn' = c
  /\ IF closed THEN FlushReady /\ UNCHANGED retry
     ELSE retry' = Scheduled /\ UNCHANGED waiting

\* A client that was closed opens nothing, and still keeps the caller waiting.
Connect ==
  /\ waiting' = IF ready THEN waiting ELSE waiting \union {IF closed THEN "closed" ELSE "open"}
  /\ IF socket = NoSocket /\ ~closed
     THEN OpenFrom(gen, conn)
     ELSE UNCHANGED <<gen, socket, conn, at, ready>>
  /\ UNCHANGED <<closed, retry, pong, building, calls, pinged, verifying, sweeping,
                 alarm, told, netVars>>

Retry ==
  /\ retry # 0
  /\ retry' = 0
  /\ IF ~Superseded /\ ~closed
     THEN OpenFrom(gen, conn)
     ELSE UNCHANGED <<gen, socket, conn, at, ready>>
  /\ UNCHANGED <<closed, pong, building, waiting, calls, pinged, verifying, sweeping,
                 alarm, told, netVars>>

\* probe(): the next tick of the keepalive, which runs exactly while ready, or
\* a wake() then.
Probe ==
  /\ ready /\ IsOpen(socket)
  /\ pings' = pings \union {socket}
  /\ pong' = gen
  /\ UNCHANGED <<gen, socket, conn, closed, ready, retry, building, waiting, calls,
                 answers, down, bad, serverVars>>

\* wake() with no session.
Wake ==
  /\ calls < MaxCalls /\ ~closed /\ ~ready
  /\ calls' = calls + 1
  /\ OpenFrom(gen + 1, Shut(socket))
  /\ UNCHANGED <<closed, retry, pong, building, waiting, pinged, verifying, sweeping,
                 alarm, told, netVars>>

Abandon ==
  /\ Lost(Shut(socket))
  /\ UNCHANGED <<socket, closed, building, calls, serverVars, netVars>>

\* Timers run out on sockets the network delays.
PongTimeout ==
  /\ pong # 0 /\ socket \in bad
  /\ IF pong = gen
     THEN Abandon
     ELSE pong' = 0 /\ UNCHANGED <<gen, socket, conn, closed, ready, retry, building, waiting, calls,
                                   serverVars, netVars>>

HandshakeTimeout ==
  /\ socket \in bad /\ Live(socket) /\ ~ready /\ ~closed
  /\ Abandon

OnClose(s) ==
  /\ conn[s] = "closing"
  /\ down' = [down EXCEPT ![s] = {}]
  /\ LET c == [conn EXCEPT ![s] = "closed"] IN
     IF Live(s) THEN Lost(c)
     ELSE conn' = c /\ UNCHANGED <<gen, ready, retry, pong, waiting>>
  /\ UNCHANGED <<socket, closed, building, calls, serverVars, answers, pings, bad>>

\* close(), which may be called again.
Close ==
  /\ calls < MaxCalls
  /\ calls' = calls + 1
  /\ closed' = TRUE
  /\ gen' = gen + 1 /\ StopKeepalive /\ FlushReady
  /\ conn' = Shut(socket) /\ socket' = NoSocket /\ ready' = FALSE
  /\ UNCHANGED <<retry, building, serverVars, netVars>>

\* ready: what the client had asked for is asked again, it starts to probe and
\* those waiting are told.  On a socket that is closing by then the first of
\* these to be sent throws: nothing comes after it, when there was any.
BecomeReady ==
  /\ ready' = TRUE
  /\ IF IsOpen(socket)
     THEN FlushReady /\ pong' = gen /\ pings' = pings \union {socket}
     ELSE pong' = 0 /\ UNCHANGED pings /\ (FlushReady \/ UNCHANGED waiting)
  /\ UNCHANGED building

\* Slip: a message of a socket that was replaced acts on the new one.
HandledLate(s) == TRUE

Handled(s) == Live(s)

\* A message, handled by the socket it is for.  One under way when the client
\* calls close() may still be delivered.
Receive(s) == \E m \in down[s] :
  /\ conn[s] \in {"open", "closing"}
  /\ down' = [down EXCEPT ![s] = @ \ {m}]
  /\ \/ ~Handled(s) /\ UNCHANGED <<ready, waiting, pong, building, pings>>
     \/ Handled(s) /\ m = "challenge" /\ building' = building \union {s} /\ pong' = 0
        /\ UNCHANGED <<ready, waiting, pings>>
     \/ Handled(s) /\ m = "ready" /\ BecomeReady
     \/ Handled(s) /\ m = "error" /\ pong' = 0 /\ UNCHANGED <<ready, waiting, building, pings>>
  /\ UNCHANGED <<gen, socket, conn, closed, retry, calls, answers, bad, serverVars>>

\* The signed answer goes out on whichever socket is current by then.
Answer(n) ==
  /\ n \in building
  /\ building' = building \ {n}
  /\ answers' = IF IsOpen(socket) THEN [answers EXCEPT ![socket] = @ \union {n}] ELSE answers
  /\ UNCHANGED <<gen, socket, conn, closed, ready, retry, pong, waiting, calls, pings, down, bad, serverVars>>

-----------------------------------------------------------------------------
(* The object. *)

Listed == {s \in Gens : at[s] \in {"accepted", "authed"}}
Closing == {s \in Gens : at[s] = "closing"}

\* sockets(): the runtime may or may not have removed one that is closing.
Sockets == {Listed, Listed \union Closing}

Sent(s, m) == IF conn[s] = "closed" THEN down ELSE [down EXCEPT ![s] = @ \union {m}]

\* openSocket()
Accept(s) ==
  /\ at[s] = "dialled"
  /\ at' = [at EXCEPT ![s] = "accepted"]
  /\ down' = Sent(s, "challenge")
  /\ UNCHANGED <<pinged, verifying, sweeping, alarm, told, clientVars, answers, pings, bad>>

ReceiveAuth(s) == \E n \in answers[s] :
  /\ at[s] \in {"accepted", "authed"}
  /\ answers' = [answers EXCEPT ![s] = @ \ {n}]
  /\ IF at[s] = "authed"
     THEN down' = Sent(s, "error") /\ UNCHANGED verifying
     ELSE verifying' = verifying \union {<<s, n>>} /\ UNCHANGED down
  /\ UNCHANGED <<at, pinged, sweeping, alarm, told, clientVars, pings, bad>>

\* The device is new when its socket is the only one.
IsFirst(listed) == Cardinality(listed) <= 1

\* The rest of handleAuth, up to the announcement.  Writing to a socket that is
\* gone throws, and then nobody is told and nothing is scheduled.
Verified(s, n) ==
  /\ <<s, n>> \in verifying
  /\ verifying' = verifying \ {<<s, n>>}
  /\ \/ /\ n = s /\ at[s] = "accepted"
        /\ at' = [at EXCEPT ![s] = "authed"]
        /\ down' = Sent(s, "ready")
        /\ sweeping' = sweeping \union {s}
        /\ \E listed \in Sockets :
             told' = IF IsFirst(listed) THEN TRUE ELSE told
     \/ /\ n # s /\ at[s] \in {"accepted", "authed"}
        /\ down' = Sent(s, "error")
        /\ UNCHANGED <<at, sweeping, told>>
     \/ at[s] \in {"closing", "gone"} /\ UNCHANGED <<at, down, sweeping, told>>
  /\ UNCHANGED <<pinged, alarm, clientVars, answers, pings, bad>>

\* scheduleSweep()
Sweep(s) ==
  /\ s \in sweeping
  /\ sweeping' = sweeping \ {s}
  /\ alarm' = TRUE
  /\ UNCHANGED <<at, pinged, verifying, told, clientVars, netVars>>

\* The runtime's automatic answer, which a spoilt socket may lose.
Ping(s) ==
  /\ s \in pings /\ at[s] \in {"accepted", "authed"}
  /\ pings' = pings \ {s}
  /\ pinged' = [pinged EXCEPT ![s] = "fresh"]
  /\ \/ pong' = IF Live(s) THEN 0 ELSE pong
     \/ s \in bad /\ UNCHANGED pong
  /\ UNCHANGED <<gen, socket, conn, closed, ready, retry, building, waiting, calls,
                 at, verifying, sweeping, alarm, told, answers, down, bad>>

\* KEEPALIVE_STALE_MS without a ping: a socket in order is pinged more often.
GoStale(s) ==
  /\ pinged[s] = "fresh" /\ at[s] \in {"accepted", "authed"}
  /\ s \in bad \/ conn[s] \in {"closing", "closed"}
  /\ pinged' = [pinged EXCEPT ![s] = "stale"]
  /\ UNCHANGED <<at, verifying, sweeping, alarm, told, clientVars, netVars>>

\* Slip: quiet sockets are closed only when no other is in order.
QuietTogether(listed) ==
  IF \A s \in listed : pinged[s] = "stale" THEN listed ELSE {}

Quiet(listed) == {s \in listed : pinged[s] = "stale"}

\* Slip: a sweep that closed something does not ask for the next.
AlarmOnce(listed) == listed # {} /\ Quiet(listed) = {}

AlarmAgain(listed) == listed # Quiet(listed)

Alarm ==
  /\ alarm
  /\ \E listed \in Sockets :
       /\ at' = [s \in Gens |-> IF s \in Quiet(listed) THEN "closing" ELSE at[s]]
       /\ told' = IF listed # {} /\ Quiet(listed) = listed THEN FALSE ELSE told
       /\ alarm' = AlarmAgain(listed)
  /\ UNCHANGED <<pinged, verifying, sweeping, clientVars, netVars>>

\* Slip: the count is trusted, with the closing socket in it.
RemainingListed(listed, s) == listed

Remaining(listed, s) == listed \ {s}

\* webSocketClose() and webSocketError(), with maybeOffline().
SocketGone(s) ==
  /\ at[s] \in {"accepted", "authed", "closing"}
  /\ at[s] = "closing" \/ s \in bad \/ conn[s] \in {"closing", "closed"}
  /\ at' = [at EXCEPT ![s] = "gone"]
  /\ pings' = pings \ {s}
  /\ pinged' = [pinged EXCEPT ![s] = "never"]
  /\ answers' = [answers EXCEPT ![s] = {}]
  /\ \E listed \in Sockets :
       told' = IF Remaining(listed, s) = {} THEN FALSE ELSE told
  /\ UNCHANGED <<verifying, sweeping, alarm, clientVars, down, bad>>

\* addWatcher(), renewed: the answer to the device that asks lists it if online.
Watch ==
  /\ \E listed \in Sockets : told' = (told \/ listed # {})
  /\ UNCHANGED <<at, pinged, verifying, sweeping, alarm, clientVars, netVars>>

-----------------------------------------------------------------------------
(* The network. *)

\* The upgrade's answer reaches the client.
Establish(s) ==
  /\ conn[s] = "connecting" /\ at[s] \in {"accepted", "authed"}
  /\ conn' = [conn EXCEPT ![s] = "open"]
  /\ UNCHANGED <<gen, socket, closed, ready, retry, pong, building, waiting, calls, serverVars, netVars>>

Spoil(s) ==
  /\ Cardinality(bad) < MaxFaults
  /\ conn[s] \in {"connecting", "open"} /\ s \notin bad
  /\ bad' = bad \union {s}
  /\ UNCHANGED <<clientVars, serverVars, answers, pings, down>>

\* The client's end learns that its socket failed, or that the object closed it.
Fail(s) ==
  /\ s \in bad /\ conn[s] \in {"connecting", "open"}
  /\ conn' = [conn EXCEPT ![s] = "closing"]
  /\ UNCHANGED <<gen, socket, closed, ready, retry, pong, building, waiting, calls, serverVars, netVars>>

-----------------------------------------------------------------------------

Carry(s) == Accept(s) \/ Establish(s) \/ Receive(s) \/ ReceiveAuth(s)

Compute(s) == Answer(s) \/ Sweep(s) \/ \E n \in Gens : Verified(s, n)

Timeout == PongTimeout \/ HandshakeTimeout \/ Retry

Next ==
  \/ Connect \/ Probe \/ Wake \/ Close \/ Timeout \/ Alarm \/ Watch
  \/ \E s \in Gens :
       Carry(s) \/ Compute(s) \/ OnClose(s) \/ Ping(s) \/ GoStale(s) \/ SocketGone(s) \/ Spoil(s) \/ Fail(s)

Spec == Init /\ [][Next]_vars

\* What must come sooner or later: the network carries what is sent on a socket
\* it has not spoilt, awaits return, a closed socket's event comes.  No
\* behaviour takes more than a bounded number of these steps, so weak fairness
\* for all of them together is weak fairness for each.
Progress == \E s \in Gens :
  \/ s \notin bad /\ Carry(s)
  \/ Compute(s) \/ OnClose(s)
  \/ (at[s] = "closing" \/ s \notin bad) /\ SocketGone(s)

\* Timers, probes and alarms come on time.
FairSpec ==
  /\ Spec
  /\ WF_vars(Progress) /\ WF_vars(Timeout) /\ WF_vars(Probe) /\ WF_vars(Alarm)
  /\ WF_vars(\E s \in Gens \ bad : Ping(s))
  /\ WF_vars(\E s \in Gens : GoStale(s))

-----------------------------------------------------------------------------
(* Properties. *)

Ends == {"none", "connecting", "open", "closing", "closed"}

TypeOK ==
  /\ gen \in 0..(2 + 2 * (MaxFaults + MaxCalls))
  /\ socket \in Gens \union {NoSocket}
  /\ conn \in [Gens -> Ends]
  /\ closed \in BOOLEAN /\ ready \in BOOLEAN /\ waiting \subseteq {"open", "closed"}
  /\ retry \in Nat /\ pong \in {0, gen}
  /\ building \subseteq Gens
  /\ at \in [Gens -> {"none", "dialled", "accepted", "authed", "closing", "gone"}]
  /\ answers \in [Gens -> SUBSET Gens]
  /\ pings \subseteq Gens
  /\ down \in [Gens -> SUBSET {"challenge", "ready", "error"}]
  /\ bad \subseteq Gens
  /\ pinged \in [Gens -> {"never", "fresh", "stale"}]
  /\ verifying \subseteq Gens \X Gens
  /\ sweeping \subseteq Gens
  /\ alarm \in BOOLEAN /\ told \in BOOLEAN
  /\ calls \in 0..MaxCalls

\* However timers, wake() and closing sockets replace each other's connection,
\* the client has one: an end that is not shut is the current socket's.
OneSocket ==
  \A s \in Gens : conn[s] \in {"connecting", "open"} => s = socket /\ Live(s) /\ ~closed

\* A client that calls itself ready holds the socket the object proved it on,
\* not one that an older socket's answer made it believe in.
ReadyIsProven ==
  ready => socket # NoSocket /\ at[socket] \in {"authed", "closing", "gone"}

\* Whoever called connect() before close() is not left waiting by it, nor by a
\* client that is ready on a socket that is still open.
NobodyWaits == "open" \in waiting => ~closed /\ (ready => conn[socket] = "closing")

\* What makes up a client's view of its connection, whatever timers, answers and
\* calls of the host interleave (signaling.js).
ClientSound == OneSocket /\ ReadyIsProven /\ NobodyWaits

\* While a proven socket is open an alarm is set that will look at it, or the
\* call that proved it is about to set one.
SweepKept ==
  (\E s \in Gens : at[s] = "authed") => alarm \/ sweeping # {}

\* A watcher does not take a device to be online whose last socket has gone.
GoneIsTold ==
  (\A s \in Gens : at[s] \in {"none", "dialled", "gone"}) => ~told

\* Proven sockets are looked at and departures told (device.js).
ObjectSound == SweepKept /\ GoneIsTold

\* Whatever the network spoils and whenever the host calls it, a client that was
\* started is ready in the end, and has told everyone who waits for that, unless
\* it is closed.
Reconnects == <>[]((ready /\ waiting = {}) \/ closed \/ socket = NoSocket)

\* A socket that was in use and whose client is gone does not count for ever:
\* the sweep finds it, although nothing said that it closed.
Zombie(s) == at[s] = "authed" /\ pinged[s] # "never" /\ conn[s] = "closed"

ZombiesGo == <>[](\A s \in Gens : ~Zombie(s))

\* A watcher of a device that has proved itself on a socket in order takes it to
\* be online, as device.js says of announce().
OnlineIsAnnounced ==
  \A s \in Gens \ bad : at[s] = "authed" /\ conn[s] = "open" => told
=============================================================================
