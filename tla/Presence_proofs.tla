---------------------------- MODULE Presence_proofs ----------------------------
(* Proofs about Presence, for any number of spoilt sockets and of calls of the  *)
(* host: the client has one socket and knows which, and the object neither     *)
(* forgets to look at a proven socket nor keeps one that has gone as online.   *)
EXTENDS Presence, FiniteSetTheorems, TLAPS

-----------------------------------------------------------------------------
(* The inductive invariant. *)

\* Generations not yet taken have left no trace.
Ahead ==
  \A s \in Gens : s > gen => conn[s] = "none" /\ at[s] = "none" /\ down[s] = {}

\* The generation is the socket's while it is in use; it is ahead of it once the
\* socket was lost or the client closed.
Current ==
  /\ \A s \in Gens : s = gen /\ conn[s] # "none" => socket = s
  /\ \A s \in Gens : s = gen /\ conn[s] \in {"closing", "closed"} => s \in bad
  /\ socket <= gen
  /\ closed => socket = NoSocket /\ gen # 0
  /\ socket = NoSocket /\ ~closed => gen = 0
  /\ ready => socket = gen /\ socket # NoSocket
  /\ pong # 0 => ready

\* An attempt is scheduled for a generation that is over, or the present one
\* while it has no socket.
RetryOwed == retry <= gen /\ (retry # 0 /\ retry = gen => socket # gen)

\* Sockets the network spoilt and that the client has given up.
Spent == {s \in bad : s < gen}

\* A generation is taken for the first socket, and two for each that was given up
\* and for each call of the host: one that ends it and one that opens the next.
Bounded ==
  /\ Cardinality(bad) <= MaxFaults
  /\ gen <= (IF socket = gen THEN 1 ELSE 0) + 2 * (Cardinality(Spent) + calls)

\* "ready" travels only on a socket that has been proved.
ReadyIsSent ==
  \A s \in Gens : "ready" \in down[s] => at[s] \in {"authed", "closing", "gone"}

ClientKnows == Ahead /\ Current /\ RetryOwed /\ Bounded /\ ReadyIsSent

PresenceSound == TypeOK /\ ClientKnows /\ ClientSound /\ ObjectSound

Proven == {"authed", "closing", "gone"}

-----------------------------------------------------------------------------
(* Lemmas about generations. *)

LEMMA Numbers ==
  /\ MaxFaults \in Nat /\ MaxCalls \in Nat
  /\ \A s : s \in Gens <=> s \in Nat /\ 1 <= s /\ s <= 1 + 2 * (MaxFaults + MaxCalls)
  BY PresenceAssumption DEF Gens

LEMMA FiniteGens == \A S : S \subseteq Gens => IsFiniteSet(S) /\ Cardinality(S) \in Nat
<1>1. IsFiniteSet(Gens)
  BY Numbers, FS_Interval DEF Gens
<1>2. QED
  BY <1>1, FS_Subset, FS_CardinalityType

\* What is spent only grows, and stays within what was spoilt.
LEMMA SpentGrows ==
  ASSUME TypeOK, bad \subseteq bad', bad' \subseteq Gens, gen <= gen', gen' \in Nat
  PROVE  /\ Cardinality(Spent) \in Nat /\ Cardinality(Spent') \in Nat /\ Cardinality(bad') \in Nat
         /\ Cardinality(Spent) <= Cardinality(Spent')
         /\ Cardinality(Spent') <= Cardinality(bad')
<1>1. gen \in Nat /\ bad \subseteq Gens /\ Gens \subseteq Nat
  BY Numbers DEF TypeOK
<1>2. Spent \subseteq Spent' /\ Spent' \subseteq bad' /\ Spent' \subseteq Gens /\ Spent \subseteq Gens
  <2>1. ASSUME NEW s \in Spent PROVE s \in Spent'
    <3>1. s \in bad /\ s < gen /\ s \in Nat
      BY <1>1 DEF Spent
    <3>2. s \in bad' /\ s < gen'
      BY <1>1, <3>1
    <3>3. QED
      BY <3>2 DEF Spent
  <2>2. Spent' \subseteq bad' /\ Spent \subseteq bad
    BY DEF Spent
  <2>3. QED
    BY <1>1, <2>1, <2>2
<1>3. IsFiniteSet(Spent') /\ IsFiniteSet(bad')
  BY <1>2, FiniteGens
<1>4. QED
  BY <1>2, <1>3, FS_Subset, FiniteGens

LEMMA ShutEnds ==
  ASSUME TypeOK, ClientSound
  PROVE  /\ Shut(socket) \in [Gens -> Ends]
         /\ \A s \in Gens : Shut(socket)[s] \notin {"connecting", "open"}
         /\ \A s \in Gens : conn[s] = "none" => Shut(socket)[s] = "none"
         /\ \A s \in Gens : s # socket => Shut(socket)[s] = conn[s]
<1>1. conn \in [Gens -> Ends] /\ (socket # NoSocket => socket \in Gens)
  BY DEF TypeOK
<1>2. \A s \in Gens : conn[s] \in {"connecting", "open"} => s = socket
  BY DEF ClientSound, OneSocket
<1>3. \A s \in Gens : s # NoSocket
  BY Numbers DEF NoSocket
<1>4. CASE socket # NoSocket /\ conn[socket] \in {"connecting", "open"}
  <2>1. Shut(socket) = [conn EXCEPT ![socket] = "closing"]
    BY <1>4 DEF Shut
  <2>2. QED
    BY <1>1, <1>2, <1>4, <2>1 DEF Ends
<1>5. CASE ~(socket # NoSocket /\ conn[socket] \in {"connecting", "open"})
  <2>1. Shut(socket) = conn
    BY <1>5 DEF Shut
  <2>2. QED
    BY <1>1, <1>2, <1>3, <1>5, <2>1
<1>6. QED
  BY <1>4, <1>5

-----------------------------------------------------------------------------
(* The client opens a socket, and loses one. *)

\* A socket is opened only when the one before it is shut, under a generation that
\* the losses and calls so far account for.
LEMMA OpenSound ==
  ASSUME TypeOK, ClientKnows, ClientSound, NEW g \in Nat, NEW c \in [Gens -> Ends], OpenFrom(g, c),
         g >= gen, ~closed, pong = 0,
         \A s \in Gens : c[s] \notin {"connecting", "open"},
         \A s \in Gens : s > gen => c[s] = "none",
         g <= 2 * (Cardinality(Spent) + calls'), calls' \in 0..MaxCalls,
         retry' \in Nat, retry' <= g, waiting' \subseteq {"open", "closed"},
         UNCHANGED <<closed, pong, building, down, bad, answers, pings, pinged, verifying, sweeping, alarm, told>>
  PROVE  TypeOK' /\ ClientKnows' /\ ClientSound'
<1>1. /\ gen' = g + 1 /\ socket' = g + 1 /\ ready' = FALSE
      /\ conn' = [c EXCEPT ![g + 1] = "connecting"] /\ at' = [at EXCEPT ![g + 1] = "dialled"]
  BY DEF OpenFrom
<1>2. gen \in Nat /\ bad \subseteq Gens
  BY Numbers DEF TypeOK
<1>3. /\ Cardinality(Spent) \in Nat /\ Cardinality(Spent') \in Nat
      /\ Cardinality(Spent) <= Cardinality(Spent')
      /\ Cardinality(Spent') <= Cardinality(bad) /\ Cardinality(bad) \in Nat
  BY <1>1, <1>2, SpentGrows
<1>4. Cardinality(bad) <= MaxFaults
  BY DEF ClientKnows, Bounded
<1>5. g + 1 <= 1 + 2 * (Cardinality(Spent') + calls') /\ g + 1 <= 1 + 2 * (MaxFaults + MaxCalls)
  BY <1>3, <1>4, Numbers
<1>6. g + 1 \in Gens /\ g + 1 # NoSocket /\ g + 1 > gen
  BY <1>2, <1>5, Numbers DEF NoSocket
<1>7. /\ conn' \in [Gens -> Ends]
      /\ at' \in [Gens -> {"none", "dialled", "accepted", "authed", "closing", "gone"}]
  BY <1>1, <1>6 DEF TypeOK, Ends
<1>8. TypeOK'
  <2>1. gen' \in 0..(2 + 2 * (MaxFaults + MaxCalls)) /\ pong' \in {0, gen'}
    BY <1>1, <1>5, Numbers
  <2>2. QED
    BY <1>1, <1>6, <1>7, <2>1 DEF TypeOK
<1>9. /\ conn'[g + 1] = "connecting" /\ \A s \in Gens : s # g + 1 => conn'[s] = c[s]
      /\ \A s \in Gens : s # g + 1 => at'[s] = at[s]
  BY <1>1, <1>6 DEF TypeOK
<1>10. down[g + 1] = {} /\ \A s \in Gens : s > g => down[s] = {} /\ at[s] = "none"
  BY <1>2, <1>6, Numbers DEF ClientKnows, Ahead
<1>11. Ahead'
  BY <1>1, <1>2, <1>9, <1>10, Numbers DEF Ahead
<1>12. Current'
  BY <1>1, <1>2, <1>6, <1>9 DEF Current, Ends
<1>13. RetryOwed'
  BY <1>1 DEF RetryOwed
<1>14. Bounded'
  BY <1>1, <1>4, <1>5 DEF Bounded
<1>15. ReadyIsSent'
  BY <1>9, <1>10 DEF ReadyIsSent, ClientKnows
<1>16. ClientSound'
  BY <1>1, <1>6, <1>9 DEF ClientSound, OneSocket, ReadyIsProven, NobodyWaits, Live
<1>17. QED
  BY <1>8, <1>11, <1>12, <1>13, <1>14, <1>15, <1>16 DEF ClientKnows

\* The socket that is lost is the current one, and its network was spoilt.
LEMMA LostSound ==
  ASSUME TypeOK, ClientKnows, ClientSound, NEW c \in [Gens -> Ends], Lost(c), socket = gen, gen \in bad,
         \A s \in Gens : c[s] \notin {"connecting", "open"},
         \A s \in Gens : s > gen => c[s] = "none",
         down' \in [Gens -> SUBSET {"challenge", "ready", "error"}],
         \A s \in Gens : down'[s] \subseteq down[s],
         UNCHANGED <<socket, closed, building, calls, bad, answers, pings, at, pinged, verifying, sweeping,
                     alarm, told>>
  PROVE  TypeOK' /\ ClientKnows' /\ ClientSound'
<1>1. gen \in Gens /\ gen \in Nat /\ socket # NoSocket /\ ~closed /\ bad \subseteq Gens
  BY Numbers DEF TypeOK, ClientKnows, Current, NoSocket
<1>2. /\ gen' = gen + 1 /\ pong' = 0 /\ ready' = FALSE /\ conn' = c
      /\ retry' = gen + 1 /\ waiting' = waiting
  BY <1>1 DEF Lost, StopKeepalive, Scheduled
<1>3. /\ Cardinality(Spent) \in Nat /\ Cardinality(Spent') = Cardinality(Spent) + 1
      /\ Cardinality(bad) <= MaxFaults /\ Cardinality(Spent') <= Cardinality(bad) /\ Cardinality(bad) \in Nat
  <2>1. Spent' = Spent \union {gen} /\ gen \notin Spent /\ Spent \subseteq Gens
    <3>1. Gens \subseteq Nat
      BY Numbers
    <3>2. \A s \in bad : s < gen + 1 <=> s < gen \/ s = gen
      BY <1>1, <3>1
    <3>3. Spent' = {s \in bad : s < gen + 1}
      BY <1>2 DEF Spent
    <3>4. Spent' = Spent \union {gen}
      BY <3>2, <3>3 DEF Spent
    <3>5. ~(gen < gen)
      BY <1>1
    <3>6. gen \notin Spent /\ Spent \subseteq bad
      BY <3>5 DEF Spent
    <3>7. QED
      BY <1>1, <3>4, <3>6
  <2>2. IsFiniteSet(Spent)
    BY <2>1, FiniteGens
  <2>3. Cardinality(Spent') = Cardinality(Spent) + 1
    BY <2>1, <2>2, FS_AddElement
  <2>4. /\ Cardinality(Spent) \in Nat /\ Cardinality(Spent') <= Cardinality(bad)
        /\ Cardinality(bad) \in Nat
    BY <1>1, <1>2, SpentGrows
  <2>5. QED
    BY <2>3, <2>4 DEF ClientKnows, Bounded
<1>4. gen <= 1 + 2 * (Cardinality(Spent) + calls) /\ calls \in 0..MaxCalls
  BY DEF ClientKnows, Bounded, TypeOK
<1>5. gen + 1 <= 2 * (Cardinality(Spent') + calls) /\ gen + 1 <= 2 + 2 * (MaxFaults + MaxCalls)
  BY <1>1, <1>3, <1>4, Numbers
<1>6. TypeOK'
  <2>1. gen' \in 0..(2 + 2 * (MaxFaults + MaxCalls)) /\ pong' \in {0, gen'} /\ retry' \in Nat
    BY <1>1, <1>2, <1>5, Numbers
  <2>2. QED
    BY <1>2, <2>1 DEF TypeOK
<1>7. Ahead'
  BY <1>1, <1>2, Numbers DEF Ahead, ClientKnows
<1>8. Current'
  <2>1. \A s \in Gens : s = gen' => conn'[s] = "none"
    BY <1>1, <1>2, Numbers
  <2>2. QED
    BY <1>1, <1>2, <2>1 DEF Current, Ends
<1>9. RetryOwed'
  BY <1>1, <1>2 DEF RetryOwed
<1>10. Bounded'
  <2>1. socket' # gen' /\ bad' = bad /\ calls' = calls
    BY <1>1, <1>2
  <2>2. gen' <= 0 + 2 * (Cardinality(Spent') + calls')
    BY <1>1, <1>2, <1>3, <1>4, <1>5, <2>1
  <2>3. QED
    BY <1>3, <2>1, <2>2 DEF Bounded
<1>11. ReadyIsSent'
  BY DEF ReadyIsSent, ClientKnows
<1>12. ClientSound'
  BY <1>1, <1>2 DEF ClientSound, OneSocket, ReadyIsProven, NobodyWaits
<1>13. QED
  BY <1>6, <1>7, <1>8, <1>9, <1>10, <1>11, <1>12 DEF ClientKnows

-----------------------------------------------------------------------------
(* The steps of the client. *)

LEMMA ConnectClient ==
  ASSUME TypeOK, ClientKnows, ClientSound, Connect
  PROVE  TypeOK' /\ ClientKnows' /\ ClientSound'
<1> USE DEF netVars
<1>1. /\ waiting' = IF ready THEN waiting ELSE waiting \union {IF closed THEN "closed" ELSE "open"}
      /\ UNCHANGED <<closed, retry, pong, building, calls, pinged, verifying, sweeping, alarm, told, netVars>>
  BY DEF Connect
<1>2. ready \in BOOLEAN /\ closed \in BOOLEAN
  BY DEF TypeOK
<1>3. /\ waiting' \subseteq {"open", "closed"}
      /\ "open" \in waiting' => "open" \in waiting \/ (~ready /\ ~closed)
  BY <1>1 DEF TypeOK
<1>4. CASE socket = NoSocket /\ ~closed
  <2>1. gen = 0 /\ OpenFrom(0, conn) /\ ~ready
    BY <1>1, <1>4 DEF Connect, ClientKnows, Current
  <2>2. pong = 0 /\ retry' = 0 /\ retry = 0
    BY <1>1, <2>1, Numbers DEF ClientKnows, Current, RetryOwed, TypeOK
  <2>3. \A s \in Gens : conn[s] = "none"
    BY <2>1, Numbers DEF ClientKnows, Ahead
  <2>4. Cardinality(Spent) \in Nat /\ calls \in Nat /\ calls' \in 0..MaxCalls /\ calls' = calls
    <3>1. Spent \subseteq Gens
      BY DEF Spent, TypeOK
    <3>2. QED
      BY <1>1, <3>1, FiniteGens, Numbers DEF TypeOK
  <2>5. 0 <= 2 * (Cardinality(Spent) + calls')
    BY <2>4
  <2>6. conn \in [Gens -> Ends]
    BY DEF TypeOK
  <2>7. QED
    BY <1>1, <1>3, <1>4, <2>1, <2>2, <2>3, <2>4, <2>5, <2>6, OpenSound
<1>5. CASE ~(socket = NoSocket /\ ~closed)
  <2>1. UNCHANGED <<gen, socket, conn, at, ready>>
    BY <1>5 DEF Connect
  <2>2. TypeOK'
    BY <1>1, <1>3, <2>1 DEF TypeOK
  <2>3. ClientKnows'
    BY <1>1, <2>1 DEF ClientKnows, Ahead, Current, RetryOwed, Bounded, Spent, ReadyIsSent
  <2>4. ClientSound'
    BY <1>1, <1>2, <1>3, <2>1 DEF ClientSound, OneSocket, ReadyIsProven, NobodyWaits, Live
  <2>5. QED
    BY <2>2, <2>3, <2>4
<1>6. QED
  BY <1>4, <1>5

LEMMA RetryClient ==
  ASSUME TypeOK, ClientKnows, ClientSound, Retry
  PROVE  TypeOK' /\ ClientKnows' /\ ClientSound'
<1> USE DEF netVars
<1>1. /\ retry # 0 /\ retry' = 0
      /\ UNCHANGED <<closed, pong, building, waiting, calls, pinged, verifying, sweeping, alarm, told, netVars>>
  BY DEF Retry
<1>2. gen \in Nat /\ calls \in 0..MaxCalls /\ waiting \subseteq {"open", "closed"} /\ conn \in [Gens -> Ends]
  BY Numbers DEF TypeOK
<1>3. CASE ~Superseded /\ ~closed
  <2>1. OpenFrom(gen, conn) /\ retry = gen
    BY <1>3 DEF Retry, Superseded
  <2>2. socket # gen /\ ~ready /\ pong = 0
    BY <1>1, <2>1 DEF ClientKnows, RetryOwed, Current
  <2>3. gen <= 0 + 2 * (Cardinality(Spent) + calls)
    BY <2>2 DEF ClientKnows, Bounded
  <2>4. Cardinality(Spent) \in Nat
    <3>1. Spent \subseteq Gens
      BY DEF Spent, TypeOK
    <3>2. QED
      BY <3>1, FiniteGens
  <2>5. gen <= 2 * (Cardinality(Spent) + calls')
    BY <1>1, <1>2, <2>3, <2>4, Numbers
  <2>6. \A s \in Gens : conn[s] \notin {"connecting", "open"}
    BY <2>2 DEF ClientSound, OneSocket, Live
  <2>7. \A s \in Gens : s > gen => conn[s] = "none"
    BY DEF ClientKnows, Ahead
  <2>8. QED
    BY <1>1, <1>2, <1>3, <2>1, <2>2, <2>5, <2>6, <2>7, OpenSound
<1>4. CASE ~(~Superseded /\ ~closed)
  <2>1. UNCHANGED <<gen, socket, conn, at, ready>>
    BY <1>4 DEF Retry
  <2>2. TypeOK'
    BY <1>1, <2>1 DEF TypeOK
  <2>3. ClientKnows'
    BY <1>1, <1>2, <2>1 DEF ClientKnows, Ahead, Current, RetryOwed, Bounded, Spent, ReadyIsSent
  <2>4. ClientSound'
    BY <1>1, <2>1 DEF ClientSound, OneSocket, ReadyIsProven, NobodyWaits, Live
  <2>5. QED
    BY <2>2, <2>3, <2>4
<1>5. QED
  BY <1>3, <1>4

LEMMA WakeClient ==
  ASSUME TypeOK, ClientKnows, ClientSound, Wake
  PROVE  TypeOK' /\ ClientKnows' /\ ClientSound'
<1> USE DEF netVars
<1>1. /\ calls < MaxCalls /\ ~closed /\ ~ready /\ calls' = calls + 1 /\ OpenFrom(gen + 1, Shut(socket))
      /\ UNCHANGED <<closed, retry, pong, building, waiting, pinged, verifying, sweeping, alarm, told, netVars>>
  BY DEF Wake
<1>2. gen \in Nat /\ calls \in 0..MaxCalls /\ waiting \subseteq {"open", "closed"} /\ retry \in Nat
  BY Numbers DEF TypeOK
<1>3. pong = 0 /\ retry <= gen
  BY <1>1 DEF ClientKnows, Current, RetryOwed
<1>4. Cardinality(Spent) \in Nat
  <2>1. Spent \subseteq Gens
    BY DEF Spent, TypeOK
  <2>2. QED
    BY <2>1, FiniteGens
<1>5. gen <= 1 + 2 * (Cardinality(Spent) + calls)
  BY <1>2, <1>4, Numbers DEF ClientKnows, Bounded
<1>6. gen + 1 <= 2 * (Cardinality(Spent) + calls') /\ calls' \in 0..MaxCalls /\ gen + 1 \in Nat
  BY <1>1, <1>2, <1>4, <1>5, Numbers
<1>7. /\ Shut(socket) \in [Gens -> Ends]
      /\ \A s \in Gens : Shut(socket)[s] \notin {"connecting", "open"}
      /\ \A s \in Gens : s > gen => Shut(socket)[s] = "none"
  BY ShutEnds DEF ClientKnows, Ahead
<1>8. gen + 1 >= gen /\ retry' \in Nat /\ retry' <= gen + 1
  BY <1>1, <1>2, <1>3
<1>9. QED
  BY <1>1, <1>2, <1>3, <1>6, <1>7, <1>8, OpenSound

LEMMA AbandonClient ==
  ASSUME TypeOK, ClientKnows, ClientSound, Abandon, socket = gen, gen \in bad
  PROVE  TypeOK' /\ ClientKnows' /\ ClientSound'
<1>1. /\ Lost(Shut(socket))
      /\ UNCHANGED <<socket, closed, building, calls, serverVars, netVars>>
  BY DEF Abandon
<1>2. /\ Shut(socket) \in [Gens -> Ends]
      /\ \A s \in Gens : Shut(socket)[s] \notin {"connecting", "open"}
      /\ \A s \in Gens : s > gen => Shut(socket)[s] = "none"
  BY ShutEnds DEF ClientKnows, Ahead
<1>3. down' \in [Gens -> SUBSET {"challenge", "ready", "error"}] /\ \A s \in Gens : down'[s] \subseteq down[s]
  BY <1>1 DEF TypeOK, netVars
<1>4. QED
  BY <1>1, <1>2, <1>3, LostSound DEF serverVars, netVars

LEMMA TimeoutClient ==
  ASSUME TypeOK, ClientKnows, ClientSound, PongTimeout \/ HandshakeTimeout
  PROVE  TypeOK' /\ ClientKnows' /\ ClientSound'
<1>1. CASE PongTimeout
  <2>1. pong # 0 /\ socket \in bad
    BY <1>1 DEF PongTimeout
  <2>2. pong = gen /\ socket = gen
    BY <2>1 DEF TypeOK, ClientKnows, Current
  <2>3. QED
    BY <1>1, <2>1, <2>2, AbandonClient DEF PongTimeout
<1>2. CASE HandshakeTimeout
  BY <1>2, AbandonClient DEF HandshakeTimeout, Live
<1>3. QED
  BY <1>1, <1>2

LEMMA OnCloseClient ==
  ASSUME TypeOK, ClientKnows, ClientSound, NEW s \in Gens, OnClose(s)
  PROVE  TypeOK' /\ ClientKnows' /\ ClientSound'
<1> DEFINE c == [conn EXCEPT ![s] = "closed"]
<1>1. /\ conn[s] = "closing" /\ down' = [down EXCEPT ![s] = {}]
      /\ UNCHANGED <<socket, closed, building, calls, serverVars, answers, pings, bad>>
  BY DEF OnClose
<1>2. /\ c \in [Gens -> Ends] /\ c[s] = "closed" /\ \A t \in Gens : t # s => c[t] = conn[t]
      /\ down' \in [Gens -> SUBSET {"challenge", "ready", "error"}]
      /\ \A t \in Gens : down'[t] \subseteq down[t]
  BY <1>1 DEF TypeOK, Ends
<1>3. \A t \in Gens : t > gen => c[t] = "none"
  BY <1>1, <1>2 DEF ClientKnows, Ahead
<1>4. CASE Live(s)
  <2>1. s = gen /\ socket = gen /\ gen \in bad /\ Lost(c)
    BY <1>1, <1>4 DEF OnClose, Live, ClientKnows, Current
  <2>2. \A t \in Gens : c[t] \notin {"connecting", "open"}
    BY <1>2, <2>1 DEF ClientSound, OneSocket
  <2> HIDE DEF c
  <2>3. QED
    BY <1>1, <1>2, <1>3, <2>1, <2>2, LostSound DEF serverVars
<1>5. CASE ~Live(s)
  <2>1. conn' = c /\ UNCHANGED <<gen, ready, retry, pong, waiting>> /\ s # gen
    BY <1>5 DEF OnClose, Live
  <2>2. TypeOK'
    BY <1>1, <1>2, <2>1 DEF TypeOK, serverVars
  <2> HIDE DEF c
  <2>3. Ahead'
    BY <1>1, <1>2, <1>3, <2>1 DEF ClientKnows, Ahead, serverVars
  <2>4. Current' /\ RetryOwed'
    BY <1>1, <1>2, <2>1 DEF ClientKnows, Current, RetryOwed
  <2>5. Bounded' /\ ReadyIsSent'
    BY <1>1, <1>2, <2>1 DEF ClientKnows, Bounded, Spent, ReadyIsSent, serverVars
  <2>6. ClientSound'
    BY <1>1, <1>2, <2>1 DEF ClientSound, OneSocket, ReadyIsProven, NobodyWaits, Live, serverVars,
                            ClientKnows, Current, TypeOK, NoSocket
  <2>7. QED
    BY <2>2, <2>3, <2>4, <2>5, <2>6 DEF ClientKnows
<1>6. QED
  BY <1>4, <1>5

LEMMA ProbeClient ==
  ASSUME TypeOK, ClientKnows, ClientSound, Probe
  PROVE  TypeOK' /\ ClientKnows' /\ ClientSound'
<1>1. /\ ready /\ pong' = gen /\ pings' = pings \union {socket}
      /\ UNCHANGED <<gen, socket, conn, closed, ready, retry, building, waiting, calls, answers, down, bad>>
      /\ UNCHANGED <<at, pinged, verifying, sweeping, alarm, told>>
  BY DEF Probe, serverVars
<1>2. socket \in Gens
  BY <1>1 DEF ClientKnows, Current, TypeOK
<1>3. TypeOK'
  BY <1>1, <1>2 DEF TypeOK
<1>4. ClientKnows'
  BY <1>1 DEF ClientKnows, Ahead, Current, RetryOwed, Bounded, Spent, ReadyIsSent
<1>5. ClientSound'
  BY <1>1 DEF ClientSound, OneSocket, ReadyIsProven, NobodyWaits, Live
<1>6. QED
  BY <1>3, <1>4, <1>5

LEMMA CloseClient ==
  ASSUME TypeOK, ClientKnows, ClientSound, Close
  PROVE  TypeOK' /\ ClientKnows' /\ ClientSound'
<1>1. /\ calls < MaxCalls /\ calls' = calls + 1 /\ closed' = TRUE
      /\ gen' = gen + 1 /\ pong' = 0 /\ waiting' = {} /\ conn' = Shut(socket)
      /\ socket' = NoSocket /\ ready' = FALSE
      /\ UNCHANGED <<retry, building, at, pinged, verifying, sweeping, alarm, told, answers, pings, down, bad>>
  BY DEF Close, StopKeepalive, FlushReady, serverVars, netVars
<1>2. gen \in Nat /\ calls \in 0..MaxCalls /\ retry \in Nat /\ retry <= gen /\ bad \subseteq Gens
  BY Numbers DEF TypeOK, ClientKnows, RetryOwed
<1>3. /\ Cardinality(Spent) \in Nat /\ Cardinality(Spent') \in Nat
      /\ Cardinality(Spent) <= Cardinality(Spent')
      /\ Cardinality(Spent') <= Cardinality(bad) /\ Cardinality(bad) \in Nat
  BY <1>1, <1>2, SpentGrows
<1>4. /\ gen <= 1 + 2 * (Cardinality(Spent) + calls) /\ Cardinality(bad) <= MaxFaults
  BY <1>2, <1>3, Numbers DEF ClientKnows, Bounded
<1>5. gen + 1 <= 2 * (Cardinality(Spent') + calls') /\ calls' \in 0..MaxCalls
  BY <1>1, <1>2, <1>3, <1>4, Numbers
<1>6. gen' \in 0..(2 + 2 * (MaxFaults + MaxCalls))
  BY <1>1, <1>2, <1>3, <1>4, <1>5, Numbers
<1>7. /\ conn' \in [Gens -> Ends]
      /\ \A s \in Gens : conn'[s] \notin {"connecting", "open"}
      /\ \A s \in Gens : s > gen => conn'[s] = "none"
  BY <1>1, ShutEnds DEF ClientKnows, Ahead
<1>8. TypeOK'
  BY <1>1, <1>5, <1>6, <1>7 DEF TypeOK
<1>9. Ahead'
  BY <1>1, <1>2, <1>7, Numbers DEF ClientKnows, Ahead
<1>10. Current'
  <2>1. \A s \in Gens : s = gen' => conn'[s] = "none"
    BY <1>1, <1>2, <1>7, Numbers
  <2>2. QED
    BY <1>1, <1>2, <2>1 DEF Current, NoSocket
<1>11. RetryOwed'
  BY <1>1, <1>2 DEF RetryOwed
<1>12. Bounded'
  <2>1. socket' # gen'
    BY <1>1, <1>2 DEF NoSocket
  <2>2. gen' <= 0 + 2 * (Cardinality(Spent') + calls') /\ Cardinality(bad') <= MaxFaults
    BY <1>1, <1>2, <1>3, <1>4, <1>5
  <2>3. QED
    BY <2>1, <2>2 DEF Bounded
<1>13. ReadyIsSent'
  BY <1>1 DEF ClientKnows, ReadyIsSent
<1>14. ClientSound'
  BY <1>1, <1>7 DEF ClientSound, OneSocket, ReadyIsProven, NobodyWaits
<1>15. QED
  BY <1>8, <1>9, <1>10, <1>11, <1>12, <1>13, <1>14 DEF ClientKnows

\* What a message may do to the client: only one of the current socket does it.
LEMMA ReceiveClient ==
  ASSUME TypeOK, ClientKnows, ClientSound, NEW s \in Gens, Receive(s)
  PROVE  TypeOK' /\ ClientKnows' /\ ClientSound'
<1>1. PICK m \in down[s] :
        /\ conn[s] \in {"open", "closing"}
        /\ down' = [down EXCEPT ![s] = @ \ {m}]
        /\ \/ ~Handled(s) /\ UNCHANGED <<ready, waiting, pong, building, pings>>
           \/ Handled(s) /\ m = "challenge" /\ building' = building \union {s} /\ pong' = 0
              /\ UNCHANGED <<ready, waiting, pings>>
           \/ Handled(s) /\ m = "ready" /\ BecomeReady
           \/ Handled(s) /\ m = "error" /\ pong' = 0 /\ UNCHANGED <<ready, waiting, building, pings>>
  BY DEF Receive
<1>2. /\ UNCHANGED <<gen, socket, conn, closed, retry, calls, answers, bad>>
      /\ UNCHANGED <<at, pinged, verifying, sweeping, alarm, told>>
  BY DEF Receive, serverVars
<1>3. /\ down' \in [Gens -> SUBSET {"challenge", "ready", "error"}]
      /\ \A t \in Gens : down'[t] \subseteq down[t]
  BY <1>1 DEF TypeOK
<1>4. Handled(s) => s = gen /\ socket = s /\ ~closed
  BY <1>1 DEF Handled, Live, ClientKnows, Current, NoSocket
<1>5. \/ UNCHANGED <<ready, waiting>> /\ pong' \in {0, pong} /\ pings' = pings
      \/ /\ ready' = TRUE /\ pong' \in {0, gen} /\ pings' \subseteq pings \union {socket}
         /\ waiting' = {} \/ (waiting' = waiting /\ conn[socket] = "closing")
         /\ socket = s /\ s = gen /\ ~closed /\ at[s] \in Proven
  <2>1. CASE Handled(s) /\ m = "ready" /\ BecomeReady
    <3>1. at[s] \in Proven
      BY <1>1, <2>1 DEF ClientKnows, ReadyIsSent, Proven
    <3>2. s # NoSocket
      BY Numbers DEF NoSocket
    <3>3. QED
      BY <1>1, <1>4, <2>1, <3>1, <3>2 DEF BecomeReady, FlushReady, IsOpen
  <2>2. CASE ~(Handled(s) /\ m = "ready" /\ BecomeReady)
    BY <1>1, <2>2
  <2>3. QED
    BY <2>1, <2>2
<1>6. building' \subseteq Gens
  BY <1>1 DEF BecomeReady, TypeOK
<1>7. s # NoSocket
  BY Numbers DEF NoSocket
<1>8. TypeOK'
  <2>1. ready' \in BOOLEAN /\ waiting' \subseteq {"open", "closed"} /\ pong' \in {0, gen} /\ pings' \subseteq Gens
    BY <1>5 DEF TypeOK
  <2>2. QED
    BY <1>2, <1>3, <1>6, <2>1 DEF TypeOK
<1>9. Ahead' /\ RetryOwed' /\ Bounded' /\ ReadyIsSent'
  BY <1>2, <1>3 DEF ClientKnows, Ahead, RetryOwed, Bounded, Spent, ReadyIsSent
<1>10. Current'
  BY <1>2, <1>5, <1>7 DEF ClientKnows, Current
<1>11. ClientSound'
  <2>1. OneSocket'
    BY <1>2 DEF ClientSound, OneSocket, Live
  <2>2. ReadyIsProven'
    BY <1>2, <1>5, <1>7 DEF ClientSound, ReadyIsProven, Proven
  <2>3. NobodyWaits'
    BY <1>2, <1>5 DEF ClientSound, NobodyWaits
  <2>4. QED
    BY <2>1, <2>2, <2>3 DEF ClientSound
<1>12. QED
  BY <1>8, <1>9, <1>10, <1>11 DEF ClientKnows

LEMMA AnswerClient ==
  ASSUME TypeOK, ClientKnows, ClientSound, NEW n \in Gens, Answer(n)
  PROVE  TypeOK' /\ ClientKnows' /\ ClientSound'
<1>1. /\ building' = building \ {n}
      /\ answers' = IF IsOpen(socket) THEN [answers EXCEPT ![socket] = @ \union {n}] ELSE answers
      /\ UNCHANGED <<gen, socket, conn, closed, ready, retry, pong, waiting, calls, pings, down, bad>>
      /\ UNCHANGED <<at, pinged, verifying, sweeping, alarm, told>>
  BY DEF Answer, serverVars
<1>2. answers' \in [Gens -> SUBSET Gens]
  BY <1>1 DEF TypeOK
<1>3. TypeOK'
  BY <1>1, <1>2 DEF TypeOK
<1>4. ClientKnows'
  BY <1>1 DEF ClientKnows, Ahead, Current, RetryOwed, Bounded, Spent, ReadyIsSent
<1>5. ClientSound'
  BY <1>1 DEF ClientSound, OneSocket, ReadyIsProven, NobodyWaits, Live
<1>6. QED
  BY <1>3, <1>4, <1>5

LEMMA NetworkClient ==
  ASSUME TypeOK, ClientKnows, ClientSound, NEW s \in Gens, Establish(s) \/ Fail(s)
  PROVE  TypeOK' /\ ClientKnows' /\ ClientSound'
<1>1. PICK how \in {"open", "closing"} :
        /\ conn' = [conn EXCEPT ![s] = how] /\ (how = "closing" => s \in bad)
        /\ conn[s] \in {"connecting", "open"}
  BY DEF Establish, Fail
<1>2. /\ UNCHANGED <<gen, socket, closed, ready, retry, pong, building, waiting, calls>>
      /\ UNCHANGED <<at, pinged, verifying, sweeping, alarm, told, answers, pings, down, bad>>
  BY DEF Establish, Fail, serverVars, netVars
<1>3. conn' \in [Gens -> Ends] /\ conn'[s] = how /\ \A t \in Gens : t # s => conn'[t] = conn[t]
  BY <1>1 DEF TypeOK, Ends
<1>4. s = socket /\ s = gen /\ ~closed
  BY <1>1 DEF ClientSound, OneSocket, Live
<1>5. TypeOK'
  BY <1>2, <1>3 DEF TypeOK
<1>6. Ahead' /\ RetryOwed' /\ Bounded' /\ ReadyIsSent'
  BY <1>1, <1>2, <1>3, <1>4, Numbers DEF ClientKnows, Ahead, RetryOwed, Bounded, Spent, ReadyIsSent
<1>7. Current'
  BY <1>1, <1>2, <1>3, <1>4 DEF ClientKnows, Current
<1>8. ClientSound'
  BY <1>1, <1>2, <1>3, <1>4 DEF ClientSound, OneSocket, ReadyIsProven, NobodyWaits, Live
<1>9. QED
  BY <1>5, <1>6, <1>7, <1>8 DEF ClientKnows

\* A socket that is spoilt now has not been given up yet.
LEMMA SpoilClient ==
  ASSUME TypeOK, ClientKnows, ClientSound, NEW s \in Gens, Spoil(s)
  PROVE  TypeOK' /\ ClientKnows' /\ ClientSound'
<1>1. /\ Cardinality(bad) < MaxFaults /\ bad' = bad \union {s} /\ s \notin bad
      /\ UNCHANGED <<gen, socket, conn, closed, ready, retry, pong, building, waiting, calls>>
      /\ UNCHANGED <<at, pinged, verifying, sweeping, alarm, told, answers, pings, down>>
  BY DEF Spoil, serverVars, clientVars
<1>2. TypeOK'
  BY <1>1 DEF TypeOK
<1>3. gen \in Nat /\ bad' \subseteq Gens /\ bad \subseteq Gens /\ calls \in Nat
  BY <1>1, Numbers DEF TypeOK
<1>4. /\ Cardinality(Spent) \in Nat /\ Cardinality(Spent') \in Nat /\ Cardinality(Spent) <= Cardinality(Spent')
  BY <1>1, <1>3, SpentGrows
<1>5. Cardinality(bad') = Cardinality(bad) + 1 /\ Cardinality(bad) \in Nat
  BY <1>1, <1>3, FiniteGens, FS_AddElement
<1>6. Bounded'
  <2>1. gen <= (IF socket = gen THEN 1 ELSE 0) + 2 * (Cardinality(Spent) + calls)
    BY DEF ClientKnows, Bounded
  <2>2. gen <= (IF socket = gen THEN 1 ELSE 0) + 2 * (Cardinality(Spent') + calls)
    BY <1>3, <1>4, <2>1
  <2>3. Cardinality(bad') <= MaxFaults
    BY <1>1, <1>5, Numbers
  <2>4. QED
    BY <1>1, <2>2, <2>3 DEF Bounded
<1>7. Ahead' /\ Current' /\ RetryOwed' /\ ReadyIsSent'
  BY <1>1 DEF ClientKnows, Ahead, Current, RetryOwed, ReadyIsSent
<1>8. ClientSound'
  BY <1>1 DEF ClientSound, OneSocket, ReadyIsProven, NobodyWaits, Live
<1>9. QED
  BY <1>2, <1>6, <1>7, <1>8 DEF ClientKnows

-----------------------------------------------------------------------------
(* The steps of the object. *)

\* The object moves its own ends forward only, and sends "ready" where it proves.
ObjectMoves ==
  /\ UNCHANGED <<gen, socket, conn, closed, ready, retry, building, waiting, calls, bad>>
  /\ pong' \in {pong, 0}
  /\ \A s \in Gens : at[s] = "none" => at'[s] = "none" /\ down'[s] = down[s]
  /\ \A s \in Gens : at[s] \in Proven => at'[s] \in Proven
  /\ \A s \in Gens : "ready" \in down'[s] => "ready" \in down[s] \/ at'[s] \in Proven

LEMMA ObjectKeeps ==
  ASSUME TypeOK, ClientKnows, ClientSound, ObjectMoves
  PROVE  ClientKnows' /\ ClientSound'
<1>1. Ahead'
  BY DEF ObjectMoves, ClientKnows, Ahead
<1>2. Current' /\ RetryOwed' /\ Bounded'
  BY DEF ObjectMoves, ClientKnows, Current, RetryOwed, Bounded, Spent
<1>3. ReadyIsSent'
  BY DEF ObjectMoves, ClientKnows, ReadyIsSent, Proven
<1>4. ClientSound'
  <2>1. OneSocket' /\ NobodyWaits'
    BY DEF ObjectMoves, ClientSound, OneSocket, NobodyWaits, Live
  <2>2. ReadyIsProven'
    <3> SUFFICES ASSUME ready' PROVE socket' # NoSocket /\ at'[socket'] \in Proven
      BY DEF ReadyIsProven, Proven
    <3>1. ready /\ socket' = socket
      BY DEF ObjectMoves
    <3>2. socket # NoSocket /\ at[socket] \in Proven /\ socket \in Gens
      BY <3>1 DEF ClientSound, ReadyIsProven, Proven, TypeOK
    <3>3. QED
      BY <3>1, <3>2 DEF ObjectMoves
  <2>3. QED
    BY <2>1, <2>2 DEF ClientSound
<1>5. QED
  BY <1>1, <1>2, <1>3, <1>4 DEF ClientKnows

LEMMA SentTyped ==
  ASSUME TypeOK, NEW s \in Gens, NEW m \in {"challenge", "ready", "error"}
  PROVE  /\ Sent(s, m) \in [Gens -> SUBSET {"challenge", "ready", "error"}]
         /\ \A t \in Gens : t # s => Sent(s, m)[t] = down[t]
         /\ \A t \in Gens : Sent(s, m)[t] \subseteq down[t] \union {m}
  BY DEF Sent, TypeOK

LEMMA AcceptStep ==
  ASSUME TypeOK, ClientKnows, ClientSound, ObjectSound, NEW s \in Gens, Accept(s)
  PROVE  TypeOK' /\ ClientKnows' /\ ClientSound' /\ ObjectSound'
<1>1. /\ at[s] = "dialled" /\ at' = [at EXCEPT ![s] = "accepted"] /\ down' = Sent(s, "challenge")
      /\ UNCHANGED <<gen, socket, conn, closed, ready, retry, pong, building, waiting, calls>>
      /\ UNCHANGED <<pinged, verifying, sweeping, alarm, told, answers, pings, bad>>
  BY DEF Accept, clientVars
<1>2. /\ at' \in [Gens -> {"none", "dialled", "accepted", "authed", "closing", "gone"}]
      /\ at'[s] = "accepted" /\ \A t \in Gens : t # s => at'[t] = at[t]
  BY <1>1 DEF TypeOK
<1>3. down' \in [Gens -> SUBSET {"challenge", "ready", "error"}]
  BY <1>1, SentTyped
<1>4. TypeOK'
  BY <1>1, <1>2, <1>3 DEF TypeOK
<1>5. ObjectMoves
  BY <1>1, <1>2, SentTyped DEF ObjectMoves, Proven
<1>6. ObjectSound'
  BY <1>1, <1>2 DEF ObjectSound, SweepKept, GoneIsTold
<1>7. QED
  BY <1>4, <1>5, <1>6, ObjectKeeps

LEMMA ReceiveAuthStep ==
  ASSUME TypeOK, ClientKnows, ClientSound, ObjectSound, NEW s \in Gens, ReceiveAuth(s)
  PROVE  TypeOK' /\ ClientKnows' /\ ClientSound' /\ ObjectSound'
<1>1. PICK n \in answers[s] :
        /\ at[s] \in {"accepted", "authed"} /\ answers' = [answers EXCEPT ![s] = @ \ {n}]
        /\ \/ at[s] = "authed" /\ down' = Sent(s, "error") /\ UNCHANGED verifying
           \/ verifying' = verifying \union {<<s, n>>} /\ UNCHANGED down
        /\ UNCHANGED <<gen, socket, conn, closed, ready, retry, pong, building, waiting, calls>>
        /\ UNCHANGED <<at, pinged, sweeping, alarm, told, pings, bad>>
  BY DEF ReceiveAuth, clientVars
<1>2. answers' \in [Gens -> SUBSET Gens] /\ n \in Gens
  BY <1>1 DEF TypeOK
<1>3. down' \in [Gens -> SUBSET {"challenge", "ready", "error"}]
  BY <1>1, SentTyped DEF TypeOK
<1>4. verifying' \subseteq Gens \X Gens
  BY <1>1, <1>2 DEF TypeOK
<1>5. TypeOK'
  BY <1>1, <1>2, <1>3, <1>4 DEF TypeOK
<1>6. ObjectMoves
  BY <1>1, SentTyped DEF ObjectMoves, Proven
<1>7. ObjectSound'
  BY <1>1 DEF ObjectSound, SweepKept, GoneIsTold
<1>8. QED
  BY <1>5, <1>6, <1>7, ObjectKeeps

\* A socket that is proved is about to have its alarm set, and is told of only
\* while it is there.
LEMMA VerifiedStep ==
  ASSUME TypeOK, ClientKnows, ClientSound, ObjectSound, NEW s \in Gens, NEW n \in Gens, Verified(s, n)
  PROVE  TypeOK' /\ ClientKnows' /\ ClientSound' /\ ObjectSound'
<1>1. /\ verifying' = verifying \ {<<s, n>>}
      /\ UNCHANGED <<gen, socket, conn, closed, ready, retry, pong, building, waiting, calls>>
      /\ UNCHANGED <<pinged, alarm, answers, pings, bad>>
  BY DEF Verified, clientVars
<1>2. CASE /\ n = s /\ at[s] = "accepted" /\ at' = [at EXCEPT ![s] = "authed"] /\ down' = Sent(s, "ready")
           /\ sweeping' = sweeping \union {s}
           /\ \E listed \in Sockets : told' = IF IsFirst(listed) THEN TRUE ELSE told
  <2>1. /\ at' \in [Gens -> {"none", "dialled", "accepted", "authed", "closing", "gone"}]
        /\ at'[s] = "authed" /\ \A t \in Gens : t # s => at'[t] = at[t]
    BY <1>2 DEF TypeOK
  <2>2. down' \in [Gens -> SUBSET {"challenge", "ready", "error"}]
    BY <1>2, SentTyped
  <2>3. told' \in BOOLEAN
    BY <1>2 DEF TypeOK
  <2>4. TypeOK'
    BY <1>1, <1>2, <2>1, <2>2, <2>3 DEF TypeOK
  <2>5. ObjectMoves
    BY <1>1, <1>2, <2>1, SentTyped DEF ObjectMoves, Proven
  <2>6. ObjectSound'
    BY <1>2, <2>1 DEF ObjectSound, SweepKept, GoneIsTold
  <2>7. QED
    BY <2>4, <2>5, <2>6, ObjectKeeps
<1>3. CASE /\ UNCHANGED <<at, sweeping, told>>
           /\ \/ at[s] \in {"accepted", "authed"} /\ down' = Sent(s, "error")
              \/ UNCHANGED down
  <2>1. down' \in [Gens -> SUBSET {"challenge", "ready", "error"}]
    BY <1>3, SentTyped DEF TypeOK
  <2>2. TypeOK'
    BY <1>1, <1>3, <2>1 DEF TypeOK
  <2>3. ObjectMoves
    BY <1>1, <1>3, SentTyped DEF ObjectMoves, Proven
  <2>4. ObjectSound'
    BY <1>1, <1>3 DEF ObjectSound, SweepKept, GoneIsTold
  <2>5. QED
    BY <2>2, <2>3, <2>4, ObjectKeeps
<1>4. QED
  BY <1>2, <1>3 DEF Verified

LEMMA SweepStep ==
  ASSUME TypeOK, ClientKnows, ClientSound, ObjectSound, NEW s \in Gens, Sweep(s)
  PROVE  TypeOK' /\ ClientKnows' /\ ClientSound' /\ ObjectSound'
<1>1. /\ sweeping' = sweeping \ {s} /\ alarm' = TRUE
      /\ UNCHANGED <<gen, socket, conn, closed, ready, retry, pong, building, waiting, calls>>
      /\ UNCHANGED <<at, pinged, verifying, told, answers, pings, down, bad>>
  BY DEF Sweep, clientVars, netVars
<1>2. TypeOK'
  BY <1>1 DEF TypeOK
<1>3. ObjectMoves
  BY <1>1 DEF ObjectMoves
<1>4. ObjectSound'
  BY <1>1 DEF ObjectSound, SweepKept, GoneIsTold
<1>5. QED
  BY <1>2, <1>3, <1>4, ObjectKeeps

LEMMA PingStep ==
  ASSUME TypeOK, ClientKnows, ClientSound, ObjectSound, NEW s \in Gens, Ping(s) \/ GoStale(s)
  PROVE  TypeOK' /\ ClientKnows' /\ ClientSound' /\ ObjectSound'
<1>1. /\ \E how \in {"fresh", "stale"} : pinged' = [pinged EXCEPT ![s] = how]
      /\ pong' \in {pong, 0} /\ pings' \subseteq pings
      /\ UNCHANGED <<gen, socket, conn, closed, ready, retry, building, waiting, calls>>
      /\ UNCHANGED <<at, verifying, sweeping, alarm, told, answers, down, bad>>
  BY DEF Ping, GoStale, clientVars, netVars
<1>2. pinged' \in [Gens -> {"never", "fresh", "stale"}]
  BY <1>1 DEF TypeOK
<1>3. TypeOK'
  BY <1>1, <1>2 DEF TypeOK
<1>4. ObjectMoves
  BY <1>1 DEF ObjectMoves
<1>5. ObjectSound'
  BY <1>1 DEF ObjectSound, SweepKept, GoneIsTold
<1>6. QED
  BY <1>3, <1>4, <1>5, ObjectKeeps

\* What the runtime lists holds every socket that is open, and none that is not.
LEMMA ListedSockets ==
  ASSUME TypeOK, NEW listed \in Sockets
  PROVE  /\ listed \subseteq Gens
         /\ \A s \in Gens : at[s] \in {"accepted", "authed"} => s \in listed
         /\ \A s \in listed : at[s] \in {"accepted", "authed", "closing"}
  BY DEF Sockets, Listed, Closing

\* An alarm that leaves a proven socket open sets the next one.
LEMMA AlarmStep ==
  ASSUME TypeOK, ClientKnows, ClientSound, ObjectSound, Alarm
  PROVE  TypeOK' /\ ClientKnows' /\ ClientSound' /\ ObjectSound'
<1>1. PICK listed \in Sockets :
        /\ at' = [s \in Gens |-> IF s \in Quiet(listed) THEN "closing" ELSE at[s]]
        /\ told' = IF listed # {} /\ Quiet(listed) = listed THEN FALSE ELSE told
        /\ alarm' = AlarmAgain(listed)
  BY DEF Alarm
<1>2. /\ UNCHANGED <<gen, socket, conn, closed, ready, retry, pong, building, waiting, calls>>
      /\ UNCHANGED <<pinged, verifying, sweeping, answers, pings, down, bad>>
  BY DEF Alarm, clientVars, netVars
<1>3. \A s \in Quiet(listed) : s \in listed /\ at[s] \in {"accepted", "authed", "closing"}
  BY ListedSockets DEF Quiet
<1>4. \A s \in Gens : at'[s] = IF s \in Quiet(listed) THEN "closing" ELSE at[s]
  BY <1>1
<1>5. at' \in [Gens -> {"none", "dialled", "accepted", "authed", "closing", "gone"}]
  BY <1>1 DEF TypeOK
<1>6. told' \in BOOLEAN /\ alarm' \in BOOLEAN
  BY <1>1 DEF TypeOK, AlarmAgain
<1>7. TypeOK'
  BY <1>2, <1>5, <1>6 DEF TypeOK
<1>8. ObjectMoves
  BY <1>2, <1>3, <1>4 DEF ObjectMoves, Proven, ClientKnows, ReadyIsSent
<1>9. SweepKept'
  <2> SUFFICES ASSUME NEW s \in Gens, at'[s] = "authed" PROVE alarm'
    BY DEF SweepKept
  <2>1. s \notin Quiet(listed) /\ at[s] = "authed"
    BY <1>4
  <2>2. s \in listed
    BY <2>1, ListedSockets
  <2>3. listed # Quiet(listed)
    BY <2>1, <2>2
  <2>4. QED
    BY <1>1, <2>3 DEF AlarmAgain
<1>10. GoneIsTold'
  <2> SUFFICES ASSUME told' PROVE \E s \in Gens : at'[s] \notin {"none", "dialled", "gone"}
    BY DEF GoneIsTold
  <2>1. told
    BY <1>1
  <2>2. PICK s \in Gens : at[s] \notin {"none", "dialled", "gone"}
    BY <2>1 DEF ObjectSound, GoneIsTold
  <2>3. at'[s] \notin {"none", "dialled", "gone"}
    BY <1>4, <2>2
  <2>4. QED
    BY <2>3
<1>11. QED
  BY <1>7, <1>8, <1>9, <1>10, ObjectKeeps DEF ObjectSound

\* With the last socket goes what a watcher believes.
LEMMA SocketGoneStep ==
  ASSUME TypeOK, ClientKnows, ClientSound, ObjectSound, NEW s \in Gens, SocketGone(s)
  PROVE  TypeOK' /\ ClientKnows' /\ ClientSound' /\ ObjectSound'
<1>1. PICK listed \in Sockets : told' = IF Remaining(listed, s) = {} THEN FALSE ELSE told
  BY DEF SocketGone
<1>2. /\ at[s] \in {"accepted", "authed", "closing"} /\ at' = [at EXCEPT ![s] = "gone"]
      /\ pings' = pings \ {s} /\ pinged' = [pinged EXCEPT ![s] = "never"]
      /\ answers' = [answers EXCEPT ![s] = {}]
      /\ UNCHANGED <<gen, socket, conn, closed, ready, retry, pong, building, waiting, calls>>
      /\ UNCHANGED <<verifying, sweeping, alarm, down, bad>>
  BY DEF SocketGone, clientVars
<1>3. /\ at' \in [Gens -> {"none", "dialled", "accepted", "authed", "closing", "gone"}]
      /\ at'[s] = "gone" /\ \A t \in Gens : t # s => at'[t] = at[t]
  BY <1>2 DEF TypeOK
<1>4. pinged' \in [Gens -> {"never", "fresh", "stale"}] /\ answers' \in [Gens -> SUBSET Gens]
  BY <1>2 DEF TypeOK
<1>5. told' \in BOOLEAN
  BY <1>1 DEF TypeOK
<1>6. TypeOK'
  BY <1>2, <1>3, <1>4, <1>5 DEF TypeOK
<1>7. ObjectMoves
  BY <1>2, <1>3 DEF ObjectMoves, Proven, ClientKnows, ReadyIsSent
<1>8. SweepKept'
  BY <1>2, <1>3 DEF ObjectSound, SweepKept
<1>9. GoneIsTold'
  <2> SUFFICES ASSUME told' PROVE \E t \in Gens : at'[t] \notin {"none", "dialled", "gone"}
    BY DEF GoneIsTold
  <2>1. Remaining(listed, s) # {}
    BY <1>1
  <2>2. PICK t \in listed : t # s
    BY <2>1 DEF Remaining
  <2>3. t \in Gens /\ at[t] \in {"accepted", "authed", "closing"}
    BY ListedSockets
  <2>4. QED
    BY <1>3, <2>2, <2>3
<1>10. QED
  BY <1>6, <1>7, <1>8, <1>9, ObjectKeeps DEF ObjectSound

LEMMA WatchStep ==
  ASSUME TypeOK, ClientKnows, ClientSound, ObjectSound, Watch
  PROVE  TypeOK' /\ ClientKnows' /\ ClientSound' /\ ObjectSound'
<1>1. PICK listed \in Sockets : told' = (told \/ listed # {})
  BY DEF Watch
<1>2. /\ UNCHANGED <<gen, socket, conn, closed, ready, retry, pong, building, waiting, calls>>
      /\ UNCHANGED <<at, pinged, verifying, sweeping, alarm, answers, pings, down, bad>>
  BY DEF Watch, clientVars, netVars
<1>3. TypeOK'
  BY <1>1, <1>2 DEF TypeOK
<1>4. ObjectMoves
  BY <1>2 DEF ObjectMoves
<1>5. SweepKept'
  BY <1>2 DEF ObjectSound, SweepKept
<1>6. GoneIsTold'
  BY <1>1, <1>2, ListedSockets DEF ObjectSound, GoneIsTold
<1>7. QED
  BY <1>3, <1>4, <1>5, <1>6, ObjectKeeps DEF ObjectSound

-----------------------------------------------------------------------------
(* All steps. *)

\* A client that dials gives the object a socket under a name that is new, and
\* none of its other steps changes what the object knows.
LEMMA ClientObject ==
  ASSUME TypeOK, ClientKnows, ObjectSound,
         UNCHANGED <<sweeping, alarm, told>>,
         at' = at \/ \E g \in Nat : g >= gen /\ \E c : OpenFrom(g, c)
  PROVE  ObjectSound'
<1>1. CASE at' = at
  BY <1>1 DEF ObjectSound, SweepKept, GoneIsTold
<1>2. CASE \E g \in Nat : g >= gen /\ \E c : OpenFrom(g, c)
  <2>1. PICK g \in Nat : g >= gen /\ at' = [at EXCEPT ![g + 1] = "dialled"]
    BY <1>2 DEF OpenFrom
  <2>2. gen \in Nat
    BY Numbers DEF TypeOK
  <2>3. \A s \in Gens : s = g + 1 => at[s] = "none"
    BY <2>1, <2>2, Numbers DEF ClientKnows, Ahead
  <2>4. \A s \in Gens : at'[s] = IF s = g + 1 THEN "dialled" ELSE at[s]
    BY <2>1 DEF TypeOK
  <2>5. SweepKept'
    BY <2>4 DEF ObjectSound, SweepKept
  <2>6. GoneIsTold'
    BY <2>3, <2>4 DEF ObjectSound, GoneIsTold
  <2>7. QED
    BY <2>5, <2>6 DEF ObjectSound
<1>3. QED
  BY <1>1, <1>2

LEMMA OpeningStep ==
  ASSUME TypeOK, ClientKnows, ClientSound, ObjectSound, Connect \/ Retry \/ Wake
  PROVE  TypeOK' /\ ClientKnows' /\ ClientSound' /\ ObjectSound'
<1>1. TypeOK' /\ ClientKnows' /\ ClientSound'
  BY ConnectClient, RetryClient, WakeClient
<1>2. UNCHANGED <<sweeping, alarm, told>>
  BY DEF Connect, Retry, Wake
<1>3. gen \in Nat
  BY Numbers DEF TypeOK
<1>4. at' = at \/ \E c : OpenFrom(gen, c) \/ OpenFrom(gen + 1, c)
  BY DEF Connect, Retry, Wake
<1>5. gen >= gen /\ gen + 1 >= gen /\ gen + 1 \in Nat
  BY <1>3
<1>6. at' = at \/ \E g \in Nat : g >= gen /\ \E c : OpenFrom(g, c)
  BY <1>3, <1>4, <1>5
<1>7. QED
  BY <1>1, <1>2, <1>6, ClientObject

LEMMA ClientStep ==
  ASSUME TypeOK, ClientKnows, ClientSound, ObjectSound,
         Probe \/ Close \/ PongTimeout \/ HandshakeTimeout
  PROVE  TypeOK' /\ ClientKnows' /\ ClientSound' /\ ObjectSound'
<1>1. TypeOK' /\ ClientKnows' /\ ClientSound'
  BY ProbeClient, CloseClient, TimeoutClient
<1>2. UNCHANGED <<at, sweeping, alarm, told>>
  BY DEF Probe, Close, PongTimeout, HandshakeTimeout, Abandon, serverVars
<1>3. QED
  BY <1>1, <1>2, ClientObject

LEMMA SocketStep ==
  ASSUME TypeOK, ClientKnows, ClientSound, ObjectSound, NEW s \in Gens,
         OnClose(s) \/ Receive(s) \/ Answer(s) \/ Establish(s) \/ Fail(s) \/ Spoil(s)
  PROVE  TypeOK' /\ ClientKnows' /\ ClientSound' /\ ObjectSound'
<1>1. TypeOK' /\ ClientKnows' /\ ClientSound'
  BY OnCloseClient, ReceiveClient, AnswerClient, NetworkClient, SpoilClient
<1>2. UNCHANGED <<at, sweeping, alarm, told>>
  BY DEF OnClose, Receive, Answer, Establish, Fail, Spoil, serverVars
<1>3. QED
  BY <1>1, <1>2, ClientObject

LEMMA PresenceInit == Init => PresenceSound
<1> SUFFICES ASSUME Init PROVE PresenceSound
  OBVIOUS
<1>1. /\ gen = 0 /\ socket = NoSocket /\ conn = [s \in Gens |-> "none"]
      /\ closed = FALSE /\ ready = FALSE /\ retry = 0 /\ pong = 0
      /\ building = {} /\ waiting = {} /\ calls = 0
  BY DEF Init
<1>2. /\ at = [s \in Gens |-> "none"] /\ pinged = [s \in Gens |-> "never"]
      /\ verifying = {} /\ sweeping = {} /\ alarm = FALSE /\ told = FALSE
      /\ answers = [s \in Gens |-> {}] /\ pings = {} /\ down = [s \in Gens |-> {}] /\ bad = {}
  BY DEF Init
<1>3. TypeOK
  <2>1. gen \in 0..(2 + 2 * (MaxFaults + MaxCalls)) /\ calls \in 0..MaxCalls
    BY <1>1, Numbers
  <2>2. QED
    BY <1>1, <1>2, <2>1 DEF TypeOK, Ends
<1>4. Spent = {} /\ Cardinality(bad) = 0 /\ Cardinality({}) = 0
  BY <1>2, FS_EmptySet DEF Spent
<1>5. Bounded
  BY <1>1, <1>4, Numbers DEF Bounded, NoSocket
<1>6. Ahead /\ Current /\ RetryOwed /\ ReadyIsSent
  BY <1>1, <1>2, Numbers DEF Ahead, Current, RetryOwed, ReadyIsSent, NoSocket
<1>7. ClientSound
  BY <1>1 DEF ClientSound, OneSocket, ReadyIsProven, NobodyWaits
<1>8. ObjectSound
  BY <1>2 DEF ObjectSound, SweepKept, GoneIsTold
<1>9. QED
  BY <1>3, <1>5, <1>6, <1>7, <1>8 DEF PresenceSound, ClientKnows

LEMMA PresenceNext == PresenceSound /\ [Next]_vars => PresenceSound'
<1> DEFINE Goal == TypeOK' /\ ClientKnows' /\ ClientSound' /\ ObjectSound'
<1> SUFFICES ASSUME TypeOK, ClientKnows, ClientSound, ObjectSound, [Next]_vars PROVE Goal
  BY DEF PresenceSound
<1>1. Connect \/ Retry \/ Wake => Goal
  BY OpeningStep
<1>2. Probe \/ Close \/ PongTimeout \/ HandshakeTimeout => Goal
  BY ClientStep
<1>3. Alarm => Goal
  BY AlarmStep
<1>4. Watch => Goal
  BY WatchStep
<1>5. ASSUME NEW s \in Gens,
             OnClose(s) \/ Receive(s) \/ Answer(s) \/ Establish(s) \/ Fail(s) \/ Spoil(s)
      PROVE  Goal
  BY <1>5, SocketStep
<1>6. ASSUME NEW s \in Gens, Accept(s) PROVE Goal
  BY <1>6, AcceptStep
<1>7. ASSUME NEW s \in Gens, ReceiveAuth(s) PROVE Goal
  BY <1>7, ReceiveAuthStep
<1>8. ASSUME NEW s \in Gens, NEW n \in Gens, Verified(s, n) PROVE Goal
  BY <1>8, VerifiedStep
<1>9. ASSUME NEW s \in Gens, Sweep(s) PROVE Goal
  BY <1>9, SweepStep
<1>10. ASSUME NEW s \in Gens, Ping(s) \/ GoStale(s) PROVE Goal
  BY <1>10, PingStep
<1>11. ASSUME NEW s \in Gens, SocketGone(s) PROVE Goal
  BY <1>11, SocketGoneStep
<1>12. CASE UNCHANGED vars
  <2>1. /\ UNCHANGED <<gen, socket, conn, closed, ready, retry, pong, building, waiting, calls>>
        /\ UNCHANGED <<at, pinged, verifying, sweeping, alarm, told, answers, pings, down, bad>>
    BY <1>12 DEF vars, clientVars, serverVars, netVars
  <2>2. TypeOK'
    BY <2>1 DEF TypeOK
  <2>3. ObjectMoves
    BY <2>1 DEF ObjectMoves
  <2>4. ObjectSound'
    BY <2>1, ClientObject
  <2>5. QED
    BY <2>2, <2>3, <2>4, ObjectKeeps
<1> HIDE DEF Goal
<1>13. ASSUME NEW s \in Gens,
              Carry(s) \/ Compute(s) \/ OnClose(s) \/ Ping(s) \/ GoStale(s) \/ SocketGone(s)
                \/ Spoil(s) \/ Fail(s)
       PROVE  Goal
  BY <1>5, <1>6, <1>7, <1>8, <1>9, <1>10, <1>11, <1>13 DEF Carry, Compute
<1>14. QED
  BY <1>1, <1>2, <1>3, <1>4, <1>12, <1>13 DEF Next, Timeout

-----------------------------------------------------------------------------
(* The theorems. *)

\* Whatever the network does to sockets and whenever the host wakes or closes the
\* client, generations only run ahead of the socket that is in use, and the
\* conditions below hold together: the argument that signaling.js numbers its
\* connections correctly and that a message it gets belongs to what it says.
THEOREM PresenceInvariant == Spec => []PresenceSound
<1>1. QED
  BY PresenceInit, PresenceNext, PTL DEF Spec

\* Every variable of both ends stays within its type, the generation within what
\* the spoilt sockets and the host's calls account for (signaling.js, device.js).
THEOREM TypeCorrect == Spec => []TypeOK
<1>1. PresenceSound => TypeOK
  BY DEF PresenceSound
<1>2. QED
  BY <1>1, PresenceInvariant, PTL

\* The client has one connection, calls itself ready only on a socket the object
\* proved, and of those who called connect() before close() it leaves nobody
\* waiting once it is closed, or ready on a socket that is open (signaling.js).
THEOREM ClientCorrect == Spec => []ClientSound
<1>1. PresenceSound => ClientSound
  BY DEF PresenceSound
<1>2. QED
  BY <1>1, PresenceInvariant, PTL

\* A proven socket is always to be looked at by a sweep, and a watcher does not
\* hold a device online of whose sockets the last has gone (device.js).
THEOREM ObjectCorrect == Spec => []ObjectSound
<1>1. PresenceSound => ObjectSound
  BY DEF PresenceSound
<1>2. QED
  BY <1>1, PresenceInvariant, PTL
=============================================================================
