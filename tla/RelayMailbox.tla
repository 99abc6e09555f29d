----------------------------- MODULE RelayMailbox -----------------------------
(***************************************************************************)
(* The relay path: sendViaRelay and collectMailbox of protocol/relay.js,   *)
(* collect() of protocol/client.js, and the blob and mailbox endpoints of  *)
(* server/core.js over the store of server/store.js.                       *)
(*                                                                         *)
(* Every file is one upload to one recipient.  A request is answered,      *)
(* refused or lost.  The server may still act, at any later time, on a     *)
(* request its caller has given up as lost.  The recipient is one running  *)
(* client, which may crash and start again, and its socket may drop.       *)
(***************************************************************************)
EXTENDS Integers, FiniteSets

CONSTANTS
  Files,         \* the uploads
  Parts,         \* Parts[f]: the number of parts of f
  PartAttempts,  \* PART_ATTEMPTS
  MaxLosses,     \* bound: requests lost, and sockets dropped
  MaxCrashes,    \* bound: how often the recipient's app ends and starts again
  MaxFaults,     \* bound: how many source and sink operations may throw
  NoFile         \* no mailbox entry is being worked on

ASSUME RelayAssumption ==
  /\ NoFile \notin Files
  /\ Parts \in [Files -> Nat \ {0}]    \* an empty file has one part
  /\ PartAttempts \in Nat \ {0}
  /\ MaxLosses \in Nat
  /\ MaxCrashes \in Nat
  /\ MaxFaults \in Nat

VARIABLES
  \* the sender, per upload
  phase,      \* where its sendViaRelay stands
  sendNext,   \* the part it puts next
  sendTries,  \* how often putting that part has failed
  \* the server
  blob,       \* the blob record of the upload
  parts,      \* the parts of it that have been stored
  expired,    \* the uploads whose blob is past expiresAt
  mail,       \* the mailbox entry: "none", "queued" or "gone"
  notice,     \* is a message that counts the mail on its way to the recipient?
  late,       \* requests their callers gave up, which may arrive yet
  \* the recipient
  up,         \* is the app running?
  socket,     \* is its signaling socket connected?
  pass,       \* collect(): "idle", "listing" or "working"
  again,      \* collectAgain
  todo,       \* the entries listed and not begun
  current,    \* the entry being collected
  stage,      \* what is done with it: "none", "fetching" or "acking"
  got,        \* the part it gets next
  gotTries,   \* how often getting that part has failed
  paired,     \* does the vault know the sender?
  \* what the recipient has done
  copies,     \* copies[f]: how often a sink holding f was closed
  collected,  \* collected[f]: how many "collected" events it emitted
  discarded,  \* the entries it emitted a "discarded" event for
  \* what the bounds count
  losses, crashes, faults

sendVars == <<phase, sendNext, sendTries>>
serverVars == <<blob, parts, mail, notice>>
workVars == <<current, stage, got, gotTries>>
passVars == <<pass, again, todo>>
doneVars == <<copies, collected, discarded>>
vars == <<phase, sendNext, sendTries, blob, parts, expired, mail, notice, late,
          up, socket, pass, again, todo, current, stage, got, gotTries, paired,
          copies, collected, discarded, losses, crashes, faults>>

AllParts(f) == 0..(Parts[f] - 1)

Request == [op : {"create", "complete", "mail", "delete", "ack"}, file : Files]
           \cup [op : {"put"}, file : Files, part : Nat]

Call(o, f) == [op |-> o, file |-> f]
PutPart(f, i) == [op |-> "put", file |-> f, part |-> i]

Init ==
  /\ phase = [f \in Files |-> "idle"]
  /\ sendNext = [f \in Files |-> 0]
  /\ sendTries = [f \in Files |-> 0]
  /\ blob = [f \in Files |-> "none"]
  /\ parts = [f \in Files |-> {}]
  /\ expired = {}
  /\ mail = [f \in Files |-> "none"]
  /\ notice = FALSE
  /\ late = {}
  /\ up = TRUE
  /\ socket = TRUE
  /\ pass = "idle"
  /\ again = FALSE
  /\ todo = {}
  /\ current = NoFile
  /\ stage = "none"
  /\ got = 0
  /\ gotTries = 0
  /\ paired = TRUE
  /\ copies = [f \in Files |-> 0]
  /\ collected = [f \in Files |-> 0]
  /\ discarded = {}
  /\ losses = 0
  /\ crashes = 0
  /\ faults = 0

-----------------------------------------------------------------------------
(* The server: what makes it accept a request, and what it then does. *)

Stored(f) == blob[f] \in {"open", "complete"}
Queued == {f \in Files : mail[f] = "queued"}

Accepts(r) ==
  \/ r.op \in {"create", "mail"}
  \/ r.op = "put" /\ blob[r.file] = "open" /\ r.file \notin expired
  \/ r.op = "complete" /\ Stored(r.file) /\ parts[r.file] = AllParts(r.file)
  \/ r.op = "delete" /\ Stored(r.file)
  \/ r.op = "ack" /\ mail[r.file] = "queued"

\* A blob's parts go with its record.
Removed(f) == /\ blob' = [blob EXCEPT ![f] = IF Stored(f) THEN "removed" ELSE @]
              /\ parts' = [parts EXCEPT ![f] = {}]

\* An acknowledged entry leaves the mailbox.
TakenOut(f) == [mail EXCEPT ![f] = "gone"]

\* The mailbox endpoint queues whatever it is sent: it does not look at the
\* blob.  It then tells the recipient how much mail waits.
Apply(r) ==
  LET f == r.file IN
  \/ /\ r.op = "create"
     /\ blob' = [blob EXCEPT ![f] = "open"]
     /\ UNCHANGED <<parts, mail, notice>>
  \/ /\ r.op = "put"
     /\ parts' = [parts EXCEPT ![f] = @ \cup {r.part}]
     /\ UNCHANGED <<blob, mail, notice>>
  \/ /\ r.op = "complete"
     /\ blob' = [blob EXCEPT ![f] = "complete"]
     /\ UNCHANGED <<parts, mail, notice>>
  \/ /\ r.op = "mail"
     /\ mail' = [mail EXCEPT ![f] = "queued"]
     /\ notice' = socket
     /\ UNCHANGED <<blob, parts>>
  \/ /\ r.op = "delete"
     /\ Removed(f)
     /\ UNCHANGED <<mail, notice>>
  \/ /\ r.op = "ack"
     /\ mail' = TakenOut(f)
     /\ Removed(f)
     /\ UNCHANGED notice

Answered(r) == Accepts(r) /\ Apply(r) /\ UNCHANGED <<late, losses>>
Refused(r) == ~Accepts(r) /\ UNCHANGED <<serverVars, late, losses>>

\* The caller sees the request fail on the network, or with a server error;
\* the server may have missed it, or have it still to come.
Lost(r) ==
  /\ losses < MaxLosses
  /\ losses' = losses + 1
  /\ late' \in {late, late \cup {r}}
  /\ UNCHANGED serverVars

\* The server acts on a request its caller has given up.
LateArrival(r) ==
  /\ r \in late
  /\ late' = late \ {r}
  /\ IF Accepts(r) THEN Apply(r) ELSE UNCHANGED serverVars
  /\ UNCHANGED <<sendVars, expired, up, socket, passVars, workVars, paired,
                 doneVars, losses, crashes, faults>>

\* Seven days have passed since the blob was created.
Expire(f) ==
  /\ Stored(f)
  /\ f \notin expired
  /\ expired' = expired \cup {f}
  /\ UNCHANGED <<sendVars, serverVars, late, up, socket, passVars, workVars,
                 paired, doneVars, losses, crashes, faults>>

\* The sweep removes expired blobs.  Nothing sweeps the mailbox.
Sweep(f) ==
  /\ f \in expired
  /\ Stored(f)
  /\ Removed(f)
  /\ UNCHANGED <<sendVars, expired, mail, notice, late, up, socket, passVars,
                 workVars, paired, doneVars, losses, crashes, faults>>

-----------------------------------------------------------------------------
(* The sender: sendViaRelay. *)

senderUnchanged == <<expired, up, socket, passVars, workVars, paired, doneVars,
                     crashes>>

CreateBlob(f) ==
  /\ phase[f] = "idle"
  /\ \/ Answered(Call("create", f)) /\ phase' = [phase EXCEPT ![f] = "uploading"]
     \/ Lost(Call("create", f)) /\ phase' = [phase EXCEPT ![f] = "failed"]
  /\ UNCHANGED <<sendNext, sendTries, senderUnchanged, faults>>

Uploading(f) == phase[f] = "uploading" /\ sendNext[f] \in AllParts(f)

\* Mutant: a part is asked for again however often it was lost.
NoLastAttempt(tries) == FALSE

\* A lost part is worth another attempt, up to PART_ATTEMPTS of them.
LastAttempt(tries) == tries + 1 = PartAttempts

\* Mutant: giving up removes nothing.
GiveUpAtOnce(f) == phase' = [phase EXCEPT ![f] = "failed"]

\* Whatever fails after the blob exists leads to its removal.
GiveUp(f) == phase' = [phase EXCEPT ![f] = "deleting"]

\* Mutant: a refused part is asked for again.
RetryRefused(f) == UNCHANGED phase

\* A refusal from the server is final.
PartRefused(f) == GiveUp(f)

SendPart(f) ==
  LET r == PutPart(f, sendNext[f]) IN
  /\ phase[f] = "uploading"
  /\ \/ /\ Answered(r)
        /\ sendNext' = [sendNext EXCEPT ![f] = @ + 1]
        /\ sendTries' = [sendTries EXCEPT ![f] = 0]
        /\ phase' = [phase EXCEPT ![f] =
                       IF sendNext[f] + 1 = Parts[f] THEN "completing" ELSE @]
     \/ /\ Refused(r)
        /\ PartRefused(f)
        /\ UNCHANGED <<sendNext, sendTries>>
     \/ /\ Lost(r)
        /\ LastAttempt(sendTries[f])
        /\ GiveUp(f)
        /\ UNCHANGED <<sendNext, sendTries>>
     \/ /\ Lost(r)
        /\ ~LastAttempt(sendTries[f])
        /\ sendTries' = [sendTries EXCEPT ![f] = @ + 1]
        /\ UNCHANGED <<phase, sendNext>>
  /\ UNCHANGED <<senderUnchanged, faults>>

\* source.readChunk throws.
SourceFails(f) ==
  /\ phase[f] = "uploading"
  /\ faults < MaxFaults /\ faults' = faults + 1
  /\ GiveUp(f)
  /\ UNCHANGED <<sendNext, sendTries, serverVars, late, losses, senderUnchanged>>

\* completeBlob, and after it sendMail, are asked for once.
SendOnce(f, op, to) ==
  /\ \/ Answered(Call(op, f)) /\ phase' = [phase EXCEPT ![f] = to]
     \/ (Refused(Call(op, f)) \/ Lost(Call(op, f))) /\ GiveUp(f)
  /\ UNCHANGED <<sendNext, sendTries, senderUnchanged, faults>>

\* Mutant: the upload is announced without being completed.
NotCompleted(f) ==
  /\ phase[f] = "completing"
  /\ phase' = [phase EXCEPT ![f] = "mailing"]
  /\ UNCHANGED <<sendNext, sendTries, serverVars, late, losses, senderUnchanged,
                 faults>>

CompleteBlob(f) == phase[f] = "completing" /\ SendOnce(f, "complete", "mailing")
SendMail(f) == phase[f] = "mailing" /\ SendOnce(f, "mail", "sent")

\* deleteBlob is best effort: the send fails whatever becomes of it.
DeleteBlob(f) ==
  LET r == Call("delete", f) IN
  /\ phase[f] = "deleting"
  /\ Answered(r) \/ Refused(r) \/ Lost(r)
  /\ phase' = [phase EXCEPT ![f] = "failed"]
  /\ UNCHANGED <<sendNext, sendTries, senderUnchanged, faults>>

\* What the sender waits for in each phase.
Asks == [idle |-> "create", completing |-> "complete", mailing |-> "mail",
         deleting |-> "delete"]
Pending(f) == IF phase[f] = "uploading" THEN PutPart(f, sendNext[f])
              ELSE Call(Asks[phase[f]], f)

Active(f) == phase[f] \in {"idle", "uploading", "completing", "mailing", "deleting"}

\* The sender's app ends.  What it has asked for may still reach the server.
SenderStops(f) ==
  /\ Active(f)
  /\ phase' = [phase EXCEPT ![f] = "stopped"]
  /\ late' \in {late, late \cup {Pending(f)}}
  /\ UNCHANGED <<sendNext, sendTries, serverVars, losses, senderUnchanged, faults>>

-----------------------------------------------------------------------------
(* The recipient: when collect() is called. *)

recipientUnchanged == <<sendVars, expired, crashes>>

\* Mutant: a call during a pass is forgotten.
CollectOnlyWhenIdle ==
  /\ pass' = IF pass = "idle" THEN "listing" ELSE pass
  /\ again' = (pass # "idle" /\ again)

\* A call during a pass has it start over at its end.
Collect ==
  /\ pass' = IF pass = "idle" THEN "listing" ELSE pass
  /\ again' = (pass # "idle")

\* The host asks: the app came to the foreground, or a push woke it.
HostCollects ==
  /\ up
  /\ Collect
  /\ UNCHANGED <<recipientUnchanged, serverVars, late, up, socket, todo,
                 workVars, paired, doneVars, losses, faults>>

\* onMail: the relay said that mail waits.
HearNotice ==
  /\ up /\ notice
  /\ notice' = FALSE
  /\ Collect
  /\ UNCHANGED <<recipientUnchanged, blob, parts, mail, late, up, socket, todo,
                 workVars, paired, doneVars, losses, faults>>

\* The socket drops, and with it what the relay was saying.
SocketDrops ==
  /\ socket
  /\ losses < MaxLosses /\ losses' = losses + 1
  /\ socket' = FALSE
  /\ notice' = FALSE
  /\ UNCHANGED <<recipientUnchanged, blob, parts, mail, late, up, passVars,
                 workVars, paired, doneVars, faults>>

\* The socket is back: "ready" says how much mail waits.
SocketReady ==
  /\ up /\ ~socket
  /\ socket' = TRUE
  /\ notice' = (Queued # {})
  /\ UNCHANGED <<recipientUnchanged, blob, parts, mail, late, up, passVars,
                 workVars, paired, doneVars, losses, faults>>

\* The user removes the sender from the vault.
Unpair ==
  /\ up /\ paired
  /\ paired' = FALSE
  /\ UNCHANGED <<recipientUnchanged, serverVars, late, up, socket, passVars,
                 workVars, doneVars, losses, faults>>

\* The app ends, and with it the pass.  An ack under way may still arrive.
Crash ==
  /\ up
  /\ crashes < MaxCrashes /\ crashes' = crashes + 1
  /\ up' = FALSE /\ socket' = FALSE /\ notice' = FALSE
  /\ pass' = "idle" /\ again' = FALSE /\ todo' = {}
  /\ current' = NoFile /\ stage' = "none" /\ got' = 0 /\ gotTries' = 0
  /\ late' \in {late} \cup {late \cup {Call("ack", f)} :
                              f \in {g \in {current} : stage = "acking"}}
  /\ UNCHANGED <<sendVars, blob, parts, mail, expired, paired, doneVars, losses,
                 faults>>

\* start(): the socket connects, "ready" reports waiting mail, and the
\* mailbox is collected in any case.
Start ==
  /\ ~up
  /\ up' = TRUE
  /\ socket' = TRUE
  /\ pass' = "listing"
  /\ again' = (Queued # {})
  /\ UNCHANGED <<recipientUnchanged, serverVars, late, todo, workVars, paired,
                 doneVars, losses, faults>>

-----------------------------------------------------------------------------
(* The recipient: one pass over the mailbox. *)

workUnchanged == <<recipientUnchanged, up, socket, paired>>

\* The pass is over; if collect() was called meanwhile, another begins.
ListAgain == pass' = (IF again THEN "listing" ELSE "idle") /\ again' = FALSE

\* listMail throws out of collect(), which leaves collectAgain as it is.
ListMail ==
  /\ pass = "listing"
  /\ \/ /\ pass' = "working"
        /\ todo' = Queued
        /\ UNCHANGED <<serverVars, late, losses>>
     \/ /\ losses < MaxLosses /\ losses' = losses + 1
        /\ pass' = "idle"
        /\ UNCHANGED <<todo, serverVars, late>>
  /\ UNCHANGED <<workUnchanged, again, workVars, doneVars, faults>>

PassEnds ==
  /\ pass = "working" /\ todo = {} /\ current = NoFile
  /\ ListAgain
  /\ UNCHANGED <<workUnchanged, todo, serverVars, late, workVars, doneVars,
                 losses, faults>>

\* An entry from a device that is not paired is taken out of the mailbox, if
\* the server hears of it.
Discard(f) ==
  LET r == Call("ack", f) IN
  /\ pass = "working" /\ current = NoFile /\ f \in todo
  /\ ~paired
  /\ todo' = todo \ {f}
  /\ discarded' = discarded \cup {f}
  /\ Answered(r) \/ Refused(r) \/ Lost(r)
  /\ UNCHANGED <<workUnchanged, pass, again, workVars, copies, collected, faults>>

\* The next entry: its envelope is opened and its sink created, or not.
BeginEntry(f) ==
  /\ pass = "working" /\ current = NoFile /\ f \in todo
  /\ paired
  /\ todo' = todo \ {f}
  /\ \/ /\ current' = f /\ stage' = "fetching"
        /\ UNCHANGED <<got, gotTries, faults>>
     \/ /\ faults < MaxFaults /\ faults' = faults + 1
        /\ UNCHANGED workVars
  /\ UNCHANGED <<workUnchanged, pass, again, serverVars, late, doneVars, losses>>

\* The pass goes on to the next entry: this one is collected, or has failed
\* and is left in the mailbox.
LeaveEntry == current' = NoFile /\ stage' = "none" /\ got' = 0 /\ gotTries' = 0

\* Mutant: the entry is acked before its file is stored.
StoreAfterAck == stage' = "acking" /\ UNCHANGED copies

StoreCopy == stage' = "acking" /\ copies' = [copies EXCEPT ![current] = @ + 1]

Readable(f, i) == Stored(f) /\ f \notin expired /\ i \in parts[f]

GetPart ==
  /\ stage = "fetching" /\ got < Parts[current]
  /\ \/ /\ Readable(current, got)
        /\ got' = got + 1 /\ gotTries' = 0
        /\ UNCHANGED <<current, stage, losses, faults>>
     \/ /\ Readable(current, got)               \* sink.write throws
        /\ faults < MaxFaults /\ faults' = faults + 1
        /\ LeaveEntry
        /\ UNCHANGED losses
     \/ /\ ~Readable(current, got)
        /\ LeaveEntry
        /\ UNCHANGED <<losses, faults>>
     \/ /\ losses < MaxLosses /\ losses' = losses + 1
        /\ LastAttempt(gotTries)
        /\ LeaveEntry
        /\ UNCHANGED faults
     \/ /\ losses < MaxLosses /\ losses' = losses + 1
        /\ ~LastAttempt(gotTries)
        /\ gotTries' = gotTries + 1
        /\ UNCHANGED <<current, stage, got, faults>>
  /\ UNCHANGED <<workUnchanged, passVars, serverVars, late, doneVars>>

\* Every part is in place: the sink is closed, or fails to.
CloseSink ==
  /\ stage = "fetching" /\ got = Parts[current]
  /\ \/ StoreCopy /\ UNCHANGED <<current, got, gotTries, faults>>
     \/ /\ faults < MaxFaults /\ faults' = faults + 1
        /\ LeaveEntry
        /\ UNCHANGED copies
  /\ UNCHANGED <<workUnchanged, passVars, serverVars, late, collected, discarded,
                 losses>>

\* Mutant: a file whose ack failed is reported all the same.
CollectedAnyway(f) == collected' = [collected EXCEPT ![f] = @ + 1]

\* An ack that fails leaves the file stored and reported as failed.
AckFailed(f) == UNCHANGED collected

\* Only an ack that is answered makes the file a collected one.
AckMail ==
  LET r == Call("ack", current) IN
  /\ stage = "acking"
  /\ \/ Answered(r) /\ collected' = [collected EXCEPT ![current] = @ + 1]
     \/ (Refused(r) \/ Lost(r)) /\ AckFailed(current)
  /\ LeaveEntry
  /\ UNCHANGED <<workUnchanged, passVars, copies, discarded, faults>>

-----------------------------------------------------------------------------
SenderStep(f) ==
  CreateBlob(f) \/ SendPart(f) \/ CompleteBlob(f) \/ SendMail(f) \/ DeleteBlob(f)

RecipientStep ==
  \/ ListMail \/ PassEnds \/ GetPart \/ CloseSink \/ AckMail
  \/ \E f \in Files : BeginEntry(f) \/ Discard(f)

Next ==
  \/ \E f \in Files : \/ SenderStep(f) \/ SourceFails(f) \/ SenderStops(f)
                      \/ Expire(f) \/ Sweep(f)
  \/ \E r \in late : LateArrival(r)
  \/ RecipientStep
  \/ HostCollects \/ HearNotice \/ SocketDrops \/ SocketReady \/ Unpair
  \/ Crash \/ Start

Spec == Init /\ [][Next]_vars

(***************************************************************************)
(* A request ends, also by being lost; an upload once begun goes on, as    *)
(* does a pass; the relay's notice arrives unless the socket drops first;  *)
(* the socket reconnects (signaling.js does so for ever); the app is       *)
(* opened again.  Nobody has to expire, sweep, crash, unpair or ask.       *)
(***************************************************************************)
Fairness ==
  /\ \A f \in Files : WF_vars(phase[f] # "idle" /\ SenderStep(f))
  /\ WF_vars(RecipientStep)
  /\ WF_vars(HearNotice)
  /\ WF_vars(SocketReady)
  /\ WF_vars(Start)

FairSpec == Spec /\ Fairness

-----------------------------------------------------------------------------
(* Properties. *)

\* The type invariant: what each variable of the relay path ranges over.
TypeOK ==
  /\ phase \in [Files -> {"idle", "uploading", "completing", "mailing", "deleting",
                          "sent", "failed", "stopped"}]
  /\ sendNext \in [Files -> Nat]
  /\ sendTries \in [Files -> 0..(PartAttempts - 1)]
  /\ blob \in [Files -> {"none", "open", "complete", "removed"}]
  /\ parts \in [Files -> SUBSET Nat]
  /\ expired \subseteq Files
  /\ mail \in [Files -> {"none", "queued", "gone"}]
  /\ notice \in BOOLEAN
  /\ late \subseteq Request
  /\ up \in BOOLEAN /\ socket \in BOOLEAN
  /\ pass \in {"idle", "listing", "working"}
  /\ again \in BOOLEAN
  /\ todo \subseteq Files
  /\ current \in Files \cup {NoFile}
  /\ stage \in {"none", "fetching", "acking"}
  /\ stage # "none" <=> current # NoFile
  /\ got \in Nat
  /\ gotTries \in 0..(PartAttempts - 1)
  /\ paired \in BOOLEAN
  /\ copies \in [Files -> Nat]
  /\ collected \in [Files -> Nat]
  /\ discarded \subseteq Files
  /\ losses \in Nat /\ crashes \in Nat /\ faults \in Nat

\* An entry leaves the mailbox only once its file is stored at the recipient,
\* or was discarded there as coming from a stranger: no crash, lost answer or
\* late request makes the relay forget a file nobody has.
GoneIsStored ==
  \A f \in Files : mail[f] = "gone" => copies[f] > 0 \/ f \in discarded

\* A file the sender was told is queued has its entry, and while the entry
\* waits, the complete upload, until seven days are over.  No delete, retried
\* part or ack of an earlier pass, arriving late, takes it away.
SentIsKept ==
  \A f \in Files : phase[f] = "sent" =>
    /\ mail[f] # "none"
    /\ mail[f] = "queued" /\ f \notin expired =>
         blob[f] = "complete" /\ parts[f] = AllParts(f)

\* However often a file is collected again after a failed ack or a crash, the
\* host hears of it as collected once at most, and only when it is stored.
CollectedOnce ==
  \A f \in Files : collected[f] <= 1 /\ (collected[f] = 1 => copies[f] > 0)

\* An entry that waits in the mailbox has its blob: what is deleted in any
\* case after seven days is not the ciphertext alone.
QueuedHasBlob == \A f \in Files : mail[f] = "queued" => Stored(f)

\* A collect() asked for during a pass, as by mail that lands meanwhile, has
\* another pass made, unless the app ends first.
AgainHonoured == again ~> (~again \/ ~up)

\* Every send that has begun ends: parts are retried a bounded number of times.
\* While no request is lost, one that gave up has left nothing on the server (the
\* catch of sendViaRelay).
SendEnds ==
  \A f \in Files :
    /\ phase[f] = "uploading" ~> phase[f] \in {"sent", "failed", "stopped"}
    /\ [](phase[f] = "failed" => ~Stored(f))

\* While no request is lost, what was queued is stored by the recipient, also
\* when it was off or crashed meanwhile, unless the blob expired, the sender
\* was unpaired or the recipient's disk failed.
SentIsStored ==
  \A f \in Files :
    phase[f] = "sent" ~>
      (copies[f] > 0 \/ f \in expired \/ ~paired \/ faults > 0)

\* What the relay promises, with the sender's view of its upload and the events
\* of the recipient.
D == INSTANCE RelayDelivery WITH
       told <- [f \in Files |-> IF phase[f] \in {"sent", "failed", "stopped"}
                                THEN phase[f] ELSE "pending"],
       collected <- {f \in Files : collected[f] > 0}

\* The relay path implements that promise: one verdict per upload, one report
\* per file, after it was stored, and nothing stored again after its report.
ImplementsDelivery == D!Delivery
=============================================================================
