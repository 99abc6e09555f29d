-------------------------- MODULE RelayMailbox_proofs --------------------------
(***************************************************************************)
(* Proofs about RelayMailbox, for any uploads, any number of parts and of  *)
(* attempts, and any number of lost requests, crashes and faults.          *)
(***************************************************************************)
EXTENDS RelayMailbox, TLAPS

NotYetMailed == {"idle", "uploading", "completing", "mailing"}
GivenUp == {"failed", "stopped"}

(***************************************************************************)
(* The inductive invariant.  Its core is what may be in `late`: a request  *)
(* that comes in whenever it likes must find a server it cannot harm.      *)
(***************************************************************************)

\* A late create, or delete, is that of an upload already given up.
LateBlobs ==
  \A f \in Files :
    Call("create", f) \in late \/ Call("delete", f) \in late => phase[f] \in GivenUp

\* Mail is queued once: it is under way late only if it never arrived, and
\* then the upload it announces is being given up.
LateMail ==
  \A f \in Files :
    /\ phase[f] \in NotYetMailed => mail[f] = "none"
    /\ Call("mail", f) \in late =>
         mail[f] = "none" /\ phase[f] \in GivenUp \cup {"deleting"}

\* A late ack is for mail that did arrive, and was stored or discarded.
LateAcks ==
  \A f \in Files :
    Call("ack", f) \in late => mail[f] # "none" /\ (copies[f] > 0 \/ f \in discarded)

\* What is announced, or about to be, is complete until it expires.
Announced ==
  \A f \in Files :
    phase[f] = "mailing" \/ (phase[f] = "sent" /\ mail[f] = "queued") =>
      f \in expired \/ (blob[f] = "complete" /\ parts[f] = AllParts(f))

\* Collected files are stored, and out of the mailbox.
CollectedIsGone ==
  \A f \in Files :
    /\ collected[f] <= 1
    /\ collected[f] > 0 => mail[f] = "gone" /\ copies[f] > 0

\* One pass at a time, over entries that were queued and not collected.
OnePass ==
  /\ ~up => pass = "idle"
  /\ pass # "working" => todo = {} /\ current = NoFile
  /\ current \notin todo
  /\ \A f \in Files : f \in todo \/ f = current => mail[f] # "none" /\ collected[f] = 0
  /\ stage = "acking" => copies[current] > 0

\* What the sender was told is queued did enter the mailbox.
SentIsMailed == \A f \in Files : phase[f] = "sent" => mail[f] # "none"

RelayInv ==
  /\ LateBlobs /\ LateMail /\ LateAcks /\ Announced /\ SentIsMailed
  /\ CollectedIsGone /\ OnePass /\ GoneIsStored

-----------------------------------------------------------------------------
(* Types. *)

\* The types hold from the start.
LEMMA TypeInit == Init => TypeOK
<1> SUFFICES ASSUME Init PROVE TypeOK
  OBVIOUS
<1>1. sendTries \in [Files -> 0..(PartAttempts - 1)] /\ gotTries \in 0..(PartAttempts - 1)
  BY RelayAssumption DEF Init
<1>2. notice \in BOOLEAN /\ up \in BOOLEAN /\ socket \in BOOLEAN /\ again \in BOOLEAN
      /\ paired \in BOOLEAN
  BY DEF Init
<1>3. (stage # "none" <=> current # NoFile) /\ current \in Files \cup {NoFile}
  BY DEF Init
<1> QED
  BY <1>1, <1>2, <1>3 DEF Init, TypeOK

\* What an accepted request does keeps the types of the server's state.
LEMMA TypeApply ==
  ASSUME TypeOK, NEW r \in Request, Apply(r)
  PROVE  /\ blob' \in [Files -> {"none", "open", "complete", "removed"}]
         /\ parts' \in [Files -> SUBSET Nat]
         /\ mail' \in [Files -> {"none", "queued", "gone"}]
         /\ notice' \in BOOLEAN
<1>1. r.file \in Files /\ (r.op = "put" => r.part \in Nat)
  BY DEF Request
<1>2. CASE r.op = "create"
  BY <1>1, <1>2 DEF Apply, TypeOK
<1>3. CASE r.op = "put"
  BY <1>1, <1>3 DEF Apply, TypeOK
<1>4. CASE r.op = "complete"
  BY <1>1, <1>4 DEF Apply, TypeOK
<1>5. CASE r.op = "mail"
  BY <1>1, <1>5 DEF Apply, TypeOK
<1>6. CASE r.op = "delete"
  BY <1>1, <1>6 DEF Apply, TypeOK, Removed, Stored
<1>7. CASE r.op = "ack"
  BY <1>1, <1>7 DEF Apply, TypeOK, Removed, Stored, TakenOut
<1> QED
  BY <1>2, <1>3, <1>4, <1>5, <1>6, <1>7 DEF Request

\* A request is answered, refused or lost: in each case the state of the
\* server and of the network keeps its types.
LEMMA TypeRequest ==
  ASSUME TypeOK, NEW r \in Request, Answered(r) \/ Refused(r) \/ Lost(r)
  PROVE  /\ blob' \in [Files -> {"none", "open", "complete", "removed"}]
         /\ parts' \in [Files -> SUBSET Nat]
         /\ mail' \in [Files -> {"none", "queued", "gone"}]
         /\ notice' \in BOOLEAN
         /\ late' \subseteq Request
         /\ losses' \in Nat
<1>1. CASE Answered(r)
  BY <1>1, TypeApply DEF Answered, TypeOK
<1>2. CASE Refused(r)
  BY <1>2 DEF Refused, serverVars, TypeOK
<1>3. CASE Lost(r)
  BY <1>3, RelayAssumption DEF Lost, serverVars, TypeOK
<1> QED
  BY <1>1, <1>2, <1>3

\* The requests the clients make are requests.
LEMMA RequestTypes ==
  ASSUME NEW f \in Files, NEW i \in Nat, NEW o \in {"create", "complete", "mail", "delete", "ack"}
  PROVE  Call(o, f) \in Request /\ PutPart(f, i) \in Request
BY DEF Request, Call, PutPart

\* Every step keeps the types.
LEMMA TypeNext == TypeOK /\ [Next]_vars => TypeOK'
<1> SUFFICES ASSUME TypeOK, [Next]_vars PROVE TypeOK'
  OBVIOUS
<1> USE RelayAssumption
<1>1. ASSUME NEW f \in Files, CreateBlob(f) PROVE TypeOK'
  BY <1>1, TypeRequest, RequestTypes
  DEF CreateBlob, senderUnchanged, passVars, workVars, doneVars, TypeOK
<1>2. ASSUME NEW f \in Files, SendPart(f) PROVE TypeOK'
  <2>1. PutPart(f, sendNext[f]) \in Request
    BY RequestTypes DEF TypeOK
  <2> HIDE DEF PutPart
  <2> QED
    BY <1>2, <2>1, TypeRequest
    DEF SendPart, GiveUp, PartRefused, LastAttempt, senderUnchanged, passVars, workVars, doneVars,
        TypeOK
<1>3. ASSUME NEW f \in Files, SourceFails(f) PROVE TypeOK'
  BY <1>3 DEF SourceFails, GiveUp, senderUnchanged, serverVars, passVars, workVars,
              doneVars, TypeOK
<1>4. ASSUME NEW f \in Files, CompleteBlob(f) \/ SendMail(f) PROVE TypeOK'
  BY <1>4, TypeRequest, RequestTypes
  DEF CompleteBlob, SendMail, SendOnce, GiveUp, senderUnchanged, passVars,
      workVars, doneVars, TypeOK
<1>5. ASSUME NEW f \in Files, DeleteBlob(f) PROVE TypeOK'
  BY <1>5, TypeRequest, RequestTypes
  DEF DeleteBlob, senderUnchanged, passVars, workVars, doneVars, TypeOK
<1>6. ASSUME NEW f \in Files, SenderStops(f) PROVE TypeOK'
  <2>1. Pending(f) \in Request
    BY <1>6, RequestTypes DEF SenderStops, Active, Pending, Asks, TypeOK
  <2> QED
    BY <1>6, <2>1 DEF SenderStops, senderUnchanged, serverVars, passVars, workVars,
                      doneVars, TypeOK
<1>7. ASSUME NEW f \in Files, Expire(f) \/ Sweep(f) PROVE TypeOK'
  BY <1>7 DEF Expire, Sweep, Removed, Stored, sendVars, serverVars, passVars,
              workVars, doneVars, TypeOK
<1>8. ASSUME NEW r \in late, LateArrival(r) PROVE TypeOK'
  <2>1. r \in Request
    BY DEF TypeOK
  <2> QED
    BY <1>8, <2>1, TypeApply DEF LateArrival, sendVars, serverVars, passVars,
                                 workVars, doneVars, TypeOK
<1>9. ASSUME HostCollects \/ HearNotice \/ SocketDrops \/ SocketReady \/ Unpair \/ Start
      PROVE TypeOK'
  <2>1. /\ notice' \in BOOLEAN /\ up' \in BOOLEAN /\ socket' \in BOOLEAN
        /\ again' \in BOOLEAN /\ paired' \in BOOLEAN
    BY <1>9 DEF HostCollects, HearNotice, SocketDrops, SocketReady, Unpair, Start,
                Collect, serverVars, passVars, TypeOK
  <2>2. pass' \in {"idle", "listing", "working"} /\ losses' \in Nat
    BY <1>9 DEF HostCollects, HearNotice, SocketDrops, SocketReady, Unpair, Start,
                Collect, passVars, TypeOK
  <2>3. UNCHANGED <<sendVars, blob, parts, mail, expired, late, todo, workVars,
                    doneVars, crashes, faults>>
    BY <1>9 DEF HostCollects, HearNotice, SocketDrops, SocketReady, Unpair, Start,
                recipientUnchanged, serverVars, passVars
  <2> QED
    BY <2>1, <2>2, <2>3 DEF sendVars, workVars, doneVars, TypeOK
<1>10. ASSUME Crash PROVE TypeOK'
  <2>1. late' \subseteq Request
    BY <1>10, RequestTypes DEF Crash, TypeOK
  <2> QED
    <3>1. crashes' \in Nat /\ gotTries' \in 0..(PartAttempts - 1) /\ got' \in Nat
      BY <1>10 DEF Crash, TypeOK
    <3>2. /\ up' \in BOOLEAN /\ socket' \in BOOLEAN /\ notice' \in BOOLEAN
          /\ again' \in BOOLEAN /\ paired' \in BOOLEAN
          /\ current' = NoFile /\ stage' = "none" /\ pass' = "idle" /\ todo' = {}
      BY <1>10 DEF Crash, TypeOK
    <3>3. UNCHANGED <<sendVars, blob, parts, mail, expired, doneVars, losses, faults>>
      BY <1>10 DEF Crash
    <3> QED
      BY <2>1, <3>1, <3>2, <3>3 DEF sendVars, doneVars, TypeOK
<1>11. ASSUME ListMail \/ PassEnds PROVE TypeOK'
  <2>1. again' \in BOOLEAN
    BY <1>11 DEF ListMail, PassEnds, ListAgain, TypeOK
  <2> QED
    BY <1>11, <2>1 DEF ListMail, PassEnds, ListAgain, Queued, workUnchanged,
                 recipientUnchanged, sendVars, serverVars, workVars, doneVars, TypeOK
<1>12. ASSUME NEW f \in Files, BeginEntry(f) PROVE TypeOK'
  BY <1>12 DEF BeginEntry, workUnchanged, recipientUnchanged, sendVars, serverVars,
               workVars, doneVars, TypeOK
<1>13. ASSUME NEW f \in Files, Discard(f) PROVE TypeOK'
  BY <1>13, TypeRequest, RequestTypes
  DEF Discard, workUnchanged, recipientUnchanged, sendVars, workVars, TypeOK
<1>14. ASSUME GetPart \/ CloseSink PROVE TypeOK'
  BY <1>14 DEF GetPart, CloseSink, LeaveEntry, StoreCopy, LastAttempt, workUnchanged,
               recipientUnchanged, sendVars, serverVars, passVars, doneVars, TypeOK
<1>15. ASSUME AckMail PROVE TypeOK'
  <2>1. current \in Files /\ Call("ack", current) \in Request
    BY <1>15, RequestTypes DEF AckMail, TypeOK
  <2> QED
    BY <1>15, <2>1, TypeRequest
    DEF AckMail, AckFailed, LeaveEntry, workUnchanged, recipientUnchanged, sendVars,
        passVars, TypeOK
<1>16. ASSUME UNCHANGED vars PROVE TypeOK'
  BY <1>16 DEF vars, TypeOK
<1> QED
  BY <1>1, <1>2, <1>3, <1>4, <1>5, <1>6, <1>7, <1>8, <1>9, <1>10, <1>11, <1>12,
     <1>13, <1>14, <1>15, <1>16
  DEF Next, SenderStep, RecipientStep

\* Every variable of the relay path keeps its type.
THEOREM TypeCorrect == Spec => []TypeOK
BY TypeInit, TypeNext, PTL DEF Spec

-----------------------------------------------------------------------------
(* The invariant. *)

\* What requests carry, and when two of them are the same.
LEMMA Calls ==
  ASSUME NEW f \in Files, NEW g \in Files, NEW i \in Nat,
         NEW o \in {"create", "complete", "mail", "delete", "ack"},
         NEW q \in {"create", "complete", "mail", "delete", "ack"}
  PROVE  /\ Call(o, f).op = o /\ Call(o, f).file = f
         /\ PutPart(f, i).op = "put" /\ PutPart(f, i).file = f /\ PutPart(f, i).part = i
         /\ Call(o, f) = Call(q, g) => o = q /\ f = g
         /\ Call(o, f) # PutPart(g, i)
BY DEF Call, PutPart

\* The invariant holds from the start.
LEMMA InvInit == Init => RelayInv
BY RelayAssumption DEF Init, RelayInv, LateBlobs, LateMail, LateAcks, Announced,
     SentIsMailed, CollectedIsGone, OnePass, GoneIsStored, NotYetMailed

\* The server's answers to the requests of one kind each.
LEMMA Effects ==
  ASSUME NEW f \in Files, NEW i \in Nat
  PROVE  /\ Apply(Call("create", f)) =>
              blob' = [blob EXCEPT ![f] = "open"] /\ UNCHANGED <<parts, mail>>
         /\ Apply(PutPart(f, i)) =>
              parts' = [parts EXCEPT ![f] = @ \cup {i}] /\ UNCHANGED <<blob, mail>>
         /\ Apply(Call("complete", f)) =>
              blob' = [blob EXCEPT ![f] = "complete"] /\ UNCHANGED <<parts, mail>>
         /\ Apply(Call("mail", f)) =>
              mail' = [mail EXCEPT ![f] = "queued"] /\ UNCHANGED <<blob, parts>>
         /\ Apply(Call("delete", f)) => Removed(f) /\ UNCHANGED mail
         /\ Apply(Call("ack", f)) => Removed(f) /\ mail' = [mail EXCEPT ![f] = "gone"]
         /\ Accepts(PutPart(f, i)) => blob[f] = "open"
         /\ Accepts(Call("complete", f)) => parts[f] = AllParts(f)
         /\ Accepts(Call("ack", f)) => mail[f] = "queued"
BY Calls DEF Apply, Accepts, TakenOut

\* An ack takes its entry out of the mailbox, its blob with it, or does nothing.
LEMMA AckEffect ==
  ASSUME TypeOK, NEW f \in Files,
         Answered(Call("ack", f)) \/ Refused(Call("ack", f)) \/ Lost(Call("ack", f))
  PROVE  /\ \A g \in Files \ {f} :
              mail'[g] = mail[g] /\ blob'[g] = blob[g] /\ parts'[g] = parts[g]
         /\ \/ mail[f] = "queued" /\ mail'[f] = "gone"
            \/ ~Answered(Call("ack", f)) /\ UNCHANGED <<mail, blob, parts>>
BY Effects DEF Answered, Refused, Lost, serverVars, Removed, TypeOK

\* A request adds nothing to the late ones but itself, when it is lost.
LEMMA LateCalls ==
  ASSUME NEW f \in Files, NEW o \in {"create", "complete", "mail", "delete", "ack"},
         Answered(Call(o, f)) \/ Refused(Call(o, f)) \/ Lost(Call(o, f)),
         NEW g \in Files, NEW q \in {"create", "complete", "mail", "delete", "ack"},
         Call(q, g) \in late'
  PROVE  Call(q, g) \in late \/ (q = o /\ g = f /\ Lost(Call(o, f)))
BY Calls DEF Answered, Refused, Lost

LEMMA LatePuts ==
  ASSUME NEW f \in Files, NEW i \in Nat,
         Answered(PutPart(f, i)) \/ Refused(PutPart(f, i)) \/ Lost(PutPart(f, i)),
         NEW g \in Files, NEW q \in {"create", "complete", "mail", "delete", "ack"},
         Call(q, g) \in late'
  PROVE  Call(q, g) \in late
BY Calls DEF Answered, Refused, Lost

\* Every step keeps the invariant.
LEMMA InvNext == TypeOK /\ RelayInv /\ [Next]_vars => RelayInv'
<1> SUFFICES ASSUME TypeOK, RelayInv, [Next]_vars PROVE RelayInv'
  OBVIOUS
<1> USE RelayAssumption
<1>1. ASSUME NEW f \in Files, CreateBlob(f) PROVE RelayInv'
  <2>1. LateBlobs'
    <3>1. CASE Answered(Call("create", f))
      <4>1. (phase' = [phase EXCEPT ![f] = "uploading"] /\ late' = late) \/ phase'[f] = "failed"
        BY <1>1, <3>1 DEF CreateBlob, Answered, TypeOK
      <4>2. \A g \in Files \ {f} : phase'[g] = phase[g]
        BY <1>1 DEF CreateBlob, TypeOK
      <4> QED
        BY <1>1, <3>1, <4>1, <4>2
        DEF CreateBlob, Answered, RelayInv, LateBlobs, GivenUp
    <3>2. CASE Lost(Call("create", f))
      <4>1. phase' = [phase EXCEPT ![f] = "failed"]
        BY <1>1, <3>2 DEF CreateBlob, Answered, Lost
      <4> QED
        BY <3>2, <4>1, LateCalls DEF RelayInv, LateBlobs, GivenUp, TypeOK
    <3> QED
      BY <1>1, <3>1, <3>2 DEF CreateBlob
  <2>2. LateMail'
    BY <1>1, Calls, Effects, LateCalls
    DEF CreateBlob, Answered, Refused, Lost, serverVars, senderUnchanged,
        passVars, workVars, doneVars, RelayInv, TypeOK, LateMail, NotYetMailed,
        GivenUp, LateAcks, CollectedIsGone
  <2>3. LateAcks'
    BY <1>1, Calls, Effects, LateCalls
    DEF CreateBlob, Answered, Refused, Lost, serverVars, senderUnchanged,
        passVars, workVars, doneVars, RelayInv, TypeOK, LateAcks, LateMail
  <2>4. Announced'
    BY <1>1, Calls, Effects, LateCalls
    DEF CreateBlob, Answered, Refused, Lost, serverVars, senderUnchanged,
        passVars, workVars, doneVars, RelayInv, TypeOK, Announced, AllParts
  <2>5. SentIsMailed' /\ CollectedIsGone' /\ OnePass' /\ GoneIsStored'
    BY <1>1, Effects
    DEF CreateBlob, Answered, Refused, Lost, serverVars, senderUnchanged,
        passVars, workVars, doneVars, RelayInv, TypeOK, SentIsMailed,
        CollectedIsGone, OnePass, GoneIsStored
  <2> QED
    BY <2>1, <2>2, <2>3, <2>4, <2>5
    DEF RelayInv
<1>2. ASSUME NEW f \in Files, SendPart(f) PROVE RelayInv'
  <2>1. sendNext[f] \in Nat /\ PutPart(f, sendNext[f]) \in Request
    BY RequestTypes DEF TypeOK
  <2>2. /\ phase[f] = "uploading" /\ \A g \in Files : g # f => phase'[g] = phase[g]
        /\ phase'[f] \in {"uploading", "completing", "deleting"}
        /\ UNCHANGED mail
        /\ \A g \in Files : g # f => blob'[g] = blob[g] /\ parts'[g] = parts[g]
    BY <1>2, <2>1, Effects
    DEF SendPart, GiveUp, PartRefused, Answered, Refused, Lost, serverVars, TypeOK
  <2>3. \A g \in Files, q \in {"create", "complete", "mail", "delete", "ack"} :
          Call(q, g) \in late' => Call(q, g) \in late
    BY <1>2, <2>1, LatePuts DEF SendPart
  <2>4. LateBlobs'
    BY <1>2, <2>1, <2>2, <2>3, Calls, Effects
    DEF SendPart, GiveUp, PartRefused, Answered, Refused, Lost, serverVars,
        senderUnchanged, passVars, workVars, doneVars, RelayInv, TypeOK,
        LateBlobs, GivenUp
  <2>5. LateMail'
    BY <1>2, <2>1, <2>2, <2>3, Calls, Effects
    DEF SendPart, GiveUp, PartRefused, Answered, Refused, Lost, serverVars,
        senderUnchanged, passVars, workVars, doneVars, RelayInv, TypeOK, LateMail,
        NotYetMailed, GivenUp, LateAcks, CollectedIsGone
  <2>6. Announced'
    <3>1. UNCHANGED expired
      BY <1>2 DEF SendPart, senderUnchanged
    <3>2. mail' = mail /\ phase'[f] \notin {"mailing", "sent"}
      BY <2>2
    <3> QED
      BY <2>2, <3>1, <3>2 DEF RelayInv, Announced, AllParts
  <2>7. /\ LateAcks' /\ SentIsMailed' /\ CollectedIsGone' /\ OnePass'
        /\ GoneIsStored'
    BY <1>2, <2>1, <2>2, <2>3, Calls, Effects
    DEF SendPart, GiveUp, PartRefused, Answered, Refused, Lost, serverVars,
        senderUnchanged, passVars, workVars, doneVars, RelayInv, TypeOK, LateAcks,
        SentIsMailed, CollectedIsGone, OnePass, GoneIsStored
  <2> QED
    BY <2>4, <2>5, <2>6, <2>7
    DEF RelayInv
<1>3. ASSUME NEW f \in Files, SourceFails(f) PROVE RelayInv'
  <2>1. LateMail'
    BY <1>3
    DEF SourceFails, GiveUp, serverVars, senderUnchanged, passVars, workVars,
        doneVars, RelayInv, TypeOK, LateMail, NotYetMailed, GivenUp, LateAcks,
        CollectedIsGone
  <2>2. /\ LateBlobs' /\ LateAcks' /\ Announced' /\ SentIsMailed'
        /\ CollectedIsGone' /\ OnePass' /\ GoneIsStored'
    BY <1>3
    DEF SourceFails, GiveUp, serverVars, senderUnchanged, passVars, workVars,
        doneVars, RelayInv, TypeOK, LateBlobs, LateAcks, Announced, SentIsMailed,
        CollectedIsGone, OnePass, GoneIsStored, GivenUp, AllParts
  <2> QED
    BY <2>1, <2>2
    DEF RelayInv
<1>4. ASSUME NEW f \in Files, CompleteBlob(f) PROVE RelayInv'
  <2>1. LateBlobs'
    BY <1>4, Calls, Effects, LateCalls
    DEF CompleteBlob, SendOnce, GiveUp, Answered, Refused, Lost, serverVars,
        senderUnchanged, passVars, workVars, doneVars, RelayInv, TypeOK,
        LateBlobs, GivenUp
  <2>2. LateMail'
    BY <1>4, Calls, Effects, LateCalls
    DEF CompleteBlob, SendOnce, GiveUp, Answered, Refused, Lost, serverVars,
        senderUnchanged, passVars, workVars, doneVars, RelayInv, TypeOK, LateMail,
        NotYetMailed, GivenUp, LateAcks, CollectedIsGone
  <2>3. LateAcks'
    BY <1>4, Calls, Effects, LateCalls
    DEF CompleteBlob, SendOnce, GiveUp, Answered, Refused, Lost, serverVars,
        senderUnchanged, passVars, workVars, doneVars, RelayInv, TypeOK, LateAcks,
        LateMail
  <2>4. Announced'
    BY <1>4, Calls, Effects, LateCalls
    DEF CompleteBlob, SendOnce, GiveUp, Answered, Refused, Lost, serverVars,
        senderUnchanged, passVars, workVars, doneVars, RelayInv, TypeOK,
        Announced, AllParts
  <2>5. SentIsMailed' /\ CollectedIsGone' /\ OnePass' /\ GoneIsStored'
    BY <1>4, Calls, Effects, LateCalls
    DEF CompleteBlob, SendOnce, GiveUp, Answered, Refused, Lost, serverVars,
        senderUnchanged, passVars, workVars, doneVars, RelayInv, TypeOK,
        SentIsMailed, CollectedIsGone, OnePass, GoneIsStored
  <2> QED
    BY <2>1, <2>2, <2>3, <2>4, <2>5
    DEF RelayInv
<1>5. ASSUME NEW f \in Files, SendMail(f) PROVE RelayInv'
  <2>1. /\ phase[f] = "mailing" /\ mail[f] = "none"
        /\ UNCHANGED <<blob, parts, expired, up, passVars, current, stage, doneVars>>
        /\ \/ /\ phase' = [phase EXCEPT ![f] = "sent"]
              /\ mail' = [mail EXCEPT ![f] = "queued"]
              /\ UNCHANGED late
           \/ /\ phase' = [phase EXCEPT ![f] = "deleting"]
              /\ UNCHANGED mail
              /\ late' \in {late, late \cup {Call("mail", f)}}
    BY <1>5, Effects
    DEF SendMail, SendOnce, GiveUp, Answered, Refused, Lost, serverVars, RelayInv,
        LateMail, NotYetMailed, senderUnchanged, workVars
  <2>2. \A g \in Files, q \in {"create", "mail", "delete", "ack"} :
          Call(q, g) \in late' =>
            Call(q, g) \in late \/ (q = "mail" /\ g = f /\ phase'[f] = "deleting")
    BY <2>1, Calls DEF TypeOK
  <2>3. LateBlobs'
    BY <2>1, <2>2
    DEF passVars, doneVars, RelayInv, TypeOK, LateBlobs, GivenUp, LateMail
  <2>4. LateMail'
    BY <2>1, <2>2
    DEF passVars, doneVars, RelayInv, TypeOK, LateMail, NotYetMailed, GivenUp,
        LateAcks, CollectedIsGone
  <2>5. LateAcks'
    BY <2>1, <2>2
    DEF passVars, doneVars, RelayInv, TypeOK, LateAcks, LateMail
  <2>6. Announced'
    BY <2>1, <2>2
    DEF passVars, doneVars, RelayInv, TypeOK, Announced, AllParts, LateMail
  <2>7. SentIsMailed'
    BY <2>1, <2>2
    DEF passVars, doneVars, RelayInv, TypeOK, SentIsMailed, LateMail
  <2>8. CollectedIsGone'
    BY <2>1, <2>2
    DEF passVars, doneVars, RelayInv, TypeOK, CollectedIsGone, LateMail
  <2>9. OnePass'
    BY <2>1, <2>2
    DEF passVars, doneVars, RelayInv, TypeOK, OnePass, LateMail
  <2>10. GoneIsStored'
    BY <2>1, <2>2
    DEF passVars, doneVars, RelayInv, TypeOK, GoneIsStored
  <2> QED
    BY <2>3, <2>4, <2>5, <2>6, <2>7, <2>8, <2>9, <2>10
    DEF RelayInv
<1>6. ASSUME NEW f \in Files, DeleteBlob(f) PROVE RelayInv'
  <2>1. LateBlobs'
    BY <1>6, Calls, Effects, LateCalls
    DEF DeleteBlob, Removed, Answered, Refused, Lost, serverVars, senderUnchanged,
        passVars, workVars, doneVars, RelayInv, TypeOK, LateBlobs, GivenUp
  <2>2. LateMail'
    BY <1>6, Calls, Effects, LateCalls
    DEF DeleteBlob, Removed, Answered, Refused, Lost, serverVars, senderUnchanged,
        passVars, workVars, doneVars, RelayInv, TypeOK, LateMail, NotYetMailed,
        GivenUp, LateAcks, CollectedIsGone
  <2>3. LateAcks'
    BY <1>6, Calls, Effects, LateCalls
    DEF DeleteBlob, Removed, Answered, Refused, Lost, serverVars, senderUnchanged,
        passVars, workVars, doneVars, RelayInv, TypeOK, LateAcks, LateMail
  <2>4. Announced'
    BY <1>6, Calls, Effects, LateCalls
    DEF DeleteBlob, Removed, Answered, Refused, Lost, serverVars, senderUnchanged,
        passVars, workVars, doneVars, RelayInv, TypeOK, Announced, AllParts
  <2>5. SentIsMailed' /\ CollectedIsGone' /\ OnePass' /\ GoneIsStored'
    BY <1>6, Calls, Effects, LateCalls
    DEF DeleteBlob, Removed, Answered, Refused, Lost, serverVars, senderUnchanged,
        passVars, workVars, doneVars, RelayInv, TypeOK, SentIsMailed,
        CollectedIsGone, OnePass, GoneIsStored
  <2> QED
    BY <2>1, <2>2, <2>3, <2>4, <2>5
    DEF RelayInv
<1>7. ASSUME NEW f \in Files, SenderStops(f) PROVE RelayInv'
  <2>1. /\ phase' = [phase EXCEPT ![f] = "stopped"]
        /\ \A g \in Files, q \in {"create", "mail", "delete", "ack"} :
             Call(q, g) \in late' =>
               Call(q, g) \in late \/ (g = f /\ q # "ack" /\ (q = "mail" => phase[f] = "mailing"))
    BY <1>7, Calls DEF SenderStops, Active, Pending, Asks, TypeOK
  <2>2. LateBlobs'
    BY <1>7, <2>1
    DEF SenderStops, serverVars, senderUnchanged, passVars, workVars, doneVars,
        RelayInv, TypeOK, LateBlobs, GivenUp
  <2>3. LateMail'
    BY <1>7, <2>1
    DEF SenderStops, serverVars, senderUnchanged, passVars, workVars, doneVars,
        RelayInv, TypeOK, LateMail, NotYetMailed, GivenUp, LateAcks,
        CollectedIsGone
  <2>4. LateAcks'
    BY <1>7, <2>1
    DEF SenderStops, serverVars, senderUnchanged, passVars, workVars, doneVars,
        RelayInv, TypeOK, LateAcks, LateMail
  <2>5. Announced'
    BY <1>7, <2>1
    DEF SenderStops, serverVars, senderUnchanged, passVars, workVars, doneVars,
        RelayInv, TypeOK, Announced, AllParts
  <2>6. SentIsMailed' /\ CollectedIsGone' /\ OnePass' /\ GoneIsStored'
    BY <1>7, <2>1
    DEF SenderStops, serverVars, senderUnchanged, passVars, workVars, doneVars,
        RelayInv, TypeOK, SentIsMailed, CollectedIsGone, OnePass, GoneIsStored
  <2> QED
    BY <2>2, <2>3, <2>4, <2>5, <2>6
    DEF RelayInv
<1>8. ASSUME NEW f \in Files, Expire(f) PROVE RelayInv'
  <2>1. Announced'
    BY <1>8
    DEF Expire, sendVars, serverVars, passVars, workVars, doneVars, RelayInv,
        TypeOK, Announced, AllParts
  <2>2. /\ LateBlobs' /\ LateMail' /\ LateAcks' /\ SentIsMailed'
        /\ CollectedIsGone' /\ OnePass' /\ GoneIsStored'
    BY <1>8
    DEF Expire, sendVars, serverVars, passVars, workVars, doneVars, RelayInv,
        TypeOK, LateBlobs, LateMail, LateAcks, SentIsMailed, CollectedIsGone,
        OnePass, GoneIsStored, NotYetMailed, GivenUp
  <2> QED
    BY <2>1, <2>2
    DEF RelayInv
<1>9. ASSUME NEW f \in Files, Sweep(f) PROVE RelayInv'
  <2>1. Announced'
    BY <1>9
    DEF Sweep, Removed, sendVars, passVars, workVars, doneVars, RelayInv, TypeOK,
        Announced, AllParts
  <2>2. /\ LateBlobs' /\ LateMail' /\ LateAcks' /\ SentIsMailed'
        /\ CollectedIsGone' /\ OnePass' /\ GoneIsStored'
    BY <1>9
    DEF Sweep, Removed, sendVars, passVars, workVars, doneVars, RelayInv, TypeOK,
        LateBlobs, LateMail, LateAcks, SentIsMailed, CollectedIsGone, OnePass,
        GoneIsStored, NotYetMailed, GivenUp
  <2> QED
    BY <2>1, <2>2
    DEF RelayInv
<1>10. ASSUME NEW r \in late, LateArrival(r) PROVE RelayInv'
  <2>1. /\ late' \subseteq late
        /\ \/ \E f \in Files, o \in {"create", "complete", "mail", "delete", "ack"} :
                r = Call(o, f)
           \/ \E f \in Files, i \in Nat : r = PutPart(f, i)
    BY <1>10 DEF LateArrival, TypeOK, Request, Call, PutPart
  <2>2. \A f \in Files, o \in {"create", "mail", "delete", "ack"} :
          r = Call(o, f) => Call(o, f) \in late /\ Call(o, f) \notin late'
    BY <1>10 DEF LateArrival
  <2>3. LateBlobs'
    BY <1>10, <2>1, <2>2, Calls, Effects
    DEF sendVars, passVars, workVars, doneVars, LateArrival, serverVars, Removed,
        Stored, RelayInv, TypeOK, LateBlobs, GivenUp, LateMail, LateAcks,
        NotYetMailed
  <2>4. LateMail'
    BY <1>10, <2>1, <2>2, Calls, Effects
    DEF sendVars, passVars, workVars, doneVars, LateArrival, serverVars, Removed,
        Stored, RelayInv, TypeOK, LateMail, NotYetMailed, GivenUp, LateAcks,
        CollectedIsGone, LateBlobs
  <2>5. LateAcks'
    BY <1>10, <2>1, <2>2, Calls, Effects
    DEF sendVars, passVars, workVars, doneVars, LateArrival, serverVars, Removed,
        Stored, RelayInv, TypeOK, LateAcks, LateMail, LateBlobs, NotYetMailed,
        GivenUp
  <2>6. Announced'
    <3> SUFFICES ASSUME NEW g \in Files, g \notin expired,
                        phase[g] = "mailing" \/ (phase[g] = "sent" /\ mail'[g] = "queued")
                 PROVE  blob'[g] = "complete" /\ parts'[g] = AllParts(g)
      BY <1>10 DEF LateArrival, sendVars, Announced, AllParts
    <3>1. Call("create", g) # r /\ Call("delete", g) # r /\ Call("mail", g) # r
      BY <2>2 DEF RelayInv, LateBlobs, LateMail, GivenUp
    <3>2. ~(r = Call("ack", g) /\ Accepts(r))
      BY <1>10, <3>1, Effects DEF LateArrival, TypeOK, RelayInv, LateMail, NotYetMailed
    <3>3. mail'[g] = mail[g]
      <4>1. ASSUME NEW f \in Files, NEW o \in {"create", "complete", "mail", "delete", "ack"},
                   r = Call(o, f)
            PROVE  mail'[g] = mail[g]
        BY <1>10, <3>1, <3>2, <4>1, Calls, Effects DEF LateArrival, serverVars, TypeOK
      <4>2. ASSUME NEW f \in Files, NEW i \in Nat, r = PutPart(f, i)
            PROVE  mail'[g] = mail[g]
        BY <1>10, <4>2, Effects DEF LateArrival, serverVars
      <4> QED
        BY <2>1, <4>1, <4>2
    <3>4. blob[g] = "complete" /\ parts[g] = AllParts(g)
      BY <3>3 DEF RelayInv, Announced
    <3>5. ASSUME NEW f \in Files, NEW o \in {"create", "complete", "mail", "delete", "ack"},
                 r = Call(o, f)
          PROVE  blob'[g] = blob[g] /\ parts'[g] = parts[g]
      BY <1>10, <3>1, <3>2, <3>4, <3>5, Calls, Effects
      DEF LateArrival, serverVars, Removed, TypeOK
    <3>6. ASSUME NEW f \in Files, NEW i \in Nat, r = PutPart(f, i)
          PROVE  blob'[g] = blob[g] /\ parts'[g] = parts[g]
      BY <1>10, <3>4, <3>6, Effects DEF LateArrival, serverVars, TypeOK
    <3> QED
      BY <2>1, <3>4, <3>5, <3>6
  <2>7. SentIsMailed'
    BY <1>10, <2>1, <2>2, Calls, Effects
    DEF sendVars, passVars, workVars, doneVars, LateArrival, serverVars, Removed,
        Stored, RelayInv, TypeOK, SentIsMailed, LateBlobs, LateMail, LateAcks,
        NotYetMailed, GivenUp
  <2>8. CollectedIsGone'
    BY <1>10, <2>1, <2>2, Calls, Effects
    DEF sendVars, passVars, workVars, doneVars, LateArrival, serverVars, Removed,
        Stored, RelayInv, TypeOK, CollectedIsGone, LateBlobs, LateMail, LateAcks,
        NotYetMailed, GivenUp
  <2>9. OnePass'
    BY <1>10, <2>1, <2>2, Calls, Effects
    DEF sendVars, passVars, workVars, doneVars, LateArrival, serverVars, Removed,
        Stored, RelayInv, TypeOK, OnePass, LateBlobs, LateMail, LateAcks,
        NotYetMailed, GivenUp
  <2>10. GoneIsStored'
    BY <1>10, <2>1, <2>2, Calls, Effects
    DEF sendVars, passVars, workVars, doneVars, LateArrival, serverVars, Removed,
        Stored, RelayInv, TypeOK, GoneIsStored, LateBlobs, LateMail, LateAcks,
        NotYetMailed, GivenUp
  <2> QED
    BY <2>3, <2>4, <2>5, <2>6, <2>7, <2>8, <2>9, <2>10
    DEF RelayInv
<1>11. ASSUME HostCollects PROVE RelayInv'
  <2>1. OnePass'
    BY <1>11
    DEF HostCollects, Collect, recipientUnchanged, serverVars, sendVars, passVars,
        workVars, doneVars, RelayInv, TypeOK, OnePass
  <2>2. /\ LateBlobs' /\ LateMail' /\ LateAcks' /\ Announced' /\ SentIsMailed'
        /\ CollectedIsGone' /\ GoneIsStored'
    BY <1>11
    DEF HostCollects, Collect, recipientUnchanged, serverVars, sendVars, passVars,
        workVars, doneVars, RelayInv, TypeOK, LateBlobs, LateMail, LateAcks,
        Announced, SentIsMailed, CollectedIsGone, GoneIsStored, NotYetMailed,
        GivenUp, AllParts
  <2> QED
    BY <2>1, <2>2
    DEF RelayInv
<1>12. ASSUME HearNotice PROVE RelayInv'
  <2>1. OnePass'
    BY <1>12
    DEF HearNotice, Collect, recipientUnchanged, serverVars, sendVars, passVars,
        workVars, doneVars, RelayInv, TypeOK, OnePass
  <2>2. /\ LateBlobs' /\ LateMail' /\ LateAcks' /\ Announced' /\ SentIsMailed'
        /\ CollectedIsGone' /\ GoneIsStored'
    BY <1>12
    DEF HearNotice, Collect, recipientUnchanged, serverVars, sendVars, passVars,
        workVars, doneVars, RelayInv, TypeOK, LateBlobs, LateMail, LateAcks,
        Announced, SentIsMailed, CollectedIsGone, GoneIsStored, NotYetMailed,
        GivenUp, AllParts
  <2> QED
    BY <2>1, <2>2
    DEF RelayInv
<1>13. ASSUME SocketDrops PROVE RelayInv'
  <2>1. OnePass'
    BY <1>13
    DEF SocketDrops, recipientUnchanged, serverVars, sendVars, passVars, workVars,
        doneVars, RelayInv, TypeOK, OnePass
  <2>2. /\ LateBlobs' /\ LateMail' /\ LateAcks' /\ Announced' /\ SentIsMailed'
        /\ CollectedIsGone' /\ GoneIsStored'
    BY <1>13
    DEF SocketDrops, recipientUnchanged, serverVars, sendVars, passVars, workVars,
        doneVars, RelayInv, TypeOK, LateBlobs, LateMail, LateAcks, Announced,
        SentIsMailed, CollectedIsGone, GoneIsStored, NotYetMailed, GivenUp,
        AllParts
  <2> QED
    BY <2>1, <2>2
    DEF RelayInv
<1>14. ASSUME SocketReady PROVE RelayInv'
  <2>1. OnePass'
    BY <1>14
    DEF SocketReady, recipientUnchanged, serverVars, sendVars, passVars, workVars,
        doneVars, RelayInv, TypeOK, OnePass
  <2>2. /\ LateBlobs' /\ LateMail' /\ LateAcks' /\ Announced' /\ SentIsMailed'
        /\ CollectedIsGone' /\ GoneIsStored'
    BY <1>14
    DEF SocketReady, recipientUnchanged, serverVars, sendVars, passVars, workVars,
        doneVars, RelayInv, TypeOK, LateBlobs, LateMail, LateAcks, Announced,
        SentIsMailed, CollectedIsGone, GoneIsStored, NotYetMailed, GivenUp,
        AllParts
  <2> QED
    BY <2>1, <2>2
    DEF RelayInv
<1>15. ASSUME Unpair PROVE RelayInv'
  <2>1. OnePass'
    BY <1>15
    DEF Unpair, recipientUnchanged, serverVars, sendVars, passVars, workVars,
        doneVars, RelayInv, TypeOK, OnePass
  <2>2. /\ LateBlobs' /\ LateMail' /\ LateAcks' /\ Announced' /\ SentIsMailed'
        /\ CollectedIsGone' /\ GoneIsStored'
    BY <1>15
    DEF Unpair, recipientUnchanged, serverVars, sendVars, passVars, workVars,
        doneVars, RelayInv, TypeOK, LateBlobs, LateMail, LateAcks, Announced,
        SentIsMailed, CollectedIsGone, GoneIsStored, NotYetMailed, GivenUp,
        AllParts
  <2> QED
    BY <2>1, <2>2
    DEF RelayInv
<1>16. ASSUME Start PROVE RelayInv'
  <2>1. OnePass'
    BY <1>16
    DEF Start, recipientUnchanged, serverVars, sendVars, passVars, workVars,
        doneVars, RelayInv, TypeOK, OnePass
  <2>2. /\ LateBlobs' /\ LateMail' /\ LateAcks' /\ Announced' /\ SentIsMailed'
        /\ CollectedIsGone' /\ GoneIsStored'
    BY <1>16
    DEF Start, recipientUnchanged, serverVars, sendVars, passVars, workVars,
        doneVars, RelayInv, TypeOK, LateBlobs, LateMail, LateAcks, Announced,
        SentIsMailed, CollectedIsGone, GoneIsStored, NotYetMailed, GivenUp,
        AllParts
  <2> QED
    BY <2>1, <2>2
    DEF RelayInv
<1>17. ASSUME Crash PROVE RelayInv'
  <2>1. \A g \in Files, q \in {"create", "mail", "delete", "ack"} :
          Call(q, g) \in late' =>
            Call(q, g) \in late \/ (q = "ack" /\ g = current /\ stage = "acking")
    BY <1>17, Calls DEF Crash, TypeOK
  <2>2. LateBlobs'
    BY <1>17, <2>1
    DEF Crash, sendVars, doneVars, RelayInv, TypeOK, LateBlobs, GivenUp, OnePass
  <2>3. LateMail'
    BY <1>17, <2>1
    DEF Crash, sendVars, doneVars, RelayInv, TypeOK, LateMail, NotYetMailed,
        GivenUp, LateAcks, CollectedIsGone, OnePass
  <2>4. LateAcks'
    BY <1>17, <2>1
    DEF Crash, sendVars, doneVars, RelayInv, TypeOK, LateAcks, LateMail, OnePass
  <2>5. OnePass'
    BY <1>17, <2>1
    DEF Crash, sendVars, doneVars, RelayInv, TypeOK, OnePass
  <2>6. Announced' /\ SentIsMailed' /\ CollectedIsGone' /\ GoneIsStored'
    BY <1>17, <2>1
    DEF Crash, sendVars, doneVars, RelayInv, TypeOK, Announced, SentIsMailed,
        CollectedIsGone, GoneIsStored, AllParts
  <2> QED
    BY <2>2, <2>3, <2>4, <2>5, <2>6
    DEF RelayInv
<1>18. ASSUME ListMail PROVE RelayInv'
  <2>1. OnePass'
    BY <1>18
    DEF ListMail, Queued, serverVars, workVars, doneVars, workUnchanged,
        recipientUnchanged, sendVars, RelayInv, TypeOK, OnePass, CollectedIsGone
  <2>2. /\ LateBlobs' /\ LateMail' /\ LateAcks' /\ Announced' /\ SentIsMailed'
        /\ CollectedIsGone' /\ GoneIsStored'
    BY <1>18
    DEF ListMail, Queued, serverVars, workVars, doneVars, workUnchanged,
        recipientUnchanged, sendVars, RelayInv, TypeOK, LateBlobs, LateMail,
        LateAcks, Announced, SentIsMailed, CollectedIsGone, GoneIsStored,
        NotYetMailed, GivenUp, AllParts
  <2> QED
    BY <2>1, <2>2
    DEF RelayInv
<1>19. ASSUME PassEnds PROVE RelayInv'
  <2>1. OnePass'
    BY <1>19
    DEF PassEnds, ListAgain, serverVars, workVars, doneVars, workUnchanged,
        recipientUnchanged, sendVars, RelayInv, TypeOK, OnePass
  <2>2. /\ LateBlobs' /\ LateMail' /\ LateAcks' /\ Announced' /\ SentIsMailed'
        /\ CollectedIsGone' /\ GoneIsStored'
    BY <1>19
    DEF PassEnds, ListAgain, serverVars, workVars, doneVars, workUnchanged,
        recipientUnchanged, sendVars, RelayInv, TypeOK, LateBlobs, LateMail,
        LateAcks, Announced, SentIsMailed, CollectedIsGone, GoneIsStored,
        NotYetMailed, GivenUp, AllParts
  <2> QED
    BY <2>1, <2>2
    DEF RelayInv
<1>20. ASSUME NEW f \in Files, BeginEntry(f) PROVE RelayInv'
  <2>1. OnePass'
    BY <1>20
    DEF BeginEntry, serverVars, workVars, doneVars, workUnchanged,
        recipientUnchanged, sendVars, RelayInv, TypeOK, OnePass
  <2>2. /\ LateBlobs' /\ LateMail' /\ LateAcks' /\ Announced' /\ SentIsMailed'
        /\ CollectedIsGone' /\ GoneIsStored'
    BY <1>20
    DEF BeginEntry, serverVars, workVars, doneVars, workUnchanged,
        recipientUnchanged, sendVars, RelayInv, TypeOK, LateBlobs, LateMail,
        LateAcks, Announced, SentIsMailed, CollectedIsGone, GoneIsStored,
        NotYetMailed, GivenUp, AllParts
  <2> QED
    BY <2>1, <2>2
    DEF RelayInv
<1>21. ASSUME NEW f \in Files, Discard(f) PROVE RelayInv'
  <2>1. /\ f \in todo /\ f \in discarded' /\ discarded \subseteq discarded'
        /\ mail[f] # "none"
    BY <1>21 DEF Discard, RelayInv, OnePass
  <2>2. Answered(Call("ack", f)) \/ Refused(Call("ack", f)) \/ Lost(Call("ack", f))
    BY <1>21 DEF Discard
  <2>3. /\ \A g \in Files \ {f} :
             mail'[g] = mail[g] /\ blob'[g] = blob[g] /\ parts'[g] = parts[g]
        /\ \/ mail[f] = "queued" /\ mail'[f] = "gone"
           \/ ~Answered(Call("ack", f)) /\ UNCHANGED <<mail, blob, parts>>
    BY <2>1, <2>2, AckEffect
  <2>4. \A g \in Files, q \in {"create", "mail", "delete", "ack"} :
          Call(q, g) \in late' => Call(q, g) \in late \/ (q = "ack" /\ g = f)
    BY <2>1, <2>2, LateCalls
  <2>5. LateBlobs'
    BY <1>21, <2>1, <2>3, <2>4
    DEF Discard, workVars, workUnchanged, recipientUnchanged, sendVars, RelayInv,
        TypeOK, LateBlobs, GivenUp, LateMail, NotYetMailed
  <2>6. LateMail'
    BY <1>21, <2>1, <2>3, <2>4
    DEF Discard, workVars, workUnchanged, recipientUnchanged, sendVars, RelayInv,
        TypeOK, LateMail, NotYetMailed, GivenUp, LateAcks, CollectedIsGone
  <2>7. LateAcks'
    BY <1>21, <2>1, <2>3, <2>4
    DEF Discard, workVars, workUnchanged, recipientUnchanged, sendVars, RelayInv,
        TypeOK, LateAcks, LateMail, NotYetMailed
  <2>8. Announced'
    BY <1>21, <2>1, <2>3, <2>4
    DEF Discard, workVars, workUnchanged, recipientUnchanged, sendVars, RelayInv,
        TypeOK, Announced, AllParts, LateMail, NotYetMailed
  <2>9. SentIsMailed'
    BY <1>21, <2>1, <2>3, <2>4
    DEF Discard, workVars, workUnchanged, recipientUnchanged, sendVars, RelayInv,
        TypeOK, SentIsMailed, LateMail, NotYetMailed
  <2>10. CollectedIsGone'
    BY <1>21, <2>1, <2>3, <2>4
    DEF Discard, workVars, workUnchanged, recipientUnchanged, sendVars, RelayInv,
        TypeOK, CollectedIsGone, LateMail, NotYetMailed
  <2>11. OnePass'
    BY <1>21, <2>1, <2>3, <2>4
    DEF Discard, workVars, workUnchanged, recipientUnchanged, sendVars, RelayInv,
        TypeOK, OnePass, LateMail, NotYetMailed
  <2>12. GoneIsStored'
    BY <1>21, <2>1, <2>3, <2>4
    DEF Discard, workVars, workUnchanged, recipientUnchanged, sendVars, RelayInv,
        TypeOK, GoneIsStored, LateMail, NotYetMailed
  <2> QED
    BY <2>5, <2>6, <2>7, <2>8, <2>9, <2>10, <2>11, <2>12
    DEF RelayInv
<1>22. ASSUME GetPart PROVE RelayInv'
  <2>1. OnePass'
    BY <1>22
    DEF GetPart, LeaveEntry, serverVars, passVars, doneVars, workUnchanged,
        recipientUnchanged, sendVars, RelayInv, TypeOK, OnePass
  <2>2. /\ LateBlobs' /\ LateMail' /\ LateAcks' /\ Announced' /\ SentIsMailed'
        /\ CollectedIsGone' /\ GoneIsStored'
    BY <1>22
    DEF GetPart, LeaveEntry, serverVars, passVars, doneVars, workUnchanged,
        recipientUnchanged, sendVars, RelayInv, TypeOK, LateBlobs, LateMail,
        LateAcks, Announced, SentIsMailed, CollectedIsGone, GoneIsStored,
        NotYetMailed, GivenUp, AllParts
  <2> QED
    BY <2>1, <2>2
    DEF RelayInv
<1>23. ASSUME CloseSink PROVE RelayInv'
  <2>1. LateAcks'
    BY <1>23
    DEF CloseSink, StoreCopy, LeaveEntry, serverVars, passVars, workUnchanged,
        recipientUnchanged, sendVars, RelayInv, TypeOK, LateAcks, LateMail
  <2>2. CollectedIsGone'
    BY <1>23
    DEF CloseSink, StoreCopy, LeaveEntry, serverVars, passVars, workUnchanged,
        recipientUnchanged, sendVars, RelayInv, TypeOK, CollectedIsGone
  <2>3. OnePass'
    BY <1>23
    DEF CloseSink, StoreCopy, LeaveEntry, serverVars, passVars, workUnchanged,
        recipientUnchanged, sendVars, RelayInv, TypeOK, OnePass
  <2>4. GoneIsStored'
    BY <1>23
    DEF CloseSink, StoreCopy, LeaveEntry, serverVars, passVars, workUnchanged,
        recipientUnchanged, sendVars, RelayInv, TypeOK, GoneIsStored
  <2>5. LateBlobs' /\ LateMail' /\ Announced' /\ SentIsMailed'
    BY <1>23
    DEF CloseSink, StoreCopy, LeaveEntry, serverVars, passVars, workUnchanged,
        recipientUnchanged, sendVars, RelayInv, TypeOK, LateBlobs, LateMail,
        Announced, SentIsMailed, NotYetMailed, GivenUp, AllParts
  <2> QED
    BY <2>1, <2>2, <2>3, <2>4, <2>5
    DEF RelayInv
<1>24. ASSUME AckMail PROVE RelayInv'
  <2>1. current \in Files /\ mail[current] # "none" /\ copies[current] > 0
        /\ collected[current] = 0
    BY <1>24 DEF AckMail, RelayInv, OnePass, TypeOK
  <2>2. Answered(Call("ack", current)) \/ Refused(Call("ack", current)) \/ Lost(Call("ack", current))
    BY <1>24 DEF AckMail
  <2>3. /\ \A g \in Files \ {current} :
             mail'[g] = mail[g] /\ blob'[g] = blob[g] /\ parts'[g] = parts[g]
        /\ \/ mail[current] = "queued" /\ mail'[current] = "gone"
           \/ ~Answered(Call("ack", current)) /\ UNCHANGED <<mail, blob, parts>>
    BY <2>1, <2>2, AckEffect
  <2>4. \A g \in Files, q \in {"create", "mail", "delete", "ack"} :
          Call(q, g) \in late' => Call(q, g) \in late \/ (q = "ack" /\ g = current)
    BY <2>1, <2>2, LateCalls
  <2>5. LateBlobs'
    BY <1>24, <2>1, <2>3, <2>4
    DEF AckMail, AckFailed, LeaveEntry, passVars, workUnchanged,
        recipientUnchanged, sendVars, RelayInv, TypeOK, LateBlobs, GivenUp,
        LateMail, NotYetMailed
  <2>6. LateMail'
    BY <1>24, <2>1, <2>3, <2>4
    DEF AckMail, AckFailed, LeaveEntry, passVars, workUnchanged,
        recipientUnchanged, sendVars, RelayInv, TypeOK, LateMail, NotYetMailed,
        GivenUp, LateAcks, CollectedIsGone
  <2>7. LateAcks'
    BY <1>24, <2>1, <2>3, <2>4
    DEF AckMail, AckFailed, LeaveEntry, passVars, workUnchanged,
        recipientUnchanged, sendVars, RelayInv, TypeOK, LateAcks, LateMail,
        NotYetMailed
  <2>8. Announced'
    BY <1>24, <2>1, <2>3, <2>4
    DEF AckMail, AckFailed, LeaveEntry, passVars, workUnchanged,
        recipientUnchanged, sendVars, RelayInv, TypeOK, Announced, AllParts,
        LateMail, NotYetMailed
  <2>9. SentIsMailed'
    BY <1>24, <2>1, <2>3, <2>4
    DEF AckMail, AckFailed, LeaveEntry, passVars, workUnchanged,
        recipientUnchanged, sendVars, RelayInv, TypeOK, SentIsMailed, LateMail,
        NotYetMailed
  <2>10. CollectedIsGone'
    BY <1>24, <2>1, <2>3, <2>4
    DEF AckMail, AckFailed, LeaveEntry, passVars, workUnchanged,
        recipientUnchanged, sendVars, RelayInv, TypeOK, CollectedIsGone, LateMail,
        NotYetMailed
  <2>11. OnePass'
    BY <1>24, <2>1, <2>3, <2>4
    DEF AckMail, AckFailed, LeaveEntry, passVars, workUnchanged,
        recipientUnchanged, sendVars, RelayInv, TypeOK, OnePass, LateMail,
        NotYetMailed
  <2>12. GoneIsStored'
    BY <1>24, <2>1, <2>3, <2>4
    DEF AckMail, AckFailed, LeaveEntry, passVars, workUnchanged,
        recipientUnchanged, sendVars, RelayInv, TypeOK, GoneIsStored, LateMail,
        NotYetMailed
  <2> QED
    BY <2>5, <2>6, <2>7, <2>8, <2>9, <2>10, <2>11, <2>12
    DEF RelayInv
<1>25. ASSUME UNCHANGED vars PROVE RelayInv'
  <2>1. /\ LateBlobs' /\ LateMail' /\ LateAcks' /\ Announced' /\ SentIsMailed'
        /\ CollectedIsGone' /\ OnePass' /\ GoneIsStored'
    BY <1>25
    DEF vars, RelayInv, TypeOK, LateBlobs, LateMail, LateAcks, Announced,
        SentIsMailed, CollectedIsGone, OnePass, GoneIsStored, NotYetMailed,
        GivenUp, AllParts
  <2> QED
    BY <2>1
    DEF RelayInv
<1> QED
  BY <1>1, <1>2, <1>3, <1>4, <1>5, <1>6, <1>7, <1>8, <1>9, <1>10, <1>11, <1>12,
     <1>13, <1>14, <1>15, <1>16, <1>17, <1>18, <1>19, <1>20, <1>21, <1>22, <1>23,
     <1>24, <1>25
  DEF Next, SenderStep, RecipientStep

\* The invariant holds throughout.
THEOREM RelayInvariant == Spec => [](TypeOK /\ RelayInv)
<1>1. Init => TypeOK /\ RelayInv
  BY TypeInit, InvInit
<1>2. TypeOK /\ RelayInv /\ [Next]_vars => (TypeOK /\ RelayInv)'
  BY TypeNext, InvNext
<1> QED
  BY <1>1, <1>2, PTL DEF Spec

-----------------------------------------------------------------------------
(* What follows from it. *)

\* The mailbox never forgets a file that nobody has.
THEOREM GoneCorrect == Spec => []GoneIsStored
<1>1. RelayInv => GoneIsStored
  BY DEF RelayInv
<1> QED
  BY <1>1, RelayInvariant, PTL

\* What the sender was told is queued is kept whole until it expires.
THEOREM SentCorrect == Spec => []SentIsKept
<1>1. RelayInv => SentIsKept
  BY DEF RelayInv, SentIsMailed, Announced, SentIsKept
<1> QED
  BY <1>1, RelayInvariant, PTL

\* A file is reported collected once at most, and only when it is stored.
THEOREM CollectedCorrect == Spec => []CollectedOnce
<1>1. TypeOK /\ RelayInv => CollectedOnce
  BY DEF TypeOK, RelayInv, CollectedIsGone, CollectedOnce
<1> QED
  BY <1>1, RelayInvariant, PTL

-----------------------------------------------------------------------------
(* The refinement. *)

Ends == {"sent", "failed", "stopped"}
Told == [f \in Files |-> IF phase[f] \in Ends THEN phase[f] ELSE "pending"]
Reported == {f \in Files : collected[f] > 0}

\* A step that changes no end of an upload, no copies and no reports is a
\* stutter of the abstract specification.
LEMMA Stutter ==
  ASSUME \A f \in Files : phase'[f] = phase[f] \/ {phase[f], phase'[f]} \cap Ends = {},
         UNCHANGED <<copies, collected>>
  PROVE  UNCHANGED <<Told, copies, Reported>>
BY DEF Told, Reported

\* A step that moves one upload on is told, or goes unnoticed.
LEMMA TellOrStutter ==
  ASSUME TypeOK, NEW f \in Files, phase[f] \notin Ends,
         NEW x, phase' = [phase EXCEPT ![f] = x],
         UNCHANGED <<copies, collected>>
  PROVE  D!Tell(f) \/ UNCHANGED <<Told, copies, Reported>>
<1>1. CASE x \in Ends
  BY <1>1 DEF Ends, Told, Reported, TypeOK, D!Tell
<1>2. CASE x \notin Ends
  BY <1>2, Stutter DEF Ends, TypeOK
<1> QED
  BY <1>1, <1>2

\* Every step is a step of the abstract specification, or a stutter.
LEMMA StepRefines ==
  TypeOK /\ RelayInv /\ [Next]_vars => [D!DeliveryNext]_<<Told, copies, Reported>>
<1> SUFFICES ASSUME TypeOK, RelayInv, [Next]_vars
             PROVE  D!DeliveryNext \/ UNCHANGED <<Told, copies, Reported>>
  OBVIOUS
<1>1. ASSUME NEW f \in Files, SenderStep(f) \/ SourceFails(f) \/ SenderStops(f)
      PROVE  D!DeliveryNext \/ UNCHANGED <<Told, copies, Reported>>
  <2>1. /\ phase[f] \notin Ends
        /\ UNCHANGED <<copies, collected>>
        /\ \E x : phase' = [phase EXCEPT ![f] = x]
    BY <1>1 DEF SenderStep, SourceFails, SenderStops, Active, CreateBlob, SendPart,
                CompleteBlob, SendMail, SendOnce, DeleteBlob, GiveUp, PartRefused,
                senderUnchanged, doneVars, Ends, TypeOK
  <2>2. PICK x : phase' = [phase EXCEPT ![f] = x]
    BY <2>1
  <2> QED
    BY <2>1, <2>2, TellOrStutter DEF D!DeliveryNext
<1>2. CASE CloseSink
  <2>1. PICK f \in Files : f = current /\ collected[f] = 0
    BY <1>2 DEF CloseSink, RelayInv, OnePass, TypeOK
  <2>2. UNCHANGED <<phase, collected>>
    BY <1>2 DEF CloseSink, workUnchanged, recipientUnchanged, sendVars
  <2>3. CASE copies' = [copies EXCEPT ![f] = @ + 1]
    <3>1. UNCHANGED <<Told, Reported>> /\ f \notin Reported
      BY <2>1, <2>2 DEF Told, Reported
    <3> QED
      BY <2>3, <3>1 DEF D!DeliveryNext, D!Store, Told, Reported, Ends
  <2>4. CASE UNCHANGED copies
    BY <2>2, <2>4 DEF Told, Reported
  <2> QED
    BY <1>2, <2>1, <2>3, <2>4 DEF CloseSink, StoreCopy
<1>3. CASE AckMail
  <2>1. PICK f \in Files : f = current /\ collected[f] = 0 /\ copies[f] > 0
    BY <1>3 DEF AckMail, RelayInv, OnePass, TypeOK
  <2>2. UNCHANGED <<phase, copies>>
    BY <1>3 DEF AckMail, workUnchanged, recipientUnchanged, sendVars
  <2>3. CASE collected' = [collected EXCEPT ![f] = @ + 1]
    <3>1. UNCHANGED <<Told, copies>> /\ f \notin Reported /\ Reported' = Reported \cup {f}
      BY <2>1, <2>2, <2>3 DEF Told, Reported, TypeOK
    <3> QED
      BY <2>1, <3>1 DEF D!DeliveryNext, D!ReportCollected, Told, Reported, Ends
  <2>4. CASE UNCHANGED collected
    BY <2>2, <2>4 DEF Told, Reported
  <2> QED
    BY <1>3, <2>1, <2>3, <2>4 DEF AckMail, AckFailed
<1>4. ASSUME NEW f \in Files, Expire(f) \/ Sweep(f) \/ BeginEntry(f) \/ Discard(f)
      PROVE  UNCHANGED <<Told, copies, Reported>>
  BY <1>4, Stutter DEF Expire, Sweep, BeginEntry, Discard, workUnchanged,
     recipientUnchanged, sendVars, doneVars
<1>5. ASSUME NEW r \in late, LateArrival(r)
      PROVE  UNCHANGED <<Told, copies, Reported>>
  BY <1>5, Stutter DEF LateArrival, sendVars, doneVars
<1>6. CASE HostCollects \/ HearNotice \/ SocketDrops \/ SocketReady \/ Unpair \/ Crash
           \/ Start \/ ListMail \/ PassEnds \/ GetPart
  BY <1>6, Stutter
  DEF HostCollects, HearNotice, SocketDrops, SocketReady, Unpair, Crash, Start,
      ListMail, PassEnds, GetPart, workUnchanged, recipientUnchanged, sendVars,
      doneVars
<1>7. CASE UNCHANGED vars
  BY <1>7, Stutter DEF vars
<1> QED
  BY <1>1, <1>2, <1>3, <1>4, <1>5, <1>6, <1>7 DEF Next, RecipientStep, SenderStep

\* The relay path, with every request it may lose, implements RelayDelivery.
THEOREM Refinement == Spec => ImplementsDelivery
<1>1. Init => D!DeliveryInit
  BY DEF Init, D!DeliveryInit
<1>2. TypeOK /\ RelayInv /\ [Next]_vars => [D!DeliveryNext]_(D!deliveryVars)
  BY StepRefines DEF D!deliveryVars, Told, Reported, Ends
<1> QED
  BY <1>1, <1>2, RelayInvariant, PTL DEF Spec, ImplementsDelivery, D!Delivery
==============================================================================
