------------------------------ MODULE BlobStore ------------------------------
(* How a server really stores an upload: the part and completion requests of  *)
(* one sender (relay.js, core.js, worker/index.js) at the disk store, which   *)
(* reads, awaits and rewrites meta.json (store.js), and at the blob object,   *)
(* whose counter and bytes live in two places (worker/blob.js, store.js).     *)
(* RelayMailbox takes a store whose operations are atomic, as the memory      *)
(* store's are; here they are not, and a request its sender has given up may  *)
(* still be under way.                                                        *)
EXTENDS Integers, FiniteSets

CONSTANTS
  NParts,    \* parts of the upload
  Attempts,  \* PART_ATTEMPTS
  MaxFaults, \* requests given up, servers that end, expiry
  None

ASSUME BlobAssumption ==
  /\ NParts \in Nat \ {0} /\ Attempts \in Nat \ {0} /\ MaxFaults \in Nat
  /\ None \notin [received : Nat, complete : BOOLEAN]

Parts == 1..NParts
Calls == Parts \X (1..Attempts)

VARIABLES
  kind,      \* "disk" or "object"
  meta,      \* the blob's record, or None
  parts,     \* parts whose bytes are stored
  counted,   \* the object's marks of parts it has counted
  removing,  \* who removes the blob: "request" or "sweep", or "no" (the object has
             \* then deleted the bytes and not yet its record)
  dir,       \* the disk store's directory of the blob is there
  listed,    \* files of it that the removal has found and not yet unlinked
  torn,      \* a removal failed, or the server ended during it
  expired,   \* expiresAt has passed
  stage,     \* stage[c]: how far the server is with request c
  copy,      \* copy[c]: the record that request read
  closing, closingCopy,  \* the same of the request to complete the blob
  status, part, attempt, \* the sender
  wronged,   \* a blob with all its parts was refused as incomplete
  ended,     \* an error nobody caught ended the server
  faults

dirVars == <<removing, dir, listed, torn>>
storeVars == <<meta, parts, counted, dirVars>>
callVars == <<stage, copy>>
closeVars == <<closing, closingCopy>>
senderVars == <<status, part, attempt>>
vars == <<kind, storeVars, expired, callVars, closeVars, senderVars, wronged, ended, faults>>

Fresh == [received |-> 0, complete |-> FALSE]

\* meta.json, among the files of the directory; a part's file is its number.
RecordFile == 0
Files == parts \union IF meta = None THEN {} ELSE {RecordFile}

Init ==
  /\ kind \in {"disk", "object"}
  /\ meta = Fresh /\ parts = {} /\ counted = {}
  /\ removing = "no" /\ dir = TRUE /\ listed = {} /\ torn = FALSE
  /\ expired = FALSE
  /\ stage = [c \in Calls |-> "none"] /\ copy = [c \in Calls |-> Fresh]
  /\ closing = "none" /\ closingCopy = Fresh
  /\ status = "uploading" /\ part = 1 /\ attempt = 1
  /\ wronged = FALSE /\ ended = FALSE /\ faults = 0

-----------------------------------------------------------------------------
(* A part at the server. *)

At(c, from, to) == stage[c] = from /\ stage' = [stage EXCEPT ![c] = to]

\* The route's own look at the record.
Takes == meta # None /\ ~expired /\ ~meta.complete

CheckPart(c) ==
  /\ \/ Takes /\ At(c, "sent", "checked")
     \/ ~Takes /\ At(c, "sent", "refused")
  /\ UNCHANGED <<kind, storeVars, expired, copy, closeVars, senderVars, wronged, ended, faults>>

\* Slip: the part is looked for once it has been written.
StatLate(c) == TRUE

IsThere(c) == c[1] \in parts

\* The disk store's putPart(): the record, then whether the part is new.
ReadMeta(c) ==
  /\ kind = "disk"
  /\ IF meta = None THEN At(c, "checked", "done") /\ UNCHANGED copy
     ELSE At(c, "checked", "read") /\ copy' = [copy EXCEPT ![c] = meta]
  /\ UNCHANGED <<kind, storeVars, expired, closeVars, senderVars, wronged, ended, faults>>

StatPart(c) ==
  /\ \/ ~IsThere(c) /\ At(c, "read", "new")
     \/ IsThere(c) /\ At(c, "read", "again")
  /\ UNCHANGED <<kind, storeVars, expired, copy, closeVars, senderVars, wronged, ended, faults>>

\* What runs on the server ends with it, a removal half way too: an error in the
\* part route or in the sweep is caught by nobody.
Ended ==
  /\ removing' = IF kind = "disk" THEN "no" ELSE removing
  /\ torn' = (torn \/ (kind = "disk" /\ removing # "no"))
  /\ listed' = {} /\ UNCHANGED dir
  /\ stage' = [c \in Calls |-> IF stage[c] \in {"none", "done", "refused"} THEN stage[c] ELSE "dead"]
  /\ closing' = IF closing \in {"none", "done", "refused"} THEN closing ELSE "dead"

Wrote(c) == At(c, "new", "written") \/ At(c, "again", "done")

\* Slip: a write makes the directory it needs.
WriteAnyway(c) ==
  /\ parts' = parts \union {c[1]}
  /\ Wrote(c)
  /\ UNCHANGED <<ended, closing, dirVars>>

WriteFile(c) ==
  \/ /\ dir
     /\ parts' = parts \union {c[1]}
     /\ Wrote(c)
     /\ UNCHANGED <<ended, closing, dirVars>>
  \/ /\ ~dir /\ stage[c] \in {"new", "again"}
     /\ Ended /\ ended' = TRUE
     /\ UNCHANGED parts

WritePart(c) ==
  /\ WriteFile(c)
  /\ UNCHANGED <<kind, meta, counted, expired, copy, closingCopy, senderVars, wronged, faults>>

\* Slip: the record is read again before it is written.
Reread(c) == IF meta = None THEN copy[c] ELSE meta

\* The record a count is added to: what the disk store read, or the current one.
Counted(c) == IF kind = "disk" THEN copy[c] ELSE meta

\* writeJson() is a file of its own, renamed: a removal may unlink that first.
LosesTemp == ~dir \/ removing # "no"

WriteMeta(c) ==
  /\ kind = "disk" /\ stage[c] = "written"
  /\ \/ /\ dir
        /\ meta' = [Counted(c) EXCEPT !.received = @ + 1]
        /\ At(c, "written", "done")
        /\ UNCHANGED <<closing, ended, dirVars>>
     \/ LosesTemp /\ Ended /\ ended' = TRUE /\ UNCHANGED meta
  /\ UNCHANGED <<kind, parts, counted, expired, copy, closingCopy, senderVars, wronged, faults>>

\* The worker's handlePart(): the body is read and its bytes put in KV.
PutBytes(c) ==
  /\ kind = "object" /\ At(c, "checked", "written")
  /\ parts' = parts \union {c[1]}
  /\ UNCHANGED <<kind, meta, counted, dirVars, expired, copy, closeVars, senderVars, wronged, ended, faults>>

Counts(c) == c[1] \notin counted

\* The object's received().
Received(c) ==
  /\ kind = "object" /\ At(c, "written", "done")
  /\ IF meta # None /\ Counts(c)
     THEN counted' = counted \union {c[1]} /\ meta' = [Counted(c) EXCEPT !.received = @ + 1]
     ELSE UNCHANGED <<counted, meta>>
  /\ UNCHANGED <<kind, parts, dirVars, expired, copy, closeVars, senderVars, wronged, ended, faults>>

-----------------------------------------------------------------------------
(* Completion and removal at the server. *)

CheckComplete ==
  /\ closing = "sent"
  /\ closing' = IF meta # None /\ meta.received >= NParts THEN "checked" ELSE "refused"
  /\ wronged' = (wronged \/ (meta # None /\ meta.received < NParts /\ parts = Parts))
  /\ UNCHANGED <<kind, storeVars, expired, callVars, closingCopy, senderVars, ended, faults>>

\* The disk store reads the record again and awaits; the object does not.
ReadComplete ==
  /\ closing = "checked" /\ kind = "disk" /\ meta # None
  /\ closing' = "read"
  /\ closingCopy' = meta
  /\ UNCHANGED <<kind, storeVars, expired, callVars, senderVars, wronged, ended, faults>>

WriteComplete ==
  /\ closing = IF kind = "disk" THEN "read" ELSE "checked"
  /\ \/ /\ IF kind = "disk" THEN dir ELSE meta # None
        /\ meta' = [(IF kind = "disk" THEN closingCopy ELSE meta) EXCEPT !.complete = TRUE]
        /\ closing' = "done"
     \/ kind = "disk" /\ LosesTemp /\ closing' = "dead" /\ UNCHANGED meta
     \/ kind = "object" /\ meta = None /\ closing' = "done" /\ UNCHANGED meta
  /\ UNCHANGED <<kind, parts, counted, dirVars, expired, callVars, closingCopy, senderVars, wronged, ended, faults>>

\* No record is left to complete: the answer is 200 all the same.
CompleteNothing ==
  /\ closing = "checked" /\ kind = "disk" /\ meta = None
  /\ closing' = "done"
  /\ UNCHANGED <<kind, storeVars, expired, callVars, closingCopy, senderVars, wronged, ended, faults>>

\* remove() of a blob that has a record: the disk store's rm lists the directory,
\* the object's destroy() deletes the bytes.  A removal that finds another under
\* way lists what is left once more.
Removed(by) ==
  \/ meta = None /\ UNCHANGED storeVars
  \/ /\ meta # None
     /\ removing' = IF removing = "no" THEN by ELSE removing
     /\ \/ kind = "disk" /\ listed' = Files /\ UNCHANGED parts
        \/ kind = "object" /\ parts' = {} /\ UNCHANGED listed
     /\ UNCHANGED <<meta, counted, dir, torn>>

\* One file of those it listed; one that is gone already is no error.
Unlink == \E f \in listed :
  /\ listed' = listed \ {f}
  /\ parts' = parts \ {f}
  /\ meta' = IF f = RecordFile THEN None ELSE meta
  /\ UNCHANGED <<kind, counted, removing, dir, torn, expired, callVars, closeVars, senderVars,
                 wronged, ended, faults>>

\* Something was written since the listing, or a record is just being written.
Occupied ==
  Files # {} \/ closing = "read" \/ \E c \in Calls : stage[c] = "written"

\* The directory itself, which is not removed when it is not empty: remove()
\* answers as if it were, the sweep ends the server.
Rmdir ==
  /\ kind = "disk" /\ removing # "no" /\ listed = {}
  /\ \/ /\ Files = {}
        /\ dir' = FALSE /\ removing' = "no"
        /\ UNCHANGED <<torn, listed, stage, closing, ended>>
     \/ /\ Occupied /\ removing = "request"
        /\ torn' = TRUE /\ removing' = "no"
        /\ UNCHANGED <<dir, listed, stage, closing, ended>>
     \/ Occupied /\ removing = "sweep" /\ Ended /\ ended' = TRUE
  /\ UNCHANGED <<kind, meta, parts, counted, expired, copy, closingCopy, senderVars, wronged, faults>>

\* The second half at the object: deleteAll().
Destroyed ==
  /\ kind = "object" /\ removing # "no"
  /\ removing' = "no" /\ meta' = None /\ counted' = {}
  /\ UNCHANGED <<kind, parts, dir, listed, torn, expired, callVars, closeVars, senderVars,
                 wronged, ended, faults>>

Expire ==
  /\ faults < MaxFaults /\ ~expired
  /\ faults' = faults + 1
  /\ expired' = TRUE
  /\ UNCHANGED <<kind, storeVars, callVars, closeVars, senderVars, wronged, ended>>

\* sweep(), or the object's alarm.
Sweep ==
  /\ expired /\ meta # None /\ removing = "no"
  /\ Removed("sweep")
  /\ UNCHANGED <<kind, expired, callVars, closeVars, senderVars, wronged, ended, faults>>

\* KV drops bytes nobody deleted.
KvExpire ==
  /\ kind = "object" /\ meta = None /\ parts # {}
  /\ parts' = {}
  /\ UNCHANGED <<kind, meta, counted, dirVars, expired, callVars, closeVars, senderVars, wronged, ended, faults>>

\* The server ends, and is started again with what it has stored.
Crash ==
  /\ faults < MaxFaults
  /\ faults' = faults + 1
  /\ Ended
  /\ UNCHANGED <<kind, meta, parts, counted, expired, copy, closingCopy, senderVars, wronged, ended>>

-----------------------------------------------------------------------------
(* The sender: one part at a time, each with retries, then the completion. *)

Current == <<part, attempt>>

PutPart ==
  /\ status = "uploading" /\ part <= NParts
  /\ At(Current, "none", "sent")
  /\ status' = "waiting"
  /\ UNCHANGED <<kind, storeVars, expired, copy, closeVars, part, attempt, wronged, ended, faults>>

PartDone ==
  /\ status = "waiting" /\ stage[Current] = "done"
  /\ part' = part + 1 /\ attempt' = 1 /\ status' = "uploading"
  /\ UNCHANGED <<kind, storeVars, expired, callVars, closeVars, wronged, ended, faults>>

\* Slip: one attempt more than there are.
OneMore == attempt <= Attempts

MayRetry == attempt < Attempts

\* withRetries(): a refusal is final, a lost answer is not until the last.
AskAgain ==
  IF MayRetry
  THEN attempt' = attempt + 1 /\ status' = "uploading"
  ELSE status' = "failing" /\ UNCHANGED attempt

PartFails ==
  /\ status = "waiting"
  /\ \/ stage[Current] = "refused" /\ status' = "failing" /\ UNCHANGED <<attempt, faults>>
     \/ stage[Current] = "dead" /\ AskAgain /\ UNCHANGED faults
     \/ /\ stage[Current] \notin {"refused", "dead", "done"} /\ faults < MaxFaults
        /\ faults' = faults + 1
        /\ AskAgain
  /\ UNCHANGED <<kind, storeVars, expired, callVars, closeVars, part, wronged, ended>>

Complete ==
  /\ status = "uploading" /\ part > NParts
  /\ status' = "completing" /\ closing' = "sent"
  /\ UNCHANGED <<kind, storeVars, expired, callVars, closingCopy, part, attempt, wronged, ended, faults>>

Completed ==
  /\ status = "completing"
  /\ \/ closing = "done" /\ status' = "mailed" /\ UNCHANGED faults
     \/ closing \in {"refused", "dead"} /\ status' = "failing" /\ UNCHANGED faults
     \/ /\ closing \in {"sent", "checked", "read"} /\ faults < MaxFaults
        /\ faults' = faults + 1
        /\ status' = "failing"
  /\ UNCHANGED <<kind, storeVars, expired, callVars, closeVars, part, attempt, wronged, ended>>

\* The sender deletes what failed, the recipient what it has collected.
Delete ==
  /\ status \in {"failing", "mailed"}
  /\ status' = IF status = "mailed" THEN "collected" ELSE "failed"
  /\ Removed("request")
  /\ UNCHANGED <<kind, expired, callVars, closeVars, part, attempt, wronged, ended, faults>>

-----------------------------------------------------------------------------

Serve(c) ==
  CheckPart(c) \/ ReadMeta(c) \/ StatPart(c) \/ WritePart(c) \/ WriteMeta(c) \/ PutBytes(c) \/ Received(c)

Close == CheckComplete \/ ReadComplete \/ WriteComplete \/ CompleteNothing

Clean == Unlink \/ Rmdir \/ Destroyed \/ Sweep \/ KvExpire

Send == PutPart \/ PartDone \/ PartFails \/ Complete \/ Completed \/ Delete

Next == Close \/ Clean \/ Send \/ Expire \/ Crash \/ \E c \in Calls : Serve(c)

Spec == Init /\ [][Next]_vars

\* Requests are worked on, sweeps and alarms come, KV's own expiry too.
FairSpec ==
  Spec /\ WF_vars(Close) /\ WF_vars(Clean) /\ WF_vars(Send) /\ \A c \in Calls : WF_vars(Serve(c))

-----------------------------------------------------------------------------
(* Properties. *)

Records == [received : Nat, complete : BOOLEAN]

Steps == {"none", "sent", "checked", "read", "new", "again", "written", "done", "refused", "dead"}

TypeOK ==
  /\ kind \in {"disk", "object"}
  /\ meta \in Records \union {None}
  /\ parts \subseteq Parts /\ counted \subseteq Parts
  /\ {dir, torn, expired, wronged, ended} \subseteq BOOLEAN
  /\ removing \in {"no", "request", "sweep"} /\ listed \subseteq Parts \union {RecordFile}
  /\ stage \in [Calls -> Steps] /\ copy \in [Calls -> Records]
  /\ closing \in Steps /\ closingCopy \in Records
  /\ status \in {"uploading", "waiting", "completing", "mailed", "failing", "failed", "collected"}
  /\ part \in 1..(NParts + 1) /\ attempt \in 1..Attempts
  /\ faults \in 0..MaxFaults

\* A record that no removal has touched.
Stands == meta # None /\ removing = "no" /\ ~torn

\* The record never counts a part whose bytes are not stored, nor is it complete
\* without one, although retries overlap requests that were given up and rewrite
\* one record (store.js putPart, worker/blob.js received), until it is removed; on
\* disk a removal that failed may leave such a record.
CountIsBacked ==
  Stands =>
    /\ meta.received <= Cardinality(parts)
    /\ meta.complete => parts = Parts

\* A blob that has all its parts is never refused as incomplete, no request ends
\* the server (core.js's part route and complete route) and no removal fails half
\* way, except on disk when a request was given up, the server ended or the blob
\* expired.
SoundWithoutFaults ==
  kind = "object" \/ faults = 0 => ~wronged /\ ~ended /\ ~torn

\* A blob that is gone leaves no bytes for good, whatever was being written while
\* it was removed, unless its removal on disk failed or was cut short (store.js
\* putPart, remove, sweep; worker/index.js handlePart).
OrphansGo == (meta = None) ~> ((meta = None /\ parts = {}) \/ torn)

\* Seven days after a blob was created its bytes are gone, as README.md says.
GoneInAnyCase == expired ~> (parts = {})
=============================================================================
