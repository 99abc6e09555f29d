--------------------------- MODULE BlobStore_proofs ---------------------------
(***************************************************************************)
(* Theorems about BlobStore: the record of a blob never counts bytes that  *)
(* are not stored, for any number of parts, attempts and faults, at the    *)
(* disk store, whose part requests rewrite one file from what they read of *)
(* it, and at the object, whose marks and bytes live apart.                *)
(***************************************************************************)
EXTENDS BlobStore, FiniteSetTheorems, TLAPS

-----------------------------------------------------------------------------
(* The inductive invariant. *)

\* The sender waits for a part only.
Asking ==
  /\ status = "waiting" => part <= NParts
  /\ closing # "none" => part = NParts + 1

\* Only the disk store reads and awaits, and only it has a directory, which is
\* there until a removal has succeeded and holds the record until one began.
Kinds ==
  /\ kind = "disk" =>
       /\ counted = {}
       /\ ~dir => meta = None /\ parts = {} /\ removing = "no"
       /\ dir /\ removing = "no" /\ ~torn => meta # None
       /\ removing = "no" => listed = {}
  /\ kind = "object" =>
       /\ ~torn /\ listed = {}
       /\ closing # "read" /\ \A c \in Calls : stage[c] \notin {"read", "new", "again"}

\* What the request c holds is no more than what is stored, its own part aside
\* once it has been found new.
CallBacked(c) ==
  /\ stage[c] = "read" => copy[c].received <= Cardinality(parts)
  /\ stage[c] = "new" => copy[c].received <= Cardinality(parts \ {c[1]})
  /\ stage[c] = "written" =>
       /\ c[1] \in parts
       /\ kind = "disk" => copy[c].received <= Cardinality(parts \ {c[1]})
  /\ stage[c] \in {"read", "new", "written"} /\ kind = "disk" =>
       (copy[c].complete => parts = Parts)

Backed ==
  Stands =>
    /\ meta.received <= Cardinality(parts)
    /\ meta.complete => parts = Parts
    /\ kind = "object" => counted \subseteq parts
    /\ closing \in {"checked", "read"} => parts = Parts
    /\ closing = "read" => closingCopy.received <= Cardinality(parts)
    /\ \A c \in Calls : CallBacked(c)

\* The object has counted each part it has answered for.
Counting ==
  kind = "object" /\ meta # None =>
    /\ meta.received = Cardinality(counted)
    /\ \A c \in Calls : stage[c] = "done" => c[1] \in counted
    /\ 1..(part - 1) \subseteq counted

\* On disk with nothing gone wrong, one request at a time is under way.
OneAtATime ==
  /\ attempt = 1
  /\ \A c \in Calls :
       /\ c[2] = 1 /\ c[1] < part => stage[c] = "done"
       /\ c[2] # 1 \/ c[1] > part \/ (c[1] = part /\ status # "waiting") => stage[c] = "none"
       /\ c = Current /\ status = "waiting" =>
            stage[c] \notin {"none", "refused", "dead", "again"}

\* What the one request under way has done so far.
Progress ==
  LET far == IF status = "waiting" THEN stage[Current] ELSE "none"
  IN /\ parts = 1..(part - 1) \cup (IF far \in {"written", "done"} THEN {part} ELSE {})
     /\ meta.received = IF far = "done" THEN part ELSE part - 1
     /\ ~meta.complete
     /\ far \in {"read", "new", "written"} =>
          copy[Current].received = part - 1 /\ ~copy[Current].complete

\* A removal has listed all there is, since nobody writes any more.
Removal ==
  IF status = "collected" THEN removing # "no" => Files \subseteq listed ELSE removing = "no" /\ dir

Smooth ==
  kind = "disk" /\ faults = 0 =>
    /\ ~expired /\ ~wronged /\ ~ended /\ ~torn
    /\ OneAtATime /\ Removal
    /\ status \in {"uploading", "waiting"} => meta # None /\ closing = "none" /\ Progress
    /\ status \in {"completing", "mailed", "collected"} => part = NParts + 1
    /\ status = "completing" =>
         /\ closing \in {"sent", "checked", "read", "done"} 
         /\ meta # None /\ meta.received >= NParts
         /\ closing = "read" => closingCopy.received >= NParts
    /\ status \in {"mailed", "collected"} => closing = "done"
    /\ status \notin {"failing", "failed"}

ObjectSound == kind = "object" => ~wronged /\ ~ended /\ ~torn

StoreSound == TypeOK /\ Asking /\ Kinds /\ Backed /\ Counting /\ ObjectSound /\ Smooth

-----------------------------------------------------------------------------
(* Counting parts. *)

LEMMA PartsFinite ==
  /\ IsFiniteSet(Parts) /\ Cardinality(Parts) = NParts
  /\ \A S \in SUBSET Parts :
       /\ IsFiniteSet(S) /\ Cardinality(S) \in Nat
       /\ Cardinality(S) >= NParts => S = Parts
<1>1. IsFiniteSet(Parts) /\ Cardinality(Parts) = NParts
  BY FS_Interval, BlobAssumption DEF Parts
<1>2. ASSUME NEW S \in SUBSET Parts
      PROVE  /\ IsFiniteSet(S) /\ Cardinality(S) \in Nat
             /\ Cardinality(S) >= NParts => S = Parts
  <2>1. /\ IsFiniteSet(S) /\ Cardinality(S) <= NParts
        /\ Cardinality(S) = NParts => S = Parts
    BY <1>1, FS_Subset
  <2>2. QED
    BY <2>1, FS_CardinalityType, BlobAssumption
<1>3. QED
  BY <1>1, <1>2

LEMMA PartsAdded ==
  ASSUME NEW S \in SUBSET Parts, NEW x \in Parts
  PROVE  /\ x \notin S => Cardinality(S \cup {x}) = Cardinality(S) + 1
         /\ x \in S => Cardinality(S \ {x}) = Cardinality(S) - 1
         /\ x \notin S => S \ {x} = S
         /\ \A T \in SUBSET Parts : S \subseteq T => Cardinality(S) <= Cardinality(T)
BY PartsFinite, FS_AddElement, FS_RemoveElement, FS_Subset

-----------------------------------------------------------------------------
(* Types. *)

LEMMA Ranges ==
  ASSUME TypeOK
  PROVE  /\ \A c \in Calls : c[1] \in Parts /\ c[2] \in 1..Attempts
         /\ \A c \in Calls : copy[c] \in Records /\ copy[c].received \in Nat
         /\ meta # None => meta \in Records /\ meta.received \in Nat
         /\ closingCopy.received \in Nat
         /\ part <= NParts => Current \in Calls
         /\ part \in Nat /\ attempt \in Nat /\ NParts \in Nat /\ faults \in Nat
BY BlobAssumption DEF TypeOK, Calls, Parts, Records, Current

\* The record after a count.
LEMMA Recorded ==
  ASSUME NEW r \in Records
  PROVE  /\ [r EXCEPT !.received = @ + 1] \in Records
         /\ [r EXCEPT !.received = @ + 1].received = r.received + 1
         /\ [r EXCEPT !.received = @ + 1].complete = r.complete
         /\ [r EXCEPT !.complete = TRUE] \in Records
         /\ [r EXCEPT !.complete = TRUE].received = r.received
         /\ [r EXCEPT !.complete = TRUE].complete = TRUE
         /\ r # None
<1>1. [r EXCEPT !.received = @ + 1] \in Records
  BY DEF Records
<1>2. [r EXCEPT !.received = @ + 1].received = r.received + 1
  BY DEF Records
<1>3. [r EXCEPT !.received = @ + 1].complete = r.complete
  BY DEF Records
<1>4. [r EXCEPT !.complete = TRUE] \in Records
  BY DEF Records
<1>5. [r EXCEPT !.complete = TRUE].received = r.received
  BY DEF Records
<1>6. [r EXCEPT !.complete = TRUE].complete = TRUE
  BY DEF Records
<1>7. r # None
  BY BlobAssumption DEF Records
<1>8. QED
  BY <1>1, <1>2, <1>3, <1>4, <1>5, <1>6, <1>7

LEMMA TypeInit == Init => TypeOK /\ Asking
<1> SUFFICES ASSUME Init PROVE TypeOK /\ Asking
  OBVIOUS
<1>1. Fresh \in Records
  BY DEF Fresh, Records
<1>2. 1 \in 1..(NParts + 1) /\ 1 \in 1..Attempts /\ 0 \in 0..MaxFaults /\ 1 <= NParts
  BY BlobAssumption
<1>3. {"none"} \subseteq Steps
  BY DEF Steps
<1>4. QED
  BY <1>1, <1>2, <1>3 DEF Init, TypeOK, Asking

LEMMA TypeServe ==
  ASSUME TypeOK, Asking, NEW c \in Calls, Serve(c)
  PROVE  TypeOK' /\ Asking'
<1> USE DEF TypeOK, Asking, storeVars, dirVars, callVars, closeVars, senderVars
<1>0. ASSUME NEW from \in Steps, NEW to \in Steps, At(c, from, to)
      PROVE  stage' \in [Calls -> Steps]
  BY <1>0 DEF At
<1>s. {"none", "sent", "checked", "read", "new", "again", "written", "done", "refused", "dead"} = Steps
  BY DEF Steps
<1>1. ASSUME Ended
      PROVE  /\ stage' \in [Calls -> Steps] /\ closing' \in Steps
             /\ closing' # "none" => closing # "none"
             /\ torn' \in BOOLEAN /\ removing' \in {"no", "request", "sweep"} /\ listed' = {} /\ dir' = dir
  BY <1>1, <1>s DEF Ended
<1>2. CASE CheckPart(c)
  BY <1>0, <1>2, <1>s DEF CheckPart
<1>3. CASE ReadMeta(c)
  BY <1>0, <1>3, <1>s DEF ReadMeta
<1>4. CASE StatPart(c)
  BY <1>0, <1>4, <1>s DEF StatPart
<1>5. CASE WritePart(c)
  <2>1. parts' \subseteq Parts
    BY <1>5, Ranges DEF WritePart, WriteFile
  <2>2. /\ stage' \in [Calls -> Steps] /\ closing' \in Steps
        /\ (closing' # "none" => closing # "none") /\ ended' \in BOOLEAN
        /\ torn' \in BOOLEAN /\ removing' \in {"no", "request", "sweep"} /\ dir' = dir
        /\ listed' \subseteq Parts \union {RecordFile}
    BY <1>0, <1>1, <1>5, <1>s DEF WritePart, WriteFile, Wrote
  <2>3. QED
    BY <1>5, <2>1, <2>2 DEF WritePart
<1>6. CASE WriteMeta(c)
  <2>1. meta' \in Records \cup {None}
    <3>1. kind = "disk" => Counted(c) \in Records
      BY Ranges DEF Counted
    <3>2. QED
      BY <1>6, <3>1, Recorded DEF WriteMeta
  <2>2. /\ stage' \in [Calls -> Steps] /\ closing' \in Steps
        /\ (closing' # "none" => closing # "none") /\ ended' \in BOOLEAN
        /\ torn' \in BOOLEAN /\ removing' \in {"no", "request", "sweep"} /\ dir' = dir
        /\ listed' \subseteq Parts \union {RecordFile}
    BY <1>0, <1>1, <1>6, <1>s DEF WriteMeta
  <2>3. QED
    BY <1>6, <2>1, <2>2 DEF WriteMeta
<1>7. CASE PutBytes(c)
  BY <1>0, <1>7, <1>s, Ranges DEF PutBytes
<1>8. CASE Received(c)
  <2>1. meta' \in Records \cup {None} /\ counted' \subseteq Parts
    BY <1>8, Recorded, Ranges DEF Received, Counted
  <2>2. stage' \in [Calls -> Steps]
    BY <1>0, <1>8, <1>s DEF Received
  <2>3. QED
    BY <1>8, <2>1, <2>2 DEF Received
<1>9. QED
  BY <1>2, <1>3, <1>4, <1>5, <1>6, <1>7, <1>8 DEF Serve

LEMMA TypeOther ==
  ASSUME TypeOK, Asking, Close \/ Clean \/ Send \/ Expire \/ Crash
  PROVE  TypeOK' /\ Asking'
<1> USE DEF TypeOK, Asking, storeVars, dirVars, callVars, closeVars, senderVars
<1>0. /\ \A i \in Parts : i + 1 \in 1..(NParts + 1) /\ i <= NParts
      /\ part <= NParts => part \in Parts
      /\ faults < MaxFaults => faults + 1 \in 0..MaxFaults
      /\ MayRetry => attempt + 1 \in 1..Attempts
      /\ 1 \in 1..Attempts
  BY BlobAssumption DEF Parts, MayRetry
<1>s. {"none", "sent", "checked", "read", "new", "again", "written", "done", "refused", "dead"} = Steps
  BY DEF Steps
<1>e. ASSUME Ended
      PROVE  /\ stage' \in [Calls -> Steps] /\ closing' \in Steps
             /\ closing' # "none" => closing # "none"
             /\ torn' \in BOOLEAN /\ removing' \in {"no", "request", "sweep"} /\ listed' = {} /\ dir' = dir
  BY <1>e, <1>s DEF Ended
<1>1. CASE Close
  <2>1. CASE CheckComplete \/ ReadComplete \/ CompleteNothing
    BY <1>s, <2>1 DEF CheckComplete, ReadComplete, CompleteNothing
  <2>2. CASE WriteComplete
    <3>1. meta' \in Records \cup {None}
      BY <2>2, Recorded, Ranges DEF WriteComplete
    <3>2. closing' \in Steps /\ closing # "none"
      BY <1>s, <2>2 DEF WriteComplete
    <3>3. QED
      BY <2>2, <3>1, <3>2 DEF WriteComplete
  <2>3. QED
    BY <1>1, <2>1, <2>2 DEF Close
<1>2. CASE Clean
  <2>1. Files \subseteq Parts \union {RecordFile} /\ {} \subseteq Parts \union {RecordFile}
    BY DEF Files
  <2>2. CASE Sweep
    BY <2>1, <2>2 DEF Sweep, Removed
  <2>3. CASE Rmdir
    <3>1. /\ stage' \in [Calls -> Steps] /\ closing' \in Steps /\ ended' \in BOOLEAN
          /\ (closing' # "none" => closing # "none") /\ dir' \in BOOLEAN
          /\ torn' \in BOOLEAN /\ removing' \in {"no", "request", "sweep"}
          /\ listed' \subseteq Parts \union {RecordFile}
      BY <1>e, <2>1, <2>3 DEF Rmdir
    <3>2. QED
      BY <2>3, <3>1 DEF Rmdir
  <2>4. QED
    BY <1>2, <2>2, <2>3 DEF Clean, Unlink, Destroyed, KvExpire
<1>3. CASE PutPart
  <2>1. stage' \in [Calls -> Steps]
    BY <1>3, <1>s DEF PutPart, At
  <2>2. QED
    BY <1>3, <2>1 DEF PutPart
<1>4. CASE PartDone
  <2>1. part' \in 1..(NParts + 1) /\ attempt' \in 1..Attempts
    BY <1>0, <1>4 DEF PartDone
  <2>2. closing = "none"
    BY <1>4, Ranges DEF PartDone
  <2>3. QED
    BY <1>4, <2>1, <2>2 DEF PartDone
<1>5. CASE PartFails
  <2>1. attempt' \in 1..Attempts /\ faults' \in 0..MaxFaults /\ status' \in {"uploading", "failing"}
    BY <1>0, <1>5 DEF PartFails, AskAgain
  <2>2. QED
    BY <1>5, <2>1 DEF PartFails
<1>6. CASE Complete
  BY <1>6, <1>s, Ranges DEF Complete
<1>7. CASE Completed
  BY <1>0, <1>7 DEF Completed
<1>8. CASE Delete
  <2>1. Files \subseteq Parts \union {RecordFile}
    BY DEF Files
  <2>2. QED
    BY <1>8, <2>1 DEF Delete, Removed
<1>9. CASE Expire
  BY <1>0, <1>9 DEF Expire
<1>10. CASE Crash
  BY <1>0, <1>10, <1>e DEF Crash
<1>11. QED
  BY <1>1, <1>2, <1>3, <1>4, <1>5, <1>6, <1>7, <1>8, <1>9, <1>10 DEF Send

LEMMA TypeNext ==
  ASSUME TypeOK, Asking, [Next]_vars
  PROVE  TypeOK' /\ Asking'
<1>1. CASE UNCHANGED vars
  BY <1>1 DEF vars, storeVars, dirVars, callVars, closeVars, senderVars, TypeOK, Asking
<1>2. QED
  BY <1>1, TypeServe, TypeOther DEF Next

\* Every variable keeps to its range.
THEOREM TypeCorrect == Spec => []TypeOK
<1>1. TypeOK /\ Asking /\ [Next]_vars => (TypeOK /\ Asking)'
  BY TypeNext
<1>2. QED
  BY <1>1, TypeInit, PTL DEF Spec

-----------------------------------------------------------------------------
(* The two stores. *)

\* What ends with the server leaves the directory as it was.
LEMMA KindsEnded ==
  ASSUME TypeOK, Kinds, Ended, UNCHANGED <<kind, meta, parts, counted>>
  PROVE  Kinds'
<1>1. /\ removing' = (IF kind = "disk" THEN "no" ELSE removing) /\ dir' = dir
      /\ torn' = (torn \/ (kind = "disk" /\ removing # "no")) /\ listed' = {}
      /\ torn \in BOOLEAN
  BY DEF Ended, TypeOK
<1>2. kind = "object" => closing' # "read" /\ \A c \in Calls : stage'[c] \notin {"read", "new", "again"}
  BY DEF Ended, Kinds
<1>3. kind = "object" => ~torn'
  BY <1>1 DEF Kinds
<1>4. CASE kind = "disk" /\ removing = "no"
  <2>1. removing' = "no" /\ (~torn' => ~torn)
    BY <1>1, <1>4
  <2>2. QED
    BY <1>1, <1>4, <2>1 DEF Kinds
<1>5. CASE kind = "disk" /\ removing # "no"
  <2>1. removing' = "no" /\ torn' /\ dir' = dir /\ dir /\ listed' = {}
    BY <1>1, <1>5 DEF Kinds
  <2>2. QED
    BY <1>5, <2>1 DEF Kinds
<1>6. QED
  BY <1>1, <1>2, <1>3, <1>4, <1>5 DEF Kinds, TypeOK

LEMMA KindsNext ==
  ASSUME TypeOK, Kinds, [Next]_vars
  PROVE  Kinds'
<1> USE DEF Kinds, storeVars, dirVars, callVars, closeVars, senderVars
<1>1. CASE UNCHANGED vars
  BY <1>1 DEF vars
<1>2. kind' = kind
  BY DEF vars, Next, Close, CheckComplete, ReadComplete, WriteComplete, CompleteNothing, Clean,
     Unlink, Rmdir, Destroyed, Sweep, KvExpire, Send, PutPart, PartDone, PartFails, Complete,
     Completed, Delete, Expire, Crash, Serve, CheckPart, ReadMeta, StatPart, WritePart, WriteMeta, PutBytes, Received
<1>3. ASSUME NEW c \in Calls, Serve(c) PROVE Kinds'
  <2>1. ASSUME NEW from, NEW to, At(c, from, to)
        PROVE  \A d \in Calls : stage'[d] = IF d = c THEN to ELSE stage[d]
    BY <2>1 DEF At, TypeOK
  <2>2. CASE CheckPart(c)
    BY <2>1, <2>2 DEF CheckPart
  <2>3. CASE ReadMeta(c)
    BY <2>1, <2>3 DEF ReadMeta
  <2>4. CASE StatPart(c)
    <3>1. stage[c] = "read"
      BY <2>4 DEF StatPart, At
    <3>2. QED
      BY <2>4, <3>1 DEF StatPart, TypeOK
  <2>5. CASE WritePart(c)
    <3>1. stage[c] \in {"new", "again"}
      BY <2>5 DEF WritePart, WriteFile, Wrote, At
    <3>2. kind = "disk" /\ UNCHANGED <<kind, meta, counted>>
      BY <2>5, <3>1 DEF WritePart, TypeOK
    <3>3. CASE dir /\ UNCHANGED dirVars
      BY <3>2, <3>3
    <3>4. CASE Ended /\ UNCHANGED parts
      BY <3>2, <3>4, KindsEnded
    <3>5. QED
      BY <2>5, <3>3, <3>4 DEF WritePart, WriteFile
  <2>6. CASE WriteMeta(c)
    <3>1. kind = "disk" /\ UNCHANGED <<kind, parts, counted>>
      BY <2>6 DEF WriteMeta
    <3>2. CASE dir /\ meta' = [Counted(c) EXCEPT !.received = @ + 1] /\ UNCHANGED dirVars
      <4>1. meta' # None
        BY <3>1, <3>2, Recorded, Ranges DEF Counted
      <4>2. QED
        BY <3>1, <3>2, <4>1
    <3>3. CASE Ended /\ UNCHANGED meta
      BY <3>1, <3>3, KindsEnded
    <3>4. QED
      BY <2>6, <3>2, <3>3 DEF WriteMeta
  <2>7. CASE PutBytes(c)
    BY <2>1, <2>7 DEF PutBytes
  <2>8. CASE Received(c)
    BY <2>1, <2>8 DEF Received
  <2>9. QED
    BY <1>3, <2>2, <2>3, <2>4, <2>5, <2>6, <2>7, <2>8 DEF Serve
<1>4. CASE Close
  <2>1. CASE CheckComplete \/ ReadComplete \/ CompleteNothing
    BY <2>1 DEF CheckComplete, ReadComplete, CompleteNothing, TypeOK
  <2>2. CASE WriteComplete
    <3>1. closing' \in {"done", "dead"} /\ UNCHANGED <<kind, parts, counted, dirVars, stage>>
      BY <2>2 DEF WriteComplete
    <3>2. kind = "disk" => UNCHANGED meta \/ (dir /\ meta' = [closingCopy EXCEPT !.complete = TRUE])
      BY <2>2 DEF WriteComplete
    <3>3. [closingCopy EXCEPT !.complete = TRUE] # None
      BY Recorded DEF TypeOK
    <3>4. QED
      BY <3>1, <3>2, <3>3
  <2>3. QED
    BY <1>4, <2>1, <2>2 DEF Close
<1>5. CASE Clean
  <2>1. CASE Sweep
    BY <2>1 DEF Sweep, Removed
  <2>2. CASE Unlink
    BY <2>2 DEF Unlink
  <2>3. CASE Rmdir
    <3>1. kind = "disk" /\ removing # "no" /\ dir /\ listed = {} /\ UNCHANGED <<kind, meta, parts, counted>>
      BY <2>3 DEF Rmdir
    <3>2. CASE Files = {} /\ dir' = FALSE /\ removing' = "no" /\ UNCHANGED listed
      <4>1. parts = {} /\ meta = None
        BY <3>2 DEF Files
      <4>2. QED
        BY <3>1, <3>2, <4>1
    <3>3. CASE torn' = TRUE /\ removing' = "no" /\ UNCHANGED <<dir, listed>>
      BY <3>1, <3>3
    <3>4. CASE Ended
      BY <3>1, <3>4, KindsEnded
    <3>5. QED
      BY <2>3, <3>2, <3>3, <3>4 DEF Rmdir
  <2>4. CASE Destroyed \/ KvExpire
    BY <2>4 DEF Destroyed, KvExpire
  <2>5. QED
    BY <1>5, <2>1, <2>2, <2>3, <2>4 DEF Clean
<1>6. CASE PutPart
  BY <1>6 DEF PutPart, At, TypeOK
<1>7. CASE PartDone \/ PartFails \/ Complete \/ Completed \/ Delete \/ Expire
  BY <1>7 DEF PartDone, PartFails, Complete, Completed, Delete, Removed, Expire
<1>8. CASE Crash
  BY <1>8, KindsEnded DEF Crash
<1>9. QED
  BY <1>1, <1>3, <1>4, <1>5, <1>6, <1>7, <1>8 DEF Next, Send

\* No step makes a record stand again that a removal has touched.
LEMMA StandsBefore ==
  ASSUME TypeOK, Kinds, [Next]_vars, Stands'
  PROVE  Stands
<1> USE DEF Stands, storeVars, dirVars, callVars, closeVars, senderVars
<1>1. ASSUME UNCHANGED <<meta, dirVars>> PROVE Stands
  BY <1>1
<1>2. ASSUME Ended, meta' = meta PROVE Stands
  <2>1. torn' = (torn \/ (kind = "disk" /\ removing # "no")) /\ torn \in BOOLEAN
        /\ removing' = IF kind = "disk" THEN "no" ELSE removing
    BY <1>2 DEF Ended, TypeOK
  <2>2. ~torn' /\ removing' = "no" /\ meta # None
    BY <1>2
  <2>3. ~torn /\ removing = "no"
    BY <2>1, <2>2
  <2>4. QED
    BY <2>2, <2>3
<1>3. ASSUME NEW c \in Calls, Serve(c) PROVE Stands
  <2>1. CASE CheckPart(c) \/ ReadMeta(c) \/ StatPart(c) \/ PutBytes(c)
    BY <1>1, <2>1 DEF CheckPart, ReadMeta, StatPart, PutBytes
  <2>2. CASE WritePart(c)
    BY <1>1, <1>2, <2>2 DEF WritePart, WriteFile
  <2>3. CASE WriteMeta(c)
    BY <1>2, <2>3 DEF WriteMeta, Kinds
  <2>4. CASE Received(c)
    BY <2>4 DEF Received
  <2>5. QED
    BY <1>3, <2>1, <2>2, <2>3, <2>4 DEF Serve
<1>4. CASE Close
  BY <1>4 DEF Close, CheckComplete, ReadComplete, WriteComplete, CompleteNothing, Kinds, TypeOK
<1>5. CASE Clean
  <2>1. ~Sweep /\ ~Destroyed
    BY DEF Sweep, Removed, Destroyed
  <2>2. ~Rmdir
    <3>1. SUFFICES ASSUME Rmdir PROVE FALSE
      OBVIOUS
    <3>2. kind = "disk" /\ removing # "no" /\ ~torn' /\ meta' # None /\ meta' = meta
      BY <3>1 DEF Rmdir
    <3>3. ~Ended
      BY <3>2 DEF Ended
    <3>4. Files # {}
      BY <3>2 DEF Files
    <3>5. QED
      BY <3>1, <3>2, <3>3, <3>4 DEF Rmdir
  <2>3. QED
    BY <1>1, <1>5, <2>1, <2>2 DEF Clean, Unlink, KvExpire
<1>6. CASE Send \/ Expire
  BY <1>1, <1>6 DEF Send, PutPart, PartDone, PartFails, Complete, Completed, Delete, Removed, Expire
<1>7. CASE Crash
  BY <1>2, <1>7 DEF Crash
<1>8. CASE UNCHANGED vars
  BY <1>1, <1>8 DEF vars
<1>9. QED
  BY <1>3, <1>4, <1>5, <1>6, <1>7, <1>8 DEF Next

-----------------------------------------------------------------------------
(* The count and the bytes. *)

\* What backs a request goes on backing it while the bytes only grow.
LEMMA CallStays ==
  ASSUME TypeOK, TypeOK', NEW c \in Calls, CallBacked(c), kind' = kind,
         parts \subseteq parts', copy'[c] = copy[c],
         stage'[c] \in {stage[c], "none", "sent", "checked", "done", "again", "refused", "dead"}
  PROVE  CallBacked(c)'
<1>1. c[1] \in Parts
  BY Ranges
<1>2. /\ Cardinality(parts) <= Cardinality(parts')
      /\ Cardinality(parts \ {c[1]}) <= Cardinality(parts' \ {c[1]})
      /\ Cardinality(parts) \in Nat /\ Cardinality(parts') \in Nat
      /\ Cardinality(parts \ {c[1]}) \in Nat /\ Cardinality(parts' \ {c[1]}) \in Nat
  <2>1. /\ parts \in SUBSET Parts /\ parts' \in SUBSET Parts
        /\ parts \ {c[1]} \in SUBSET Parts /\ parts' \ {c[1]} \in SUBSET Parts
        /\ parts \ {c[1]} \subseteq parts' \ {c[1]}
    BY DEF TypeOK
  <2>2. \A S, T \in SUBSET Parts : S \subseteq T => Cardinality(S) <= Cardinality(T)
    BY <1>1, PartsAdded
  <2>3. QED
    BY <2>1, <2>2, PartsFinite
<1>3. copy[c].received \in Nat
  BY Ranges
<1>4. parts = Parts => parts' = Parts
  BY DEF TypeOK
<1>5. QED
  BY <1>2, <1>3, <1>4 DEF CallBacked

\* A step that leaves the record alone and removes nothing.
LEMMA BackedStays ==
  ASSUME TypeOK, TypeOK', Backed, Stands, kind' = kind, meta' = meta,
         parts \subseteq parts', counted' = counted, closingCopy' = closingCopy,
         closing' \in {closing, "none", "sent", "done", "refused", "dead"},
         \A c \in Calls : CallBacked(c)'
  PROVE  Backed'
<1>1. /\ Cardinality(parts) <= Cardinality(parts')
      /\ Cardinality(parts) \in Nat /\ Cardinality(parts') \in Nat
  <2>1. parts \in SUBSET Parts /\ parts' \in SUBSET Parts /\ 1 \in Parts
    BY BlobAssumption DEF TypeOK, Parts
  <2>2. QED
    BY <2>1, PartsAdded, PartsFinite
<1>2. meta # None => meta.received \in Nat
  BY Ranges
<1>3. closingCopy.received \in Nat
  BY Ranges
<1>4. parts = Parts => parts' = Parts
  BY DEF TypeOK
<1>5. QED
  BY <1>1, <1>2, <1>3, <1>4 DEF Backed, Stands

LEMMA BackedServe ==
  ASSUME TypeOK, TypeOK', Kinds, Counting, Backed, Stands, Stands', NEW c \in Calls, Serve(c)
  PROVE  Backed'
<1> USE DEF storeVars, dirVars, callVars, closeVars, senderVars
<1>0. c[1] \in Parts /\ parts \in SUBSET Parts /\ parts' \in SUBSET Parts
  BY Ranges DEF TypeOK
<1>i. ASSUME NEW from, NEW to, At(c, from, to)
      PROVE  /\ stage[c] = from /\ stage'[c] = to
             /\ \A d \in Calls : d # c => stage'[d] = stage[d]
  BY <1>i DEF At, TypeOK
<1>1. ASSUME kind' = kind, meta' = meta, counted' = counted,
             closingCopy' = closingCopy, parts \subseteq parts',
             closing' \in {closing, "none", "sent", "done", "refused", "dead"},
             \A d \in Calls : d # c => /\ copy'[d] = copy[d]
                                      /\ stage'[d] \in {stage[d], "dead"},
             CallBacked(c)'
      PROVE  Backed'
  <2>1. \A d \in Calls : CallBacked(d)'
    BY <1>1, CallStays DEF Backed
  <2>2. QED
    BY <1>1, <2>1, BackedStays
<1>2. CASE CheckPart(c)
  <2>1. stage'[c] \in {"checked", "refused"} /\ \A d \in Calls : d # c => stage'[d] = stage[d]
    BY <1>2, <1>i DEF CheckPart
  <2>2. CallBacked(c)'
    BY <1>2, <2>1, CallStays DEF CheckPart, Backed
  <2>3. QED
    BY <1>1, <1>2, <2>1, <2>2 DEF CheckPart
<1>3. CASE ReadMeta(c)
  <2>1. /\ \A d \in Calls : d # c => stage'[d] = stage[d] /\ copy'[d] = copy[d]
        /\ stage'[c] = "read" /\ copy'[c] = meta
    BY <1>3, <1>i DEF ReadMeta, TypeOK, Stands
  <2>2. CallBacked(c)'
    BY <1>3, <2>1 DEF CallBacked, ReadMeta, Backed
  <2>3. QED
    BY <1>1, <1>3, <2>1, <2>2 DEF ReadMeta
<1>4. CASE StatPart(c)
  <2>1. /\ \A d \in Calls : d # c => stage'[d] = stage[d]
        /\ stage[c] = "read"
        /\ stage'[c] = "again" \/ (stage'[c] = "new" /\ c[1] \notin parts)
    BY <1>4, <1>i DEF StatPart, IsThere
  <2>2. CallBacked(c)'
    <3>1. CallBacked(c)
      BY DEF Backed
    <3>2. c[1] \notin parts => parts \ {c[1]} = parts
      OBVIOUS
    <3>3. QED
      BY <1>4, <2>1, <3>1, <3>2 DEF CallBacked, StatPart
  <2>3. QED
    BY <1>1, <1>4, <2>1, <2>2 DEF StatPart
<1>5. CASE WritePart(c)
  <2>1. CASE parts' = parts \cup {c[1]} /\ Wrote(c) /\ UNCHANGED closing
    <3>1. /\ \A d \in Calls : d # c => stage'[d] = stage[d]
          /\ (stage[c] = "new" /\ stage'[c] = "written") \/ stage'[c] = "done"
      BY <1>i, <2>1 DEF Wrote
    <3>2. CallBacked(c)'
      <4>1. CallBacked(c)
        BY DEF Backed
      <4>2. parts' \ {c[1]} = parts \ {c[1]} /\ c[1] \in parts'
        BY <2>1
      <4>3. parts = Parts => parts' = Parts
        BY <1>0, <2>1
      <4>4. QED
        BY <1>5, <3>1, <4>1, <4>2, <4>3 DEF CallBacked, WritePart
    <3>3. QED
      BY <1>1, <1>5, <2>1, <3>1, <3>2 DEF WritePart
  <2>2. dir
    BY <1>5 DEF Kinds, Stands, TypeOK, WritePart, WriteFile, Wrote, At
  <2>3. QED
    BY <1>5, <2>1, <2>2 DEF WritePart, WriteFile
<1>6. CASE WriteMeta(c)
  <2>1. /\ kind = "disk" /\ stage[c] = "written" /\ meta' = [copy[c] EXCEPT !.received = @ + 1]
        /\ stage'[c] = "done" /\ \A d \in Calls : d # c => stage'[d] = stage[d]
        /\ UNCHANGED <<kind, parts, counted, copy, closing, closingCopy>>
    <3>1. ~LosesTemp
      BY <1>6 DEF LosesTemp, Stands, Kinds, WriteMeta
    <3>2. QED
      BY <1>6, <1>i, <3>1 DEF WriteMeta, Counted
  <2>2. /\ c[1] \in parts /\ copy[c].received <= Cardinality(parts \ {c[1]})
        /\ copy[c].complete => parts = Parts
    BY <2>1 DEF Backed, CallBacked
  <2>3. meta'.received = copy[c].received + 1 /\ meta'.complete = copy[c].complete
        /\ copy[c].received \in Nat
    BY <2>1, Recorded, Ranges
  <2>4. Cardinality(parts \ {c[1]}) = Cardinality(parts) - 1 /\ Cardinality(parts) \in Nat
    BY <1>0, <2>2, PartsAdded, PartsFinite
  <2>5. meta'.received <= Cardinality(parts)
    BY <2>2, <2>3, <2>4
  <2>6. \A d \in Calls : CallBacked(d)'
    BY <2>1, CallStays DEF Backed
  <2>7. QED
    BY <2>1, <2>2, <2>3, <2>5, <2>6 DEF Backed
<1>7. CASE PutBytes(c)
  <2>1. /\ \A d \in Calls : d # c => stage'[d] = stage[d]
        /\ stage'[c] = "written" /\ kind = "object" /\ c[1] \in parts' /\ parts \subseteq parts'
        /\ kind' = kind
    BY <1>7, <1>i DEF PutBytes
  <2>2. CallBacked(c)'
    BY <2>1 DEF CallBacked
  <2>3. QED
    BY <1>1, <1>7, <2>1, <2>2 DEF PutBytes
<1>8. CASE Received(c)
  <2>1. /\ kind = "object" /\ stage[c] = "written" /\ stage'[c] = "done"
        /\ \A d \in Calls : d # c => stage'[d] = stage[d]
        /\ UNCHANGED <<kind, parts, copy, closing, closingCopy>>
    BY <1>8, <1>i DEF Received
  <2>2. CASE UNCHANGED <<counted, meta>>
    <3>1. CallBacked(c)'
      BY <2>1, CallStays DEF Backed
    <3>2. QED
      BY <1>1, <2>1, <2>2, <3>1
  <2>3. CASE meta # None /\ c[1] \notin counted /\ counted' = counted \cup {c[1]}
             /\ meta' = [meta EXCEPT !.received = @ + 1]
    <3>1. c[1] \in parts /\ counted \subseteq parts /\ meta.received = Cardinality(counted)
      BY <2>1, <2>3 DEF Backed, CallBacked, Counting
    <3>2. /\ meta'.received = meta.received + 1 /\ meta'.complete = meta.complete
      BY <2>3, Recorded, Ranges
    <3>3. counted \in SUBSET Parts /\ counted' \in SUBSET Parts
      BY DEF TypeOK
    <3>4. Cardinality(counted') = Cardinality(counted) + 1 /\ Cardinality(counted') <= Cardinality(parts)
      BY <1>0, <2>3, <3>1, <3>3, PartsAdded
    <3>5. \A d \in Calls : CallBacked(d)'
      BY <2>1, <2>3, CallStays DEF Backed
    <3>6. counted' \subseteq parts
      BY <2>3, <3>1
    <3>7. QED
      BY <2>1, <2>3, <3>1, <3>2, <3>4, <3>5, <3>6 DEF Backed
  <2>4. QED
    BY <1>8, <2>1, <2>2, <2>3 DEF Received, Counts, Counted
<1>9. QED
  BY <1>2, <1>3, <1>4, <1>5, <1>6, <1>7, <1>8 DEF Serve

LEMMA BackedOther ==
  ASSUME TypeOK, TypeOK', Kinds, Backed, Stands, Stands', Close \/ Clean \/ Send \/ Expire \/ Crash
  PROVE  Backed'
<1> USE DEF storeVars, dirVars, callVars, closeVars, senderVars
<1>1. ASSUME kind' = kind, meta' = meta, counted' = counted,
             closingCopy' = closingCopy, parts' = parts, copy' = copy,
             closing' \in {closing, "none", "sent", "done", "refused", "dead"},
             \A c \in Calls : stage'[c] \in {stage[c], "sent", "dead"}
      PROVE  Backed'
  <2>1. \A c \in Calls : CallBacked(c)'
    BY <1>1, CallStays DEF Backed
  <2>2. QED
    BY <1>1, <2>1, BackedStays
<1>2. CASE CheckComplete
  <2>1. CASE closing' = "refused"
    BY <1>1, <1>2, <2>1 DEF CheckComplete
  <2>2. CASE meta # None /\ meta.received >= NParts /\ closing' = "checked"
    <3>1. UNCHANGED <<kind, storeVars, callVars, closingCopy>>
      BY <1>2 DEF CheckComplete
    <3>2. parts = Parts
      <4>1. meta.received <= Cardinality(parts)
        BY DEF Backed
      <4>2. parts \in SUBSET Parts /\ meta.received \in Nat /\ NParts \in Nat
        BY <2>2, Ranges DEF TypeOK
      <4>3. QED
        BY <2>2, <4>1, <4>2, PartsFinite
    <3>3. \A c \in Calls : CallBacked(c)'
      BY <3>1, CallStays DEF Backed
    <3>4. QED
      BY <2>2, <3>1, <3>2, <3>3 DEF Backed
  <2>3. QED
    BY <1>2, <2>1, <2>2 DEF CheckComplete
<1>3. CASE ReadComplete
  <2>1. /\ UNCHANGED <<kind, storeVars, callVars>> /\ closing = "checked" /\ closing' = "read"
        /\ closingCopy' = meta /\ meta # None
    BY <1>3 DEF ReadComplete
  <2>2. \A c \in Calls : CallBacked(c)'
    BY <2>1, CallStays DEF Backed
  <2>3. QED
    BY <2>1, <2>2 DEF Backed
<1>4. CASE WriteComplete
  <2>1. ~LosesTemp \/ kind # "disk"
    BY DEF LosesTemp, Stands, Kinds
  <2>2. PICK r \in Records : /\ r = IF kind = "disk" THEN closingCopy ELSE meta
                             /\ meta' = [r EXCEPT !.complete = TRUE]
    BY <1>4, <2>1 DEF WriteComplete, TypeOK, Stands
  <2>3. /\ UNCHANGED <<kind, parts, counted, callVars>> /\ closing' = "done"
        /\ closing \in {"read", "checked"} /\ (kind = "disk" => closing = "read")
    BY <1>4, <2>1 DEF WriteComplete, Stands
  <2>4. meta'.received = r.received
    BY <2>2, Recorded
  <2>5. parts = Parts /\ r.received <= Cardinality(parts)
    BY <2>2, <2>3 DEF Backed
  <2>6. \A c \in Calls : CallBacked(c)'
    BY <2>3, CallStays DEF Backed
  <2>7. QED
    BY <2>3, <2>4, <2>5, <2>6 DEF Backed
<1>5. CASE CompleteNothing
  BY <1>5 DEF CompleteNothing, Stands
<1>6. CASE Sweep \/ Delete
  BY <1>6 DEF Sweep, Delete, Removed, Stands
<1>7. CASE Unlink \/ Rmdir \/ Destroyed \/ KvExpire
  BY <1>7 DEF Unlink, Rmdir, Destroyed, KvExpire, Stands, Kinds, TypeOK
<1>8. CASE PutPart
  <2>1. \A c \in Calls : stage'[c] \in {stage[c], "sent"}
    BY <1>8 DEF PutPart, At, TypeOK
  <2>2. QED
    BY <1>1, <1>8, <2>1 DEF PutPart
<1>9. CASE PartDone \/ PartFails \/ Complete \/ Completed \/ Expire
  BY <1>1, <1>9 DEF PartDone, PartFails, Complete, Completed, Expire
<1>10. CASE Crash
  <2>1. closing' \in {closing, "dead"} /\ \A c \in Calls : stage'[c] \in {stage[c], "dead"}
    BY <1>10 DEF Crash, Ended
  <2>2. QED
    BY <1>1, <1>10, <2>1 DEF Crash
<1>11. QED
  BY <1>2, <1>3, <1>4, <1>5, <1>6, <1>7, <1>8, <1>9, <1>10 DEF Close, Clean, Send

-----------------------------------------------------------------------------
(* The object counts what it answers for. *)

LEMMA CountingNext ==
  ASSUME TypeOK, Asking, Kinds, Counting, [Next]_vars
  PROVE  Counting'
<1> USE DEF storeVars, dirVars, callVars, closeVars, senderVars
<1>1. ASSUME kind' = kind, meta' = None PROVE Counting'
  BY <1>1 DEF Counting
<1>2. ASSUME kind' = kind, meta' = meta, counted' = counted, part' = part,
             \A c \in Calls : stage'[c] = "done" => stage[c] = "done"
      PROVE  Counting'
  BY <1>2 DEF Counting
<1>3. CASE UNCHANGED vars
  BY <1>2, <1>3 DEF vars
<1>4. ASSUME NEW c \in Calls, Serve(c) PROVE Counting'
  <2>1. ASSUME NEW from, NEW to, At(c, from, to)
        PROVE  stage[c] = from /\ \A d \in Calls : stage'[d] = IF d = c THEN to ELSE stage[d]
    BY <2>1 DEF At, TypeOK
  <2>2. CASE CheckPart(c) \/ StatPart(c) \/ PutBytes(c)
    BY <1>2, <2>1, <2>2 DEF CheckPart, StatPart, PutBytes
  <2>3. CASE kind = "disk"
    BY <1>4, <2>3 DEF Serve, CheckPart, ReadMeta, StatPart, WritePart, WriteMeta, PutBytes,
       Received, Counting
  <2>4. CASE kind = "object" /\ ~Received(c)
    <3>1. CheckPart(c) \/ StatPart(c) \/ PutBytes(c) \/ WritePart(c)
      BY <1>4, <2>4 DEF Serve, ReadMeta, WriteMeta
    <3>2. ~WritePart(c)
      BY <2>4 DEF WritePart, WriteFile, Wrote, At, Kinds
    <3>3. QED
      BY <2>2, <3>1, <3>2
  <2>5. CASE Received(c)
    <3>1. /\ stage'[c] = "done" /\ \A d \in Calls : d # c => stage'[d] = stage[d]
          /\ UNCHANGED <<kind, part>>
      BY <2>1, <2>5 DEF Received
    <3>2. CASE meta = None
      BY <1>1, <2>5, <3>2 DEF Received
    <3>3. CASE meta # None /\ c[1] \in counted
      BY <2>5, <3>1, <3>3 DEF Received, Counts, Counting
    <3>4. CASE meta # None /\ c[1] \notin counted
      <4>1. counted' = counted \cup {c[1]} /\ meta' = [meta EXCEPT !.received = @ + 1] /\ kind = "object"
        BY <2>5, <3>4 DEF Received, Counts, Counted
      <4>2. meta'.received = meta.received + 1
        BY <3>4, <4>1, Recorded, Ranges
      <4>3. Cardinality(counted') = Cardinality(counted) + 1
        BY <3>4, <4>1, PartsAdded, Ranges DEF TypeOK
      <4>4. QED
        BY <3>1, <3>4, <4>1, <4>2, <4>3 DEF Counting
    <3>5. QED
      BY <3>2, <3>3, <3>4
  <2>6. QED
    BY <2>3, <2>4, <2>5 DEF TypeOK
<1>5. CASE CheckComplete \/ ReadComplete \/ CompleteNothing
  BY <1>2, <1>5 DEF CheckComplete, ReadComplete, CompleteNothing
<1>6. CASE WriteComplete
  <2>1. CASE meta = None /\ kind = "object"
    BY <1>1, <1>6, <2>1 DEF WriteComplete
  <2>2. CASE meta # None /\ kind = "object"
    <3>1. meta' = [meta EXCEPT !.complete = TRUE]
      BY <1>6, <2>2 DEF WriteComplete
    <3>2. meta'.received = meta.received
      BY <2>2, <3>1, Recorded, Ranges
    <3>3. QED
      BY <1>6, <2>2, <3>2 DEF WriteComplete, Counting
  <2>3. CASE kind = "disk"
    BY <1>6, <2>3 DEF WriteComplete, Counting
  <2>4. QED
    BY <2>1, <2>2, <2>3 DEF TypeOK
<1>7. CASE Clean
  <2>1. CASE Sweep \/ Destroyed \/ KvExpire
    BY <1>1, <1>2, <2>1 DEF Destroyed, Sweep, Removed, KvExpire
  <2>2. CASE Unlink
    <3>1. kind = "disk" /\ kind' = kind
      BY <2>2 DEF Unlink, Kinds, TypeOK
    <3>2. QED
      BY <3>1 DEF Counting
  <2>3. CASE Rmdir
    BY <2>3 DEF Rmdir, Counting
  <2>4. QED
    BY <1>7, <2>1, <2>2, <2>3 DEF Clean
<1>8. CASE PutPart
  <2>1. \A c \in Calls : stage'[c] = "done" => stage[c] = "done"
    BY <1>8 DEF PutPart, At, TypeOK
  <2>2. QED
    BY <1>2, <1>8, <2>1 DEF PutPart
<1>9. CASE PartDone
  <2>1. Current \in Calls /\ stage[Current] = "done" /\ Current[1] = part /\ part \in Nat
    BY <1>9, Ranges DEF PartDone, Asking, Current
  <2>2. 1..(part + 1 - 1) = 1..(part - 1) \cup {part}
    BY <1>9, Ranges DEF TypeOK
  <2>3. QED
    BY <1>9, <2>1, <2>2 DEF PartDone, Counting
<1>10. CASE PartFails \/ Complete \/ Completed \/ Expire
  BY <1>2, <1>10 DEF PartFails, Complete, Completed, Expire
<1>11. CASE Delete
  BY <1>1, <1>2, <1>11 DEF Delete, Removed
<1>12. CASE Crash
  <2>1. \A c \in Calls : stage'[c] = "done" => stage[c] = "done"
    BY <1>12 DEF Crash, Ended
  <2>2. QED
    BY <1>2, <1>12, <2>1 DEF Crash
<1>13. QED
  BY <1>3, <1>4, <1>5, <1>6, <1>7, <1>8, <1>9, <1>10, <1>11, <1>12 DEF Next, Close, Send

LEMMA ObjectNext ==
  ASSUME TypeOK, Asking, Kinds, Counting, ObjectSound, [Next]_vars
  PROVE  ObjectSound'
<1> USE DEF storeVars, dirVars, callVars, closeVars, senderVars
<1>1. ASSUME UNCHANGED <<kind, wronged, ended, torn>> PROVE ObjectSound'
  BY <1>1 DEF ObjectSound
<1>2. CASE CheckComplete
  <2>1. ASSUME kind = "object", meta # None PROVE ~(meta.received < NParts)
    <3>1. part = NParts + 1 /\ Parts \subseteq counted
      BY <1>2, <2>1, BlobAssumption DEF CheckComplete, Asking, Counting, Parts
    <3>2. counted = Parts
      BY <3>1 DEF TypeOK
    <3>3. QED
      BY <2>1, <3>2, PartsFinite, BlobAssumption DEF Counting
  <2>2. /\ kind' = kind /\ ended' = ended /\ torn' = torn
        /\ wronged' = (wronged \/ (meta # None /\ meta.received < NParts /\ parts = Parts))
    BY <1>2 DEF CheckComplete
  <2>3. QED
    BY <2>1, <2>2, Zenon DEF ObjectSound
<1>3. ASSUME NEW c \in Calls, WritePart(c) \/ WriteMeta(c) PROVE kind' = kind /\ kind = "disk"
  <2>1. CASE WriteMeta(c)
    BY <2>1 DEF WriteMeta
  <2>2. CASE WritePart(c)
    <3>1. stage[c] \in {"new", "again"} /\ kind' = kind
      BY <2>2 DEF WritePart, WriteFile, Wrote, At
    <3>2. QED
      BY <3>1 DEF Kinds, TypeOK
  <2>3. QED
    BY <1>3, <2>1, <2>2
<1>4. ASSUME NEW c \in Calls, Serve(c), ~WritePart(c), ~WriteMeta(c)
      PROVE  UNCHANGED <<kind, wronged, ended, torn>>
  BY <1>4 DEF Serve, CheckPart, ReadMeta, StatPart, PutBytes, Received
<1>5. CASE ReadComplete \/ WriteComplete \/ CompleteNothing \/ Clean \/ Send \/ Expire \/ Crash
  <2>1. CASE Rmdir
    BY <2>1 DEF Rmdir, ObjectSound
  <2>2. CASE Crash
    <3>1. kind = "object" => ~torn'
      BY <2>2 DEF Crash, Ended, Kinds
    <3>2. QED
      BY <2>2, <3>1 DEF Crash, ObjectSound
  <2>3. QED
    BY <1>1, <1>5, <2>1, <2>2 DEF ReadComplete, WriteComplete, CompleteNothing, Clean, Unlink, Destroyed,
       Sweep, KvExpire, Removed, Send, PutPart, PartDone, PartFails, Complete, Completed, Delete, Expire
<1>6. CASE UNCHANGED vars
  BY <1>1, <1>6 DEF vars
<1>7. QED
  BY <1>1, <1>2, <1>3, <1>4, <1>5, <1>6 DEF Next, Close, ObjectSound

-----------------------------------------------------------------------------
(* The disk store when nothing goes wrong. *)

\* A request the server is at work on is the one its sender waits for.
LEMMA OnlyCurrent ==
  ASSUME TypeOK, OneAtATime, NEW c \in Calls, stage[c] \notin {"none", "done"}
  PROVE  c = Current /\ status = "waiting" /\ part = c[1] /\ c[2] = 1
<1>1. c = <<c[1], c[2]>> /\ c[1] \in Nat /\ part \in Nat
  BY Ranges DEF Calls, Parts
<1>2. c[2] = 1 /\ ~(c[1] > part) /\ ~(c[1] < part) /\ attempt = 1
  BY DEF OneAtATime
<1>3. c[1] = part
  BY <1>1, <1>2
<1>4. status = "waiting"
  BY <1>3 DEF OneAtATime
<1>5. QED
  BY <1>1, <1>2, <1>3, <1>4 DEF Current

\* The same, one step further.
LEMMA OneStays ==
  ASSUME TypeOK, OneAtATime, NEW c \in Calls, NEW to,
         stage' = [stage EXCEPT ![c] = to], c = Current, status = "waiting",
         to \notin {"none", "refused", "dead", "again"}, UNCHANGED senderVars
  PROVE  OneAtATime'
<1>1. \A d \in Calls : stage'[d] = IF d = c THEN to ELSE stage[d]
  BY DEF TypeOK
<1>2. c[1] = part /\ c[2] = 1 /\ part \in Nat
  BY Ranges DEF Current, OneAtATime
<1>3. Current' = Current /\ UNCHANGED <<status, part, attempt>>
  BY DEF Current, senderVars
<1>4. QED
  BY <1>1, <1>2, <1>3 DEF OneAtATime

LEMMA SmoothServe ==
  ASSUME TypeOK, Asking, Kinds, Smooth, kind = "disk", faults = 0, NEW c \in Calls, Serve(c)
  PROVE  Smooth'
<1> USE DEF storeVars, dirVars, callVars, closeVars
<1> DEFINE far == stage[Current]
<1>0. /\ ~expired /\ ~wronged /\ ~ended /\ ~torn /\ OneAtATime /\ Removal
      /\ part \in Nat /\ NParts \in Nat
  BY Ranges DEF Smooth
<1>1. stage[c] \notin {"none", "done"}
  BY DEF Serve, CheckPart, ReadMeta, StatPart, WritePart, WriteFile, Wrote, WriteMeta, PutBytes,
     Received, At
<1>2. c = Current /\ status = "waiting" /\ part = c[1] /\ c[2] = 1
  BY <1>0, <1>1, OnlyCurrent
<1>3. meta # None /\ closing = "none" /\ Progress /\ dir /\ ~LosesTemp
  BY <1>0, <1>2 DEF Smooth, Removal, LosesTemp
<1>4. /\ parts = 1..(part - 1) \cup (IF far \in {"written", "done"} THEN {part} ELSE {})
      /\ meta.received = IF far = "done" THEN part ELSE part - 1
      /\ ~meta.complete
      /\ far \in {"read", "new", "written"} => copy[c].received = part - 1 /\ ~copy[c].complete
  BY <1>2, <1>3 DEF Progress
<1>5. \/ /\ far = "sent" /\ stage' = [stage EXCEPT ![c] = "checked"]
         /\ UNCHANGED <<meta, parts, copy>>
      \/ /\ far = "checked" /\ stage' = [stage EXCEPT ![c] = "read"] /\ copy' = [copy EXCEPT ![c] = meta]
         /\ UNCHANGED <<meta, parts>>
      \/ /\ far = "read" /\ stage' = [stage EXCEPT ![c] = "new"]
         /\ UNCHANGED <<meta, parts, copy>>
      \/ /\ far = "new" /\ stage' = [stage EXCEPT ![c] = "written"] /\ parts' = parts \cup {part}
         /\ UNCHANGED <<meta, copy>>
      \/ /\ far = "written" /\ stage' = [stage EXCEPT ![c] = "done"]
         /\ meta' = [copy[c] EXCEPT !.received = @ + 1]
         /\ UNCHANGED <<parts, copy>>
  <2>1. CASE CheckPart(c)
    <3>1. Takes
      BY <1>0, <1>3, <1>4 DEF Takes
    <3>2. At(c, "sent", "checked") /\ UNCHANGED <<meta, parts, copy>>
      BY <2>1, <3>1 DEF CheckPart
    <3>3. far = "sent" /\ stage' = [stage EXCEPT ![c] = "checked"] /\ UNCHANGED <<meta, parts, copy>>
      BY <1>2, <3>2 DEF At
    <3>4. QED
      BY <3>3
  <2>2. CASE ReadMeta(c)
    <3>1. /\ At(c, "checked", "read") /\ copy' = [copy EXCEPT ![c] = meta]
          /\ UNCHANGED <<meta, parts>>
      BY <1>3, <2>2 DEF ReadMeta
    <3>2. /\ far = "checked" /\ stage' = [stage EXCEPT ![c] = "read"]
          /\ copy' = [copy EXCEPT ![c] = meta] /\ UNCHANGED <<meta, parts>>
      BY <1>2, <3>1 DEF At
    <3>3. QED
      BY <3>2
  <2>3. CASE StatPart(c)
    <3>1. far = "read" /\ UNCHANGED <<meta, parts, copy>>
      BY <1>2, <2>3 DEF StatPart, At
    <3>2. c[1] \notin parts
      BY <1>0, <1>2, <1>4, <3>1
    <3>3. QED
      BY <1>2, <2>3, <3>1, <3>2 DEF StatPart, At, IsThere
  <2>4. CASE WritePart(c)
    BY <1>0, <1>2, <1>3, <2>4 DEF WritePart, WriteFile, Wrote, At, OneAtATime
  <2>5. CASE WriteMeta(c)
    BY <1>2, <1>3, <2>5 DEF WriteMeta, At, Counted
  <2>6. QED
    BY <2>1, <2>2, <2>3, <2>4, <2>5 DEF Serve, PutBytes, Received
<1>6. /\ UNCHANGED <<kind, expired, wronged, ended, faults, senderVars, closing, closingCopy, dirVars>>
  BY <1>3 DEF Serve, CheckPart, ReadMeta, StatPart, WritePart, WriteFile, WriteMeta, PutBytes, Received
<1>7. \E to : /\ to \notin {"none", "refused", "dead", "again"} /\ stage' = [stage EXCEPT ![c] = to]
  BY <1>5
<1>8. OneAtATime'
  BY <1>0, <1>2, <1>6, <1>7, OneStays
<1>9. Current' = Current /\ UNCHANGED <<status, part, attempt>>
  BY <1>6 DEF Current, senderVars
<1>10. meta' # None /\ Progress'
  <2>1. ASSUME NEW to, stage' = [stage EXCEPT ![c] = to] PROVE stage'[Current] = to
    BY <1>2, <2>1 DEF TypeOK
  <2>2. CASE far = "sent" /\ stage' = [stage EXCEPT ![c] = "checked"] /\ UNCHANGED <<meta, parts, copy>>
    BY <1>3, <1>4, <1>9, <2>1, <2>2 DEF Progress
  <2>3. CASE /\ far = "checked" /\ stage' = [stage EXCEPT ![c] = "read"]
             /\ copy' = [copy EXCEPT ![c] = meta] /\ UNCHANGED <<meta, parts>>
    <3>1. copy'[c] = meta
      BY <2>3 DEF TypeOK
    <3>2. QED
      BY <1>2, <1>3, <1>4, <1>9, <2>1, <2>3, <3>1 DEF Progress
  <2>4. CASE far = "read" /\ stage' = [stage EXCEPT ![c] = "new"] /\ UNCHANGED <<meta, parts, copy>>
    BY <1>2, <1>3, <1>4, <1>9, <2>1, <2>4 DEF Progress
  <2>5. CASE /\ far = "new" /\ stage' = [stage EXCEPT ![c] = "written"] /\ parts' = parts \cup {part}
             /\ UNCHANGED <<meta, copy>>
    BY <1>2, <1>3, <1>4, <1>9, <2>1, <2>5 DEF Progress
  <2>6. CASE /\ far = "written" /\ stage' = [stage EXCEPT ![c] = "done"]
             /\ meta' = [copy[c] EXCEPT !.received = @ + 1] /\ UNCHANGED <<parts, copy>>
    <3>1. meta'.received = part - 1 + 1 /\ meta'.complete = copy[c].complete /\ meta' # None
      <4>1. copy[c] \in Records
        BY Ranges
      <4>2. QED
        BY <1>4, <2>6, <4>1, Recorded
    <3>2. QED
      <4>1. stage'[Current'] = "done" /\ status' = "waiting" /\ part' = part /\ parts' = parts
        BY <1>2, <1>9, <2>1, <2>6
      <4>2. parts = 1..(part - 1) \cup {part} /\ part - 1 + 1 = part /\ ~copy[c].complete
        BY <1>0, <1>4, <2>6
      <4>3. QED
        BY <3>1, <4>1, <4>2 DEF Progress
  <2>7. QED
    BY <1>5, <2>2, <2>3, <2>4, <2>5, <2>6
<1>11. Removal' /\ ~torn'
  BY <1>0, <1>2, <1>6, <1>9 DEF Removal
<1>12. QED
  BY <1>0, <1>2, <1>3, <1>6, <1>8, <1>9, <1>10, <1>11 DEF Smooth

LEMMA SmoothOther ==
  ASSUME TypeOK, Asking, Kinds, Smooth, kind = "disk", faults = 0, faults' = 0,
         Close \/ Clean \/ Send \/ Expire \/ Crash
  PROVE  Smooth'
<1> USE DEF storeVars, dirVars, callVars, closeVars
<1>0. /\ ~expired /\ ~wronged /\ ~ended /\ ~torn /\ OneAtATime /\ Removal
      /\ part \in Nat /\ NParts \in Nat /\ attempt = 1 /\ part \in 1..(NParts + 1)
  BY Ranges DEF Smooth, OneAtATime, TypeOK
<1>1. ASSUME UNCHANGED <<kind, meta, parts, copy, stage, closing, closingCopy, senderVars,
                         expired, wronged, ended, faults, dirVars>>
      PROVE  Smooth'
  <2>1. UNCHANGED <<status, part, attempt, Current>>
    BY <1>1 DEF senderVars, Current
  <2>2. OneAtATime' /\ (Progress => Progress') /\ Removal' /\ ~torn'
    BY <1>0, <1>1, <2>1 DEF OneAtATime, Progress, Removal, Files
  <2>3. QED
    BY <1>0, <1>1, <2>1, <2>2 DEF Smooth
<1>r. ASSUME status # "collected", status' # "collected", UNCHANGED dirVars
      PROVE  Removal' /\ ~torn'
  BY <1>0, <1>r DEF Removal
<1>2. ASSUME closing \notin {"none", "done"} PROVE status = "completing"
  BY <1>2 DEF Smooth, TypeOK
<1>3. ASSUME status' \notin {"uploading", "waiting"}, status \notin {"waiting"},
             UNCHANGED <<kind, expired, wronged, ended, faults, stage, part, attempt>>
      PROVE  OneAtATime' /\ part' = part /\ UNCHANGED <<kind, expired, wronged, ended, faults>>
  BY <1>0, <1>3 DEF OneAtATime, Current
<1>4. CASE Close
  <2>1. closing \in {"sent", "checked", "read"}
    BY <1>4 DEF Close, CheckComplete, ReadComplete, WriteComplete, CompleteNothing
  <2>2. /\ status = "completing" /\ part = NParts + 1 /\ meta # None /\ meta.received >= NParts
        /\ closing = "read" => closingCopy.received >= NParts
    BY <1>2, <2>1 DEF Smooth
  <2>3. UNCHANGED <<kind, expired, ended, faults, stage, senderVars, dirVars>>
    BY <1>4 DEF Close, CheckComplete, ReadComplete, WriteComplete, CompleteNothing
  <2>4. OneAtATime' /\ status' = status /\ part' = part /\ Removal' /\ ~torn' /\ ~LosesTemp
    BY <1>0, <1>r, <2>2, <2>3 DEF OneAtATime, Current, senderVars, Removal, LosesTemp
  <2>5. CASE CheckComplete
    <3>1. closing' = "checked" /\ meta' = meta
      BY <2>2, <2>5 DEF CheckComplete
    <3>2. ~(meta.received < NParts)
      BY <1>0, <2>2, Ranges
    <3>3. wronged' = (wronged \/ (meta # None /\ meta.received < NParts /\ parts = Parts))
      BY <2>5 DEF CheckComplete
    <3>4. ~wronged'
      BY <1>0, <3>2, <3>3, Zenon
    <3>5. QED
      BY <1>0, <2>2, <2>3, <2>4, <3>1, <3>4 DEF Smooth
  <2>6. CASE ReadComplete
    BY <1>0, <2>2, <2>3, <2>4, <2>6 DEF ReadComplete, Smooth
  <2>7. CASE WriteComplete
    <3>1. /\ closing = "read" /\ closing' = "done" /\ wronged' = wronged
          /\ meta' = [closingCopy EXCEPT !.complete = TRUE] /\ closingCopy \in Records
      BY <2>2, <2>4, <2>7 DEF WriteComplete, TypeOK
    <3>2. meta' # None /\ meta'.received = closingCopy.received
      BY <3>1, Recorded
    <3>3. QED
      BY <1>0, <2>2, <2>3, <2>4, <3>1, <3>2 DEF Smooth
  <2>8. CASE CompleteNothing
    BY <2>2, <2>8 DEF CompleteNothing
  <2>9. QED
    BY <1>4, <2>5, <2>6, <2>7, <2>8 DEF Close
<1>5. CASE Clean
  <2>1. CASE Unlink
    <3>1. PICK f \in listed : /\ listed' = listed \ {f} /\ parts' = parts \ {f}
                             /\ meta' = IF f = RecordFile THEN None ELSE meta
      BY <2>1 DEF Unlink
    <3>2. /\ UNCHANGED <<kind, removing, dir, torn, status, part, attempt, stage, closing, expired,
                         wronged, ended, faults>>
      BY <2>1 DEF Unlink, senderVars
    <3>3. removing # "no" /\ status = "collected" /\ Files \subseteq listed
      BY <1>0, <3>1 DEF Kinds, Removal
    <3>4. Files' \subseteq Files \ {f}
      BY <3>1, Ranges DEF Files, RecordFile, TypeOK, Parts
    <3>5. Removal' /\ OneAtATime'
      BY <1>0, <3>1, <3>2, <3>3, <3>4 DEF Removal, OneAtATime, Current
    <3>6. QED
      BY <1>0, <3>2, <3>3, <3>5 DEF Smooth
  <2>2. CASE Rmdir
    <3>1. removing # "no" /\ status = "collected" /\ Files = {}
      BY <1>0, <2>2 DEF Rmdir, Removal
    <3>2. closing = "done" /\ \A c \in Calls : stage[c] # "written"
      <4>1. closing = "done" /\ part = NParts + 1
        BY <3>1 DEF Smooth
      <4>2. ASSUME NEW c \in Calls PROVE stage[c] # "written"
        BY <1>0, <4>1, Ranges DEF OneAtATime, Parts
      <4>3. QED
        BY <4>1, <4>2
    <3>3. ~Occupied
      BY <3>1, <3>2 DEF Occupied
    <3>4. /\ removing' = "no"
          /\ UNCHANGED <<kind, torn, status, part, attempt, stage, closing, expired, wronged, ended,
                         faults>>
      BY <2>2, <3>3 DEF Rmdir, senderVars
    <3>5. Removal' /\ OneAtATime'
      BY <1>0, <3>1, <3>4 DEF Removal, OneAtATime, Current
    <3>6. QED
      BY <1>0, <3>1, <3>2, <3>4, <3>5 DEF Smooth
  <2>3. CASE Sweep
    BY <1>0, <2>3 DEF Sweep
  <2>4. QED
    BY <1>5, <2>1, <2>2, <2>3 DEF Clean, Destroyed, KvExpire
<1>6. CASE PutPart
  <2>1. /\ status = "uploading" /\ part <= NParts /\ status' = "waiting"
        /\ stage[Current] = "none" /\ stage' = [stage EXCEPT ![Current] = "sent"]
        /\ UNCHANGED <<kind, meta, parts, copy, closing, closingCopy, part, attempt, expired,
                       wronged, ended, faults, dirVars>>
    BY <1>6 DEF PutPart, At
  <2>2. Current' = Current /\ Current \in Calls /\ Current[1] = part /\ Current[2] = 1
    BY <1>0, <2>1, Ranges DEF Current
  <2>3. \A d \in Calls : stage'[d] = IF d = Current THEN "sent" ELSE stage[d]
    BY <2>1 DEF TypeOK
  <2>4. OneAtATime'
    <3>1. ASSUME NEW d \in Calls, d # Current
          PROVE  stage'[d] = stage[d] /\ (d[1] = part => d[2] # 1)
      BY <1>0, <2>2, <2>3, <3>1, Ranges DEF Calls, Current
    <3>2. QED
      BY <1>0, <2>1, <2>2, <2>3, <3>1 DEF OneAtATime
  <2>5. meta # None /\ closing = "none" /\ Progress
    BY <2>1 DEF Smooth
  <2>6. Progress'
    BY <2>1, <2>2, <2>3, <2>5 DEF Progress
  <2>7. QED
    BY <1>0, <1>r, <2>1, <2>4, <2>5, <2>6 DEF Smooth
<1>7. CASE PartDone
  <2>1. /\ status = "waiting" /\ stage[Current] = "done" /\ status' = "uploading"
        /\ part' = part + 1 /\ attempt' = 1 /\ part <= NParts
        /\ UNCHANGED <<kind, meta, parts, copy, stage, closing, closingCopy, expired, wronged,
                       ended, faults, dirVars>>
    BY <1>7 DEF PartDone, Asking
  <2>2. Current \in Calls /\ Current[1] = part /\ Current[2] = 1
    BY <1>0, <2>1, Ranges DEF Current
  <2>3. OneAtATime'
    <3>1. ASSUME NEW d \in Calls, d[2] = 1, d[1] < part + 1 PROVE stage[d] = "done"
      <4>1. d[1] < part \/ d = Current
        BY <1>0, <3>1, Ranges DEF Calls, Current, Parts
      <4>2. QED
        BY <1>0, <2>1, <3>1, <4>1 DEF OneAtATime
    <3>2. ASSUME NEW d \in Calls, d[2] # 1 \/ d[1] >= part + 1 PROVE stage[d] = "none"
      BY <1>0, <3>2, Ranges DEF OneAtATime, Parts
    <3>3. QED
      BY <1>0, <2>1, <3>1, <3>2, Ranges DEF OneAtATime, Parts
  <2>4. meta # None /\ closing = "none" /\ Progress
    BY <2>1 DEF Smooth
  <2>5. parts = 1..part /\ meta.received = part /\ ~meta.complete
    BY <1>0, <2>1, <2>4 DEF Progress
  <2>6. Progress'
    <3>1. parts' = 1..(part' - 1) /\ meta'.received = part' - 1 /\ ~meta'.complete
      BY <1>0, <2>1, <2>5
    <3>2. QED
      BY <2>1, <3>1 DEF Progress
  <2>7. QED
    BY <1>0, <1>r, <2>1, <2>3, <2>4, <2>6 DEF Smooth
<1>8. CASE PartFails
  <2>1. status = "waiting" /\ stage[Current] \in {"refused", "dead"}
    BY <1>0, <1>8, Ranges DEF PartFails
  <2>2. Current \in Calls
    BY <2>1, Ranges DEF Asking
  <2>3. QED
    BY <1>0, <2>1, <2>2 DEF OneAtATime
<1>9. CASE Complete
  <2>1. /\ status = "uploading" /\ part > NParts /\ status' = "completing" /\ closing' = "sent"
        /\ UNCHANGED <<kind, meta, stage, part, attempt, expired, wronged, ended, faults, dirVars>>
    BY <1>9 DEF Complete
  <2>2. part = NParts + 1 /\ meta # None /\ meta.received = part - 1
    BY <1>0, <2>1 DEF Smooth, Progress
  <2>3. OneAtATime'
    BY <1>3, <2>1
  <2>4. meta.received >= NParts
    BY <1>0, <2>2
  <2>5. QED
    BY <1>0, <1>r, <2>1, <2>2, <2>3, <2>4 DEF Smooth
<1>10. CASE Completed
  <2>1. /\ status = "completing" /\ closing = "done" /\ status' = "mailed" /\ part = NParts + 1
        /\ UNCHANGED <<kind, stage, closing, part, attempt, expired, wronged, ended, faults, dirVars>>
    BY <1>0, <1>10, Ranges DEF Completed, Smooth
  <2>2. QED
    BY <1>0, <1>3, <1>r, <2>1 DEF Smooth
<1>11. CASE Delete
  <2>1. /\ status = "mailed" /\ closing = "done" /\ status' = "collected" /\ part = NParts + 1
        /\ UNCHANGED <<kind, stage, closing, part, attempt, expired, wronged, ended, faults>>
    BY <1>11 DEF Delete, Smooth
  <2>2. removing = "no"
    BY <1>0, <2>1 DEF Removal
  <2>3. Removed("request")
    BY <1>11 DEF Delete
  <2>4. CASE meta = None /\ UNCHANGED storeVars
    BY <1>0, <1>3, <2>1, <2>2, <2>4 DEF Smooth, Removal
  <2>5. CASE listed' = Files /\ UNCHANGED <<parts, meta, torn>>
    <3>1. Files' \subseteq listed'
      BY <2>5 DEF Files
    <3>2. QED
      BY <1>0, <1>3, <2>1, <2>5, <3>1 DEF Smooth, Removal
  <2>6. QED
    BY <2>3, <2>4, <2>5 DEF Removed
<1>12. CASE Expire \/ Crash
  BY <1>12, Ranges DEF Expire, Crash
<1>13. QED
  BY <1>4, <1>5, <1>6, <1>7, <1>8, <1>9, <1>10, <1>11, <1>12 DEF Send

LEMMA SmoothNext ==
  ASSUME TypeOK, Asking, Kinds, Smooth, [Next]_vars
  PROVE  Smooth'
<1>1. kind' = kind /\ (faults' = 0 => faults = 0)
  BY Ranges DEF vars, Next, Close, CheckComplete, ReadComplete, WriteComplete, CompleteNothing,
     Clean, Unlink, Rmdir, Destroyed, Sweep, KvExpire, Send, PutPart, PartDone, PartFails, Complete, Completed,
     Delete, Expire, Crash, Serve, CheckPart, ReadMeta, StatPart, WritePart, WriteMeta, PutBytes,
     Received
<1>2. CASE ~(kind = "disk" /\ faults = 0 /\ faults' = 0)
  BY <1>1, <1>2 DEF Smooth
<1>3. CASE kind = "disk" /\ faults = 0 /\ faults' = 0
  <2>1. CASE UNCHANGED vars
    <3>1. UNCHANGED <<status, part, attempt, Current>>
      BY <2>1 DEF vars, senderVars, Current
    <3>2. /\ OneAtATime => OneAtATime'
          /\ Progress => Progress'
          /\ Removal => Removal'
      BY <2>1, <3>1
      DEF vars, storeVars, dirVars, callVars, OneAtATime, Progress, Removal, Files
    <3>3. QED
      BY <2>1, <3>1, <3>2 DEF vars, storeVars, dirVars, callVars, closeVars, Smooth
  <2>2. QED
    BY <1>3, <2>1, SmoothServe, SmoothOther DEF Next
<1>4. QED
  BY <1>2, <1>3

-----------------------------------------------------------------------------
(* The theorems. *)

LEMMA SoundInit == Init => StoreSound
<1> SUFFICES ASSUME Init PROVE StoreSound
  OBVIOUS
<1>1. TypeOK /\ Asking
  BY TypeInit
<1>2. /\ meta.received = 0 /\ ~meta.complete /\ parts = {} /\ counted = {}
      /\ part = 1 /\ 1..(part - 1) = {} /\ closing = "none" /\ status = "uploading"
      /\ \A c \in Calls : stage[c] = "none"
  BY DEF Init, Fresh
<1>3. meta # None
  BY Recorded DEF Init, Fresh, Records
<1>4. Cardinality(parts) = 0 /\ Cardinality(counted) = 0
  BY <1>2, FS_EmptySet
<1>5. Backed
  BY <1>2, <1>4 DEF Backed, CallBacked
<1>6. Counting
  BY <1>2, <1>4 DEF Counting
<1>7. OneAtATime
  BY <1>2, Ranges, <1>1 DEF OneAtATime, Init, Parts
<1>8. Progress
  BY <1>2 DEF Progress
<1>9. Kinds /\ ObjectSound
  BY <1>2, <1>3 DEF Init, Kinds, ObjectSound
<1>10. Smooth
  BY <1>2, <1>3, <1>7, <1>8 DEF Smooth, Removal, Init
<1>11. QED
  BY <1>1, <1>5, <1>6, <1>9, <1>10 DEF StoreSound

LEMMA SoundNext ==
  ASSUME StoreSound, [Next]_vars
  PROVE  StoreSound'
<1>1. TypeOK' /\ Asking' /\ Kinds' /\ Counting' /\ ObjectSound' /\ Smooth'
  BY TypeNext, KindsNext, CountingNext, ObjectNext, SmoothNext DEF StoreSound
<1>2. Backed'
  <2>1. CASE UNCHANGED vars
    BY <2>1
    DEF StoreSound, vars, storeVars, dirVars, callVars, closeVars, Backed, CallBacked, Stands
  <2>2. CASE ~Stands'
    BY <2>2 DEF Backed
  <2>3. CASE Stands' /\ Next
    BY <1>1, <2>3, StandsBefore, BackedServe, BackedOther DEF StoreSound, Next
  <2>4. QED
    BY <2>1, <2>2, <2>3
<1>3. QED
  BY <1>1, <1>2 DEF StoreSound

\* The inductive invariant of both stores.
THEOREM StoreInvariant == Spec => []StoreSound
<1>1. StoreSound /\ [Next]_vars => StoreSound'
  BY SoundNext
<1>2. QED
  BY <1>1, SoundInit, PTL DEF Spec

\* A record that no removal has touched never counts a part whose bytes are not
\* stored, and is complete only with all of them.
THEOREM CountCorrect == Spec => []CountIsBacked
<1>1. StoreSound => CountIsBacked
  BY DEF StoreSound, Backed, CountIsBacked
<1>2. QED
  BY <1>1, StoreInvariant, PTL

\* The object never refuses a whole blob; the disk store neither, nor does a
\* request end the server or a removal fail half way, while nothing goes wrong.
THEOREM StoreCorrect == Spec => []SoundWithoutFaults
<1>1. StoreSound => SoundWithoutFaults
  BY DEF StoreSound, ObjectSound, Smooth, SoundWithoutFaults, TypeOK
<1>2. QED
  BY <1>1, StoreInvariant, PTL
=============================================================================
