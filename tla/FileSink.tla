------------------------------- MODULE FileSink -------------------------------
(* Where the bytes of an arriving file are gathered before they are written:   *)
(* the sink in OPFS (app/sinks.js) and the sink in a directory                  *)
(* (cli/lib/nodeio.js). The session writes one chunk after the other, but may   *)
(* abort the sink at any moment (transfer.js close()). A byte is the position   *)
(* it has in the file.                                                          *)
EXTENDS Integers, Sequences

CONSTANTS ChunkSize, FileSize, WriteBatch, None

Chunks == 0..((FileSize - 1) \div ChunkSize)
Positions == 0..(FileSize - 1)

VARIABLES
  kind,       \* "opfs" or "node"
  came,       \* chunks handed to write()
  batch, batchStart,
  flush,      \* the write under way, and the chunk that waits for it
  disk,       \* disk[p]: the byte at p
  at,         \* "open", "verifying" the digest, "closing", "renaming", "closed" or "failed"
  aborted,    \* "no", "begun" or "done"
  temp,       \* the .part file, or the OPFS entry
  target      \* the file has its name

vars == <<kind, came, batch, batchStart, flush, disk, at, aborted, temp, target>>

Init ==
  /\ kind \in {"opfs", "node"}
  /\ came = {} /\ batch = << >> /\ batchStart = 0 /\ flush = None
  /\ disk = [p \in Positions |-> None]
  /\ at = "open" /\ aborted = "no" /\ temp = TRUE /\ target = FALSE

Smaller(a, b) == IF a < b THEN a ELSE b

Bytes(c) ==
  [k \in 1..(Smaller(FileSize, (c + 1) * ChunkSize) - c * ChunkSize) |-> c * ChunkSize + k - 1]

\* batch.set(), after any flush; b is what the batch still held.
Gather(c, b) ==
  LET start == IF b = << >> THEN c * ChunkSize ELSE batchStart
      all == b \o Bytes(c) IN
  /\ batch' = all /\ batchStart' = start
  /\ flush' = IF Len(all) >= WriteBatch THEN [start |-> start, bytes |-> all, chunk |-> None] ELSE None

\* Slip: whatever comes is taken to continue the run.
Follows(c) == TRUE

Continues(c) == batch = << >> \/ c * ChunkSize = batchStart + Len(batch)

\* write(), until it waits for a flush.
Write(c) ==
  /\ at = "open" /\ aborted = "no" /\ flush = None /\ c \notin came
  /\ came' = came \union {c}
  /\ IF Continues(c)
     THEN Gather(c, batch)
     ELSE /\ flush' = [start |-> batchStart, bytes |-> batch, chunk |-> c]
          /\ UNCHANGED <<batch, batchStart>>
  /\ UNCHANGED <<kind, disk, at, aborted, temp, target>>

\* The write has reached the file. An abort meanwhile has emptied the batch.
Flushed ==
  /\ flush # None
  /\ disk' = [p \in Positions |->
       IF p - flush.start \in 0..(Len(flush.bytes) - 1) THEN flush.bytes[p - flush.start + 1] ELSE disk[p]]
  /\ IF flush.chunk = None
     THEN batch' = << >> /\ flush' = None /\ UNCHANGED batchStart
     ELSE Gather(flush.chunk, << >>)
  /\ at' = IF at = "closing" THEN "renaming" ELSE at
  /\ UNCHANGED <<kind, came, aborted, temp, target>>

\* The sender is done; its digest is compared before close() is called.
Verify ==
  /\ at = "open" /\ aborted = "no" /\ came = Chunks /\ flush = None
  /\ at' = "verifying"
  /\ UNCHANGED <<kind, came, batch, batchStart, flush, disk, aborted, temp, target>>

Close ==
  /\ at = "verifying"
  /\ IF batch = << >>
     THEN at' = "renaming" /\ UNCHANGED flush
     ELSE /\ at' = "closing"
          /\ flush' = [start |-> batchStart, bytes |-> batch, chunk |-> None]
  /\ UNCHANGED <<kind, came, batch, batchStart, disk, aborted, temp, target>>

\* An aborted OPFS stream cannot be closed; a directory's .part can be renamed
\* until the abort has removed it.
Rename ==
  LET can == IF kind = "opfs" THEN aborted = "no" ELSE temp IN
  /\ at = "renaming"
  /\ at' = IF can THEN "closed" ELSE "failed"
  /\ target' = can
  /\ temp' = (temp /\ ~can)
  /\ UNCHANGED <<kind, came, batch, batchStart, flush, disk, aborted>>

Abort ==
  /\ aborted = "no" /\ at \notin {"closed", "failed"}
  /\ aborted' = "begun" /\ batch' = << >>
  /\ UNCHANGED <<kind, came, batchStart, flush, disk, at, temp, target>>

\* The stream or the handle is closed, and the entry goes.
Remove ==
  /\ aborted = "begun"
  /\ kind = "node" => flush = None
  /\ aborted' = "done" /\ temp' = FALSE
  /\ UNCHANGED <<kind, came, batch, batchStart, flush, disk, at, target>>

Next == (\E c \in Chunks : Write(c)) \/ Flushed \/ Verify \/ Close \/ Rename \/ Abort \/ Remove

Spec == Init /\ [][Next]_vars

-----------------------------------------------------------------------------
(* Properties. *)

TypeOK ==
  /\ kind \in {"opfs", "node"} /\ came \subseteq Chunks
  /\ batch \in Seq(Positions) /\ batchStart \in Positions
  /\ flush = None \/ flush \in [start : Positions, bytes : Seq(Positions), chunk : Chunks \union {None}]
  /\ disk \in [Positions -> Positions \union {None}]
  /\ at \in {"open", "verifying", "closing", "renaming", "closed", "failed"}
  /\ aborted \in {"no", "begun", "done"} /\ {temp, target} \subseteq BOOLEAN

\* The position p of the file is in the batch, with its byte.
Gathered(p) == p - batchStart \in 0..(Len(batch) - 1) /\ batch[p - batchStart + 1] = p

Waits(p) == flush # None /\ flush.chunk # None /\ p \div ChunkSize = flush.chunk

\* In whatever order chunks come, each byte is at its place in the file, or in
\* the batch at what will be its place, and the file that gets its name holds all
\* of them; an aborted sink keeps nothing but what it had already renamed.
SinkIsExact ==
  /\ aborted = "no" =>
       /\ \A p \in Positions : p \div ChunkSize \in came /\ ~Waits(p) => disk[p] = p \/ Gathered(p)
       /\ target => \A p \in Positions : disk[p] = p
  /\ aborted = "done" => ~temp
=============================================================================
