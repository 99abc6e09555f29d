---------------------------- MODULE ModelDownload ----------------------------
(* The download of the naming model's two files by the CLI (cli/lib/llama.js): *)
(* each goes to a .part file that a later run resumes and that is renamed when  *)
(* it is whole. A file is a sequence of the positions its bytes come from.      *)
EXTENDS Integers, Sequences

CONSTANTS
  Sizes,         \* Sizes[n]: the length of file n
  DownloadFaults \* bound on connections that break and runs that are killed

Weights == DOMAIN Sizes

VARIABLES
  target, part, \* the file and its .part, << >> if there is none
  missing,      \* what this run of fetchModels() still has to fetch
  running,
  body,         \* the part of the answer still to come
  open,         \* a part is being written
  counted,      \* `written`
  downloadFaults

vars == <<target, part, missing, running, body, open, counted, downloadFaults>>

Init ==
  /\ target = [n \in Weights |-> << >>] /\ part = [n \in Weights |-> << >>]
  /\ missing = {} /\ running = FALSE
  /\ body = << >> /\ open = FALSE /\ counted = 0 /\ downloadFaults = 0

Whole(n) == [k \in 1..Sizes[n] |-> k]

FetchModels ==
  /\ ~running
  /\ running' = TRUE
  /\ missing' = {n \in Weights : target[n] = << >>}
  /\ UNCHANGED <<target, part, body, open, counted, downloadFaults>>

\* They are fetched one after the other.
IsNext(n) == n \in missing /\ \A m \in missing : n <= m

\* Slip: the answer's status is not looked at.
Hoped(resume, partial) == resume > 0

Appending(resume, partial) == resume > 0 /\ partial

\* downloadOne(): a .part at least as long as the file is thrown away. The server
\* may honour the range, or send the whole file.
Begin(n) ==
  LET resume == IF Len(part[n]) >= Sizes[n] THEN 0 ELSE Len(part[n]) IN
  /\ running /\ IsNext(n) /\ ~open
  /\ \E partial \in {FALSE} \union {resume > 0} :
       LET from == IF Appending(resume, partial) THEN resume ELSE 0 IN
       /\ body' = SubSeq(Whole(n), (IF partial THEN resume ELSE 0) + 1, Sizes[n])
       /\ part' = [part EXCEPT ![n] = SubSeq(part[n], 1, from)]
       /\ counted' = from
  /\ open' = TRUE
  /\ UNCHANGED <<target, missing, running, downloadFaults>>

Chunk(n) ==
  /\ open /\ IsNext(n) /\ body # << >>
  /\ body' = Tail(body)
  /\ part' = [part EXCEPT ![n] = Append(@, Head(body))]
  /\ counted' = counted + 1
  /\ UNCHANGED <<target, missing, running, open, downloadFaults>>

\* An answer that ends short leaves the .part to the next run.
Finish(n) ==
  /\ open /\ IsNext(n) /\ body = << >>
  /\ open' = FALSE
  /\ IF counted = Sizes[n]
     THEN /\ target' = [target EXCEPT ![n] = part[n]] /\ part' = [part EXCEPT ![n] = << >>]
          /\ missing' = missing \ {n} /\ UNCHANGED running
     ELSE running' = FALSE /\ missing' = {} /\ UNCHANGED <<target, part>>
  /\ UNCHANGED <<body, counted, downloadFaults>>

Done ==
  /\ running /\ missing = {}
  /\ running' = FALSE
  /\ UNCHANGED <<target, part, missing, body, open, counted, downloadFaults>>

\* The connection ends in the middle, with an error or without one.
Break ==
  /\ open /\ body # << >> /\ downloadFaults < DownloadFaults
  /\ downloadFaults' = downloadFaults + 1
  /\ body' = << >>
  /\ \/ UNCHANGED <<open, running, missing>>
     \/ open' = FALSE /\ running' = FALSE /\ missing' = {}
  /\ UNCHANGED <<target, part, counted>>

Kill ==
  /\ running /\ downloadFaults < DownloadFaults
  /\ downloadFaults' = downloadFaults + 1
  /\ running' = FALSE /\ missing' = {} /\ open' = FALSE /\ body' = << >>
  /\ UNCHANGED <<target, part, counted>>

Next ==
  \/ FetchModels \/ Done \/ Break \/ Kill
  \/ \E n \in Weights : Begin(n) \/ Chunk(n) \/ Finish(n)

Spec == Init /\ [][Next]_vars

-----------------------------------------------------------------------------
(* Properties. *)

TypeOK ==
  /\ \A n \in Weights : {target[n], part[n]} \subseteq Seq(1..Sizes[n])
  /\ missing \subseteq Weights /\ {running, open} \subseteq BOOLEAN
  /\ body \in Seq(Nat) /\ counted \in Nat
  /\ downloadFaults \in 0..DownloadFaults

\* What has the name of a model is that model, byte for byte, wherever downloads
\* broke off and whatever a server makes of a range.
DownloadIsWhole ==
  \A n \in Weights : target[n] = << >> \/ target[n] = Whole(n)
=============================================================================
