--------------------------------- MODULE App ---------------------------------
(* The parts of the app that are checked and proved together: the sink a file    *)
(* arrives in, received files, shares, the push token and the model download.   *)
(* They share no state, so a behaviour follows one of them and leaves the        *)
(* others where they began; that keeps the number of states their sum.           *)
EXTENDS Integers, Sequences, FiniteSets

CONSTANTS
  Files, Names, Pressed, Slices, FileFaults, None,
  Shares, ShareFaults,
  MaxTokens, PushFaults,
  Sizes, DownloadFaults,
  ChunkSize, FileSize, WriteBatch

ASSUME ShareAssumption == IsFiniteSet(Shares) /\ ShareFaults \in Nat
\* A file that arrives in chunks has a byte.
ASSUME SinkAssumption ==
  /\ ChunkSize \in Nat \ {0} /\ FileSize \in Nat \ {0} /\ WriteBatch \in Nat
  /\ None \notin Nat /\ None \notin [start : Nat, bytes : Seq(Nat), chunk : Nat \union {None}]
ASSUME PushAssumption == MaxTokens \in Nat \ {0} /\ PushFaults \in Nat
ASSUME NamerAssumption == Sizes \in Seq(Nat \ {0}) /\ DownloadFaults \in Nat

VARIABLES
  got, name, row, history, staged, stage, path, written, handle, temp, final, content,
  cleared, clashed, fileFaults,
  os, coming, held, notices, booted, answers, queue, sending, sent, failed, queued, dropped, shareFaults,
  live, asking, bridge, token, registered, ready, page, requests, next, store, stored, waking,
  forgot, overtaken, pushFaults,
  target, part, missing, running, body, open, counted, downloadFaults,
  kind, came, batch, batchStart, flush, disk, at, aborted, temporary, named,
  follows \* the part this behaviour follows

fileVars ==
  <<got, name, row, history, staged, stage, path, written, handle, temp, final, content,
    cleared, clashed, fileFaults>>
shareVars ==
  <<os, coming, held, notices, booted, answers, queue, sending, sent, failed, queued, dropped, shareFaults>>
pushVars ==
  <<live, asking, bridge, token, registered, ready, page, requests, next, store, stored, waking,
    forgot, overtaken, pushFaults>>
namerVars == <<target, part, missing, running, body, open, counted, downloadFaults>>
sinkVars == <<kind, came, batch, batchStart, flush, disk, at, aborted, temporary, named>>

Received == INSTANCE ReceivedFiles
\* None is no save and no path.
ASSUME FileAssumption ==
  /\ IsFiniteSet(Files) /\ Pressed \subseteq Files /\ Slices \in Nat /\ FileFaults \in Nat
  /\ None \notin Received!Saves /\ None \notin Received!Paths
Shared == INSTANCE ShareQueue
Push == INSTANCE PushToken
Namer == INSTANCE ModelDownload
Sink == INSTANCE FileSink WITH temp <- temporary, target <- named

Init ==
  /\ follows \in {"files", "shares", "push", "namer", "sink"}
  /\ Received!Init /\ Shared!Init /\ Push!Init /\ Namer!Init /\ Sink!Init
  \* The parts that are not followed have one initial state each.
  /\ follows # "files" => name = CHOOSE n \in [Files -> Names] : TRUE
  /\ follows # "shares" => os = "desktop"
  /\ follows # "sink" => kind = "opfs"

Next ==
  /\ UNCHANGED follows
  /\ \/ /\ follows = "files" /\ Received!Next
        /\ UNCHANGED <<shareVars, pushVars, namerVars, sinkVars>>
     \/ /\ follows = "shares" /\ Shared!Next
        /\ UNCHANGED <<fileVars, pushVars, namerVars, sinkVars>>
     \/ /\ follows = "push" /\ Push!Next
        /\ UNCHANGED <<fileVars, shareVars, namerVars, sinkVars>>
     \/ /\ follows = "namer" /\ Namer!Next
        /\ UNCHANGED <<fileVars, shareVars, pushVars, sinkVars>>
     \/ /\ follows = "sink" /\ Sink!Next
        /\ UNCHANGED <<fileVars, shareVars, pushVars, namerVars>>

Spec == Init /\ [][Next]_<<follows, fileVars, shareVars, pushVars, namerVars, sinkVars>>

\* Every variable of the five parts has its type.
TypeOK == Received!TypeOK /\ Shared!TypeOK /\ Push!TypeOK /\ Namer!TypeOK /\ Sink!TypeOK

\* A file that has arrived is staged or whole on disk (ReceivedFiles.tla).
ArrivedIsKept == Received!ArrivedIsKept

\* A shared file is with the shell, on the page, sent or reported failed
\* (ShareQueue.tla).
ShareIsKept == Shared!ShareIsKept

\* A token the page takes to be registered is the server's (PushToken.tla).
RegisteredIsHeld == Push!RegisteredIsHeld

\* The bytes of a file are at their places: an arriving one's, in whatever order
\* its chunks come (FileSink.tla), and a model's, wherever its download broke off
\* (ModelDownload.tla).
BytesAreExact == Sink!SinkIsExact /\ Namer!DownloadIsWhole
=============================================================================
