---------------------------- MODULE ReceivedFiles ----------------------------
(* What the desktop app does with a file that has arrived: its row in the     *)
(* activity list (main.js), the bytes staged in OPFS (sinks.js), the automatic *)
(* save and the Save button (main.js, host.js), and the file table of the      *)
(* shell, which writes <target>.part and renames it (files.rs).                *)
EXTENDS Integers, FiniteSets

CONSTANTS
  Files, Names,
  Pressed,    \* files whose Save button is pressed
  Slices,     \* slices a save copies
  FileFaults, \* bound on reloads and failed writes
  None

Saves == (Files \X {"auto"}) \union (Pressed \X {"hand"})
Paths == Names \X (0..Cardinality(Saves))

VARIABLES
  got,      \* got[f]: what the protocol has said of f
  name,     \* the name f was sent under, or the one the model suggested
  row,      \* state.transfers
  history,  \* HISTORY_KEY
  staged,   \* files whose bytes OPFS holds
  stage,    \* stage[s]: how far save s is
  path,     \* path[s]: the target it chose
  written,  \* slices it has appended
  handle,   \* the file it writes into, named for the save that created it
  temp, final, \* the file at p.part, and at p
  content,  \* content[i][k]: whose slice k the file i holds
  cleared,  \* files whose finished row the user cleared
  clashed,  \* paths two saves were writing at once
  fileFaults

shell == <<path, written, handle, temp, final, content, clashed>>
page == <<got, name, row, history, staged, cleared>>
vars == <<page, shell, stage, fileFaults>>

Blank == [state |-> "active", result |-> FALSE, saved |-> None]
Empty == [k \in 1..Slices |-> None]

Init ==
  /\ got = [f \in Files |-> "no"] /\ name \in [Files -> Names]
  /\ row = [f \in Files |-> None] /\ history = [f \in Files |-> None]
  /\ staged = {} /\ cleared = {} /\ clashed = {}
  /\ stage = [s \in Saves |-> "idle"]
  /\ path = [s \in Saves |-> None] /\ written = [s \in Saves |-> 0]
  /\ handle = [s \in Saves |-> None]
  /\ temp = [p \in Paths |-> None] /\ final = [p \in Paths |-> None]
  /\ content = [s \in Saves |-> Empty]
  /\ fileFaults = 0

-----------------------------------------------------------------------------
(* The rows. *)

Finished(r) == r # None /\ r.state \in {"complete", "failed"}

\* A row that is kept has no handle on its bytes.
SaveHistory(rows) ==
  history' = [f \in Files |-> IF Finished(rows[f]) THEN [rows[f] EXCEPT !.result = FALSE] ELSE None]

\* A row that is not there begins with the defaults.
Existing(f) == IF row[f] = None THEN Blank ELSE row[f]

\* A patch to a row that is not there makes one.
Upsert(f, patched) == row' = [row EXCEPT ![f] = patched]

\* "offered", "collecting", "progress".
Offer(f) ==
  /\ got[f] = "no"
  /\ got' = [got EXCEPT ![f] = "coming"]
  /\ Upsert(f, [Existing(f) EXCEPT !.state = "active"])
  /\ UNCHANGED <<name, history, staged, cleared, shell, stage, fileFaults>>

\* The sink has closed: "complete" or "collected", and the automatic save.
Complete(f) ==
  /\ got[f] = "coming"
  /\ got' = [got EXCEPT ![f] = "arrived"]
  /\ staged' = staged \union {f}
  /\ Upsert(f, [Existing(f) EXCEPT !.state = "complete", !.result = TRUE])
  /\ SaveHistory(row')
  /\ stage' = [stage EXCEPT ![<<f, "auto">>] = "naming"]
  /\ UNCHANGED <<name, cleared, shell, fileFaults>>

Fail(f) ==
  /\ got[f] = "coming"
  /\ got' = [got EXCEPT ![f] = "ended"]
  /\ Upsert(f, [Existing(f) EXCEPT !.state = "failed"])
  /\ SaveHistory(row')
  /\ UNCHANGED <<name, staged, cleared, shell, stage, fileFaults>>

\* The model's answer to the automatic save of a file.
Suggest(f, n) ==
  /\ stage[<<f, "auto">>] = "naming"
  /\ stage' = [stage EXCEPT ![<<f, "auto">>] = "saving"]
  /\ name' = [name EXCEPT ![f] = n]
  /\ Upsert(f, Existing(f))
  /\ UNCHANGED <<got, history, staged, cleared, shell, fileFaults>>

\* The Save button of a row, pressed once a file.
Press(f) ==
  /\ f \in Pressed
  /\ row[f] # None /\ row[f].state = "complete" /\ row[f].result
  /\ stage[<<f, "hand">>] = "idle"
  /\ stage' = [stage EXCEPT ![<<f, "hand">>] = "saving"]
  /\ UNCHANGED <<page, shell, fileFaults>>

Clear ==
  LET rows == {f \in Files : Finished(row[f])} IN
  /\ rows # {}
  /\ staged' = staged \ {f \in rows : row[f].result}
  /\ row' = [f \in Files |-> IF f \in rows THEN None ELSE row[f]]
  /\ SaveHistory(row')
  /\ cleared' = cleared \union rows
  /\ UNCHANGED <<got, name, shell, stage, fileFaults>>

\* The page goes, and comes back with what it kept of its rows.
Reload ==
  /\ fileFaults < FileFaults
  /\ fileFaults' = fileFaults + 1
  /\ got' = [f \in Files |-> IF got[f] = "coming" THEN "ended" ELSE got[f]]
  /\ row' = history
  /\ stage' = [s \in Saves |-> IF stage[s] = "idle" THEN "idle" ELSE "ended"]
  /\ UNCHANGED <<name, history, staged, cleared, shell>>

-----------------------------------------------------------------------------
(* host.save() and the shell's commands. *)

Writing(s) == stage[s] = "writing"

\* Slip: what has that name is written over.
NamedPath(n) == <<n, 0>>

\* The first candidate that does not exist.
UniquePath(n) ==
  <<n, CHOOSE i \in 0..Cardinality(Saves) :
         final[<<n, i>>] = None /\ \A j \in 0..(i - 1) : final[<<n, j>>] # None>>

\* Creating a file that exists empties it, for whoever has it open too.
Create(s, p) ==
  LET i == IF temp[p] = None THEN s ELSE temp[p] IN
  /\ temp' = [temp EXCEPT ![p] = i]
  /\ handle' = [handle EXCEPT ![s] = i]
  /\ content' = [content EXCEPT ![i] = Empty]

FileBegin(s) ==
  LET p == UniquePath(name[s[1]]) IN
  /\ stage[s] \in {"naming", "saving"}
  /\ Create(s, p)
  /\ path' = [path EXCEPT ![s] = p]
  /\ clashed' = IF \E t \in Saves : Writing(t) /\ path[t] = p THEN clashed \union {p} ELSE clashed
  /\ stage' = [stage EXCEPT ![s] = "writing"]
  /\ UNCHANGED <<page, written, final, fileFaults>>

FileAppend(s) ==
  /\ Writing(s) /\ written[s] < Slices /\ s[1] \in staged
  /\ content' = [content EXCEPT ![handle[s]][written[s] + 1] = s[1]]
  /\ written' = [written EXCEPT ![s] = @ + 1]
  /\ UNCHANGED <<page, path, handle, temp, final, clashed, stage, fileFaults>>

\* A slice that cannot be read or written: whatever is at the .part goes.
FileAbort(s) ==
  /\ Writing(s) /\ written[s] < Slices
  /\ \/ s[1] \notin staged /\ UNCHANGED fileFaults
     \/ fileFaults < FileFaults /\ fileFaults' = fileFaults + 1
  /\ temp' = [temp EXCEPT ![path[s]] = None]
  /\ stage' = [stage EXCEPT ![s] = "failed"]
  /\ UNCHANGED <<page, path, written, handle, final, content, clashed>>

FileFinish(s) ==
  LET p == path[s] IN
  /\ Writing(s) /\ written[s] = Slices
  /\ IF temp[p] # None
     THEN /\ final' = [final EXCEPT ![p] = temp[p]] /\ temp' = [temp EXCEPT ![p] = None]
          /\ stage' = [stage EXCEPT ![s] = "finished"]
     ELSE stage' = [stage EXCEPT ![s] = "failed"] /\ UNCHANGED <<final, temp>>
  /\ UNCHANGED <<page, path, written, handle, content, clashed, fileFaults>>

Release(s) ==
  /\ stage[s] = "finished"
  /\ stage' = [stage EXCEPT ![s] = "released"]
  /\ staged' = staged \ {s[1]}
  /\ UNCHANGED <<got, name, row, history, cleared, shell, fileFaults>>

Saved(s) ==
  /\ stage[s] = "released"
  /\ stage' = [stage EXCEPT ![s] = "done"]
  /\ Upsert(s[1], [Existing(s[1]) EXCEPT !.saved = path[s]])
  /\ SaveHistory(row')
  /\ UNCHANGED <<got, name, staged, cleared, shell, fileFaults>>

Save(s) == FileBegin(s) \/ FileAppend(s) \/ FileAbort(s) \/ FileFinish(s) \/ Release(s) \/ Saved(s)

Next ==
  \/ \E f \in Files : Offer(f) \/ Complete(f) \/ Fail(f) \/ Press(f) \/ \E n \in Names : Suggest(f, n)
  \/ \E s \in Saves : Save(s)
  \/ Clear \/ Reload

Spec == Init /\ [][Next]_vars

-----------------------------------------------------------------------------
(* Properties. *)

Rows == [state : {"active", "complete", "failed"}, result : BOOLEAN, saved : Paths \union {None}]

TypeOK ==
  /\ got \in [Files -> {"no", "coming", "arrived", "ended"}] /\ name \in [Files -> Names]
  /\ row \in [Files -> Rows \union {None}] /\ history \in [Files -> Rows \union {None}]
  /\ staged \subseteq Files /\ cleared \subseteq Files /\ clashed \subseteq Paths
  /\ stage \in [Saves ->
       {"idle", "naming", "saving", "writing", "finished", "released", "done", "failed", "ended"}]
  /\ path \in [Saves -> Paths \union {None}] /\ written \in [Saves -> 0..Slices]
  /\ handle \in [Saves -> Saves \union {None}]
  /\ temp \in [Paths -> Saves \union {None}] /\ final \in [Paths -> Saves \union {None}]
  /\ content \in [Saves -> [1..Slices -> Files \union {None}]]

Whole(f, p) == final[p] # None /\ \A k \in 1..Slices : content[final[p]][k] = f

\* A row that names a path has all of its file there.
SavedIsWhole ==
  \A f \in Files : row[f] # None /\ row[f].saved # None => Whole(f, row[f].saved)

\* A file that has arrived, and so was acknowledged to its sender, is staged or
\* whole on disk, and a row names only a path where it is whole. The exceptions
\* are the user's clearing its row, also while it is still being saved, and two
\* saves that chose the same path.
ArrivedIsKept ==
  \A f \in Files :
    /\ got[f] = "arrived" =>
         \/ f \in staged \union cleared
         \/ \E p \in Paths : Whole(f, p)
         \/ \E s \in Saves : s[1] = f /\ path[s] \in clashed
    /\ row[f] # None /\ row[f].saved # None =>
         row[f].saved \in clashed \/ Whole(f, row[f].saved)
=============================================================================
