------------------------------ MODULE ShareQueue ------------------------------
(* Files the operating system hands to the app: what the shell holds for it    *)
(* (inbox.rs on the desktop, ShareTargetPlugin.java on the phone), the page     *)
(* that takes them at its start and on each notice, and the send queue          *)
(* (main.js, host.js, shares.js).                                               *)
EXTENDS Integers, Sequences, FiniteSets, SequencesExt

CONSTANTS
  Shares,
  ShareFaults \* bound on reloads of the page and on takes that fail

VARIABLES
  os,        \* "desktop", which drains its list, or "phone", which lists what is not released
  coming,    \* files not yet shared
  held,      \* what the shell holds
  notices,   \* events the page has not handled
  booted,    \* how far the page's start is: "off", "taking", "taken" or "listening"
  answers,   \* the lists on their way to the page
  queue,     \* state.pending
  sending,   \* what each sendTo() still has to send
  sent,      \* sent[s]: how often s was read and sent
  failed,    \* files a send of which failed: the row says so, and has no source
  queued,    \* queued[s]: how often s was put in the queue since the page loaded
  dropped,   \* files the user cleared, and the desktop's that went with the page
  shareFaults

vars == <<os, coming, held, notices, booted, answers, queue, sending, sent, failed, queued, dropped, shareFaults>>

Init ==
  /\ os \in {"desktop", "phone"}
  /\ coming = Shares /\ held = {} /\ notices = 0
  /\ booted = "off" /\ answers = << >> /\ queue = << >> /\ sending = << >>
  /\ sent = [s \in Shares |-> 0] /\ failed = {} /\ queued = [s \in Shares |-> 0]
  /\ dropped = {} /\ shareFaults = 0

\* The desktop's event is lost on a page that does not listen, the phone's kept.
Share(s) ==
  /\ s \in coming
  /\ coming' = coming \ {s}
  /\ held' = held \union {s}
  /\ notices' = IF os = "phone" \/ booted = "listening" THEN notices + 1 ELSE notices
  /\ UNCHANGED <<os, booted, answers, queue, sending, sent, failed, queued, dropped, shareFaults>>

\* Slip: the desktop lists what it holds, as the phone does.
Peeked == held

\* What is left in the shell when its list has been taken.
LeftBy == IF os = "desktop" THEN {} ELSE held

\* takeShares(), at the start of the page or for a notice; a call that fails is
\* answered with an empty list.
Take ==
  /\ \/ booted = "off" /\ booted' = "taking" /\ UNCHANGED notices
     \/ booted = "listening" /\ notices > 0 /\ notices' = notices - 1 /\ UNCHANGED booted
  /\ \/ answers' = Append(answers, held) /\ held' = LeftBy /\ UNCHANGED shareFaults
     \/ /\ shareFaults < ShareFaults /\ shareFaults' = shareFaults + 1
        /\ answers' = Append(answers, {}) /\ UNCHANGED held
  /\ UNCHANGED <<os, coming, queue, sending, sent, failed, queued, dropped>>

\* The answer, and addSources().
Taken ==
  /\ answers # << >>
  /\ answers' = Tail(answers)
  /\ booted' = IF booted = "taking" THEN "taken" ELSE booted
  /\ queue' = queue \o SetToSeq(Head(answers))
  /\ queued' = [s \in Shares |-> IF s \in Head(answers) THEN queued[s] + 1 ELSE queued[s]]
  /\ UNCHANGED <<os, coming, held, notices, sending, sent, failed, dropped, shareFaults>>

Listen ==
  /\ booted = "taken"
  /\ booted' = "listening"
  /\ UNCHANGED <<os, coming, held, notices, answers, queue, sending, sent, failed, queued, dropped, shareFaults>>

\* onClear() closes what it clears, which releases it on the phone.
ClearQueue ==
  /\ queue # << >>
  /\ queue' = << >> /\ held' = held \ ToSet(queue) /\ dropped' = dropped \union ToSet(queue)
  /\ UNCHANGED <<os, coming, notices, booted, answers, sending, sent, failed, queued, shareFaults>>

\* sendTo() takes the whole queue before it sends the first file.
SendTo ==
  /\ queue # << >>
  /\ sending' = Append(sending, queue) /\ queue' = << >>
  /\ UNCHANGED <<os, coming, held, notices, booted, answers, sent, failed, queued, dropped, shareFaults>>

\* Sent or failed, the source is closed, which releases it on the phone.
Finish(i) ==
  /\ sending[i] # << >>
  /\ sending' = [sending EXCEPT ![i] = Tail(@)]
  /\ held' = held \ {Head(sending[i])}
  /\ UNCHANGED <<os, coming, notices, booted, answers, queue, queued, dropped, shareFaults>>

\* On the phone a source that was released before cannot be read.
SendOne(i) ==
  /\ Finish(i)
  /\ os = "desktop" \/ Head(sending[i]) \in held
  /\ sent' = [sent EXCEPT ![Head(sending[i])] = @ + 1]
  /\ UNCHANGED failed

\* client.send() throws: the file must be shared again.
SendFails(i) ==
  /\ Finish(i)
  /\ failed' = failed \union {Head(sending[i])}
  /\ UNCHANGED sent

\* The page goes; the shell keeps what it still holds.
OnPage ==
  ToSet(queue) \union (UNION {ToSet(q) : q \in ToSet(sending)}) \union (UNION ToSet(answers))

Reload ==
  /\ shareFaults < ShareFaults
  /\ shareFaults' = shareFaults + 1
  /\ booted' = "off" /\ answers' = << >> /\ queue' = << >> /\ sending' = << >>
  /\ notices' = 0
  /\ dropped' = IF os = "desktop" THEN dropped \union OnPage ELSE dropped
  /\ queued' = [s \in Shares |-> 0]
  /\ UNCHANGED <<os, coming, held, sent, failed>>

Page ==
  \/ Take \/ Taken \/ Listen \/ ClearQueue \/ SendTo
  \/ \E i \in DOMAIN sending : SendOne(i) \/ SendFails(i)

Next == Page \/ Reload \/ \E s \in Shares : Share(s)

Spec == Init /\ [][Next]_vars
-----------------------------------------------------------------------------
(* Properties. *)

TypeOK ==
  /\ os \in {"desktop", "phone"} /\ booted \in {"off", "taking", "taken", "listening"}
  /\ coming \subseteq Shares /\ held \subseteq Shares
  /\ dropped \subseteq Shares /\ failed \subseteq Shares
  /\ notices \in 0..Cardinality(Shares) /\ answers \in Seq(SUBSET Shares)
  /\ queue \in Seq(Shares) /\ sending \in Seq(Seq(Shares))
  /\ sent \in [Shares -> Nat] /\ queued \in [Shares -> Nat]
  /\ shareFaults \in 0..ShareFaults

\* A shared file is with the shell, on the page or sent, or a send of it failed
\* and its row says so, unless the user cleared it or the desktop's page went with
\* it; the desktop queues each once, however often the page loads (inbox.rs
\* inbox_take), and one it sends is sent once and not called failed.
ShareIsKept ==
  \A s \in Shares \ coming :
    /\ s \in held \union OnPage \union dropped \union failed \/ sent[s] > 0
    /\ os = "desktop" => queued[s] <= 1 /\ sent[s] <= 1 /\ (s \in failed => sent[s] = 0)
=============================================================================
