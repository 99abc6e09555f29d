------------------------------ MODULE App_proofs ------------------------------
(* Proofs about App, one part after the other, for any files, shares, tokens,   *)
(* sizes and any number of faults: in each part an invariant of its own steps    *)
(* holds, and App, whose steps are those of one part, keeps them all.            *)
EXTENDS App, FiniteSetTheorems, SequenceTheorems, WellFoundedInduction, TLAPS

-----------------------------------------------------------------------------
(* The model download. *)

\* The bytes of s are the first ones of file n.
Begins(s, n) == s \in Seq(1..Sizes[n]) /\ Len(s) <= Sizes[n] /\ \A k \in 1..Len(s) : s[k] = k

\* What is being written is the next bytes of the file that is fetched now, or
\* the answer broke off.
Continuing(n) ==
  /\ running /\ n \in Namer!Weights /\ counted = Len(part[n])
  /\ \/ body = << >>
     \/ /\ Len(body) = Sizes[n] - counted
        /\ \A k \in 1..Len(body) : body[k] = counted + k

NamerSound ==
  /\ Namer!TypeOK /\ Namer!DownloadIsWhole
  /\ \A n \in Namer!Weights : Begins(part[n], n) /\ target[n] \in Seq(1..Sizes[n])
  /\ target \in [Namer!Weights -> Seq(Nat)] /\ part \in [Namer!Weights -> Seq(Nat)]
  /\ open => \E n \in missing : Namer!IsNext(n) /\ Continuing(n)

LEMMA SizesAreLengths == \A n \in Namer!Weights : n \in Nat /\ Sizes[n] \in Nat
  BY NamerAssumption DEF Namer!Weights

LEMMA NamerInit == Namer!Init => NamerSound
<1> SUFFICES ASSUME Namer!Init PROVE NamerSound
  OBVIOUS
<1>1. /\ target = [n \in Namer!Weights |-> << >>] /\ part = [n \in Namer!Weights |-> << >>]
      /\ missing = {} /\ running = FALSE
      /\ body = << >> /\ open = FALSE /\ counted = 0 /\ downloadFaults = 0
  BY DEF Namer!Init
<1>2. \A n \in Namer!Weights : Begins(part[n], n) /\ target[n] \in Seq(1..Sizes[n]) /\ part[n] \in Seq(1..Sizes[n])
  BY <1>1, SizesAreLengths DEF Begins
<1>3. Namer!TypeOK
  <2>1. body \in Seq(Nat) /\ counted \in Nat /\ downloadFaults \in 0..DownloadFaults
    BY <1>1, NamerAssumption
  <2>2. missing \subseteq Namer!Weights /\ running \in BOOLEAN /\ open \in BOOLEAN
    BY <1>1
  <2>3. QED
    BY <1>2, <2>1, <2>2 DEF Namer!TypeOK
<1>4. QED
  BY <1>1, <1>2, <1>3 DEF NamerSound, Namer!DownloadIsWhole

LEMMA NoBytesBegin == \A n \in Namer!Weights : Begins(<< >>, n)
  BY SizesAreLengths DEF Begins

LEMMA CutBegins ==
  ASSUME NEW n \in Namer!Weights, NEW s, Begins(s, n), NEW m \in 0..Len(s)
  PROVE  Begins(SubSeq(s, 1, m), n) /\ Len(SubSeq(s, 1, m)) = m
  BY SizesAreLengths DEF Begins

LEMMA NextByteBegins ==
  ASSUME NEW n \in Namer!Weights, NEW s, Begins(s, n), Len(s) < Sizes[n]
  PROVE  Begins(Append(s, Len(s) + 1), n) /\ Len(Append(s, Len(s) + 1)) = Len(s) + 1
  BY SizesAreLengths DEF Begins

LEMMA AllBytesAreWhole ==
  ASSUME NEW n \in Namer!Weights, NEW s, Begins(s, n), Len(s) = Sizes[n]
  PROVE  s = Namer!Whole(n)
  BY SizesAreLengths DEF Begins, Namer!Whole

LEMMA RestFollows ==
  ASSUME NEW n \in Namer!Weights, NEW from \in 0..Sizes[n]
  PROVE  LET rest == SubSeq(Namer!Whole(n), from + 1, Sizes[n]) IN
         /\ rest \in Seq(Nat) /\ Len(rest) = Sizes[n] - from
         /\ \A k \in 1..Len(rest) : rest[k] = from + k
<1>1. Namer!Whole(n) \in Seq(Nat) /\ Len(Namer!Whole(n)) = Sizes[n]
  BY SizesAreLengths DEF Namer!Whole
<1>2. \A k \in 1..Sizes[n] : Namer!Whole(n)[k] = k
  BY DEF Namer!Whole
<1> DEFINE rest == SubSeq(Namer!Whole(n), from + 1, Sizes[n])
<1>3. /\ rest \in Seq(Nat) /\ Len(rest) = IF from + 1 <= Sizes[n] THEN Sizes[n] - (from + 1) + 1 ELSE 0
      /\ \A k \in 1..(Sizes[n] - (from + 1) + 1) : rest[k] = Namer!Whole(n)[from + 1 + k - 1]
  <2>1. from + 1 \in Int /\ Sizes[n] \in Int /\ \A k \in (from + 1)..Sizes[n] : Namer!Whole(n)[k] \in Nat
    BY <1>1, <1>2, SizesAreLengths
  <2>2. QED
    BY <2>1, SubSeqProperties
<1> HIDE DEF rest
<1>4. Len(rest) = Sizes[n] - from /\ \A k \in 1..Len(rest) : rest[k] = from + k
  <2>1. Len(rest) = Sizes[n] - from
    BY <1>3, SizesAreLengths
  <2>2. ASSUME NEW k \in 1..Len(rest) PROVE rest[k] = from + k
    <3>1. /\ k \in 1..(Sizes[n] - (from + 1) + 1) /\ from + 1 + k - 1 = from + k
          /\ from + k \in 1..Sizes[n]
      BY <2>1, SizesAreLengths
    <3>2. QED
      BY <1>2, <1>3, <3>1
  <2>3. QED
    BY <2>1, <2>2
<1>5. QED
  BY <1>3, <1>4 DEF rest

\* The .part of one file changes to one that begins it too.
LEMMA PartsBegin ==
  ASSUME NamerSound, NEW n \in Namer!Weights, NEW s, Begins(s, n), part' = [part EXCEPT ![n] = s]
  PROVE  /\ part' \in [Namer!Weights -> Seq(Nat)] /\ part'[n] = s
         /\ \A m \in Namer!Weights : Begins(part'[m], m) /\ part'[m] \in Seq(1..Sizes[m])
<1>1. s \in Seq(Nat)
  BY SizesAreLengths DEF Begins
<1>2. part \in [Namer!Weights -> Seq(Nat)] /\ \A m \in Namer!Weights : Begins(part[m], m)
  BY DEF NamerSound
<1>3. part' \in [Namer!Weights -> Seq(Nat)] /\ part'[n] = s /\ \A m \in Namer!Weights : m # n => part'[m] = part[m]
  BY <1>1, <1>2
<1>4. QED
  BY <1>2, <1>3 DEF Begins

LEMMA OneIsNext ==
  ASSUME NEW n \in Namer!Weights, NEW m \in Namer!Weights, Namer!IsNext(n), Namer!IsNext(m)
  PROVE  m = n
  BY SizesAreLengths DEF Namer!IsNext

LEMMA NamerBegin ==
  ASSUME NamerSound, NEW n \in Namer!Weights, Namer!Begin(n)
  PROVE  NamerSound'
<1> DEFINE resume == IF Len(part[n]) >= Sizes[n] THEN 0 ELSE Len(part[n])
<1>1. PICK partial \in {FALSE} \union {resume > 0} :
        /\ body' = SubSeq(Namer!Whole(n), (IF partial THEN resume ELSE 0) + 1, Sizes[n])
        /\ part' = [part EXCEPT ![n] = SubSeq(part[n], 1, IF Namer!Appending(resume, partial) THEN resume ELSE 0)]
        /\ counted' = IF Namer!Appending(resume, partial) THEN resume ELSE 0
  BY DEF Namer!Begin
<1>2. /\ running /\ Namer!IsNext(n) /\ open' = TRUE
      /\ UNCHANGED <<target, missing, running, downloadFaults>>
  BY DEF Namer!Begin
<1>3. Begins(part[n], n) /\ Sizes[n] \in Nat /\ Len(part[n]) \in Nat
  BY SizesAreLengths DEF NamerSound, Begins
<1>4. resume \in 0..Len(part[n]) /\ resume \in 0..Sizes[n]
  BY <1>3
<1> DEFINE from == IF partial THEN resume ELSE 0
<1>5. (IF Namer!Appending(resume, partial) THEN resume ELSE 0) = from
  BY <1>4 DEF Namer!Appending
<1>6. counted' = from /\ from \in 0..Len(part[n]) /\ from \in 0..Sizes[n]
  <2>1. counted' = from
    BY <1>1, <1>5, Zenon
  <2>2. from \in 0..Len(part[n]) /\ from \in 0..Sizes[n]
    BY <1>3, <1>4
  <2>3. QED
    BY <2>1, <2>2
<1>7. part' = [part EXCEPT ![n] = SubSeq(part[n], 1, from)] /\ body' = SubSeq(Namer!Whole(n), from + 1, Sizes[n])
  BY <1>1, <1>5
<1> HIDE DEF from, resume
<1>8. Begins(SubSeq(part[n], 1, from), n) /\ Len(SubSeq(part[n], 1, from)) = from
  BY <1>3, <1>6, CutBegins
<1>9. /\ part' \in [Namer!Weights -> Seq(Nat)] /\ Len(part'[n]) = from
      /\ \A m \in Namer!Weights : Begins(part'[m], m) /\ part'[m] \in Seq(1..Sizes[m])
  BY <1>7, <1>8, PartsBegin
<1>10. /\ body' \in Seq(Nat) /\ Len(body') = Sizes[n] - from
       /\ \A k \in 1..Len(body') : body'[k] = from + k
  BY <1>6, <1>7, RestFollows
<1>11. Continuing(n)'
  BY <1>2, <1>6, <1>9, <1>10 DEF Continuing
<1>12. n \in missing' /\ Namer!IsNext(n)'
  BY <1>2 DEF Namer!IsNext
<1>13. Namer!TypeOK'
  <2>1. counted' \in Nat
    BY <1>6
  <2>2. QED
    BY <1>2, <1>9, <1>10, <2>1 DEF NamerSound, Namer!TypeOK
<1>14. Namer!DownloadIsWhole'
  BY <1>2 DEF NamerSound, Namer!DownloadIsWhole
<1>15. QED
  BY <1>2, <1>9, <1>11, <1>12, <1>13, <1>14 DEF NamerSound

LEMMA NamerChunk ==
  ASSUME NamerSound, NEW n \in Namer!Weights, Namer!Chunk(n)
  PROVE  NamerSound'
<1>1. /\ open /\ Namer!IsNext(n) /\ body # << >> /\ body' = Tail(body)
      /\ part' = [part EXCEPT ![n] = Append(part[n], Head(body))]
      /\ counted' = counted + 1
      /\ UNCHANGED <<target, missing, running, open, downloadFaults>>
  BY DEF Namer!Chunk, NamerSound
<1>2. Continuing(n) /\ body \in Seq(Nat) /\ Begins(part[n], n) /\ Sizes[n] \in Nat /\ counted \in Nat
  BY <1>1, SizesAreLengths, OneIsNext DEF NamerSound, Namer!TypeOK
<1>3. /\ running /\ counted = Len(part[n]) /\ Len(body) = Sizes[n] - counted
      /\ \A k \in 1..Len(body) : body[k] = counted + k
  BY <1>1, <1>2 DEF Continuing
<1>4. Len(body) > 0 /\ Head(body) = counted + 1
  BY <1>1, <1>2, <1>3
<1>5. /\ body' \in Seq(Nat) /\ Len(body') = Sizes[n] - counted'
      /\ \A k \in 1..Len(body') : body'[k] = counted' + k
  BY <1>1, <1>2, <1>3
<1>6. Begins(Append(part[n], Head(body)), n) /\ Len(Append(part[n], Head(body))) = counted + 1
  BY <1>2, <1>3, <1>4, NextByteBegins
<1>7. /\ part' \in [Namer!Weights -> Seq(Nat)] /\ Len(part'[n]) = counted'
      /\ \A m \in Namer!Weights : Begins(part'[m], m) /\ part'[m] \in Seq(1..Sizes[m])
  BY <1>1, <1>6, PartsBegin
<1>8. Continuing(n)'
  BY <1>1, <1>3, <1>5, <1>7 DEF Continuing
<1>9. n \in missing' /\ Namer!IsNext(n)'
  BY <1>1 DEF Namer!IsNext
<1>10. Namer!TypeOK'
  <2>1. counted' \in Nat
    BY <1>1, <1>2
  <2>2. QED
    BY <1>1, <1>5, <1>7, <2>1 DEF NamerSound, Namer!TypeOK
<1>11. Namer!DownloadIsWhole'
  BY <1>1 DEF NamerSound, Namer!DownloadIsWhole
<1>12. QED
  BY <1>1, <1>7, <1>8, <1>9, <1>10, <1>11 DEF NamerSound

\* What is renamed has all the bytes that were counted.
LEMMA NamerFinish ==
  ASSUME NamerSound, NEW n \in Namer!Weights, Namer!Finish(n)
  PROVE  NamerSound'
<1>1. /\ open /\ Namer!IsNext(n) /\ ~open' /\ open' = FALSE
      /\ UNCHANGED <<body, counted, downloadFaults>>
  BY DEF Namer!Finish
<1>2. Begins(part[n], n) /\ counted = Len(part[n])
  BY <1>1, OneIsNext DEF NamerSound, Namer!TypeOK, Continuing
<1>3. CASE counted = Sizes[n]
  <2>1. /\ target' = [target EXCEPT ![n] = part[n]] /\ part' = [part EXCEPT ![n] = << >>]
        /\ missing' = missing \ {n} /\ UNCHANGED running
    BY <1>3 DEF Namer!Finish
  <2>2. part[n] = Namer!Whole(n) /\ part[n] \in Seq(1..Sizes[n])
    BY <1>2, <1>3, AllBytesAreWhole DEF Begins
  <2>3. /\ part' \in [Namer!Weights -> Seq(Nat)]
        /\ \A m \in Namer!Weights : Begins(part'[m], m) /\ part'[m] \in Seq(1..Sizes[m])
    BY <2>1, NoBytesBegin, PartsBegin
  <2>4. target' \in [Namer!Weights -> Seq(Nat)]
    BY <2>1 DEF NamerSound
  <2>5. target'[n] = part[n] /\ \A m \in Namer!Weights : m # n => target'[m] = target[m]
    BY <2>1 DEF NamerSound
  <2>6. \A m \in Namer!Weights : target'[m] \in Seq(1..Sizes[m])
    BY <2>2, <2>5 DEF NamerSound
  <2>7. Namer!DownloadIsWhole'
    BY <2>2, <2>5 DEF NamerSound, Namer!DownloadIsWhole, Namer!Whole
  <2>8. Namer!TypeOK'
    BY <1>1, <2>1, <2>3, <2>6 DEF NamerSound, Namer!TypeOK
  <2>9. QED
    BY <1>1, <2>3, <2>4, <2>6, <2>7, <2>8 DEF NamerSound
<1>4. CASE counted # Sizes[n]
  <2>1. running' = FALSE /\ missing' = {} /\ UNCHANGED <<target, part>>
    BY <1>4 DEF Namer!Finish
  <2>2. Namer!TypeOK'
    BY <1>1, <2>1 DEF NamerSound, Namer!TypeOK
  <2>3. QED
    BY <1>1, <2>1, <2>2 DEF NamerSound, Namer!DownloadIsWhole
<1>5. QED
  BY <1>3, <1>4

LEMMA NamerRun ==
  ASSUME NamerSound, Namer!FetchModels \/ Namer!Done \/ Namer!Break \/ Namer!Kill
  PROVE  NamerSound'
<1>1. /\ UNCHANGED <<target, part, counted>> /\ downloadFaults' \in 0..DownloadFaults
      /\ missing' \subseteq Namer!Weights /\ running' \in BOOLEAN /\ open' \in BOOLEAN /\ body' \in Seq(Nat)
  <2>1. downloadFaults' \in {downloadFaults, downloadFaults + 1} /\ (downloadFaults' # downloadFaults => downloadFaults < DownloadFaults)
    BY DEF Namer!FetchModels, Namer!Done, Namer!Break, Namer!Kill
  <2>2. downloadFaults' \in 0..DownloadFaults
    BY <2>1, NamerAssumption DEF NamerSound, Namer!TypeOK
  <2>3. UNCHANGED <<target, part, counted>>
    BY DEF Namer!FetchModels, Namer!Done, Namer!Break, Namer!Kill
  <2>4. missing' \subseteq Namer!Weights
    BY DEF Namer!FetchModels, Namer!Done, Namer!Break, Namer!Kill, NamerSound, Namer!TypeOK
  <2>5. running' \in BOOLEAN /\ open' \in BOOLEAN
    BY DEF Namer!FetchModels, Namer!Done, Namer!Break, Namer!Kill, NamerSound, Namer!TypeOK
  <2>6. body' \in {body, << >>}
    BY DEF Namer!FetchModels, Namer!Done, Namer!Break, Namer!Kill
  <2>7. body' \in Seq(Nat)
    <3>1. body \in Seq(Nat)
      BY DEF NamerSound, Namer!TypeOK
    <3>2. QED
      BY <2>6, <3>1, EmptySeq
  <2>8. QED
    BY <2>2, <2>3, <2>4, <2>5, <2>7
<1>2. Namer!TypeOK'
  BY <1>1 DEF NamerSound, Namer!TypeOK
<1>3. open' => open
  BY DEF Namer!FetchModels, Namer!Done, Namer!Break, Namer!Kill
<1>4. open => \E n \in missing : Namer!IsNext(n) /\ Continuing(n)
  BY DEF NamerSound
<1>5. open' => missing' = missing /\ running' = running /\ body' = << >>
  BY <1>3, <1>4 DEF Continuing, Namer!FetchModels, Namer!Done, Namer!Break, Namer!Kill
<1>6. open' => \E n \in missing' : Namer!IsNext(n)' /\ Continuing(n)'
  BY <1>1, <1>3, <1>4, <1>5 DEF Continuing, Namer!IsNext
<1>7. QED
  BY <1>1, <1>2, <1>6 DEF NamerSound, Namer!DownloadIsWhole

LEMMA NamerStep == NamerSound /\ (Namer!Next \/ UNCHANGED Namer!vars) => NamerSound'
<1>1. ASSUME NamerSound, UNCHANGED Namer!vars PROVE NamerSound'
  <2>1. UNCHANGED <<target, part, missing, running, body, open, counted, downloadFaults>>
    BY <1>1 DEF Namer!vars
  <2>2. QED
    BY <1>1, <2>1 DEF NamerSound, Namer!TypeOK, Namer!DownloadIsWhole, Begins, Continuing, Namer!IsNext
<1>2. QED
  BY <1>1, NamerBegin, NamerChunk, NamerFinish, NamerRun DEF Namer!Next

-----------------------------------------------------------------------------
(* Shares. *)

LEMMA SharedCardinality == \A S : Shared!Cardinality(S) = Cardinality(S)
  BY DEF Shared!Cardinality, Cardinality

\* The list of a set has each of its elements once.
LEMMA ListOfSet ==
  ASSUME NEW S, IsFiniteSet(S)
  PROVE  /\ Shared!SetToSeq(S) \in Seq(S)
         /\ \A x \in S : \E k \in 1..Len(Shared!SetToSeq(S)) : Shared!SetToSeq(S)[k] = x
         /\ \A j, k \in 1..Len(Shared!SetToSeq(S)) : Shared!SetToSeq(S)[j] = Shared!SetToSeq(S)[k] => j = k
<1> DEFINE n == Cardinality(S)
<1>1. n \in Nat /\ ExistsBijection(1..n, S)
  BY FS_CardinalityType
<1>2. \E f \in [1..n -> S] : Shared!IsInjective(f)
  BY <1>1 DEF ExistsBijection, Bijection, Injection, IsInjective, Shared!IsInjective
<1>3. Shared!SetToSeq(S) \in [1..n -> S] /\ Shared!IsInjective(Shared!SetToSeq(S))
  BY <1>2, SharedCardinality DEF Shared!SetToSeq
<1>4. \A x \in S : \E k \in 1..n : Shared!SetToSeq(S)[k] = x
  <2>1. Shared!SetToSeq(S) \in Injection(1..n, S)
    BY <1>3 DEF Injection, IsInjective, Shared!IsInjective
  <2>2. IsFiniteSet(1..n) /\ Cardinality(1..n) = n
    BY <1>1, FS_Interval
  <2>3. Shared!SetToSeq(S) \in Surjection(1..n, S)
    BY <2>1, <2>2, FS_Injection
  <2>4. QED
    BY <2>3 DEF Surjection
<1>5. Shared!SetToSeq(S) \in Seq(S) /\ Len(Shared!SetToSeq(S)) = n
  BY <1>1, <1>3
<1>6. QED
  BY <1>3, <1>4, <1>5 DEF Shared!IsInjective

\* Where a share s is: in a queue q, in one of several queues, in one of the lists
\* on their way to the page.
In(q, s) == \E k \in 1..Len(q) : q[k] = s
InOneOf(queues, s) == \E i \in 1..Len(queues) : In(queues[i], s)
InAnswers(lists, s) == \E i \in 1..Len(lists) : s \in lists[i]

\* A share the page has not seen.
Ahead(s) == s \in coming \union held \/ InAnswers(answers, s)

\* Every place holds a share at most once, and no other place does then; what was
\* not yet queued or not yet sent has not been counted.
AtOnePlace(s) ==
  /\ s \in coming => s \notin held
  /\ s \in coming \union held => ~InAnswers(answers, s)
  /\ \A i, j \in 1..Len(answers) : s \in answers[i] /\ s \in answers[j] => i = j
  /\ Ahead(s) => queued[s] = 0 /\ ~In(queue, s) /\ ~InOneOf(sending, s)
  /\ In(queue, s) => ~InOneOf(sending, s)
  /\ \A j, k \in 1..Len(queue) : queue[j] = s /\ queue[k] = s => j = k
  /\ \A h, i \in 1..Len(sending) : In(sending[h], s) /\ In(sending[i], s) => h = i
  /\ \A h \in 1..Len(sending) :
       \A j, k \in 1..Len(sending[h]) : sending[h][j] = s /\ sending[h][k] = s => j = k
  /\ Ahead(s) \/ In(queue, s) \/ InOneOf(sending, s) => sent[s] = 0 /\ s \notin failed
  /\ queued[s] <= 1 /\ sent[s] <= 1 /\ (s \in failed => sent[s] = 0)

SharesTyped ==
  /\ os \in {"desktop", "phone"} /\ booted \in {"off", "taking", "taken", "listening"}
  /\ coming \subseteq Shares /\ held \subseteq Shares /\ dropped \subseteq Shares /\ failed \subseteq Shares
  /\ notices \in Nat /\ notices + Cardinality(coming) <= Cardinality(Shares)
  /\ answers \in Seq(SUBSET Shares) /\ queue \in Seq(Shares) /\ sending \in Seq(Seq(Shares))
  /\ sent \in [Shares -> Nat] /\ queued \in [Shares -> Nat]
  /\ shareFaults \in 0..ShareFaults

\* Where a share that was handed over can still be found, or what became of it.
Found(s) ==
  \/ s \in held \union dropped \union failed \/ sent[s] > 0
  \/ os = "desktop" /\ (In(queue, s) \/ InOneOf(sending, s) \/ InAnswers(answers, s))

SharedSound ==
  /\ SharesTyped
  /\ \A s \in Shares \ coming : Found(s)
  /\ os = "desktop" => \A s \in Shares : AtOnePlace(s)

LEMMA OnePage ==
  ASSUME SharesTyped
  PROVE  \A s \in Shares :
           s \in Shared!OnPage <=> In(queue, s) \/ InOneOf(sending, s) \/ InAnswers(answers, s)
<1> TAKE s \in Shares
<1>1. s \in Shared!ToSet(queue) <=> In(queue, s)
  <2>1. queue \in Seq(Shares)
    BY DEF SharesTyped
  <2>2. Shared!ToSet(queue) = {queue[k] : k \in 1..Len(queue)}
    BY <2>1 DEF Shared!ToSet
  <2>3. QED
    BY <2>2 DEF In
<1>2. s \in UNION {Shared!ToSet(q) : q \in Shared!ToSet(sending)} <=> InOneOf(sending, s)
  <2>1. \A i \in 1..Len(sending) : sending[i] \in Seq(Shares)
    BY DEF SharesTyped
  <2>2. \A i \in 1..Len(sending) : s \in Shared!ToSet(sending[i]) <=> In(sending[i], s)
    BY <2>1 DEF Shared!ToSet, In
  <2>3. \A q : q \in Shared!ToSet(sending) <=> \E i \in 1..Len(sending) : q = sending[i]
    BY DEF SharesTyped, Shared!ToSet
  <2>4. s \in UNION {Shared!ToSet(q) : q \in Shared!ToSet(sending)}
          <=> \E q \in Shared!ToSet(sending) : s \in Shared!ToSet(q)
    OBVIOUS
  <2>5. QED
    BY <2>2, <2>3, <2>4 DEF InOneOf
<1>3. s \in UNION Shared!ToSet(answers) <=> InAnswers(answers, s)
  BY DEF SharesTyped, Shared!ToSet, InAnswers
<1> DEFINE queues == UNION {Shared!ToSet(q) : q \in Shared!ToSet(sending)}
           lists == UNION Shared!ToSet(answers)
<1>4. Shared!OnPage = Shared!ToSet(queue) \union queues \union lists
  BY DEF Shared!OnPage
<1>5. (s \in queues <=> InOneOf(sending, s)) /\ (s \in lists <=> InAnswers(answers, s))
  BY <1>2, <1>3
<1> HIDE DEF queues, lists
<1>6. QED
  BY <1>1, <1>4, <1>5

LEMMA SharedInit == Shared!Init => SharedSound
<1> SUFFICES ASSUME Shared!Init PROVE SharedSound
  OBVIOUS
<1>1. /\ os \in {"desktop", "phone"} /\ coming = Shares /\ held = {} /\ notices = 0
      /\ booted = "off" /\ answers = << >> /\ queue = << >> /\ sending = << >>
      /\ sent = [s \in Shares |-> 0] /\ queued = [s \in Shares |-> 0]
      /\ dropped = {} /\ failed = {} /\ shareFaults = 0
  BY DEF Shared!Init
<1>2. Cardinality(Shares) \in Nat
  BY ShareAssumption, FS_CardinalityType
<1>3. notices \in Nat /\ notices + Cardinality(coming) <= Cardinality(Shares) /\ shareFaults \in 0..ShareFaults
  BY <1>1, <1>2, ShareAssumption
<1>4. SharesTyped
  BY <1>1, <1>3 DEF SharesTyped
<1>5. Len(queue) = 0 /\ Len(sending) = 0 /\ Len(answers) = 0
  BY <1>1
<1>6. \A s \in Shares : AtOnePlace(s)
  BY <1>1, <1>5 DEF AtOnePlace, Ahead, In, InOneOf, InAnswers
<1>7. QED
  BY <1>1, <1>4, <1>6 DEF SharedSound

LEMMA NoticesBounded ==
  ASSUME SharesTyped
  PROVE  Cardinality(coming) \in Nat /\ Cardinality(Shares) \in Nat
  BY ShareAssumption, FS_Subset, FS_CardinalityType DEF SharesTyped

LEMMA ShareStep ==
  ASSUME SharedSound, NEW t \in Shares, Shared!Share(t)
  PROVE  SharedSound'
<1>1. /\ t \in coming /\ coming' = coming \ {t} /\ held' = held \union {t} /\ notices' \in {notices, notices + 1}
      /\ UNCHANGED <<os, booted, answers, queue, sending, sent, failed, queued, dropped, shareFaults>>
  BY DEF Shared!Share
<1>2. SharesTyped'
  <2>1. Cardinality(coming') = Cardinality(coming) - 1
    BY <1>1, ShareAssumption, FS_Subset, FS_RemoveElement DEF SharedSound, SharesTyped
  <2>2. notices' \in Nat /\ notices' + Cardinality(coming') <= Cardinality(Shares)
    BY <1>1, <2>1, NoticesBounded DEF SharedSound, SharesTyped
  <2>3. QED
    BY <1>1, <2>2 DEF SharedSound, SharesTyped
<1>3. \A s \in Shares \ coming' : Found(s)'
  BY <1>1 DEF SharedSound, Found
<1>4. ASSUME os = "desktop", NEW s \in Shares PROVE AtOnePlace(s)'
  <2>1. AtOnePlace(s)
    BY <1>4 DEF SharedSound
  <2>2. (s \in coming \union held) <=> (s \in coming' \union held')
    BY <1>1
  <2>3. Ahead(s)' <=> Ahead(s)
    BY <1>1, <2>2 DEF Ahead
  <2>4. s \in coming' => s \notin held'
    BY <1>1, <2>1 DEF AtOnePlace
  <2>5. QED
    BY <1>1, <2>1, <2>2, <2>3, <2>4 DEF AtOnePlace
<1>5. QED
  BY <1>1, <1>2, <1>3, <1>4 DEF SharedSound

\* What a queue holds with one more, with its first gone, or with another behind it.
LEMMA InAppend ==
  ASSUME NEW S, NEW q \in Seq(S), NEW x \in S
  PROVE  /\ Append(q, x) \in Seq(S) /\ Len(Append(q, x)) = Len(q) + 1
         /\ \A k \in 1..Len(q) : Append(q, x)[k] = q[k]
         /\ Append(q, x)[Len(q) + 1] = x
  BY AppendProperties

LEMMA InTail ==
  ASSUME NEW S, NEW q \in Seq(S), q # << >>
  PROVE  /\ Tail(q) \in Seq(S) /\ Len(Tail(q)) = Len(q) - 1 /\ Len(q) >= 1 /\ Head(q) = q[1] /\ Head(q) \in S
         /\ \A k \in 1..Len(Tail(q)) : Tail(q)[k] = q[k + 1]
  BY HeadTailProperties

LEMMA InConcat ==
  ASSUME NEW S, NEW q \in Seq(S), NEW r \in Seq(S)
  PROVE  /\ q \o r \in Seq(S) /\ Len(q \o r) = Len(q) + Len(r)
         /\ \A k \in 1..Len(q) : (q \o r)[k] = q[k]
         /\ \A k \in 1..Len(r) : (q \o r)[Len(q) + k] = r[k]
  BY ConcatProperties

LEMMA TakeStep ==
  ASSUME SharedSound, Shared!Take
  PROVE  SharedSound'
<1>1. /\ notices' \in {notices, notices - 1} /\ (notices' = notices - 1 => notices > 0)
      /\ booted' \in {"off", "taking", "taken", "listening"}
      /\ shareFaults' \in 0..ShareFaults
      /\ UNCHANGED <<os, coming, queue, sending, sent, failed, queued, dropped>>
  BY ShareAssumption DEF Shared!Take, SharedSound, SharesTyped
<1>t. PICK list \in {held, {}} :
        /\ answers' = Append(answers, list) /\ held' \subseteq held
        /\ held \subseteq held' \union list
        /\ os = "desktop" => held' \intersect list = {}
  <2>1. \/ answers' = Append(answers, held) /\ held' = IF os = "desktop" THEN {} ELSE held
        \/ answers' = Append(answers, {}) /\ held' = held
    BY DEF Shared!Take, Shared!LeftBy
  <2>2. QED
    BY <2>1
<1>2. /\ answers' \in Seq(SUBSET Shares) /\ Len(answers') = Len(answers) + 1 /\ Len(answers) \in Nat
      /\ \A i \in 1..Len(answers) : answers'[i] = answers[i]
      /\ answers'[Len(answers) + 1] = list
  <2>1. answers \in Seq(SUBSET Shares) /\ list \in SUBSET Shares
    BY <1>t DEF SharedSound, SharesTyped
  <2>2. QED
    BY <1>t, <2>1, InAppend
<1>3. SharesTyped'
  <2>1. notices' \in Nat /\ notices' + Cardinality(coming') <= Cardinality(Shares)
    BY <1>1, NoticesBounded DEF SharedSound, SharesTyped
  <2>2. held' \subseteq Shares
    BY <1>t DEF SharedSound, SharesTyped
  <2>3. QED
    BY <1>1, <1>2, <2>1, <2>2 DEF SharedSound, SharesTyped
<1>4. \A s : InAnswers(answers', s) <=> InAnswers(answers, s) \/ s \in list
  BY <1>2 DEF InAnswers
<1>5. \A s \in Shares \ coming' : Found(s)'
  <2> SUFFICES ASSUME NEW s \in Shares \ coming' PROVE Found(s)'
    OBVIOUS
  <2>1. Found(s)
    BY <1>1 DEF SharedSound
  <2>2. os \in {"desktop", "phone"} /\ (os = "phone" => held' = held)
    BY DEF Shared!Take, Shared!LeftBy, SharedSound, SharesTyped
  <2>3. QED
    BY <1>1, <1>t, <1>4, <2>1, <2>2 DEF Found
<1>6. ASSUME os = "desktop", NEW s \in Shares PROVE AtOnePlace(s)'
  <2>1. AtOnePlace(s) /\ held' \intersect list = {}
    BY <1>t, <1>6 DEF SharedSound
  <2>2. Ahead(s)' <=> Ahead(s)
    BY <1>1, <1>t, <1>4 DEF Ahead
  <2>3. s \in coming' => s \notin held'
    BY <1>1, <1>t, <2>1 DEF AtOnePlace
  <2>4. s \in coming' \union held' => ~InAnswers(answers', s)
    BY <1>1, <1>t, <1>4, <2>1 DEF AtOnePlace
  <2>5. ASSUME NEW i \in 1..Len(answers'), NEW j \in 1..Len(answers'), s \in answers'[i], s \in answers'[j]
        PROVE  i = j
    <3>1. s \in list => ~InAnswers(answers, s)
      BY <1>t, <2>1 DEF AtOnePlace
    <3>2. s \in list => i = Len(answers) + 1 /\ j = Len(answers) + 1
      BY <1>2, <2>5, <3>1 DEF InAnswers
    <3>3. s \notin list => i \in 1..Len(answers) /\ j \in 1..Len(answers) /\ s \in answers[i] /\ s \in answers[j]
      BY <1>2, <2>5
    <3>4. QED
      BY <2>1, <3>2, <3>3 DEF AtOnePlace
  <2>6. QED
    BY <1>1, <2>1, <2>2, <2>3, <2>4, <2>5 DEF AtOnePlace
<1>7. QED
  BY <1>1, <1>3, <1>5, <1>6 DEF SharedSound

\* A list is queued whole, behind what was queued, and its shares counted.
LEMMA TakenStep ==
  ASSUME SharedSound, Shared!Taken
  PROVE  SharedSound'
<1> DEFINE list == Head(answers)
           added == Shared!SetToSeq(list)
<1>1. /\ answers # << >> /\ answers' = Tail(answers) /\ queue' = queue \o added
      /\ queued' = [s \in Shares |-> IF s \in list THEN queued[s] + 1 ELSE queued[s]]
      /\ booted' \in {"off", "taking", "taken", "listening"}
      /\ UNCHANGED <<os, coming, held, notices, sending, sent, failed, dropped, shareFaults>>
  BY DEF Shared!Taken, SharedSound, SharesTyped
<1>2. /\ answers' \in Seq(SUBSET Shares) /\ Len(answers') = Len(answers) - 1 /\ Len(answers) \in Nat
      /\ \A i \in 1..Len(answers') : answers'[i] = answers[i + 1]
      /\ list = answers[1] /\ 1 \in 1..Len(answers) /\ list \subseteq Shares
  <2>1. answers \in Seq(SUBSET Shares)
    BY DEF SharedSound, SharesTyped
  <2>2. QED
    BY <1>1, <2>1, InTail
<1>3. /\ added \in Seq(list)
      /\ \A x \in list : \E k \in 1..Len(added) : added[k] = x
      /\ \A j, k \in 1..Len(added) : added[j] = added[k] => j = k
  <2>1. IsFiniteSet(list)
    BY <1>2, ShareAssumption, FS_Subset
  <2>2. QED
    BY <2>1, ListOfSet
<1> HIDE DEF list, added
<1>4. added \in Seq(Shares) /\ Len(added) \in Nat /\ \A k \in 1..Len(added) : added[k] \in list
  BY <1>2, <1>3
<1>5. /\ queue' \in Seq(Shares) /\ Len(queue') = Len(queue) + Len(added) /\ Len(queue) \in Nat
      /\ \A k \in 1..Len(queue) : queue'[k] = queue[k]
      /\ \A k \in 1..Len(added) : queue'[Len(queue) + k] = added[k]
  BY <1>1, <1>4, InConcat DEF SharedSound, SharesTyped
<1>6. SharesTyped'
  <2>1. queued' \in [Shares -> Nat]
    BY <1>1 DEF SharedSound, SharesTyped
  <2>2. QED
    BY <1>1, <1>2, <1>5, <2>1 DEF SharedSound, SharesTyped
<1>7. \A s : In(queue', s) <=> In(queue, s) \/ s \in list
  <2>1. ASSUME NEW s, In(queue', s) PROVE In(queue, s) \/ s \in list
    <3>1. PICK k \in 1..Len(queue') : queue'[k] = s
      BY <2>1 DEF In
    <3>2. k \in 1..Len(queue) \/ k - Len(queue) \in 1..Len(added)
      BY <1>4, <1>5
    <3>3. k - Len(queue) \in 1..Len(added) => s = added[k - Len(queue)]
      <4>1. Len(queue) + (k - Len(queue)) = k
        BY <1>5
      <4>2. QED
        BY <1>5, <3>1, <4>1
    <3>4. QED
      BY <1>4, <1>5, <3>1, <3>2, <3>3 DEF In
  <2>2. ASSUME NEW s, In(queue, s) PROVE In(queue', s)
    BY <1>4, <1>5, <2>2 DEF In
  <2>3. ASSUME NEW s, s \in list PROVE In(queue', s)
    <3>1. PICK k \in 1..Len(added) : added[k] = s
      BY <1>3, <2>3
    <3>2. Len(queue) + k \in 1..Len(queue')
      BY <1>4, <1>5
    <3>3. QED
      BY <1>5, <3>1, <3>2 DEF In
  <2>4. QED
    BY <2>1, <2>2, <2>3
<1>8. \A s : InAnswers(answers, s) <=> InAnswers(answers', s) \/ s \in list
  <2>1. ASSUME NEW s, InAnswers(answers, s) PROVE InAnswers(answers', s) \/ s \in list
    <3>1. PICK i \in 1..Len(answers) : s \in answers[i]
      BY <2>1 DEF InAnswers
    <3>2. i = 1 \/ i - 1 \in 1..Len(answers')
      BY <1>2
    <3>3. (i - 1) + 1 = i
      BY <1>2
    <3>4. QED
      BY <1>2, <3>1, <3>2, <3>3 DEF InAnswers
  <2>2. ASSUME NEW s, InAnswers(answers', s) PROVE InAnswers(answers, s)
    <3>1. PICK i \in 1..Len(answers') : s \in answers'[i]
      BY <2>2 DEF InAnswers
    <3>2. i + 1 \in 1..Len(answers)
      BY <1>2
    <3>3. QED
      BY <1>2, <3>1, <3>2 DEF InAnswers
  <2>3. QED
    BY <1>2, <2>1, <2>2 DEF InAnswers
<1>9. \A s \in Shares \ coming' : Found(s)'
  BY <1>1, <1>7, <1>8 DEF Found, SharedSound
<1>10. ASSUME os = "desktop", NEW s \in Shares PROVE AtOnePlace(s)'
  <2>1. AtOnePlace(s)
    BY <1>10 DEF SharedSound
  <2>2. InAnswers(answers', s) => InAnswers(answers, s) /\ s \notin list
    <3>1. ASSUME NEW i \in 1..Len(answers'), s \in answers'[i] PROVE s \notin list
      <4>1. i + 1 \in 1..Len(answers) /\ s \in answers[i + 1] /\ i + 1 # 1
        BY <1>2, <3>1
      <4>2. QED
        BY <1>2, <2>1, <4>1 DEF AtOnePlace
    <3>2. QED
      BY <1>8, <3>1 DEF InAnswers
  <2>3. s \in list => /\ s \notin coming \union held /\ queued[s] = 0 /\ sent[s] = 0 /\ s \notin failed
                      /\ ~In(queue, s) /\ ~InOneOf(sending, s)
    BY <1>8, <2>1 DEF AtOnePlace, Ahead
  <2>4. Ahead(s)' => Ahead(s) /\ s \notin list
    BY <1>1, <2>2, <2>3 DEF Ahead
  <2>5. queued'[s] = IF s \in list THEN queued[s] + 1 ELSE queued[s]
    BY <1>1
  <2>6. \A i, j \in 1..Len(answers') : s \in answers'[i] /\ s \in answers'[j] => i = j
    <3> SUFFICES ASSUME NEW i \in 1..Len(answers'), NEW j \in 1..Len(answers'),
                        s \in answers'[i], s \in answers'[j]
                 PROVE  i = j
      OBVIOUS
    <3>1. i + 1 \in 1..Len(answers) /\ j + 1 \in 1..Len(answers) /\ s \in answers[i + 1] /\ s \in answers[j + 1]
      BY <1>2
    <3>2. i + 1 = j + 1
      BY <2>1, <3>1 DEF AtOnePlace
    <3>3. QED
      BY <3>2
  <2>7. \A j, k \in 1..Len(queue') : queue'[j] = s /\ queue'[k] = s => j = k
    <3> SUFFICES ASSUME NEW j \in 1..Len(queue'), NEW k \in 1..Len(queue'), queue'[j] = s, queue'[k] = s
                 PROVE  j = k
      OBVIOUS
    <3>1. \A h \in 1..Len(queue') :
            \/ h \in 1..Len(queue) /\ queue'[h] = queue[h]
            \/ h - Len(queue) \in 1..Len(added) /\ queue'[h] = added[h - Len(queue)]
      <4> TAKE h \in 1..Len(queue')
      <4>1. h \in 1..Len(queue) \/ h - Len(queue) \in 1..Len(added)
        BY <1>4, <1>5
      <4>2. Len(queue) + (h - Len(queue)) = h
        BY <1>5
      <4>3. QED
        BY <1>5, <4>1, <4>2
    <3>2. CASE s \in list
      <4>1. j - Len(queue) \in 1..Len(added) /\ k - Len(queue) \in 1..Len(added)
            /\ added[j - Len(queue)] = added[k - Len(queue)]
        BY <2>3, <3>1, <3>2 DEF In
      <4>2. j - Len(queue) = k - Len(queue)
        BY <1>3, <4>1
      <4>3. QED
        BY <1>5, <4>2
    <3>3. CASE s \notin list
      <4>1. j \in 1..Len(queue) /\ k \in 1..Len(queue) /\ queue[j] = s /\ queue[k] = s
        BY <1>4, <3>1, <3>3
      <4>2. QED
        BY <2>1, <4>1 DEF AtOnePlace
    <3>4. QED
      BY <3>2, <3>3
  <2>8. queued'[s] <= 1 /\ (Ahead(s)' => queued'[s] = 0)
    BY <2>1, <2>3, <2>4, <2>5 DEF AtOnePlace
  <2>9. /\ s \in coming' => s \notin held'
        /\ s \in coming' \union held' => ~InAnswers(answers', s)
        /\ Ahead(s)' => ~In(queue', s) /\ ~InOneOf(sending', s)
        /\ In(queue', s) => ~InOneOf(sending', s)
        /\ Ahead(s)' \/ In(queue', s) \/ InOneOf(sending', s) => sent'[s] = 0 /\ s \notin failed'
        /\ sent'[s] <= 1 /\ (s \in failed' => sent'[s] = 0)
    BY <1>1, <1>7, <2>1, <2>2, <2>3, <2>4 DEF AtOnePlace
  <2>10. \A h, i \in 1..Len(sending') : In(sending'[h], s) /\ In(sending'[i], s) => h = i
    BY <1>1, <2>1 DEF AtOnePlace
  <2>11. \A h \in 1..Len(sending') :
           \A j, k \in 1..Len(sending'[h]) : sending'[h][j] = s /\ sending'[h][k] = s => j = k
    BY <1>1, <2>1 DEF AtOnePlace
  <2>12. QED
    BY <2>6, <2>7, <2>8, <2>9, <2>10, <2>11 DEF AtOnePlace
<1>11. QED
  BY <1>1, <1>6, <1>9, <1>10 DEF SharedSound

LEMMA ListenStep ==
  ASSUME SharedSound, Shared!Listen \/ UNCHANGED Shared!vars
  PROVE  SharedSound'
<1>1. /\ booted' \in {booted, "listening"}
      /\ UNCHANGED <<os, coming, held, notices, answers, queue, sending, sent, failed, queued, dropped, shareFaults>>
  BY DEF Shared!Listen, Shared!vars
<1>2. SharesTyped'
  BY <1>1 DEF SharedSound, SharesTyped
<1>3. \A s \in Shares \ coming' : Found(s)'
  BY <1>1 DEF SharedSound, Found
<1>4. os' = "desktop" => \A s \in Shares : AtOnePlace(s)'
  BY <1>1 DEF SharedSound, AtOnePlace, Ahead
<1>5. QED
  BY <1>2, <1>3, <1>4 DEF SharedSound

LEMMA ClearStep ==
  ASSUME SharedSound, Shared!ClearQueue
  PROVE  SharedSound'
<1>1. /\ queue' = << >> /\ held' = held \ Shared!ToSet(queue) /\ dropped' = dropped \union Shared!ToSet(queue)
      /\ UNCHANGED <<os, coming, notices, booted, answers, sending, sent, failed, queued, shareFaults>>
  BY DEF Shared!ClearQueue
<1>2. \A s : s \in Shared!ToSet(queue) <=> In(queue, s)
  BY DEF SharedSound, SharesTyped, Shared!ToSet, In
<1>3. Shared!ToSet(queue) \subseteq Shares
  BY DEF SharedSound, SharesTyped, Shared!ToSet
<1>4. SharesTyped'
  BY <1>1, <1>3 DEF SharedSound, SharesTyped
<1>5. \A s : ~In(queue', s)
  BY <1>1 DEF In
<1>6. \A s \in Shares \ coming' : Found(s)'
  BY <1>1, <1>2 DEF SharedSound, Found
<1>7. ASSUME os = "desktop", NEW s \in Shares PROVE AtOnePlace(s)'
  <2>1. AtOnePlace(s)
    BY <1>7 DEF SharedSound
  <2>2. Ahead(s)' => Ahead(s)
    BY <1>1 DEF Ahead
  <2>3. /\ s \in coming' => s \notin held'
        /\ s \in coming' \union held' => s \in coming \union held
    BY <1>1, <2>1 DEF AtOnePlace
  <2>4. Len(queue') = 0
    BY <1>1
  <2>5. QED
    BY <1>1, <1>5, <2>1, <2>2, <2>3, <2>4 DEF AtOnePlace
<1>8. QED
  BY <1>1, <1>4, <1>6, <1>7 DEF SharedSound

LEMMA SendToStep ==
  ASSUME SharedSound, Shared!SendTo
  PROVE  SharedSound'
<1>1. /\ sending' = Append(sending, queue) /\ queue' = << >>
      /\ UNCHANGED <<os, coming, held, notices, booted, answers, sent, failed, queued, dropped, shareFaults>>
  BY DEF Shared!SendTo
<1>2. /\ sending' \in Seq(Seq(Shares)) /\ Len(sending') = Len(sending) + 1 /\ Len(sending) \in Nat
      /\ \A i \in 1..Len(sending) : sending'[i] = sending[i]
      /\ sending'[Len(sending) + 1] = queue
  BY <1>1, InAppend DEF SharedSound, SharesTyped
<1>3. SharesTyped'
  BY <1>1, <1>2 DEF SharedSound, SharesTyped
<1>4. \A s : ~In(queue', s)
  BY <1>1 DEF In
<1>5. \A s : InOneOf(sending', s) <=> InOneOf(sending, s) \/ In(queue, s)
  <2>1. \A h \in 1..Len(sending') :
          \/ h \in 1..Len(sending) /\ sending'[h] = sending[h]
          \/ h = Len(sending) + 1 /\ sending'[h] = queue
    BY <1>2
  <2>2. ASSUME NEW s, InOneOf(sending', s) PROVE InOneOf(sending, s) \/ In(queue, s)
    <3>1. PICK h \in 1..Len(sending') : In(sending'[h], s)
      BY <2>2 DEF InOneOf
    <3>2. CASE h \in 1..Len(sending) /\ sending'[h] = sending[h]
      BY <3>1, <3>2 DEF InOneOf
    <3>3. CASE sending'[h] = queue
      BY <3>1, <3>3
    <3>4. QED
      BY <2>1, <3>2, <3>3
  <2>3. ASSUME NEW s, InOneOf(sending, s) \/ In(queue, s) PROVE InOneOf(sending', s)
    <3>1. \E h \in 1..Len(sending') : In(sending'[h], s)
      <4>1. CASE In(queue, s)
        <5>1. Len(sending) + 1 \in 1..Len(sending') /\ In(sending'[Len(sending) + 1], s)
          BY <1>2, <4>1
        <5>2. QED
          BY <5>1
      <4>2. CASE InOneOf(sending, s)
        <5>1. PICK h \in 1..Len(sending) : In(sending[h], s)
          BY <4>2 DEF InOneOf
        <5>2. h \in 1..Len(sending') /\ In(sending'[h], s)
          BY <1>2, <5>1
        <5>3. QED
          BY <5>2
      <4>3. QED
        BY <2>3, <4>1, <4>2
    <3>2. QED
      BY <3>1 DEF InOneOf
  <2>4. QED
    BY <2>2, <2>3
<1>6. \A s \in Shares \ coming' : Found(s)'
  BY <1>1, <1>5 DEF SharedSound, Found
<1>7. ASSUME os = "desktop", NEW s \in Shares PROVE AtOnePlace(s)'
  <2>1. AtOnePlace(s)
    BY <1>7 DEF SharedSound
  <2>2. Ahead(s)' <=> Ahead(s)
    BY <1>1 DEF Ahead
  <2>3. Len(queue') = 0
    BY <1>1
  <2>4. ASSUME NEW h \in 1..Len(sending'), NEW i \in 1..Len(sending'), In(sending'[h], s), In(sending'[i], s)
        PROVE  h = i
    <3>1. CASE In(queue, s)
      <4>1. \A g \in 1..Len(sending) : ~In(sending[g], s)
        BY <2>1, <3>1 DEF AtOnePlace, InOneOf
      <4>2. \A g \in 1..Len(sending') : In(sending'[g], s) => g = Len(sending) + 1
        <5> SUFFICES ASSUME NEW g \in 1..Len(sending'), g # Len(sending) + 1 PROVE ~In(sending'[g], s)
          OBVIOUS
        <5>1. g \in 1..Len(sending) /\ sending'[g] = sending[g]
          BY <1>2
        <5>2. QED
          BY <4>1, <5>1
      <4>3. QED
        BY <2>4, <4>2
    <3>2. CASE ~In(queue, s)
      <4>1. \A g \in 1..Len(sending') : In(sending'[g], s) => g \in 1..Len(sending) /\ In(sending[g], s)
        <5> SUFFICES ASSUME NEW g \in 1..Len(sending'), In(sending'[g], s)
                     PROVE  g \in 1..Len(sending) /\ In(sending[g], s)
          OBVIOUS
        <5>1. sending'[g] # queue
          BY <3>2
        <5>2. g \in 1..Len(sending) /\ sending'[g] = sending[g]
          BY <1>2, <5>1
        <5>3. QED
          BY <5>2
      <4>2. h \in 1..Len(sending) /\ i \in 1..Len(sending) /\ In(sending[h], s) /\ In(sending[i], s)
        BY <2>4, <4>1
      <4>3. QED
        BY <2>1, <4>2 DEF AtOnePlace
    <3>3. QED
      BY <3>1, <3>2
  <2>5. ASSUME NEW h \in 1..Len(sending'),
               NEW j \in 1..Len(sending'[h]), NEW k \in 1..Len(sending'[h]),
               sending'[h][j] = s, sending'[h][k] = s
        PROVE  j = k
    <3>1. CASE h = Len(sending) + 1
      BY <1>2, <2>1, <2>5, <3>1 DEF AtOnePlace
    <3>2. CASE h # Len(sending) + 1
      <4>1. h \in 1..Len(sending) /\ sending'[h] = sending[h]
        BY <1>2, <3>2
      <4>2. QED
        BY <2>1, <2>5, <4>1 DEF AtOnePlace
    <3>3. QED
      BY <3>1, <3>2
  <2>6. /\ Ahead(s)' => queued'[s] = 0 /\ ~In(queue', s) /\ ~InOneOf(sending', s)
        /\ Ahead(s)' \/ In(queue', s) \/ InOneOf(sending', s) => sent'[s] = 0 /\ s \notin failed'
        /\ queued'[s] <= 1 /\ sent'[s] <= 1 /\ (s \in failed' => sent'[s] = 0)
    BY <1>1, <1>4, <1>5, <2>1, <2>2 DEF AtOnePlace
  <2>7. /\ s \in coming' => s \notin held'
        /\ s \in coming' \union held' => ~InAnswers(answers', s)
        /\ \A i, j \in 1..Len(answers') : s \in answers'[i] /\ s \in answers'[j] => i = j
    BY <1>1, <2>1 DEF AtOnePlace
  <2>8. \A j, k \in 1..Len(queue') : queue'[j] = s /\ queue'[k] = s => j = k
    BY <2>3
  <2>9. QED
    BY <1>4, <2>4, <2>5, <2>6, <2>7, <2>8 DEF AtOnePlace
<1>8. QED
  BY <1>1, <1>3, <1>6, <1>7 DEF SharedSound

\* What was sent, or could not be, was there once, and is there no longer.
LEMMA SendOneStep ==
  ASSUME SharedSound, NEW i \in 1..Len(sending), Shared!SendOne(i) \/ Shared!SendFails(i)
  PROVE  SharedSound'
<1> DEFINE t == Head(sending[i])
<1>1. /\ sending[i] # << >> /\ sending' = [sending EXCEPT ![i] = Tail(sending[i])]
      /\ held' = held \ {t}
      /\ \/ sent' = [sent EXCEPT ![t] = sent[t] + 1] /\ failed' = failed
         \/ sent' = sent /\ failed' = failed \union {t}
      /\ UNCHANGED <<os, coming, notices, booted, answers, queue, queued, dropped, shareFaults>>
  <2>1. sending \in Seq(Seq(Shares)) /\ sent \in [Shares -> Nat]
    BY DEF SharedSound, SharesTyped
  <2>2. QED
    BY <2>1 DEF Shared!SendOne, Shared!SendFails, Shared!Finish
<1>2. sending \in Seq(Seq(Shares)) /\ sending[i] \in Seq(Shares) /\ sent \in [Shares -> Nat]
  BY DEF SharedSound, SharesTyped
<1>3. /\ Tail(sending[i]) \in Seq(Shares) /\ Len(Tail(sending[i])) = Len(sending[i]) - 1 /\ Len(sending[i]) >= 1
      /\ t = sending[i][1] /\ t \in Shares
      /\ \A k \in 1..Len(Tail(sending[i])) : Tail(sending[i])[k] = sending[i][k + 1]
  BY <1>1, <1>2, InTail
<1> HIDE DEF t
<1>4. /\ sending' \in Seq(Seq(Shares)) /\ Len(sending') = Len(sending)
      /\ sending'[i] = Tail(sending[i]) /\ \A h \in 1..Len(sending) : h # i => sending'[h] = sending[h]
  BY <1>1, <1>2, <1>3
<1>5. /\ sent' \in [Shares -> Nat] /\ \A s \in Shares : s # t => sent'[s] = sent[s]
      /\ failed' \subseteq failed \union {t} /\ failed \subseteq failed'
  <2>1. failed' \subseteq failed \union {t} /\ failed \subseteq failed'
    BY <1>1
  <2>2. CASE sent' = [sent EXCEPT ![t] = sent[t] + 1]
    BY <1>2, <1>3, <2>1, <2>2
  <2>3. CASE sent' = sent
    BY <1>2, <2>1, <2>3
  <2>4. QED
    BY <1>1, <2>2, <2>3
<1>6. SharesTyped'
  <2>1. held' \subseteq Shares /\ failed' \subseteq Shares
    BY <1>1, <1>3, <1>5 DEF SharedSound, SharesTyped
  <2>2. QED
    BY <1>1, <1>4, <1>5, <2>1 DEF SharedSound, SharesTyped
<1>7. \A s : In(sending'[i], s) => In(sending[i], s)
  <2>1. ASSUME NEW s, NEW k \in 1..Len(sending'[i]), sending'[i][k] = s PROVE In(sending[i], s)
    <3>1. k \in 1..Len(Tail(sending[i])) /\ Tail(sending[i])[k] = s /\ Len(sending[i]) \in Nat
      BY <1>2, <1>4, <2>1
    <3>2. k + 1 \in 1..Len(sending[i]) /\ sending[i][k + 1] = s
      BY <1>3, <3>1
    <3>3. QED
      BY <3>2 DEF In
  <2>2. QED
    BY <2>1 DEF In
<1>8. \A s : s # t /\ In(sending[i], s) => In(sending'[i], s)
  <2>1. ASSUME NEW s, s # t, NEW k \in 1..Len(sending[i]), sending[i][k] = s PROVE In(sending'[i], s)
    <3>1. k # 1
      BY <1>3, <2>1
    <3>2. k - 1 \in 1..Len(sending'[i]) /\ (k - 1) + 1 = k
      BY <1>2, <1>3, <1>4, <3>1
    <3>3. sending'[i][k - 1] = s
      BY <1>3, <1>4, <2>1, <3>2
    <3>4. QED
      BY <3>2, <3>3 DEF In
  <2>2. QED
    BY <2>1 DEF In
<1>9. \A s : InOneOf(sending', s) => InOneOf(sending, s)
  BY <1>4, <1>7 DEF InOneOf
<1>10. \A s : s # t /\ InOneOf(sending, s) => InOneOf(sending', s)
  BY <1>4, <1>8 DEF InOneOf
<1>11. In(sending[i], t) /\ InOneOf(sending, t)
  BY <1>3 DEF In, InOneOf
<1>12. \A s \in Shares \ coming' : Found(s)'
  <2> SUFFICES ASSUME NEW s \in Shares \ coming' PROVE Found(s)'
    OBVIOUS
  <2>1. Found(s)
    BY <1>1 DEF SharedSound
  <2>2. CASE s # t
    BY <1>1, <1>5, <1>10, <2>1, <2>2 DEF Found
  <2>3. CASE s = t
    <3>1. CASE sent' = [sent EXCEPT ![t] = sent[t] + 1]
      <4>1. sent'[t] = sent[t] + 1 /\ sent[t] \in Nat
        BY <1>2, <1>3, <3>1
      <4>2. sent'[t] > 0
        BY <4>1
      <4>3. QED
        BY <2>3, <4>2 DEF Found
    <3>2. CASE t \in failed'
      BY <2>3, <3>2 DEF Found
    <3>3. QED
      BY <1>1, <3>1, <3>2
  <2>4. QED
    BY <2>2, <2>3
<1>13. ASSUME os = "desktop", NEW s \in Shares PROVE AtOnePlace(s)'
  <2>1. AtOnePlace(s) /\ AtOnePlace(t)
    BY <1>3, <1>13 DEF SharedSound
  <2>2. sent[t] = 0 /\ t \notin failed /\ ~Ahead(t) /\ ~In(queue, t)
    BY <1>11, <2>1 DEF AtOnePlace
  <2>3. ~InOneOf(sending', t)
    <3>1. ~In(sending'[i], t)
      <4>1. ASSUME NEW k \in 1..Len(sending'[i]), sending'[i][k] = t PROVE FALSE
        <5>1. k + 1 \in 1..Len(sending[i]) /\ 1 \in 1..Len(sending[i]) /\ k + 1 # 1 /\ sending[i][k + 1] = t
          BY <1>2, <1>3, <1>4, <4>1
        <5>2. QED
          BY <1>3, <2>1, <5>1 DEF AtOnePlace
      <4>2. QED
        BY <4>1 DEF In
    <3>2. \A h \in 1..Len(sending) : h # i => ~In(sending[h], t)
      BY <1>11, <2>1 DEF AtOnePlace
    <3>3. QED
      BY <1>4, <3>1, <3>2 DEF InOneOf
  <2>4. sent'[s] <= 1 /\ (s \in failed' => sent'[s] = 0)
    BY <1>1, <1>2, <1>3, <1>5, <1>13, <2>1, <2>2 DEF AtOnePlace
  <2>5. (Ahead(s)' => Ahead(s)) /\ (Ahead(s) \/ In(queue, s) \/ InOneOf(sending', s) => s # t)
    BY <1>1, <2>2, <2>3 DEF Ahead
  <2>6. \A g, h \in 1..Len(sending') : In(sending'[g], s) /\ In(sending'[h], s) => g = h
    <3>1. \A h \in 1..Len(sending) : In(sending'[h], s) => In(sending[h], s)
      BY <1>4, <1>7
    <3>2. QED
      BY <1>4, <2>1, <3>1 DEF AtOnePlace
  <2>7. ASSUME NEW h \in 1..Len(sending'),
               NEW j \in 1..Len(sending'[h]), NEW k \in 1..Len(sending'[h]),
               sending'[h][j] = s, sending'[h][k] = s
        PROVE  j = k
    <3>1. CASE h = i
      <4>1. j + 1 \in 1..Len(sending[i]) /\ k + 1 \in 1..Len(sending[i])
            /\ sending[i][j + 1] = s /\ sending[i][k + 1] = s /\ j \in Nat /\ k \in Nat
        <5>1. /\ j \in 1..Len(Tail(sending[i])) /\ k \in 1..Len(Tail(sending[i])) /\ Len(sending[i]) \in Nat
              /\ Tail(sending[i])[j] = s /\ Tail(sending[i])[k] = s
          <6>1. sending'[h] = Tail(sending[i]) /\ Len(sending[i]) \in Nat
            BY <1>2, <1>4, <3>1
          <6>2. QED
            BY <2>7, <6>1
        <5>2. QED
          BY <1>3, <5>1
      <4>2. j + 1 = k + 1
        BY <2>1, <4>1 DEF AtOnePlace
      <4>3. QED
        BY <4>1, <4>2
    <3>2. CASE h # i
      <4>1. h \in 1..Len(sending) /\ sending'[h] = sending[h]
        BY <1>4, <3>2
      <4>2. QED
        BY <2>1, <2>7, <4>1 DEF AtOnePlace
    <3>3. QED
      BY <3>1, <3>2
  <2>8. /\ Ahead(s)' => queued'[s] = 0 /\ ~In(queue', s) /\ ~InOneOf(sending', s)
        /\ In(queue', s) => ~InOneOf(sending', s)
        /\ Ahead(s)' \/ In(queue', s) \/ InOneOf(sending', s) => sent'[s] = 0 /\ s \notin failed'
        /\ queued'[s] <= 1
    BY <1>1, <1>5, <1>9, <2>1, <2>5 DEF AtOnePlace
  <2>9. /\ s \in coming' => s \notin held'
        /\ s \in coming' \union held' => ~InAnswers(answers', s)
        /\ \A g, h \in 1..Len(answers') : s \in answers'[g] /\ s \in answers'[h] => g = h
        /\ \A j, k \in 1..Len(queue') : queue'[j] = s /\ queue'[k] = s => j = k
    BY <1>1, <2>1 DEF AtOnePlace
  <2>10. QED
    BY <2>4, <2>6, <2>7, <2>8, <2>9 DEF AtOnePlace
<1>14. QED
  BY <1>1, <1>6, <1>12, <1>13 DEF SharedSound

LEMMA PageReloadStep ==
  ASSUME SharedSound, Shared!Reload
  PROVE  SharedSound'
<1>1. /\ shareFaults < ShareFaults /\ shareFaults' = shareFaults + 1
      /\ booted' = "off" /\ answers' = << >> /\ queue' = << >> /\ sending' = << >> /\ notices' = 0
      /\ dropped' = IF os = "desktop" THEN dropped \union Shared!OnPage ELSE dropped
      /\ queued' = [s \in Shares |-> 0]
      /\ UNCHANGED <<os, coming, held, sent, failed>>
  BY DEF Shared!Reload
<1>2. Shared!OnPage \subseteq Shares
  <2>1. Shared!ToSet(queue) \subseteq Shares /\ UNION Shared!ToSet(answers) \subseteq Shares
    BY DEF SharedSound, SharesTyped, Shared!ToSet
  <2>2. \A q \in Shared!ToSet(sending) : Shared!ToSet(q) \subseteq Shares
    BY DEF SharedSound, SharesTyped, Shared!ToSet
  <2>3. QED
    BY <2>1, <2>2 DEF Shared!OnPage
<1>3. SharesTyped'
  <2>1. shareFaults' \in 0..ShareFaults
    BY <1>1, ShareAssumption DEF SharedSound, SharesTyped
  <2>2. notices' \in Nat /\ notices' + Cardinality(coming') <= Cardinality(Shares)
    BY <1>1, NoticesBounded DEF SharedSound, SharesTyped
  <2>3. dropped' \subseteq Shares
    BY <1>1, <1>2 DEF SharedSound, SharesTyped
  <2>4. queued' \in [Shares -> Nat]
    BY <1>1
  <2>5. answers' \in Seq(SUBSET Shares) /\ queue' \in Seq(Shares) /\ sending' \in Seq(Seq(Shares))
    BY <1>1, EmptySeq
  <2>6. QED
    BY <1>1, <2>1, <2>2, <2>3, <2>4, <2>5 DEF SharedSound, SharesTyped
<1>4. \A s \in Shares \ coming' : Found(s)'
  BY <1>1, OnePage DEF SharedSound, Found
<1>5. Len(queue') = 0 /\ Len(sending') = 0 /\ Len(answers') = 0
  BY <1>1
<1>6. ASSUME os = "desktop", NEW s \in Shares PROVE AtOnePlace(s)'
  <2>1. AtOnePlace(s) /\ queued'[s] = 0
    BY <1>1, <1>6 DEF SharedSound
  <2>2. ~In(queue', s) /\ ~InOneOf(sending', s) /\ ~InAnswers(answers', s)
    BY <1>5 DEF In, InOneOf, InAnswers
  <2>3. Ahead(s)' => Ahead(s)
    BY <1>1, <2>2 DEF Ahead
  <2>4. QED
    BY <1>1, <1>5, <2>1, <2>2, <2>3 DEF AtOnePlace
<1>7. QED
  BY <1>1, <1>3, <1>4, <1>6 DEF SharedSound

LEMMA SharedStep == SharedSound /\ (Shared!Next \/ UNCHANGED Shared!vars) => SharedSound'
<1>1. ASSUME SharedSound PROVE DOMAIN sending = 1..Len(sending)
  BY <1>1 DEF SharedSound, SharesTyped
<1>2. QED
  BY <1>1, ShareStep, TakeStep, TakenStep, ListenStep, ClearStep, SendToStep, SendOneStep, PageReloadStep
     DEF Shared!Next, Shared!Page

-----------------------------------------------------------------------------
(* The sink. *)

\* The bytes of a run are those of the file from its start on.
Run(start, bytes) ==
  /\ start \in Sink!Positions /\ bytes \in Seq(Sink!Positions) /\ start + Len(bytes) <= FileSize
  /\ \A k \in 1..Len(bytes) : bytes[k] = start + k - 1

SinkTyped ==
  /\ kind \in {"opfs", "node"} /\ came \subseteq Sink!Chunks
  /\ disk \in [Sink!Positions -> Sink!Positions \union {None}]
  /\ at \in {"open", "verifying", "closing", "renaming", "closed", "failed"}
  /\ aborted \in {"no", "begun", "done"} /\ temporary \in BOOLEAN /\ named \in BOOLEAN

\* Only runs are gathered and written, and a write that nobody aborted is of the
\* batch as it is.
Runs ==
  /\ Run(batchStart, batch)
  /\ flush = None \/
       /\ flush \in [start : Sink!Positions, bytes : Seq(Sink!Positions), chunk : Sink!Chunks \union {None}]
       /\ Run(flush.start, flush.bytes)
       /\ aborted = "no" => flush.start = batchStart /\ flush.bytes = batch

\* What has come is on disk or gathered, but for a chunk that waits; at the end
\* all is on disk.
Placed ==
  /\ \A p \in Sink!Positions : p \div ChunkSize \in came /\ ~Sink!Waits(p) => disk[p] = p \/ Sink!Gathered(p)
  /\ at \in {"verifying", "closing", "renaming", "closed"} => came = Sink!Chunks
  /\ at \in {"verifying", "renaming", "closed"} => flush = None
  /\ at = "closing" => flush # None /\ flush.chunk = None
  /\ at \in {"renaming", "closed"} => \A p \in Sink!Positions : disk[p] = p
  /\ named => at = "closed"

SinkSound ==
  /\ SinkTyped /\ Runs
  /\ aborted = "no" => Placed
  /\ aborted = "done" => ~temporary

LEMMA SinkNumbers ==
  /\ ChunkSize \in Nat /\ ChunkSize > 0 /\ FileSize \in Nat /\ FileSize > 0
  /\ \A p : p \in Sink!Positions <=> p \in Nat /\ p < FileSize
  /\ Sink!Positions \subseteq Nat /\ 0 \in Sink!Positions
  BY SinkAssumption DEF Sink!Positions

LEMMA Multiples ==
  ASSUME NEW a \in Nat, NEW b \in Nat, NEW n \in Nat, a <= b
  PROVE  a * n <= b * n /\ (a + 1) * n = a * n + n /\ a * n \in Nat
  OBVIOUS

LEMMA Quotient ==
  ASSUME NEW p \in Nat, NEW n \in Nat, n > 0
  PROVE  /\ p \div n \in Nat /\ (p \div n) * n <= p /\ p < ((p \div n) + 1) * n
  OBVIOUS

\* A chunk's bytes are those of the positions that are cut into it.
LEMMA ChunkBytes ==
  ASSUME NEW c \in Sink!Chunks
  PROVE  /\ c \in Nat /\ Run(c * ChunkSize, Sink!Bytes(c)) /\ Len(Sink!Bytes(c)) > 0
         /\ \A p \in Sink!Positions : p \div ChunkSize = c =>
              p - c * ChunkSize \in 0..(Len(Sink!Bytes(c)) - 1)
<1> DEFINE start == c * ChunkSize
           end == Sink!Smaller(FileSize, (c + 1) * ChunkSize)
<1>1. c \in Nat /\ FileSize - 1 \in Nat /\ c <= (FileSize - 1) \div ChunkSize
  BY SinkNumbers, Quotient DEF Sink!Chunks
<1>2. start \in Nat /\ start <= FileSize - 1 /\ (c + 1) * ChunkSize = start + ChunkSize
  <2>1. /\ (FileSize - 1) \div ChunkSize \in Nat
        /\ ((FileSize - 1) \div ChunkSize) * ChunkSize <= FileSize - 1
    BY <1>1, SinkNumbers, Quotient
  <2>2. start <= ((FileSize - 1) \div ChunkSize) * ChunkSize /\ start \in Nat /\ (c + 1) * ChunkSize = start + ChunkSize
    BY <1>1, <2>1, SinkNumbers, Multiples
  <2>3. ((FileSize - 1) \div ChunkSize) * ChunkSize \in Nat
    BY <2>1, SinkNumbers, Multiples
  <2>4. QED
    BY <1>1, <2>1, <2>2, <2>3
<1> HIDE DEF start
<1>3. end \in Nat /\ end > start /\ end <= FileSize /\ (end = FileSize \/ end = start + ChunkSize)
  BY <1>2, SinkNumbers DEF Sink!Smaller
<1>4. Sink!Bytes(c) = [k \in 1..(end - start) |-> start + k - 1]
  BY DEF Sink!Bytes, start
<1> HIDE DEF end
<1>5. \A k \in 1..(end - start) : start + k - 1 \in Sink!Positions
  BY <1>2, <1>3, SinkNumbers
<1>6. Sink!Bytes(c) \in Seq(Sink!Positions) /\ Len(Sink!Bytes(c)) = end - start
  BY <1>2, <1>3, <1>4, <1>5
<1>7. start \in Sink!Positions
  BY <1>2, SinkNumbers
<1>8. Run(start, Sink!Bytes(c))
  BY <1>2, <1>3, <1>4, <1>6, <1>7 DEF Run
<1>9. ASSUME NEW p \in Sink!Positions, p \div ChunkSize = c
      PROVE  p - start \in 0..(Len(Sink!Bytes(c)) - 1)
  <2>1. p \in Nat /\ p < FileSize
    BY SinkNumbers
  <2>2. start <= p /\ p < start + ChunkSize
    BY <1>2, <1>9, <2>1, SinkNumbers, Quotient DEF start
  <2>3. QED
    BY <1>2, <1>3, <1>6, <2>1, <2>2
<1>10. Len(Sink!Bytes(c)) > 0
  BY <1>2, <1>3, <1>6
<1>11. QED
  BY <1>1, <1>8, <1>9, <1>10 DEF start

LEMMA InChunk == \A p \in Sink!Positions : p \div ChunkSize \in Sink!Chunks
<1> TAKE p \in Sink!Positions
<1>1. p \in Nat /\ FileSize - 1 \in Nat /\ p <= FileSize - 1
  BY SinkNumbers
<1>2. p \div ChunkSize <= (FileSize - 1) \div ChunkSize
  BY <1>1, SinkNumbers
<1>3. p \div ChunkSize \in Nat /\ (FileSize - 1) \div ChunkSize \in Nat
  BY <1>1, SinkNumbers, Quotient
<1>4. QED
  BY <1>2, <1>3 DEF Sink!Chunks

\* Runs that meet make a run.
LEMMA RunsMeet ==
  ASSUME NEW start, NEW b, NEW r, Run(start, b), Run(start + Len(b), r)
  PROVE  /\ Run(start, b \o r) /\ Len(b \o r) = Len(b) + Len(r)
         /\ \A k \in 1..Len(b) : (b \o r)[k] = b[k]
<1>1. b \in Seq(Sink!Positions) /\ r \in Seq(Sink!Positions) /\ start \in Nat
  BY SinkNumbers DEF Run
<1>2. /\ b \o r \in Seq(Sink!Positions) /\ Len(b \o r) = Len(b) + Len(r)
      /\ \A k \in 1..Len(b) : (b \o r)[k] = b[k]
      /\ \A k \in 1..Len(r) : (b \o r)[Len(b) + k] = r[k]
      /\ Len(b) \in Nat /\ Len(r) \in Nat
  BY <1>1, InConcat
<1>3. ASSUME NEW k \in 1..Len(b \o r) PROVE (b \o r)[k] = start + k - 1
  <2>1. CASE k <= Len(b)
    BY <1>2, <2>1 DEF Run
  <2>2. CASE k > Len(b)
    <3>1. k - Len(b) \in 1..Len(r) /\ Len(b) + (k - Len(b)) = k
      BY <1>2, <2>2
    <3>2. (b \o r)[k] = r[k - Len(b)] /\ r[k - Len(b)] = start + Len(b) + (k - Len(b)) - 1
      BY <1>2, <3>1 DEF Run
    <3>3. QED
      BY <1>1, <1>2, <3>2
  <2>3. QED
    BY <1>2, <2>1, <2>2
<1>4. QED
  BY <1>1, <1>2, <1>3 DEF Run

LEMMA InRun ==
  ASSUME NEW start, NEW b, Run(start, b), NEW p \in Sink!Positions, p - start \in 0..(Len(b) - 1)
  PROVE  b[p - start + 1] = p
<1>1. start \in Nat /\ Len(b) \in Nat /\ p \in Nat
  BY SinkNumbers DEF Run
<1>2. p - start + 1 \in 1..Len(b) /\ start + (p - start + 1) - 1 = p
  BY <1>1
<1>3. QED
  BY <1>2 DEF Run

\* A chunk that is gathered onto b extends its run.
LEMMA GatherRuns ==
  ASSUME Runs, NEW c \in Sink!Chunks, NEW b, Sink!Gather(c, b), aborted' \in {"no", "begun", "done"},
         b = << >> \/ (b = batch /\ c * ChunkSize = batchStart + Len(batch))
  PROVE  /\ Runs' /\ (flush' # None => flush'.chunk = None)
         /\ \A p \in Sink!Positions : p \div ChunkSize = c => Sink!Gathered(p)'
         /\ b = batch => \A p \in Sink!Positions : Sink!Gathered(p) => Sink!Gathered(p)'
<1> DEFINE start == IF b = << >> THEN c * ChunkSize ELSE batchStart
           all == b \o Sink!Bytes(c)
<1>1. /\ batch' = all /\ batchStart' = start
      /\ flush' = IF Len(all) >= WriteBatch THEN [start |-> start, bytes |-> all, chunk |-> None] ELSE None
  BY DEF Sink!Gather
<1>2. Run(c * ChunkSize, Sink!Bytes(c)) /\ c * ChunkSize \in Nat /\ c * ChunkSize \in Sink!Positions
  BY ChunkBytes, SinkNumbers DEF Run
<1>3. Run(start, b) /\ start + Len(b) = c * ChunkSize
  <2>1. CASE b = << >>
    <3>1. start = c * ChunkSize /\ Len(b) = 0 /\ b \in Seq(Sink!Positions)
      BY <2>1
    <3>2. QED
      BY <1>2, <3>1, SinkNumbers DEF Run
  <2>2. CASE b # << >>
    <3>1. start = batchStart /\ b = batch
      BY <2>2
    <3>2. QED
      BY <2>2, <3>1 DEF Runs
  <2>3. QED
    BY <2>1, <2>2
<1>4. /\ Run(start, all) /\ Len(all) = Len(b) + Len(Sink!Bytes(c))
      /\ \A k \in 1..Len(b) : all[k] = b[k]
  BY <1>2, <1>3, RunsMeet
<1> HIDE DEF start, all
<1>5. /\ start \in Nat /\ start \in Sink!Positions /\ all \in Seq(Sink!Positions)
      /\ Len(b) \in Nat /\ Len(Sink!Bytes(c)) \in Nat
  BY <1>2, <1>3, <1>4, SinkNumbers DEF Run
<1>6. Runs'
  <2>1. Run(batchStart', batch')
    BY <1>1, <1>4
  <2>2. CASE flush' = None
    BY <2>1, <2>2 DEF Runs
  <2>3. CASE flush' # None
    <3>1. flush' = [start |-> start, bytes |-> all, chunk |-> None]
      BY <1>1, <2>3
    <3>2. flush' \in [start : Sink!Positions, bytes : Seq(Sink!Positions), chunk : Sink!Chunks \union {None}]
      BY <1>5, <3>1
    <3>3. Run(flush'.start, flush'.bytes) /\ flush'.start = batchStart' /\ flush'.bytes = batch'
      BY <1>1, <1>4, <3>1
    <3>4. QED
      BY <2>1, <3>2, <3>3 DEF Runs
  <2>4. QED
    BY <2>2, <2>3
<1>7. flush' # None => flush'.chunk = None
  BY <1>1
<1>8. ASSUME NEW p \in Sink!Positions, p - start \in 0..(Len(all) - 1) PROVE Sink!Gathered(p)'
  <2>1. all[p - start + 1] = p
    BY <1>4, <1>8, InRun
  <2>2. QED
    BY <1>1, <1>8, <2>1 DEF Sink!Gathered
<1>9. ASSUME NEW p \in Sink!Positions, p \div ChunkSize = c PROVE Sink!Gathered(p)'
  <2>1. p - c * ChunkSize \in 0..(Len(Sink!Bytes(c)) - 1) /\ p \in Nat
    BY <1>9, ChunkBytes, SinkNumbers
  <2>2. p - start \in 0..(Len(all) - 1)
    BY <1>2, <1>3, <1>4, <1>5, <2>1
  <2>3. QED
    BY <1>8, <2>2
<1>10. ASSUME b = batch, NEW p \in Sink!Positions, Sink!Gathered(p) PROVE Sink!Gathered(p)'
  <2>1. p - batchStart \in 0..(Len(batch) - 1) /\ p \in Nat /\ batchStart \in Nat
    BY <1>10, SinkNumbers DEF Sink!Gathered, Runs, Run
  <2>2. batch # << >>
    BY <2>1
  <2>3. start = batchStart
    BY <1>10, <2>2 DEF start
  <2>4. p - start \in 0..(Len(all) - 1)
    BY <1>4, <1>5, <1>10, <2>1, <2>3
  <2>5. QED
    BY <1>8, <2>4
<1>11. QED
  BY <1>6, <1>7, <1>9, <1>10

LEMMA SinkInit == Sink!Init => SinkSound
<1> SUFFICES ASSUME Sink!Init PROVE SinkSound
  OBVIOUS
<1>1. /\ kind \in {"opfs", "node"} /\ came = {} /\ batch = << >> /\ batchStart = 0 /\ flush = None
      /\ disk = [p \in Sink!Positions |-> None]
      /\ at = "open" /\ aborted = "no" /\ temporary = TRUE /\ named = FALSE
  BY DEF Sink!Init
<1>2. Run(batchStart, batch)
  BY <1>1, SinkNumbers DEF Run
<1>3. SinkTyped /\ Runs
  BY <1>1, <1>2 DEF SinkTyped, Runs
<1>4. Placed
  BY <1>1 DEF Placed
<1>5. QED
  BY <1>1, <1>3, <1>4 DEF SinkSound

LEMMA WriteStep ==
  ASSUME SinkSound, NEW c \in Sink!Chunks, Sink!Write(c)
  PROVE  SinkSound'
<1>1. /\ at = "open" /\ aborted = "no" /\ flush = None /\ c \notin came /\ came' = came \union {c}
      /\ UNCHANGED <<kind, disk, at, aborted, temporary, named>>
  BY DEF Sink!Write
<1>2. SinkTyped'
  BY <1>1 DEF SinkSound, SinkTyped
<1>3. /\ Placed /\ Runs
      /\ \A p \in Sink!Positions : p \div ChunkSize \in came => disk[p] = p \/ Sink!Gathered(p)
  BY <1>1 DEF SinkSound, Placed, Sink!Waits
<1>4. CASE Sink!Continues(c)
  <2>0. PICK b : b = batch
    OBVIOUS
  <2>1. Sink!Gather(c, b)
    BY <1>4, <2>0 DEF Sink!Write, Sink!Gather
  <2>2. b = << >> \/ (b = batch /\ c * ChunkSize = batchStart + Len(batch))
    BY <1>4, <2>0 DEF Sink!Continues
  <2>3. aborted' \in {"no", "begun", "done"}
    BY <1>1
  <2>4. /\ Runs' /\ \A p \in Sink!Positions : p \div ChunkSize = c => Sink!Gathered(p)'
        /\ \A p \in Sink!Positions : Sink!Gathered(p) => Sink!Gathered(p)'
    BY <1>3, <2>0, <2>1, <2>2, <2>3, GatherRuns
  <2>5. \A p \in Sink!Positions : p \div ChunkSize \in came' => disk'[p] = p \/ Sink!Gathered(p)'
    BY <1>1, <1>3, <2>4
  <2>6. Placed'
    BY <1>1, <1>3, <2>5 DEF Placed
  <2>7. QED
    BY <1>1, <1>2, <2>4, <2>6 DEF SinkSound
<1>5. CASE ~Sink!Continues(c)
  <2>1. flush' = [start |-> batchStart, bytes |-> batch, chunk |-> c] /\ UNCHANGED <<batch, batchStart>>
    BY <1>5 DEF Sink!Write
  <2>2. /\ flush' \in [start : Sink!Positions, bytes : Seq(Sink!Positions), chunk : Sink!Chunks \union {None}]
        /\ flush'.start = batchStart /\ flush'.bytes = batch /\ flush'.chunk = c
    BY <1>3, <2>1 DEF Runs, Run
  <2>3. Runs'
    BY <1>1, <1>3, <2>1, <2>2 DEF Runs
  <2>4. flush' # None /\ c # None
    <3>1. flush' \in [start : Nat, bytes : Seq(Nat), chunk : Nat \union {None}]
      <4>1. batch \in Seq(Nat) /\ batchStart \in Nat /\ c \in Nat
        BY <1>3, SinkNumbers, ChunkBytes DEF Runs, Run
      <4>2. QED
        BY <2>1, <4>1
    <3>2. QED
      BY <3>1, ChunkBytes, SinkAssumption
  <2>5. \A p \in Sink!Positions : Sink!Gathered(p)' <=> Sink!Gathered(p)
    BY <2>1 DEF Sink!Gathered
  <2>6. \A p \in Sink!Positions : Sink!Waits(p)' <=> p \div ChunkSize = c
    BY <2>2, <2>4 DEF Sink!Waits
  <2>7. \A p \in Sink!Positions : p \div ChunkSize \in came' /\ ~Sink!Waits(p)' => disk'[p] = p \/ Sink!Gathered(p)'
    BY <1>1, <1>3, <2>5, <2>6
  <2>8. Placed'
    BY <1>1, <1>3, <2>7 DEF Placed
  <2>9. QED
    BY <1>1, <1>2, <2>3, <2>8 DEF SinkSound
<1>6. QED
  BY <1>4, <1>5

\* A write puts its run where it belongs.
LEMMA FlushedStep ==
  ASSUME SinkSound, Sink!Flushed
  PROVE  SinkSound'
<1>1. /\ flush # None
      /\ disk' = [p \in Sink!Positions |->
           IF p - flush.start \in 0..(Len(flush.bytes) - 1) THEN flush.bytes[p - flush.start + 1] ELSE disk[p]]
      /\ at' = IF at = "closing" THEN "renaming" ELSE at
      /\ UNCHANGED <<kind, came, aborted, temporary, named>>
  BY DEF Sink!Flushed
<1>2. /\ flush \in [start : Sink!Positions, bytes : Seq(Sink!Positions), chunk : Sink!Chunks \union {None}]
      /\ Run(flush.start, flush.bytes) /\ Runs
      /\ aborted = "no" => flush.start = batchStart /\ flush.bytes = batch
  BY <1>1 DEF SinkSound, Runs
<1>3. \A p \in Sink!Positions :
        disk'[p] = IF p - flush.start \in 0..(Len(flush.bytes) - 1) THEN p ELSE disk[p]
  BY <1>1, <1>2, InRun
<1>4. disk' \in [Sink!Positions -> Sink!Positions \union {None}]
  <2>1. \A p \in Sink!Positions : disk'[p] \in Sink!Positions \union {None}
    BY <1>3 DEF SinkSound, SinkTyped
  <2>2. disk' = [p \in Sink!Positions |-> disk'[p]]
    BY <1>1
  <2>3. QED
    BY <2>1, <2>2
<1>5. SinkTyped'
  BY <1>1, <1>4 DEF SinkSound, SinkTyped
<1>6. ASSUME aborted = "no", NEW p \in Sink!Positions, disk[p] = p \/ Sink!Gathered(p)
      PROVE  disk'[p] = p
  BY <1>2, <1>3, <1>6 DEF Sink!Gathered
<1>7. aborted = "done" => ~temporary'
  BY <1>1 DEF SinkSound
<1>8. CASE flush.chunk = None
  <2>1. batch' = << >> /\ flush' = None /\ batchStart' = batchStart
    BY <1>8 DEF Sink!Flushed
  <2>2. Runs'
    BY <1>2, <2>1, SinkNumbers DEF Runs, Run
  <2>3. ASSUME aborted = "no" PROVE Placed'
    <3>1. Placed
      BY <2>3 DEF SinkSound
    <3>2. \A p \in Sink!Positions : p \div ChunkSize \in came => disk'[p] = p
      BY <1>6, <1>8, <2>3, <3>1 DEF Placed, Sink!Waits
    <3>3. at' \in {"renaming", "closed"} => \A p \in Sink!Positions : disk'[p] = p
      <4>1. CASE at = "closing"
        <5>1. came = Sink!Chunks
          BY <3>1, <4>1 DEF Placed
        <5>2. QED
          BY <3>2, <5>1, InChunk
      <4>2. CASE at # "closing"
        BY <1>1, <3>1, <4>2 DEF Placed
      <4>3. QED
        BY <4>1, <4>2
    <3>4. QED
      BY <1>1, <2>1, <3>1, <3>2, <3>3 DEF Placed
  <2>4. QED
    BY <1>1, <1>5, <1>7, <2>2, <2>3 DEF SinkSound
<1>9. CASE flush.chunk # None
  <2>0. PICK c : c = flush.chunk
    OBVIOUS
  <2>1. Sink!Gather(c, << >>) /\ c \in Sink!Chunks
    BY <1>2, <1>9, <2>0 DEF Sink!Flushed, Sink!Gather
  <2>2. aborted' \in {"no", "begun", "done"}
    BY <1>1 DEF SinkSound, SinkTyped
  <2>3. /\ Runs' /\ (flush' # None => flush'.chunk = None)
        /\ \A p \in Sink!Positions : p \div ChunkSize = flush.chunk => Sink!Gathered(p)'
    BY <1>2, <2>0, <2>1, <2>2, GatherRuns
  <2>4. ASSUME aborted = "no" PROVE Placed'
    <3>1. Placed /\ at \in {"open", "failed"}
      BY <1>1, <1>9, <2>4 DEF SinkSound, SinkTyped, Placed
    <3>2. ASSUME NEW p \in Sink!Positions, p \div ChunkSize \in came PROVE disk'[p] = p \/ Sink!Gathered(p)'
      <4>1. CASE Sink!Waits(p)
        BY <2>3, <4>1 DEF Sink!Waits
      <4>2. CASE ~Sink!Waits(p)
        BY <1>6, <2>4, <3>1, <3>2, <4>2 DEF Placed
      <4>3. QED
        BY <4>1, <4>2
    <3>3. at' \in {"open", "failed"} /\ ~named'
      BY <1>1, <3>1 DEF Placed
    <3>4. QED
      BY <1>1, <3>2, <3>3 DEF Placed
  <2>5. QED
    BY <1>1, <1>5, <1>7, <2>3, <2>4 DEF SinkSound
<1>10. QED
  BY <1>8, <1>9

LEMMA CloseStep ==
  ASSUME SinkSound, Sink!Verify \/ Sink!Close
  PROVE  SinkSound'
<1>1. /\ at' \in {"verifying", "closing", "renaming"}
      /\ UNCHANGED <<kind, came, batch, batchStart, disk, aborted, temporary, named>>
  BY DEF Sink!Verify, Sink!Close
<1>2. SinkTyped'
  BY <1>1 DEF SinkSound, SinkTyped
<1>3. aborted = "done" => ~temporary'
  BY <1>1 DEF SinkSound
<1>4. CASE Sink!Verify
  <2>1. at = "open" /\ aborted = "no" /\ came = Sink!Chunks /\ flush = None /\ at' = "verifying" /\ flush' = flush
    BY <1>4 DEF Sink!Verify
  <2>2. Runs'
    BY <1>1, <2>1 DEF SinkSound, Runs
  <2>3. Placed'
    BY <1>1, <2>1 DEF SinkSound, Placed, Sink!Waits, Sink!Gathered
  <2>4. QED
    BY <1>1, <1>2, <1>3, <2>2, <2>3 DEF SinkSound
<1>5. CASE Sink!Close /\ batch = << >>
  <2>1. at = "verifying" /\ at' = "renaming" /\ flush' = flush
    BY <1>5 DEF Sink!Close
  <2>2. Runs'
    BY <1>1, <2>1 DEF SinkSound, Runs
  <2>3. ASSUME aborted = "no" PROVE Placed'
    <3>1. Placed /\ came = Sink!Chunks /\ flush = None /\ ~named
      BY <2>1, <2>3 DEF SinkSound, Placed
    <3>2. ASSUME NEW p \in Sink!Positions PROVE disk[p] = p
      <4>1. p \div ChunkSize \in came /\ ~Sink!Waits(p)
        BY <3>1, InChunk DEF Sink!Waits
      <4>2. ~Sink!Gathered(p)
        <5>1. Len(batch) = 0
          BY <1>5
        <5>2. 0..(Len(batch) - 1) = {}
          BY <5>1
        <5>3. QED
          BY <5>2 DEF Sink!Gathered
      <4>3. QED
        BY <3>1, <4>1, <4>2 DEF Placed
    <3>3. QED
      BY <1>1, <2>1, <3>1, <3>2 DEF Placed
  <2>4. QED
    BY <1>1, <1>2, <1>3, <2>2, <2>3 DEF SinkSound
<1>6. CASE Sink!Close /\ batch # << >>
  <2>1. /\ at = "verifying" /\ at' = "closing"
        /\ flush' = [start |-> batchStart, bytes |-> batch, chunk |-> None]
    BY <1>6 DEF Sink!Close
  <2>2. Run(batchStart, batch) /\ batchStart \in Sink!Positions /\ batch \in Seq(Sink!Positions)
    BY DEF SinkSound, Runs, Run
  <2>3. /\ flush' \in [start : Sink!Positions, bytes : Seq(Sink!Positions), chunk : Sink!Chunks \union {None}]
        /\ flush'.start = batchStart /\ flush'.bytes = batch /\ flush'.chunk = None
    BY <2>1, <2>2
  <2>4. Runs'
    BY <1>1, <2>2, <2>3 DEF Runs
  <2>5. flush' # None
    <3>1. flush' \in [start : Nat, bytes : Seq(Nat), chunk : Nat \union {None}]
      <4>1. batch \in Seq(Nat) /\ batchStart \in Nat
        BY <2>2, SinkNumbers
      <4>2. QED
        BY <2>1, <4>1
    <3>2. QED
      BY <3>1, SinkAssumption
  <2>6. ASSUME aborted = "no" PROVE Placed'
    <3>1. Placed /\ came = Sink!Chunks /\ flush = None /\ ~named
      BY <2>1, <2>6 DEF SinkSound, Placed
    <3>2. \A p \in Sink!Positions : Sink!Gathered(p)' <=> Sink!Gathered(p)
      BY <1>1 DEF Sink!Gathered
    <3>3. \A p \in Sink!Positions : p \div ChunkSize \in came' => disk'[p] = p \/ Sink!Gathered(p)'
      BY <1>1, <3>1, <3>2 DEF Placed, Sink!Waits
    <3>4. QED
      BY <1>1, <2>1, <2>3, <2>5, <3>1, <3>3 DEF Placed
  <2>7. QED
    BY <1>1, <1>2, <1>3, <2>4, <2>6 DEF SinkSound
<1>7. QED
  BY <1>4, <1>5, <1>6

\* What gets its name is all of the file, unless the sink was aborted.
LEMMA RenameStep ==
  ASSUME SinkSound, Sink!Rename
  PROVE  SinkSound'
<1>1. /\ at = "renaming" /\ at' \in {"closed", "failed"} /\ named' \in BOOLEAN
      /\ (named' => at' = "closed")
      /\ temporary' \in BOOLEAN /\ (temporary' => temporary)
      /\ UNCHANGED <<kind, came, batch, batchStart, flush, disk, aborted>>
  BY DEF Sink!Rename, SinkSound, SinkTyped
<1>2. SinkTyped' /\ Runs'
  BY <1>1 DEF SinkSound, SinkTyped, Runs
<1>3. aborted = "no" => Placed'
  BY <1>1 DEF SinkSound, Placed, Sink!Waits, Sink!Gathered
<1>4. QED
  BY <1>1, <1>2, <1>3 DEF SinkSound

LEMMA AbortStep ==
  ASSUME SinkSound, Sink!Abort \/ Sink!Remove
  PROVE  SinkSound'
<1>1. /\ aborted' \in {"begun", "done"} /\ (aborted' = "done" => temporary' = FALSE)
      /\ temporary' \in BOOLEAN /\ batch' \in {batch, << >>}
      /\ UNCHANGED <<kind, came, batchStart, flush, disk, at, named>>
  BY DEF Sink!Abort, Sink!Remove, SinkSound, SinkTyped
<1>2. SinkTyped'
  BY <1>1 DEF SinkSound, SinkTyped
<1>3. Run(batchStart', batch')
  <2>1. Run(batchStart, batch) /\ batchStart \in Sink!Positions /\ batchStart + 0 <= FileSize
    BY SinkNumbers DEF SinkSound, Runs, Run
  <2>2. << >> \in Seq(Sink!Positions) /\ Len(<< >>) = 0
    BY EmptySeq
  <2>3. Run(batchStart, << >>)
    BY <2>1, <2>2 DEF Run
  <2>4. QED
    BY <1>1, <2>1, <2>3
<1>4. Runs'
  BY <1>1, <1>3 DEF SinkSound, Runs
<1>5. QED
  BY <1>1, <1>2, <1>4 DEF SinkSound

LEMMA SinkStep == SinkSound /\ (Sink!Next \/ UNCHANGED Sink!vars) => SinkSound'
<1>1. ASSUME SinkSound, UNCHANGED Sink!vars PROVE SinkSound'
  <2>1. UNCHANGED <<kind, came, batch, batchStart, flush, disk, at, aborted, temporary, named>>
    BY <1>1 DEF Sink!vars
  <2>2. QED
    BY <1>1, <2>1 DEF SinkSound, SinkTyped, Runs, Placed, Sink!Waits, Sink!Gathered
<1>2. QED
  BY <1>1, WriteStep, FlushedStep, CloseStep, RenameStep, AbortStep DEF Sink!Next

-----------------------------------------------------------------------------
(* The push token. *)

\* The bridge says tokens in the order Firebase gives them; the one answer says
\* what the last event before it, if there was one, has said.
BridgeInOrder ==
  /\ \A k \in 1..Len(bridge) : bridge[k].tok <= live /\ (bridge[k].event => bridge[k].tok # 0)
  /\ \A k \in 1..Len(bridge) : ~bridge[k].event =>
       /\ ~asking
       /\ \A j \in 1..(k - 1) : bridge[j].event
       /\ bridge[k].tok # 0 =>
            IF k = 1 THEN token \in {0, bridge[k].tok} ELSE bridge[k - 1].tok = bridge[k].tok
  /\ asking => IF bridge = << >> THEN token \in {0, live} ELSE bridge[Len(bridge)].tok = live

\* A page that takes its token to be registered made the latest registration, with
\* that token; it is under way, or the server has it, or may have lost it.
LatestIsHeld ==
  registered =>
    /\ token # 0
    /\ \/ \E r \in requests : r.n = next - 1 /\ r.tok = token /\ r.page = page
       \/ overtaken \/ forgot
       \/ stored = next - 1 /\ (store = token \/ token # live)

PushSound ==
  /\ Push!TypeOK
  /\ live # 0 /\ token <= live
  /\ BridgeInOrder
  /\ stored < next /\ \A r \in requests : r.n < next /\ r.n # stored
  /\ \A q, r \in requests : q.n = r.n => q = r
  /\ LatestIsHeld

\* What the bridge and the page's numbers are, one by one.
LEMMA PushTypes ==
  ASSUME Push!TypeOK
  PROVE  /\ live \in 0..MaxTokens /\ token \in 0..MaxTokens /\ store \in 0..MaxTokens /\ waking \in 0..MaxTokens
         /\ asking \in BOOLEAN /\ registered \in BOOLEAN /\ ready \in BOOLEAN
         /\ forgot \in BOOLEAN /\ overtaken \in BOOLEAN
         /\ bridge \in Seq([event : BOOLEAN, tok : 0..MaxTokens])
         /\ requests \subseteq [n : Nat, tok : 0..MaxTokens, page : Nat]
         /\ page \in Nat /\ next \in Nat /\ stored \in Nat /\ pushFaults \in 0..PushFaults
  BY DEF Push!TypeOK, Push!Tokens

LEMMA PushInit == Push!Init => PushSound
<1> SUFFICES ASSUME Push!Init PROVE PushSound
  OBVIOUS
<1>1. /\ live = 1 /\ asking = TRUE /\ bridge = << >>
      /\ token = 0 /\ registered = FALSE /\ ready = FALSE /\ page = 1
      /\ requests = {} /\ next = 1
      /\ store = 0 /\ stored = 0 /\ waking = 0
      /\ forgot = FALSE /\ overtaken = FALSE /\ pushFaults = 0
  BY DEF Push!Init
<1>2. Push!TypeOK
  <2>1. {live, token, store, waking} \subseteq 0..MaxTokens /\ pushFaults \in 0..PushFaults
    BY <1>1, PushAssumption
  <2>2. {asking, registered, ready, forgot, overtaken} \subseteq BOOLEAN
    BY <1>1
  <2>3. bridge \in Seq([event : BOOLEAN, tok : 0..MaxTokens])
    BY <1>1, EmptySeq
  <2>4. QED
    BY <1>1, <2>1, <2>2, <2>3 DEF Push!TypeOK, Push!Tokens
<1>3. BridgeInOrder
  BY <1>1 DEF BridgeInOrder
<1>4. LatestIsHeld
  BY <1>1 DEF LatestIsHeld
<1>5. QED
  BY <1>1, <1>2, <1>3, <1>4 DEF PushSound

\* What is said next on the bridge: the answer, or a new token.
LEMMA BridgeAppends ==
  ASSUME PushSound, NEW m \in [event : BOOLEAN, tok : 0..MaxTokens], bridge' = Append(bridge, m),
         token' = token, live' \in 0..MaxTokens, live' >= live,
         m.tok <= live', m.event => m.tok # 0, asking' => m.event /\ asking /\ m.tok = live',
         ~m.event => asking /\ ~asking' /\ m.tok \in {0, live}
  PROVE  BridgeInOrder' /\ bridge' \in Seq([event : BOOLEAN, tok : 0..MaxTokens])
<1>1. Push!TypeOK /\ BridgeInOrder
  BY DEF PushSound
<1>2. bridge \in Seq([event : BOOLEAN, tok : 0..MaxTokens]) /\ live \in Nat /\ live' \in Nat
  BY <1>1, PushTypes
<1>3. /\ bridge' \in Seq([event : BOOLEAN, tok : 0..MaxTokens]) /\ Len(bridge') = Len(bridge) + 1
      /\ bridge'[Len(bridge) + 1] = m
      /\ \A k \in 1..Len(bridge) : bridge'[k] = bridge[k] /\ bridge[k] \in [event : BOOLEAN, tok : 0..MaxTokens]
      /\ Len(bridge) \in Nat
  <2>1. PICK Said : Said = [event : BOOLEAN, tok : 0..MaxTokens]
    OBVIOUS
  <2>2. bridge \in Seq(Said) /\ m \in Said
    BY <1>2, <2>1
  <2>3. bridge' \in Seq(Said) /\ Len(bridge') = Len(bridge) + 1 /\ bridge'[Len(bridge) + 1] = m
    BY <2>2, AppendProperties
  <2>4. Len(bridge) \in Nat /\ \A k \in 1..Len(bridge) : bridge'[k] = bridge[k] /\ bridge[k] \in Said
    BY <2>2, AppendProperties
  <2>5. QED
    BY <2>1, <2>3, <2>4
<1>4. ASSUME NEW k \in 1..Len(bridge')
      PROVE  bridge'[k].tok <= live' /\ (bridge'[k].event => bridge'[k].tok # 0)
  <2>1. CASE k = Len(bridge) + 1
    BY <1>3, <2>1
  <2>2. CASE k # Len(bridge) + 1
    <3>1. k \in 1..Len(bridge)
      BY <1>3, <2>2
    <3>2. bridge[k].tok <= live /\ (bridge[k].event => bridge[k].tok # 0)
      BY <1>1, <3>1 DEF BridgeInOrder
    <3>3. bridge[k].tok \in Nat
      BY <1>3, <3>1
    <3>4. QED
      BY <1>2, <1>3, <3>1, <3>2, <3>3
  <2>3. QED
    BY <2>1, <2>2
<1>5. ASSUME NEW k \in 1..Len(bridge'), ~bridge'[k].event
      PROVE  /\ ~asking'
             /\ \A j \in 1..(k - 1) : bridge'[j].event
             /\ bridge'[k].tok # 0 =>
                  IF k = 1 THEN token' \in {0, bridge'[k].tok} ELSE bridge'[k - 1].tok = bridge'[k].tok
  <2>1. CASE k = Len(bridge) + 1
    <3>1. ~m.event /\ asking /\ ~asking' /\ m.tok \in {0, live}
      BY <1>3, <1>5, <2>1
    <3>2. \A j \in 1..Len(bridge) : bridge[j].event
      BY <1>1, <3>1 DEF BridgeInOrder
    <3>3. \A j \in 1..(k - 1) : bridge'[j].event
      BY <1>3, <2>1, <3>2
    <3>4. CASE k = 1
      <4>1. bridge = << >>
        BY <1>2, <1>3, <2>1, <3>4
      <4>2. token \in {0, live}
        BY <1>1, <3>1, <4>1 DEF BridgeInOrder
      <4>3. QED
        BY <1>3, <2>1, <3>1, <3>3, <3>4, <4>2
    <3>5. CASE k # 1
      <4>1. bridge # << >> /\ k - 1 = Len(bridge) /\ Len(bridge) \in 1..Len(bridge)
        BY <1>3, <2>1, <3>5
      <4>2. bridge[Len(bridge)].tok = live
        BY <1>1, <3>1, <4>1 DEF BridgeInOrder
      <4>3. QED
        BY <1>3, <2>1, <3>1, <3>3, <3>5, <4>1, <4>2
    <3>6. QED
      BY <3>4, <3>5
  <2>2. CASE k # Len(bridge) + 1
    <3>1. k \in 1..Len(bridge) /\ \A j \in 1..(k - 1) : j \in 1..Len(bridge)
      BY <1>3, <2>2
    <3>2. /\ ~asking
          /\ \A j \in 1..(k - 1) : bridge[j].event
          /\ bridge[k].tok # 0 =>
               IF k = 1 THEN token \in {0, bridge[k].tok} ELSE bridge[k - 1].tok = bridge[k].tok
      <4>1. ~bridge[k].event
        BY <1>3, <1>5, <3>1
      <4>2. QED
        BY <1>1, <3>1, <4>1 DEF BridgeInOrder
    <3>3. ~asking'
      BY <3>2
    <3>4. \A j \in 1..(k - 1) : bridge'[j].event
      BY <1>3, <3>1, <3>2
    <3>5. bridge'[k].tok # 0 =>
            IF k = 1 THEN token' \in {0, bridge'[k].tok} ELSE bridge'[k - 1].tok = bridge'[k].tok
      <4>1. k # 1 => k - 1 \in 1..Len(bridge)
        BY <3>1
      <4>2. QED
        BY <1>3, <3>1, <3>2, <4>1
    <3>6. QED
      BY <3>3, <3>4, <3>5
  <2>3. QED
    BY <2>1, <2>2
<1>6. asking' => IF bridge' = << >> THEN token' \in {0, live'} ELSE bridge'[Len(bridge')].tok = live'
  <2>1. bridge' # << >>
    BY <1>3
  <2>2. QED
    BY <1>3, <2>1
<1>7. QED
  BY <1>3, <1>4, <1>5, <1>6 DEF BridgeInOrder

LEMMA BridgeStep ==
  ASSUME PushSound, Push!Answer \/ Push!Rotate
  PROVE  PushSound'
<1>1. /\ UNCHANGED <<token, registered, ready, page, requests, next, store, stored, waking, forgot, overtaken, pushFaults>>
      /\ asking' \in BOOLEAN
  BY PushTypes DEF Push!Answer, Push!Rotate, Push!server, PushSound
<1>2. live' \in 0..MaxTokens /\ live' >= live /\ live' # 0 /\ live \in Nat /\ token \in Nat
  <2>1. live \in 0..MaxTokens /\ token \in 0..MaxTokens
    BY PushTypes DEF PushSound
  <2>2. live' = live \/ (live' = live + 1 /\ live < MaxTokens)
    BY DEF Push!Answer, Push!Rotate
  <2>3. QED
    BY <2>1, <2>2, PushAssumption DEF PushSound
<1>3. BridgeInOrder' /\ bridge' \in Seq([event : BOOLEAN, tok : 0..MaxTokens])
  <2>1. CASE Push!Answer
    <3>1. asking /\ asking' = FALSE /\ live' = live
      BY <2>1 DEF Push!Answer
    <3>2. PICK tok \in {live, 0} : bridge' = Append(bridge, [event |-> FALSE, tok |-> tok])
      BY <2>1 DEF Push!Answer
    <3>3. PICK m : m = [event |-> FALSE, tok |-> tok]
      OBVIOUS
    <3>4. tok \in 0..MaxTokens /\ tok <= live' /\ 0 \in 0..MaxTokens
      BY <1>2, <3>1, PushAssumption
    <3>5. m \in [event : BOOLEAN, tok : 0..MaxTokens] /\ ~m.event /\ m.tok = tok
      BY <3>3, <3>4
    <3>6. QED
      BY <1>1, <1>2, <3>1, <3>2, <3>3, <3>4, <3>5, BridgeAppends
  <2>2. CASE Push!Rotate
    <3>1. /\ live' = live + 1 /\ bridge' = Append(bridge, [event |-> TRUE, tok |-> live + 1]) /\ asking' = asking
      BY <2>2 DEF Push!Rotate
    <3>3. PICK m : m = [event |-> TRUE, tok |-> live + 1]
      OBVIOUS
    <3>4. m \in [event : BOOLEAN, tok : 0..MaxTokens] /\ m.event /\ m.tok = live'
      BY <1>2, <3>1, <3>3
    <3>5. bridge' = Append(bridge, m) /\ m.tok # 0 /\ m.tok <= live'
      BY <1>2, <3>1, <3>3, <3>4
    <3>6. asking' => m.event /\ asking /\ m.tok = live'
      BY <3>1, <3>4
    <3>7. QED
      BY <1>1, <1>2, <3>4, <3>5, <3>6, BridgeAppends
  <2>3. QED
    BY <2>1, <2>2
<1>4. LatestIsHeld'
  BY <1>1, <1>2 DEF PushSound, LatestIsHeld
<1>5. Push!TypeOK'
  BY <1>1, <1>2, <1>3 DEF PushSound, Push!TypeOK, Push!Tokens
<1>6. token' <= live'
  BY <1>1, <1>2 DEF PushSound
<1>7. QED
  BY <1>1, <1>2, <1>3, <1>4, <1>5, <1>6 DEF PushSound

\* A registration is the latest when it is made; without one, what was registered
\* still is.
LEMMA RegisterKeeps ==
  ASSUME PushSound, NEW tok \in 0..MaxTokens, NEW done \in BOOLEAN, NEW up \in BOOLEAN,
         Push!RegisterPush(tok, done, up), token' = tok,
         UNCHANGED <<live, page, store, stored, overtaken, forgot>>,
         done => registered /\ tok = token
  PROVE  /\ registered' \in BOOLEAN /\ next' \in Nat
         /\ requests' \subseteq [n : Nat, tok : 0..MaxTokens, page : Nat]
         /\ stored' < next' /\ \A r \in requests' : r.n < next' /\ r.n # stored'
         /\ \A q, r \in requests' : q.n = r.n => q = r
         /\ LatestIsHeld'
<1>1. /\ page \in Nat /\ next \in Nat /\ requests \subseteq [n : Nat, tok : 0..MaxTokens, page : Nat]
      /\ stored \in Nat /\ stored < next /\ \A r \in requests : r.n < next /\ r.n # stored
      /\ \A q, r \in requests : q.n = r.n => q = r
      /\ LatestIsHeld
  BY PushTypes DEF PushSound
<1>2. CASE tok # 0 /\ ~done /\ up
  <2>1. PICK made : made = [n |-> next, tok |-> tok, page |-> page]
    OBVIOUS
  <2>2. registered' = TRUE /\ next' = next + 1 /\ requests' = requests \union {made}
    BY <1>2, <2>1 DEF Push!RegisterPush
  <2>3. /\ made \in [n : Nat, tok : 0..MaxTokens, page : Nat]
        /\ made.n = next /\ made.tok = tok /\ made.page = page
    BY <1>1, <2>1
  <2>4. requests' \subseteq [n : Nat, tok : 0..MaxTokens, page : Nat]
    BY <1>1, <2>2, <2>3
  <2>5. stored' < next' /\ \A r \in requests' : r.n < next' /\ r.n # stored'
    <3>1. \A r \in requests : r.n \in Nat
      BY <1>1
    <3>2. QED
      BY <1>1, <2>2, <2>3, <3>1
  <2>6. \A q, r \in requests' : q.n = r.n => q = r
    <3>1. \A r \in requests : r.n # made.n
      BY <1>1, <2>3
    <3>2. QED
      BY <1>1, <2>2, <3>1
  <2>7. made \in requests' /\ next' - 1 = next
    BY <1>1, <2>2
  <2>8. LatestIsHeld'
    BY <1>2, <2>3, <2>7 DEF LatestIsHeld
  <2>9. registered' \in BOOLEAN /\ next' \in Nat
    BY <1>1, <2>2
  <2>10. QED
    BY <2>4, <2>5, <2>6, <2>8, <2>9
<1>3. CASE ~(tok # 0 /\ ~done /\ up)
  <2>1. registered' = done /\ UNCHANGED <<requests, next>>
    BY <1>3 DEF Push!RegisterPush
  <2>2. LatestIsHeld'
    BY <1>1, <2>1 DEF LatestIsHeld
  <2>3. QED
    BY <1>1, <2>1, <2>2
<1>4. QED
  BY <1>2, <1>3

LEMMA ReadyStep ==
  ASSUME PushSound, Push!Ready
  PROVE  PushSound'
<1>1. /\ ready' = TRUE
      /\ UNCHANGED <<live, asking, bridge, token, page, store, stored, waking, forgot, overtaken, pushFaults>>
  BY DEF Push!Ready, Push!server
<1>2. PICK tok, done : tok = token /\ done = registered
  OBVIOUS
<1>3. Push!RegisterPush(tok, done, TRUE)
  BY <1>2 DEF Push!Ready, Push!RegisterPush
<1>4. tok \in 0..MaxTokens /\ done \in BOOLEAN
  BY <1>2, PushTypes DEF PushSound
<1>5. /\ registered' \in BOOLEAN /\ next' \in Nat
      /\ requests' \subseteq [n : Nat, tok : 0..MaxTokens, page : Nat]
      /\ stored' < next' /\ \A r \in requests' : r.n < next' /\ r.n # stored'
      /\ \A q, r \in requests' : q.n = r.n => q = r
      /\ LatestIsHeld'
  BY <1>1, <1>2, <1>3, <1>4, RegisterKeeps
<1>6. BridgeInOrder'
  BY <1>1 DEF PushSound, BridgeInOrder
<1>7. Push!TypeOK'
  BY <1>1, <1>5 DEF PushSound, Push!TypeOK, Push!Tokens
<1>8. live' # 0 /\ token' <= live'
  BY <1>1 DEF PushSound
<1>9. QED
  BY <1>5, <1>6, <1>7, <1>8 DEF PushSound

\* The page handles what the bridge says first; what is said next follows it.
LEMMA BridgeTails ==
  ASSUME PushSound, bridge # << >>, bridge' = Tail(bridge), UNCHANGED <<live, asking>>,
         token' = IF Head(bridge).tok = 0 THEN token ELSE Head(bridge).tok
  PROVE  /\ BridgeInOrder' /\ bridge' \in Seq([event : BOOLEAN, tok : 0..MaxTokens])
         /\ token' \in 0..MaxTokens /\ token' <= live
         /\ token # 0 /\ ~Head(bridge).event => token' = token
<1>1. Push!TypeOK /\ BridgeInOrder
  BY DEF PushSound
<1>2. /\ bridge \in Seq([event : BOOLEAN, tok : 0..MaxTokens]) /\ live \in Nat /\ token \in 0..MaxTokens
      /\ token <= live
  BY <1>1, PushTypes DEF PushSound
<1>3. /\ bridge' \in Seq([event : BOOLEAN, tok : 0..MaxTokens]) /\ Len(bridge') = Len(bridge) - 1
      /\ \A k \in 1..Len(bridge') : bridge'[k] = bridge[k + 1]
      /\ Head(bridge) = bridge[1] /\ Len(bridge) \in Nat /\ Len(bridge) > 0
      /\ \A k \in 1..Len(bridge) : bridge[k] \in [event : BOOLEAN, tok : 0..MaxTokens]
  <2>1. PICK Said : Said = [event : BOOLEAN, tok : 0..MaxTokens]
    OBVIOUS
  <2>2. bridge \in Seq(Said)
    BY <1>2, <2>1
  <2>3. /\ bridge' \in Seq(Said) /\ Len(bridge') = Len(bridge) - 1
        /\ \A k \in 1..Len(bridge') : bridge'[k] = bridge[k + 1]
    BY <2>2, HeadTailProperties
  <2>4. /\ Head(bridge) = bridge[1] /\ Len(bridge) \in Nat /\ Len(bridge) > 0
        /\ \A k \in 1..Len(bridge) : bridge[k] \in Said
    BY <2>2
  <2>5. QED
    BY <2>1, <2>3, <2>4
<1>4. /\ token' = IF bridge[1].tok = 0 THEN token ELSE bridge[1].tok
      /\ 1 \in 1..Len(bridge) /\ bridge[1].tok \in 0..MaxTokens
      /\ bridge[1].tok <= live /\ (bridge[1].event => bridge[1].tok # 0)
  <2>1. 1 \in 1..Len(bridge)
    BY <1>3
  <2>2. bridge[1].tok \in 0..MaxTokens
    BY <1>3, <2>1
  <2>3. QED
    BY <1>1, <1>3, <2>1, <2>2 DEF BridgeInOrder
<1>5. token' \in 0..MaxTokens /\ token' <= live
  BY <1>2, <1>4
<1>6. ASSUME NEW k \in 1..Len(bridge')
      PROVE  /\ k + 1 \in 1..Len(bridge) /\ bridge'[k] = bridge[k + 1]
             /\ bridge'[k].tok <= live' /\ (bridge'[k].event => bridge'[k].tok # 0)
  <2>1. k + 1 \in 1..Len(bridge) /\ bridge'[k] = bridge[k + 1]
    BY <1>3
  <2>2. QED
    BY <1>1, <2>1 DEF BridgeInOrder
<1>7. ASSUME NEW k \in 1..Len(bridge'), ~bridge'[k].event
      PROVE  /\ ~asking'
             /\ \A j \in 1..(k - 1) : bridge'[j].event
             /\ bridge'[k].tok # 0 =>
                  IF k = 1 THEN token' \in {0, bridge'[k].tok} ELSE bridge'[k - 1].tok = bridge'[k].tok
  <2>1. k + 1 \in 1..Len(bridge) /\ ~bridge[k + 1].event /\ k \in Nat /\ k >= 1
    BY <1>6, <1>7
  <2>2. /\ ~asking
        /\ \A j \in 1..((k + 1) - 1) : bridge[j].event
        /\ bridge[k + 1].tok # 0 => bridge[(k + 1) - 1].tok = bridge[k + 1].tok
    <3>1. k + 1 # 1
      BY <2>1
    <3>2. QED
      BY <1>1, <2>1, <3>1 DEF BridgeInOrder
  <2>3. /\ ~asking'
        /\ \A j \in 1..k : bridge[j].event
        /\ bridge'[k].tok # 0 => bridge[k].tok = bridge'[k].tok
    <3>1. (k + 1) - 1 = k
      BY <2>1
    <3>2. QED
      BY <1>6, <2>2, <3>1
  <2>4. \A j \in 1..(k - 1) : bridge'[j].event
    <3>1. \A j \in 1..(k - 1) : j + 1 \in 1..k /\ j \in 1..Len(bridge')
      BY <1>3, <2>1
    <3>2. QED
      BY <1>3, <2>3, <3>1
  <2>5. bridge'[k].tok # 0 =>
          IF k = 1 THEN token' \in {0, bridge'[k].tok} ELSE bridge'[k - 1].tok = bridge'[k].tok
    <3>1. CASE k = 1
      <4>1. bridge[1].event
        BY <2>3, <3>1
      <4>2. token' = bridge[1].tok
        BY <1>4, <4>1
      <4>3. QED
        BY <2>3, <3>1, <4>2
    <3>2. CASE k # 1
      <4>1. k - 1 \in 1..Len(bridge') /\ (k - 1) + 1 = k
        BY <1>3, <2>1, <3>2
      <4>2. bridge'[k - 1] = bridge[k]
        BY <1>3, <4>1
      <4>3. QED
        BY <2>3, <3>2, <4>2
    <3>3. QED
      BY <3>1, <3>2
  <2>6. QED
    BY <2>3, <2>4, <2>5
<1>8. asking' => IF bridge' = << >> THEN token' \in {0, live'} ELSE bridge'[Len(bridge')].tok = live'
  <2>1. SUFFICES ASSUME asking'
                 PROVE  IF bridge' = << >> THEN token' \in {0, live'} ELSE bridge'[Len(bridge')].tok = live'
    OBVIOUS
  <2>2. bridge[Len(bridge)].tok = live
    BY <1>1, <2>1 DEF BridgeInOrder
  <2>3. CASE bridge' = << >>
    <3>1. Len(bridge') = 0
      BY <2>3, EmptySeq
    <3>2. Len(bridge) = 1
      BY <1>3, <3>1
    <3>3. bridge[1].tok = live /\ live # 0 /\ live' = live
      BY <2>2, <3>2 DEF PushSound
    <3>4. QED
      BY <1>4, <2>3, <3>3
  <2>4. CASE bridge' # << >>
    <3>1. Len(bridge') \in 1..Len(bridge') /\ Len(bridge') + 1 = Len(bridge)
      BY <1>3, <2>4
    <3>2. QED
      BY <1>3, <2>2, <2>4, <3>1
  <2>5. QED
    BY <2>3, <2>4
<1>9. token # 0 /\ ~Head(bridge).event => token' = token
  <2>1. SUFFICES ASSUME token # 0, ~bridge[1].event PROVE token' = token
    BY <1>3
  <2>2. bridge[1].tok # 0 => token \in {0, bridge[1].tok}
    BY <1>1, <1>4, <2>1 DEF BridgeInOrder
  <2>3. QED
    BY <1>4, <2>1, <2>2
<1>10. BridgeInOrder'
  BY <1>6, <1>7, <1>8 DEF BridgeInOrder
<1>11. QED
  BY <1>3, <1>5, <1>9, <1>10

LEMMA OnPushTokenStep ==
  ASSUME PushSound, Push!OnPushToken
  PROVE  PushSound'
<1>1. /\ bridge # << >> /\ bridge' = Tail(bridge)
      /\ token' = IF Head(bridge).tok = 0 THEN token ELSE Head(bridge).tok
      /\ Push!RegisterPush(token', Push!StillRegistered(Head(bridge)), ready)
      /\ UNCHANGED <<live, asking, ready, page, store, stored, waking, forgot, overtaken, pushFaults>>
  BY DEF Push!OnPushToken, Push!server
<1>2. /\ BridgeInOrder' /\ bridge' \in Seq([event : BOOLEAN, tok : 0..MaxTokens])
      /\ token' \in 0..MaxTokens /\ token' <= live
      /\ token # 0 /\ ~Head(bridge).event => token' = token
  BY <1>1, BridgeTails
<1>3. PICK tok, done, up : tok = token' /\ done = Push!StillRegistered(Head(bridge)) /\ up = ready
  OBVIOUS
<1>4. Push!RegisterPush(tok, done, up)
  BY <1>1, <1>3 DEF Push!RegisterPush
<1>5. tok \in 0..MaxTokens /\ up \in BOOLEAN /\ done \in BOOLEAN
  BY <1>2, <1>3, PushTypes DEF PushSound, Push!StillRegistered
<1>6. done => registered /\ tok = token
  <2>1. registered => token # 0
    BY DEF PushSound, LatestIsHeld
  <2>2. QED
    BY <1>2, <1>3, <2>1 DEF Push!StillRegistered
<1>7. /\ registered' \in BOOLEAN /\ next' \in Nat
      /\ requests' \subseteq [n : Nat, tok : 0..MaxTokens, page : Nat]
      /\ stored' < next' /\ \A r \in requests' : r.n < next' /\ r.n # stored'
      /\ \A q, r \in requests' : q.n = r.n => q = r
      /\ LatestIsHeld'
  BY <1>1, <1>3, <1>4, <1>5, <1>6, RegisterKeeps
<1>8. Push!TypeOK'
  BY <1>1, <1>2, <1>7 DEF PushSound, Push!TypeOK, Push!Tokens
<1>9. live' # 0 /\ token' <= live'
  BY <1>1, <1>2 DEF PushSound
<1>10. QED
  BY <1>2, <1>7, <1>8, <1>9 DEF PushSound

LEMMA FaultsBounded ==
  ASSUME PushSound, Push!Faults(1)
  PROVE  pushFaults' \in 0..PushFaults
  BY PushTypes, PushAssumption DEF PushSound, Push!Faults

LEMMA DroppedStep ==
  ASSUME PushSound, Push!Dropped
  PROVE  PushSound'
<1>1. /\ ready' = FALSE /\ pushFaults' \in 0..PushFaults
      /\ UNCHANGED <<live, asking, bridge, token, registered, page, requests, next, store, stored,
                     waking, forgot, overtaken>>
  BY FaultsBounded DEF Push!Dropped, Push!server
<1>2. Push!TypeOK'
  BY <1>1 DEF PushSound, Push!TypeOK
<1>3. BridgeInOrder' /\ LatestIsHeld'
  BY <1>1 DEF PushSound, BridgeInOrder, LatestIsHeld
<1>4. QED
  BY <1>1, <1>2, <1>3 DEF PushSound

LEMMA RestartStep ==
  ASSUME PushSound, Push!Restart
  PROVE  PushSound'
<1>1. /\ page' = page + 1 /\ pushFaults' \in 0..PushFaults
      /\ asking' = TRUE /\ bridge' = << >> /\ token' = 0 /\ registered' = FALSE /\ ready' = FALSE
      /\ UNCHANGED <<live, requests, next, store, stored, waking, forgot, overtaken>>
  BY FaultsBounded DEF Push!Restart, Push!server
<1>2. live \in 0..MaxTokens /\ live # 0 /\ page \in Nat /\ Push!TypeOK
  BY PushTypes DEF PushSound
<1>3. Push!TypeOK'
  <2>1. token' \in 0..MaxTokens /\ page' \in Nat
    BY <1>1, <1>2, PushAssumption
  <2>2. bridge' \in Seq([event : BOOLEAN, tok : 0..MaxTokens])
    BY <1>1, EmptySeq
  <2>3. QED
    BY <1>1, <1>2, <2>1, <2>2 DEF Push!TypeOK, Push!Tokens
<1>4. BridgeInOrder' /\ LatestIsHeld'
  BY <1>1 DEF BridgeInOrder, LatestIsHeld
<1>5. token' <= live'
  BY <1>1, <1>2
<1>6. QED
  BY <1>1, <1>3, <1>4, <1>5 DEF PushSound

\* A registration that arrives is the latest, or was overtaken; an answer that is
\* lost takes the page that waits for it back to not registered.
LEMMA RegistrationStep ==
  ASSUME PushSound, NEW r \in requests, Push!Registration(r)
  PROVE  PushSound'
<1>1. /\ requests' = requests \ {r}
      /\ UNCHANGED <<live, asking, bridge, token, ready, page, next, waking, forgot>>
  BY DEF Push!Registration
<1>2. /\ Push!TypeOK
      /\ r \in [n : Nat, tok : 0..MaxTokens, page : Nat] /\ stored \in Nat /\ next \in Nat
      /\ registered \in BOOLEAN /\ overtaken \in BOOLEAN /\ r.n < next /\ r.n # stored
      /\ \A q \in requests : q.n = r.n => q = r
      /\ LatestIsHeld
  BY PushTypes DEF PushSound
<1>3. \/ store' = r.tok /\ stored' = r.n /\ overtaken' = (overtaken \/ r.n < stored)
      \/ UNCHANGED <<store, stored, overtaken>> /\ registered' = (registered /\ r.page # page)
  BY DEF Push!Registration
<1>4. registered' = registered \/ registered' = (registered /\ r.page # page)
  BY DEF Push!Registration
<1>5. pushFaults' \in 0..PushFaults
  BY FaultsBounded, PushTypes DEF PushSound, Push!Registration
<1>6. store' \in 0..MaxTokens /\ stored' \in Nat
  BY <1>2, <1>3, PushTypes
<1>7. overtaken' \in BOOLEAN /\ registered' \in BOOLEAN
  BY <1>2, <1>3, <1>4
<1>8. Push!TypeOK'
  BY <1>1, <1>2, <1>5, <1>6, <1>7 DEF Push!TypeOK, Push!Tokens
<1>9. BridgeInOrder'
  BY <1>1 DEF PushSound, BridgeInOrder
<1>10. LatestIsHeld'
  <2>1. SUFFICES ASSUME registered'
                 PROVE  /\ token # 0
                        /\ \/ \E q \in requests' : q.n = next - 1 /\ q.tok = token /\ q.page = page
                           \/ overtaken' \/ forgot
                           \/ stored' = next - 1 /\ (store' = token \/ token # live)
    BY <1>1 DEF LatestIsHeld
  <2>2. registered
    BY <1>4, <2>1
  <2>3. token # 0
    BY <1>2, <2>2 DEF LatestIsHeld
  <2>4. CASE overtaken \/ forgot
    <3>1. overtaken => overtaken'
      BY <1>3, Zenon
    <3>2. QED
      BY <2>3, <2>4, <3>1
  <2>5. CASE \E q \in requests : q.n = next - 1 /\ q.tok = token /\ q.page = page
    <3>1. PICK q \in requests : q.n = next - 1 /\ q.tok = token /\ q.page = page
      BY <2>5
    <3>2. CASE q = r
      <4>1. ~(registered' = (registered /\ r.page # page))
        BY <2>1, <3>1, <3>2
      <4>2. store' = r.tok /\ stored' = r.n
        BY <1>3, <4>1
      <4>3. QED
        BY <2>3, <3>1, <3>2, <4>2
    <3>3. CASE q # r
      BY <1>1, <2>3, <3>1, <3>3
    <3>4. QED
      BY <3>2, <3>3
  <2>6. CASE stored = next - 1 /\ (store = token \/ token # live)
    <3>1. CASE UNCHANGED <<store, stored, overtaken>>
      BY <2>3, <2>6, <3>1
    <3>2. CASE store' = r.tok /\ stored' = r.n /\ overtaken' = (overtaken \/ r.n < stored)
      <4>1. r.n <= stored
        BY <1>2, <2>6
      <4>2. CASE r.n < stored
        <5>1. overtaken'
          BY <3>2, <4>2, Zenon
        <5>2. QED
          BY <2>3, <5>1
      <4>3. QED
        BY <1>2, <4>1, <4>2
    <3>3. QED
      BY <1>3, <3>1, <3>2
  <2>7. QED
    BY <1>2, <2>2, <2>4, <2>5, <2>6 DEF LatestIsHeld
<1>11. stored' < next' /\ \A q \in requests' : q.n < next' /\ q.n # stored'
  <2>1. \A q \in requests' : q \in requests /\ q.n # r.n /\ q.n < next /\ q.n # stored
    BY <1>1, <1>2 DEF PushSound
  <2>2. stored' = r.n \/ stored' = stored
    BY <1>3
  <2>3. QED
    BY <1>1, <1>2, <2>1, <2>2 DEF PushSound
<1>12. QED
  BY <1>1, <1>8, <1>9, <1>10, <1>11 DEF PushSound

\* A wake forgets the token it pushed to, which is not the live one, or makes a
\* later one forgotten.
LEMMA WakeStep ==
  ASSUME PushSound, Push!Wake \/ Push!Woken
  PROVE  PushSound'
<1>1. UNCHANGED <<live, asking, bridge, token, registered, ready, page, requests, next, stored, overtaken, pushFaults>>
  BY DEF Push!Wake, Push!Woken, Push!phone
<1>2. /\ Push!TypeOK /\ LatestIsHeld
      /\ store \in 0..MaxTokens /\ waking \in 0..MaxTokens /\ forgot \in BOOLEAN
  BY PushTypes DEF PushSound
<1>3. \/ UNCHANGED <<store, forgot>>
      \/ waking # live /\ store' = 0 /\ forgot' = (forgot \/ store # waking)
  BY DEF Push!Wake, Push!Woken
<1>4. waking' \in 0..MaxTokens /\ store' \in 0..MaxTokens
  <2>1. waking' = store \/ waking' = 0
    BY DEF Push!Wake, Push!Woken
  <2>2. QED
    BY <1>2, <1>3, <2>1, PushAssumption
<1>5. forgot' \in BOOLEAN
  BY <1>2, <1>3
<1>6. Push!TypeOK'
  BY <1>1, <1>2, <1>4, <1>5 DEF Push!TypeOK, Push!Tokens
<1>7. BridgeInOrder'
  BY <1>1 DEF PushSound, BridgeInOrder
<1>8. LatestIsHeld'
  <2>1. CASE UNCHANGED <<store, forgot>>
    BY <1>1, <1>2, <2>1 DEF LatestIsHeld
  <2>2. CASE waking # live /\ store' = 0 /\ forgot' = (forgot \/ store # waking)
    <3>1. (store = token \/ token # live) => forgot' \/ token # live
      BY <2>2
    <3>2. forgot => forgot'
      BY <2>2
    <3>3. QED
      BY <1>1, <1>2, <3>1, <3>2 DEF LatestIsHeld
  <2>3. QED
    BY <1>3, <2>1, <2>2
<1>9. QED
  BY <1>1, <1>6, <1>7, <1>8 DEF PushSound

LEMMA PushStep == PushSound /\ (Push!Next \/ UNCHANGED Push!vars) => PushSound'
<1>1. ASSUME PushSound, UNCHANGED Push!vars PROVE PushSound'
  <2>1. UNCHANGED <<live, asking, bridge, token, registered, ready, page, requests, next, store, stored,
                    waking, forgot, overtaken, pushFaults>>
    BY <1>1 DEF Push!vars, Push!phone, Push!server
  <2>2. QED
    BY <1>1, <2>1 DEF PushSound, Push!TypeOK, BridgeInOrder, LatestIsHeld
<1>2. QED
  BY <1>1, BridgeStep, OnPushTokenStep, ReadyStep, DroppedStep, RestartStep, RegistrationStep, WakeStep
     DEF Push!Next

\* Nothing under way: the latest registration is held, or was lost.
LEMMA PushHeld == PushSound => Push!RegisteredIsHeld
<1> SUFFICES ASSUME PushSound, registered, token = live, requests = {} PROVE store = token \/ forgot \/ overtaken
  BY DEF Push!RegisteredIsHeld
<1> QED
  BY DEF PushSound, LatestIsHeld

-----------------------------------------------------------------------------
(* Received files. *)

Unbegun == {"idle", "naming", "saving"}
Copied == {"finished", "released", "done"}

\* All of f is at the path p, unless two saves were writing there at once.
Kept(f, p) == p \in clashed \/ Received!Whole(f, p)

\* A file on disk is named for the save that created it, and stays at its path.
Owned ==
  /\ \A p \in Received!Paths : temp[p] # None => path[temp[p]] = p
  /\ \A p \in Received!Paths : final[p] # None => path[final[p]] = p
  /\ \A s \in Received!Saves : handle[s] # None => path[s] # None /\ path[handle[s]] = path[s]

\* One save writes at p, if any: its .part, and nothing else is at p.
Alone(p) ==
  /\ final[p] # None => temp[p] = None
  /\ \A s \in Received!Saves : Received!Writing(s) /\ path[s] = p =>
       /\ final[p] = None /\ temp[p] # None /\ handle[s] = temp[p]
       /\ \A k \in 1..written[s] : content[temp[p]][k] = s[1]
       /\ \A t \in Received!Saves : Received!Writing(t) /\ path[t] = p => t = s

\* How far a save is says what there is of its file.
Stages ==
  /\ \A s \in Received!Saves : stage[s] \in Unbegun => path[s] = None /\ written[s] = 0
  /\ \A s \in Received!Saves : Received!Writing(s) => path[s] # None /\ handle[s] # None
  /\ \A s \in Received!Saves : stage[s] \in Copied => path[s] # None /\ Kept(s[1], path[s])

DiskSound == Owned /\ (\A p \in Received!Paths \ clashed : Alone(p)) /\ Stages

\* Only what has arrived is saved; a file that has left the stage was copied, and
\* rows name only copies.
RowsSound ==
  /\ \A f \in Files : got[f] \in {"no", "coming"} => stage[<<f, "auto">>] = "idle"
  /\ \A f \in Files : got[f] = "arrived" =>
       \/ f \in staged \union cleared
       \/ \E s \in Received!Saves : s[1] = f /\ path[s] # None /\ Kept(f, path[s])
  /\ \A f \in Files : row[f] # None /\ row[f].saved # None => Kept(f, row[f].saved)
  /\ \A f \in Files : history[f] # None /\ history[f].saved # None => Kept(f, history[f].saved)

FilesSound == Received!TypeOK /\ DiskSound /\ RowsSound

LEMMA LeastOf ==
  ASSUME NEW T, T \subseteq Nat, T # {}
  PROVE  \E m \in T : \A k \in T : m <= k
<1> DEFINE Less == {ss \in Nat \X Nat : ss[1] < ss[2]}
<1>1. IsWellFoundedOn(Less, Nat)
  BY NatLessThanWellFounded DEF OpToRel
<1>2. PICK x \in T : \A y \in T : ~ (<<y, x>> \in Less)
  BY <1>1, WFMin
<1>3. ASSUME NEW k \in T PROVE x <= k
  <2>1. x \in Nat /\ k \in Nat
    OBVIOUS
  <2>2. ~ (<<k, x>> \in {ss \in Nat \X Nat : ss[1] < ss[2]})
    BY <1>2
  <2>3. ~ (k < x)
    BY <2>1, <2>2
  <2>4. QED
    BY <2>1, <2>3
<1>4. QED
  BY <1>3

LEMMA ReceivedCardinality == \A S : Received!Cardinality(S) = Cardinality(S)
  BY DEF Received!Cardinality, Cardinality

LEMMA SavesFinite == IsFiniteSet(Received!Saves) /\ Received!Cardinality(Received!Saves) \in Nat
<1>1. IsFiniteSet(Files) /\ IsFiniteSet(Pressed)
  BY FileAssumption, FS_Subset
<1>2. IsFiniteSet({"auto"}) /\ IsFiniteSet({"hand"})
  BY FS_Singleton
<1>3. IsFiniteSet(Files \X {"auto"}) /\ IsFiniteSet(Pressed \X {"hand"})
  BY <1>1, <1>2, FS_Product
<1>4. IsFiniteSet(Received!Saves)
  BY <1>3, FS_Union DEF Received!Saves
<1>5. QED
  BY <1>4, FS_CardinalityType, ReceivedCardinality

\* There is always a name that is free: every file at a path was made by a save.
LEMMA FreePath ==
  ASSUME Received!TypeOK, Owned, NEW n \in Names
  PROVE  Received!UniquePath(n) \in Received!Paths /\ final[Received!UniquePath(n)] = None
<1> DEFINE most == Received!Cardinality(Received!Saves)
           free == {i \in 0..most : final[<<n, i>>] = None}
<1>1. most \in Nat /\ IsFiniteSet(Received!Saves) /\ Cardinality(Received!Saves) = most
  BY SavesFinite, ReceivedCardinality
<1>2. \A i \in 0..most : <<n, i>> \in Received!Paths
  BY DEF Received!Paths
<1> HIDE DEF most
<1>3. free # {}
  <2>1. SUFFICES ASSUME \A i \in 0..most : final[<<n, i>>] # None PROVE FALSE
    OBVIOUS
  <2> DEFINE f == [i \in 0..most |-> final[<<n, i>>]]
  <2>2. f \in [0..most -> Received!Saves]
    BY <1>2, <2>1 DEF Received!TypeOK
  <2>3. IsFiniteSet(0..most) /\ Cardinality(0..most) = most + 1
    BY <1>1, FS_Interval
  <2>4. \E i, j \in 0..most : i # j /\ f[i] = f[j]
    <3> HIDE DEF f
    <3>1. Cardinality(Received!Saves) < Cardinality(0..most)
      BY <1>1, <2>3
    <3>2. QED
      BY <1>1, <2>2, <2>3, <3>1, FS_PigeonHole
  <2>5. PICK i, j \in 0..most : i # j /\ final[<<n, i>>] = final[<<n, j>>]
    BY <2>4
  <2>6. path[final[<<n, i>>]] = <<n, i>> /\ path[final[<<n, j>>]] = <<n, j>>
    BY <1>2, <2>1 DEF Owned
  <2>7. QED
    BY <2>5, <2>6
<1>4. PICK m \in free : \A k \in free : m <= k
  <2>1. free \subseteq Nat
    BY <1>1
  <2>2. QED
    BY <1>3, <2>1, LeastOf
<1>5. final[<<n, m>>] = None /\ \A j \in 0..(m - 1) : final[<<n, j>>] # None
  <2>1. ASSUME NEW j \in 0..(m - 1) PROVE final[<<n, j>>] # None
    <3>1. j \in 0..most /\ ~ (m <= j)
      BY <1>1, <1>4
    <3>2. QED
      BY <1>4, <3>1
  <2>2. QED
    BY <1>4, <2>1
<1>6. PICK c : /\ Received!UniquePath(n) = <<n, c>>
               /\ c = CHOOSE i \in 0..most : final[<<n, i>>] = None /\ \A j \in 0..(i - 1) : final[<<n, j>>] # None
  BY DEF Received!UniquePath, most
<1>7. c \in 0..most /\ final[<<n, c>>] = None
  BY <1>4, <1>5, <1>6
<1>8. QED
  BY <1>2, <1>6, <1>7

LEMMA FilesInit == Received!Init => FilesSound
<1> SUFFICES ASSUME Received!Init PROVE FilesSound
  OBVIOUS
<1>1. /\ got = [f \in Files |-> "no"] /\ name \in [Files -> Names]
      /\ row = [f \in Files |-> None] /\ history = [f \in Files |-> None]
      /\ staged = {} /\ cleared = {} /\ clashed = {}
      /\ stage = [s \in Received!Saves |-> "idle"]
      /\ path = [s \in Received!Saves |-> None] /\ written = [s \in Received!Saves |-> 0]
      /\ handle = [s \in Received!Saves |-> None]
      /\ temp = [p \in Received!Paths |-> None] /\ final = [p \in Received!Paths |-> None]
      /\ content = [s \in Received!Saves |-> Received!Empty]
  BY DEF Received!Init
<1>2. Received!Empty \in [1..Slices -> Files \union {None}] /\ 0 \in 0..Slices
  BY FileAssumption DEF Received!Empty
<1>3. Received!TypeOK
  BY <1>1, <1>2 DEF Received!TypeOK
<1>4. \A f \in Files : <<f, "auto">> \in Received!Saves
  BY DEF Received!Saves
<1>5. DiskSound
  BY <1>1 DEF DiskSound, Owned, Alone, Stages, Copied, Received!Writing
<1>6. RowsSound
  BY <1>1, <1>4 DEF RowsSound
<1>7. QED
  BY <1>3, <1>5, <1>6 DEF FilesSound

StageNames == {"idle", "naming", "saving", "writing", "finished", "released", "done", "failed", "ended"}

\* A step of the page takes no save past what it has written.
LEMMA DiskKeeps ==
  ASSUME FilesSound, UNCHANGED <<path, written, handle, temp, final, content, clashed>>,
         \A s \in Received!Saves :
           /\ stage'[s] \in Unbegun => stage[s] \in Unbegun
           /\ stage'[s] = "writing" => stage[s] = "writing"
           /\ stage'[s] \in Copied => stage[s] \in Copied
  PROVE  DiskSound' /\ \A f, p : Kept(f, p)' <=> Kept(f, p)
<1>1. \A f, p : Kept(f, p)' <=> Kept(f, p)
  BY DEF Kept, Received!Whole
<1>2. Owned'
  BY DEF FilesSound, DiskSound, Owned
<1>3. Stages'
  BY <1>1 DEF FilesSound, DiskSound, Stages, Received!Writing
<1>4. \A p \in Received!Paths \ clashed' : Alone(p)'
  BY DEF FilesSound, DiskSound, Alone, Received!Writing
<1>5. QED
  BY <1>1, <1>2, <1>3, <1>4 DEF DiskSound

\* A row that is set names a copy if the new one does.
LEMMA RowSet ==
  ASSUME FilesSound, NEW f \in Files, NEW r \in Received!Rows, row' = [row EXCEPT ![f] = r],
         r.saved # None => Kept(f, r.saved)
  PROVE  /\ row' \in [Files -> Received!Rows \union {None}]
         /\ \A g \in Files : row'[g] # None /\ row'[g].saved # None => Kept(g, row'[g].saved)
<1>1. row \in [Files -> Received!Rows \union {None}]
  BY DEF FilesSound, Received!TypeOK
<1>2. \A g \in Files : row'[g] = IF g = f THEN r ELSE row[g]
  BY <1>1
<1>3. QED
  BY <1>1, <1>2 DEF FilesSound, RowsSound

LEMMA ExistingRow ==
  ASSUME FilesSound, NEW f \in Files, NEW r, r = Received!Existing(f)
  PROVE  /\ r \in Received!Rows
         /\ r.saved # None => Kept(f, r.saved)
<1>1. row[f] \in Received!Rows \union {None}
  BY DEF FilesSound, Received!TypeOK
<1>2. CASE row[f] = None
  <2>1. r = [state |-> "active", result |-> FALSE, saved |-> None]
    BY <1>2 DEF Received!Existing, Received!Blank
  <2>2. QED
    BY <2>1 DEF Received!Rows
<1>3. CASE row[f] # None
  BY <1>1, <1>3 DEF Received!Existing, FilesSound, RowsSound
<1>4. QED
  BY <1>2, <1>3

\* The rows that are kept name what they named.
LEMMA HistorySet ==
  ASSUME NEW rows \in [Files -> Received!Rows \union {None}], Received!SaveHistory(rows),
         \A f \in Files : rows[f] # None /\ rows[f].saved # None => Kept(f, rows[f].saved)
  PROVE  /\ history' \in [Files -> Received!Rows \union {None}]
         /\ \A f \in Files : history'[f] # None /\ history'[f].saved # None => Kept(f, history'[f].saved)
<1>1. history' = [f \in Files |-> IF Received!Finished(rows[f]) THEN [rows[f] EXCEPT !.result = FALSE] ELSE None]
  BY DEF Received!SaveHistory
<1>2. ASSUME NEW f \in Files
      PROVE  /\ history'[f] \in Received!Rows \union {None}
             /\ history'[f] # None /\ history'[f].saved # None => Kept(f, history'[f].saved)
  <2>1. CASE Received!Finished(rows[f])
    <3>1. rows[f] # None /\ rows[f] \in Received!Rows
      BY <2>1 DEF Received!Finished
    <3>2. history'[f] = [rows[f] EXCEPT !.result = FALSE]
      BY <1>1, <2>1
    <3>3. history'[f] \in Received!Rows /\ history'[f].saved = rows[f].saved
      BY <3>1, <3>2 DEF Received!Rows
    <3>4. QED
      BY <3>1, <3>3
  <2>2. CASE ~Received!Finished(rows[f])
    <3>1. history'[f] = None
      BY <1>1, <2>2
    <3>2. QED
      BY <3>1
  <2>3. QED
    BY <2>1, <2>2
<1>3. QED
  BY <1>1, <1>2

\* What a step of the page has to keep.
LEMMA PageKeeps ==
  ASSUME FilesSound, UNCHANGED <<path, written, handle, temp, final, content, clashed>>,
         got' \in [Files -> {"no", "coming", "arrived", "ended"}], name' \in [Files -> Names],
         staged' \subseteq Files, cleared' \subseteq Files, stage' \in [Received!Saves -> StageNames],
         \A s \in Received!Saves :
           /\ stage'[s] \in Unbegun => stage[s] \in Unbegun
           /\ stage'[s] = "writing" => stage[s] = "writing"
           /\ stage'[s] \in Copied => stage[s] \in Copied,
         \A f \in Files : got'[f] \in {"no", "coming"} => stage'[<<f, "auto">>] = "idle",
         \A f \in Files : got'[f] = "arrived" =>
           \/ f \in staged' \union cleared'
           \/ \E s \in Received!Saves : s[1] = f /\ path[s] # None /\ Kept(f, path[s]),
         row' \in [Files -> Received!Rows \union {None}],
         \A f \in Files : row'[f] # None /\ row'[f].saved # None => Kept(f, row'[f].saved),
         history' \in [Files -> Received!Rows \union {None}],
         \A f \in Files : history'[f] # None /\ history'[f].saved # None => Kept(f, history'[f].saved)
  PROVE  FilesSound'
<1>1. DiskSound' /\ \A f, p : Kept(f, p)' <=> Kept(f, p)
  BY DiskKeeps
<1>2. Received!TypeOK'
  <2>1. /\ path' \in [Received!Saves -> Received!Paths \union {None}] /\ written' \in [Received!Saves -> 0..Slices]
        /\ handle' \in [Received!Saves -> Received!Saves \union {None}] /\ clashed' \subseteq Received!Paths
        /\ temp' \in [Received!Paths -> Received!Saves \union {None}]
        /\ final' \in [Received!Paths -> Received!Saves \union {None}]
        /\ content' \in [Received!Saves -> [1..Slices -> Files \union {None}]]
    BY Zenon DEF FilesSound, Received!TypeOK
  <2>2. /\ got' \in [Files -> {"no", "coming", "arrived", "ended"}] /\ name' \in [Files -> Names]
        /\ staged' \subseteq Files /\ cleared' \subseteq Files
        /\ row' \in [Files -> Received!Rows \union {None}] /\ history' \in [Files -> Received!Rows \union {None}]
    OBVIOUS
  <2>3. stage' \in [Received!Saves ->
          {"idle", "naming", "saving", "writing", "finished", "released", "done", "failed", "ended"}]
    BY DEF StageNames
  <2>4. QED
    BY ONLY <2>1, <2>2, <2>3 DEF Received!TypeOK
<1>3. RowsSound'
  <2>1. \A f, p : Kept(f, p) <=> p \in clashed' \/ (final'[p] # None /\ \A k \in 1..Slices : content'[final'[p]][k] = f)
    BY DEF Kept, Received!Whole
  <2>2. \A f \in Files : row'[f] # None /\ row'[f].saved # None =>
          \/ row'[f].saved \in clashed'
          \/ final'[row'[f].saved] # None /\ \A k \in 1..Slices : content'[final'[row'[f].saved]][k] = f
    BY <2>1
  <2>3. \A f \in Files : history'[f] # None /\ history'[f].saved # None =>
          \/ history'[f].saved \in clashed'
          \/ final'[history'[f].saved] # None /\ \A k \in 1..Slices : content'[final'[history'[f].saved]][k] = f
    BY <2>1
  <2>4. \A f \in Files : got'[f] = "arrived" =>
          \/ f \in staged' \union cleared'
          \/ \E s \in Received!Saves :
               /\ s[1] = f /\ path'[s] # None
               /\ \/ path'[s] \in clashed'
                  \/ final'[path'[s]] # None /\ \A k \in 1..Slices : content'[final'[path'[s]]][k] = f
    <3>1. \A s : path'[s] = path[s]
      OBVIOUS
    <3>2. QED
      BY <2>1, <3>1
  <2>5. QED
    BY <2>2, <2>3, <2>4 DEF RowsSound, Kept, Received!Whole
<1>4. QED
  BY <1>1, <1>2, <1>3 DEF FilesSound

LEMMA FileFacts ==
  ASSUME FilesSound
  PROVE  /\ got \in [Files -> {"no", "coming", "arrived", "ended"}] /\ name \in [Files -> Names]
         /\ staged \subseteq Files /\ cleared \subseteq Files /\ stage \in [Received!Saves -> StageNames]
         /\ row \in [Files -> Received!Rows \union {None}] /\ history \in [Files -> Received!Rows \union {None}]
         /\ path \in [Received!Saves -> Received!Paths \union {None}]
         /\ \A f \in Files : <<f, "auto">> \in Received!Saves
         /\ \A s \in Received!Saves : s[1] \in Files
         /\ \A f \in Files : got[f] \in {"no", "coming"} => stage[<<f, "auto">>] = "idle"
         /\ \A f \in Files : got[f] = "arrived" =>
              \/ f \in staged \union cleared
              \/ \E s \in Received!Saves : s[1] = f /\ path[s] # None /\ Kept(f, path[s])
         /\ \A f \in Files : row[f] # None /\ row[f].saved # None => Kept(f, row[f].saved)
         /\ \A f \in Files : history[f] # None /\ history[f].saved # None => Kept(f, history[f].saved)
<1>1. \A s \in Received!Saves : s[1] \in Files
  BY FileAssumption DEF Received!Saves
<1>2. \A f \in Files : <<f, "auto">> \in Received!Saves
  BY DEF Received!Saves
<1>3. QED
  BY <1>1, <1>2 DEF FilesSound, Received!TypeOK, RowsSound, StageNames

\* The rows follow what the protocol says of a file.
LEMMA EventStep ==
  ASSUME FilesSound, NEW f \in Files, Received!Offer(f) \/ Received!Complete(f) \/ Received!Fail(f)
  PROVE  FilesSound'
<1>1. PICK old : old = Received!Existing(f)
  OBVIOUS
<1>2. old \in Received!Rows /\ (old.saved # None => Kept(f, old.saved))
  BY <1>1, ExistingRow
<1>3. UNCHANGED <<name, cleared, path, written, handle, temp, final, content, clashed>>
  BY DEF Received!Offer, Received!Complete, Received!Fail, Received!shell
<1>4. PICK r : /\ r \in {[old EXCEPT !.state = "active"], [old EXCEPT !.state = "complete", !.result = TRUE],
                         [old EXCEPT !.state = "failed"]}
               /\ row' = [row EXCEPT ![f] = r]
  <2>1. CASE Received!Offer(f)
    BY <1>1, <2>1 DEF Received!Offer, Received!Upsert
  <2>2. CASE Received!Complete(f)
    BY <1>1, <2>2 DEF Received!Complete, Received!Upsert
  <2>3. CASE Received!Fail(f)
    BY <1>1, <2>3 DEF Received!Fail, Received!Upsert
  <2>4. QED
    BY <2>1, <2>2, <2>3
<1>5. r \in Received!Rows /\ r.saved = old.saved
  BY <1>2, <1>4 DEF Received!Rows
<1>6. /\ row' \in [Files -> Received!Rows \union {None}]
      /\ \A g \in Files : row'[g] # None /\ row'[g].saved # None => Kept(g, row'[g].saved)
  BY <1>2, <1>4, <1>5, RowSet
<1>7. /\ history' \in [Files -> Received!Rows \union {None}]
      /\ \A g \in Files : history'[g] # None /\ history'[g].saved # None => Kept(g, history'[g].saved)
  <2>1. CASE UNCHANGED history
    BY <2>1, FileFacts
  <2>2. CASE Received!SaveHistory(row')
    <3>1. PICK rows : rows = row'
      OBVIOUS
    <3>2. Received!SaveHistory(rows)
      BY <2>2, <3>1 DEF Received!SaveHistory
    <3>3. QED
      BY <1>6, <3>1, <3>2, HistorySet
  <2>3. QED
    BY <2>1, <2>2 DEF Received!Offer, Received!Complete, Received!Fail
<1>8. /\ got[f] \in {"no", "coming"} /\ stage[<<f, "auto">>] = "idle"
      /\ \E now \in {"coming", "arrived", "ended"} : got' = [got EXCEPT ![f] = now]
  BY FileFacts DEF Received!Offer, Received!Complete, Received!Fail
<1>9. \/ UNCHANGED <<stage, staged>> /\ got'[f] # "arrived"
      \/ /\ stage' = [stage EXCEPT ![<<f, "auto">>] = "naming"] /\ staged' = staged \union {f}
         /\ got'[f] = "arrived"
  BY FileFacts DEF Received!Offer, Received!Complete, Received!Fail
<1>10. /\ got' \in [Files -> {"no", "coming", "arrived", "ended"}]
       /\ staged' \subseteq Files /\ stage' \in [Received!Saves -> StageNames]
  BY <1>8, <1>9, FileFacts DEF StageNames
<1>11. \A s \in Received!Saves :
         /\ stage'[s] \in Unbegun => stage[s] \in Unbegun
         /\ stage'[s] = "writing" => stage[s] = "writing"
         /\ stage'[s] \in Copied => stage[s] \in Copied
  BY <1>8, <1>9, FileFacts DEF Unbegun, Copied
<1>12. \A g \in Files : got'[g] \in {"no", "coming"} => stage'[<<g, "auto">>] = "idle"
  <2>1. SUFFICES ASSUME NEW g \in Files, got'[g] \in {"no", "coming"} PROVE stage'[<<g, "auto">>] = "idle"
    OBVIOUS
  <2>2. CASE g = f
    BY <1>8, <1>9, <2>1, <2>2
  <2>3. CASE g # f
    <3>1. got'[g] = got[g]
      BY <1>8, <2>3, FileFacts
    <3>2. stage'[<<g, "auto">>] = stage[<<g, "auto">>]
      BY <1>9, <2>3, FileFacts
    <3>3. QED
      BY <2>1, <3>1, <3>2, FileFacts
  <2>4. QED
    BY <2>2, <2>3
<1>13. \A g \in Files : got'[g] = "arrived" =>
         \/ g \in staged' \union cleared'
         \/ \E s \in Received!Saves : s[1] = g /\ path[s] # None /\ Kept(g, path[s])
  <2>1. SUFFICES ASSUME NEW g \in Files, got'[g] = "arrived"
                 PROVE  \/ g \in staged' \union cleared'
                        \/ \E s \in Received!Saves : s[1] = g /\ path[s] # None /\ Kept(g, path[s])
    OBVIOUS
  <2>2. CASE g = f
    BY <1>9, <2>1, <2>2
  <2>3. CASE g # f
    <3>1. got[g] = "arrived" /\ staged \subseteq staged' /\ cleared' = cleared
      BY <1>3, <1>8, <1>9, <2>1, <2>3, FileFacts
    <3>2. QED
      BY <3>1, FileFacts
  <2>4. QED
    BY <2>2, <2>3
<1>14. name' \in [Files -> Names] /\ cleared' \subseteq Files
  BY <1>3, FileFacts
<1>15. QED
  BY <1>3, <1>6, <1>7, <1>10, <1>11, <1>12, <1>13, <1>14, PageKeeps

LEMMA SuggestStep ==
  ASSUME FilesSound, NEW f \in Files, NEW n \in Names, Received!Suggest(f, n)
  PROVE  FilesSound'
<1>1. /\ stage[<<f, "auto">>] = "naming" /\ stage' = [stage EXCEPT ![<<f, "auto">>] = "saving"]
      /\ name' = [name EXCEPT ![f] = n] /\ Received!Upsert(f, Received!Existing(f))
      /\ UNCHANGED <<got, history, staged, cleared, path, written, handle, temp, final, content, clashed>>
  BY DEF Received!Suggest, Received!shell
<1>2. PICK r : r = Received!Existing(f)
  OBVIOUS
<1>3. row' = [row EXCEPT ![f] = r]
  BY <1>1, <1>2 DEF Received!Upsert
<1>4. /\ row' \in [Files -> Received!Rows \union {None}]
      /\ \A g \in Files : row'[g] # None /\ row'[g].saved # None => Kept(g, row'[g].saved)
  BY <1>2, <1>3, ExistingRow, RowSet
<1>5. /\ name' \in [Files -> Names] /\ stage' \in [Received!Saves -> StageNames]
      /\ got' \in [Files -> {"no", "coming", "arrived", "ended"}]
      /\ staged' \subseteq Files /\ cleared' \subseteq Files
      /\ history' \in [Files -> Received!Rows \union {None}]
  BY <1>1, FileFacts DEF StageNames
<1>6. \A s \in Received!Saves :
         /\ stage'[s] \in Unbegun => stage[s] \in Unbegun
         /\ stage'[s] = "writing" => stage[s] = "writing"
         /\ stage'[s] \in Copied => stage[s] \in Copied
  BY <1>1, FileFacts DEF Unbegun, Copied
<1>7. \A g \in Files : got'[g] \in {"no", "coming"} => stage'[<<g, "auto">>] = "idle"
  <2>1. \A g \in Files : got[g] \in {"no", "coming"} => stage[<<g, "auto">>] = "idle"
    BY FileFacts
  <2>2. \A g \in Files : stage[<<g, "auto">>] = "idle" => stage'[<<g, "auto">>] = "idle"
    BY <1>1, FileFacts
  <2>3. QED
    BY <1>1, <2>1, <2>2
<1>8. \A g \in Files : got'[g] = "arrived" =>
         \/ g \in staged' \union cleared'
         \/ \E s \in Received!Saves : s[1] = g /\ path[s] # None /\ Kept(g, path[s])
  BY <1>1, FileFacts
<1>9. \A g \in Files : history'[g] # None /\ history'[g].saved # None => Kept(g, history'[g].saved)
  BY <1>1, FileFacts
<1>10. QED
  BY <1>1, <1>4, <1>5, <1>6, <1>7, <1>8, <1>9, PageKeeps

LEMMA PressStep ==
  ASSUME FilesSound, NEW f \in Files, Received!Press(f)
  PROVE  FilesSound'
<1>1. /\ f \in Pressed /\ stage[<<f, "hand">>] = "idle" /\ stage' = [stage EXCEPT ![<<f, "hand">>] = "saving"]
      /\ UNCHANGED <<got, name, row, history, staged, cleared, path, written, handle, temp, final, content, clashed>>
  BY DEF Received!Press, Received!shell, Received!page
<1>2. /\ name' \in [Files -> Names] /\ stage' \in [Received!Saves -> StageNames]
      /\ got' \in [Files -> {"no", "coming", "arrived", "ended"}]
      /\ staged' \subseteq Files /\ cleared' \subseteq Files
      /\ row' \in [Files -> Received!Rows \union {None}] /\ history' \in [Files -> Received!Rows \union {None}]
  BY <1>1, FileFacts DEF StageNames
<1>3. \A s \in Received!Saves :
         /\ stage'[s] \in Unbegun => stage[s] \in Unbegun
         /\ stage'[s] = "writing" => stage[s] = "writing"
         /\ stage'[s] \in Copied => stage[s] \in Copied
  BY <1>1, FileFacts DEF Unbegun, Copied
<1>4. \A g \in Files : stage'[<<g, "auto">>] = stage[<<g, "auto">>]
  <2>1. \A g \in Files : <<g, "auto">> # <<f, "hand">>
    OBVIOUS
  <2>2. QED
    BY <1>1, <2>1, FileFacts
<1>5. \A g \in Files : got'[g] \in {"no", "coming"} => stage'[<<g, "auto">>] = "idle"
  BY <1>1, <1>4, FileFacts
<1>6. \A g \in Files : got'[g] = "arrived" =>
         \/ g \in staged' \union cleared'
         \/ \E s \in Received!Saves : s[1] = g /\ path[s] # None /\ Kept(g, path[s])
  BY <1>1, FileFacts
<1>7. /\ \A g \in Files : row'[g] # None /\ row'[g].saved # None => Kept(g, row'[g].saved)
      /\ \A g \in Files : history'[g] # None /\ history'[g].saved # None => Kept(g, history'[g].saved)
  BY <1>1, FileFacts
<1>8. QED
  BY <1>1, <1>2, <1>3, <1>5, <1>6, <1>7, PageKeeps

LEMMA ClearRowsStep ==
  ASSUME FilesSound, Received!Clear
  PROVE  FilesSound'
<1> DEFINE rows == {f \in Files : Received!Finished(row[f])}
<1>1. /\ staged' = staged \ {f \in rows : row[f].result}
      /\ row' = [f \in Files |-> IF f \in rows THEN None ELSE row[f]]
      /\ cleared' = cleared \union rows
      /\ UNCHANGED <<got, name, stage, path, written, handle, temp, final, content, clashed>>
  BY DEF Received!Clear, Received!shell
<1>2. rows \subseteq Files
  OBVIOUS
<1> HIDE DEF rows
<1>3. /\ row' \in [Files -> Received!Rows \union {None}]
      /\ \A g \in Files : row'[g] # None /\ row'[g].saved # None => Kept(g, row'[g].saved)
  <2>1. \A g \in Files : row'[g] = None \/ row'[g] = row[g]
    BY <1>1
  <2>2. row' = [f \in Files |-> row'[f]]
    BY <1>1
  <2>3. \A g \in Files : row'[g] \in Received!Rows \union {None}
    BY <2>1, FileFacts
  <2>4. \A g \in Files : row'[g] # None /\ row'[g].saved # None => Kept(g, row'[g].saved)
    BY <2>1, FileFacts
  <2>5. QED
    BY <2>2, <2>3, <2>4
<1>4. /\ history' \in [Files -> Received!Rows \union {None}]
      /\ \A g \in Files : history'[g] # None /\ history'[g].saved # None => Kept(g, history'[g].saved)
  <2>1. PICK new : new = row'
    OBVIOUS
  <2>2. Received!SaveHistory(new)
    BY <2>1 DEF Received!Clear, Received!SaveHistory
  <2>3. QED
    BY <1>3, <2>1, <2>2, HistorySet
<1>5. /\ name' \in [Files -> Names] /\ stage' \in [Received!Saves -> StageNames]
      /\ got' \in [Files -> {"no", "coming", "arrived", "ended"}]
      /\ staged' \subseteq Files /\ cleared' \subseteq Files
  BY <1>1, <1>2, FileFacts
<1>6. \A g \in Files : got'[g] = "arrived" =>
         \/ g \in staged' \union cleared'
         \/ \E s \in Received!Saves : s[1] = g /\ path[s] # None /\ Kept(g, path[s])
  <2>1. \A g \in Files : g \in staged \union cleared => g \in staged' \union cleared'
    BY <1>1
  <2>2. QED
    BY <1>1, <2>1, FileFacts
<1>7. \A g \in Files : got'[g] \in {"no", "coming"} => stage'[<<g, "auto">>] = "idle"
  BY <1>1, FileFacts
<1>8. QED
  BY <1>1, <1>3, <1>4, <1>5, <1>6, <1>7, PageKeeps

\* A page that comes back has what it kept of its rows, and goes on with no save.
LEMMA RowsReloadStep ==
  ASSUME FilesSound, Received!Reload
  PROVE  FilesSound'
<1>1. /\ got' = [f \in Files |-> IF got[f] = "coming" THEN "ended" ELSE got[f]]
      /\ row' = history
      /\ stage' = [s \in Received!Saves |-> IF stage[s] = "idle" THEN "idle" ELSE "ended"]
      /\ UNCHANGED <<name, history, staged, cleared, path, written, handle, temp, final, content, clashed>>
  BY DEF Received!Reload, Received!shell
<1>2. /\ row' \in [Files -> Received!Rows \union {None}] /\ history' \in [Files -> Received!Rows \union {None}]
      /\ \A g \in Files : row'[g] # None /\ row'[g].saved # None => Kept(g, row'[g].saved)
      /\ \A g \in Files : history'[g] # None /\ history'[g].saved # None => Kept(g, history'[g].saved)
  BY <1>1, FileFacts
<1>3. /\ name' \in [Files -> Names] /\ staged' \subseteq Files /\ cleared' \subseteq Files
  BY <1>1, FileFacts
<1>4. stage' \in [Received!Saves -> StageNames]
  BY <1>1 DEF StageNames
<1>5. \A f \in Files : got'[f] \in {got[f], "ended"}
  BY <1>1
<1>6. got' \in [Files -> {"no", "coming", "arrived", "ended"}]
  BY <1>1, <1>5, FileFacts
<1>7. \A s \in Received!Saves :
         /\ stage'[s] \in Unbegun => stage[s] \in Unbegun
         /\ stage'[s] = "writing" => stage[s] = "writing"
         /\ stage'[s] \in Copied => stage[s] \in Copied
  BY <1>1 DEF Unbegun, Copied
<1>8. \A g \in Files : got'[g] \in {"no", "coming"} => stage'[<<g, "auto">>] = "idle"
  <2>1. \A g \in Files : got'[g] \in {"no", "coming"} => stage[<<g, "auto">>] = "idle" /\ <<g, "auto">> \in Received!Saves
    BY <1>5, FileFacts
  <2>2. QED
    BY <1>1, <2>1
<1>9. \A g \in Files : got'[g] = "arrived" =>
         \/ g \in staged' \union cleared'
         \/ \E s \in Received!Saves : s[1] = g /\ path[s] # None /\ Kept(g, path[s])
  <2>1. \A g \in Files : got'[g] = "arrived" => got[g] = "arrived"
    BY <1>5
  <2>2. QED
    BY <1>1, <2>1, FileFacts
<1>10. QED
  BY <1>1, <1>2, <1>3, <1>4, <1>6, <1>7, <1>8, <1>9, PageKeeps

\* What leaves the stage was copied.
LEMMA ReleaseStep ==
  ASSUME FilesSound, NEW s \in Received!Saves, Received!Release(s)
  PROVE  FilesSound'
<1>1. /\ stage[s] = "finished" /\ stage' = [stage EXCEPT ![s] = "released"] /\ staged' = staged \ {s[1]}
      /\ UNCHANGED <<got, name, row, history, cleared, path, written, handle, temp, final, content, clashed>>
  BY DEF Received!Release, Received!shell
<1>2. path[s] # None /\ Kept(s[1], path[s])
  BY <1>1 DEF FilesSound, DiskSound, Stages, Copied
<1>3. /\ name' \in [Files -> Names] /\ stage' \in [Received!Saves -> StageNames]
      /\ got' \in [Files -> {"no", "coming", "arrived", "ended"}]
      /\ staged' \subseteq Files /\ cleared' \subseteq Files
      /\ row' \in [Files -> Received!Rows \union {None}] /\ history' \in [Files -> Received!Rows \union {None}]
      /\ \A g \in Files : row'[g] # None /\ row'[g].saved # None => Kept(g, row'[g].saved)
      /\ \A g \in Files : history'[g] # None /\ history'[g].saved # None => Kept(g, history'[g].saved)
  BY <1>1, FileFacts DEF StageNames
<1>4. \A t \in Received!Saves :
         /\ stage'[t] \in Unbegun => stage[t] \in Unbegun
         /\ stage'[t] = "writing" => stage[t] = "writing"
         /\ stage'[t] \in Copied => stage[t] \in Copied
  BY <1>1, FileFacts DEF Unbegun, Copied
<1>5. \A g \in Files : got'[g] \in {"no", "coming"} => stage'[<<g, "auto">>] = "idle"
  <2>1. \A g \in Files : stage[<<g, "auto">>] = "idle" => stage'[<<g, "auto">>] = "idle"
    BY <1>1, FileFacts
  <2>2. QED
    BY <1>1, <2>1, FileFacts
<1>6. \A g \in Files : got'[g] = "arrived" =>
         \/ g \in staged' \union cleared'
         \/ \E t \in Received!Saves : t[1] = g /\ path[t] # None /\ Kept(g, path[t])
  <2>1. \A g \in Files : g \in staged \union cleared => g \in staged' \union cleared' \/ g = s[1]
    BY <1>1
  <2>2. QED
    BY <1>1, <1>2, <2>1, FileFacts
<1>7. QED
  BY <1>1, <1>3, <1>4, <1>5, <1>6, PageKeeps

LEMMA SavedStep ==
  ASSUME FilesSound, NEW s \in Received!Saves, Received!Saved(s)
  PROVE  FilesSound'
<1>1. /\ stage[s] = "released" /\ stage' = [stage EXCEPT ![s] = "done"]
      /\ UNCHANGED <<got, name, staged, cleared, path, written, handle, temp, final, content, clashed>>
  BY DEF Received!Saved, Received!shell
<1>2. path[s] # None /\ Kept(s[1], path[s]) /\ path[s] \in Received!Paths /\ s[1] \in Files
  <2>1. path[s] # None /\ Kept(s[1], path[s])
    BY <1>1 DEF FilesSound, DiskSound, Stages, Copied
  <2>2. QED
    BY <2>1, FileFacts
<1>3. PICK f, old, r : f = s[1] /\ old = Received!Existing(f) /\ r = [old EXCEPT !.saved = path[s]]
  OBVIOUS
<1>4. row' = [row EXCEPT ![f] = r]
  BY <1>3 DEF Received!Saved, Received!Upsert
<1>5. r \in Received!Rows /\ r.saved = path[s]
  <2>1. old \in Received!Rows
    BY <1>2, <1>3, ExistingRow
  <2>2. QED
    BY <1>2, <1>3, <2>1 DEF Received!Rows
<1>6. /\ row' \in [Files -> Received!Rows \union {None}]
      /\ \A g \in Files : row'[g] # None /\ row'[g].saved # None => Kept(g, row'[g].saved)
  BY <1>2, <1>3, <1>4, <1>5, RowSet
<1>7. /\ history' \in [Files -> Received!Rows \union {None}]
      /\ \A g \in Files : history'[g] # None /\ history'[g].saved # None => Kept(g, history'[g].saved)
  <2>1. PICK new : new = row'
    OBVIOUS
  <2>2. Received!SaveHistory(new)
    BY <2>1 DEF Received!Saved, Received!SaveHistory
  <2>3. QED
    BY <1>6, <2>1, <2>2, HistorySet
<1>8. /\ name' \in [Files -> Names] /\ stage' \in [Received!Saves -> StageNames]
      /\ got' \in [Files -> {"no", "coming", "arrived", "ended"}]
      /\ staged' \subseteq Files /\ cleared' \subseteq Files
  BY <1>1, FileFacts DEF StageNames
<1>9. \A t \in Received!Saves :
         /\ stage'[t] \in Unbegun => stage[t] \in Unbegun
         /\ stage'[t] = "writing" => stage[t] = "writing"
         /\ stage'[t] \in Copied => stage[t] \in Copied
  BY <1>1, FileFacts DEF Unbegun, Copied
<1>10. \A g \in Files : got'[g] \in {"no", "coming"} => stage'[<<g, "auto">>] = "idle"
  <2>1. \A g \in Files : stage[<<g, "auto">>] = "idle" => stage'[<<g, "auto">>] = "idle"
    BY <1>1, FileFacts
  <2>2. QED
    BY <1>1, <2>1, FileFacts
<1>11. \A g \in Files : got'[g] = "arrived" =>
         \/ g \in staged' \union cleared'
         \/ \E t \in Received!Saves : t[1] = g /\ path[t] # None /\ Kept(g, path[t])
  BY <1>1, FileFacts
<1>12. QED
  BY <1>1, <1>6, <1>7, <1>8, <1>9, <1>10, <1>11, PageKeeps

-----------------------------------------------------------------------------
(* The shell's part of a save. *)

LEMMA DiskFacts ==
  ASSUME FilesSound
  PROVE  /\ written \in [Received!Saves -> 0..Slices]
         /\ handle \in [Received!Saves -> Received!Saves \union {None}]
         /\ temp \in [Received!Paths -> Received!Saves \union {None}]
         /\ final \in [Received!Paths -> Received!Saves \union {None}]
         /\ content \in [Received!Saves -> [1..Slices -> Files \union {None}]]
         /\ clashed \subseteq Received!Paths
         /\ None \notin Received!Saves /\ None \notin Received!Paths
         /\ Owned /\ Stages /\ \A p \in Received!Paths \ clashed : Alone(p)
  BY FileAssumption DEF FilesSound, DiskSound, Received!TypeOK

\* What a step of the shell has to keep: the disk, and every copy there is.
LEMMA ShellKeeps ==
  ASSUME FilesSound, NEW s \in Received!Saves, UNCHANGED <<got, name, row, history, staged, cleared>>,
         DiskSound', stage[s] # "idle", NEW now \in StageNames, stage' = [stage EXCEPT ![s] = now],
         \A f \in Files, p \in Received!Paths : Kept(f, p) => Kept(f, p)',
         \A t \in Received!Saves : path[t] # None => path'[t] = path[t],
         path' \in [Received!Saves -> Received!Paths \union {None}],
         written' \in [Received!Saves -> 0..Slices],
         handle' \in [Received!Saves -> Received!Saves \union {None}],
         temp' \in [Received!Paths -> Received!Saves \union {None}],
         final' \in [Received!Paths -> Received!Saves \union {None}],
         content' \in [Received!Saves -> [1..Slices -> Files \union {None}]],
         clashed' \subseteq Received!Paths
  PROVE  FilesSound'
<1>1. Received!TypeOK'
  <2>1. stage' \in [Received!Saves ->
          {"idle", "naming", "saving", "writing", "finished", "released", "done", "failed", "ended"}]
    BY FileFacts DEF StageNames
  <2>2. /\ got' \in [Files -> {"no", "coming", "arrived", "ended"}] /\ name' \in [Files -> Names]
        /\ staged' \subseteq Files /\ cleared' \subseteq Files
        /\ row' \in [Files -> Received!Rows \union {None}] /\ history' \in [Files -> Received!Rows \union {None}]
    BY FileFacts
  <2>3. QED
    BY <2>1, <2>2 DEF Received!TypeOK
<1>2. \A f \in Files, p \in Received!Paths :
        Kept(f, p) => p \in clashed' \/ (final'[p] # None /\ \A k \in 1..Slices : content'[final'[p]][k] = f)
  BY DEF Kept, Received!Whole
<1>3. RowsSound'
  <2>1. \A f \in Files : row'[f] # None /\ row'[f].saved # None =>
          \/ row'[f].saved \in clashed'
          \/ final'[row'[f].saved] # None /\ \A k \in 1..Slices : content'[final'[row'[f].saved]][k] = f
    <3>1. \A f \in Files : row[f] # None /\ row[f].saved # None => row[f].saved \in Received!Paths
      <4>1. \A f \in Files : row[f] # None => row[f] \in Received!Rows
        BY FileFacts
      <4>2. \A r \in Received!Rows : r.saved # None => r.saved \in Received!Paths
        BY DEF Received!Rows
      <4>3. QED
        BY <4>1, <4>2
    <3>2. QED
      BY <1>2, <3>1, FileFacts
  <2>2. \A f \in Files : history'[f] # None /\ history'[f].saved # None =>
          \/ history'[f].saved \in clashed'
          \/ final'[history'[f].saved] # None /\ \A k \in 1..Slices : content'[final'[history'[f].saved]][k] = f
    <3>1. \A f \in Files : history[f] # None /\ history[f].saved # None => history[f].saved \in Received!Paths
      <4>1. \A f \in Files : history[f] # None => history[f] \in Received!Rows
        BY FileFacts
      <4>2. \A r \in Received!Rows : r.saved # None => r.saved \in Received!Paths
        BY DEF Received!Rows
      <4>3. QED
        BY <4>1, <4>2
    <3>2. QED
      BY <1>2, <3>1, FileFacts
  <2>3. \A f \in Files : got'[f] = "arrived" =>
          \/ f \in staged' \union cleared'
          \/ \E t \in Received!Saves :
               /\ t[1] = f /\ path'[t] # None
               /\ \/ path'[t] \in clashed'
                  \/ final'[path'[t]] # None /\ \A k \in 1..Slices : content'[final'[path'[t]]][k] = f
    <3>1. SUFFICES ASSUME NEW f \in Files, got[f] = "arrived", f \notin staged \union cleared
                   PROVE  \E t \in Received!Saves :
                            /\ t[1] = f /\ path'[t] # None
                            /\ \/ path'[t] \in clashed'
                               \/ final'[path'[t]] # None /\ \A k \in 1..Slices : content'[final'[path'[t]]][k] = f
      OBVIOUS
    <3>2. PICK t \in Received!Saves : t[1] = f /\ path[t] # None /\ Kept(f, path[t])
      BY <3>1, FileFacts
    <3>3. path[t] \in Received!Paths /\ path'[t] = path[t]
      BY <3>2, FileFacts
    <3>4. path[t] \in clashed' \/ (final'[path[t]] # None /\ \A k \in 1..Slices : content'[final'[path[t]]][k] = f)
      BY <1>2, <3>2, <3>3
    <3>5. QED
      BY <3>2, <3>3, <3>4
  <2>4. \A f \in Files : got'[f] \in {"no", "coming"} => stage'[<<f, "auto">>] = "idle"
    <3>1. \A f \in Files : stage[<<f, "auto">>] = "idle" => stage'[<<f, "auto">>] = "idle"
      BY FileFacts
    <3>2. QED
      BY <3>1, FileFacts
  <2>5. QED
    BY <2>1, <2>2, <2>3, <2>4 DEF RowsSound, Kept, Received!Whole
<1>4. QED
  BY <1>1, <1>3 DEF FilesSound

\* A save that begins takes a path where nothing is; the file it writes to is its
\* own, or the .part that was left there.
LEMMA FileBeginStep ==
  ASSUME FilesSound, NEW s \in Received!Saves, Received!FileBegin(s)
  PROVE  FilesSound'
<1>1. PICK p : p = Received!UniquePath(name[s[1]])
  OBVIOUS
<1>2. /\ p \in Received!Paths /\ final[p] = None
  BY <1>1, FreePath, FileFacts, DiskFacts DEF FilesSound
<1>3. PICK i : i = IF temp[p] = None THEN s ELSE temp[p]
  OBVIOUS
<1>4. /\ stage[s] \in {"naming", "saving"} /\ stage' = [stage EXCEPT ![s] = "writing"]
      /\ temp' = [temp EXCEPT ![p] = i] /\ handle' = [handle EXCEPT ![s] = i]
      /\ content' = [content EXCEPT ![i] = Received!Empty]
      /\ path' = [path EXCEPT ![s] = p]
      /\ clashed' = IF \E t \in Received!Saves : Received!Writing(t) /\ path[t] = p THEN clashed \union {p} ELSE clashed
      /\ UNCHANGED <<got, name, row, history, staged, cleared, written, final>>
  BY <1>1, <1>3 DEF Received!FileBegin, Received!Create, Received!page
<1>5. path[s] = None /\ written[s] = 0 /\ stage[s] # "writing"
  BY <1>4, DiskFacts DEF Stages, Unbegun
<1>6. i \in Received!Saves /\ (i = s \/ path[i] = p) /\ i # None
  BY <1>2, <1>3, DiskFacts DEF Owned
<1>7. /\ path' \in [Received!Saves -> Received!Paths \union {None}]
      /\ temp' \in [Received!Paths -> Received!Saves \union {None}]
      /\ handle' \in [Received!Saves -> Received!Saves \union {None}]
      /\ clashed' \subseteq Received!Paths /\ clashed \subseteq clashed'
  BY <1>2, <1>4, <1>6, FileFacts, DiskFacts
<1>8. content' \in [Received!Saves -> [1..Slices -> Files \union {None}]]
  <2>1. Received!Empty \in [1..Slices -> Files \union {None}]
    BY DEF Received!Empty
  <2>2. QED
    BY <1>4, <1>6, <2>1, DiskFacts
<1>9. /\ path'[s] = p /\ path'[i] = p /\ handle'[s] = i /\ temp'[p] = i
      /\ \A t \in Received!Saves : t # s => path'[t] = path[t] /\ handle'[t] = handle[t] /\ stage'[t] = stage[t]
      /\ \A q \in Received!Paths : q # p => temp'[q] = temp[q]
      /\ \A j \in Received!Saves : j # i => content'[j] = content[j]
      /\ stage'[s] = "writing"
  BY <1>2, <1>4, <1>6, FileFacts, DiskFacts
\* No file elsewhere is the one that is emptied.
<1>10. \A j \in Received!Saves, q \in Received!Paths : path[j] = q /\ q # p => j # i /\ j # s
  BY <1>5, <1>6, DiskFacts
<1>11. \A j \in Received!Saves : path[j] # None => path'[j] = path[j]
  BY <1>5, <1>9
<1>12. Owned'
  <2>1. \A q \in Received!Paths : temp'[q] # None => path'[temp'[q]] = q
    <3>1. SUFFICES ASSUME NEW q \in Received!Paths, q # p, temp[q] # None PROVE path'[temp[q]] = q
      BY <1>9
    <3>2. temp[q] \in Received!Saves /\ path[temp[q]] = q /\ q # None
      BY <3>1, DiskFacts DEF Owned
    <3>3. QED
      BY <1>11, <3>2
  <2>2. \A q \in Received!Paths : final'[q] # None => path'[final'[q]] = q
    <3>1. SUFFICES ASSUME NEW q \in Received!Paths, final[q] # None PROVE path'[final[q]] = q
      BY <1>4
    <3>2. final[q] \in Received!Saves /\ path[final[q]] = q /\ q # None
      BY <3>1, DiskFacts DEF Owned
    <3>3. QED
      BY <1>11, <3>2
  <2>3. \A t \in Received!Saves : handle'[t] # None => path'[t] # None /\ path'[handle'[t]] = path'[t]
    <3>1. path'[s] # None /\ path'[handle'[s]] = path'[s]
      BY <1>2, <1>9, DiskFacts
    <3>2. ASSUME NEW t \in Received!Saves, t # s, handle[t] # None
          PROVE  path'[t] # None /\ path'[handle[t]] = path'[t]
      <4>1. handle[t] \in Received!Saves /\ path[t] # None /\ path[handle[t]] = path[t]
        BY <3>2, DiskFacts DEF Owned
      <4>2. QED
        BY <1>11, <4>1
    <3>3. QED
      BY <1>9, <3>1, <3>2
  <2>4. QED
    BY <2>1, <2>2, <2>3 DEF Owned
<1>13. ASSUME NEW f \in Files, NEW q \in Received!Paths, Kept(f, q) PROVE Kept(f, q)'
  <2>1. CASE q \in clashed
    BY <1>7, <2>1 DEF Kept
  <2>2. CASE final[q] # None /\ \A k \in 1..Slices : content[final[q]][k] = f
    <3>1. final[q] \in Received!Saves /\ path[final[q]] = q /\ q # p
      BY <1>2, <2>2, DiskFacts DEF Owned
    <3>2. content'[final[q]] = content[final[q]] /\ final'[q] = final[q]
      BY <1>4, <1>9, <1>10, <3>1
    <3>3. QED
      BY <2>2, <3>2 DEF Kept, Received!Whole
  <2>3. QED
    BY <1>13, <2>1, <2>2 DEF Kept, Received!Whole
<1>14. ASSUME NEW q \in Received!Paths \ clashed' PROVE Alone(q)'
  <2>1. q \notin clashed /\ Alone(q)
    BY <1>7, <1>14, DiskFacts
  <2>2. CASE q = p
    <3>1. \A t \in Received!Saves : ~(stage[t] = "writing" /\ path[t] = p)
      BY <1>4, <1>14, <2>2 DEF Received!Writing
    <3>2. \A t \in Received!Saves : stage'[t] = "writing" /\ path'[t] = p => t = s
      BY <1>9, <3>1
    <3>3. final'[p] = None /\ temp'[p] # None /\ handle'[s] = temp'[p] /\ written'[s] = 0
      BY <1>2, <1>4, <1>5, <1>6, <1>9
    <3>4. 1..0 = {}
      OBVIOUS
    <3>5. QED
      BY <2>2, <3>2, <3>3, <3>4 DEF Alone, Received!Writing
  <2>3. CASE q # p
    <3>1. temp'[q] = temp[q] /\ final'[q] = final[q]
      BY <1>4, <1>9, <2>3
    <3>2. \A t \in Received!Saves : stage'[t] = "writing" /\ path'[t] = q =>
            t # s /\ stage[t] = "writing" /\ path[t] = q /\ handle'[t] = handle[t] /\ written'[t] = written[t]
      BY <1>4, <1>9, <2>3
    <3>3. temp[q] # None => content'[temp[q]] = content[temp[q]]
      <4>1. temp[q] # None => temp[q] \in Received!Saves /\ path[temp[q]] = q
        BY DiskFacts DEF Owned
      <4>2. QED
        BY <1>9, <1>10, <2>3, <4>1
    <3>4. \A t \in Received!Saves : stage[t] = "writing" /\ path[t] = q =>
            /\ final[q] = None /\ temp[q] # None /\ handle[t] = temp[q]
            /\ \A k \in 1..written[t] : content[temp[q]][k] = t[1]
            /\ \A u \in Received!Saves : stage[u] = "writing" /\ path[u] = q => u = t
      BY <2>1 DEF Alone, Received!Writing
    <3>5. final[q] # None => temp[q] = None
      BY <2>1 DEF Alone
    <3>6. QED
      BY <3>1, <3>2, <3>3, <3>4, <3>5 DEF Alone, Received!Writing
  <2>4. QED
    BY <2>2, <2>3
<1>15. Stages'
  <2>1. \A t \in Received!Saves : stage'[t] \in Unbegun => path'[t] = None /\ written'[t] = 0
    BY <1>4, <1>9, DiskFacts DEF Stages, Unbegun
  <2>2. \A t \in Received!Saves : stage'[t] = "writing" => path'[t] # None /\ handle'[t] # None
    BY <1>2, <1>6, <1>9, DiskFacts DEF Stages, Received!Writing
  <2>3. ASSUME NEW t \in Received!Saves, stage'[t] \in Copied
        PROVE  path'[t] # None /\ Kept(t[1], path[t])' /\ t # s
    <3>1. t # s
      BY <1>9, <2>3 DEF Copied
    <3>2. path[t] # None /\ Kept(t[1], path[t]) /\ path'[t] = path[t]
      BY <1>9, <2>3, <3>1, DiskFacts DEF Stages
    <3>3. path[t] \in Received!Paths /\ t[1] \in Files
      BY <3>2, FileFacts
    <3>4. PICK q \in Received!Paths : q = path[t]
      BY <3>3
    <3>5. Kept(t[1], q)'
      BY <1>13, <3>2, <3>3, <3>4
    <3>6. Kept(t[1], path[t])'
      BY <3>2, <3>4, <3>5 DEF Kept, Received!Whole
    <3>7. QED
      BY <3>1, <3>2, <3>6
  <2>4. QED
    BY <2>1, <2>2, <2>3 DEF Stages, Received!Writing
<1>16. DiskSound'
  BY <1>12, <1>14, <1>15 DEF DiskSound
<1>17. "writing" \in StageNames /\ written' \in [Received!Saves -> 0..Slices]
       /\ final' \in [Received!Paths -> Received!Saves \union {None}] /\ stage[s] # "idle"
  BY <1>4, DiskFacts DEF StageNames
<1>18. QED
  BY <1>4, <1>7, <1>8, <1>11, <1>13, <1>16, <1>17, ShellKeeps

\* A slice goes to the file that the save is alone with, unless paths clashed.
LEMMA FileAppendStep ==
  ASSUME FilesSound, NEW s \in Received!Saves, Received!FileAppend(s)
  PROVE  FilesSound'
<1>1. /\ stage[s] = "writing" /\ written[s] < Slices
      /\ content' = [content EXCEPT ![handle[s]][written[s] + 1] = s[1]]
      /\ written' = [written EXCEPT ![s] = written[s] + 1]
      /\ UNCHANGED <<got, name, row, history, staged, cleared, path, handle, temp, final, clashed, stage>>
  BY DEF Received!FileAppend, Received!page, Received!Writing
<1>2. PICK h, p, w : h = handle[s] /\ p = path[s] /\ w = written[s]
  OBVIOUS
<1>3. /\ h \in Received!Saves /\ p \in Received!Paths /\ path[h] = p
      /\ w \in Nat /\ w + 1 \in 1..Slices /\ s[1] \in Files
  <2>1. h # None /\ p # None /\ path[h] = p
    BY <1>1, <1>2, DiskFacts DEF Stages, Owned, Received!Writing
  <2>2. w \in 0..Slices /\ Slices \in Nat
    BY <1>2, DiskFacts, FileAssumption
  <2>3. QED
    BY <1>1, <1>2, <2>1, <2>2, FileFacts, DiskFacts
<1>4. PICK c : c = content[h]
  OBVIOUS
<1>5. /\ content' = [content EXCEPT ![h] = [c EXCEPT ![w + 1] = s[1]]]
      /\ c \in [1..Slices -> Files \union {None}]
  BY <1>1, <1>2, <1>3, <1>4, DiskFacts
<1>6. /\ content' \in [Received!Saves -> [1..Slices -> Files \union {None}]]
      /\ \A j \in Received!Saves : j # h => content'[j] = content[j]
      /\ content'[h][w + 1] = s[1]
      /\ \A k \in 1..Slices : k # w + 1 => content'[h][k] = content[h][k]
  BY <1>3, <1>4, <1>5, DiskFacts
<1>7. /\ written' \in [Received!Saves -> 0..Slices] /\ written'[s] = w + 1
      /\ \A t \in Received!Saves : t # s => written'[t] = written[t]
  <2>1. w + 1 \in 0..Slices
    BY <1>3
  <2>2. QED
    BY <1>1, <1>2, <2>1, DiskFacts
<1>8. ASSUME NEW f \in Files, NEW q \in Received!Paths, Kept(f, q) PROVE Kept(f, q)'
  <2>1. CASE q \in clashed
    BY <1>1, <2>1 DEF Kept
  <2>2. CASE q \notin clashed /\ final[q] # None /\ \A k \in 1..Slices : content[final[q]][k] = f
    <3>1. final[q] \in Received!Saves /\ path[final[q]] = q
      BY <2>2, DiskFacts DEF Owned
    <3>2. final[q] # h
      <4>1. SUFFICES ASSUME final[q] = h PROVE FALSE
        OBVIOUS
      <4>2. q = p
        BY <1>3, <3>1, <4>1
      <4>3. Alone(q)
        BY <2>2, DiskFacts
      <4>4. QED
        BY <1>1, <1>2, <2>2, <4>2, <4>3 DEF Alone, Received!Writing
    <3>3. content'[final[q]] = content[final[q]] /\ final'[q] = final[q]
      BY <1>1, <1>6, <3>1, <3>2
    <3>4. QED
      BY <2>2, <3>3 DEF Kept, Received!Whole
  <2>3. QED
    BY <1>8, <2>1, <2>2 DEF Kept, Received!Whole
<1>9. Owned'
  BY <1>1, DiskFacts DEF Owned
<1>10. ASSUME NEW q \in Received!Paths \ clashed' PROVE Alone(q)'
  <2>1. q \notin clashed /\ Alone(q)
    BY <1>1, <1>10, DiskFacts
  <2>2. \A t \in Received!Saves : stage[t] = "writing" /\ path[t] = q =>
          /\ final[q] = None /\ temp[q] # None /\ handle[t] = temp[q]
          /\ \A k \in 1..written[t] : content[temp[q]][k] = t[1]
          /\ \A u \in Received!Saves : stage[u] = "writing" /\ path[u] = q => u = t
    BY <2>1 DEF Alone, Received!Writing
  <2>3. ASSUME NEW t \in Received!Saves, stage[t] = "writing", path[t] = q
        PROVE  \A k \in 1..written'[t] : content'[temp[q]][k] = t[1]
    <3>1. temp[q] \in Received!Saves /\ handle[t] = temp[q] /\ \A k \in 1..written[t] : content[temp[q]][k] = t[1]
      BY <2>2, <2>3, DiskFacts
    <3>2. CASE t = s
      <4>1. temp[q] = h /\ written[t] = w
        BY <1>2, <3>1, <3>2
      <4>2. ASSUME NEW k \in 1..(w + 1) PROVE content'[h][k] = s[1]
        <5>1. CASE k = w + 1
          BY <1>6, <5>1
        <5>2. CASE k # w + 1
          <6>1. k \in 1..w /\ k \in 1..Slices
            <7>1. Slices \in Nat
              BY FileAssumption
            <7>2. QED
              BY <1>3, <5>2, <7>1
          <6>2. QED
            BY <1>6, <3>1, <3>2, <4>1, <5>2, <6>1
        <5>3. QED
          BY <5>1, <5>2
      <4>3. QED
        BY <1>7, <3>2, <4>1, <4>2
    <3>3. CASE t # s
      <4>1. temp[q] # h
        <5>1. SUFFICES ASSUME temp[q] = h PROVE FALSE
          OBVIOUS
        <5>2. p = q
          BY <1>3, <2>2, <2>3, <5>1, DiskFacts DEF Owned
        <5>3. QED
          BY <1>1, <1>2, <2>2, <2>3, <3>3, <5>2
      <4>2. QED
        BY <1>6, <1>7, <3>1, <3>3, <4>1
    <3>4. QED
      BY <3>2, <3>3
  <2>4. final[q] # None => temp[q] = None
    BY <2>1 DEF Alone
  <2>5. QED
    BY <1>1, <2>2, <2>3, <2>4 DEF Alone, Received!Writing
<1>11. Stages'
  <2>1. \A t \in Received!Saves : stage'[t] \in Unbegun => path'[t] = None /\ written'[t] = 0
    <3>1. \A t \in Received!Saves : stage'[t] \in Unbegun => t # s
      BY <1>1 DEF Unbegun
    <3>2. QED
      BY <1>1, <1>7, <3>1, DiskFacts DEF Stages
  <2>2. \A t \in Received!Saves : stage'[t] = "writing" => path'[t] # None /\ handle'[t] # None
    BY <1>1, DiskFacts DEF Stages, Received!Writing
  <2>3. ASSUME NEW t \in Received!Saves, stage'[t] \in Copied
        PROVE  path'[t] # None /\ Kept(t[1], path[t])'
    <3>1. path[t] # None /\ Kept(t[1], path[t]) /\ path'[t] = path[t]
      BY <1>1, <2>3, DiskFacts DEF Stages
    <3>2. PICK q \in Received!Paths : q = path[t]
      BY <3>1, FileFacts
    <3>3. Kept(t[1], q)'
      BY <1>8, <3>1, <3>2, FileFacts
    <3>4. QED
      BY <3>1, <3>2, <3>3 DEF Kept, Received!Whole
  <2>4. QED
    BY <2>1, <2>2, <2>3 DEF Stages, Received!Writing
<1>12. DiskSound'
  BY <1>9, <1>10, <1>11 DEF DiskSound
<1>13. stage' = [stage EXCEPT ![s] = "writing"] /\ "writing" \in StageNames /\ stage[s] # "idle"
  <2>1. stage \in [Received!Saves -> StageNames]
    BY FileFacts
  <2>2. [stage EXCEPT ![s] = "writing"] = stage
    BY <1>1, <2>1
  <2>3. QED
    BY <1>1, <2>2 DEF StageNames
<1>14. /\ path' \in [Received!Saves -> Received!Paths \union {None}]
       /\ handle' \in [Received!Saves -> Received!Saves \union {None}]
       /\ temp' \in [Received!Paths -> Received!Saves \union {None}]
       /\ final' \in [Received!Paths -> Received!Saves \union {None}] /\ clashed' \subseteq Received!Paths
       /\ \A t \in Received!Saves : path[t] # None => path'[t] = path[t]
  BY <1>1, FileFacts, DiskFacts
<1>15. UNCHANGED <<got, name, row, history, staged, cleared>>
  BY <1>1
<1>16. PICK now \in StageNames : stage' = [stage EXCEPT ![s] = now]
  BY <1>13
<1>17. QED
  BY <1>6, <1>7, <1>8, <1>12, <1>13, <1>14, <1>15, <1>16, ShellKeeps

\* The end of a save, good or bad: the .part goes, and where the save was alone
\* what gets its name is all of the file.
LEMMA FileEndStep ==
  ASSUME FilesSound, NEW s \in Received!Saves, Received!FileAbort(s) \/ Received!FileFinish(s)
  PROVE  FilesSound'
<1>1. PICK p : p = path[s]
  OBVIOUS
<1>2. /\ stage[s] = "writing"
      /\ UNCHANGED <<got, name, row, history, staged, cleared, path, written, handle, content, clashed>>
  BY DEF Received!FileAbort, Received!FileFinish, Received!page, Received!Writing
<1>3. p \in Received!Paths
  BY <1>1, <1>2, FileFacts, DiskFacts DEF Stages, Received!Writing
<1>4. PICK now \in {"failed", "finished"} :
        /\ stage' = [stage EXCEPT ![s] = now]
        /\ IF now = "finished"
           THEN written[s] = Slices /\ temp[p] # None /\ final' = [final EXCEPT ![p] = temp[p]]
           ELSE final' = final
        /\ temp' = [temp EXCEPT ![p] = None] \/ (now = "failed" /\ temp[p] = None /\ temp' = temp)
  <2>1. CASE Received!FileAbort(s)
    BY <1>1, <2>1 DEF Received!FileAbort
  <2>2. CASE Received!FileFinish(s)
    BY <1>1, <2>2 DEF Received!FileFinish
  <2>3. QED
    BY <2>1, <2>2
<1>5. /\ temp'[p] = None /\ \A q \in Received!Paths : q # p => temp'[q] = temp[q] /\ final'[q] = final[q]
      /\ final'[p] = IF now = "finished" THEN temp[p] ELSE final[p]
      /\ temp' \in [Received!Paths -> Received!Saves \union {None}]
      /\ final' \in [Received!Paths -> Received!Saves \union {None}]
  BY <1>3, <1>4, DiskFacts
<1>6. /\ stage'[s] = now /\ \A t \in Received!Saves : t # s => stage'[t] = stage[t]
      /\ \A t \in Received!Saves : stage'[t] = "writing" => t # s /\ stage[t] = "writing"
  BY <1>4, FileFacts
<1>7. p \notin clashed =>
        /\ final[p] = None /\ \A k \in 1..written[s] : content[temp[p]][k] = s[1]
        /\ \A t \in Received!Saves : stage[t] = "writing" /\ path[t] = p => t = s
  BY <1>1, <1>2, <1>3, DiskFacts DEF Alone, Received!Writing
<1>8. ASSUME NEW f \in Files, NEW q \in Received!Paths, Kept(f, q) PROVE Kept(f, q)'
  <2>1. CASE q \in clashed
    BY <1>2, <2>1 DEF Kept
  <2>2. CASE q \notin clashed
    <3>1. final[q] # None /\ \A k \in 1..Slices : content[final[q]][k] = f
      BY <1>8, <2>2 DEF Kept, Received!Whole
    <3>2. q # p
      BY <1>7, <2>2, <3>1
    <3>3. QED
      BY <1>2, <1>5, <3>1, <3>2 DEF Kept, Received!Whole
  <2>3. QED
    BY <2>1, <2>2
<1>9. now = "finished" => Kept(s[1], p)'
  <2>1. SUFFICES ASSUME now = "finished", p \notin clashed
                 PROVE  final'[p] # None /\ \A k \in 1..Slices : content'[final'[p]][k] = s[1]
    BY <1>2 DEF Kept, Received!Whole
  <2>2. final'[p] = temp[p] /\ temp[p] # None /\ written[s] = Slices
    BY <1>4, <1>5, <2>1
  <2>3. QED
    BY <1>2, <1>7, <2>1, <2>2
<1>10. Owned'
  <2>1. \A q \in Received!Paths : temp'[q] # None => path[temp'[q]] = q
    BY <1>5, DiskFacts DEF Owned
  <2>2. \A q \in Received!Paths : final'[q] # None => path[final'[q]] = q
    BY <1>3, <1>5, DiskFacts DEF Owned
  <2>3. QED
    BY <1>2, <2>1, <2>2, DiskFacts DEF Owned
<1>11. ASSUME NEW q \in Received!Paths \ clashed' PROVE Alone(q)'
  <2>1. q \notin clashed /\ Alone(q)
    BY <1>2, <1>11, DiskFacts
  <2>2. CASE q = p
    <3>1. \A t \in Received!Saves : ~(stage'[t] = "writing" /\ path'[t] = p)
      BY <1>2, <1>6, <1>7, <2>1, <2>2
    <3>2. QED
      BY <1>5, <2>2, <3>1 DEF Alone, Received!Writing
  <2>3. CASE q # p
    <3>1. temp'[q] = temp[q] /\ final'[q] = final[q]
      BY <1>5, <2>3
    <3>2. QED
      BY <1>2, <1>6, <2>1, <3>1 DEF Alone, Received!Writing
  <2>4. QED
    BY <2>2, <2>3
<1>12. Stages'
  <2>1. \A t \in Received!Saves : stage'[t] \in Unbegun => path'[t] = None /\ written'[t] = 0
    <3>1. \A t \in Received!Saves : stage'[t] \in Unbegun => t # s
      BY <1>6 DEF Unbegun
    <3>2. QED
      BY <1>2, <1>6, <3>1, DiskFacts DEF Stages
  <2>2. \A t \in Received!Saves : stage'[t] = "writing" => path'[t] # None /\ handle'[t] # None
    BY <1>2, <1>6, DiskFacts DEF Stages, Received!Writing
  <2>3. ASSUME NEW t \in Received!Saves, stage'[t] \in Copied
        PROVE  path'[t] # None /\ Kept(t[1], path[t])'
    <3>1. CASE t = s
      <4>1. now = "finished"
        BY <1>6, <2>3, <3>1 DEF Copied
      <4>2. path'[t] = p /\ p # None /\ Kept(s[1], p)'
        BY <1>1, <1>2, <1>3, <1>9, <3>1, <4>1, DiskFacts
      <4>3. QED
        BY <3>1, <4>2 DEF Kept, Received!Whole
    <3>2. CASE t # s
      <4>1. path[t] # None /\ Kept(t[1], path[t]) /\ path'[t] = path[t]
        BY <1>2, <1>6, <2>3, <3>2, DiskFacts DEF Stages
      <4>2. PICK q \in Received!Paths : q = path[t]
        BY <4>1, FileFacts
      <4>3. Kept(t[1], q)'
        BY <1>8, <4>1, <4>2, FileFacts
      <4>4. QED
        BY <4>1, <4>2, <4>3 DEF Kept, Received!Whole
    <3>3. QED
      BY <3>1, <3>2
  <2>4. QED
    BY <2>1, <2>2, <2>3 DEF Stages, Received!Writing
<1>13. DiskSound'
  BY <1>10, <1>11, <1>12 DEF DiskSound
<1>14. /\ path' \in [Received!Saves -> Received!Paths \union {None}]
       /\ written' \in [Received!Saves -> 0..Slices]
       /\ handle' \in [Received!Saves -> Received!Saves \union {None}]
       /\ content' \in [Received!Saves -> [1..Slices -> Files \union {None}]] /\ clashed' \subseteq Received!Paths
       /\ \A t \in Received!Saves : path[t] # None => path'[t] = path[t]
       /\ now \in StageNames /\ stage[s] # "idle"
  BY <1>2, FileFacts, DiskFacts DEF StageNames
<1>15. QED
  BY <1>2, <1>4, <1>5, <1>8, <1>13, <1>14, ShellKeeps

LEMMA FilesStep == FilesSound /\ (Received!Next \/ UNCHANGED Received!vars) => FilesSound'
<1>1. ASSUME FilesSound, UNCHANGED Received!vars PROVE FilesSound'
  <2>1. UNCHANGED <<got, name, row, history, staged, cleared, path, written, handle, temp, final, content,
                    clashed, stage>>
    BY <1>1 DEF Received!vars, Received!page, Received!shell
  <2>2. /\ name' \in [Files -> Names] /\ stage' \in [Received!Saves -> StageNames]
        /\ got' \in [Files -> {"no", "coming", "arrived", "ended"}]
        /\ staged' \subseteq Files /\ cleared' \subseteq Files
        /\ row' \in [Files -> Received!Rows \union {None}] /\ history' \in [Files -> Received!Rows \union {None}]
        /\ \A g \in Files : row'[g] # None /\ row'[g].saved # None => Kept(g, row'[g].saved)
        /\ \A g \in Files : history'[g] # None /\ history'[g].saved # None => Kept(g, history'[g].saved)
    BY <1>1, <2>1, FileFacts
  <2>3. \A g \in Files : got'[g] = "arrived" =>
          \/ g \in staged' \union cleared'
          \/ \E t \in Received!Saves : t[1] = g /\ path[t] # None /\ Kept(g, path[t])
    BY <1>1, <2>1, FileFacts
  <2>4. \A g \in Files : got'[g] \in {"no", "coming"} => stage'[<<g, "auto">>] = "idle"
    BY <1>1, <2>1, FileFacts
  <2>5. QED
    BY <1>1, <2>1, <2>2, <2>3, <2>4, PageKeeps
<1>2. ASSUME FilesSound, NEW s \in Received!Saves, Received!Save(s) PROVE FilesSound'
  BY <1>2, FileBeginStep, FileAppendStep, FileEndStep, ReleaseStep, SavedStep DEF Received!Save
<1>3. QED
  BY <1>1, <1>2, EventStep, SuggestStep, PressStep, ClearRowsStep, RowsReloadStep DEF Received!Next

\* What was copied is still there, or was copied where two saves clashed.
LEMMA FilesKept == FilesSound => Received!ArrivedIsKept
<1> SUFFICES ASSUME FilesSound, NEW f \in Files
             PROVE  /\ got[f] = "arrived" =>
                         \/ f \in staged \union cleared
                         \/ \E p \in Received!Paths : Received!Whole(f, p)
                         \/ \E s \in Received!Saves : s[1] = f /\ path[s] \in clashed
                    /\ row[f] # None /\ row[f].saved # None =>
                         row[f].saved \in clashed \/ Received!Whole(f, row[f].saved)
  BY DEF Received!ArrivedIsKept
<1>1. \A s \in Received!Saves : path[s] # None /\ Kept(f, path[s]) =>
        path[s] \in clashed \/ \E p \in Received!Paths : Received!Whole(f, p)
  BY FileFacts DEF Kept
<1>2. QED
  BY <1>1, FileFacts DEF Kept

-----------------------------------------------------------------------------
(* The properties of the parts. *)

LEMMA SharesKept == SharedSound => Shared!TypeOK /\ Shared!ShareIsKept
<1> SUFFICES ASSUME SharedSound PROVE Shared!TypeOK /\ Shared!ShareIsKept
  OBVIOUS
<1>1. SharesTyped /\ \A s \in Shares \ coming : Found(s)
  BY DEF SharedSound
<1>2. notices \in 0..Shared!Cardinality(Shares)
  <2>1. Cardinality(Shares) \in Nat /\ Cardinality(coming) \in Nat
    BY <1>1, ShareAssumption, FS_CardinalityType, FS_Subset DEF SharesTyped
  <2>2. notices \in 0..Cardinality(Shares)
    BY <1>1, <2>1 DEF SharesTyped
  <2>3. QED
    BY <2>2, SharedCardinality
<1>3. Shared!TypeOK
  BY <1>1, <1>2 DEF SharesTyped, Shared!TypeOK
<1>4. ASSUME NEW s \in Shares \ coming
      PROVE  /\ s \in held \union Shared!OnPage \union dropped \union failed \/ sent[s] > 0
             /\ os = "desktop" => queued[s] <= 1 /\ sent[s] <= 1 /\ (s \in failed => sent[s] = 0)
  <2>1. s \in held \union dropped \union failed \/ sent[s] > 0 \/ s \in Shared!OnPage
    BY <1>1, OnePage DEF Found
  <2>2. os = "desktop" => queued[s] <= 1 /\ sent[s] <= 1 /\ (s \in failed => sent[s] = 0)
    BY DEF SharedSound, AtOnePlace
  <2>3. QED
    BY <2>1, <2>2
<1>5. QED
  BY <1>3, <1>4 DEF Shared!ShareIsKept

LEMMA SinkExact == SinkSound => Sink!TypeOK /\ Sink!SinkIsExact
<1> SUFFICES ASSUME SinkSound PROVE Sink!TypeOK /\ Sink!SinkIsExact
  OBVIOUS
<1>1. SinkTyped /\ Runs /\ (aborted = "no" => Placed) /\ (aborted = "done" => ~temporary)
  BY DEF SinkSound
<1>2. Sink!TypeOK
  BY <1>1 DEF SinkTyped, Runs, Run, Sink!TypeOK
<1>3. Sink!SinkIsExact
  BY <1>1 DEF Placed, Sink!SinkIsExact
<1>4. QED
  BY <1>2, <1>3

-----------------------------------------------------------------------------
(* The parts together. *)

PartsSound == FilesSound /\ SharedSound /\ PushSound /\ NamerSound /\ SinkSound

LEMMA InitSound == Init => PartsSound
  BY FilesInit, SharedInit, PushInit, NamerInit, SinkInit DEF Init, PartsSound

\* A step of App is one of a part that leaves the other parts alone, or none.
LEMMA StepOfParts ==
  [Next]_<<follows, fileVars, shareVars, pushVars, namerVars, sinkVars>> =>
    /\ Received!Next \/ UNCHANGED Received!vars
    /\ Shared!Next \/ UNCHANGED Shared!vars
    /\ Push!Next \/ UNCHANGED Push!vars
    /\ Namer!Next \/ UNCHANGED Namer!vars
    /\ Sink!Next \/ UNCHANGED Sink!vars
<1> SUFFICES ASSUME [Next]_<<follows, fileVars, shareVars, pushVars, namerVars, sinkVars>>
             PROVE  /\ Received!Next \/ UNCHANGED Received!vars
                    /\ Shared!Next \/ UNCHANGED Shared!vars
                    /\ Push!Next \/ UNCHANGED Push!vars
                    /\ Namer!Next \/ UNCHANGED Namer!vars
                    /\ Sink!Next \/ UNCHANGED Sink!vars
  OBVIOUS
<1>1. UNCHANGED fileVars => UNCHANGED Received!vars
  BY DEF fileVars, Received!vars, Received!page, Received!shell
<1>2. UNCHANGED shareVars => UNCHANGED Shared!vars
  BY DEF shareVars, Shared!vars
<1>3. UNCHANGED pushVars => UNCHANGED Push!vars
  BY DEF pushVars, Push!vars, Push!phone, Push!server
<1>4. UNCHANGED namerVars => UNCHANGED Namer!vars
  BY DEF namerVars, Namer!vars
<1>5. UNCHANGED sinkVars => UNCHANGED Sink!vars
  BY DEF sinkVars, Sink!vars
<1>6. /\ Received!Next \/ UNCHANGED fileVars
      /\ Shared!Next \/ UNCHANGED shareVars
      /\ Push!Next \/ UNCHANGED pushVars
      /\ Namer!Next \/ UNCHANGED namerVars
      /\ Sink!Next \/ UNCHANGED sinkVars
  BY DEF Next
<1>7. QED
  BY <1>1, <1>2, <1>3, <1>4, <1>5, <1>6

LEMMA StepSound ==
  PartsSound /\ [Next]_<<follows, fileVars, shareVars, pushVars, namerVars, sinkVars>> => PartsSound'
  BY StepOfParts, FilesStep, SharedStep, PushStep, NamerStep, SinkStep DEF PartsSound

\* Each part's invariant holds, whichever part a behaviour follows: saves that
\* do not clash are alone with their files, a share is at one place, the latest
\* registration is held or accounted for, a .part is the beginning of its file,
\* and the bytes of a sink are where they belong (main.js, files.rs, inbox.rs,
\* shares.js, sinks.js, core.js, llama.js).
THEOREM AppInvariant == Spec => []PartsSound
  BY InitSound, StepSound, PTL DEF Spec

\* All that the five parts keep has its type.
THEOREM TypeCorrect == Spec => []TypeOK
<1>1. PartsSound => TypeOK
  BY SharesKept, SinkExact DEF PartsSound, FilesSound, PushSound, NamerSound, TypeOK
<1>2. QED
  BY <1>1, AppInvariant, PTL

\* A file that has arrived, and so was acknowledged, is staged or whole on disk
\* until its row is cleared, and a row names only a whole file, except where two
\* saves chose one path at once (main.js maybeAutoSave and onSave, files.rs).
THEOREM ArrivedCorrect == Spec => []ArrivedIsKept
<1>1. PartsSound => ArrivedIsKept
  BY FilesKept DEF PartsSound, ArrivedIsKept
<1>2. QED
  BY <1>1, AppInvariant, PTL

\* A file handed to the app by another one is with the shell, on the page or
\* sent, or a send of it failed and is shown as failed, unless the user cleared it
\* or the desktop's page went with it; the desktop sends it once and then does not
\* call it failed (inbox.rs, host.js, shares.js, main.js).
THEOREM ShareCorrect == Spec => []ShareIsKept
<1>1. PartsSound => ShareIsKept
  BY SharesKept DEF PartsSound, ShareIsKept
<1>2. QED
  BY <1>1, AppInvariant, PTL

\* A live token that the page takes to be registered is the server's, unless a
\* wake forgot it or an older registration came after it (main.js registerPush,
\* core.js wake).
THEOREM RegisteredCorrect == Spec => []RegisteredIsHeld
<1>1. PartsSound => RegisteredIsHeld
  BY PushHeld DEF PartsSound, RegisteredIsHeld
<1>2. QED
  BY <1>1, AppInvariant, PTL

\* Whatever the order of chunks and wherever a download breaks off, each byte of
\* a file is at its place (sinks.js, llama.js downloadOne).
THEOREM BytesCorrect == Spec => []BytesAreExact
<1>1. PartsSound => BytesAreExact
  BY SinkExact DEF PartsSound, NamerSound, BytesAreExact
<1>2. QED
  BY <1>1, AppInvariant, PTL
=============================================================================
