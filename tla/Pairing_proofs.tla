---------------------------- MODULE Pairing_proofs ----------------------------
(* Proofs about Pairing, for any number of attempts: what is under way        *)
(* between two devices that start over, drop and rejoin as often as they      *)
(* like, and what the continuations of their attempts still hold.             *)
EXTENDS Pairing, FiniteSetTheorems, SequenceTheorems, TLAPS

-----------------------------------------------------------------------------
(* The inductive invariant. *)

Messages ==
  [type : {"joined"}, occupants : Nat] \union [type : {"hello"}, hello : Hellos]
    \union [type : {"confirm"}, tag : Tags]

Works ==
  ({"verify"} \X Attempts) \union ({"tag"} \X Attempts \X Hellos)
    \union ({"check"} \X Attempts \X Hellos \X Tags) \union ({"store"} \X Attempts \X Devices)

\* With the tags of tags, a device other than d has confirmed a hello that is not
\* its own.
Vouched(d, tags) ==
  \E y, z \in Hellos : y[1] # d /\ z[1] # y[1] /\ tags[y] = Tag(y, z)

\* What may travel to d: never its own hello, a tag only of one who has confirmed.
May(d, tags) ==
  [type : {"joined"}, occupants : Nat] \union [type : {"hello"}, hello : {h \in Hellos : h[1] # d}]
    \union (IF Vouched(d, tags) THEN [type : {"confirm"}, tag : Tags] ELSE {})

Carried(q, tags) ==
  /\ q \in [Devices -> Seq(Messages)]
  /\ \A d \in Devices : q[d] \in Seq(May(d, tags))

Phases == {"none", "starting", "aborted", "live", "over", "failed", "mismatch", "paired"}

\* What attempt x of a device holds.
HeldTrue(x, hellos, theirs, tags) ==
  /\ hellos[x] # None => hellos[x][1] # x[1]
  /\ theirs[x] # None => Vouched(x[1], tags)
  /\ tags[x] # None => \E z \in Hellos : z[1] # x[1] /\ tags[x] = Tag(x, z)

\* What a continuation of d works on.
Due(d, w, hellos, tags) ==
  /\ w[1] \in {"verify", "check"} => hellos[<<d, w[2]>>] # None
  /\ w[1] = "tag" => w[3][1] # d
  /\ w[1] \in {"check", "store"} => Vouched(d, tags)
  /\ w[1] = "store" => w[3] # d

\* Attempts of a device follow one another.
InOrder(d, ph) ==
  \A n \in Attempts : \A m \in 1..(n - 1) :
    /\ ph[<<d, n>>] # "none" => ph[<<d, m>>] \notin Running \union {"none"}
    /\ ph[<<d, n>>] = "live" => ph[<<d, m>>] # "aborted"

Typed ==
  /\ TypeOK
  /\ IsFiniteSet(occ)
  /\ owner \in [Devices -> {0} \union Attempts]
  /\ work \in [Devices -> SUBSET Works]

Ordered == \A d \in Devices : InOrder(d, phase)

Held == \A x \in Hellos : HeldTrue(x, theirHello, theirTag, myTag)

Underway == \A d \in Devices : \A w \in work[d] : Due(d, w, theirHello, myTag)

Trusted == \A d \in Devices : \A e \in vault[d] : e # d /\ Vouched(d, myTag)

Exchange ==
  /\ theirHello \in [Hellos -> Hellos \union {None}]
  /\ theirTag \in [Hellos -> Tags \union {None}] /\ myTag \in [Hellos -> Tags \union {None}]
  /\ sentHello \in [Hellos -> BOOLEAN]
  /\ work \in [Devices -> SUBSET Works]
  /\ Carried(down, myTag) /\ Held /\ Underway

PairingSound == Typed /\ Ordered /\ LiveIsHeard /\ Exchange /\ Trusted

-----------------------------------------------------------------------------
(* Lemmas about the operators. *)

\* There are two devices: whoever is not d is the other one.
LEMMA TheOther ==
  \A d, e, f \in Devices : e # d /\ f # d => e = f
<1> SUFFICES ASSUME NEW d \in Devices, NEW e \in Devices, NEW f \in Devices, e # d, f # d, e # f
             PROVE  FALSE
  OBVIOUS
<1>1. IsFiniteSet({d}) /\ Cardinality({d}) = 1
  BY FS_Singleton
<1>2. IsFiniteSet({d} \cup {e}) /\ Cardinality({d} \cup {e}) = 2
  BY <1>1, FS_AddElement
<1>3. Cardinality(({d} \cup {e}) \cup {f}) = 3
  BY <1>2, FS_AddElement
<1>4. ({d} \cup {e}) \cup {f} \in SUBSET Devices
  OBVIOUS
<1>5. Cardinality(({d} \cup {e}) \cup {f}) <= Cardinality(Devices)
  BY <1>4, FS_Subset, PairingAssumption
<1>6. QED
  BY <1>3, <1>5, PairingAssumption

LEMMA Counted ==
  /\ MaxTroubles \in Nat /\ Attempts \subseteq Nat \ {0} /\ 1 \in Attempts
  /\ \A n \in Attempts : 1..(n - 1) \subseteq Attempts
  /\ \A x \in Hellos : x[1] \in Devices /\ x[2] \in Attempts /\ x = <<x[1], x[2]>>
  /\ \A d \in Devices, n \in Attempts : <<d, n>> \in Hellos
  BY PairingAssumption DEF Attempts, Hellos

LEMMA NoneIsNoHello == None \notin Hellos
  BY PairingAssumption DEF Hellos, Attempts

LEMMA SeqGrows ==
  ASSUME NEW S, NEW T, S \subseteq T, NEW s \in Seq(S)
  PROVE  s \in Seq(T)
<1>1. s \in [1..Len(s) -> S] /\ Len(s) \in Nat
  OBVIOUS
<1>2. s \in [1..Len(s) -> T]
  BY <1>1
<1>3. QED
  BY <1>1, <1>2, SeqDef

LEMMA CarriedGrows ==
  ASSUME NEW q, NEW old, NEW new, Carried(q, old),
         \A d \in Devices : Vouched(d, old) => Vouched(d, new)
  PROVE  Carried(q, new)
<1>1. \A d \in Devices : May(d, old) \subseteq May(d, new)
  BY DEF May
<1>2. QED
  BY <1>1, SeqGrows DEF Carried

LEMMA CarriedRest ==
  ASSUME NEW q, NEW tags, Carried(q, tags), NEW d \in Devices, q[d] # <<>>
  PROVE  /\ Carried([q EXCEPT ![d] = Tail(@)], tags)
         /\ Head(q[d]) \in May(d, tags) /\ Head(q[d]) \in Messages
<1>1. q[d] \in Seq(May(d, tags)) /\ q[d] \in Seq(Messages)
  BY DEF Carried
<1>2. /\ Tail(q[d]) \in Seq(May(d, tags)) /\ Tail(q[d]) \in Seq(Messages)
      /\ Head(q[d]) \in May(d, tags) /\ Head(q[d]) \in Messages
  BY <1>1
<1> DEFINE r == [q EXCEPT ![d] = Tail(@)]
<1>3. \A e \in Devices : r[e] = IF e = d THEN Tail(q[d]) ELSE q[e]
  BY DEF Carried
<1>4. \A e \in Devices : r[e] \in Seq(Messages) /\ r[e] \in Seq(May(e, tags))
  <2> HIDE DEF r
  <2> SUFFICES ASSUME NEW e \in Devices PROVE r[e] \in Seq(Messages) /\ r[e] \in Seq(May(e, tags))
    OBVIOUS
  <2>1. q[e] \in Seq(Messages) /\ q[e] \in Seq(May(e, tags))
    BY DEF Carried
  <2>2. QED
    BY <1>2, <1>3, <2>1
<1>5. r \in [Devices -> Seq(Messages)]
  BY <1>4 DEF Carried
<1> HIDE DEF r
<1>6. QED
  BY <1>2, <1>4, <1>5 DEF Carried, r

LEMMA CarriedEmpty ==
  ASSUME NEW q, NEW tags, Carried(q, tags), NEW d \in Devices
  PROVE  Carried([q EXCEPT ![d] = <<>>], tags)
  BY DEF Carried

LEMMA CarriedMore ==
  ASSUME NEW q, NEW tags, Carried(q, tags), NEW e \in Devices,
         NEW m, m \in Messages, m \in May(e, tags)
  PROVE  Append(q[e], m) \in Seq(Messages) /\ Append(q[e], m) \in Seq(May(e, tags))
<1>1. q[e] \in Seq(Messages) /\ q[e] \in Seq(May(e, tags))
  BY DEF Carried
<1>2. QED
  BY <1>1

\* Only the other device is passed what one of them sends.
LEMMA CarriedRelay ==
  ASSUME NEW d \in Devices, NEW m \in Messages, NEW q, NEW tags, Carried(q, tags),
         \A e \in Devices : e # d => m \in May(e, tags)
  PROVE  Carried(Relayed(d, m, q), tags)
<1> DEFINE r == Relayed(d, m, q)
<1>1. \A e \in Devices : r[e] = q[e] \/ (e # d /\ r[e] = Append(q[e], m))
  BY DEF Relayed
<1>2. \A e \in Devices : r[e] \in Seq(Messages) /\ r[e] \in Seq(May(e, tags))
  <2> HIDE DEF r
  <2> SUFFICES ASSUME NEW e \in Devices
               PROVE  r[e] \in Seq(Messages) /\ r[e] \in Seq(May(e, tags))
    OBVIOUS
  <2>1. q[e] \in Seq(Messages) /\ q[e] \in Seq(May(e, tags))
    BY DEF Carried
  <2>2. e # d => Append(q[e], m) \in Seq(Messages) /\ Append(q[e], m) \in Seq(May(e, tags))
    BY CarriedMore
  <2>3. QED
    BY <1>1, <2>1, <2>2, Zenon
<1>3. r \in [Devices -> Seq(Messages)]
  BY <1>2 DEF Relayed
<1>4. QED
  BY <1>2, <1>3 DEF Carried

LEMMA HelloMay ==
  ASSUME NEW x \in Hellos, NEW tags
  PROVE  Hello(x) \in Messages /\ \A e \in Devices : e # x[1] => Hello(x) \in May(e, tags)
  BY DEF Hello, Messages, May

LEMMA ConfirmMay ==
  ASSUME NEW x \in Hellos, NEW z \in Hellos, NEW tags, z[1] # x[1], tags[x] = Tag(x, z)
  PROVE  /\ Confirm(Tag(x, z)) \in Messages
         /\ \A e \in Devices : e # x[1] => Confirm(Tag(x, z)) \in May(e, tags)
<1>1. Tag(x, z) \in Tags
  BY DEF Tags
<1>2. \A e \in Devices : e # x[1] => Vouched(e, tags)
  BY DEF Vouched
<1>3. QED
  BY <1>1, <1>2 DEF Confirm, Messages, May

\* The room never holds more than two, and no one who is not told so.
LEMMA JoinSound ==
  ASSUME Typed, NEW d \in Devices, Join(d), NEW tags, Carried(down, tags)
  PROVE  /\ Carried(down', tags)
         /\ occ' \subseteq Devices \X {"present", "old"} /\ IsFiniteSet(occ') /\ Cardinality(occ') <= 2
         /\ refused' \in [Devices -> BOOLEAN]
<1>1. CASE Full(d)
  <2>1. refused' = [refused EXCEPT ![d] = TRUE] /\ occ' = occ /\ down' = down
    BY <1>1 DEF Join
  <2>2. refused' \in [Devices -> BOOLEAN]
    BY <2>1 DEF Typed, TypeOK
  <2>3. QED
    BY <2>1, <2>2 DEF Typed, TypeOK
<1>2. CASE ~Full(d)
  <2> DEFINE now == occ \union {Here(d)}
             m == [type |-> "joined", occupants |-> Cardinality(now)]
  <2>1. /\ occ' = now /\ refused' = [refused EXCEPT ![d] = FALSE]
        /\ down' = [e \in Devices |->
             IF Here(e) \in now /\ (e = d \/ net[e] = "ready") THEN Append(down[e], m) ELSE down[e]]
    BY <1>2 DEF Join
  <2>2. IsFiniteSet(occ) /\ Cardinality(occ) \in Nat
    BY FS_CardinalityType DEF Typed
  <2>3. IsFiniteSet(now) /\ Cardinality(now) \in Nat /\ Cardinality(now) <= 2
    <3>1. /\ IsFiniteSet(now)
          /\ Cardinality(now) = IF Here(d) \in occ THEN Cardinality(occ) ELSE Cardinality(occ) + 1
      BY <2>2, FS_AddElement
    <3>2. Cardinality(occ) <= 2 /\ (Here(d) \notin occ => ~(Cardinality(occ) >= 2))
      BY <1>2 DEF Full, Typed, TypeOK
    <3>3. QED
      BY <2>2, <3>1, <3>2
  <2>4. m \in Messages /\ \A e \in Devices : m \in May(e, tags)
    BY <2>3 DEF Messages, May
  <2> HIDE DEF m, now
  <2>5. \A e \in Devices : down'[e] = down[e] \/ down'[e] = Append(down[e], m)
    BY <2>1
  <2>6. \A e \in Devices : down'[e] \in Seq(Messages) /\ down'[e] \in Seq(May(e, tags))
    <3> SUFFICES ASSUME NEW e \in Devices
                 PROVE  down'[e] \in Seq(Messages) /\ down'[e] \in Seq(May(e, tags))
      OBVIOUS
    <3>1. down[e] \in Seq(Messages) /\ down[e] \in Seq(May(e, tags))
      BY DEF Carried
    <3>2. Append(down[e], m) \in Seq(Messages) /\ Append(down[e], m) \in Seq(May(e, tags))
      BY <2>4, CarriedMore
    <3>3. down'[e] = down[e] \/ down'[e] = Append(down[e], m)
      BY <2>5
    <3>4. QED
      BY <3>1, <3>2, <3>3, Zenon
  <2>7. Carried(down', tags)
    BY <2>1, <2>6 DEF Carried
  <2>8. now \subseteq Devices \X {"present", "old"}
    BY DEF now, Here, Typed, TypeOK
  <2>9. QED
    BY <2>1, <2>3, <2>7, <2>8 DEF Typed, TypeOK
<1>3. QED
  BY <1>1, <1>2

-----------------------------------------------------------------------------
(* The attempts of a device. *)

LEMMA PhaseDomain ==
  ASSUME Typed
  PROVE  phase \in [Hellos -> Phases] /\ \A d \in Devices, n \in Attempts : <<d, n>> \in DOMAIN phase
<1>1. phase \in [Hellos -> Phases]
  BY DEF Typed, TypeOK, Phases
<1>2. QED
  BY <1>1, Counted

LEMMA SameAttempts ==
  ASSUME Ordered, LiveIsHeard, UNCHANGED <<phase, owner, joins>>
  PROVE  Ordered' /\ LiveIsHeard'
  BY DEF Ordered, LiveIsHeard, Live, InOrder

\* While attempt n runs, none before it does, and none after it has begun.
LEMMA OneRuns ==
  ASSUME Ordered, NEW d \in Devices, NEW n \in Attempts, phase[<<d, n>>] \in Running,
         NEW k \in Attempts, k # n
  PROVE  phase[<<d, k>>] \notin Running /\ (k > n => phase[<<d, k>>] = "none")
<1>1. k \in Nat /\ n \in Nat /\ (k < n => k \in 1..(n - 1)) /\ (k > n => n \in 1..(k - 1))
  BY Counted
<1>2. CASE k < n
  BY <1>1, <1>2 DEF Ordered, InOrder, Running
<1>3. CASE k > n
  <2>1. phase[<<d, k>>] = "none"
    BY <1>1, <1>3 DEF Ordered, InOrder
  <2>2. QED
    BY <1>1, <1>3, <2>1 DEF Running
<1>4. QED
  BY <1>1, <1>2, <1>3

\* An attempt that ends takes its room only from itself: no other one is open.
LEMMA FinishSound ==
  ASSUME Typed, Ordered, LiveIsHeard, NEW d \in Devices, NEW n \in Attempts,
         NEW how \in {"over", "failed", "mismatch", "paired"}, Finish(d, n, how)
  PROVE  /\ phase' \in [Hellos -> Phases]
         /\ owner' \in [Devices -> {0} \union Attempts] /\ joins' \in [Devices -> BOOLEAN]
         /\ occ' \subseteq occ
         /\ Ordered' /\ LiveIsHeard'
<1>1. CASE ~Settles(d, n)
  <2>1. UNCHANGED <<phase, owner, joins, occ>>
    BY <1>1 DEF Finish
  <2>2. QED
    BY <2>1, SameAttempts, PhaseDomain DEF Typed, TypeOK
<1>2. CASE Settles(d, n)
  <2>1. /\ phase' = [phase EXCEPT ![<<d, n>>] = how]
        /\ owner' = [owner EXCEPT ![d] = 0] /\ joins' = [joins EXCEPT ![d] = FALSE]
        /\ occ' \subseteq occ
    BY <1>2 DEF Finish, Left
  <2>2. /\ phase' \in [Hellos -> Phases]
        /\ owner' \in [Devices -> {0} \union Attempts]
    BY <2>1, PhaseDomain DEF Typed, Phases
  <2>3. joins' \in [Devices -> BOOLEAN]
    BY <2>1 DEF Typed, TypeOK
  <2>4. \A e \in Devices, k \in Attempts :
          phase'[<<e, k>>] = IF e = d /\ k = n THEN how ELSE phase[<<e, k>>]
    <3> SUFFICES ASSUME NEW e \in Devices, NEW k \in Attempts
                 PROVE  phase'[<<e, k>>] = (IF e = d /\ k = n THEN how ELSE phase[<<e, k>>])
      OBVIOUS
    <3>1. QED
      BY <2>1, PhaseDomain
  <2>5. phase[<<d, n>>] \in {"live", "aborted"}
    BY <1>2 DEF Settles
  <2>6. Ordered'
    <3> SUFFICES ASSUME NEW e \in Devices, NEW k \in Attempts, NEW m \in 1..(k - 1)
                 PROVE  /\ phase'[<<e, k>>] # "none" => phase'[<<e, m>>] \notin Running \union {"none"}
                        /\ phase'[<<e, k>>] = "live" => phase'[<<e, m>>] # "aborted"
      BY DEF Ordered, InOrder
    <3>1. m \in Attempts /\ m # k
      BY Counted
    <3>2. /\ phase[<<e, k>>] # "none" => phase[<<e, m>>] \notin Running \union {"none"}
          /\ phase[<<e, k>>] = "live" => phase[<<e, m>>] # "aborted"
      BY DEF Ordered, InOrder
    <3>3. QED
      BY <2>4, <2>5, <3>1, <3>2 DEF Running
  <2>7. \A k \in Attempts : phase'[<<d, k>>] # "live"
    <3> SUFFICES ASSUME NEW k \in Attempts, k # n, phase[<<d, k>>] = "live"
                 PROVE  FALSE
      BY <2>4
    <3>1. CASE phase[<<d, n>>] = "live"
      BY <3>1, OneRuns DEF Running
    <3>2. CASE phase[<<d, n>>] = "aborted"
      <4>1. k \in Nat /\ n \in Nat /\ (n < k => n \in 1..(k - 1)) /\ (n > k \/ n < k)
        BY Counted
      <4>2. ~(n > k)
        BY <3>2, OneRuns DEF Running
      <4>3. QED
        BY <3>2, <4>1, <4>2 DEF Ordered, InOrder
    <3>3. QED
      BY <2>5, <3>1, <3>2
  <2>8. LiveIsHeard'
    <3> SUFFICES ASSUME NEW e \in Devices, NEW k \in Attempts, phase'[<<e, k>>] = "live"
                 PROVE  owner'[e] = k /\ joins'[e]
      BY DEF LiveIsHeard, Live
    <3>1. e # d /\ phase[<<e, k>>] = "live"
      BY <2>4, <2>7
    <3>2. owner[e] = k /\ joins[e]
      BY <3>1 DEF LiveIsHeard, Live
    <3>3. owner'[e] = owner[e]
      BY <2>1, <3>1 DEF Typed
    <3>4. joins'[e] = joins[e]
      BY <2>1, <3>1 DEF Typed, TypeOK
    <3>5. QED
      BY <3>2, <3>3, <3>4
  <2>9. QED
    BY <2>1, <2>2, <2>3, <2>6, <2>8
<1>3. QED
  BY <1>1, <1>2

LEMMA PairOrdered ==
  ASSUME Typed, Ordered, LiveIsHeard, NEW d \in Devices, Pair(d)
  PROVE  /\ phase' \in [Hellos -> Phases]
         /\ Ordered' /\ LiveIsHeard'
<1>1. PICK n \in Attempts :
        /\ phase[<<d, n>>] = "none"
        /\ \A m \in 1..(n - 1) : phase[<<d, m>>] \notin Running \union {"none"}
        /\ phase' = [phase EXCEPT ![<<d, n>>] = "starting"]
        /\ UNCHANGED <<owner, joins>>
  BY DEF Pair
<1>2. ASSUME NEW e \in Devices, NEW k \in Attempts
      PROVE  phase'[<<e, k>>] = (IF e = d /\ k = n THEN "starting" ELSE phase[<<e, k>>])
  BY <1>1, PhaseDomain
<1>3. Ordered'
  <2> SUFFICES ASSUME NEW e \in Devices, NEW k \in Attempts, NEW m \in 1..(k - 1)
               PROVE  /\ phase'[<<e, k>>] # "none" => phase'[<<e, m>>] \notin Running \union {"none"}
                      /\ phase'[<<e, k>>] = "live" => phase'[<<e, m>>] # "aborted"
    BY DEF Ordered, InOrder
  <2>1. m \in Attempts /\ m # k
    BY Counted
  <2>2. /\ phase[<<e, k>>] # "none" => phase[<<e, m>>] \notin Running \union {"none"}
        /\ phase[<<e, k>>] = "live" => phase[<<e, m>>] # "aborted"
    BY DEF Ordered, InOrder
  <2>3. /\ phase'[<<e, k>>] = (IF e = d /\ k = n THEN "starting" ELSE phase[<<e, k>>])
        /\ phase'[<<e, m>>] = (IF e = d /\ m = n THEN "starting" ELSE phase[<<e, m>>])
    BY <1>2, <2>1
  <2>4. QED
    BY <1>1, <2>1, <2>2, <2>3 DEF Running
<1>4. LiveIsHeard'
  BY <1>1, <1>2 DEF LiveIsHeard, Live
<1>5. phase' \in [Hellos -> Phases]
  BY <1>1, PhaseDomain DEF Phases
<1>6. QED
  BY <1>3, <1>4, <1>5

LEMMA BeginOrdered ==
  ASSUME Typed, Ordered, LiveIsHeard, NEW d \in Devices, Begin(d)
  PROVE  /\ phase' \in [Hellos -> Phases]
         /\ owner' \in [Devices -> {0} \union Attempts] /\ joins' \in [Devices -> BOOLEAN]
         /\ Ordered' /\ LiveIsHeard'
<1>1. PICK n \in Attempts :
        /\ phase[<<d, n>>] = "starting"
        /\ \A m \in 1..(n - 1) : phase[<<d, m>>] # "aborted"
        /\ phase' = [phase EXCEPT ![<<d, n>>] = "live"]
        /\ owner' = [owner EXCEPT ![d] = n] /\ joins' = [joins EXCEPT ![d] = TRUE]
  BY DEF Begin
<1>2. ASSUME NEW e \in Devices, NEW k \in Attempts
      PROVE  phase'[<<e, k>>] = (IF e = d /\ k = n THEN "live" ELSE phase[<<e, k>>])
  BY <1>1, PhaseDomain
<1>3. Ordered'
  <2> SUFFICES ASSUME NEW e \in Devices, NEW k \in Attempts, NEW m \in 1..(k - 1)
               PROVE  /\ phase'[<<e, k>>] # "none" => phase'[<<e, m>>] \notin Running \union {"none"}
                      /\ phase'[<<e, k>>] = "live" => phase'[<<e, m>>] # "aborted"
    BY DEF Ordered, InOrder
  <2>1. m \in Attempts /\ m # k
    BY Counted
  <2>2. /\ phase[<<e, k>>] # "none" => phase[<<e, m>>] \notin Running \union {"none"}
        /\ phase[<<e, k>>] = "live" => phase[<<e, m>>] # "aborted"
    BY DEF Ordered, InOrder
  <2>3. /\ phase'[<<e, k>>] = (IF e = d /\ k = n THEN "live" ELSE phase[<<e, k>>])
        /\ phase'[<<e, m>>] = (IF e = d /\ m = n THEN "live" ELSE phase[<<e, m>>])
    BY <1>2, <2>1
  <2>4. QED
    BY <1>1, <2>1, <2>2, <2>3 DEF Running
<1>4. LiveIsHeard'
  <2> SUFFICES ASSUME NEW e \in Devices, NEW k \in Attempts, phase'[<<e, k>>] = "live"
               PROVE  owner'[e] = k /\ joins'[e]
    BY DEF LiveIsHeard, Live
  <2>1. CASE e = d
    <3>1. k = n
      BY <1>1, <1>2, <2>1, OneRuns DEF Running
    <3>2. owner'[e] = n
      BY <1>1, <2>1 DEF Typed
    <3>3. joins'[e]
      BY <1>1, <2>1 DEF Typed, TypeOK
    <3>4. QED
      BY <3>1, <3>2, <3>3
  <2>2. CASE e # d
    <3>1. owner[e] = k /\ joins[e]
      BY <1>2, <2>2 DEF LiveIsHeard, Live
    <3>2. owner'[e] = owner[e]
      BY <1>1, <2>2 DEF Typed
    <3>3. joins'[e] = joins[e]
      BY <1>1, <2>2 DEF Typed, TypeOK
    <3>4. QED
      BY <3>1, <3>2, <3>3
  <2>3. QED
    BY <2>1, <2>2
<1>5. joins' \in [Devices -> BOOLEAN]
  BY <1>1 DEF Typed, TypeOK
<1>6. phase' \in [Hellos -> Phases]
  BY <1>1, PhaseDomain DEF Phases
<1>7. owner' \in [Devices -> {0} \union Attempts]
  BY <1>1 DEF Typed
<1>8. QED
  BY <1>3, <1>4, <1>5, <1>6, <1>7

LEMMA GiveUpOrdered ==
  ASSUME Typed, Ordered, LiveIsHeard, NEW d \in Devices, GiveUp(d)
  PROVE  /\ phase' \in [Hellos -> Phases]
         /\ owner' \in [Devices -> {0} \union Attempts] /\ joins' \in [Devices -> BOOLEAN]
         /\ occ' \subseteq occ
         /\ Ordered' /\ LiveIsHeard'
<1>1. PICK n \in Attempts :
        \/ Finish(d, n, "over")
        \/ /\ phase[<<d, n>>] = "starting"
           /\ phase' = [phase EXCEPT ![<<d, n>>] = "aborted"]
           /\ UNCHANGED <<owner, joins, occ>>
  BY DEF GiveUp
<1>2. CASE Finish(d, n, "over")
  BY <1>2, FinishSound
<1>3. CASE /\ phase[<<d, n>>] = "starting"
           /\ phase' = [phase EXCEPT ![<<d, n>>] = "aborted"]
           /\ UNCHANGED <<owner, joins, occ>>
  <2>1. ASSUME NEW e \in Devices, NEW k \in Attempts
        PROVE  phase'[<<e, k>>] = (IF e = d /\ k = n THEN "aborted" ELSE phase[<<e, k>>])
    BY <1>3, PhaseDomain
  <2>2. Ordered'
    <3> SUFFICES ASSUME NEW e \in Devices, NEW k \in Attempts, NEW m \in 1..(k - 1)
                 PROVE  /\ phase'[<<e, k>>] # "none" => phase'[<<e, m>>] \notin Running \union {"none"}
                        /\ phase'[<<e, k>>] = "live" => phase'[<<e, m>>] # "aborted"
      BY DEF Ordered, InOrder
    <3>1. m \in Attempts /\ m # k
      BY Counted
    <3>2. /\ phase[<<e, k>>] # "none" => phase[<<e, m>>] \notin Running \union {"none"}
          /\ phase[<<e, k>>] = "live" => phase[<<e, m>>] # "aborted"
      BY DEF Ordered, InOrder
    <3>3. /\ phase'[<<e, k>>] = (IF e = d /\ k = n THEN "aborted" ELSE phase[<<e, k>>])
          /\ phase'[<<e, m>>] = (IF e = d /\ m = n THEN "aborted" ELSE phase[<<e, m>>])
      BY <2>1, <3>1
    <3>4. QED
      BY <1>3, <3>1, <3>2, <3>3 DEF Running
  <2>3. LiveIsHeard'
    BY <1>3, <2>1 DEF LiveIsHeard, Live
  <2>4. phase' \in [Hellos -> Phases]
    BY <1>3, PhaseDomain DEF Phases
  <2>5. QED
    BY <1>3, <2>2, <2>3, <2>4 DEF Typed, TypeOK
<1>4. QED
  BY <1>1, <1>2, <1>3

\* What every step leaves of the attempts, of the room and of the sockets.
LEMMA AttemptStep ==
  ASSUME Typed, Ordered, LiveIsHeard, [Next]_vars
  PROVE  /\ phase' \in [Hellos -> Phases]
         /\ owner' \in [Devices -> {0} \union Attempts] /\ joins' \in [Devices -> BOOLEAN]
         /\ Ordered' /\ LiveIsHeard'
<1> DEFINE Goal == /\ phase' \in [Hellos -> Phases]
                   /\ owner' \in [Devices -> {0} \union Attempts] /\ joins' \in [Devices -> BOOLEAN]
                   /\ Ordered' /\ LiveIsHeard'
<1>1. owner \in [Devices -> {0} \union Attempts] /\ joins \in [Devices -> BOOLEAN]
  BY DEF Typed, TypeOK
<1>2. ASSUME UNCHANGED <<phase, owner, joins>> PROVE Goal
  BY <1>1, <1>2, PhaseDomain, SameAttempts
<1>3. ASSUME NEW d \in Devices, NEW n \in Attempts,
             NEW how \in {"over", "failed", "mismatch", "paired"}, Finish(d, n, how)
      PROVE  Goal
  BY <1>3, FinishSound
<1>4. CASE Expire \/ UNCHANGED vars
  BY <1>2, <1>4 DEF Expire, vars
<1>5. ASSUME NEW d \in Devices,
             Drop(d) \/ Hear(d) \/ Verified(d) \/ Lost(d) \/ Reconnect(d) \/ ServerNotices(d)
      PROVE  Goal
  <2>1. UNCHANGED <<phase, owner, joins>>
    BY <1>5 DEF Drop, Hear, Verified, Lost, Reconnect, ServerNotices
  <2>2. QED
    BY <1>2, <2>1
<1>6. ASSUME NEW d \in Devices, Pair(d) PROVE Goal
  <2>1. UNCHANGED <<owner, joins>>
    BY <1>6 DEF Pair
  <2>2. QED
    BY <1>1, <1>6, <2>1, PairOrdered
<1>7. ASSUME NEW d \in Devices, GiveUp(d) PROVE Goal
  BY <1>7, GiveUpOrdered
<1>8. ASSUME NEW d \in Devices, Begin(d) PROVE Goal
  BY <1>8, BeginOrdered
<1>9. ASSUME NEW d \in Devices, Aborted(d) PROVE Goal
  BY <1>3, <1>9 DEF Aborted
<1>10. ASSUME NEW d \in Devices, Tagged(d) PROVE Goal
  BY <1>2, <1>3, <1>10 DEF Tagged
<1>11. ASSUME NEW d \in Devices, Checked(d) PROVE Goal
  <2>1. PICK w \in work[d] : w[1] = "check" /\ (Finish(d, w[2], "mismatch") \/ UNCHANGED <<phase, owner, joins>>)
    BY <1>11 DEF Checked
  <2>2. w[2] \in Attempts
    BY <2>1 DEF Typed, Works
  <2>3. QED
    BY <1>2, <1>3, <2>1, <2>2
<1>12. ASSUME NEW d \in Devices, Stored(d) PROVE Goal
  <2>1. PICK w \in work[d] : Finish(d, w[2], "paired")
    BY <1>12 DEF Stored
  <2>2. w[2] \in Attempts
    BY <2>1 DEF Typed, Works
  <2>3. QED
    BY <1>3, <2>1, <2>2
<1> HIDE DEF Goal
<1>13. ASSUME NEW d \in Devices, Pair(d) \/ GiveUp(d) \/ Drop(d) \/ Moves(d) PROVE Goal
  BY <1>5, <1>6, <1>7, <1>8, <1>9, <1>10, <1>11, <1>12, <1>13 DEF Moves, Crypto
<1>14. QED
  BY <1>4, <1>13 DEF Next, Goal

LEMMA FewerOccupants ==
  ASSUME Typed, occ' \subseteq occ
  PROVE  occ' \subseteq Devices \X {"present", "old"} /\ IsFiniteSet(occ') /\ Cardinality(occ') <= 2
<1>1. IsFiniteSet(occ) /\ Cardinality(occ) \in Nat /\ Cardinality(occ) <= 2
  BY FS_CardinalityType DEF Typed, TypeOK
<1>2. IsFiniteSet(occ') /\ Cardinality(occ') \in Nat /\ Cardinality(occ') <= Cardinality(occ)
  BY <1>1, FS_Subset, FS_CardinalityType
<1>3. QED
  BY <1>1, <1>2 DEF Typed, TypeOK

LEMMA DropOccupants ==
  ASSUME Typed, NEW d \in Devices, Drop(d)
  PROVE  occ' \subseteq Devices \X {"present", "old"} /\ IsFiniteSet(occ') /\ Cardinality(occ') <= 2
<1>1. CASE backend = "hub" /\ Here(d) \in occ
  <2>1. occ' = (occ \ {Here(d)}) \union {<<d, "old">>}
    BY <1>1 DEF Drop
  <2>2. IsFiniteSet(occ) /\ Cardinality(occ) \in Nat /\ Cardinality(occ) <= 2
    BY FS_CardinalityType DEF Typed, TypeOK
  <2>3. IsFiniteSet(occ \ {Here(d)}) /\ Cardinality(occ \ {Here(d)}) = Cardinality(occ) - 1
    BY <1>1, <2>2, FS_RemoveElement
  <2>4. IsFiniteSet(occ') /\ Cardinality(occ') <= 2
    <3> DEFINE left == occ \ {Here(d)}
    <3>1. /\ IsFiniteSet(left \union {<<d, "old">>})
          /\ Cardinality(left \union {<<d, "old">>}) =
               IF <<d, "old">> \in left THEN Cardinality(left) ELSE Cardinality(left) + 1
      BY <2>3, FS_AddElement
    <3>2. QED
      BY <2>1, <2>2, <2>3, <3>1
  <2>5. QED
    BY <2>1, <2>4 DEF Typed, TypeOK
<1>2. CASE ~(backend = "hub" /\ Here(d) \in occ)
  BY <1>2, FewerOccupants DEF Drop
<1>3. QED
  BY <1>1, <1>2

LEMMA RoomStep ==
  ASSUME Typed, Ordered, LiveIsHeard, Carried(down, myTag), [Next]_vars
  PROVE  /\ occ' \subseteq Devices \X {"present", "old"} /\ IsFiniteSet(occ') /\ Cardinality(occ') <= 2
         /\ refused' \in [Devices -> BOOLEAN]
<1> DEFINE Fits == occ' \subseteq Devices \X {"present", "old"} /\ IsFiniteSet(occ') /\ Cardinality(occ') <= 2
           Goal == Fits /\ refused' \in [Devices -> BOOLEAN]
<1>1. refused \in [Devices -> BOOLEAN]
  BY DEF Typed, TypeOK
<1>2. ASSUME occ' \subseteq occ, refused' = refused PROVE Goal
  BY <1>1, <1>2, FewerOccupants
<1>3. ASSUME NEW d \in Devices, NEW n \in Attempts,
             NEW how \in {"over", "failed", "mismatch", "paired"}, Finish(d, n, how), refused' = refused
      PROVE  Goal
  BY <1>2, <1>3, FinishSound
<1>4. CASE Expire \/ UNCHANGED vars
  <2>1. occ' \subseteq occ /\ refused' = refused
    BY <1>4 DEF Expire, vars, serverVars
  <2>2. QED
    BY <1>2, <2>1
<1>5. ASSUME NEW d \in Devices,
             Pair(d) \/ Hear(d) \/ Verified(d) \/ Lost(d) \/ ServerNotices(d)
      PROVE  Goal
  <2>1. occ' \subseteq occ /\ refused' = refused
    BY <1>5 DEF Pair, Hear, Verified, Lost, ServerNotices, serverVars
  <2>2. QED
    BY <1>2, <2>1
<1>6. ASSUME NEW d \in Devices, Drop(d) PROVE Goal
  <2>1. refused' = refused
    BY <1>6 DEF Drop
  <2>2. QED
    BY <1>1, <1>6, <2>1, DropOccupants
<1>7. ASSUME NEW d \in Devices, Begin(d) \/ Reconnect(d) PROVE Goal
  <2>1. Join(d) \/ (occ' = occ /\ refused' = refused)
    BY <1>7 DEF Begin, Reconnect
  <2>2. QED
    BY <1>2, <2>1, JoinSound
<1>8. ASSUME NEW d \in Devices, GiveUp(d) PROVE Goal
  <2>1. refused' = refused
    BY <1>8 DEF GiveUp
  <2>2. QED
    BY <1>2, <1>8, <2>1, GiveUpOrdered
<1>9. ASSUME NEW d \in Devices, Aborted(d) PROVE Goal
  BY <1>3, <1>9 DEF Aborted
<1>10. ASSUME NEW d \in Devices, Tagged(d) PROVE Goal
  BY <1>2, <1>3, <1>10 DEF Tagged
<1>11. ASSUME NEW d \in Devices, Checked(d) PROVE Goal
  <2>1. PICK w \in work[d] : w[1] = "check" /\ (Finish(d, w[2], "mismatch") \/ occ' = occ)
    BY <1>11 DEF Checked
  <2>2. w[2] \in Attempts /\ refused' = refused
    BY <1>11, <2>1 DEF Typed, Works, Checked
  <2>3. QED
    BY <1>2, <1>3, <2>1, <2>2
<1>12. ASSUME NEW d \in Devices, Stored(d) PROVE Goal
  <2>1. PICK w \in work[d] : Finish(d, w[2], "paired")
    BY <1>12 DEF Stored
  <2>2. w[2] \in Attempts /\ refused' = refused
    BY <1>12, <2>1 DEF Typed, Works, Stored
  <2>3. QED
    BY <1>3, <2>1, <2>2
<1> HIDE DEF Goal
<1>13. ASSUME NEW d \in Devices, Pair(d) \/ GiveUp(d) \/ Drop(d) \/ Moves(d) PROVE Goal
  BY <1>5, <1>6, <1>7, <1>8, <1>9, <1>10, <1>11, <1>12, <1>13 DEF Moves, Crypto
<1>14. QED
  BY <1>4, <1>13 DEF Next, Goal

-----------------------------------------------------------------------------
(* The exchange. *)

LEMMA DueKeeps ==
  ASSUME NEW d, NEW w, NEW hellos, NEW hellosNew, NEW tags, NEW tagsNew, Due(d, w, hellos, tags),
         hellos[<<d, w[2]>>] # None => hellosNew[<<d, w[2]>>] # None,
         Vouched(d, tags) => Vouched(d, tagsNew)
  PROVE  Due(d, w, hellosNew, tagsNew)
  BY DEF Due

LEMMA WorkTyped ==
  ASSUME Typed, NEW d \in Devices, NEW w \in work[d]
  PROVE  /\ w[2] \in Attempts /\ <<d, w[2]>> \in Hellos
         /\ w[1] = "tag" => w[3] \in Hellos
         /\ w[1] = "check" => w[3] \in Hellos /\ w[4] \in Tags
         /\ w[1] = "store" => w[3] \in Devices
<1>1. w \in Works
  BY DEF Typed
<1>2. QED
  BY <1>1, Counted DEF Works

LEMMA HearJoinedSound ==
  ASSUME Typed, Exchange, NEW d \in Devices, NEW x \in Hellos, x[1] = d, NEW m, NEW rest,
         Carried(rest, myTag), HearJoined(d, x, m, rest), myTag' = myTag
  PROVE  Exchange'
<1>1. Carried(down', myTag)
  BY HelloMay, CarriedRelay DEF HearJoined
<1>2. UNCHANGED <<theirHello, theirTag, work, myTag>>
  BY DEF HearJoined
<1>3. sentHello' \in [Hellos -> BOOLEAN]
  BY DEF HearJoined, Exchange
<1>4. Held' /\ Underway'
  BY <1>2 DEF Held, Underway, Exchange
<1>5. Carried(down, myTag)'
  BY <1>1, <1>2
<1>6. QED
  BY <1>2, <1>3, <1>4, <1>5 DEF Exchange

LEMMA GreetedSound ==
  ASSUME NEW d \in Devices, NEW x \in Hellos, x[1] = d, NEW q, NEW tags, Carried(q, tags)
  PROVE  Carried(Greeted(d, x, q), tags)
  BY HelloMay, CarriedRelay DEF Greeted

LEMMA HearConfirmSound ==
  ASSUME Typed, Exchange, NEW d \in Devices, NEW x \in Hellos, x[1] = d, NEW m \in May(d, myTag), NEW rest,
         Carried(rest, myTag), HearConfirm(d, x, m, rest), myTag' = myTag
  PROVE  Exchange'
<1>1. Carried(down', myTag)
  BY GreetedSound DEF HearConfirm
<1>2. /\ UNCHANGED <<theirHello, myTag>>
      /\ theirTag' = [theirTag EXCEPT ![x] = m.tag]
      /\ work' = [work EXCEPT ![d] = @ \union Check(x, theirHello[x], m.tag)]
  BY DEF HearConfirm
<1>3. Vouched(d, myTag) /\ m.tag \in Tags
  BY DEF HearConfirm, May
<1>4. /\ sentHello' \in [Hellos -> BOOLEAN] /\ theirTag' \in [Hellos -> Tags \union {None}]
  BY <1>2, <1>3 DEF HearConfirm, Exchange
<1>5. \A w \in Check(x, theirHello[x], m.tag) : w \in Works /\ Due(d, w, theirHello, myTag)
  <2> SUFFICES ASSUME theirHello[x] # None
               PROVE  /\ <<"check", x[2], theirHello[x], m.tag>> \in Works
                      /\ Due(d, <<"check", x[2], theirHello[x], m.tag>>, theirHello, myTag)
    BY DEF Check
  <2>1. theirHello[x] \in Hellos /\ x[2] \in Attempts /\ x = <<d, x[2]>>
    BY Counted DEF Exchange
  <2>2. QED
    BY <1>3, <2>1 DEF Works, Due
<1>6. work' \in [Devices -> SUBSET Works]
  BY <1>2, <1>5 DEF Exchange
<1>7. Held'
  <2> SUFFICES ASSUME NEW y \in Hellos PROVE HeldTrue(y, theirHello', theirTag', myTag')
    BY DEF Held
  <2>1. HeldTrue(y, theirHello, theirTag, myTag)
    BY DEF Exchange, Held
  <2>2. theirTag'[y] = theirTag[y] \/ y[1] = d
    BY <1>2 DEF Exchange
  <2>3. QED
    BY <1>2, <1>3, <2>1, <2>2 DEF HeldTrue
<1>8. Underway'
  <2> SUFFICES ASSUME NEW e \in Devices, NEW w \in work'[e] PROVE Due(e, w, theirHello', myTag')
    BY DEF Underway
  <2>1. w \in work[e] \/ (e = d /\ w \in Check(x, theirHello[x], m.tag))
    BY <1>2 DEF Exchange
  <2>2. QED
    BY <1>2, <1>5, <2>1 DEF Exchange, Underway
<1>9. Carried(down, myTag)'
  BY <1>1, <1>2
<1>10. QED
  BY <1>2, <1>4, <1>6, <1>7, <1>8, <1>9 DEF Exchange

LEMMA HearHelloSound ==
  ASSUME Typed, Exchange, NEW d \in Devices, NEW x \in Hellos, x[1] = d, NEW m \in May(d, myTag), NEW rest,
         Carried(rest, myTag), HearHello(d, x, m, rest), myTag' = myTag
  PROVE  Exchange'
<1>1. m.hello \in Hellos /\ m.hello[1] # d
  BY DEF HearHello, May
<1>2. sentHello' \in [Hellos -> BOOLEAN]
  BY DEF HearHello, Exchange
<1>3. Carried(Greeted(d, x, rest), myTag)
  BY GreetedSound
<1>4. CASE UNCHANGED <<theirHello, theirTag, work>> /\ down' = Again(d, x, Greeted(d, x, rest))
  <2>1. Carried(down', myTag)
    <3>1. CASE myTag[x] = None
      BY <1>3, <1>4, <3>1 DEF Again
    <3>2. CASE myTag[x] # None
      <4>1. PICK z \in Hellos : z[1] # x[1] /\ myTag[x] = Tag(x, z)
        BY <3>2 DEF Exchange, Held, HeldTrue
      <4>2. /\ Confirm(Tag(x, z)) \in Messages
            /\ \A e \in Devices : e # d => Confirm(Tag(x, z)) \in May(e, myTag)
        BY <4>1, ConfirmMay
      <4>3. down' = Relayed(d, Confirm(Tag(x, z)), Greeted(d, x, rest))
        BY <1>4, <3>2, <4>1 DEF Again
      <4>4. QED
        BY <1>3, <4>2, <4>3, CarriedRelay
    <3>3. QED
      BY <3>1, <3>2
  <2>2. Held' /\ Underway'
    BY <1>4 DEF Held, Underway, Exchange
  <2>3. Carried(down, myTag)'
    BY <2>1
  <2>4. QED
    BY <1>2, <1>4, <2>2, <2>3 DEF Exchange
<1>5. CASE /\ theirHello' = [theirHello EXCEPT ![x] = m.hello]
           /\ theirTag' = [theirTag EXCEPT ![x] = None]
           /\ work' = [work EXCEPT ![d] = @ \union {<<"verify", x[2]>>}]
           /\ down' = Greeted(d, x, rest)
  <2>1. /\ theirHello' \in [Hellos -> Hellos \union {None}]
        /\ theirTag' \in [Hellos -> Tags \union {None}]
    BY <1>1, <1>5 DEF Exchange
  <2>2. x[2] \in Attempts /\ x = <<d, x[2]>> /\ <<"verify", x[2]>> \in Works
    BY Counted DEF Works
  <2>3. work' \in [Devices -> SUBSET Works]
    BY <1>5, <2>2 DEF Exchange
  <2>4. theirHello'[x] = m.hello /\ m.hello # None
    BY <1>1, <1>5, NoneIsNoHello DEF Exchange
  <2>5. Held'
    <3> SUFFICES ASSUME NEW y \in Hellos PROVE HeldTrue(y, theirHello', theirTag', myTag')
      BY DEF Held
    <3>1. HeldTrue(y, theirHello, theirTag, myTag)
      BY DEF Exchange, Held
    <3>2. CASE y = x
      BY <1>1, <1>5, <2>4, <3>1, <3>2 DEF HeldTrue, Exchange
    <3>3. CASE y # x
      BY <1>5, <3>1, <3>3 DEF HeldTrue, Exchange
    <3>4. QED
      BY <3>2, <3>3
  <2>6. Underway'
    <3> SUFFICES ASSUME NEW e \in Devices, NEW w \in work'[e] PROVE Due(e, w, theirHello', myTag')
      BY DEF Underway
    <3>1. w \in work[e] \/ (e = d /\ w = <<"verify", x[2]>>)
      BY <1>5 DEF Exchange
    <3>2. CASE w \in work[e]
      <4>1. Due(e, w, theirHello, myTag) /\ <<e, w[2]>> \in Hellos
        BY <3>2, WorkTyped DEF Exchange, Underway
      <4>2. theirHello[<<e, w[2]>>] # None => theirHello'[<<e, w[2]>>] # None
        BY <1>5, <2>4, <4>1 DEF Exchange
      <4>3. QED
        BY <4>1, <4>2, DueKeeps
    <3>3. CASE e = d /\ w = <<"verify", x[2]>>
      BY <2>2, <2>4, <3>3 DEF Due
    <3>4. QED
      BY <3>1, <3>2, <3>3
  <2>7. Carried(down, myTag)'
    BY <1>3, <1>5
  <2>8. QED
    BY <1>2, <2>1, <2>3, <2>5, <2>6, <2>7 DEF Exchange
<1>6. QED
  BY <1>4, <1>5 DEF HearHello

LEMMA HearSound ==
  ASSUME Typed, Exchange, NEW d \in Devices, Hear(d)
  PROVE  Exchange'
<1> DEFINE m == Head(down[d])
           rest == [down EXCEPT ![d] = Tail(@)]
           x == <<d, owner[d]>>
<1>1. Carried(rest, myTag) /\ m \in May(d, myTag) /\ m \in Messages /\ myTag' = myTag
  BY CarriedRest DEF Hear, Exchange
<1>2. CASE owner[d] = 0
  <2>1. down' = rest /\ UNCHANGED <<theirHello, theirTag, sentHello, work, myTag>>
    BY <1>2 DEF Hear
  <2>2. Carried(down, myTag)'
    BY <1>1, <2>1
  <2>3. Held' /\ Underway'
    BY <2>1 DEF Held, Underway, Exchange
  <2>4. QED
    BY <2>1, <2>2, <2>3 DEF Exchange
<1>3. CASE owner[d] # 0
  <2>1. x \in Hellos /\ x[1] = d
    BY <1>3, Counted DEF Typed
  <2>2. HearJoined(d, x, m, rest) \/ HearConfirm(d, x, m, rest) \/ HearHello(d, x, m, rest)
    BY <1>3 DEF Hear
  <2> HIDE DEF x, m, rest
  <2>3. QED
    BY <1>1, <2>1, <2>2, HearJoinedSound, HearConfirmSound, HearHelloSound
<1>4. QED
  BY <1>2, <1>3

LEMMA VerifiedSound ==
  ASSUME Typed, Exchange, NEW d \in Devices, Verified(d)
  PROVE  Exchange'
<1>1. PICK n \in Attempts :
        /\ <<"verify", n>> \in work[d]
        /\ work' = [work EXCEPT ![d] =
                      (@ \ {<<"verify", n>>}) \union {<<"tag", n, theirHello[<<d, n>>]>>}]
  BY DEF Verified
<1>2. UNCHANGED <<down, theirHello, theirTag, myTag, sentHello>>
  BY DEF Verified, attemptVars
<1>3. theirHello[<<d, n>>] \in Hellos /\ theirHello[<<d, n>>][1] # d
  <2>1. Due(d, <<"verify", n>>, theirHello, myTag) /\ <<d, n>> \in Hellos
    BY <1>1, Counted DEF Exchange, Underway
  <2>2. theirHello[<<d, n>>] # None
    BY <2>1 DEF Due
  <2>3. QED
    BY <2>1, <2>2 DEF Exchange, Held, HeldTrue
<1>4. <<"tag", n, theirHello[<<d, n>>]>> \in Works
  BY <1>3 DEF Works
<1>5. work' \in [Devices -> SUBSET Works]
  BY <1>1, <1>4 DEF Exchange
<1>6. Underway'
  <2> SUFFICES ASSUME NEW e \in Devices, NEW w \in work'[e] PROVE Due(e, w, theirHello', myTag')
    BY DEF Underway
  <2>1. w \in work[e] \/ (e = d /\ w = <<"tag", n, theirHello[<<d, n>>]>>)
    BY <1>1 DEF Exchange
  <2>2. CASE w \in work[e]
    BY <1>2, <2>2 DEF Exchange, Underway
  <2>3. CASE e = d /\ w = <<"tag", n, theirHello[<<d, n>>]>>
    BY <1>3, <2>3 DEF Due
  <2>4. QED
    BY <2>1, <2>2, <2>3
<1>7. Held'
  BY <1>2 DEF Held, Exchange
<1>8. Carried(down, myTag)'
  BY <1>2 DEF Exchange
<1>9. QED
  BY <1>2, <1>5, <1>6, <1>7, <1>8 DEF Exchange

\* A tag that is sent vouches for its sender: the messages and the continuations
\* that need one never lose it.
LEMMA TaggedVouches ==
  ASSUME Typed, Exchange, NEW d \in Devices, Tagged(d)
  PROVE  /\ myTag' \in [Hellos -> Tags \union {None}]
         /\ \A e \in Devices : Vouched(e, myTag) => Vouched(e, myTag')
         /\ \A y \in Hellos : myTag'[y] # None =>
              \E z \in Hellos : z[1] # y[1] /\ myTag'[y] = Tag(y, z)
<1>1. PICK n \in Attempts, h \in Hellos :
        <<"tag", n, h>> \in work[d] /\ myTag' = [myTag EXCEPT ![<<d, n>>] = Tag(<<d, n>>, h)]
  BY DEF Tagged
<1>2. h[1] # d /\ <<d, n>> \in Hellos
  BY <1>1, Counted DEF Exchange, Underway, Due
<1>3. myTag' \in [Hellos -> Tags \union {None}]
  BY <1>1, <1>2 DEF Exchange, Tags
<1>4. myTag'[<<d, n>>] = Tag(<<d, n>>, h) /\ \A y \in Hellos : y # <<d, n>> => myTag'[y] = myTag[y]
  BY <1>1, <1>2 DEF Exchange
<1>5. \A e \in Devices : Vouched(e, myTag) => Vouched(e, myTag')
  <2> SUFFICES ASSUME NEW e \in Devices, NEW y \in Hellos, NEW z \in Hellos,
                      y[1] # e, z[1] # y[1], myTag[y] = Tag(y, z)
               PROVE  Vouched(e, myTag')
    BY DEF Vouched
  <2>1. CASE y = <<d, n>>
    <3>1. myTag'[y] = Tag(y, h) /\ h[1] # y[1]
      BY <1>2, <1>4, <2>1
    <3>2. QED
      BY <3>1 DEF Vouched
  <2>2. CASE y # <<d, n>>
    BY <1>4, <2>2 DEF Vouched
  <2>3. QED
    BY <2>1, <2>2
<1>6. ASSUME NEW y \in Hellos, myTag'[y] # None
      PROVE  \E z \in Hellos : z[1] # y[1] /\ myTag'[y] = Tag(y, z)
  <2>1. CASE y = <<d, n>>
    BY <1>2, <1>4, <2>1
  <2>2. CASE y # <<d, n>>
    BY <1>4, <1>6, <2>2 DEF Exchange, Held, HeldTrue
  <2>3. QED
    BY <2>1, <2>2
<1>7. QED
  BY <1>3, <1>5, <1>6

LEMMA TaggedSound ==
  ASSUME Typed, Exchange, NEW d \in Devices, Tagged(d)
  PROVE  Exchange'
<1>1. /\ myTag' \in [Hellos -> Tags \union {None}]
      /\ \A e \in Devices : Vouched(e, myTag) => Vouched(e, myTag')
      /\ \A y \in Hellos : myTag'[y] # None =>
           \E z \in Hellos : z[1] # y[1] /\ myTag'[y] = Tag(y, z)
  BY TaggedVouches
<1>2. PICK n \in Attempts, h \in Hellos :
        /\ <<"tag", n, h>> \in work[d]
        /\ myTag' = [myTag EXCEPT ![<<d, n>>] = Tag(<<d, n>>, h)]
        /\ \/ /\ down' = down
              /\ work' = [work EXCEPT ![d] = @ \ {<<"tag", n, h>>}]
           \/ /\ down' = Relayed(d, Confirm(Tag(<<d, n>>, h)), down)
              /\ work' = [work EXCEPT ![d] = (@ \ {<<"tag", n, h>>})
                            \union Check(<<d, n>>, theirHello[<<d, n>>], theirTag[<<d, n>>])]
  BY DEF Tagged
<1>3. h[1] # d /\ <<d, n>> \in Hellos
  BY <1>2, Counted DEF Exchange, Underway, Due
<1>4. UNCHANGED <<theirHello, theirTag, sentHello>>
  BY DEF Tagged
<1>5. Carried(down, myTag')
  BY <1>1, CarriedGrows DEF Exchange
<1>6. Carried(down', myTag')
  <2>1. myTag'[<<d, n>>] = Tag(<<d, n>>, h)
    BY <1>2, <1>3 DEF Exchange
  <2>2. /\ Confirm(Tag(<<d, n>>, h)) \in Messages
        /\ \A e \in Devices : e # d => Confirm(Tag(<<d, n>>, h)) \in May(e, myTag')
    BY <1>3, <2>1, ConfirmMay
  <2>3. Carried(Relayed(d, Confirm(Tag(<<d, n>>, h)), down), myTag')
    BY <1>5, <2>2, CarriedRelay
  <2>4. QED
    BY <1>2, <1>5, <2>3
<1>7. \A w \in Check(<<d, n>>, theirHello[<<d, n>>], theirTag[<<d, n>>]) :
        w \in Works /\ Due(d, w, theirHello, myTag')
  <2> DEFINE k == <<"check", n, theirHello[<<d, n>>], theirTag[<<d, n>>]>>
  <2> SUFFICES ASSUME theirHello[<<d, n>>] # None, theirTag[<<d, n>>] # None
               PROVE  k \in Works /\ Due(d, k, theirHello, myTag')
    BY DEF Check
  <2>1. /\ theirHello[<<d, n>>] \in Hellos /\ theirTag[<<d, n>>] \in Tags
        /\ HeldTrue(<<d, n>>, theirHello, theirTag, myTag)
    BY <1>3 DEF Exchange, Held
  <2>2. Vouched(d, myTag')
    BY <1>1, <2>1 DEF HeldTrue
  <2>3. k \in Works
    BY <2>1 DEF Works
  <2>4. QED
    BY <2>2, <2>3 DEF Due
<1>8. work' \in [Devices -> SUBSET Works]
  BY <1>2, <1>7 DEF Exchange
<1>9. Held'
  <2> SUFFICES ASSUME NEW y \in Hellos PROVE HeldTrue(y, theirHello', theirTag', myTag')
    BY DEF Held
  <2>1. HeldTrue(y, theirHello, theirTag, myTag) /\ y[1] \in Devices
    BY Counted DEF Exchange, Held
  <2>2. QED
    BY <1>1, <1>4, <2>1 DEF HeldTrue
<1>10. Underway'
  <2> SUFFICES ASSUME NEW e \in Devices, NEW w \in work'[e] PROVE Due(e, w, theirHello', myTag')
    BY DEF Underway
  <2>1. w \in work[e] \/ (e = d /\ w \in Check(<<d, n>>, theirHello[<<d, n>>], theirTag[<<d, n>>]))
    BY <1>2 DEF Exchange
  <2>2. CASE w \in work[e]
    <3>1. Due(e, w, theirHello, myTag)
      BY <2>2 DEF Exchange, Underway
    <3>2. QED
      BY <1>1, <1>4, <3>1, DueKeeps
  <2>3. CASE e = d /\ w \in Check(<<d, n>>, theirHello[<<d, n>>], theirTag[<<d, n>>])
    BY <1>4, <1>7, <2>3
  <2>4. QED
    BY <2>1, <2>2, <2>3
<1>11. Carried(down, myTag)'
  BY <1>6
<1>12. QED
  BY <1>1, <1>4, <1>8, <1>9, <1>10, <1>11 DEF Exchange

LEMMA CheckedSound ==
  ASSUME Typed, Exchange, NEW d \in Devices, Checked(d)
  PROVE  Exchange'
<1>1. PICK w \in work[d] :
        /\ w[1] = "check"
        /\ \/ work' = [work EXCEPT ![d] = @ \ {w}]
           \/ work' = [work EXCEPT ![d] =
                         (@ \ {w}) \union {<<"store", w[2], theirHello[<<d, w[2]>>][1]>>}]
  BY DEF Checked
<1>2. UNCHANGED <<down, theirHello, theirTag, myTag, sentHello>>
  BY DEF Checked, attemptVars
<1> DEFINE v == <<"store", w[2], theirHello[<<d, w[2]>>][1]>>
<1>3. v \in Works /\ Due(d, v, theirHello, myTag)
  <2>1. w[2] \in Attempts /\ <<d, w[2]>> \in Hellos /\ Due(d, w, theirHello, myTag)
    BY WorkTyped DEF Exchange, Underway
  <2>2. Vouched(d, myTag) /\ theirHello[<<d, w[2]>>] \in Hellos /\ theirHello[<<d, w[2]>>][1] # d
    BY <1>1, <2>1 DEF Due, Exchange, Held, HeldTrue
  <2>3. theirHello[<<d, w[2]>>][1] \in Devices
    BY <2>2, Counted
  <2>4. QED
    BY <2>1, <2>2, <2>3 DEF Works, Due
<1> HIDE DEF v
<1>4. work' \in [Devices -> SUBSET Works]
  BY <1>1, <1>3 DEF Exchange, v
<1>5. Underway'
  <2> SUFFICES ASSUME NEW e \in Devices, NEW u \in work'[e] PROVE Due(e, u, theirHello', myTag')
    BY DEF Underway
  <2>1. u \in work[e] \/ (e = d /\ u = v)
    BY <1>1 DEF Exchange, v
  <2>2. QED
    BY <1>2, <1>3, <2>1 DEF Exchange, Underway
<1>6. Held'
  BY <1>2 DEF Held, Exchange
<1>7. Carried(down, myTag)'
  BY <1>2 DEF Exchange
<1>8. QED
  BY <1>2, <1>4, <1>5, <1>6, <1>7 DEF Exchange

LEMMA StoredSound ==
  ASSUME Typed, Exchange, Trusted, NEW d \in Devices, Stored(d)
  PROVE  Exchange' /\ vault' \in [Devices -> SUBSET Devices] /\ Trusted'
<1>1. PICK w \in work[d] :
        /\ w[1] = "store"
        /\ vault' = [vault EXCEPT ![d] = @ \union {w[3]}]
        /\ work' = [work EXCEPT ![d] = @ \ {w}]
  BY DEF Stored
<1>2. UNCHANGED <<down, theirHello, theirTag, myTag, sentHello>>
  BY DEF Stored, attemptVars
<1>3. w[3] \in Devices /\ w[3] # d /\ Vouched(d, myTag)
  BY <1>1, WorkTyped DEF Exchange, Underway, Due
<1>4. Exchange'
  <2>1. work' \in [Devices -> SUBSET Works]
    BY <1>1 DEF Exchange
  <2>2. Underway' /\ Held'
    BY <1>1, <1>2 DEF Underway, Held, Exchange
  <2>3. Carried(down, myTag)'
    BY <1>2 DEF Exchange
  <2>4. QED
    BY <1>2, <2>1, <2>2, <2>3 DEF Exchange
<1>5. vault' \in [Devices -> SUBSET Devices]
  BY <1>1, <1>3 DEF Typed, TypeOK
<1>6. Trusted'
  <2> SUFFICES ASSUME NEW f \in Devices, NEW e \in vault'[f] PROVE e # f /\ Vouched(f, myTag')
    BY DEF Trusted
  <2>1. e \in vault[f] \/ (f = d /\ e = w[3])
    BY <1>1 DEF Typed, TypeOK
  <2>2. QED
    BY <1>2, <1>3, <2>1 DEF Trusted
<1>7. QED
  BY <1>4, <1>5, <1>6

\* Whatever else happens only carries, or loses, what is already under way.
LEMMA OtherExchange ==
  ASSUME Typed, Exchange, Carried(down', myTag), UNCHANGED <<attemptVars, work>>
  PROVE  Exchange'
<1>1. UNCHANGED <<theirHello, theirTag, myTag, sentHello, work>>
  BY DEF attemptVars
<1>2. Held' /\ Underway'
  BY <1>1 DEF Held, Underway, Exchange
<1>3. Carried(down, myTag)'
  BY <1>1
<1>4. QED
  BY <1>1, <1>2, <1>3 DEF Exchange

LEMMA ExchangeStep ==
  ASSUME Typed, Exchange, Trusted, [Next]_vars
  PROVE  Exchange' /\ vault' \in [Devices -> SUBSET Devices] /\ Trusted'
<1> DEFINE Goal == Exchange' /\ vault' \in [Devices -> SUBSET Devices] /\ Trusted'
<1>1. vault \in [Devices -> SUBSET Devices] /\ Carried(down, myTag)
  BY DEF Typed, TypeOK, Exchange
<1>2. ASSUME Exchange', vault' = vault, \A d \in Devices : Vouched(d, myTag) => Vouched(d, myTag')
      PROVE  Goal
  BY <1>1, <1>2 DEF Trusted
<1>3. ASSUME UNCHANGED <<attemptVars, work, vault>>, Carried(down', myTag) PROVE Goal
  <2>1. myTag' = myTag /\ vault' = vault
    BY <1>3 DEF attemptVars
  <2>2. Exchange'
    BY <1>3, OtherExchange
  <2>3. QED
    BY <1>2, <2>1, <2>2
<1>4. CASE Expire \/ UNCHANGED vars
  <2>1. UNCHANGED <<attemptVars, work, vault, down>>
    BY <1>4 DEF Expire, vars
  <2>2. QED
    BY <1>1, <1>3, <2>1
<1>5. ASSUME NEW d \in Devices,
             Pair(d) \/ GiveUp(d) \/ Aborted(d) \/ Lost(d) \/ ServerNotices(d)
      PROVE  Goal
  <2>1. UNCHANGED <<attemptVars, work, vault, down>>
    BY <1>5 DEF Pair, GiveUp, Aborted, Lost, ServerNotices
  <2>2. QED
    BY <1>1, <1>3, <2>1
<1>6. ASSUME NEW d \in Devices, Drop(d) PROVE Goal
  <2>1. UNCHANGED <<attemptVars, work, vault>> /\ down' = [down EXCEPT ![d] = <<>>]
    BY <1>6 DEF Drop
  <2>2. QED
    BY <1>1, <1>3, <2>1, CarriedEmpty
<1>7. ASSUME NEW d \in Devices, Begin(d) \/ Reconnect(d) PROVE Goal
  <2>1. UNCHANGED <<attemptVars, work, vault>> /\ (Join(d) \/ down' = down)
    BY <1>7 DEF Begin, Reconnect
  <2>2. QED
    BY <1>1, <1>3, <2>1, JoinSound
<1>8. ASSUME NEW d \in Devices, Hear(d) \/ Verified(d) \/ Checked(d) PROVE Goal
  <2>1. vault' = vault /\ myTag' = myTag
    BY <1>8 DEF Hear, Verified, Checked, attemptVars
  <2>2. Exchange'
    BY <1>8, HearSound, VerifiedSound, CheckedSound
  <2>3. QED
    BY <1>2, <2>1, <2>2
<1>9. ASSUME NEW d \in Devices, Tagged(d) PROVE Goal
  <2>1. vault' = vault
    BY <1>9 DEF Tagged
  <2>2. QED
    BY <1>2, <1>9, <2>1, TaggedSound, TaggedVouches
<1>10. ASSUME NEW d \in Devices, Stored(d) PROVE Goal
  BY <1>10, StoredSound
<1> HIDE DEF Goal
<1>11. ASSUME NEW d \in Devices, Pair(d) \/ GiveUp(d) \/ Drop(d) \/ Moves(d) PROVE Goal
  BY <1>5, <1>6, <1>7, <1>8, <1>9, <1>10, <1>11 DEF Moves, Crypto
<1>12. QED
  BY <1>4, <1>11 DEF Next, Goal

\* The sockets, the server's kind and alarm, and the bound on troubles.
LEMMA SocketStep ==
  ASSUME Typed, [Next]_vars
  PROVE  /\ net' \in [Devices -> {"ready", "dead", "off"}]
         /\ backend' \in {"hub", "object"} /\ aged' \subseteq Devices /\ troubles' \in 0..MaxTroubles
<1>1. net \in [Devices -> {"ready", "dead", "off"}] /\ backend \in {"hub", "object"} /\ aged \subseteq Devices
  BY DEF Typed, TypeOK
<1>2. troubles \in 0..MaxTroubles /\ MaxTroubles \in Nat
  BY Counted DEF Typed, TypeOK
<1> DEFINE Moved == /\ backend' = backend
                    /\ (aged' \in {aged, {}} \/ \E d \in Devices : aged' = aged \union {d})
                    /\ troubles' = troubles \/ (troubles < MaxTroubles /\ troubles' = troubles + 1)
                    /\ \/ net' = net
                       \/ \E d \in Devices, how \in {"ready", "dead", "off"} : net' = [net EXCEPT ![d] = how]
<1>3. ASSUME Expire \/ UNCHANGED vars PROVE Moved
  BY <1>3 DEF Expire, vars, serverVars
<1>4. ASSUME NEW d \in Devices, Pair(d) \/ GiveUp(d) \/ Begin(d) \/ Aborted(d) \/ ServerNotices(d)
      PROVE  Moved
  BY <1>4 DEF Pair, GiveUp, Begin, Aborted, ServerNotices
<1>5. ASSUME NEW d \in Devices, Drop(d) \/ Lost(d) \/ Reconnect(d) PROVE Moved
  BY <1>5 DEF Drop, Lost, Reconnect, serverVars
<1>6. ASSUME NEW d \in Devices, Hear(d) \/ Verified(d) \/ Tagged(d) \/ Checked(d) \/ Stored(d)
      PROVE  Moved
  BY <1>6 DEF Hear, Verified, Tagged, Checked, Stored, serverVars
<1> HIDE DEF Moved
<1>7. ASSUME NEW d \in Devices, Pair(d) \/ GiveUp(d) \/ Drop(d) \/ Moves(d) PROVE Moved
  BY <1>4, <1>5, <1>6, <1>7 DEF Moves, Crypto
<1>8. CASE Moved
  <2>1. net' \in [Devices -> {"ready", "dead", "off"}]
    BY <1>1, <1>8 DEF Moved
  <2>2. backend' \in {"hub", "object"}
    BY <1>1, <1>8 DEF Moved
  <2>3. troubles' \in 0..MaxTroubles
    BY <1>2, <1>8 DEF Moved
  <2>4. aged' \subseteq Devices
    BY <1>1, <1>8 DEF Moved
  <2>5. QED
    BY <2>1, <2>2, <2>3, <2>4
<1>9. Moved
  BY <1>3, <1>7 DEF Next
<1>10. QED
  BY <1>8, <1>9

LEMMA PairingInit == Init => PairingSound
<1> SUFFICES ASSUME Init PROVE PairingSound
  OBVIOUS
<1>1. Typed
  <2>1. IsFiniteSet({}) /\ Cardinality({}) = 0
    BY FS_EmptySet
  <2>2. QED
    BY <2>1, Counted DEF Init, Typed, TypeOK
<1>2. Ordered /\ LiveIsHeard
  BY Counted DEF Init, Ordered, InOrder, LiveIsHeard, Live
<1>3. Carried(down, myTag)
  BY DEF Init, Carried
<1>4. Held /\ Underway /\ Trusted
  BY DEF Init, Held, HeldTrue, Underway, Trusted
<1>5. QED
  BY <1>1, <1>2, <1>3, <1>4 DEF PairingSound, Exchange, Init

LEMMA PairingNext == PairingSound /\ [Next]_vars => PairingSound'
<1> SUFFICES ASSUME PairingSound, [Next]_vars PROVE PairingSound'
  OBVIOUS
<1>1. Typed /\ Ordered /\ LiveIsHeard /\ Exchange /\ Trusted /\ Carried(down, myTag)
  BY DEF PairingSound, Exchange
<1>2. /\ phase' \in [Hellos -> Phases]
      /\ owner' \in [Devices -> {0} \union Attempts] /\ joins' \in [Devices -> BOOLEAN]
      /\ Ordered' /\ LiveIsHeard'
  BY <1>1, AttemptStep
<1>3. /\ occ' \subseteq Devices \X {"present", "old"} /\ IsFiniteSet(occ') /\ Cardinality(occ') <= 2
      /\ refused' \in [Devices -> BOOLEAN]
  BY <1>1, RoomStep
<1>4. Exchange' /\ vault' \in [Devices -> SUBSET Devices] /\ Trusted'
  BY <1>1, ExchangeStep
<1>5. /\ net' \in [Devices -> {"ready", "dead", "off"}]
      /\ backend' \in {"hub", "object"} /\ aged' \subseteq Devices /\ troubles' \in 0..MaxTroubles
  BY <1>1, SocketStep
<1>6. owner' \in [Devices -> Nat]
  BY <1>2, Counted
<1>7. TypeOK'
  BY <1>2, <1>3, <1>4, <1>5, <1>6 DEF TypeOK, Phases, Exchange
<1>8. QED
  BY <1>2, <1>3, <1>4, <1>7 DEF PairingSound, Typed, Exchange

-----------------------------------------------------------------------------
(* Theorems. *)

\* PairingSound is an invariant: attempts follow one another, what travels or is
\* worked on was sent by the other device, and only that device is trusted.
THEOREM PairingInvariant == Spec => []PairingSound
<1>1. QED
  BY PairingInit, PairingNext, PTL DEF Spec

\* The variables keep their types, and the room never holds more than two, for any
\* number of drops and new attempts.
THEOREM TypeCorrect == Spec => []TypeOK
<1>1. PairingSound => TypeOK
  BY DEF PairingSound, Typed
<1>2. QED
  BY <1>1, PairingInvariant, PTL

\* An open attempt is the one that hears its room and rejoins it, whatever the
\* attempts before it still finish (client.js finish, pendingPairings).
THEOREM LiveCorrect == Spec => []LiveIsHeard
<1>1. PairingSound => LiveIsHeard
  BY DEF PairingSound
<1>2. QED
  BY <1>1, PairingInvariant, PTL

\* Whoever is in a vault has confirmed a hello of the vault's owner.
THEOREM MutualCorrect == Spec => []StoredIsMutual
<1>1. ASSUME PairingSound PROVE StoredIsMutual
  <2> SUFFICES ASSUME NEW d \in Devices, NEW e \in vault[d]
               PROVE  e # d /\ \E n, m \in Attempts : myTag[<<e, m>>] = Tag(<<d, n>>, <<e, m>>)
    BY DEF StoredIsMutual
  <2>1. e # d /\ e \in Devices /\ Vouched(d, myTag)
    BY <1>1 DEF PairingSound, Trusted, Typed, TypeOK
  <2>2. PICK y \in Hellos, z \in Hellos : y[1] # d /\ z[1] # y[1] /\ myTag[y] = Tag(y, z)
    BY <2>1 DEF Vouched
  <2>3. /\ y[1] \in Devices /\ z[1] \in Devices /\ y[2] \in Attempts /\ z[2] \in Attempts
        /\ y = <<y[1], y[2]>> /\ z = <<z[1], z[2]>>
    BY Counted
  <2>4. y[1] = e /\ z[1] = d
    BY <2>1, <2>2, <2>3, TheOther
  <2>5. myTag[<<e, y[2]>>] = Tag(<<d, z[2]>>, <<e, y[2]>>)
    BY <2>2, <2>3, <2>4 DEF Tag
  <2>6. QED
    BY <2>1, <2>3, <2>5
<1>2. QED
  BY <1>1, PairingInvariant, PTL
=============================================================================
