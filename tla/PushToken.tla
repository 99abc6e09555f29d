------------------------------ MODULE PushToken ------------------------------
(* The token by which the relay wakes a closed phone: the page registers it    *)
(* (main.js), the server keeps it (core.js, device.js), and a wake that         *)
(* Firebase answers "gone" makes the server forget it (core.js, push.js).       *)
EXTENDS Integers, Sequences

CONSTANTS
  MaxTokens,  \* bound on the tokens Firebase gives
  PushFaults  \* bound on failed requests, drops of the socket and restarts

VARIABLES
  live,       \* the app's token at Firebase; tokens are numbered
  asking,     \* host.pushToken() is not answered
  bridge,     \* answers and events on their way to the page
  token, registered, ready, \* pushToken, pushRegistered, state.status
  page,       \* number of the page's start
  requests,   \* registrations under way
  next,       \* number of the next registration
  store, stored, \* the server's token, and the number of its registration
  waking,     \* the token a wake has read, or 0
  forgot,     \* a wake made the server forget a token it had not pushed to
  overtaken,  \* a registration arrived after a later one
  pushFaults

phone == <<asking, bridge, token, registered, ready, page>>
server == <<store, stored, waking, forgot, overtaken>>
vars == <<live, phone, requests, next, server, pushFaults>>

Init ==
  /\ live = 1 /\ asking = TRUE /\ bridge = << >>
  /\ token = 0 /\ registered = FALSE /\ ready = FALSE /\ page = 1
  /\ requests = {} /\ next = 1
  /\ store = 0 /\ stored = 0 /\ waking = 0
  /\ forgot = FALSE /\ overtaken = FALSE /\ pushFaults = 0

Faults(n) == pushFaults + n <= PushFaults /\ pushFaults' = pushFaults + n

-----------------------------------------------------------------------------
(* The page. *)

\* registerPush() on the page's values as they are now.
RegisterPush(tok, done, up) ==
  IF tok # 0 /\ ~done /\ up
  THEN /\ registered' = TRUE /\ next' = next + 1
       /\ requests' = requests \union {[n |-> next, tok |-> tok, page |-> page]}
  ELSE registered' = done /\ UNCHANGED <<requests, next>>

\* The answer to host.pushToken(), or none.
Answer ==
  /\ asking
  /\ asking' = FALSE
  /\ \E tok \in {live, 0} : bridge' = Append(bridge, [event |-> FALSE, tok |-> tok])
  /\ UNCHANGED <<live, token, registered, ready, page, requests, next, server, pushFaults>>

\* Firebase replaces the token, and tells the app.
Rotate ==
  /\ live < MaxTokens
  /\ live' = live + 1
  /\ bridge' = Append(bridge, [event |-> TRUE, tok |-> live'])
  /\ UNCHANGED <<asking, token, registered, ready, page, requests, next, server, pushFaults>>

\* Slip: a new token does not count as unregistered.
Remembered(m) == registered

\* What is left of "registered" when the bridge has said m.
StillRegistered(m) == registered /\ ~m.event

OnPushToken ==
  /\ bridge # << >>
  /\ bridge' = Tail(bridge)
  /\ LET m == Head(bridge) IN
     /\ token' = IF m.tok = 0 THEN token ELSE m.tok
     /\ RegisterPush(token', StillRegistered(m), ready)
  /\ UNCHANGED <<live, asking, ready, page, server, pushFaults>>

Ready ==
  /\ ~ready
  /\ ready' = TRUE
  /\ RegisterPush(token, registered, TRUE)
  /\ UNCHANGED <<live, asking, bridge, token, page, server, pushFaults>>

Dropped ==
  /\ ready /\ Faults(1)
  /\ ready' = FALSE
  /\ UNCHANGED <<live, asking, bridge, token, registered, page, requests, next, server>>

Restart ==
  /\ Faults(1)
  /\ page' = page + 1
  /\ asking' = TRUE /\ bridge' = << >> /\ token' = 0 /\ registered' = FALSE /\ ready' = FALSE
  /\ UNCHANGED <<live, requests, next, server>>

-----------------------------------------------------------------------------
(* The server. *)

\* POST /api/push; its answer may be lost.
Registration(r) ==
  /\ requests' = requests \ {r}
  /\ \/ /\ store' = r.tok /\ stored' = r.n
        /\ overtaken' = (overtaken \/ r.n < stored)
        /\ \/ UNCHANGED <<registered, pushFaults>>
           \/ Faults(1) /\ registered' = (registered /\ r.page # page)
     \/ /\ Faults(1) /\ registered' = (registered /\ r.page # page)
        /\ UNCHANGED <<store, stored, overtaken>>
  /\ UNCHANGED <<live, asking, bridge, token, ready, page, next, waking, forgot>>

\* wake(): the token is read, pushed to, and forgotten if Firebase says it is gone.
Wake ==
  /\ waking = 0 /\ store # 0
  /\ waking' = store
  /\ UNCHANGED <<live, phone, requests, next, store, stored, forgot, overtaken, pushFaults>>

Woken ==
  /\ waking # 0
  /\ waking' = 0
  /\ \/ waking # live /\ store' = 0 /\ forgot' = (forgot \/ store # waking)
     \/ UNCHANGED <<store, forgot>>
  /\ UNCHANGED <<live, phone, requests, next, stored, overtaken, pushFaults>>

Next ==
  \/ Answer \/ Rotate \/ OnPushToken \/ Ready \/ Dropped \/ Restart
  \/ \E r \in requests : Registration(r)
  \/ Wake \/ Woken

Spec == Init /\ [][Next]_vars

-----------------------------------------------------------------------------
(* Properties. *)

Tokens == 0..MaxTokens

TypeOK ==
  /\ live \in Tokens /\ token \in Tokens /\ store \in Tokens /\ waking \in Tokens
  /\ {asking, registered, ready, forgot, overtaken} \subseteq BOOLEAN
  /\ bridge \in Seq([event : BOOLEAN, tok : Tokens])
  /\ requests \subseteq [n : Nat, tok : Tokens, page : Nat]
  /\ page \in Nat /\ next \in Nat /\ stored \in Nat
  /\ pushFaults \in 0..PushFaults

\* A page that takes its live token to be registered is right, once its requests
\* are done, unless a wake of an older token made the server forget this one or
\* an older registration came after it.
RegisteredIsHeld ==
  registered /\ token = live /\ requests = {} => store = token \/ forgot \/ overtaken
=============================================================================
