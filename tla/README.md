# SyncDrop in TLA+

SyncDrop moves files between paired devices without accounts: directly over a
WebRTC channel when both are awake, otherwise sealed through a relay. This
directory holds TLA+ models of its parts, the TLC configurations that check them
on small instances, and theorems about them checked by TLAPS. Names of state and
actions are those of the source wherever TLA+ allows it; `PROJECT.json` maps every
definition to the lines it stands for.

## 1. The system

| part | source | state | operations |
|---|---|---|---|
| transfer engine | `protocol/transfer.js`, `wire.js`, `digest.js`, `loopback.js`, `sources.js` | `outgoing`, `incoming`, `nextStreamId`, per entry a promise, a timer, `cancelled`; the `inbound` promise chain | `send`, `cancel`, `close`, one handler per message, the chunk pump, the offer timer |
| relay client | `protocol/relay.js`, `api.js` | none across calls: a position in an upload or a mailbox pass | `sendViaRelay`, `collectMailbox`, `withRetries` |
| client orchestrator | `protocol/client.js` | `connections`, `online`, `pendingPairings`, `collecting`, `collectAgain` | `send` with its fallback, `connect`, `routeSignal`, `collect`, `runPairing`, `start`, `stop` |
| signaling client | `protocol/signaling.js` | the socket and its generation, `watching`, `rooms`, timers | `open`, `lost`, `probe`, `wake`, `close`, one handler per message |
| WebRTC transport | `protocol/webrtc.js` | one attempt: offered, answered, open, finished | `start`, `handleSignal`, timers |
| pairing | `protocol/pairing.js`, `client.js` | the attempt per code | hello, confirm, abort |
| relay server | `server/core.js`, `node.js`, `store.js` | sockets, watchers, pair rooms; devices, mailboxes, blobs, push tokens | the Hub's messages, the HTTP endpoints, the sweep |
| Durable Objects | `server/worker/*.js` | per device: sockets, watchers, mail, token; per room: members; per blob: meta and tally | the same, spread over objects with alarms |
| push | `server/push.js`, `PushService.java` | the token | register, wake |
| app | `app/*.js`, `app/public/sw.js` | rows, shares, OPFS sinks | user interface |
| desktop shell | `src-tauri/src/*.rs` | open files, the share inbox, the naming engine | Tauri commands and threads |
| Android plugins | `android/.../*.java` | the share queue | Capacitor plugins |
| CLI | `cli/*.js` | the vault file, the engine, the model download | commands |
| identity, crypto, vault | `protocol/identity.js`, `auth.js`, `crypto.js`, `vault.js` | keys and the list of paired devices | pure functions, write-through |

How they interact. The client orchestrator owns one signaling socket, at most one
connection per peer, and the API client. A direct connection carries one transfer
session at each end; a `send` that fails on it, and was not declined, goes through
the relay, which stores parts in a blob and an envelope in the recipient's mailbox
and says so over the socket (or by a push). A `ready` socket, a mail notice, the
app starting or returning to the foreground all call `collect()`.

What is hard. Every handler is JavaScript that awaits: timers, user actions and other
messages run in between. Requests are lost with their effect applied. Devices are
suspended, killed and restarted. Sockets die without closing. Two devices offer, pair
and cancel at the same time. The `hazards` of `PROJECT.json` list these at their lines.

What makes each part correct, in short: what a sender is told is what happened at the
receiver, nothing moves without consent, every send ends (transfer engine); nothing
queued is forgotten, nothing is reported twice, uploads that fail leave nothing behind
(relay); both ends keep the same one of two crossing connections, and a fallback does
not disturb the other's (client, WebRTC); only the current socket speaks for the device,
and it always comes back (signaling); a device stores only a peer that has confirmed a hello
of its own, and two attempts that stay open meet (pairing); watchers end up knowing who is online (server); a blob's tally is that of its
parts (stores); no save overwrites another, no share is lost (shells).

## 2. The modules and the plan

| order | module | models | state |
|---|---|---|---|
| 1 | `TransferSession` | both ends of one channel | done, with `TransferSession_proofs` and `TransferOrder_proofs` |
| 2 | `RelayMailbox`, `RelayDelivery` | uploads, the mailbox, `collect()`, and the promise they implement | done, with `RelayMailbox_proofs` |
| 3 | `DirectConnection` | connections, glare, retry and fallback, over two clients and the server that passes their signals on | done, with `DirectConnection_proofs` |
| 4 | `Presence` | the signaling client's sockets and timers, with the device object at their other end | done, with `Presence_proofs` |
| 5 | `Pairing` | an attempt to pair at both devices, over the room of either server | done, with `Pairing_proofs` |
| 6 | `BlobStore` | an upload at the disk store and at the blob object, request by request | done, with `BlobStore_proofs` |
| 7 | `FileSink`, `ReceivedFiles`, `ShareQueue`, `PushToken`, `ModelDownload`, together in `App` | the stateful parts of the app and its shells | done, with `App_proofs` |
| 8 | the naming engine of `llama.rs`, two processes on one vault | | open |

`MCTransferSession`, `MCRelayMailbox`, `MCDirectConnection`, `MCPresence`, `MCPairing` and `MCApp` give TLC concrete
files, devices, sends and sizes. The modules meet at their edges: what `DirectConnection` calls sending on a link is a
`TransferSession`, and what it calls falling back is an upload of `RelayMailbox`; its signaling socket is the
one of `Presence`; the store that `RelayMailbox` takes to be atomic is taken apart in `BlobStore`; a sink that
`TransferSession` opens and closes is a `FileSink`, and the file it leaves begins in `ReceivedFiles`. Modules that are
proved about declare no recursive operator and name their assumptions. Abstract
specifications worth stating: `RelayDelivery` (done), an atomic blob store that `BlobStore` implements where its parts
are sound. Theorems worth proving next: that refinement, and more action properties of the transfer engine and of the
signaling client on top of the invariants of section 9.

## 3. TransferSession

Two sessions `A` and `B` at the ends of an ordered channel; a *file* is one call of
`send()`. `outgoing`, `incoming`, `nextId` and `closed` are the variables of
`createTransferSession`; `stream`, `promise`, `timer`, `cancelled`, `pump` and `next`
are the entry of a file and its `pumpChunks`; `wire` is the channel, `inbound` the
promise chain behind `onMessage`, and `handling` the one handler of a session that is
awaiting. Per file the model records what its receiver did with it: the chunks its
digest has seen, those its sink stored, the sink's state and the events reported.

A handler that awaits (an offer, `done`, a `cancel` or `error` of an arriving file) is
two actions, `BeginHandling` and its end, and keeps what it looked up in the first half,
as the code's local variables do. Each end may fail where the sink can throw. `seen` is
acted on at once, ahead of the chain. `close()` closes session and channel together, as
every caller does, and may lose what was still to be delivered.

Data: a chunk is the file and its index; a digest is the set of chunks seen; the
digests agree when that set is the file's contents. Offers carry the file they describe.
An empty file has one chunk, as `chunkCount` has it. Ids wrap at `MaxStreamId`.

| run | shows | instance |
|---|---|---|
| `transfer_cross` | `ResolvedMeansComplete`, `DeclinedMeansRefused`, `OnlyAcceptedBytesTravel`, `NoSpuriousMismatch`, `EndsOnce`, `StoredUnlessFault` | a file each way at once (two chunks, one chunk), one fault, cancel, timeout, close at any time |
| `transfer_wrap` | `TypeOK`, `EntryIsPending` | two files the same way and a single stream id, reused at once |
| `transfer_settles` | `SendSettles`, `SinksEnd` | two files the same way, one fault, fair |
| `transfer_write_fault` | `CompleteIsStored` fails: a write that throws leaves a hole in a "complete" file | one fault |

Bounds. Two files are enough for two streams to be confused, crosswise and in one
direction; two chunks for a chunk to be overtaken by `done` or a cancel; one fault at any
operation shows every error path. The channel is not bounded: its length follows from the
files. The deadlock check is off because the system stops when everything is settled.

Fairness (`FairSpec`). The event loop runs queued callbacks, the channel delivers what it
accepted, a pump goes on, an armed timer fires, the host answers an offer (the app does so
by itself), and an end learns that the far end closed. Nobody has to send, cancel or close.
`SendSettles` excepts what the code leaves open: sends withdrawn by `cancel()`, and a
receiver whose sink failed, which answers nothing.
Both properties are checked for files in one direction. With a file each way `SendSettles` holds as well, but
`SinksEnd` does not: the confusion of section 10 takes the sender's entry away and leaves the
receiver's sink open until the session closes.

## 4. RelayMailbox

Any number of uploads to one recipient. `phase`, `sendNext`, `sendTries` are the position of
each `sendViaRelay`; `blob`, `parts`, `expired`, `mail` the server's records; `notice` the
mail message on its way over the socket; `pass`, `again`, `todo`, `current`, `stage`, `got`,
`gotTries` the position of `collect()` and the pass it makes; `copies`, `collected`,
`discarded` what the recipient has done.

A request is `Answered`, `Refused` or `Lost`. A lost one may or may not have reached the
server: it may join `late`, from where `LateArrival` applies it at any later time, so an
answer lost after its effect, and a request that turns up long after its caller moved on,
are both covered. Only parts are retried; the other calls are made once, as in the code. The
creation of the blob is outside the `try`, and its failure deletes nothing. The mailbox takes an
envelope without looking at its blob. A crash of the recipient loses the pass, and an ack under
way may still arrive. The order of entries is left open, which the properties do not depend on.
A server error (status 500 and above) is a lost request; a full mailbox is a lost `sendMail`
that never arrives.

`RelayDelivery` is the promise: one verdict per upload, any number of stored copies, at most
one report, after a copy, and no copy after the report.

| run | shows | instance |
|---|---|---|
| `relay_lossy` | `TypeOK`, `GoneIsStored`, `SentIsKept`, `CollectedOnce`, `ImplementsDelivery` | one upload of two parts, two attempts, three losses, a crash, a fault |
| `relay_fair` | `SentIsStored`, `SendEnds` | two uploads, no losses (so no retries, which `relay_lossy` has), refusals, expiry and a crash, fair |

Bounds. Three losses cover a part that exhausts two attempts and one more request of any kind;
one crash the window between storing and acking; two uploads the interplay within a pass. That losses,
crashes and several uploads do no harm together is what the theorems of section 9 add.

Fairness. A request ends, a pass goes on, a notice is heard unless the socket drops, the socket
reconnects (`signaling.js` retries for ever) and the app is opened again. Sends need not begin.
`SentIsStored` is checked without losses: with one, a listing or a part that fails leaves the mail
until the next reason to collect, which nothing guarantees.

## 5. DirectConnection

Two devices, any number of sends. `conn[d]` is the entry of the other device in `connections`;
`stage[d][k]` stands for the transport and session of link `k` at `d`, from `createOffer` to `close`.
A link is named after the send that dialled it: `sendDirect` retries only what reused a
connection, so a send dials at most once. `handling` holds the `start` and
`handleSignal` calls that are awaiting, with the entry they looked up before; `sock`, `known` and
`inbox` are a device's socket, what the server knows of it, and what the server has sent to it;
`online` is the set of that name; `status`, `using` and `retry` are the position of a `send()`.

`send()` is `SendDirect` or `SendByRelay`, then `Routed` (the link is ready and its route known),
`Accept`, `Decline`, `Finish` or `SendFails` for what its session does, and `Retry` or `FallBack`.
`routeSignal` and the transport are `ReceiveOffer`, `ReceiveAnswer`, `ReceiveNoDirect` and the ends
of what they await, `Started`, `Answered`, `Taken`. `Open`, `FailsToConnect` and `ChannelLost` are the
channel's callbacks and the timers; `SocketLost`, `ServerNotices`, `Reconnect` and `ReceivePeer` the
signaling socket and presence.

Two details carry the weight. A rejected promise runs its reactions before the next message or timer:
`Reacting(d)` keeps every other action of `d` back until a send that heard of its failure has retried
or fallen back. A send that awaits a link hears of its end only when `start()` has ended
too, so a link closed while its offer is being made leaves its send waiting a little longer (`Starting`).
An answer does not name the offer it is for: `Taken` hands it to whichever connection the map held when
it arrived, and a link that took another's answer (`"crossed"`) never opens.

Abstracted: ICE candidates and the route, which change no state the properties tell apart; what the
sessions do to a file, here only its outcome; signatures, which verify. Both devices are paired and stay so.

| run | shows | instance |
|---|---|---|
| `direct_links` | `TypeOK`, `OneLink`, `NobodyWaits`, `SendEnds`, `HalfOpenEnds` | a send each way, with or without WebRTC at either device, one socket drop, one quiet link, fair |

Bounds. A send each way is what glare, a reused connection and a retry need; one drop and one
quiet link put every loss at every moment of these. The theorems hold for any number of each. The deadlock
check is off because the system stops when the sends have ended.

Fairness. Awaits end, timers fire (an offer is answered or given up, a connect times out), the server
delivers in order, a channel that can open opens, a closed or quiet channel is noticed (its `onclose` or
the connection state), an accepted transfer goes on, and the socket comes back. No send has to begin, and
nothing has to go wrong.

## 6. Presence

One device: its signaling client and the object that keeps its sockets. A socket is named after the
generation the client opened it under; `gen`, `socket`, `ready`, `closed`, `pong`, `waiting` are the
variables of `createSignalingClient`, `conn` the `readyState` of its ends, `building` the handshakes
`handle()` is still signing. `at` is the object's end of a socket, `verifying` and `sweeping` its
`handleAuth` calls that are awaiting, `alarm` the storage alarm, `told` what a watcher of the device
believes. Challenges, answers, pings and closings travel; the network spoils up to `MaxFaults` sockets,
which it then delays, drops or fails, and the host calls `wake()` or `close()` up to `MaxCalls` times.

| run | shows | instance |
|---|---|---|
| `presence` | `TypeOK`, `ClientSound` (one socket, ready only on the one that was proven, nobody who connected before `close()` waits on a client that is closed, or ready on an open socket), `ObjectSound` (a sweep is set while a socket is proven; a departure is told), `Reconnects`, `ZombiesGo` | one spoilt socket, one call, fair |

Who waits. `waiting` says what the client was, open or closed, when a `connect()` that has not settled was called. The
code flushes its list when the client becomes ready and when it is closed, and in two cases does not. `connect()` on a
closed client queues a caller whom only one more `close()` tells (`signaling.js:200-204`; `open()` returns at `:168`).
A `ready` handled on a socket that is closing by then throws in `send()`, where there is something to re-assert, before
the list is flushed (`:129-130`, `:136`); those who wait are told by the next socket. `ClientSound` states what is left,
and `Reconnects` that the second kind is told in the end.

Bounds. The run has one call of `wake()` or `close()`; `connect()` is not bounded, so a closed client is connected to as
well, and only a second `close()` is left to the theorem. A socket that replaces another, of which either is spoilt or given up by the host at any step,
is every pair of generations the code compares; five generations follow from the two bounds. The deadlock check
is off because a client in order does nothing.

Fairness. A network carries what is sent on a socket it did not spoil, awaits return, close events
come, timers and alarms fire. The steps of `Progress` are under one weak fairness: a behaviour takes
only finitely many of them (the bounds limit sockets, challenges and answers), so one of them cannot keep
another back for ever, and it is the same as a condition for each. Faults and calls are never owed.

## 7. Pairing

Two devices whose users typed the same code, over `core.js`'s room of connections or `room.js`'s room of
device ids (`backend`). An attempt is one call of `runPairing`; `phase`, `theirHello`, `theirTag`, `myTag` and
`sentHello` are its local state, `owner` the `pendingPairings` entry, `joins` the signaling client's `rooms`.
`handle()` is not serialised: each `await` of it is a continuation in `work`. `net` is a device's socket:
ready, dead without the device's knowing, or off. A hello is its device and attempt; a tag is the
pair of hellos it covers, so a wrong tag is one for another transcript. `aged` are the devices whose open attempt is
older than the room's alarm, ten minutes, which a rejoin by the same device does not renew (`room.js:54-62`).

| run | shows | instance |
|---|---|---|
| `pairing` | `TypeOK`, `StoredIsMutual`, `LiveIsHeard`, `NobodyStuck`, `LeftRoomIsFreed` | both backends; one trouble, which is a device that starts over or a socket that dies, at any moment; fair |

Bounds. One trouble makes one attempt meet an older one's messages, room entry or continuations; both devices
may give up at any time. Two troubles together are not visited; the theorems cover any number. One thing needs more: a
room whose alarm frees it under two aged attempts, which leaves both members waiting for a peer until they give up.

Assumptions. Attempts of a device begin in the order they were asked for. The room object delivers in
order, as the Hub does. The devices are two, so a third who types the code is left out, and a timeout is a
`GiveUp`. That the Hub on node learns of a dead socket rests on TCP, since its heartbeat only pings
(`node.js:152-154`); `LeftRoomIsFreed` needs that. `NobodyStuck` excepts a device that was told the room is full, which the code reports to its user.

Fairness. The network carries what it is given, a dead socket is found out and replaced, awaits return, the
room's alarm fires; nobody has to pair, cancel or drop.

## 8. The stores and the app

`BlobStore` is one sender and one blob, at the disk store or at the blob object. A request its sender gave up
goes on at the server, so a retry overlaps it. `stage` and `copy` are a part request's position and the record
it read: the disk store rewrites `meta.json` from that copy; the object counts a part under a mark
(`counted`), apart from the bytes in KV. Faults: a request given up, a server that ends, the expiry. A part route
that throws is caught by nobody and ends the Node server (`ended`). Writes of `meta.json` are a temporary file and
a rename, hence read whole. A removal on disk lists the directory, unlinks what it listed, one file a step, and
removes the directory, which fails when something was written meanwhile (`removing`, `listed`, `dir`, `torn`): `remove()`
swallows that, the sweep ends the server with it. The temporary file can be unlinked under a write. The object deletes
a blob's bytes in KV in one step and its own record in another. A removal that finds another under way lists again.

| run | shows | instance |
|---|---|---|
| `storage` | `TypeOK`, `CountIsBacked`, `SoundWithoutFaults`, `OrphansGo` | both stores, two parts, two attempts, three faults, fair |
| `app` | `ArrivedIsKept`, `ShareIsKept`, `RegisteredIsHeld`, `BytesAreExact` | see below |
| `saves_mixed` | `SavedIsWhole` fails: two files of one name are saved through one `.part` file | two files, one name |

Fairness of `storage`: requests are worked on, the sweep and the alarm come, KV expires what it was told to.
`SoundWithoutFaults` holds on disk only without faults: a part that is stored late rewrites `meta.json` with a stale
copy, and the upload is then refused as incomplete although all its parts are there. `CountIsBacked` speaks of records no
removal has touched. `OrphansGo` excepts `torn`, a disk removal that failed or was cut short: the directory then has a part
and no `meta.json`, and every sweep skips it (`store.js:274-275`), or `meta.json` without its parts. `GoneInAnyCase` (section 10) is the property without the exception.

`FileSink` is the sink of a browser (OPFS) or of a directory, whose chunks come in any order and which
`transfer.js`'s `close()` may abort at any moment; `batch`, `batchStart` are its variables, `flush` the write under way.
A byte is its position in the file. `ReceivedFiles` is the desktop page with its rows and history, the staged
bytes, the saves and the shell's `files.rs`: `temp` and `final` are the directory, `content` what a file holds,
`handle` the file a save writes, which on this system may be the one another save created. `ShareQueue`
is the shell's inbox (drained on the desktop, listed until released on the phone), the page's start and its notices, and
`state.pending`. `PushToken` numbers the tokens Firebase gives and the registrations of the page. `ModelDownload` is
`fetchModels` with its `.part` files, on a server that may or may not honour a range.

These five share no state. `App` instantiates them, and a behaviour follows one of them (`follows`): the states
checked are their sum. Instance of `app`: a file of seven bytes in chunks of two and batches of four; two received files and
two names, a Save button pressed for one, two slices, two reloads or failed writes; two shares with two reloads or failed takes; three
tokens with two failed requests, drops or restarts; model files of three and two bytes with three breaks or
kills. These let every chunk order, both kinds of flush, two saves, a reload at every step, and a rotation
that crosses a restart and a wake happen. No liveness is stated of them: nothing forces a user to send or to save.

What these properties except, because the code does so:
- `ArrivedIsKept`: rows the user cleared. Clearing the list while a file is still being saved releases its bytes, and the
  file is lost. Also two saves that chose one path (`saves_mixed`).
- `ShareIsKept`: on the desktop what the page held when it reloaded, and what was cleared. A file whose send failed:
  `sendTo()` marks its row failed and closes its source, so that it must be shared again (`main.js:392-405`, `failed`). On the
  phone a second share lists the first again, which is queued twice; whichever is sent later finds its source released
  and fails. A take that fails is answered with no files (`host.js:134`); on the phone, and on the desktop when the call did not
  reach the shell, they stay with the shell until the next notice.
- `RegisteredIsHeld`: an older registration that arrives after a later one (`overtaken`), and a wake of an older token,
  answered "gone", that erases the one registered meanwhile (`forgot`, `core.js:242`).
- `BytesAreExact`: a sink in a directory that is aborted between the digest and its own close is renamed without its last
  batch (`nodeio.js:122`); the property speaks of sinks that were not aborted.

Simplifications. A send from the queue is one step. A desktop take that fails has taken nothing. A path that no longer exists, which
`inbox_take` leaves out, is not shared. After a reload the staged bytes of `ReceivedFiles` are files in OPFS that no row leads to
(`sinks.js:180-186`), and the sink in memory, for a browser without OPFS (`sinks.js:107-110`), is left out. Writes of `FileSink` do
not fail; `TransferSession` has sinks that do. One run of `fetchModels` at a time. A desktop share that comes
between the page's first take and its listener is announced with the next one. The Save button of a desktop row whose
bytes were released cannot work; it is pressed at most once a file.

## 9. What is proved

`TransferSession_proofs`, for any files, chunks and faults. `TypeCorrect` holds for any number of
stream ids, wrapped and reused ones included. The safety theorems assume `NoWrap`, more stream ids
than files: with 65535 sends outstanding or a wrap onto an id whose late answers are still under way,
an ack may be taken for another file's. The inductive invariant `AnswersTrue` says that the ids of a
session's files are distinct and ordered, that the maps hold each file under its own id, that
every message under way names the file its id stands for and tells the truth about it, and that a pump
runs only for a file whose receiver has opened a sink. `ResolvedCorrect`, `DeclinedCorrect` and
`AcceptedCorrect` follow from it. `ResolvedMeansComplete` is not inductive alone: an ack under way has
to be known to be true before it is read.

`RelayMailbox_proofs`, for any uploads, parts, attempts, losses, crashes and faults. `RelayInv` is about
`late`: a late create or delete belongs to an upload given up, a late `mail` to one whose envelope never
arrived, a late ack to an entry that was stored or discarded; what is announced is complete, and a pass
works only on entries not yet collected. From it follow `GoneCorrect`, `SentCorrect`, `CollectedCorrect`
and, with a step lemma per action, `Refinement`: the relay path implements `RelayDelivery`.

`DirectConnection_proofs`, for any sends of two devices, drops and quiet links. `LinkInv` joins `OneLink`
and `NobodyWaits` with `UsesTheMap`, a send that dials or sends does so on the connection its device's map
holds. Neither of the first two is inductive without it: a step that drops the map's connection must be known
to reach everyone who depends on it. `OneLinkCorrect` and `NobodyWaitsCorrect` follow, `TypeCorrect` adds that
nobody is offered a link it dialled itself.

`TransferOrder_proofs` goes on from `AnswersTrue` to what the order of the channel gives. `AnswersTrue` says which
messages are under way; `OrderKept` says what is *ahead* of each: an offer is made once; a chunk, or `done`, comes with
every earlier chunk of its file in the digest or in front of it, on the wire or in the handlers' queue; a handler that
awaits `done` has seen all; a file has one outcome. That is why `done`, which is sent without a look at `cancelled`,
never turns a cancel into a mismatch (`NoMismatchCorrect`), why a file ends in one way (`EndsOnceCorrect`), and why a
file reported complete without a fault is stored in full (`StoredCorrect`). These assume `NoWrap`. `EntriesInvariant`
and `EntriesCorrect` do not: whatever settles a send frees the id of that very send, also when the handler that settles
it found its entry before it awaited the sink.

`BlobStore_proofs`, for any parts, attempts and faults. `CountIsBacked` is not inductive, because the disk store writes
back what a request *read*: `Backed` says of every request what its copy of the record may hold, and
`Counting` that the object's tally is the number of its marks, both of a record that `Stands`; `Kinds` tells the stores
apart while a removal is under way. `Smooth` describes the one request under way on a disk where nothing went wrong,
its removal after the last request included, and gives `StoreCorrect`.

`Presence_proofs`, for any number of spoilt sockets and calls. `ClientKnows` relates the client's generation to the
socket in use, the retry it owes and the traces of former sockets (a generation not yet taken has none, `ready`
travels only on a socket that was proved), and bounds the generation by what the network and the host did. `ClientCorrect`
and `ObjectCorrect` need it: a message that arrives must be known to belong to the socket it is taken for.

`Pairing_proofs`, for any number of attempts and drops. `PairingSound` says that attempts of a device follow one another,
that what travels to a device was never its own, and that a confirmation travels, is checked, or waits for the vault only
once the other device has confirmed a hello (`Vouched`). `MutualCorrect` is what is left of that at the vault; `LiveCorrect`
says that the attempt that is open is the one the room's messages reach, whatever its predecessors still finish.

`App_proofs`, for any files, shares, tokens, sizes, slices and faults, one invariant per part, joined in `PartsSound`.
- `FilesSound`: a file on disk is named for the save that created it and stays at its path; a save that does not clash is
  alone with its `.part` and has written what it counted; rows and history name only copies that are whole. It
  rests on the fact that `unique_path()` always finds a free name, since the saves are fewer than the numbered names it tries.
- `SharedSound`: each share has been sent, dropped or has failed, or is still with the shell; on the desktop, whose shell gives
  it away, it is instead at one place of shell, answers, queue or a send under way, and never both sent and failed.
- `PushSound`: the bridge gives tokens in order and its one answer agrees with the event before it; registrations are numbered
  apart; the latest is under way, held, overtaken or forgotten.
- `NamerSound`: a `.part` is the beginning of its file, and what is being read continues it.
- `SinkSound`: only runs of the file are gathered and written, and what has come is on disk, gathered, or in the chunk that waits.

Assumptions: `TransferAssumption`, `RelayAssumption`, `DirectAssumption`, `PresenceAssumption`, `PairingAssumption`,
`BlobAssumption`, and in `App` `ShareAssumption`, `SinkAssumption`, `PushAssumption`, `NamerAssumption` and
`FileAssumption`. They ask for finite sets of files and devices, bounds that are natural numbers, chunks and files that
are not empty, and a `None` that is no value of the rest; TLC evaluates each in every run of its module.

Every invariant of a passing run is proved, and so is the refinement; the type invariant of `App` is proved, and not
part of its run. Only model-checked are the liveness properties, since
TLAPS does no liveness under fairness here: `SendSettles`, `SinksEnd`, `SentIsStored`, `SendEnds`, `HalfOpenEnds`,
`Reconnects`, `ZombiesGo`, `NobodyStuck`, `LeftRoomIsFreed`, `OrphansGo`. The two properties that fail, `CompleteIsStored` and
`SavedIsWhole`, are TLC's as well.

## 10. Where the code and its words disagree

Two runs show it, `transfer_write_fault` and `saves_mixed`, and `findings` in `PROJECT.json` quotes the lines.
The modules state more such properties, which the code violates and no run checks; each has been seen to fail in TLC on an
instance as small as the runs of its module:

| definition | what happens | what the source says |
|---|---|---|
| `TransferSession!StreamsSeparate` | `cancel` and `error` look a stream id up in both directions (`transfer.js:330`), so one transfer's end ends another's | `wire.js:10` |
| `TransferSession!CloseSettles` | a send withdrawn by `cancel()` is out of `close()`'s reach (`transfer.js:430`) | `test/transfer.test.js:209` |
| `RelayMailbox!QueuedHasBlob` | an envelope outlives its expired blob and is collected in vain for ever (`store.js:120`) | `README.md:198` |
| `RelayMailbox!AgainHonoured` | a pass asked for during one whose listing throws is not made (`client.js:217`) | `TODO_log.md:58` |
| `BlobStore!GoneInAnyCase` | a part written while its directory is being removed keeps it from going, its `meta.json` is gone, and no later sweep looks at it (`store.js:274-276`) | `README.md:198` |
| `DirectConnection!GlareKeepsOne` | the fallback of the attempt that gave way drops the connection that took its place (`client.js:411`) | `client.js:126` |
| `Presence!OnlineIsAnnounced` | a device proven on a new socket is not announced while another of its sockets is unproven or closing (`device.js:250`) | `device.js:142` |
| `Pairing!NoFalseAlarm` | a confirmation of the exchange before is checked against the new one, and the user is told not to trust the connection (`client.js:321`) | `client.js:333` |

One more is a remark without a run: `host.js:118-119` says that a shell that writes to a file has nothing to sweep, yet on the
desktop a reload leaves in OPFS what arrived there and was not saved.

## 11. What is not modelled

Encryption, signatures and identifiers: honest devices' operations succeed, and names are model values.
Progress events, logging and layout. Two processes that share one vault, or that download one model. The naming engine of `llama.rs` (threads over
one lock and a child process). Limits on sizes and counts. Several devices watching one. Settings and layout of the page, the
service worker. Code that calls a platform and keeps no state (notifications, the foreground service, HTTP and
WebSocket plumbing).
