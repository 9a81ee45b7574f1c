# A TLA+ model of Mercury

Mercury lets people's *profiles* find and talk to each other through *home nodes*.
This directory specifies the part of it that is hard to test: what happens when
requests, sessions, streams, timers, lost messages and restarts interleave. It holds TLA+
modules, the TLC configurations that check them on small instances, and TLAPS
proofs of their central properties. `PROJECT.json` maps every definition to the
source lines it models.

    tlc -workers 2 -config MCHomeServer.cfg MCHomeServer     # a run
    tlapm HomeServerProofs.tla                               # its proofs

## The system

Everything runs on single-threaded `tokio-core` reactors, one in each process.
There are no data races. The concurrency is between *tasks*: a request is a chain
of futures, and other tasks run between its links.

| Component (source) | State | Operations | What makes it correct |
|---|---|---|---|
| Hosted profiles (`home-node/src/server.rs`, `storage/src/async`) | file store of hosted profiles, in-memory DHT of public ones | register, update, unregister, restart | both stores tell the same; nothing unregistered comes back; nothing hosted is overwritten |
| Session registry (`server.rs`) | map from profile to a weak reference to its session | login, drop of a session, pair_request, pair_response | a live session is found; events reach their recipient and are not dropped silently |
| Session sinks (`server.rs`) | a Vec, or the sender of a channel; handover and warning tasks | push_event, push_call, events, checkin_app | nothing accepted is lost, doubled or stuck at the switch from Vec to channel or from one channel to the next |
| Calls (`server.rs`, both files of `mercury_capnp`) | a Call with a oneshot for its answer; two timers; a loop that offers call after call | call, checkin_app, answer | every caller gets a result, and the right one; no call blocks the line |
| Messages of a call (`mercury_capnp/mod.rs`, `connect/src/sdk.rs`) | three channels and two forwarding tasks each way | fwd_appmsg, AppMessageDispatcher, Contact::call | all messages arrive, in order, and so does the end |
| RPC dispatcher and proxy (`home-protocol/src/mercury_capnp`) | loops over streams, client-side channels | receive, error, answer | part of the rows above |
| Client session (`connect/src/profile.rs`) | listeners of a session, forwarding task | events, forward_event | each listener gets each later event once, in order |
| Client login (`connect/src/profile.rs`) | cache of sessions by home, own profile | login, login_home, join_home, leave_home | the cached session is the one the home routes to; the profile names its homes |
| Pairing (`connect/src/profile.rs`, `sdk.rs`) | relations of each profile | initiate_relation, accept_relation, event handler, relations_with_peer | both sides have the same relation, and the homes accept it |
| Relation proofs (`home-protocol/src/lib.rs`, `crypto.rs`) | none | half proofs, signing, peer_id, validators | only a proof that both signed is valid, whoever asked first |
| Network connector, handshake (`connect/src/net.rs`, `profile.rs`, `handshake.rs`, `mercury-home.rs`) | sockets and futures of one connect | any_home_of2, connect_home2, connect, handshake, serving | a connection in use is served under the right identity; connecting ends; unused sockets are closed |
| dApp and admin service, JSON-RPC (`connect/src/service.rs`, `jsonrpc`) | cache of profiles; session and subscription of each connection | dapp_session, profile, get_session, subscribe_events, unsubscribe_events | one MyProfile per profile; a subscription ends when it should |
| Message conversions (`mercury_capnp/mod.rs`) | none | fill_from, try_from | a round trip keeps what the program uses |
| Web of blobs (`storage/src/async`, `format`, `meta`) | hash spaces over key-value stores | store, resolve, resolve_blob | what an address names is what is returned |

How they interact. A client dials all addresses of all homes of a profile, both
ends introduce themselves, and an RPC connection starts on the first socket that
answered. `login` yields a session object at the home, entered in the registry. A
peer's `pair_request`, `pair_response` or `call` is a request on the peer's own
connection to that home: it looks the recipient up in the file store and then
pushes to the session the registry finds. The session's streams are read by a loop
in the dispatcher, one RPC request for each item, and the client's proxy puts each
in a channel, from which `MyHomeSessionImpl` forwards events to all its listeners:
the profile's own handler, which stores relations, and the subscriptions of dApps,
which reach them over a local JSON-RPC socket. An accepted call links the two
applications by a pair of message streams that pass through the home.

What is hard: checks that are stale when acted upon (lookup, then write), several
writes of which one fails, a restart between them, sessions dropped while a push
is on its way, a buffer handed over by a task while new items arrive, parked
senders, an answer racing a timer at either end, a listener added while an event
is forwarded, pairing requests that cross, answers that are lost after the home
acted, a peer that sends before the other has read its introduction, a stream
whose end nobody announces. `PROJECT.json` lists these as hazards, each at its line.

## Modules

| Module | Models | Extends |
|---|---|---|
| `HostedProfiles` | the two stores and the chains that write them | |
| `HomeServer` | login, registry, session drop, events pushed to sessions | `HostedProfiles` |
| `Mailbox` | abstract: what a sink promises | |
| `ServerSink` | one sink in detail, with its channels, tasks and RPC loop | implements `Mailbox` |
| `IncomingCalls` | a call from the caller to the callee's application and back | |
| `AppMessages` | the messages of an accepted call | |
| `EventFanout` | the client's forwarding of events to listeners | |
| `ClientSessions` | a client's logins, session cache and homes | |
| `Relations` | relation proofs, their validators and conversions, as operators | |
| `Pairing` | two clients and their homes agree on a relation and call with it | `Relations` |
| `Connecting` | dialling, handshake, and the start of serving | `Relations` |
| `DappSessions` | JSON-RPC connections, loads of profiles, subscriptions | |
| `HashWeb` | hash spaces and the resolution of addresses | |
| `...Proofs` | theorems of the module they are named after; `HomeServerProofs` also those of `HostedProfiles` and `HashWeb`, `PairingProofs` those of `Connecting` | those modules, `TLAPS` |
| `MC...` | the instances for TLC | the module they check |

**HostedProfiles.** `db` is `hosted_profile_db`, `dht` is `public_profile_dht`. A
`register` or `update` is a record in `request` that says which store call it makes
next: `Register` and `Update` are the lookups, `RegisterDht`, `RegisterDb`,
`UpdateDht`, `UpdateDb` the writes, each with its failure. A failed or interrupted
file write may leave the old record or a truncated one (`Corrupt`), because
`set_bytes` creates the file first. `Unregister` issues both clears in one step.
`Restart` empties the DHT, forgets all chains and may tear the files that were
being written. A record's contents are model values: the own and the public part
are written together and no property tells them apart. The checks on a request's
arguments (identity, key, home proof) refuse without a state change. Faults are a
constant, so an instance says which store calls may fail.

**HomeServer.** `sessions` is the registry, `alive` the session objects, `sink` what
the event sink of each is (buffer, channel, or a channel whose receiver is gone). A
session has two profiles. `peer` is `context.peer_id()`, the client that the
connection belongs to: update, unregister and `Drop` act on it. `name` is the profile
that the `proof_of_home` of the login names: `login` looks this one up and enters the
session under it, and neither validates the proof nor compares the two. The clients
in this repository send a proof of their own, and the model lets them differ. Requests
that wait for a lookup are records in `lookup`. `OpenSession` keeps an entry that is
there; `DropSession` removes the entry of the connection's profile whatever it refers
to and leaves an entry of another profile, which is `Dangling` from then on and is
replaced by no later login: all as the code does. A profile is `clouded` while this
may disturb it: a second session was opened that concerns it, or one between two
profiles, or it was unregistered, and not all sessions that can touch its entry
(`Concerned`) are dropped yet or a dead entry is left. An event is "new", "pushing",
"kept" by a session, "draining" from the channel of a dropped one, "vanished"
(push_event said Ok and dropped it) or "gone" (received, refused with an error, or
lost with what kept it). Within a session its sink is abstracted as `Mailbox`
promises.

**Mailbox and ServerSink.** `Mailbox` accepts or refuses each item once, hands an
accepted one over at most once, and loses one only when a stream is closed or the
session dropped. `ServerSink` has the Vec, all channels that were ever put in place,
the spawned handover and warning tasks, and the dispatcher's loop with the item
that waits for the client's acknowledgement. Channels are those of the `futures`
crate: a sender that fills the queue beyond its capacity is parked until the
receiver takes a message; a fresh clone, as every push makes, may send once
regardless. Tasks spawned by one reactor are polled for the first time in the
order in which they were spawned. The refinement mapping reads an item's status off
the place where it is.

**IncomingCalls.** One callee and one application. `stage` and `outcome` follow the
caller's `call()`, `slot` is the oneshot inside each Call, `place` is where the
Call is, `loop` is the dispatcher's loop of each stream with the reply on its way
back, `offer` what the application did with its IncomingCall. A Call passes two
bounded channels, the session's stream at the home and the application's at its
client. A send that exceeds the capacity has put its item into the channel, but since
`futures` 0.1.24 it completes only when the receiver makes room or goes away; before,
it completed at once. `Cargo.toml` says "0.1" and there is no lock file, so both are
allowed. `parked` are the calls whose `push_call` waits in this way, `blocked` the
streams whose `receive` does, `unread` what the application did not take from its
channel yet. Both timers are polled only after the send that precedes them: they may
fire whenever they are pending and that send is through (`Awaiting`, `Ringing`).
Calls wait in a stream in no particular order, as `Mailbox` allows. The warning about
a repeated `checkin_app` is left out: it ends the old loop only where the next offer
would end it as well.

**EventFanout.** `list` is the Vec of listeners, taken for every event; `sending`,
`sent` and `failed` are the futures inside `collect_results`. `since` and `got`
are histories.

**ClientSessions.** `join` and `login` are the calls of `join_home` and of `login` or
`login_home`; `own` is the home that `own_profile` and the profile repository name.
It is one home: a profile received in a message keeps only the first of its homes
(`mercury_capnp/mod.rs`), and it is sent and returned in each `register`. `cache` is
`session_cache`, `held` the sessions that callers still have, `handlers` the event
handlers on each. Of a home the model has what concerns this profile: whether it is
registered (`hosted`), its sessions (`live`) and the registry entry, which behave as
in `HomeServer`. A session ends when no reference to it is left or its connection is
lost. Three histories name the exceptions of the properties: `clouded` homes, where
logins overlapped or the profile was unregistered, `cut` sessions, whose connection
was lost, and `overlap`, two `join_home` calls at once, of which the second to be
answered decides which home the profile names.

**Relations and Pairing.** Profile ids are ordered byte strings in the code and
natural numbers here, because `RelationProof::new` puts the parties in order. A
signature is the record of its key and of what was signed (Ed25519, external), so
that a validator can fail for each reason it can fail in the code. `request`,
`accept` and `call` are the chains of `initiate_relation`, `accept_relation` and
`Contact::call`; the home's part is one step each (`PairRequest`, `PairResponse`,
`CallHome`) that validates what the message conversion delivered and pushes the
event. `inbox` stands for everything between the home's push and the client's event
handler; a profile that is away has none, and the event is gone though the sender is
told that all went well. `Restart` forgets relations, because nothing stores them.
`lost` is a history of proofs that did not arrive or were forgotten. The check that
a proof names the session's client is the home's; the identity itself comes from
the handshake.

**Connecting.** One call of `any_home_of2`. All homes are looked up and dialled at
once, each address of a home at once; `select_ok` returns the first success and
fails with the last failure, and the futures that lost are dropped together with
their sockets. Each connection has a pipe of units in each direction; each end of
the handshake writes a length and its introduction, then reads the same from the
other, and the client may already send RPC messages while the server is still
reading. `LoseConnection` cuts a connection at any point. An introduction that was
not fully read is an error at the end that reads.

**DappSessions.** `busy` says that a connection's request is not answered yet: the
next one is read afterwards. `load` is a call of `dapp_session` or of the
administration's `profile`, with the selection of a profile, the asynchronous read of
it from the repository, and `create`, which looks at the cache and fills it in one
synchronous step. `slot` is
`cancel_events`, a oneshot; storing a new one drops the old, which cancels its task.
A forwarding task logs in, checks in and forwards events; it waits for room in the
response channel while responses themselves always have room.

**AppMessages.** One direction of a call, from the callee's application through
its client, the home and the caller's client; the other direction differs only in
that its last channel is read from the start. A forwarding task has one request on
its link at a time and waits for the reply. A cut link ends the task that sends on
it and drops the dispatcher at its other end, whose channel then ends.

**HashWeb.** Blobs and hashes are model values, a text the sequence of its parts
between slashes: only what parsing tells apart is kept. A resolution is
`ResolveBlob`, then a `Fetch` and a `Follow` for each link on its way, while other
callers `Store` and entries of the stores are lost or altered (`Fault`) in between.
The reference definition is `Names`: there is a way of blobs (`IsWay`), the first of
which the address's link fits and each next one the link that the blob before it has
under the next piece of the address. It looks at hashes and attributes only, never at
a store.

## Runs

| Run | Instance | Shows |
|---|---|---|
| `profile_stores` | 2 profiles, 2 contents, 2 requests, failing writes and clears | `StoresAgree`, `NoResurrection`, `NoOverwrite` for one request per profile at a time |
| `home_server` | 2 profiles, 2 sessions, 2 lookups, 1 event, no store faults, any interleaving | `LiveIsReachable`, `KeptByRecipient`, `NoSilentDrop` |
| `server_sink` | 5 items, 2 streams, capacity 1, fair | `ReceivedOnce`, `HandoverInOrder`, refinement of `Mailbox`, `ChannelDrains` |
| `incoming_calls` | 2 calls, 2 streams, capacity 1, fair | `ConnectedIsAccepted`, `WaitingIsHeld`, `EveryCallReturns`, `LineMoves` |
| `call_timeout_doc` | 2 calls, 1 stream, capacity 1, fair | an offered call never times out if the application keeps its stream without reading it, against a comment in `receive()` |
| `event_fanout` | 3 listeners, 3 events, capacity 1, fair | `NothingMissed`, `ListenersKept`, `AllInformed` |
| `client_sessions` | 2 homes, 2 joins, 3 logins, 1 event | `CachedIsRouted`, `CachedIsUsable`, `StoredOnce`, `HostedIsNamed`, `NoEventMissed` |
| `pairing` | 2 profiles, 2 relation types, 2 requests, 2 acceptances, 1 call | `NeverRefused`, `SameProof`, `NotOneSided` |
| `connecting` | 2 homes with 4 addresses, one of them not convertible, 1 cut, fair | `UsedIsServed`, `GivesUpLast`, `ConnectEnds`, `OthersEnd` |
| `dapp_sessions` | 2 connections, 2 loads, 2 subscriptions, 2 profiles, capacity 1, fair | `OneMyProfile`, `Stoppable`, `CancelledEnds` |
| `app_messages` | 2 links, 3 messages of 2 kinds, capacity 1, 1 cut, fair | `EndMeansAll`, `AllDelivered`, `EndIsSeen` |
| `hash_web` | 3 blobs, 2 spaces, 11 addresses, 2 faults | `ResolvedIsMeant`, `StoredIsFound` |

`home_server`, `incoming_calls` and `pairing` also check the module's `TypeOK`, of
which `Pairing`'s says that requests reach whom they name and proofs only parties.
`call_timeout_doc` states what a comment of the repository says and is expected to
fail; the finding in `PROJECT.json` quotes it.

**Bounds.** Two of everything suffices for one actor to meet another in the middle
of an operation; two contents tell two updates apart; two sessions make a second
login; capacity 1 with five items makes a channel overflow, a sender park and a
newer item overtake while the handover is still under way; two streams make one
replace the other; two calls and capacity 1 fill the application's channel and park
its second offer, or fill the stream and park a push; three listeners let one be slow, one go and one come during the
same event; three logins let two race and a third meet what they left behind. Two
requests and two acceptances let two profiles ask each other and both accept, or one
repeat itself; three messages fill every channel of a call so that each task waits
once; two addresses of one home and one of another let a connection lose both to a
sibling and to another home; introductions of different lengths end the reads of the
two ends at different times; two links from one blob under one name, a nested one and
a hash with a slash exercise each branch of the parsers. All invariants and action
properties and the refinement are proved without bounds (below). Symmetry is used only in runs without
liveness properties. `CHECK_DEADLOCK FALSE` is set where everything sent, ended or
answered is a proper end; the other runs check deadlock.

**Why one request per profile.** `HomeServer` serializes nothing. With `Serialized`
false two updates that interleave leave different records in the stores, an update
can rewrite a profile that was unregistered after its lookup, and two registers can
overwrite each other. The code makes no promise for this case and the model does
not claim one: the properties say what a client gets that waits for each answer.
`home_server` runs with `Serialized` false.

**Exceptions in properties.** Where the code loses something for good, the property
names the circumstance instead of hiding it: profiles whose stores a fault left
`apart`, `clouded` profiles and homes (a second session, a login that names another
profile than its connection's, an unregister), `cut` sessions and connections,
`overlap` of two joins, `lost` proofs. Such a property bounds the hazard, it does not
exclude it: it says that nothing else leads there. The hazards' notes say what
happens then.

**Fairness** is weak fairness of what the reactors, the timers and the RPC system do:
a task that was woken is polled, a pending timer fires, a request that was sent is
answered unless the connection is lost, a TCP attempt or a lookup ends one way or
the other. Nothing obliges anybody to log in, push, open or close a stream, answer a
call, send a message, or lose a connection. The callee's application need not read its
stream of calls either: where `EveryCallReturns` and `LineMoves` need that, they say so
with the premise `KeepsReading` (the application empties its channel again and again, or
gives the stream up), and what they say without it needs no such thing. In `EventFanout` whoever keeps a stream
reads it, as the profile's own event handler does; in `AppMessages` the caller's
application reads and its home ends every call, which `EveryCallReturns` shows for calls
whose push is through, as that of every offered call is. In
`DappSessions` only the step in which a task sees that it was cancelled is fair: a
dApp need not read anything, and no event need come.

## Read but not stated as runs

Five comments of the repository disagree with the code in places where a property
would only restate an assignment. `Home::login` is documented to close earlier
sessions (`home-protocol/src/lib.rs:316`); a second login leaves them as they are,
which `LiveIsReachable` and `CachedIsRouted` carry as `clouded`. The protocol's note
that `unregister` closes the session (`mercury.capnp:139`) is not what `server.rs:533`
does, as its TODO says: the session lives on, out of the registry's reach. The warning about a
repeated `events()` is not always the last item of the old stream
(`server.rs:596`), since pushes on their way follow it. A caller whose timer fired
drops a late acceptance without telling the callee (`home-protocol/src/lib.rs:363`). The
TODO at `connect/src/service.rs:158` expects several fills of the profile cache in
parallel of which the "last one wins by overwriting"; `create` has no await between
looking at the cache and filling it, so that there is nothing to overwrite, which is
`OneMyProfile`.

## Mutants

An operator named `A_Xyz` before an operator `A` is `A` with a plausible mistake.
With the body of `A` replaced by `A_Xyz`, TLC finds the property that
`PROJECT.json` pairs with it violated. Each property of each passing run has one.

## Proofs

All theorems hold for every value of the constants that satisfies the module's
named assumption: any number of profiles, sessions, requests, calls, streams,
homes, listeners, events, links, messages, addresses and blobs. The assumptions only
say that bounds and capacities are natural numbers, that `None`, `Nothing`, `Error`,
`Warning` and `Dangling` are none of the other values, in `Pairing` that profile ids are
ordered, in `Connecting` that every home has an address (`select_ok` panics without)
and introductions are not empty, and in `HashWeb` that the texts of two hashes differ
and none is empty. Each module has an inductive invariant, a conjunction of named
parts, that was also checked by TLC.

- `HomeServerProofs`, stores: `StoreInv`. `StoresAgree` alone is not inductive: a
  chain between its two writes breaks it, so `ChainsAgree` says that a chain past its
  DHT write has put its content there, and `OneChainPerProfile` that no other chain
  of the profile interferes. `UpdatesHosted` and `RegistersUnhosted` carry the
  result of a chain's lookup to its last link; the action properties
  `NoResurrection` and `NoOverwrite` follow from them.
- `HomeServerProofs`, registry: `RegistryInv`. The key parts are `OneUnlessClouded`
  and `OwnUnlessClouded`: two live sessions that concern one profile cloud it, and so
  does a session between two profiles, so that a drop which removes another session's
  entry, or leaves a dead one, is accounted for. `EntryIsNamed` then says whose session
  an entry can be, from which `KeptByRecipient` follows when an event is pushed.
  `NoSilentDrop` follows from `LiveIsReachable`.
- `HomeServerProofs`, web of blobs: `WebInv`. `LinksKept` says that behind a returned
  link there is the stored blob until a fault hits the entry, which with the lemmas on
  `Parse` gives `StoredIsFound`. `OnItsWay` says that the link or blob a resolution is
  at lies on the way of its address and that what it has left are the address's last
  pieces; a blob is on the way because it was checked against its link, which is why
  faults do not matter. `NamesOne` adds that an address names at most one blob, so
  that `ResolvedIsMeant` leaves no choice. It needs induction over the way, which is
  done by a least counterexample: the set of places where two ways differ would have a
  smallest member (`WFMin`), and there is none.
- `ServerSinkProofs`: `SinkInv`. `ReceivedOnce` speaks of the end of an item's way, so
  `InOnePlace` says that an item is nowhere twice on it, and `SentIsPushed` that what
  is under way was pushed, was not refused, and has left the handover, so that neither
  a push nor the handover can bring it again. `HandoverInOrder` needs `EarlyInOrder`,
  the same order inside the first channel, and `HandingOver`, which says which early
  items the task still has. The refinement of `Mailbox` (`MailboxCorrect`) has one
  lemma per action that says which items change their status and how; that no item
  gets from "lost" to anything else rests on `OnlyInOpen`.
- `AppMessagesProofs`: `CallInv`. It gives each channel the number of messages that
  were ever put into it. `Slices` says that a channel's queue is the last part of
  that many messages of `sent`, `Passing` that the numbers of two adjacent channels
  differ by what the task between them has in hand. Every channel that ended is said
  to have had all messages (`Endings`), so that the end needs no induction over the
  links: it moves by one link in one step.
- `IncomingCallsProofs`: `CallsInv`. It says that a Call is in one
  place and unanswered while it is there (`HeldIsUnanswered`), that the offered one
  is in its loop's stream (`OfferedIsHeld`), and that an answer under way was given
  by the application (`AnswersAreGiven`) or is its fault (`ErrorsAreFaults`). What the
  application did not read yet rings (`UnreadIsRinging`), so that a stream given up
  drops no call that was answered.
- `EventFanoutProofs`: `FanoutInv`. `NothingMissed` speaks of what was read; to
  carry it through a step, `QueueFollows` says that the channel goes on where the
  listener stopped, and `UpToDate` that channel and reader together have everything
  that arrived but the event whose send is pending. `InOnePlace` keeps a listener
  from being sent an event twice.
- `ClientSessionsProofs`: `ClientInv`, in three parts. `SessionInv` says that
  registry entries are live sessions, that a session alone at its home is the entry
  (`LiveIsRouted`), and that what is cached was logged in there and has its one
  handler; the two invariants on the cache follow. `EventInv` puts a kept event into
  a live session of its home, which gives `StoredOnce` and the action property
  `NoEventMissed`. `JoinsAlone` gives `HostedIsNamed`.
- `PairingProofs`: `PairingInv`. `AllGenuine` says that every half proof and proof,
  wherever it is, carries the signatures of those it names, with the parties in
  order. From it follow `NeverRefused`, because validators accept what is genuine,
  and `SameProof`, because a relation has only one genuine proof
  (`GenuineIsUnique`). `NotOneSided` needs `AnswersAreShared`: also a proof that is
  still on its way to one party is held by the other. That `Holds` never becomes
  false, whatever arrives, fails or restarts, is the core of that proof.
- `PairingProofs`, connecting: `ConnectInv`. `DialInv` says that the ends talk only
  over connections that were made (`OnlyOverMade`), and why a connection is closed
  (`ClosedForCause`: lost, or let go for another) and a home given up
  (`FailedForCause`). `ShakeInv` says of each pipe that it has what the other end
  wrote and this one did not read (`Flows`), so that each end reads exactly the
  other's introduction (`Learnt`): deserializing it never fails, and an end gives up
  only over a connection that is closed already. Therefore a server that ended means
  a lost connection, which is `UsedIsServed`; `GivesUpLast` follows from
  `FailedForCause`.
- `DappSessionsProofs`: `DappInv`. `OneMyProfile` needs that what a load ended with
  is in the cache and stays there (`LoadsCached`), `Stoppable` that a running task
  belongs to a connection (`RunningIsOwned`).

Only model-checked: the liveness properties (`ChannelDrains`, `EveryCallReturns`,
`LineMoves`, `AllInformed`, `ConnectEnds`, `OthersEnd`, `CancelledEnds`,
`AllDelivered`, `EndIsSeen`), since TLAPS does not handle fairness. Every invariant,
every action property and the refinement that a passing run checks is also a theorem.

## Plan

Done: the home's stores, registry, sinks and calls; the client's event forwarding,
logins, pairing, connecting, dApp sessions and call messages; relation proofs;
address resolution; the proofs of all their safety properties. What is left, in this
order:

1. A composition of `Pairing` with `ClientSessions`, in which the way of an event is
   not one step but the session it takes.
2. Conversion of addresses and facets.

## Not modelled

- Key generation and signing themselves (Ed25519, external); TLS, which the code
  replaces by its handshake.
- `create_profile` and `remove_profile` of the administration: unimplemented.
- The JSON-RPC library that reads requests and keeps subscriptions (external, a fork);
  that a closed connection drops its session and so its subscription is its contract.
  All subscriptions have one constant id (`connect/src/jsonrpc/api.rs:117`); what the
  library makes of that is not in this repository.
- The `PeerContext` that a client derives from the home's introduction: the handshake
  checks nothing in it and nothing in the client uses it afterwards.
- `claim` and `load`, which read a store and change nothing; `ping`, which echoes.
- The stores over IPFS and Postgres, thin clients of external services, and the
  synchronous stores, which repeat the asynchronous ones.
- Conversion of addresses and of facets other than the list of homes.
- Configuration and command lines, serialisation formats, logging, error texts, the
  rest of the example application, and the test dummies.
