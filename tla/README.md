# Serenada in TLA+

Serenada is a video call service: a Go server (`server/`) that signals for calls
of two to four participants, and SDKs for web, Android and iOS that hold the
calls. This directory specifies the server's signaling hub, the web SDK and the
web application in TLA+, checks them with TLC, and proves with TLAPS what the
runs check of the hub, at both grains, of the tab's signaling and of the
session, that the microphone is never left open, and that the hub and the tracker
implement what they promise. References such as
`signaling.go:1112` are to `src/server/`, `SerenadaSession.ts:634` to
`src/client/packages/core/src/` and below, unless a path says otherwise.

1. [The system](#the-system)
2. [Modules](#modules)
3. [Model-checking runs](#model-checking-runs)
4. [Proofs](#proofs)
5. [Where code and documents part](#where-code-and-documents-part)
6. [Not modelled](#not-modelled)
7. [Plan](#plan)

## The system

### Components

| Component | State it keeps | Operations | Interacts with |
|---|---|---|---|
| **Room** (`signaling.go`, `type Room`) | `byCID` (participants, each with a transport or suspended), `byClient`, host, capacity, epoch, dirty pairs, media-liveness reports, one eviction timer per suspended participant, one no-active timer | attach, reattach, detach, remove, lock capacity, transfer the host, mark dirty, record reports | the hub's handlers, under `room.mu` |
| **Hub** (`signaling.go`, `leave_handler.go`) | `rooms`, `tombstones`, `clients`, `watchers` | join, leave, end_room, relay, media_liveness, watch_rooms; disconnects; `POST /api/leave`; timers | transports call it, it queues messages for them |
| **Transports** (`ws.go`, `sse.go`) | a `*Client` per connection, the SSE session table and `pendingTakeovers` | connect, POST, take over a session, disconnect after a grace period | `registerClient`, `replaceClient`, `handleMessage`, `disconnectClient` |
| **Reconnect tokens** | none: signed strings with an expiry | issue, verify | joins, `POST /api/leave` |
| **Signaling engine** (`signaling/SignalingEngine.ts`, transports, `SerenadaServerProvider.ts`) | transport in use, buffered join, seat, token, epoch, timers | connect with fallback, join and retry, reconnect with backoff, leave, watch rooms | hub; session, room watcher |
| **Recovery storage** (`recoveryStorage.ts`) | the seat of the last call, in `sessionStorage` | save, load, clear | engine, session |
| **Session** (`SerenadaSession.ts`) | phase, roster, suspicions, content of remotes, permissions, timers | join, reconnect, leave, end, destroy; one state for the host | engine or another provider, media engine, host |
| **Media engine** (`media/MediaEngine.ts`) | per peer: connection, offer ids, candidates, senders, timers; local stream and shares | offer, answer, roll back, restart ICE, recreate; start, flip, share, recover | relay of the hub, WebRTC, devices |
| **Call quality** (`media/CallQualityTracker.ts`, `streamingMedian.ts`, `mos.ts`) | medians, packet totals, outages | phase and status transitions, samples, finalize | session |
| **Layout and content scene** (`layout/computeLayout.ts`, react-ui `contentRendering.ts`) | none | scene to frames; contents to tiles | call screen |
| **Call screen** (react-ui `SerenadaCallFlow.tsx`) | pins, order of shares, overlays, controls | effects, gestures | session |
| **Room watcher** (`RoomWatcher.ts`, `roomStatuses.ts`) | watched rooms, last statuses | watch, merge, resend on reconnect | an engine of its own, hub |
| **Web application** (`client/src/`) | recent calls and saved rooms in `localStorage`, page, preview camera | navigate, save, start and join calls | session, room watcher |
| **Rate limiter, room ids, TURN credentials, push, feedback, diagnostics** | small or none | pure computation and I/O | HTTP |
| **Android, iOS SDKs** | ports of the web SDK | | same protocol |

### How they interact

A client joins with a room id, perhaps a CID it had before and the reconnect
token that proves it. The hub seats it, answers `joined` with a fresh token and
broadcasts `room_state` to the attached participants and
`room_status_update` to the watchers. A transport that is lost leaves its
participant *suspended*: the place stays taken until a reconnect with the token
or until its eviction timer fires. While peers negotiate, the hub relays offers,
answers and candidates; those for a suspended peer are dropped and the pair is
marked dirty, so that the peers renegotiate once it is back. An ended room
leaves a tombstone, so that holders of tokens are told `ROOM_ENDED`.

In the browser all code runs on one thread: a callback runs to its end, and
the listeners it calls run inside it. The engine tells the provider, the
provider the session, the session the media engine and the host, which may call
back at once (a host that leaves in a state callback). Media operations are
async functions: at each `await` others run, and what was read before may not
hold after.

### What is hard, and what must be true

The hub has two kinds of lock, `h.mu` and one `room.mu` per room, and most
handlers take and release them several times. Messages of a client, its
disconnect, timer callbacks and HTTP requests run on goroutines of their own.
State outlives connections (suspension), rooms outlive participants
(tombstones), and tokens outlive the server. In the client the hard parts are
timers and retries that overlap, callbacks of abandoned sockets, awaits, glare,
and state derived from flags that change one at a time. The hazards, each at
its line with the properties about it, are in `PROJECT.json`. What makes each
component correct:

* **Room.** The two indexes agree; the host is a participant; no more
  participants than the capacity, fixed once by the second participant; every
  suspended participant is timed and no attached one is; dirty pairs and media
  hints do not outlive what they are about.
* **Hub, between handlers.** An attached transport is registered and its own
  fields name its only seat; peers and watchers have been told what is true now;
  the epoch moves with the membership; an ended call does not come back under
  its old identities; places come free.
* **Hub, between critical sections.** No interleaving splits the indexes or
  overfills a room; a late leave, disconnect or timer takes the place of nobody
  who is back; no suspended place is forgotten.
* **Signaling engine.** One connection or one attempt or one timer; the token of
  the seat and the room; a leave is final; after losses the call is joined
  again or over; the two records in storage agree.
* **Session.** Ended means ended, whichever way; suspicions follow the roster;
  content never goes back; a session that is not connected is being connected.
* **Media engine.** Answers match offers; no pair stays half negotiated; pairs
  connect. No device stays open behind the engine; peers receive what is shown.
* **Quality.** Medians are medians; no outage is lost or counted twice.
* **Screen.** Every stream is on one tile, tiles do not overlap, pins and
  overlays last as long as what they are about.
* **Web application.** Marks are true, history is that of the last calls, the
  preview camera is on only during the preview.

## Modules

| Module | Models | Uses |
|---|---|---|
| `Room` | one `*Room`: queries, updates and what must be true of it, as operators on a record | |
| `SignalingHub` | the hub, one step per handler; refines `Calls` | EXTENDS `Room`, INSTANCE `Calls` |
| `Calls` | what participants are promised about the places in a call | |
| `HubLocks` | the same handlers, one step per critical section | EXTENDS `Room` |
| `SignalingEngine` | a tab's signaling: engine, transports, provider, storage, what the session does when signaling changes, with a small server | |
| `Session` | a session on any provider, with a host that calls back | EXTENDS `CallQuality` |
| `PeerNegotiation` | two media engines that negotiate over the relay | |
| `LocalMedia` | capture, shares and senders of one media engine | |
| `CallQuality` | medians, rating, loss and outages, as operators | |
| `CallTracker` | the tracker as a session drives it; refines `OutageLog` | EXTENDS `CallQuality`, INSTANCE `OutageLog` |
| `OutageLog` | what a host is promised about outages | |
| `StageLayout` | `computeLayout` and `computeStageLayout` | |
| `ContentScene` | contents, tiles and spotlight | |
| `CallView` | the call screen | EXTENDS `ContentScene`, INSTANCE `StageLayout` |
| `RoomWatching` | the room watcher and the server's answers | |
| `WebApp` | the pages, on top of the watcher | EXTENDS `RoomWatching` |
| `MC*` | values, plans and symmetry for TLC | EXTENDS the above |
| `RoomProofs`, `SignalingHubProofs`, `HubLocksProofs`, `SignalingEngineProofs`, `SessionProofs`, `LocalMediaProofs`, `CallProofs`, `WebAppProofs` | the theorems | EXTENDS what they are about: `CallProofs` both `CallTracker` and `CallView` |

`PROJECT.json` maps every definition to its lines. Operators under a comment
*Mutant* stand for plausible mistakes in the code. No specification uses them;
each is put in the place of the definition after it to confirm that a property
notices (`PROJECT.json`, `mutants`).

### Room

A room is a record. `members` is the key set of `byCID`, `client` the transport
of each participant (`Nil`: suspended), `byClient` the other index, `dirty` the
pairs of `negotiationDirty`. Time is reduced to what the code compares it with:
`evict` holds the participants whose `hardEvictionTimer` is armed, `noActive`
says that `noActiveTimer` is, `dwelt` holds those suspended for at least
`ghostEvictMinDwell`, and `seen` those with a media report that is still fresh.

`Seat`, `Suspend` and `Depart` join what the code always does together in one
section, so that `Depart` is `removeParticipant`, `dropCIDFromDirty`,
`dropMediaLivenessFor`, the host transfer, the epoch and the timer. The choice
of a new host is nondeterministic, as the order of a Go map is. In `Ghosts`, the
third condition of `suspendedGhostsExcludedByActiveReporters` is left out: the
handler has just recorded a report of an attached sender, so it holds.

`RoomOK`, the conjunction of the invariants of a room, is used by both grains
and by the proofs.

### SignalingHub

| Variable | Code |
|---|---|
| `rooms` | `Hub.rooms` |
| `tombstones` | `Hub.tombstones`, the unexpired ones |
| `registered` | `Hub.clients` |
| `rid`, `cid` | `Client.rid`, `Client.cid`, set by a join and never cleared |
| `issued` | pairs a reconnect token was signed for: not state of the server, but what signatures prove |
| `told` | the last `room_state` or `joined` queued for each attached transport |
| `watchers` | `Hub.watchers`, with the last status queued for each |

| Action | Code |
|---|---|
| `Connect`, `Disconnect` | `registerClient`; `disconnectClient` with `suspendClientInRoom` |
| `TakeOverIdle`, `TakeOver` | `replaceClient` of an SSE stream that is in no room; `handleSSEPost` of a join on a pending takeover |
| `Join` | `handleMessage` and `handleJoin`: the implicit leave, then one of six ends: `RefuseToken`, `RefuseEnded`, `JoinReattach`, `RefuseReattach`, `JoinFresh`, `RefuseNewcomer` |
| `Leave`, `LeaveByToken`, `EndRoom` | `handleLeave`, `POST /api/leave` (`evictByLeave`), `handleEndRoom` |
| `Relay`, `ReportLiveness`, `WatchRooms` | `handleRelay`, `handleMediaLiveness`, `handleWatchRooms` |
| `HardEvictionFires`, `NoActiveTimerFires` | `hardEvictSuspended`, `cleanupRoomIfNoActive` |
| `DwellPasses`, `ReportGoesStale`, `TombstoneExpires` | time passing a limit the code compares with |
| `Restart` | the process restarts: all is lost but the signed tokens |

Rooms, `told` and `watchers` are passed through a join as one record, the
*directory*, since a join is up to three updates in a row: the implicit leave,
the eviction of a ghost and the seat. An SSE takeover hands the seat of the old
stream to the new one and then handles its join, whose first effect is to give
that seat up: the intermediate state is not visible, and the model gives up the
old stream's seat directly.

A transport in `Clients` is reused once it is not registered (`Connect` resets
its fields), which stands for a new `*Client`; a CID is never generated twice.

`Calls` is the abstract specification. A call has those who are here, those who
are away, a host and a number of places, and its steps say what may become of
a place: it is taken when one is free, kept by whoever is away, and lost by
leaving, by expiring while away or with the call. The number of places is decided
when the second participant enters and never again; a host goes only if it is
removed, and is followed by somebody who is here, if anybody is; an ended
call is entered by nobody the server ever vouched for. `CallOf` is the refinement mapping:
here are the participants with a transport, away those without, and the number
of places is the room's capacity once it is locked. `ended` is `tombstones` and
`keys` is `issued`. Transports, timers, hints, dirty pairs, epochs and what
others are told have no counterpart; a join with its implicit leave is one step
(`Move`).

### HubLocks

A goroutine is a frame that says which critical section comes next (`at`), the
`*Room` it holds (`obj`), and what it read earlier. `task` has the message
handler of each client, `closing` its disconnect, `callback` the hard-eviction
timers that fired, `reaping` the no-active timers that fired, `web` the
`POST /api/leave` in flight. `heap` holds the room objects; `current` is the
one the hub lists. There is one room id; a new object is made whenever it is
joined after a deletion, and an object nothing refers to is reused. What is sent
after an unlock is not in this module, and neither are relays, reports,
watchers, restart and takeovers, which `SignalingHub` has.

Which goroutines run with which comes from the code: the messages of a client
one after the other (`Start` needs an idle task); the disconnect of a WebSocket
after its messages, since `readPump` does both, and that of an SSE stream at any
time (`StreamClients`); timers and HTTP at any time.

A join of a CID that was given out carries its token (`claims`). A join without
one differs only at the tombstone gate, and `SignalingHub` has both.

### SignalingEngine

`tab` holds the objects of the page: `ses`, the session and its provider, and
`eng`, the engine with its transport (fields are explained at `BlankSession` and
`BlankEngine`). `store` is `sessionStorage`: the engine's three keys and the
recovery record. `srv` and `down` are the server of one tab and the messages on
their way; with the network they are external.

| Action | Code |
|---|---|
| `Opens`, `DialFails`, `Lost`, `LateCallback`, `Hangs`, `PostFails` | the callbacks of `ws.ts` and `sse.ts`, the second callback of a failed socket included, and what the network does |
| `PingUnanswered`, `ReconnectTimer`, `JoinAgain`, `JoinHardTimeout` | the engine's timers (`:602`, `:610`, `:225`, `:246`) |
| `SessionJoinTimeout`, `ResyncTimeout` | the session's (`SerenadaSession.ts:918`, `:982`) |
| `Receive` | `handleIncomingMessage` and, inside it, the provider and the session: `Joined`, `RoomState`, `RoomEnded`, `Refused`, `TokenRejected` |
| `OpenCall`, `LeaveCall`, `Unload` | `SerenadaSession.start`, `leave` or `end`, and a page load, after which a call may be resumed from the record |
| `ServerReceives`, `PeersChange`, `Overtakes`, `RoomEnds`, `TokensExpire` | the server: answers as `SignalingHub` does, changes of the room, a snapshot that overtakes a later one |

### Session

`s` holds the session's fields, `link` the provider's connection, `delivered` the
content revisions that were delivered (for a property). A handler is an operator
from session to session; `Rebuild` is `rebuildState`, which every handler and
every callback of the media engine calls, and in it `Publish` calls the host,
who may leave or destroy the session. An action per provider event, timer and
host call: the names are those of the handlers.

### PeerNegotiation

`engine[e]` is the `MediaEngine` of end `e` and its `PeerState` of the other end;
`ops` is the chain of operations of its `RTCPeerConnection`, which the browser
runs one at a time; what follows an `await` is the step `OperationDone`. `wire`
is what the relay has sent to each end, `server` what it knows, `budget` the
faults still to come. `Receive` handles one message (`HandleOffer`,
`HandleAnswer`, `HandleIce`, `HandleRestartRequest`, `HandleRoom`,
`HandleReconnect`, `HandleDirty`); `OfferTimeout`, `IceRestartTimer` are
timers, `MediaGranted`, `MediaDenied`, `StartMedia` the start of the local
media that offers and answers wait for; `Disconnect`, `Suspend`, `Reconnect`,
`Lose`, `PathLost`, `Stalled`, `OfferRefused`, `HostLeaves`, `CapsArrive` the
faults and changes around the pair.

### LocalMedia

`tab` holds the tracks in use, the local stream (`audio`, `video`), shares, and
each peer's senders. `call` holds the async functions under way: which
operation, at which `await`, with what it captured before. `Start`, `Toggle`,
`Flip`, `Share`, `Unshare`, `Recover`, `DeviceChange`, `DisplayEnds`,
`DeviceLost`, `Destroy` begin an operation; `Granted`, `Denied`, `Listed`, `Resumed` continue a call
with what the browser answered; `Joins`, `Parts`, `Bound`, `Applied`, `Rejected`, `Agreed`
are the peers and their senders. `Resumed` comes before everything else (`Next`): once
the last promise a call awaits has settled, its continuation is a microtask, which
runs before the browser delivers another event. When the connection of a legacy
peer is closed, the attach loop of a start gets a rejection for it and goes on
with the other legacy peers, if there are any (`Close`).

### CallQuality, CallTracker, OutageLog

`CallQuality` has the two heaps of `StreamingMedian`, the rating in whole
hundredths, the packet totals and the dropout machine as operators on records.
`CallTracker` drives them as `feedQualityTracker` and the stats poll do, with a
clock in ticks, and keeps beside them what a reference needs: every sample, what
was really lost, the time spent in outages. `OutageLog` is the abstract
specification: a call begins, outages open and end in exactly one of three
ways, a failure comes last. `KeepsLog` is the refinement, with the stage and
the open outage computed from the tracker's fields.

### StageLayout, ContentScene, CallView

`StageLayout` and `ContentScene` are pure functions, in the order of the code:
layouts in sixtieths of a pixel, aspect ratios in 144ths, a scene as a record of
the local content, the remotes' and the primary one. In `CallView`, `call` is
what the session exposes and `view` the component's state and timers. One step
is a change of `call`, a timer or a gesture, with the renders and effects it
causes: `Settle` runs each effect whose dependencies changed, until the render
that changes nothing. `began` remembers the order in which shares began.

### RoomWatching, WebApp

`watcher` is the `RoomWatcher` with its engine and messages both ways;
`subscribed` and `occupancy` are the server's. `WebApp` adds `storage` (recent
calls, saved rooms), the `page` on display, the preview's `camera`, a pending
`createRoomId`, and `visits`, the rooms of calls that ended here (for a
property). Leaving a page runs its cleanups; a reload does not.

## Model-checking runs

Times are for two workers. Every property has a mutant that breaks it.

| Run | Instance | Distinct states | Time | Properties |
|---|---|---|---|---|
| `hub_safety` | 3 CIDs, 2 transports, 1 room, capacities 2 and 3 | 127,000 | 110 s | `RoomsInOrder`, `CapacityHolds`, `SeatIsIdentity`, `PeersUpToDate`, `EpochAdvances`, `KeepsCalls` |
| `hub_live` | 2 CIDs, 2 transports, a watcher, fair timers | 7,400 | 46 s | `WatchersUpToDate`, `EndedCallStaysEnded`, `PlacesComeFree` |
| `locks` | 2 CIDs, 2 transports; leaves, ends, POST leave, losses, timers against joins | 3,140,000 | 105 s | `PlacesSurvive`, `LateDepartureHarmless`, `TimersSpareTheReturned` |
| `engine` | 2 calls in 2 rooms, 2 seats, up to 2 faults | 510,000 | 92 s | `TypeOK`, `ConnectionManaged`, `InStep`, `OwnToken`, `LeftForGood`, `Settles` |
| `peers_safety` | 9 plans of 1 to 3 faults | 2,170,000 | 46 s | `NeverStranded`, `AnswersMatch` |
| `peers_live` | 7 plans of 1 or 2 faults, fair | 297,000 | 90 s | `PairConnects` |
| `session` | 2 remotes, 5 plans of 4 events | 59,000 | 7 s | `TimersStopped`, `SuspicionsTracked`, `NewestContentShown`, `OutagesTracked`, `NeverAlone` |
| `media` | 7 plans, 2 operations at once, 3 peers | 1,492,000 | 45 s | `MicHeldOnce`, `SendersFollowStream`, `ShareReaches` |
| `tracker` | 5 readings, 5 polls, outages or ticks | 396,000 | 46 s | `MediansAreMiddle`, `QualityHonest`, `KeepsLog` |
| `screen` | 9 plans, up to 3 remotes | 26,000 | 32 s | `EveryStreamOnce`, `StageFits`, `FrontHonest`, `OverlaysTruthful`, `PinKept` |
| `webapp` | 4 rooms, 5 events | 1,725,000 | 32 s | `MarksTrue`, `RecentsAreLatest`, `PreviewReleased` |
| `media_destroy` | 1 plan, ends in a counterexample |  | 1 s | `DestroyStopsCapture` |

What they show:

* `hub_safety`: after any sequence of joins of every kind and outcome, losses,
  takeovers, leaves, reports, timers and restarts, a room is in order
  (`RoomsInOrder`: indexes, host, timers, dirty pairs, hints), is not over its
  capacity, its participants know it, transports hold the one seat they name, the
  epoch tells different memberships apart, the host is someone who is
  there, if anyone is, and places come and go only as `Calls` allows.
* `hub_live`: watchers know the occupancy; a call that was ended stays ended for
  those who were in it; with no media reports, nobody who is gone holds a
  place for ever.
* `locks`: what of this survives the interleaving of critical sections.
* `engine`: across two calls of a tab with faults in both, there is one
  connection, attempt or timer; a join presents its own token; a seat that was left is not
  asked for again, the two stored records agree, and an open call is over or joined again
  once failures stop.
* `peers_safety`, `peers_live`: no combination of the faults leaves a pair half
  negotiated without a timer, no answer is applied to another offer, and after
  any one fault the pair connects. Asked of the offer owner that has no timer,
  the first is what rules out a deadlock of two ends that wait for one another.
* `session`: whichever event ends a session, from whichever callback, no timer runs
  on; countdowns, content and outages follow the roster; a session that is not
  in its room is being brought there.
* `media`: with two operations at once, overlapping shares and peers that come and
  go, no microphone is orphaned; microphone senders, the camera senders of capable peers,
  and in a tab without independent content those of everybody carry the stream on show;
  a share reaches every peer. What a legacy peer is sent after an independent share is not part of
  it: the code does not keep that (`LegacySendersRestored`, `LegacyCameraRestored`, below).
* `tracker`: the heaps give the median of a sort, the summary neither flatters
  nor slanders the call, and outages keep the log.
* `screen`: on every branch of the screen each stream is on one tile (of a remote
  presumed lost, on no more than one: see `LostAreHidden` below), tiles do not overlap,
  the newest share is in front, and pins and overlays last as long as they should.
* `webapp`: marks at rooms are true once answers are in, the history is right by
  whatever path a call ended, the preview is released.

`media_destroy` finds a comment broken; see
[below](#where-code-and-documents-part).

### Bounds

* *Hub: CIDs.* Three make a room of capacity 2 refuse somebody and one of
  capacity 3 full. A CID stays used once issued, so with `n` CIDs a behaviour has
  at most `n` identities, each of which may reconnect without bound. Two suffice
  where the same identity comes back (`hub_live`, `locks`).
* *Hub: transports.* Two make a reconnect race its old transport; more
  participants than transports are suspended ones. No run has three attached
  participants, nor two rooms; the theorems cover any number of both.
* *Hub: capacities.* 2 is a legacy client and 3 a group-capable one; the real 4
  adds no comparison. `ServerLimit` clamps nothing that is asked for in these runs.
* *Hub: epoch.* `EpochModulus` stands for 2^64. 3 is enough to tell an epoch from
  the next two, and no handler bumps it more than that for a room that survives.
  `EpochAdvances` disregards a step after which the epoch is 1, the sign of a room
  made by that very step. 1, in `locks`, means the epoch is left out.
* *Hub: goroutines.* `MaxInFlight` is 2: any two run together, in every
  interleaving of their sections. `Races` separates the kinds: ways to leave
  against joins, joins of different capabilities, losses and timers against
  joins; all at once are beyond TLC.
* *Engine.* Two rooms and two calls make a token of the wrong room, two seats a
  seat lost and another given. Two faults in the first call and one in the second
  make a fault during recovery from a fault; `FallbackAfter` 3 (the code's) and
  `PongMisses` 2 (the code's) are reached. `MaxEpoch` bounds the changes of the room.
* *Pairs.* A fault kind comes at most once; `Pairs` has two or three kinds
  together, `Singles` one or two for the more costly liveness. `MaxOffers` never
  binds, which `AnswersMatch` also asserts.
* *Session.* Four faults or changes of the kinds of a plan (`Calls`); two remotes
  make a roster in which one is gone and one suspended. Handlers that merely
  answer are free. `Sids` is empty of real ids: see below.
* *Media.* Two operations at once, six tracks in use, two legacy peers and a capable
  one. A plan says which operations a tab has and how often (`Tabs`): a share that is
  rejected by one peer while another joins, and shares started again while the one before
  is being stopped, are among them. Two peers of a kind tell one that was there from one
  that came later. `MicHeldOnce` is proved without these bounds.
* *Tracker.* Five polls, outages and ticks together, out of five readings on both
  sides of the bend of the rating.
* *Screen.* Up to three remotes, in four windows, wide and tall ones; a plan says which kinds of
  events happen. `call` and `view` are finite, so nothing else bounds a run.
* *Pages.* Five events (arrivals in rooms, lost connections, what users do), three
  valid rooms and one of the old form; lists of two, so that they overflow.
* *Symmetry* is used in `hub_safety` and `locks` only, which check no liveness.

`CHECK_DEADLOCK FALSE` is set where behaviours end: bounds on operations and
faults are used up (`engine`, `peers_*`, `session`, `media*`, `tracker`, `webapp`), and in `locks`,
where both transports may end attached and not registered
(`AttachedAreRegistered`, below), so that no transport is left to connect.
`hub_*` and `screen` check for deadlock.

### Fairness

* `hub_live`, `FairSpec`: a timer that stays armed fires, which the Go runtime
  guarantees, and a report that is not repeated goes stale, which is the passage
  of time. Nothing is assumed of clients. A callback that finds a fresh report
  arms the timer again without other effect, so in the model firing waits
  until the report is stale.
* `engine`, `LiveSpec`: weak fairness of `Progress`, the disjunction of what the
  browser's event loop and the server owe: a dial ends, timers fire, messages in
  flight are handled. Nothing is assumed of the user, of other participants or
  of failures, which `MaxFaults` ends.
* `peers_live`, `LiveSpec`: weak fairness of each handler, timer and browser
  operation of each end, separately, since one end must not starve the other; and
  that a lost transport reconnects. None of faults.
* Other runs check safety only.

## Proofs

The theorems hold for all values of the constants that satisfy the `ASSUME` of
the module they are about. Each module of proofs has an inductive invariant, a
lemma per operator of the model (what it needs of a state and what it gives
back), a lemma per action, `NextOK`, and the theorems. `tlapm` on each of
`RoomProofs`, `SignalingHubProofs`, `HubLocksProofs`, `SignalingEngineProofs`,
`SessionProofs`, `LocalMediaProofs`, `CallProofs` and `WebAppProofs` checks everything.
Every inductive invariant was checked with TLC, on its run's instance, before it was proved.

### The hub

`RoomAssumption` says that there are finitely many CIDs, that capacities and the
server's limit are at least 2, that `Nil` is no CID and no transport, and that the
modulus is positive; `HubAssumption`, that `Nil` is neither a room id nor a room, and
sizes asked for are at least 2. The inductive invariant is

    Inv == TypeOK /\ RoomsOK /\ SeatIsIdentity /\ MembersHoldTokens

* `RoomsOK` is `RoomOK` of every listed room. Its parts need one another: the
  host transfer needs the indexes to know that an active heir is a member, the
  eviction timers need them to know who is suspended, and dirty pairs and hints
  need to know that whoever returns was suspended.
* `SeatIsIdentity` is needed because a leave, a disconnect and a join give up
  the seat that `Client.rid` and `Client.cid` name. Were a transport attached
  elsewhere too, it would stay attached after it is gone.
* `MembersHoldTokens` is needed for fresh joins: the new CID is one no token was
  signed for, hence no participant's, and attaching it adds one to the
  cardinality.

`RoomProofs` has the lemmas about `Room`, also for the intermediate rooms (created
but empty, reattached but not seated). On top of `Inv`:

* `Current == PeersUpToDate /\ WatchersUpToDate` is inductive. The argument is
  about the directory: an update either leaves alone what `room_state` shows of a
  room, or ends in a broadcast to everyone seated there and everyone watching;
  the ghost's eviction and the implicit leave of a join do so one after the other.
* `TombstonesClosed` (a room with a tombstone is not listed) is what keeps an
  ended call ended: without it a seat taken before the end could be taken up again.
* `EpochAdvances` and `HostHandover` are action properties. A handler makes up to
  three updates, each of which advances the epoch by one, and `HostHandover` tells
  one room from the next of the same id by the epoch, so both are
  proved under `EpochIsWide`: the modulus is above 2 and not below the number of
  CIDs. In the code it is a `uint64`; with a small modulus a step could count
  round.
* `KeepsCalls` is the refinement of `Calls`. One room changes in a step, two if a
  join gives up a place elsewhere first. So each update of the directory is shown
  to be a change of one call (`DepartCall`, `SuspendCall`, `ReattachCall`,
  `AdmitCall`) and each handler a step of `Calls` or a stutter. Of a
  join: what it gives up leaves the calls as `Move` may (`VacatedGives`), and
  each of its six ends is a `Join` from there. It rests on `MembersHoldTokens` and
  `TombstonesClosed`: without them a return would change `keys` or `ended`.
  `KeepsCalls` says of the host what `HostHandover` says, and needs no epoch for
  it, so only the former is in a run; the latter is a theorem.

### The hub's critical sections

In `HubLocks` goroutines act on what they read before they released a lock, so the
invariant has to say what they may still rely on:

    Inv == TypeOK /\ FramesOK /\ Sound /\ Unseated /\ Reclaimed

* `FramesOK`: a handler at a place where it holds an object has one, and a join
  that is past its checks has the CID it will seat.
* `Sound`: of every object, listed or not, the indexes agree and the capacity is
  kept. It is weaker than `RoomOK`: an object that is being joined or ended may
  lack a host or an eviction timer.
* `Unseated`: a transport is in the listed room only as the participant it takes
  itself for, no longer once its handler has left that room, and in no seat of the
  room its join is about to enter.
* `Reclaimed`: whoever is suspended in the listed room will be reclaimed, by a
  timer that is armed or has fired.

`PlacesSurvive` follows; `LateDepartureHarmless` and `TimersSpareTheReturned` are
proved of each step from it.

### The engine

The page is `Busy` (a call is open; `Follows` and `AnswersOK` say what the answers on
their way will make of it) or `Rests`. The parts of `Busy` that carry the proof:

* `Line`: there is no connection attempt while the reconnect timer runs, and a
  late second callback finds the engine in one of the states in which it does
  nothing. It needs the hypothesis `FallbackIsPatient` (more than two
  consecutive failures before the fallback to SSE; `constants.ts:13` has 3): with
  two, a late callback would fall back while the timer of the first is pending.
* `Holds`: a token the engine has is of the seat a join would name, in the room
  it was issued for, and of no seat that was left. `StoreOK` says the same of the
  stored records, since a page load starts from them.
* `Follows`: once all of `down` is read, the client is the seat the server has,
  at the server's epoch. A rejection on its way makes the client another's, so the
  invariant has to follow the queue to its end.

### The session

Within a step a session passes through states that are not in order, since
`rebuildState` comes last. The operators between carry it from `Moving` (a roster or a
connection changed) through `Ready` (`updateRoomState` has tracked the
suspended) to `Settled` (rebuilt), unless the host, called back in the middle,
leaves: then it is `Gone`. The inductive invariant is that a session has `Ended`, with
every timer stopped, or is `Settled`, with the reconnect timer running while the
link is down and its content the newest delivered (`Covers`).

`NewestContentShown` is proved under `OneSender`: content states name no sender
session. So does the hosted provider, which relays `content_state` as the server
sends it (`SerenadaSession.ts:1205`); for providers that do name sessions the property is
false, see [below](#where-code-and-documents-part).

### Local media

    Good(s) == /\ s \in TabType
               /\ MicsHeld(s) /\ OneRefresh(s) /\ RefreshCurrent(s) /\ StartCurrent(s)
               /\ RequestsIssued(s) /\ IdleNowhere(s)

`MicHeldOnce` speaks of a tab at rest; `MicsHeld` is what holds during the awaits: an
open microphone is the stream's, or a swap under way will stop it. It is not
inductive alone. When `getUserMedia` brings another one, the old one must be what
the swap remembered before the await (`RefreshCurrent`), and no other
swap may be counting on the same call (`OneRefresh`, from
`audioRecoveryInFlight`); a start that is answered must find no stream
(`StartCurrent`). Both hold only of requests that are not stale, and for that
`mediaRequestId` must be above every request handed out (`RequestsIssued`), so that
`stopLocalMedia` and the next start make the earlier ones stale. `TabType` types
all fields, the pending `replaceTrack` calls of every peer included.

The operations that do not concern the microphone need none of this: they are shown
to give a `Quieter` tab (nothing opened, no call moved: peers, senders, flags,
stopped tracks, closed connections) or to move one call away from the microphone
(`Moves`: camera, shares, the attach of a start), and both keep `Good`
(`QuieterGood`, `MovesGood`). The model needed two changes first. The senders of
the capable peers are now attached by a function of one peer instead of a fold
over the peers; and `Close`, which had ended a start's attach at the first legacy peer
that closes, is right for several.

### The tracker

`CallProofs` proves everything the tracker's run checks, for any set of readings
(`TrackerAssumption`: gauges are natural numbers or null, packets are counted up) and
any bound on the polls.

* *Outages.* `CallTracker` implements `OutageLog`: initial states map to initial
  states and every step to a step of the log or a stutter. The invariant it needs
  says that an open outage belongs to a call that is live and is not yet counted as
  recovered, and that a failure is final. `DowntimeInv` adds that an outage is open
  exactly while the status is degraded, and began no later than now.
* *Packets.* `LossInv` relates each total, its baseline, the counter of the current
  connection and the truth: what was counted and what would be counted now, if it is
  not negative, is at most what was so.
* *Score.* `MosFalls`: the rating falls with each input, over the two slopes of the
  latency term; the score rises with the rating, although the cubic alone does not.
  Below a rating of 5 the polynomial, even before it is rounded, is under the floor of
  the score; above, it grows by more than the rounding of its cubic takes away
  (`Slope`, `Thousandth`).
* *Medians.* `MediansInv` says that each pair of heaps holds the samples that were
  heard: `HalvesOk`, the heaps are heaps, nothing in the lower half is above
  anything in the upper, and the lower is as long or one longer; and for every value as
  many elements up to it as samples (`Holds`). The counts are what makes them the same
  multiset. Then the heads are the middles of a sort (`KthIs`).

`siftUp` and `siftDown` recur over an index, so the lemmas about them need induction.
The library's induction theorems take an operator, which the provers here cannot
instantiate; `LeastNat` gets the least element of a set of numbers from the
well-foundedness of strict inclusion among finite sets, which is stated of a set, and
from it `WalkExists` (a recursive definition whose index gets nearer to an end
has a function that satisfies it) and `WalkEnds` (what each step preserves holds at the
end). `SiftUp` and `SiftDown` are instances of a walk. For that the two functions of
the model take the index alone and give a function of the array, instead of
taking both.

### The pages

    Inv == Watches /\ PageOK /\ camera typed /\ PreviewReleased

`Watches` relates the watcher, what is on its way in both directions, and the
server. `Asks`: what the server has the transport down for is what the page lists
or, once the last request is read, will be. `WillKnow`: the last news of a room
on their way, or what is known of it if there are none, are right. A request
changes what the first is about and a seat taken the second, and neither may rely
on the other being answered yet. Rooms whose update overtook an answer are
excepted from both the invariant and `MarksTrue`; the model shows when that is
possible.

### The screen

The last part of `CallProofs` is about the component on the call page, `CallView`,
for all plans that satisfy `CallViewAssumption`. (The tracker and the screen share no
state; `CallView` names its specification `ScreenSpec`, so that one module can be
about both.) Every step of the screen is a change of the session
and of the component's own state, followed by `Settle`; so one lemma about `Settle`
(`SettleOk`) shows that what the effects leave is truthful whatever the change was,
and each action needs only that it is such a change (`Change`). `BadgeOk`,
`WaitingOk` and `ControlsOk` are the parts of the invariant: they say more than
`OverlaysTruthful`, since an effect that does not run keeps an overlay whose timer
may fire later. `PinKept` needs that the tiles do not depend on the overlays
(`TilesSame`). For these proofs the effects of `CallView` were written
with `IF` where cases overlapped, and the removal of a stream without `SelectSeq`.

### The theorems

| Theorem | States |
|---|---|
| `InvHolds`, `TypeCorrect` | `Spec => []Inv`, `[]TypeOK` (hub) |
| `CapacityTheorem` | `[]CapacityHolds` |
| `SeatTheorem` | `[]SeatIsIdentity` |
| `RoomsTheorem` | `[]RoomsInOrder`: indexes, host, timers, dirty pairs and hints |
| `PeersTheorem`, `WatchersTheorem` | `[]PeersUpToDate`, `[]WatchersUpToDate`: every change is told to those it concerns |
| `EndedTheorem` | `[][EndedCallStaysEnded]`: nobody of an ended call gets back in while its tombstone lasts |
| `EpochTheorem`, `HostTheorem` | `EpochAdvances` and `HostHandover` of every step, under `EpochIsWide` |
| `CallsTheorem` | `Spec => KeepsCalls`: the hub implements `Calls` |
| `LocksInvariant` | `[]Inv` of `HubLocks` |
| `PlacesTheorem` | `[]PlacesSurvive`: places are neither sold twice nor lost |
| `LateDepartureTheorem`, `TimersTheorem` | what comes late to the lock harms nobody: `LateDepartureHarmless`, `TimersSpareTheReturned` |
| `EngineInvariant`, `TypeTheorem` | `[]Inv`, `[]TypeOK` of a tab, its storage and its server |
| `ConnectionTheorem` | `[]ConnectionManaged`: one of a connection, an attempt and a timer |
| `InStepTheorem` | `[]InStep`: answers read, the client is who the server seated |
| `TokenTheorem`, `LeftTheorem` | `[]OwnToken`, `[]LeftForGood` |
| `SessionInvariant` | `[]Inv` of a session |
| `TimersTheorem` (session) | `[]TimersStopped` |
| `SuspicionsTheorem`, `ContentTheorem`, `OutagesTheorem`, `NeverAloneTheorem` | `SuspicionsTracked`, `NewestContentShown` (under `OneSender`), `OutagesTracked`, `NeverAlone` |
| `MediaInvariant` | `[]Inv` of a tab's local media, its types included |
| `MicTheorem` | `[]MicHeldOnce`: at rest, the only open microphone is the stream's |
| `TrackerKeepsLog` | `Spec => KeepsLog`: the tracker implements the log |
| `TrackerConsistent` | `[]Log!Consistent`: recoveries and the open outage never exceed the outages counted, nothing is open once the call is over |
| `DowntimeTheorem`, `LossTheorem` | `[]DowntimeAccounted`, `[]LossNeverInflated` |
| `MediansTheorem` | `[]MediansAreMiddle`: the heaps give the median of a sort of what was heard |
| `QualityTheorem` | `[]QualityHonest`: packets, downtime, and a worse link never scores higher |
| `PagesInvariant`, `MarksTheorem`, `PreviewTheorem` | `[]Inv` of the pages, `[]MarksTrue`, `[]PreviewReleased` |
| `ScreenInvariant`, `OverlaysTheorem` | `[]ScreenInv`, `[]OverlaysTruthful` of the call's screen |
| `PinTheorem` | `PinKept`: a pin stays until the user or its tile goes |

### Only model-checked

* *Liveness* (`Settles`, `PairConnects`, `PlacesComeFree`): the prover has no rules for
  fairness and `ENABLED`.
* *`RecentsAreLatest`*: the lists are built with `SelectSeq`, of which the prover knows
  nothing, and so is the reference they are compared with.
* *`SendersFollowStream`, `ShareReaches`* (media): not proved.
* *`EveryStreamOnce`, `StageFits`, `FrontHonest`* (screen): they follow a stream through
  `SelectSeq` and the layout, or measure the rectangles of a filmstrip.
* *`NeverStranded`, `AnswersMatch`* (negotiation): not proved.

## Where code and documents part

`media_destroy` ends in a counterexample. `SerenadaSession.ts:633` says of
`destroy` "Clean up all resources". When the session is destroyed while
`reacquireVideoTrack` awaits the camera, the local stream is gone when the
camera comes, and `swapLocalVideoTrack` (`MediaEngine.ts:2295`) returns without
keeping or stopping it: it stays on, and nothing refers to it.

The definitions below, which no run lists, state further promises that the code
breaks; to reproduce one, list it in the run's configuration.

| Definition | Configuration | What the counterexample shows |
|---|---|---|
| `HubLocks!AttachedAreListed` | `MCHubLocks_races.cfg` | `removeClientFromRoom` (`signaling.go:2128`), `hardEvictSuspended` and `evictByLeave` unlock the emptied room and then delete `h.rooms[rid]`, whatever it is by then. A join in between is `joined` to a room that is not listed: its messages find no room, and peers get another one. `docs/serenada_protocol_v1.md:92`: a room "exists only while participants are connected (deleted when empty or when host ends the room)". |
| `HubLocks!AttachedAreRegistered` | the same, `StreamClients = {c1, c2}` | A join attaches its transport (`signaling.go:1198`) without looking whether the hub still knows it. If its disconnect came in between, the participant stays active on a dead transport, with no timer; the comment at `:1878` says "A hard-eviction timer reaps the record if the client never reconnects". |
| `HubLocks!TombstoneOutlastsEnd` | `MCHubLocks_races.cfg` | A join that found the room before `end_room` deleted it clears (`:1313`) the tombstone just recorded; the comment at `:1581` says why the tombstone is kept. |
| `HubLocks!WindowIsKept` | `MCHubLocks_races.cfg` | A fired eviction callback that waits for the lock (`:1994`) does not notice that the participant has come back and gone again, and evicts it at the start of its new window; the comment at `:31` promises the whole window. |
| `SignalingHub!EpochAdvancesOnSuspend` | `MCSignalingHub_safety.cfg` | A reconnect refused for capacity (`:1144`) that evicts the transport still attached suspends the participant and broadcasts it under the old epoch, which by the comment at `:319` advances on "every membership-mutating operation". |
| `SignalingHub!SuspensionsEnd` | `MCSignalingHub_live.cfg`, `LivenessClients = {c1, c2}` | Each time the eviction timer fires while a report is fresh it is armed again (`:2001`), without bound; `docs/serenada_protocol_v1.md:794` says a report "never extends the slot indefinitely". |
| `PeerNegotiation!TracksNegotiated` | `MCPeerNegotiation_live.cfg`, `Plans <- Tracks` | A request for a negotiation that meets a connection that is not stable is dropped (`MediaEngine.ts:2964`), and the requester's tracks stay unnegotiated; `docs/serenada_protocol_v1.md:757` has the owner answer it with an offer. |
| `PeerNegotiation!PairConnects` | `MCPeerNegotiation_live.cfg`, `Plans <- HostGone` | With `deferInitialAnswer`, a host that leaves before the first answer was received leaves an owner that defers for ever (`MediaEngine.ts:1827`, `:1925`). |
| `LocalMedia!LegacySendersRestored` | `MCLocalMedia_safety.cfg`, `Plans <- Refused` | A share that could be attached to nobody is taken back (`MediaEngine.ts:725`) without a sender being touched, and the count goes by the peers it began with: when its only viewer rejects it, a legacy peer that joined meanwhile, whom `attachActiveShareToLegacyPeer` had routed the display, is left on the ended display in place of the camera. The comment at `:724` says "Restore any legacy senders we touched". |
| `LocalMedia!LegacyCameraRestored` | `MCLocalMedia_safety.cfg`, `Plans <- Flipped` | Camera operations skip legacy peers while `isScreenSharing` (`MediaEngine.ts:2265`), which falls only after the awaits of the stop. A flip that completes after `restoreLegacyPeerCameraTrack` and before that stops the old camera and skips the legacy peer, which is left on it. The comment at `:2260` says that the stop "restores its camera when the share ends, after which camera ops affect it again". |
| `CallView!LostAreHidden` | `MCCallView_screens.cfg`, `Plans <- Losing` | The roster is filtered, but the tiles of a call of several are made from all the streams of the session (`SerenadaCallFlow.tsx:386`), and a remote presumed lost keeps its tile. The comment at `:371` says that "for the active grid they should be invisible". |
| `Session!NewestContentShown` | `MCSession_calls.cfg`, `Sids = {NoSid, s1}` | A live state that names its sender session is undone at once: the rebuild that it causes applies the roster's older snapshot again, and the snapshot names no session, so that it counts as a new one whatever its revision (`SerenadaSession.ts:1221`). The comment at `:1305` says that "a stale snapshot never overwrites a higher tracked live revision"; only a provider other than the hosted one can name a session. |

Noticed while modelling, and left to the reader:

* *Server.* A second `join` on a seated transport, which client retries and SSE
  takeovers send, is first an explicit leave: the host moves, although the
  comment at `signaling.go:1112` has it stay. A join seated while `handleEndRoom`
  is between collecting its clients and clearing the room gets no `room_ended`
  and is wiped (`:1551`). In the window of a join with a ghost (`:1205`) the
  participant may be removed, and its CID becomes host of an empty room. A
  provisional room whose creator returns with a smaller capability may lock
  above it (`:992`). A stream that disconnects with a takeover pending leaves
  the entry behind (`sse.go:127`).
* *Engine.* `room_state` with a lower epoch is adopted (`SignalingEngine.ts:403`)
  although the comment at `:66` calls it monotonic; the server may reorder
  snapshots, so the roster may be stale until the next one (`InStep` allows
  just that). Initial and refreshed TURN credentials count generations apart, so
  an older answer may be installed last; a failed refresh schedules no other.
* *Negotiation.* A deferred first offer that is lost is not retried. Candidates that are
  buffered while an answer is being applied may not be drained. An owner
  without media never offers.
* *Media.* Concurrent camera operations can orphan a live camera; a toggle during
  a reacquire leaves it on against the comment at `MediaEngine.ts:516`; a flip
  with the camera off turns it on. The first attach of a
  legacy peer that awaits its microphone while the camera is swapped ends on the old
  track (`missed` in the model, which `SendersFollowStream` and `ShareReaches` except).
  A legacy peer that joins while a share is being stopped keeps the ended display. A share begun
  while the one before is being stopped
  loses its display to the end of that stop, and a legacy sender is left on
  it. A share stopped during its own start announces
  `active` last. Rejections of the audio sender and of legacy
  senders are only logged (`missed`, too).
* *Session.* A `destroy` inside a state callback of `handleJoined` leaves the
  liveness interval running; nothing checks that the session is still alive
  after the permissions await (`SerenadaSession.ts:1662`). A custom provider
  that never answers a re-join is not timed. A content state that comes
  before its roster is dropped.
* *Screen.* The component follows content states the session
  drops as stale. A pinned local tile survives the change to one remote.
* *Pages.* A created room is opened wherever the user has gone meanwhile. A
  reload during a call does not record it. Entries with old room ids take a
  slot of the history. Renaming from a stale list brings back a room removed in
  another tab. A failed unsubscribe of push leaves the toggle stuck.

## Not modelled

* *Content.* Display names, peer ids, media flags and message payloads: no
  decision that is modelled reads them. `media_state`, content updates and the
  token refreshes of the server change only these.
* *Queues.* In `SignalingHub`, `told` and `watchers` record the last thing
  queued; in the client modules messages are queued, and two snapshots may
  overtake one another. Send-buffer limits are left out.
* *Cryptography and clocks.* A token is valid, expired or invalid; a timer that
  is armed may fire at any time, so the order of two delays is not used. The
  cooldown that puts an ICE restart off (`MediaEngine.ts:1926`) is part of that; the one
  that drops a second request to restart media (`:2956`) is left out, and media stalls
  once in a plan, so that no run has a second request.
* *Room id validation and rate limits* refuse before any state changes. A join
  refused there still performs the implicit leave, as one with an invalid token
  does.
* *SSE takeover table*, grace periods and the stale sweep (`sse.go`): the hub sees
  their outcome. *TURN refresh*, in client and server.
* *Browser.* Which candidates connect, constraints, device choice, audio levels,
  captures of a frame, the ICE buffer's cap of 50; React's scheduling (renders and
  effects run to their end within a step); storage quotas and errors.
* *Rest of the pages and the screen.* Push, snapshots and their encryption,
  dialogs, toasts, styles, statistics and debug panels, join and permission
  screens, localisation. Presentation without state that outlives a render.
* *Android and iOS* are ports that obey the same protocol. *TURN, push, feedback,
  diagnostics* are computation and I/O.
* *Layouts* are whole numbers of sixtieths of a pixel: rounding differs from
  floating point by less than that. Safe-area insets are zero. Windows smaller than a filmstrip tile
  (about 120 by 90) are outside `StageFits`.

## Plan

In the order of what matters to a call:

1. Theorems: `AnswersMatch` and `NeverStranded` of `PeerNegotiation`,
   `SendersFollowStream` and `ShareReaches` of `LocalMedia`, `RecentsAreLatest`
   of the pages.
2. `SseSessions`: the session table of `sse.go`.
3. The refresh of TURN credentials, with its two generations.
4. `Session` shown to implement `OutageLog` as `CallTracker` does; the log must then
   allow a call to end in the step in which an outage begins, since the host may
   leave in the callback.
