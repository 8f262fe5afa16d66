# subraum: TLA+ models, model checks and proofs

subraum (RDOC-SquadLinkLite) is a push-to-talk voice tool for small squads: a
signaling server introduces clients to each other, and the clients then talk
peer to peer over WebRTC, with a pairwise post-quantum session per pair and one
group key for the audio of a room. This directory holds TLA+ models of the
parts of it that carry protocol state, the TLC runs that check them on small
instances, and TLAPS proofs of the properties that matter most.

Paths below are relative to the repository (`src/` is its root);
`PROJECT.json` maps every definition to the lines it models.

## 1. Inventory

### 1.1 Signaling server, rooms and sockets (`server/init/src/main.rs`)

State: `AppState.rooms` (room name -> user_id -> `PeerHandle`), `AppState.rekeys`
(time of the last rekey of a room), and per socket the locals of
`handle_socket` (`me`, `window`, `win_count`, the bounded `mpsc` queue) with a
writer task that drains the queue into the WebSocket.

Operations: Join (field checks, hard cap, takeover of an id by the holder of
the same secret, roster, soft-cap warning, TURN credentials), Offer/Answer/Ice
relays, Ptt, Rekey, Leave, and the cleanup after the read loop.

Hard: one task per socket, all sharing the rooms lock; a superseded socket
cleans up after its successor has joined; handlers that take two locks one
after the other; `try_send` into queues that may be full; a writer that dies
before its reader notices.

Correct when: nobody but the owner (or the holder of its secret) removes a
member; no ghost members and no empty rooms; caps hold; what a connected client
was told adds up to who is in the room.

### 1.2 Session broker, rate limiter, reaper (`server/init/src/sessions.rs`, `main.rs`)

State: sessions by share code (created, last_active, attempts, locked_at); one
(window start, count) per client address; a reaper that sweeps once a minute.

Operations: `create_session`, `join_session` (rate limit, then `create` or
`join_at`), the sweep (`reap`, then `prune`).

Hard: boundaries of windows and locks, an expired lock, sweeps between
requests, rooms that fill and empty between sweeps, one counter for two limits.

Correct when: the guess budget holds over any lock period; an address gets a
bounded number of tries through; no session outlives the cap; below it, a session
goes only when its room is empty and nobody was let in for the grace.

### 1.3 Group-audio keys (`apps/companion-core/src/crypto.rs`, `lib.rs`)

State per node: `RoomAudio` (`send`, `cur`, `prev`), the coordinator's
`room_gen`, one sleeping task per adopted key that promotes it after a grace.

Operations: `stage`, `promote`, `adopt`, `rotate`, `on_secure`, `on_room_key`,
`on_room_gen`, `seal_outbound`, `open_inbound`.

Hard: keys and generations arrive in any order; promotions overlap during a
burst; two authorities with different views may mint one generation.

Correct when: a node's own mint is always taken; the sealing key moves forward
and catches up; a burst no longer than the ring loses no audio.

### 1.4 The engine loop (`apps/companion-core/src/lib.rs`, `start`)

State: `members`, mute and volume settings, channel directory, reconnect state.
One `select!` over server frames, mesh events, promotions, audio, commands and
timers: nothing orders one source against another.

Interactions: server frames drive the mesh (`on_peer`, `on_left`, `rekey`) and
the key coordinator; mesh events (`Secure`, `RoomKey`, `RoomGen`) drive the
coordinator, which sends sealed frames back through the mesh.

Correct when: a settled room seals with one key that everybody has; a newcomer
never gets a key of past audio; a leaver has no key of later audio.

### 1.5 Mesh, handshake, pairwise session (`mesh.rs`, `crypto.rs`)

State: one peer connection per peer with its queue of early candidates, sessions
by peer, per-session counters and anti-replay bitmap, a `LinkDiag` per peer.

Operations: offer/answer/ICE with a glare rule, relink watchdog, KemHello and
KemReply, `seal`, `open`, `send_sealed`.

Hard: glare, teardown with frames in flight, a spawned task per handshake
frame, replay and loss.

Correct when: a frame is handed up at most once and never refused for another's
sake; both ends of a pair end up on one connection and one session, and neither
is shown a link that is dead.

### 1.6 Watchdogs and channels of the engine loop (`lib.rs`, `mesh.rs`)

State: per member `linked`, `down_since`, `last_relink`, `warned`; the keyless
episode; `my_channel`, the directory of channel names, tombstones, and the gate
`ChanState` that the receiving side of the mesh reads.

Operations: the net tick (rebuild, warn), `SetChannel`, `RemoveChannel`, the
announcements on an open data channel, `Channel`, `Channels`, `ChannelRemoved`.

Hard: the two ends have different retry intervals; events that reset parts of a
member keep coming; directories, deletions and switches cross each other; the
gate and the member list are written by different threads.

Correct when: the user is told of a dead link once, with a reason; one hears
exactly who is on the same channel; a deleted channel stays deleted; directories
agree and the exchange ends.

### 1.7 Session life cycle (`lib.rs`, `signaling.rs`, `serverless.rs`, shell, UI)

State: two slots of the shell (`engine`, `serverless`), the audio rig a call has
opened, the loop with its reconnect timer and backoff, the socket with reader,
writer and idle timer, the screen of the webview.

Operations: `connect`, `serverless_offer`, `serverless_accept_offer`, their
failures, disconnect, dialling inside the loop, terminal errors, the farewell.

Hard: every call awaits between a check and a store; a loop that dials takes no
commands; status events reach the screen late; drops race with everything.

Correct when: no microphone is left open without an owner, the screen shows what
runs, an outage ends and no command is lost.

### 1.8 Desktop shell, control server, UI (`apps/companion`)

State: held inputs and bindings, the merged push-to-talk sources, mute and latch
in the webview, controllers with their authentication and last snapshot, saved
volumes of ducked applications.

Hard: keys, controllers, the on-screen button and mute all write one flag, over
an event bus; bindings change while keys are held; a controller may vanish;
applications come and go while their volume is lowered; lengths are checked in
three programs and two units.

Correct when: the microphone is open only for who holds or latched it;
controllers show the truth; other applications get their volume back; what the
guards let in, the far end takes or the user is told.

### 1.9 Audio pipeline (`audio.rs`, `lib.rs`)

State: capture buffer, mix queues per source, playback ring, shared flags and
rates, the device thread with its streams; per-sample state of resampler,
dynamics and radio effect.

Hard: five threads without a common clock; devices switched while blocks are
under way; flags read twice within one frame; arithmetic at the limits.

Correct when: buffers stay bounded, the self test is not sent, devices survive a
failed switch, all threads end; the resampler does not drift, no peak passes the
limiter.

### 1.10 Start of the server and web pages (`main.rs`, `auth.rs`, `tls.rs`, `i18n.rs`)

State: certificate and key files, settings from the environment, the address a
request is charged to; language and size of a visitor, the Markdown renderer.

Hard: kills between two writes; empty, missing and malformed settings; proxies;
a choice that travels in links, headers and a cookie the browser may drop.

Correct when: a pinned fingerprint stays; only the invited get in; choices
stick; the changelog is well formed.

## 2. Modules

| module | models | kind |
|---|---|---|
| `InitServer` | rooms and sockets of the server, and the client's member list at the far end | component |
| `SessionBroker` | REST handlers, session store, limiter, reaper | component |
| `ServerStart` | settings, certificate files with kills, tokens and joins, charged address | component |
| `WebPages` | a visitor's language and size from page to page; the changelog renderer | component |
| `RoomAudio` | the rules of `RoomAudio` as operators | library |
| `KeyRing` | the keys of one node under any input | component, abstract spec of a node |
| `GroupKey` | the engine loops of all nodes of a room with server and mesh | composition |
| `AtMostOnce` | what a pairwise session promises | abstract spec |
| `PairSession` | counters and anti-replay bitmap of a session | component |
| `PeerLink` | two ends of a link: offers, answers, glare, candidates, rebuilds, handshake, member row | component |
| `LinkWatch` | the net tick: rebuilds, the warning with its reason, the keyless episode | component |
| `ChannelDir` | channels, directory, tombstones, receive gate | component |
| `ClientSession` | connect and 1:1 calls, the loop with its signaling, the farewell, the self-check | component |
| `PushToTalk` | keys, bindings, controllers, mute and latch to the transmit flag | component |
| `Ducking` | lowering other applications | component |
| `Boundary` | guards of the shell against the limits of server and peers | functions |
| `AudioPipe` | threads and buffers of the audio rig | component |
| `VoiceChain` | resampler, dynamics, radio effect, sample by sample | functions over streams |
| `MCInitServer`, `MCGroupKey`, `MCChannelDir` | bounds; in `MCGroupKey` also the refinement `GroupKey` -> `KeyRing` per node | instances |
| `MCParts` | `SessionBroker`, `ServerStart`, `WebPages`; `KeyRing`, `PairSession`, `LinkWatch`; `PushToTalk`, `Ducking`, `Boundary`, `AudioPipe`, `VoiceChain` | instance |
| `MCVoiceChain` | settings, levels and rates of `VoiceChain` | instance |
| `MCClient` | `InitServer`, `ClientSession`, `AudioPipe` with fairness | instance |
| `InitServer_proofs` | `InitServer` | proofs |
| `ServerParts_proofs` | `SessionBroker`, `ServerStart`, `WebPages` | proofs |
| `RoomAudio_proofs`, `GroupKey_proofs` | the ring's operators, `GroupKey` with its refinement | proofs |
| `KeyChannels_proofs` | `KeyRing`; `PairSession` and its refinement of `AtMostOnce` | proofs |
| `Connections_proofs` | `ClientSession`, `PeerLink` | proofs |
| `ChannelDir_proofs` | `ChannelDir` | proofs |
| `ClientParts_proofs` | `Ducking`, `VoiceChain`, `AudioPipe`, `LinkWatch`, `Boundary`, `PushToTalk` | proofs |

`MCParts` and `MCClient` hold components that share no state. A variable `part`
picks one of them in the initial state and the others stand still, so that a run
explores the sum of their states and not the product. Components that do
interact are composed for real: `GroupKey` takes server, engine loops and mesh
together, `PeerLink` both ends with signaling and data channel, `ChannelDir` all
members, `PushToTalk` keys, controllers and webview.

### InitServer

One step is one critical section under the rooms lock. `Join`, `JoinFull`,
`JoinIdInUse` and `JoinRefused` are the outcomes of the Join arm; `JoinTurn` and
`RekeyBroadcast` are the halves that run after a lock was released; `Cleanup` is
the code after the loop; `Write` and `WriterGone` are the writer task; `view[s]`
is the `members` map of the client, changed only by delivered frames. `handle`
is the map of rooms flattened to a function, with `rooms` holding the keys that
exist, so that an empty room entry is a state of the model. A frame is its kind
and the users it names; field lengths and token checks are the one refusal
`JoinRefused`. `lost[s]` records that a full queue dropped a frame for `s`:
properties about member lists are stated for clients that were not overrun,
since dropping is what `try_send` is there for. A socket is used once.

### SessionBroker

A handler is one action that counts the request in the limiter and then creates
a session or tries a PIN; `JoinOverlong` is the answer to a field of the wrong
length, for a live code too, which the limiter counts and the session does not.
`Reap` does both halves of the sweep. The clock ticks only when the sweep is not
due: the reaper is assumed to run within the second its interval fires, which
`ReapsInTime` depends on. Whether the room of a session has members changes
freely (`RoomFills`, `RoomEmpties`). `guesses`, `pin_tries` and `life` are
history variables; `life` knows when the room of a live session last filled and
emptied and when a PIN was last right. `last_active` moves at a sweep that finds
the room occupied and at a right PIN, not when the room empties, so a session
whose room filled and emptied between two sweeps may go at the next one:
`SurvivesGrace`, the grace as `sessions.rs` words it, is violated (run `grace`).
`ReapsInTime` says what a session does get: below the cap it goes only if its
room is empty and no right PIN came for the whole grace; when a sweep saw the
members, the grace since they left is cut short by less than a period; and it
outlives neither the cap, nor the grace since its last member and last right
PIN, by a whole period.

### RoomAudio and KeyRing

A key is (generation, minting authority). `KeyRing` lets any key be offered at
any time; it is the abstract specification of a node, and `EachNodeIsAKeyRing`
checks that in `GroupKey` every node goes through its steps only. Grace timers
are a sequence of ticks; with `SameTick` two timers may share a tick and then
fire in either order.

### GroupKey

Each node has a FIFO `inbox` of server frames, a FIFO `chan` per peer of mesh
events, and its timers; the three are not ordered against each other. Server
actions (`JoinRoom`, `ServerNotices`, `Tell`) are what `InitServer` promises:
one order of joins and departures for everybody, with a supersede on rejoin.
`OnRoster`, `OnPeerJoined`, `OnPeerLeft`, `OnRekey`, `OnSecure*`, `OnRoomKey`,
`OnRoomGen` and `OnPromote` are the arms of the loop, each whole: member list,
mesh teardown, rotation and the sends that follow. A link opens (`Connect`) with
the larger id holding a session first and the reply in flight; a teardown loses
what is in flight, and keeps or loses what had arrived. With `Overtake` a sealed
frame can arrive before the handshake reply sent ahead of it.

A *scenario* bounds the users: who is already there (with a settled key), who
may leave, how many rekeys, signaling losses and link failures occur. All
orders of everything else are explored.

### PairSession and AtMostOnce

`recv_window` is the set of bit positions that are 1. Frames stay in `sealed`,
so each may be opened again at any time, in any order, or never; `OpenAltered`
is a frame that passes the window and fails to decrypt, with any number. `opened`
holds the numbers handed up and `handed` counts them, so that a repeated
delivery is a step of its own and not a stutter of `AtMostOnce`.

### PeerLink

`node[p]` is what one end holds for the other: the peer connection (`pc`), the
session and the pending handshake, the row of the member list, the queue of
reports. `sig` is the signaling server's relay, in order; `dc` the data channel
of a connection, whose frames are lost with it. `OnOffer`, `OnAnswer`, `OnIce`
and the reports are whole arms; `Begin`, `Close`, `Relink` and
`AddOrQueueIce` are the functions of `mesh.rs` they call. A connection is an id;
its candidates are one frame, sent before or after its description. Faults cost
from a common budget: a lost frame, a connection that fails or flaps, signaling
lost, a process restarted, a rekey, a retry earlier than what is in flight. After a
restart the server refuses the id until the old socket is cleaned up; in the model
the process then joins that much later.

### LinkWatch

Time is counted in ticks of the 2 s interval. The events that touch a member (its
link comes up or drops, a Roster, a departure, a dead-link report, a rekey) come
in any order; `NetTick` is the whole tick. `told` is history.

### ChannelDir

A name is ten times its channel plus its spelling; `Canon` is `canon_channel`.
An announcement passes through the data channel (`dc`), where the callback
writes the gate (`heard`), and then through the event queue (`ev`), where the
loop writes the row; server frames take a third way (`inbox`). `late` holds
announcements of a freshly opened channel that still sit in their own task. When a
process is kept and its signaling connection is not, the others see it leave and
join, or only join, as the server noticed in time or not.

### ClientSession

A member of `Call` is one click on connect or on the 1:1 mode. Each await of the
call is a place where another step may come: `Ask`, opening the rig, dialling,
`Store` or a failure, which `GuardedReturn` describes for all early returns.
`sess[c].loop` is the engine loop, `link` its socket (`silent` is a connection
that died without closing), `armed` and `backoff` the reconnect timer. `ui` is
the webview; `status` the events it has not seen. `mixed` marks histories with
both modes at once, for which no doc says what the screen should show.

### PushToTalk, Ducking, Boundary

`Packet` is one raw-input packet: the held set changes, each edge goes through
`HandleRaw` (a capture, or `MatchPtt` and the cycle bindings), events go out.
`raw.src` merges keyboard and controllers. `MicIsSafe` is about silence: nobody
transmits who does not hold, latch or click. That whoever holds is heard is not
checked, since two keys or controllers share one flag and the first release ends
it. `bus` is the Tauri event bus to the webview, `out` the commands forwarded to
it by controllers. `Boundary` has no concurrency: one call and its fate, with
lengths and numbers at and around every limit. A text is its number of
characters with the bytes of one of them, raw and in JSON: quotes, backslashes
and line feeds take two bytes there, other control characters six, and chat
lines may contain them. `Framed` adds the envelopes and, when the session seals
the line, base64.

### AudioPipe and VoiceChain

One action per pass of a thread through its loop, split where a shared flag or
buffer is read again. Captured audio is counted in blocks, frames are 20 ms, a
device's rate is the number of units a frame takes in its ring. `VoiceChain` has
fixed-point versions of the per-sample stages: thousandths of full scale,
smoothing coefficients in eighths, the phase of the resampler exact. `SetDsp` moves
switches, thresholds, ratio, makeup and ceiling between any two samples, within
the limits of `normalize_dsp()`; a stage keeps its state across it.

### ServerStart and WebPages

A generated key pair is a number; a file is absent, torn, or holds half of a
pair. `Kill` may come between any two writes. A token is the pair of room and
secret. In `WebPages`, `NavQuery`, `SetsCookie` and the choice from query, cookie
and Accept-Language are the functions of `i18n.rs`; the renderer consumes one
line per step (`ListGoesOn` decides what continues a list).

## 3. Runs

| run | checks | shows |
|---|---|---|
| `rooms` | `TypeOK`, `BoundsRespected`, `NoEmptyRoom`, `NoGhostMember`, `NoHiddenParticipants`, `OnlyOwnerEvicts` | joins, takeovers, refusals and cleanups of three sockets in every order |
| `parts` | `PinBudgets`, `ReapsInTime`, `PinsStayGood`, `ServedRight`, `PagesHold`, `MintIsTaken`, `LagsOnlyByGrace`, `BurstStaysOpenable`, `LateFrameAccepted`, `DeliversAtMostOnce`, `UserIsTold`, `MicIsSafe`, `SnapshotFresh`, `DuckingIsUndone`, `GuardsSuffice`, `RigIsSafe`, `ChainIsSound` | the parts that share no state, each by itself: REST handlers and reaper, starts and kills, pages; keys and promotions at a node, loss, repetition and alteration of frames, outages under the watchdogs; the desktop client and its audio |
| `promises` | `NoHiddenParticipants`, `NothingLeftOpen`, `ScreenIsTrue`, `ListsCatchUp`, `OutageEnds`, `RigEnds` | what must come to pass: member lists with relays, PTT, rekeys, rate windows and short queues; calls that race each other, failures, disconnects, outages; the end of a rig |
| `form` | `EachNodeIsAKeyRing`, `Settles` | three nodes form a room while a link fails |
| `inuse` | `OneKeyWhenQuiet`, `HandsOutOwnKeys`, `FutureSecrecy`, `ForwardSecrecy` | four stories of a settled room |
| `link` | `LinkIsTrue`, `Recovers` | a link under faults, restarts, rekeys and both watchdogs |
| `channels` | `GateIsTrue`, `DirectoriesAgree`, `FallsSilent` | switches and deletions that cross, links that break, processes that restart |
| `handover` | `OneKeyWhenQuiet` | **violated**: the authority leaves |
| `refused` | `CanJoinAgain` | **violated**: a session the server refuses |
| `grace` | `SurvivesGrace` | **violated**: a room that fills and empties between two sweeps |
| `peak` | `NoPeakEscapes` | **violated**: a change of the ceiling and two samples |
| `names` | `AdmittedIsTaken` | **violated**: a display name of multi-byte characters |

Several of these are conjunctions of named parts that belong together; the parts
are defined, with a comment each, right above them: `PinBudgets` (`GuessBudget`,
`TryBudget`), `ServedRight` (`OnlyInvited`, `ChargedToSender`), `PagesHold`
(`LanguageSticks`, `SizeSticks`, `WellFormed`), `UserIsTold` (`DeadLinkIsTold`,
`ReasonHadTime`, `KeylessIsTold`, `NoRebuildStorm`), `LinkIsTrue` (`TypeOK`,
`LinkedIsTrue`, `OneSession`), `DirectoriesAgree` (with `TypeOK`, `NoZombie`),
`NothingLeftOpen` (`ClTypeOK`, `MicHasOwner`, `NoGhost`, `ProbeHonest`),
`OutageEnds` (`SignalingResumes`, `CommandsAreTaken`), `MicIsSafe` (`PttTypeOK`,
`HeldToTransmit`, `NoHotMic`, `MutedIsSilent`), `DuckingIsUndone` (`DuckTypeOK`,
`VolumesComeBack`, `NoCompounding`), `GuardsSuffice` (`FieldsAreTaken`,
`FullFramesFit`, `NoSilentLoss`, `SettingsStayUsable`), `RigIsSafe`
(`BuffersBounded`, `SelfTestStaysHome`, `NeverDeviceless`, `RatesSettle`,
`QuietPeersForgotten`), `ChainIsSound` (`NoDrift`, `EscapesByOneStep`,
`OnlyMakeupAmplifies`, `HoldsBriefly`), `ReapsInTime` (`ReapsNotEarly`,
`ReapsNotLate`).

`MCChannelDir` also holds two assumptions that `channels` evaluates: the operators
of the directory agree with the filter and the loop they stand for.

Every property of a passing run has a mutant in `PROJECT.json` (a dropped guard,
an off-by-one, a missing reset, a swapped order) under which the run finds it
violated. Mutants stand right before the definition they change.

### What the violated runs show

* `handover`: the successor sends its key once, when it processes `PeerLeft`.
  A member that has not processed its own `PeerLeft` yet does not regard the
  sender as the authority and drops the key; nothing sends it again.
* `refused`: a terminal error ends the engine loop, which reports that it is not
  connected, and the webview shows the start screen. The `Engine` stays in the
  shell's slot, so the next connect answers "already connected".
* `grace`: a session is created and reaches the age of the grace with nobody in
  its room; members come and go; the sweep then finds the room empty and a
  `last_active` that is as old as the session.
* `peak`: the limiter compares the kept gain with the gain the sample needs and
  lowers it only when it is higher. A sample that needs just the kept gain, or
  anything between it and the next step of the release, finds it released.
* `names`: the shell admits a name by its characters, the server by its bytes.

`ReapsInTime`, `EscapesByOneStep` and `GuardsSuffice` say of the last three what
does hold: how much of the grace is left, how far a peak gets, and for which texts
the limits agree (names of at most 64 bytes; full frames whose characters take up
to three bytes in JSON; everything else without exception).

### What the passing runs leave out, and why

Some situations break a property. They are in the models and are switched off by
a constant or a scenario, so that the runs say something about everything else:

| switched off by | situation | fails |
|---|---|---|
| scenarios of `MCGroupKey` without the authority's departure | as in `handover` | `OneKeyWhenQuiet` |
| `Overtake = FALSE` (with scenario `LateAuthority`) | the KemReply leaves from a spawned task, the generation report from the loop; a report that arrives first is dropped, and the late authority starts at a generation the others reject | `OneKeyWhenQuiet` |
| no reconnect of the authority while a newcomer arrives (scenario `Rejoining`) | the Roster arm rotates for members that are gone, not for new ones: the newcomer is handed the key of earlier audio | `FutureSecrecy` |
| no leavers while the first key is made (scenario `Departing`) | a `RoomKey` event queued before its sender's `PeerLeft` passes `is_authority_peer` | `ForwardSecrecy` |
| the same, with the authority among the leavers | the successor, which has made a key of its own, takes the late one and hands it on; the label of a key then no longer says which key it is, and the other properties of keys say nothing | `HandsOutOwnKeys` |
| `SameTick = FALSE` | of two promotions in one tick the older may land last and stay | `LagsOnlyByGrace`; with a second rekey in the scenario also `OneKeyWhenQuiet` and `ForwardSecrecy` |
| `Overtaken = FALSE` | an announcement on open leaves after a newer one: a member is heard on the channel it left | `GateIsTrue` |
| `Speaker` without the names of the rig's own queues | the self test and the cues are mixed under fixed names; a member whose id is one of them fills its queue past its bound | `BuffersBounded` |
| `RendersFirst = TRUE` | two deep links before the webview renders: both pass the check, the farewell of the replaced engine knocks the screen off the running one | `ScreenIsTrue` |
| `Careful = TRUE` | a controller vanishes with push-to-talk held, or a key is pressed while its binding changes: the release never comes | `HeldToTransmit` |

The first six were found with the configuration of `handover` by giving
`Scenario` the scenario named (and with the property named as the invariant), or
with `MCParts_parts.cfg`; the others by turning the constant round
in the configuration of the run.

### Bounds, and why they are enough

* `rooms`: three sockets and ids with a hard cap of two give a full room, a
  takeover in it, a second takeover, and the cleanups of all three; two secrets
  tell a rightful takeover from another's. One frame per socket is the join; or,
  with one socket whose window is used up, two sockets of which one goes on into a
  second window and relays, talks or rekeys. Sockets, ids and secrets are symmetric.
* `parts`. Broker: one session (sessions do not interact), one address (its
  tries are limited, those of several are limited each for itself), a life of
  six seconds, sweeps every two, windows of two and locks of three: each
  boundary falls on, before and after a sweep. It runs twice, guessing for seven
  seconds without members, and for ten with members and at most one PIN, which is
  enough for a room to fill and empty between two sweeps and across one.
  `Saturated` bounds the limiter's count. Start: four starts with three kills cut
  every write of a start and of the one that repairs it. Pages: four clicks go
  through every page twice; four lines of changelog hold a list between any two
  other kinds of line. Keys: two authorities, two slots, five generations: bursts
  longer than the ring, ties within a generation, promotions whose key has left
  the ring. Sessions: a window of three and nine numbers: frames on, inside and
  outside the window, jumps of more than a window. Watchdogs: twelve ticks pass
  the warning and two rebuilds of the offering side; one peer on each side of the
  glare rule. Desktop: four packets press and release a chord with its modifier in
  any order, two controllers with four steps authenticate, hold and leave; four
  ducking edges are two transmissions; lengths at, below and above each limit;
  three blocks overflow a buffer of size two, two requests switch a device during a
  switch or monitor and transmit at once. Samples: twelve are several periods of each rate; four levels
  through the chain under the default knobs and two others, a low ceiling after
  the highest makeup and hardly any processing, with one change between four
  samples and two between three.
* `form`, `inuse`, `handover`: three nodes are the least with an authority, a
  successor and a third party. `ROOM_GEN_BOUND` keeps its value (1024) and is
  not reached.
* `link`: a fault budget of two (a restart, a lost frame and so on, by weight)
  is the least for a rebuild that is itself disturbed; nine ids are more than
  can be in use at once, two early candidates fill their queue.
* `channels`: three members with two commands, two with three, and two with a
  fault around a switch; two canonical channels and the default, one of them
  spelled in two ways; a directory of two names and one tombstone are full at
  once.
* `promises`: member lists with two sockets, two frames each and queues of
  three, one of the clients through a second rate window; two calls of either
  kind, one whose signaling fails five times (the backoff reaches its cut), and a
  self-check; a rig with one block and one click. No symmetry, since the run
  checks liveness.
* `grace`, `peak`, `names`: the bounds of `parts`, cut down to what the
  counterexample needs.

Deadlock is not checked: every user may be gone, or every bound be used up.

### Fairness

`InitServer` (`ListsCatchUp`): weak fairness of cleanup, of the second half of a
handler, and of the writer. The runtime polls every ready task, none of these
waits for a lock across an await, and a writer that cannot write is
`WriterGone`. No fairness of clients: they may stop sending.

`GroupKey` (`Settles`): weak fairness of what a node has to do (`Handle`: a
queued frame or event, a grace timer, a link the mesh rebuilds) and of the
reconnect. tokio's `select!` picks among ready arms at random, the relink
watchdog retries a dead link and the reconnect timer is rearmed. Joins, leaves,
rekeys and failures are not fair; they are bounded by the scenario.

`PeerLink` (`Recovers`) and `ChannelDir` (`FallsSilent`): weak fairness of
`Progress`, the disjunction of everything the code does by itself: as long as
something is queued or due, something happens. It does not say which, so the
properties hold for every scheduler. In `PeerLink` the ordinary watchdog waits
until nothing is in flight (its intervals are seconds, a negotiation takes less);
earlier retries are faults and bounded.

`ClientSession` (`OutageEnds`): weak fairness of the redial timer, of a dial
(which has a timeout of its own) and of the idle timer; strong fairness of the
arms of `select!` that receive, take a command or leave, because the loop keeps
coming back to the `select!`, which picks at random, and is away while it dials.
A server that never answers again is excluded by the budget of faults only.

`AudioPipe` (`RigEnds`): weak fairness of every thread. No fairness of devices:
a stream may stop capturing or playing.

## 4. Proofs

TLC settles a property for the instance of its configuration; the theorems below
hold for every value of the constants that satisfies the `ASSUME`s of the
modules, and where a theorem has a hypothesis of its own it is named. Each safety
theorem follows one pattern: an inductive invariant, that the initial states
satisfy it, one lemma per action (or one for actions that look alike) that the
action keeps it, and the property as a consequence. New invariants were run by
TLC first, on the bounds of the run that checks the property.

| property | theorem | hypothesis |
|---|---|---|
| `TypeOK`, `NoGhostMember`, `NoEmptyRoom`, `OnlyOwnerEvicts` | `TypeCorrect`, `NoGhosts`, `NoEmptyRooms`, `OwnersEvict` | |
| `BoundsRespected`, `NoHiddenParticipants` | `CapsHold`, `NobodyHidden` | |
| `ReapsInTime`, `PinBudgets` | `ReaperInTime`, `PinGuessesBounded` | |
| `ServedRight`, `PinsStayGood`, `PagesHold` | `DoorIsKept`, `PinsAreKept`, `PagesAreRight` | |
| `MintIsTaken`, type of the ring | `MintAlwaysTaken`, `TypeCorrect` | |
| `LagsOnlyByGrace`, `BurstStaysOpenable` | `GraceOnly`, `BurstSurvived` | `~SameTick` |
| every step of a room is a step of `KeyRing` | `KeysMoveAsRings` | `Gen` is every generation |
| `EachNodeIsAKeyRing` | `RoomOfKeyRings` | the same, rooms that start empty |
| `HandsOutOwnKeys`, `FutureSecrecy` | `OwnKeysOnly`, `NoOldKeys` | `OnlyGrows` |
| `OneKeyWhenQuiet`, `ForwardSecrecy`, while `InReach` | `OneKeyOnceSettled`, `NothingForTheDeparted` | `AuthorityStays`, `~SameTick`, `~Overtake` |
| `LateFrameAccepted`, `DeliversAtMostOnce` | `LateFrames`, `AtMostOnceDelivery` | |
| `GateIsTrue` | `GateFollows` | `~Overtaken` |
| `DirectoriesAgree` | `DirectoriesConverge` | |
| `NothingLeftOpen` | `NothingStaysOpen` | |
| `ScreenIsTrue` | `ScreenFollows` | `RendersFirst` |
| `LinkIsTrue` | `LinkShowsTruth` | `IdsSuffice` |
| `DuckingIsUndone`, `ChainIsSound`, `GuardsSuffice` | `VolumeReturns`, `ChainKeepsItsPromises`, `GuardsAreEnough` | |
| `RigIsSafe` | `RigKeepsRunning` | `OwnQueues` |
| `MicIsSafe`, `SnapshotFresh` | `MicIsTheUsers`, `ControllersAreCurrent` | `Careful` for the first |
| `NoHotMic`, `MutedIsSilent` (parts of `MicIsSafe`) | `MicObeys` | |
| `UserIsTold` | `OutagesAreTold` | `Intervals` |

### Server

`InitServer_proofs`. `ServerInv` is `TypeOK`, `NoGhostMember`, `NoEmptyRoom` and
`Joined` (a socket has a user exactly when it has a room). The parts need each
other: `Cleanup` deletes the room when the leaver was the last one in it, which
keeps the map exact only because a handle that is mine lies in the room I joined;
a refused join leaves the map exact because a room that is full, or that holds
the id, is not empty (`HARD_CAP > 0`). `OwnersEvict` is the action property, from
the invariant: the handle that `Cleanup` removes is its own. `CapsHold` counts:
the members of a room change in a join into a room below the cap, in a takeover
(same ids), and in cleanups. `NobodyHidden` needs `Synced`: the frames queued for
a member, read in order from its present view (`Sees`), end in the membership of
its room, for each id by itself. A join is the hard step: the roster of the
newcomer replaces what was queued before, and everybody else gets one frame.

`ServerParts_proofs`. `ReaperInTime` has an invariant for each live session that
relates it to its `life` (`LifeOk`): at the last sweep its age was below the cap,
and if its room was empty then, less than the grace had passed since the last
right PIN or the last member; `last_active` is as late as that sweep when members
were there before it, and never later than the last of these events when they are
not. `LastSweep` is the time of the sweep before, from `now`, `due` and the
period, so that the next one is never further off than a period. The theorem needs
caps and periods of at least a second, which `SessionBroker` assumes.
`PinGuessesBounded` has an invariant for each half: the wrong PINs since
the last lock are as many as `attempts` and older ones lie before a lock; the
tries of an address lie in the present window, as many as its counter says, or in
the one before it. `PinsAreKept` says what a kill may leave on disk at each write
(`FilesInv`); `DoorIsKept` that settings read once are those served.
`PagesAreRight` follows a visitor from page to page: what was chosen last is what
is shown, and the size is also in the cookie of a browser that keeps it
(`ChoiceKept`). For the renderer it reads the tags written so far by position:
`Inside(h, k)` says whether the tags before `k` leave a list open, and `in_ul` says
so of the whole (`DocInv`), so that each line writes an item only inside a list and
closes the list before anything else. That holds for a changelog of any length;
the Accept-Language headers of the visitors are the small set `WebInit` names.

### Keys

`RoomAudio_proofs` holds the lemmas about the operators of the ring (`MaxOf`,
`Better`, `Truncate`, promotion) that both key modules cite. `KeyChannels_proofs`:
`RingInv` adds to the types that no key in the ring or in use is above
`room_gen`; `GraceInv` says that the last outstanding promotion is that of the
newest key, and that with none outstanding the sealing key is the newest;
`BurstInv` matches the outstanding promotions, from the last one back, with the
slots of the ring, so that the sealing key is among them while a burst is no
longer than the ring. TLC finds `LagsOnlyByGrace` violated without `~SameTick`
(section 3).

`GroupKey_proofs`: `KeysMoveAsRings` is the refinement step by step: whatever
arrives, the ring of a node adopts a better key, promotes a staged one or stays.
It needs the types of all queues (`Typed`), and that `Gen`, which bounds the
generations for TLC, excludes none. That the initial states are those of
`KeyRing` too holds for rooms that start empty (`RoomOfKeyRings`); a settled room
is a state `KeyRing` reaches, not one it starts in. `OwnKeysOnly` and `NoOldKeys`
share `GrowInv`, which bounds what may be on its way by sender and receiver
(`OwnMsg`): keys the sender minted, at a generation it has reached, that sealed
nothing before the receiver came, and only if the sender is in the receiver's
room. `OnlyGrows` (nobody leaves, no signaling connection is lost; joins, rekeys
and link failures are unlimited) is where both are true for any number of nodes:
section 3 says what fails without it.

`OneKeyOnceSettled` and `NothingForTheDeparted` are about rooms that people leave.
`AuthorityStays` asks only that whoever may leave has a founder with a smaller id
who does not; rooms nobody leaves satisfy it too. Joins (smaller ids that come late
and become the authority included), rekeys, lost signaling connections, link
failures and the departures of all others come in any number and order. Every
scenario of the run `inuse` satisfies it, `Handover` and `Departing` do not, and
there TLC finds the properties violated. The other hypotheses are needed as well:
with `Overtake` TLC finds a late authority whose key the others reject, and with
`SameTick` an older promotion that lands last. `InReach` is part of the conclusion:
a member refuses a generation more than `ROOM_GEN_BOUND` ahead, so that a room past
that many rekeys may turn down an authority that arrives late; the theorems speak
of the states before.

`StayInv` looks at the smallest id that ever joined (`First`), which is the
authority whoever knows of it. For each node linked to it, its newest key is there,
or waits in the channel, or the node is at a higher generation (`Handed`), and a
higher generation has been reported or will be (`Reported`). The counter of a node
is the generation of its key, and the first uses a key of its own (`Labels`); the
last grace timer outstanding is that of the newest key (`Promises`). Since a quiet
room has empty queues and no timers, and every link is up, all seal with the key of
the first. `SecrecyInv` adds where the newest key is: whoever has it, or has it
coming, is on the list of the first (`Holders`), and whoever left will be off the
list of everyone connected when the waiting frames are handled (`Lists`,
`Forgets`). Taking someone off the list and making a new key are one step of the
loop, so `Holders` survives it; a late arrival of an old key does not disturb it
because its label differs. Before they were proved, the conjuncts were run with TLC
on scenes larger than those of `inuse` (six million states).

The second half of `KeyChannels_proofs`: the bitmap of a pairwise session is exact
(a bit is set if and only if that number was opened), from which a late frame is
never refused unless it was opened, and the session implements `AtMostOnce`, for
every window size.

### Channels

`ChannelDir_proofs` follows an announcement down its way. For each pair of members
(`Link`): in the frames of an open data channel, else in the gate, the last word is
the sender's channel (`Brings`); in the events of the engine loop, else in the
row, it is the gate's (`Follows`); and a channel is open only between members that
list each other, so that it closes with the row. Both speak of the last element of
a queue that satisfies something, which survives appending and taking; the queues
themselves are not typed further than that. `~Overtaken` is a hypothesis about
the scheduler the code does not enforce (section 3): the two announcements of a
fresh channel are sent by spawned tasks.

`DirectoriesConverge` needs no hypothesis. For each pair with an open channel
(`Offered`): what one member lists, the other lists too, or has a tombstone for, or
has no room for, or it is under way, in the frames, the late announcements or the
events (`UnderWay`). Once settled a channel stays settled, since a directory loses
a name only to a tombstone, a tombstone goes only when its channel is tuned in to
and listed again, and a directory that is full stays full but for a tombstone; only
a restart, which closes every channel, begins again. The order in which
announcements arrive is therefore irrelevant, and `Overtaken` may be either.
`Without` describes `retain` by the ranks of the names it keeps, so that nothing
has to be computed along a directory; `MCChannelDir` compares it, and
`MergeChannels`, with the filter and the loop of the source on every directory of
up to three names.

### Client

`ClientParts_proofs` takes six components. *Ducking*: the last edge queued is the
voice as it is, so a worker with nothing to do has either lowered because somebody
speaks or restored; an application in reach is as loud as before or remembered as
it was (`NothingForgotten`). *VoiceChain*: the phase
of the resampler stays ahead by less than a step; for all settings within the
limits of `normalize_dsp()`, and changes between any two samples, the limiter's
target brings a sample to the ceiling at most, so that what gets past is what one
release step adds to the loudest sample (`Loudest`, four times full scale); the age
of the crusher's sample is covered by its phase. *AudioPipe*: streams follow the
devices they were opened for, and the monitor flag read at the start of a frame
covers what is sent at its end; `OwnQueues` asks that no id in the room is the
name of a queue the rig keeps for itself, which ids made by the client (eight
hexadecimal digits) never are, but which nothing enforces for others. *LinkWatch*:
each member is followed from the beginning of an outage by the number of retries
that fit into it (`Minded`); `Intervals` is what makes the warning fall between two
rebuilds: the offering side retries before it, the other after it, and no retry
falls on the warning's tick or the one before. The code's 8, 20 and 24 seconds,
in ticks of two, satisfy it. *Boundary*: the arithmetic
of the limits, for any length: 2000 characters of three bytes in JSON make a sealed
frame of 8105 bytes and a full directory of full names one of 6362, under the
limit of 8192. `GuardsAreEnough` excepts what the limits do not cover: names of
more than 64 bytes, and lines and names whose characters take more than three
bytes in JSON.

*PushToTalk*: the queues are read through their last `ptt` message (`Settles`),
which survives concatenation and taking. What is on its way to the webview ends in
the merged sources as they are (`WebviewFollows`); what is on its way from the
controllers was sent last by one that still holds (`KeysFollow`). The slots of
`handle_raw()` are compared with the set of labels that are down (`Track`): an
edge moves both alike (`HandleRawFacts`), so that the press and release of a wheel
within one packet, and the same button of two pads, need no case of their own. In
a capture nothing is believed down, which is why a binding made by it cannot
leave the microphone open. `Careful` enters where a binding or a capture begins
(no key down) and where a controller leaves; without it `HeldToTransmit` fails
(section 3), but not the rest (`MicObeys`). `ControllersAreCurrent` needs no care:
whoever is registered shows what the webview reported last, or the refresh it
asked for is on its way (`SnapshotUnderWay`). `PttInv` was checked with TLC on
five scenarios of the size of those in `MCParts` before it was proved.

The first half of `Connections_proofs` is about the session with the server. What a
call has opened follows from the step it has reached
(`SessOk`), and a slot holds only calls that have returned (`Filled`), so that
dropping a slot never stops the rig of a call still in progress, and storing over
one stops the rig it replaces: `NothingStaysOpen`. For `ScreenFollows`, `ScreenInv`
says that at most one call is on its way to a loop or has one that runs, that the
last event told says whether one does, and that a FALSE is told last: until the
webview has heard it, it shows a session or an attempt and asks for nothing. That
is where the hypothesis `RendersFirst` enters; without it TLC finds the property
violated. `OpenInSlot` adds that a loop whose handle was not dropped is the one in
the slot.

### Links

The second half of `Connections_proofs` is `LinkShowsTruth`. The seven handlers of
frames and the rebuild of the watchdog are first reduced to one kind of step
(`Processed`): either the PC stays as it is (`Stays`), or it is closed, which is
reported, and its successor is new and not connected (`Renewed`); no such step
sets up a session, and the row loses its link or fingerprint but gains neither.
`Reports` then says of one end that a report of a link up is followed by one of a
link down or else true, and likewise the row, from which `LinkedIsTrue` follows.

For the session, reports do not name the PC they come from, so the invariant
speaks of what a queue is still going to do to the row: show no fingerprint
(`Clearing`), none but a given one (`ShowsOnly`), none once the link goes down
(`ClearsOnDown`). `Pact` relates the two ends by it. A hello on its way is the
only frame, and the offering end has no session (`HelloOut`); a reply finds the
other end with the session of this handshake or none (`ReplyOut`). When a PC is
closed under a handshake, one end keeps a session the other never gets; then the
offering end clears, because its link was up since the last session, and the
report of the close follows (`NewLinkClears`). That is where `begin()` dropping the
old session before the hello goes out is needed: the mutant `BeginKeepsSession`
violates it. `Pact` and `Reports` were checked with TLC on the run `link` before
they were proved.

`IdsSuffice` says that an id is left that nothing refers to. Ids stand for objects
of the WebRTC stack, which never run out, and are recycled only so that TLC can
look at behaviours without end; in every state of the run `link` it is true.

### Only model-checked

Liveness (`ListsCatchUp`, `Settles`, `Recovers`, `FallsSilent`, `OutageEnds`,
`RigEnds`) is out of the prover's reach: it needs ENABLED. Every invariant and
action property of the passing runs is stated by a theorem, some under the
hypotheses of the table. Outside them TLC is all there is: `HandsOutOwnKeys` and
`FutureSecrecy` in rooms that people leave hold in the scenarios of `inuse`, and
section 3 lists the situations in which a property fails. The five violated runs
are counterexamples and need no proof.

## 5. Hazards

`PROJECT.json` lists what is hard to test in this code, at the line where it
bites, with the properties that cover it, or a note. Without a property: the two
locks of `Rekey` (no doc says what a rekey that meets a rebuilt room should do).

## 6. Plan

Done: the server, keys and sessions; then links, watchdogs, channels, the session
life cycle, the desktop client, the audio rig, the start of the server and its
pages; then the theorems of section 4. What is left to prove, in this order:

1. `OwnKeysOnly` and `NoOldKeys` for rooms whose authority stays: `GrowInv` and
   `StayInv` would have to be combined, with the reconnect of the authority
   (section 3) kept apart from the arrival of a newcomer.
2. That the wait for each step of `Progress` ends, as far as it is a statement about
   single steps: a measure of what is queued that no step of `Progress` raises.

## 7. Not modelled

Cryptography is perfect: a frame opens under the key it was sealed with and no
other. Token and TURN credential derivation are stateless; whether a relay still
takes credentials that have expired is decided outside this code. In the audio
pipeline the codec (Opus, its DTX decision is a free choice), the denoiser,
filters, per-member volumes and the sound of the cues are left out: they change
what is heard and no control. In the desktop shell, windows, tray, overlay,
updater, single-instance handling and the parsing of deep links are calls into
the platform without state of their own; so are the port file of the control
server and its framing. The UI is modelled as far as it decides what the program
does (connecting, push-to-talk, mute, latch, snapshots): rendering, settings
pages and the flag that shows who speaks are not. The downloads page and inline
marks of the changelog (a backtick between two pairs of asterisks) are left out,
as are the checks of the self-check beyond its loopback probe and the
command-line client, which runs straight through. Within the modelled parts: log
output, display names, the wrap of the 64-bit frame counter and of the 32-bit
generation.

## 8. Running

    tlc -workers 2 -config MCInitServer_rooms.cfg MCInitServer
    tlapm InitServer_proofs.tla

`PROJECT.json` names the module and configuration of each run. The longest are
`parts`, `promises`, `rooms`, `channels`, `inuse` and `link` (two minutes to two and
a half each).
