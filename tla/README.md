# Formal model of the music room

This directory models *navidrome-music-room* in TLA+: the gateway's rooms, hub
and clock (Go, under `gateway/`), the room page (Vue, under `room-ui/`) and the
administrator's page (React, under `admin-ui/`). The modules are translated from
the sources, checked by TLC on small instances, and their invariants are proved
with TLAPS for all instances. Paths below are relative to the repository.

## The system

| Part | State | Operations | Interaction |
|---|---|---|---|
| Playback, queue, history (`gateway/internal/store/playback.go`, `queue.go`, `domain/helpers.go`) | playback columns of `rooms`, rows of `queue` and `playback_history` | add, remove, reorder; play, pause, seek, next, stop; prime; pause for empty | every operation is one SQLite transaction under `Store.writeLock`; callers name the revision they saw |
| Clock (`api/server.go` `RunClock`) | none but what it read | recovery at start-up, one look per second | reads without the lock, then issues `next` with the revision it read |
| Rooms (`store/rooms.go`, `api/rooms.go`) | settings, status | create, patch, close, reopen, delete | patch is a read, a merge in the handler and a write |
| Hub (`realtime/hub.go`) | connections per room, one empty-room timer per room | add, remove, broadcast, kick, close room | the timer's callback calls `PauseForEmpty`; handlers broadcast after they committed |
| WebSocket handler and snapshots (`api/playback_ws.go`, `realtime/tickets.go`) | tickets | issue, consume, snapshot, serve | checks membership and builds the snapshot before the hub knows the connection |
| Membership and invitations (`store/invites.go`, `api/invites_members.go`) | `members`, `invites` | create, redeem, revoke, join, leave, remove | redemption counts uses in a transaction |
| Sessions, plugin lease, allowlist (`auth/sessions.go`, `store/plugin.go`, `api/plugin_auth.go`, `plugin/main.go`) | sessions in memory, the plugin's last state in SQLite, the plugin's generation in its KV store | exchange, authenticate, revoke, sync | a synchronisation replaces the allowlist and revokes users who left it |
| Idempotency cache (`api/idempotency.go`) | entries by key, running or done | begin, wait, commit, abort | wraps the mutating handlers; duplicates wait for the first |
| Rate limiter (`api/ratelimit.go`) | buckets | allow | in front of mutating requests, behind the idempotency cache |
| Updates (`update/manager.go`, `cmd/music-room-launcher/main.go`) | staged release, request files, activation state, database backups | check, stage, activate, roll back | the gateway writes a request file, the launcher switches, health-checks and rolls back |
| Room page: playback (`room-ui/src/stores/room.ts`, `lib/sync.ts`) | last snapshot | apply snapshot, apply event, commands | drops playback events with an older revision, takes queue events as they come |
| Room page: connection (`stores/room.ts`, `lib/gateway.ts`, `lib/location.ts`, `RoomLogin.vue`) | phase, proof, invitation, session, socket, timers | log in, exchange, join, redeem, connect, reconnect, renew | a ticket per connection; a new session replaces the socket; a failed attempt arms the reconnect timer |
| Room page: audio (`stores/room.ts`, `lib/sync.ts`, `NowPlaying.vue`) | the audio element, `loadedTrackID`, lyrics | load, seek, start, stop | driven by playback events, by the listener, by the element's own events and by the drift clock |
| Room page: catalog (`stores/room.ts`, `lib/subsonic.ts`, `CatalogPanel.vue`) | lists, selection, title, spinner, busy flag | browse, search, open, request a song or an album | asks Navidrome directly; requests go to the gateway |
| Administrator's page (`admin-ui/src/App.jsx`, `api.js`) | rooms, selection, details, dialogs | poll, select, create, save, toggle, delete, invite, revoke, remove | reads everything again after every change and every 15 s |
| Configuration, diagnostics, packaging | files | start, report | - |

What is hard here: handlers of many users run concurrently and only the store
serialises them; decisions are taken on state read earlier (a client's
snapshot, the clock's unlocked read, a handler's status check, a timer that
fired just before somebody came back); broadcasts happen after commits, in any
order; the gateway may stop between any two steps; the launcher may stop in the
middle of a switch. In the two pages every `await` is a place where the listener,
a timer, a socket or another answer comes in between: answers come late, in
another order, or for something that is no longer selected; sockets that were
replaced still report their end; the session may be gone long before its renewal; a reload keeps nothing but the address and the
storage.

What makes each part correct is written at the properties of its module; for
the parts not modelled yet, at the plan below.

## Modules

| Module | What it is |
|---|---|
| `RoomPlayback` | one room: record, queue, history, managers' commands, clock, restart |
| `TrackLifecycle` | abstract specification: the stages of a requested track |
| `RoomPlayback_proofs` | the inductive invariant, the theorems, and the refinement of `TrackLifecycle` |
| `RoomPresence` | one room's connections, the empty-room timer, kicks, deletion, restart |
| `RoomPresence_proofs` | its inductive invariant and theorems |
| `RoomSync`, `RoomSync_proofs` | commits, broadcasts, snapshots and what the room client makes of them |
| `RoomClient`, `RoomClient_proofs` | how a room page enters, stays connected and renews its session |
| `RoomPlayer`, `RoomPlayer_proofs` | the audio element of a room page and the words beside it |
| `RoomCatalog`, `RoomCatalog_proofs` | Navidrome's late answers, and requests for songs |
| `AdminConsole`, `AdminConsole_proofs` | the administrator's page |
| `Idempotency`, `Idempotency_proofs` | the cache in front of the mutating handlers |
| `OncePerKey` | abstract specification: what a client that repeats a request may rely on |
| `MCRoomPlayback`, `MCRoomPresence`, `MCRoomSync`, `MCRoomClient`, `MCRoomPlayer`, `MCRoomCatalog`, `MCAdminConsole`, `MCIdempotency` | small instances for TLC |

The models look at the same room from several sides and each reduces the others
to what it needs. `RoomPresence` keeps of the playback the bit `PauseForEmpty`
looks at. `RoomSync` keeps a revision and a track, which is enough because
`RoomPlayback` proves that the revision identifies the playback, and shows which
playbacks a page gets to know; `RoomPlayer` starts there and lets any playback
arrive at any time. `RoomClient` has the sockets whose frames `RoomSync` is about,
`RoomCatalog` the requests that `RoomSync` has answered. `Idempotency` stands in front
of whatever handler; what that does is one step there and an action of the others.

Operators marked *Fault* in the modules are wrong variants of the operator below
them (a dropped guard, a missing reset, a swapped order); no specification uses
them. They are there to see that each property fails when the code has that bug.

### RoomPlayback

One room of the store. `playback` is the record that `scanPlayback` reads and
`persistPlaybackTx` writes; `queue` maps an entry to the `position` of its row
(0 for no row); `history` lists the rows of `playback_history` in insertion
order, so a history identifier is an index; `added` remembers which entries
were ever inserted. `cmd` holds a manager's command between the moment its
client read the revision and the moment the store decides; `clock` is the
program counter of `RunClock` with the revision it read. Each store operation
is one action because it holds the write lock for a whole transaction;
`SendCommand`/`ApplyPlayback` and `ObserveFinished`/`AdvanceFinished` are the
two places where a decision is separated from its write.

Left out: titles, display names and timestamps (a track is its queue entry),
the audit table, SQL errors (a transaction that fails changes nothing, which is
a stuttering step), several rooms (they share no data, only the lock). Time is
whole seconds and monotone; the 50 ms tolerance of `AdvanceFinished` is zero.
User names are compared up to the case folding the code applies.

What the properties say:

* `QueueIsDense` - positions are 1..n after every transaction, so the table's
  `UNIQUE (room_id, position)` never fails an insertion.
* `TransportIsCoherent` - status, anchor, track, position and history row agree, and
  the contributor to be passed over next is the loaded track's.
* `HistoryIsCoherent` - a history row is open exactly while it is the current
  track's, and never claims more than the track's length.
* `PlayedAtMostOnce` - a requested track waits, is loaded, or was played once.
* `RevisionIdentifiesPlayback` - who holds the current revision holds the
  current playback; this is what makes `expectedRevision` enough.
* `PositionIsContinuous` - no change but a seek moves the position listeners
  compute.
* `ClockNeverCutsShort` - the clock closes a track only with its full length (in the
  code, up to the 50 ms less that it tolerates).
* `NoContributorTwiceInARow` - whatever loads a track, `next`, the clock, or `play`,
  an added entry and the priming in an idle room: it is of the contributor loaded
  last only if nobody else's is left waiting, and a room without a track remembers
  who that was.
* `OnlyStopIdlesTheRoom` - a room with tracks waiting becomes idle by a stop only.
* `FinishedTrackAdvances`, `IdleRoomIsPrimed` - liveness of the clock.
* `ImplementsLifecycle` - the room refines `TrackLifecycle`.

### RoomPresence

`registered` is `Hub.rooms[room]` and `emptyTimer` is `Hub.emptyTimers[room]`;
`timer` and `left` are the `time.Timer`s themselves, the ones the room has
forgotten but whose callbacks still wait for `Hub.mu` included. `Register`,
`Remove`, `CloseRoom` and `KickUser` are one critical section each. A callback
is three steps: `Fire` (the runtime starts its goroutine), `Decide` (the check
under the lock), `PauseForEmpty` (the store call after the lock was let go).
The WebSocket handler is `Admit` (all its checks) and, later, `Register`.
Closing sockets happens outside the lock: `doomed` is the list of connections a
handler collected. `emptyFor` and `deserted` are history variables: how long nobody
has been registered, and that the last connection has left a room that plays. The
latter is set by the departure itself, whether or not that arms a timer.

* `PresenceInv` - type invariant; a room has a timer only while it is empty and
  no other timer is armed; the timer never runs ahead of the emptiness; a served
  connection gets events or is about to be closed (`NoOrphanSocket`); a deserted
  room has its timer armed or a callback on its way to the pause (`DesertedIsTimed`).
* `PauseAfterWholeDelay` - a callback that lost its race against a reconnect,
  and even against the next departure, decides nothing.
* `EmptyRoomPauses` - a room that its last connection leaves while it plays, by
  whichever path, stops playing, unless somebody comes back, the room is closed or
  deleted, or the gateway restarts first (see *What the code does not do*).
* `DoomedSocketsEnd` - connections collected to be closed are closed.
* `ListenersKeepPlaying` - see *Findings*.

### RoomSync

A handler is a process in `task`: `Serve` is its transaction, then it works off
`todo`, the events it sends in its order. `Collect` copies the registered
clients under `Hub.mu`, `Write` reaches one connection (`wire`, in order),
`Finish` answers the request. The clock is a handler without a client. A
snapshot is built in two reads (`BuildStep` twice), for `GET /snapshot` or for
a connection that only afterwards registers and gets it written
(`WriteInitial`). The client follows `room.ts`: `Handle` is `handleEvent`,
`TakeAnswer` what `command`, `addSong`, `removeQueue` and `moveQueue` do with
an answer, `TakeFetched` is `applySnapshot`. Requests carry what the client
shows, so a stale client sends stale revisions and orders. `told` and `behind`
are history variables. `Without` removes the one entry of an identifier: that a
queue holds no entry twice (`Queues`) is part of the type, so that deleting a row
and filtering a list come to the same.

* `TypeOK` - what is stored and shown is made of the room's entries, none of them
  twice; nobody is written to who has left.
* `NewsReachesEveryone` - what was committed last has been written to every
  connection when the room settles.
* `OnlyOldAnswersMislead` - events alone never leave a client with an older
  playback; only a snapshot that was outdated at registration, or a snapshot or
  answer older than what was shown, can, and only until a newer one comes.
* `SnapshotLosesNoTrack` - reading the queue before the playback is the order
  that cannot lose a track to a concurrent `next`.
* `RecoversLatestSnapshot` - see *Findings*.

A removal that fails is answered before anything is broadcast, and
`pauseForEmpty` broadcasts to an empty room; history, room and presence events
travel like queue events and are left out.

### RoomClient

`phase` is what the page shows and `step` the answer that entering waits for:
`Start`, `Submit`, `LoggedIn`, `Exchanged`, `Joined`, `Redeemed` and `Loaded` are
the stretches of `start`, `login` and `enterWithProof` (with `refreshSnapshot` and
`loadFoldersAndCatalog`) between two awaits, each with its failure. The gateway's
side is what an answer may be, and changes at any time (`World`): `member`,
`reachable`, `leased` (the plugin's heartbeat is fresh and its allowlist has the
user) and `usable` (the invitation can still be redeemed). `session` may end at any
time, too (`Expire`): it has run out, was revoked with its user, was deleted because
the allowlist dropped the user, or was in the memory of a gateway that has been
restarted; the page's renewal timer stays armed. `Served` is `Authenticate`,
`Admitted` adds the membership that tickets, handshakes and joining ask for.
`RedeemInvite` is the store's: an invitation that cannot be used any more is refused
to members too, and costs a member no use.

`ConnectRealtime(replace)` is `connectRealtime`; `tickets` counts the tickets asked
for, `recovering` the snapshots that a reconnect timer's callback waits for.
Sockets have a state each, and their handlers run for any socket, not only the
current one: `SocketEnds` sets `socket` to null and schedules a reconnect
whichever socket it was, and an error handler closes the current one. A handshake
that the gateway refuses ends in such an error.
`HandleVisibility`, `SessionTimer`, `SessionRefreshed` and `RefreshFails` are the
other ways a connection begins or the page ends. `Reload` keeps the address bar
and the storage. `settled`, `raced` and `missed` are history variables.

Left out: the user is no administrator of Navidrome (those become members by
joining); the grace that a stale lease leaves to existing sessions (one heartbeat
decides for sessions and exchanges alike, and an exchange may fail at any time).

* `SessionInv` - types; the session of a page in its room has its renewal ahead
  of it, unless the timer ran out while the page was still entering.
* `NeverStranded` - a page in its room has a socket or a step under way that makes
  one, whichever handler of whichever socket ran last.
* `OneConnection` - one live socket, the current one, unless two connections
  raced: two set up at once (a glance or a renewal while a ticket is open), or a
  replaced socket's end forgetting its successor. The code has these races; the
  property says there is no other way to a second connection.
* `MemberNeedsNoInvitation` - who has been a member ever since the page began to
  enter is not made to redeem: after a lost answer or a reload the invitation may be
  used up, and the gateway would refuse it to members, too.
* `Recovers` - the page is connected again, whatever tickets, handshakes, sockets and
  sessions it has lost before. While the gateway serves it, its own attempts are
  enough, even if no renewal came. When the gateway has dropped its session early,
  every ticket is refused until the renewal timer runs out; once network, lease and
  membership hold and no further session is lost, that renewal and the attempts that
  went on so long connect it.

### RoomPlayer

`player` holds the audio element (`made`, `src`, `ready`, `paused`, whether it is
`near` the room's clock) and the two variables that outlive it, `loadedTrackID`
and `pendingSeek`. `ApplyAudioPlayback`, `SafePlay` and `SeekAudio` are the
functions of that name; `LoadedMetadata`, `CanPlay`, `Starves`, `Interrupted` are
the element's events, `Part` the passage of time, `DriftTick` the interval timer
of `startClocks`. `granted` is the browser's decision on `play()`.
`TogglePlayback` is the main button with its three meanings, `CommandAnswered` the
answer to a command: carried out, a conflict that fetches a snapshot, or an error.

* `PlayerInv` - the element has the room's track or none, and sounds only for a
  listener of a playing room, or ahead of the answer to the listener's own play.
* `OnlyLateLyricsMislead` - `loadLyrics` does not ask whether the track is still
  the same; only an answer that was overtaken and came in last shows.
* `ListenerHears` - a stalled, refused or interrupted element plays again without
  anybody pressing anything.
* `StartListeningIsEnough` - see *Findings*.

### RoomCatalog

Of a list only its library and its query are kept. `pending` are the questions to
Navidrome that are open, `latest` the one asked last; `ListsAnswered`,
`DetailAnswered` and `Failed` end any of them in any order, each sets
`loading` to FALSE. `loops` are the albums being requested song by song
(`addAlbum`, whose guard is `busy`), `Unguarded` a request from a button that does
not ask for `busy`; every request that ends clears it.

* `CatalogInv` - mode, selection, title, spinner and busy flag fit together.
* `ListsAreOfTheLibrary` - what can be clicked is of the selected library, unless
  an overtaken or failed question took the spinner away.
* `OnlyStraySongsAreMistagged` - a song is sent with the library selected now; that
  is its own unless the lists mislead or the library was switched meanwhile.
* `OneAlbumAtATime` - two albums are requested at once only after another request
  cleared the flag they share.

### AdminConsole

`lists` and `loads` are requests for the list of rooms and for a room's details,
with who waits for them; a change (`task`) is asked for, carried out or refused,
and then reads a list or details with what its closure held when the button was
pressed. `Select` is the selection with its effects (`useEffect` on `selectedID`),
`ListArrives` is `refreshRooms` with the effect that fills an open form again.
The dialogs cover the page, so the list cannot be clicked behind them.

* `ConsoleInv` - types; the selection is in the list last received, and the form
  about to be saved was filled from the selected room.
* `DetailsAreOfTheRoom` - with nothing loading, members and invitations shown are
  the selected room's, unless the load last received was late or failed.
* `InvitationIsOfTheRoom` - the invitation in the dialog admits to the room in its
  title, unless dialog or room was left while it was being made.
* `BusyEnds` - no failing step leaves the page busy.

### Idempotency

A handler is a goroutine that serves one request at a time; `asks` is its request,
a key (the whole scope: user, method, path, key) and a body (the request's hash).
`items` is the map under the mutex. `Begin` is `begin` with its cleanup, in four
ways: the key was used for something else, somebody carries the request out or
has, the cache is full, the handler becomes the owner. `Serve` is everything behind
the middleware, an answer or a panic; `Commit` and `Abort` are the owner's end, the
deferred abort included. An entry that is still open is known by the handler that
made it, which is what comparing pointers comes to; closing its channel
(`Closes`) gives every waiter what `wait` would read from the entry, since an
entry's response is written once, before the channel is closed. Answers
are `done`, `refused` (a client's error, the rate limiter's 429 included) or
`failed` (500 and above, or longer than a MiB).

* `CacheInv` - types, and: an owner finds its own open entry when it comes to close
  it, no entry is open without an owner, whoever waits waits for the very request it
  serves, what is remembered or told answers that request and is no failure, and
  there are at most `MaxItems`.
* `ImplementsOnce` - the cache refines `OncePerKey`: nobody begins a request while it
  is carried out or its answer is remembered, and that answer does not change.
* `RequestsEnd` - nobody waits for ever, unless those who carry the key out go on
  failing.

## Runs

| Run | Instance | Shows |
|---|---|---|
| `room` | 3 tracks of 2 contributors, one of unknown length; 1 manager; modes that change; limit and capacity 2; 4 revisions; 1 second; 1 restart; fair clock | queue, record and history agree; races between manager, clock and restart; refinement of `TrackLifecycle`; liveness |
| `room_closed` | 2 tracks | expected violation, see *Findings* |
| `presence` | 3 sockets of 2 users, 2 timers, delay 2, 1 restart, fair runtime | registry, timers and sockets agree; no early pause; deserted rooms get paused, doomed sockets end |
| `presence_reconnect` | 2 sockets, 1 timer | expected violation |
| `sync` | 1 managing client, clock, all operations, 3 requests, 1 connection or refresh, 1 or 2 tracks waiting | announcements and what the client shows |
| `sync_latest` | 1 client, 1 request | expected violation |
| `client` | 3 sockets, at most 3 connections that exist or are on their way, 1 removal, any number of reloads, network changes and renewals; fair timers and answers | entering, sockets and session |
| `player` | 2 tracks, a manager or not, any playback at any time; fair element and timers | the audio element and the words |
| `player_silent` | the same | expected violation |
| `catalog` | 2 libraries, 1 text to search for, 2 questions open at a time | lists, details and requests |
| `admin` | 2 rooms, any list in any answer; fair answers | selection, form, details, invitation |
| `idempotency` | 3 requests at a time, 2 keys, 2 bodies, room for 1 entry, any number of restarts; fair handlers | entries, owners and waiters; refinement of `OncePerKey`; every request ends |

Bounds: three tracks are enough for a queue with a track before, at and behind
the one that leaves, and two contributors for the rule that passes one over;
a capacity of two makes the full queue happen. Four revisions allow a start, a
change by somebody else, and a command that is late by one or two. Durations
are 0 (unknown), 1 and 2 seconds: one track ends by itself within the clock's one
second, one after a seek, one never; a limit of two lets the room reach whatever a
smaller one would (the limit is a guard of `AddQueueEntry` and nothing else);
seeks ask for a negative position, one inside and one behind the end.
`MaxRevision` stops changes, it never falsifies a state: commands, requests and
the clock do nothing once it is reached, which the liveness properties allow
for by `AtBound`.

In `RoomPresence` two sockets of one user make a kick end several connections,
a third belongs to somebody who stays; two timers let a forgotten callback wait
while the room's own timer runs, and a delay of two ticks separates "just
emptied" from "empty long enough". A socket or timer that has ended is used
again, so the numbers bound concurrency, not history. In `RoomSync` three
requests are two that overlap and one that follows. One client is enough: what
another manager's handler does to it, overlapping broadcasts and a queue that
changes under its hands, the clock's handler does. A client has one request and
one fetch under way at a time; `MaxLoads` counts connections and refreshes
(a refresh after a conflict is not counted). Deadlock is checked: `AtRest` lets
only a settled room stop. `RoomPresence` runs switch the deadlock check off
because a deleted room without connections is the end; the `client` and `admin`
runs because a page may show an error nobody reloads.

In `RoomClient` three sockets are the current one, one that was replaced and is
closing, and one more that a race made. `MaxConnections` keeps a glance and the
renewal of a live session from starting a connection when three exist or are on
their way, and a session from ending then (once it has ended nothing holds its
renewal back); no failure and no reconnect is bounded, so the bound hides no way to
lose a connection. In `RoomPlayer` two tracks are the one that was loaded
and the one that is; nothing is counted. In `RoomCatalog` two libraries and two
open questions are what overtaking needs, and one text because a second would
differ from the first only as it differs from the empty one. In `AdminConsole` two
rooms are the one selected before and the one selected now; requests of one kind
for one room count as one. In `Idempotency` three handlers are an owner and two who
wait, of which one takes over when the owner fails and the other waits again; two
keys with room for one make the cache full; handlers and keys are used again, and
nothing is counted.

Fairness: `FairSpec` of `RoomPlayback` asks weak fairness of the clock's steps
only. `RunClock` is a goroutine with a ticker that no lock holder blocks for
ever. Nothing is asked of users, managers or listeners. `FairSpec` of
`RoomPresence` asks weak fairness of the runtime's timers and of goroutines that wait for nobody but the hub's lock
(`TimerFairness`, `SocketFairness`): a handler that has admitted a connection
registers it, a handler that collected connections closes them (with a write
deadline of two seconds), a goroutine whose read failed removes its client. It
asks nothing of `Admit`, `Break`, kicks or deletion.
`FairSpec` of `RoomPlayer` asks that the element loads what it can, that time
passes, that the interval timer fires, and that a browser which was given a
gesture does not refuse to play for ever (`SF_vars(CanPlay /\ ~player'.paused)`:
strong fairness, for a decision taken anew at every `canplay`).
`FairSpec` of `RoomClient` asks that reconnect timers run out, requests are answered
one way or the other, an exchange succeeds when network and lease allow it (one that
fails ends the page), and sockets report their end; it asks nothing of the listener,
the network, the lease, or the members' list. That some socket opens is asked
strongly: each renewal replaces it, but `scheduleSessionRefresh` leaves at least 30 s
between two, so sockets are not replaced for ever before they open. That renewal
timers run out is a premise of the second half of `Recovers` only, for the first half
does without. That from some time on no further session is lost is a premise, too: a
page whose every session is forgotten at once is never connected; any number of
sessions may end before that. `FairSpec` of `AdminConsole` asks that
the answer a change waits for comes, be it an error. `fetch` settles every
promise, so a page waits for ever only if the gateway holds a request open.
`FairSpec` of `Idempotency` asks of every handler that it goes on while it waits for
nobody: a mutex is let go, and what a request runs into ends, with an answer or a
panic, by the deadlines of database and network. It asks nothing of time (an entry
need not expire), of clients, or of who is quicker to begin again.

## Proofs

`RoomPlayback_proofs` shows `Spec => []RoomInv` for every set of entries, users
and managers, every duration and every bound, from `DataAssumption` (finitely
many entries, functions of the right type, sentinels outside the sets) and
`BoundAssumption`. `RoomInv` is the conjunction of the type invariant and the
five state properties, with `OnlyAddedEntries` as the strengthening: an inserted
entry is new to queue, playback and history because everything there was added
before. No part is inductive alone: the type of `queue` needs density (`MAX` of
the positions is the number of rows), density of an insertion needs the entry
to be new, a loaded track has no history row because waiting tracks have none,
and the row that a finished track closes is the only open one.

The argument runs in four layers: lemmas about the operators (renumbering
keeps the rows and numbers them 1..n, via injections on finite sets; clamping
stays inside the track; the fields of the records each operation builds);
lemmas that each store operation keeps `DataInv`, the part of the invariant the
store holds; one lemma per kind of step, where a change of the playback
outdates every command in flight (`NewRevision`) and every other step leaves
what was seen (`SameRevision`, with `FinishedStays` for the passage of time);
and lemmas that say what a step may do to the playback, beyond keeping the
invariant (`PlayEffect`, `NextEffect`, `StopEffect`, `PauseEffect`, `SeekEffect`,
`PrimeEffect`, and `PlaybackSteps`, which names the four ways to change it).

The action properties follow from `RoomInv` and the fourth layer:

* `NobodyTwiceInARow` from `LoadsAreEligible` (every load, into an idle room too, takes
  an eligible row of the queue as it is or as an added entry leaves it),
  `EligibleLast` (an eligible row of the last contributor means that nobody else was
  waiting) and `TurnIsRemembered`. That `last` names the loaded track's contributor is
  part of `TransportIsCoherent`.
* `OnlyAStopIdles` from `TrackChanges`: a loaded track gives way to a waiting one, or to
  none for want of another or by a stop.
* `ClockPlaysToTheEnd`: of all steps only the clock's own `next` takes it from what
  it has read to rest, and its revision is still the room's, so that
  `RevisionIdentifiesPlayback` says that the track still is finished
  (`ClockClosesFull`, `FinishedRowIsFull`).
* `PositionStaysContinuous`: while the record stays, the position moves with the wall
  clock (`TimeMoves`, from the arithmetic of clamping, `ClampMoves`); a record
  written from the position read now shows that position (`RewrittenStands`).

The refinement, `RoomImplementsLifecycle`, reads a track's stage off queue, record
and history (`StageIs`; `Whereabouts` says which of them exclude each other).
`SameStage` is for the tracks a step does not touch. One lemma maps each kind of
step to its abstract step (`AddIsRequest`, `RemoveIsWithdraw`, `PrimeIsLoad`,
`FirstStartIsStart`, `StopIsLeave`, `NextIsAdvance`); pausing, seeking, reordering,
the clock's looks, restarts and time are stutters.

`RoomPresence_proofs` shows `Spec => []PresenceInv` for any sockets, users,
timers, delay and number of restarts, from `PresenceAssumption`. The three
state properties strengthen one another: that a stopped timer leaves no armed
one (`StopLeavesNone`) needs `TimerTracksRoom`; that a callback decides only
after the whole delay (`PausesAreNotEarly`) needs `TimerNotEarly`, where
`emptyFor + left >= EmptyDelay` is the part that every tick keeps. `DesertedIsTimed`
is the part `EmptyRoomPauses` rests on: the departure that empties the registry
leaves a timer, and only a return, a pause, the end of the room or a restart takes it
away (theorem `DesertedRoomsAreTimed`). There is one lemma per kind of step.

The four page modules have an inductive invariant each, proved for any tracks,
sockets, libraries, texts, rooms and bounds, from assumptions that only keep
sentinels apart (`PlayerAssumption`, `ClientAssumption`, `CatalogAssumption` and
`RequestAssumption`, `ConsoleAssumption` and `TaskAssumption`):

* `RoomPlayer_proofs`: `PlayerInv /\ OnlyLateLyricsMislead`. Lemmas say what each
  operation on the element keeps (`SeekAudioKeeps`, `LoadLoads`, `SafePlayKeeps`);
  `ApplyAudioFollows` puts them together: whatever element it is given, the
  outcome has the next track and runs only for a listener of a playing room.
  `SameTrackStep` covers every step that leaves the playback alone.
* `RoomClient_proofs`: `NeverStranded` and `OneConnection` are inductive with the
  types; `ConnectFacts` shows that connecting re-establishes both, `ClosedFacts`
  that closing makes nothing live. The session needs `EnteringInv` (an answer
  after the exchange is waited for only with a renewal ahead or missed), the
  invitation `MembershipInv` (who is settled is a member, and who redeems is not
  settled).
* `RoomCatalog_proofs`: `CatalogInv` is inductive. That lists are of the selected
  library needs `LibraryInv`: until the last question is answered the spinner turns
  or the page is misled, and that question is about the selected library. The
  others need `QueueInv` (what is being requested is of the selected library unless
  it strayed) and `AlbumInv` (busy guards the first album until the end of another
  request clears it).
* `AdminConsole_proofs`: `TaskInv` (what is awaited for a change belongs to the
  change under way), `DetailsInv` (the details shown are the selected room's, on
  their way, or known to be wrong) and `InvitationInv` (an invitation is made for
  the selected room in its dialog, until one is left). `SelectKeeps` is what every
  change of the selection has to show.

`RoomSync_proofs` shows `Spec => []TypeOK`, `Spec => []NewsReachesEveryone`,
`Spec => []OnlyOldAnswersMislead` and `Spec => SnapshotLosesNoTrack` for any clients,
managers, operations, entries and bounds, from `SyncAssumption` (that a room starts
with a queue that holds no entry twice is the primary key of its table). The
invariant has two halves. `SyncInv == Typed /\ NewsInv /\ SeenInv` is about
revisions and does not care what a queue holds:

* `Typed`: every playback in a handler, a frame, a snapshot, an answer or a view is
  `Known`: its revision is not above the room's, and with the same revision it is
  the same playback.
* `NewsInv`: the last playback and the last queue have been told to every
  registered client, or are in a frame on its wire, in a note a handler has still
  to write to it, or in what a handler has still to announce (a queue event that
  follows the reading of the list sends what is read then).
* `SeenInv`: a client that is not behind shows at least the revision it was told,
  or a snapshot at least as new is on its way to its socket.

`Transaction` reduces what the handlers and the clock commit to one kind of step.
When nothing is in hand, told is shown, which is what two of the properties say.

`ContentInv` is about what is in the queues, and is inductive on top of `Typed`:

* every request, note, frame, answer, snapshot and view holds playbacks and queues of
  the room's entries (`HandlersIn`, `WiresIn`, `SnapsIn`, `AnswersIn`, `ViewsIn`). None
  of these is inductive alone: a view comes from a frame, that from a handler, its
  order from a request and the request from a view. That a client's own edit of its
  queue is one again are `WithoutFacts` and `SwapFacts`.
* the revision is bounded by the requests (`Counted`): together with the number of
  requests on their way to the store it never exceeds those made, so a handler that
  commits spends the request it was counted for (`AskedOneLess`).
* what a half-built snapshot found waiting or loaded and what still waits is in the
  queue it has read (`SnapIn`). Every commit keeps this because whatever it puts into
  the queue was there or is new to the room (`OnlyNewcomers`), and `CommitIn` shows it
  once for all operations. `SnapshotReads` shows that a snapshot is completed by
  reading the playback and by nothing else; a track that is live and no longer in the
  queue is the current one then.

`GoneForGood` is a consequence worth its own theorem: an entry that was played,
skipped or removed never returns, whatever outdated order or removal is sent.

`Idempotency_proofs` shows `Spec => []CacheInv` and the refinement,
`Spec => ImplementsOnce`, for any handlers, keys, bodies and capacity, from
`CacheAssumption`. `CacheInv` is inductive: an owner holds an open entry under its
key and every open entry has its owner (`OwnersHoldOpenItems`) need each other, and
`OwnerIsUnique` follows; cleanup leaves open entries alone (`CleanedFacts`). The
refinement goes key by key: `MapFacts` says what the mapping shows of an entry,
`SameKey` that a step which leaves an entry and its owner alone is a stutter for its
key, `CleanedKey` that a cleanup forgets what is due; then one lemma per action.

Model-checked only: liveness (`FinishedTrackAdvances`, `IdleRoomIsPrimed`,
`EmptyRoomPauses`, `DoomedSocketsEnd`, `ListenerHears`, `Recovers`, `BusyEnds`,
`RequestsEnd`), which is out of the prover's reach together with ENABLED. Every
other property that a passing run checks is a theorem. `Without` is written with
`RemoveAt` and not with `SelectSeq`, because what a recursive operator returns for
every queue could only be shown by induction over data, which this prover cannot do.

## Findings

* `room_closed`: `contracts/openapi.yaml:138` says closing a room closes it "to
  new joins and queue changes". Only `AddQueueEntry` looks at the status;
  removing, reordering and the clock still change a closed room's queue.
* `presence_reconnect`: `realtime/hub_test.go:23` counts a pause after a
  reconnect as a failure. The callback calls the store after it has let the
  lock go (`hub.go:197`); a listener who registers in between is paused.
* `sync_latest`: `README.md:210` promises the latest snapshot after a refresh or
  an interruption. The snapshot of a connection is read before the hub knows the
  connection (`playback_ws.go:268` and `277`); a change in between is missed.
* `player_silent`: `README.md:252` has a silent listener click *Start listening*
  once. `stopListening` removes the element but leaves `loadedTrackID`
  (`room.ts:664-671`); the next element is given no source until the track changes.

## What the code does not do

Met while modelling. None is stated as a property, since no document promises the
contrary in words a run could refute, or only in a wider sense:

* After a restart nothing arms an empty-room timer (`hub.go:190`): a playing room
  whose listeners do not come back plays on, although `docs/ARCHITECTURE.md:50`
  makes no exception. `EmptyRoomPauses` is about departures within one run of the
  gateway and ends with a restart.
* A renewal of the session that fails ends the room page with an error
  (`room.ts:228-236`), while its socket and its audio go on; `README.md:210` speaks
  of recovery after network interruption. The model has it as `RefreshFails`.
* A proof that Navidrome no longer accepts leads to the error page, not to the
  login form.
* A manager who does not listen and presses the button labelled 开始收听 in a
  playing room pauses the room (`NowPlaying.vue`, `actionLabel`;
  `togglePlayback`): in `TogglePlayback` the manager's branch does not ask for
  `isListening`.
* When a manager's play is refused by the gateway the element, started ahead of
  the answer, goes on in a paused room until the next event; this is `ahead`.
* An answer of 429 says `Retry-After: 60` (`ratelimit.go:33`), but it is below 500,
  so the idempotency cache remembers it: a client that tries again under the same
  key is told 429 for fifteen minutes. The two pages make a new key every time.
* A favourite, or a playlist's song, is sent with the library selected now.
* The administrator's page: `LockIcon` is used (`App.jsx:409`) and not imported, so
  the page that should ask for a login is blank; the session is never renewed; a
  form being edited is overwritten by `RoomDialog`'s effect at every poll; the members
  and invitations of the room before stay on the page while those of the next are
  loaded, and after that load has failed.

## Not modelled, and the plan

* *Membership and invitations*, *sessions, lease and allowlist*, *rate limiter*,
  *updates and launcher* (Go): real protocols, next in this order. `Membership`:
  invitations with use counts, redeem, revoke, join, leave, remove, the
  read-modify-write of `patchRoom`, and the WebSocket handler's
  check-then-register; to prove: uses never exceed the limit. `Sessions`:
  exchange, lease, generations, revocation against the write-back of
  `Authenticate`, tickets. `Launcher`: stage, activate, health check, roll back,
  crashes between the steps. `RoomClient` already has the client's side of the
  first two: joining, redeeming, renewing, and sessions that end early.
* *Favourites and playlists* of the room page (`loadFavorites`, `openPlaylist`,
  `toggleStar`): lists without consequences for the room; requests from them are
  `Unguarded` in `RoomCatalog`.
* *Volume, display of position, media metadata, preloading, notices*: written,
  never read back. `disconnect` runs only when the store is disposed, which the
  application never does.
* *Rendering, URLs, parsing of lyrics and answers*: formatting.
* *Navidrome itself* is external: any answer may come, or none.
* *Configuration, diagnostics, static files, packaging and acceptance scripts*:
  sequential, no protocol; archive and signature verification is arithmetic on
  bytes.
