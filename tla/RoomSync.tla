------------------------------ MODULE RoomSync ------------------------------
(***************************************************************************)
(* What listeners see of a room: handlers that commit and then broadcast   *)
(* (api/playback_ws.go, realtime/hub.go), snapshots read before the hub    *)
(* knows the connection, and the room client that merges snapshots, events *)
(* and the answers to its own requests (room-ui/src/stores/room.ts).       *)
(*                                                                         *)
(* Store operations hold the write lock for a transaction and are one      *)
(* action.  Everything a handler does afterwards is a step of its own: it  *)
(* reads the queue again, collects the registered clients under the hub's  *)
(* lock, writes to one after the other, and answers.  A connection         *)
(* delivers its frames in order; two handlers' frames, and the initial     *)
(* snapshot, reach it in any order.                                        *)
(*                                                                         *)
(* Abstracted: a playback is its revision and its track (RoomPlayback has  *)
(* the rest, and shows that the revision identifies it); any waiting entry *)
(* may be selected next; history events, which travel like queue events,   *)
(* are left out, and so are members and settings.  SQL and encoding errors *)
(* do not happen.                                                          *)
(***************************************************************************)
EXTENDS Integers, SequencesExt

CONSTANTS
  Clients,      \* room clients
  Managers,     \* those whose requests are modelled
  Listeners,    \* those whose connections and refreshes are modelled
  Clock,        \* the playback clock, a handler without a client
  Ops,          \* operations clients ask for
  Entries,      \* queue entries that may be requested
  MaxRequests,  \* bound on requests and clock steps
  MaxLoads,     \* bound on connections and refreshes
  StartQueues,  \* what may wait in the stopped room to begin with
  NoEntry

Waits == {"add", "remove", "reorder"}
Transports == {"seek", "play", "next", "stop"}

ASSUME SyncAssumption ==
  /\ Managers \subseteq Clients /\ Listeners \subseteq Clients
  /\ Clock \notin Clients
  /\ NoEntry \notin Entries
  /\ Ops \subseteq Waits \union Transports
  /\ MaxRequests \in Nat /\ MaxLoads \in Nat
  /\ \A q \in StartQueues : q \in Seq(Entries) /\ IsInjective(q)

Tasks == Managers \union {Clock}

VARIABLES
  playback,    \* [rev, track] of the room's row
  queue,       \* entries of the queue table, by position
  added,       \* entries ever inserted
  registered,  \* Hub.rooms[room]
  task,        \* [Tasks -> what the handler still has to do]
  wire,        \* [Clients -> frames written to the connection, not handled]
  snap,        \* [Clients -> [Vias -> a snapshot being built or delivered]]
  answer,      \* [Clients -> the response on its way, <<>> if none]
  view,        \* [Clients -> the snapshot the client shows]
  requests, loads,
  told,        \* history: [Clients -> what the connection has brought]
  behind       \* history: clients misled by an outdated snapshot or answer

vars == <<playback, queue, added, registered, task, wire, snap, answer, view,
          requests, loads, told, behind>>
store == <<playback, queue, added, requests>>
client == <<wire, answer, view, told, behind>>

Vias == {"socket", "fetch"}
NoPlayback == [rev |-> -1, track |-> NoEntry]
NoSnap == [stage |-> "none", queue |-> <<>>, playback |-> NoPlayback, live |-> {}]

\* A handler is idle, has been asked (the request is on its way to the store),
\* or works off todo.  playback and queue are what it has to announce, note is
\* the event it is writing, to the clients it is still to be written to.
Idle == [at |-> "idle", request |-> <<>>, todo |-> <<>>, playback |-> NoPlayback,
         queue |-> <<>>, note |-> <<>>, to |-> {}]

Waiting == ToSet(queue)
\* The queue without one entry, whose identifier no other entry has.
Without(q, e) == IF e \in ToSet(q) THEN RemoveAt(q, CHOOSE i \in DOMAIN q : q[i] = e) ELSE q
Loaded == {playback.track} \ {NoEntry}
Live == Waiting \union Loaded

Init ==
  /\ playback = [rev |-> 0, track |-> NoEntry]
  /\ queue \in StartQueues /\ added = ToSet(queue)
  /\ registered = {}
  /\ task = [p \in Tasks |-> Idle]
  /\ wire = [c \in Clients |-> <<>>]
  /\ snap = [c \in Clients |-> [v \in Vias |-> NoSnap]]
  /\ answer = [c \in Clients |-> <<>>]
  /\ view = [c \in Clients |-> [playback |-> playback, queue |-> queue]]
  /\ requests = 0 /\ loads = 0
  /\ told = [c \in Clients |-> [rev |-> 0, queues |-> {queue}]]
  /\ behind = {}

-----------------------------------------------------------------------------
(* Requests *)

\* The client asks with what it shows: the revision for a command, an entry of
\* its queue to remove, its queue with two neighbours swapped to reorder.
Wish(c, op) ==
  IF op \in Transports THEN {[op |-> op, expected |-> view[c].playback.rev]}
  ELSE IF op = "add" THEN {[op |-> op, entry |-> e] : e \in Entries \ added}
  ELSE IF op = "remove" THEN {[op |-> op, entry |-> e] : e \in ToSet(view[c].queue)}
  ELSE {[op |-> op, order |-> ReplaceAt(ReplaceAt(q, i, q[i + 1]), i + 1, q[i])] :
          i \in 1 .. Len(view[c].queue) - 1, q \in {view[c].queue}}

Ask(c) ==
  /\ task[c] = Idle /\ answer[c] = <<>>
  /\ requests < MaxRequests
  /\ requests' = requests + 1
  /\ \E op \in Ops : \E w \in Wish(c, op) :
       task' = [task EXCEPT ![c].at = "asked", ![c].request = <<w>>]
  /\ UNCHANGED <<playback, queue, added, registered, snap, loads, client>>

\* Fault: commands announce the playback only.
TodoPlaybackOnly(op, primed) ==
  IF op \in Transports THEN <<"playback">>
  ELSE IF op = "add" /\ primed THEN <<"playback", "list", "queue">>
  ELSE IF op \in {"add", "remove"} THEN <<"list", "queue">>
  ELSE <<"queue">>

\* The events a handler sends after its commit, in its order; "list" reads the
\* queue again, all others send what the transaction returned.
Todo(op, primed) ==
  IF op = "seek" THEN <<"playback">>
  ELSE IF op \in Transports THEN <<"playback", "list", "queue">>
  ELSE IF op = "add" THEN IF primed THEN <<"playback", "list", "queue">> ELSE <<"list", "queue">>
  ELSE IF op = "remove" THEN <<"list", "queue">>
  ELSE <<"queue">>

\* The transaction of p's request commits: the room's new playback and queue,
\* and the work that is left.
Commit(p, op, newPlayback, newQueue) ==
  LET changed == newPlayback # playback IN
  /\ playback' = newPlayback
  /\ queue' = newQueue
  /\ task' = [task EXCEPT
       ![p].at = "working",
       ![p].todo = Todo(op, changed),
       ![p].playback = IF changed THEN newPlayback ELSE NoPlayback,
       ![p].queue = newQueue]

\* loadNextTrackTx: some waiting entry becomes the track, or none is waiting.
WithNext(q) ==
  IF q = <<>> THEN {[track |-> NoEntry, queue |-> q]}
  ELSE {[track |-> q[i], queue |-> RemoveAt(q, i)] : i \in DOMAIN q}

Load(p, op, q) ==
  \E n \in WithNext(q) :
    Commit(p, op, [rev |-> playback.rev + 1, track |-> n.track], n.queue)

Keep(p, op, track) ==
  Commit(p, op, [rev |-> playback.rev + 1, track |-> track], queue)

\* ApplyPlayback.
Command(p, op) ==
  \/ op = "seek" /\ playback.track # NoEntry /\ Keep(p, op, playback.track)
  \/ op = "play" /\ playback.track # NoEntry /\ Keep(p, op, playback.track)
  \/ op = "play" /\ playback.track = NoEntry /\ queue # <<>> /\ Load(p, op, queue)
  \/ op = "next" /\ Load(p, op, queue)
  \/ op = "stop" /\ Keep(p, op, NoEntry)

\* AddQueueEntry: an idle room loads an entry in the same transaction.
Add(p, e) ==
  \/ playback.track = NoEntry /\ Load(p, "add", Append(queue, e))
  \/ playback.track # NoEntry /\ Commit(p, "add", playback, Append(queue, e))

\* What the store accepts: a command that names the current revision, an entry
\* that is still waiting, an order of just the entries that are.
Acceptable(w) ==
  IF w.op \in Transports
  THEN /\ w.expected = playback.rev
       /\ w.op = "seek" => playback.track # NoEntry
       /\ w.op = "play" => Live # {}
  ELSE IF w.op = "add" THEN w.entry \notin added
  ELSE IF w.op = "remove" THEN w.entry \in Waiting
  ELSE Len(w.order) = Len(queue) /\ ToSet(w.order) = Waiting

Serve(c) ==
  /\ task[c].at = "asked"
  /\ LET w == Head(task[c].request) IN
       /\ Acceptable(w)
       /\ \/ w.op \in Transports /\ Command(c, w.op)
          \/ w.op = "add" /\ Add(c, w.entry)
          \/ w.op = "remove" /\ Commit(c, w.op, playback, Without(queue, w.entry))
          \/ w.op = "reorder" /\ Commit(c, w.op, playback, w.order)
       /\ added' = IF w.op = "add" THEN added \union {w.entry} ELSE added
  /\ UNCHANGED <<registered, snap, requests, loads, client>>

\* What the store refuses is answered without a broadcast.  A revision conflict
\* makes the client fetch a snapshot; other errors it only shows.
Refuse(c) ==
  /\ task[c].at = "asked"
  /\ LET w == Head(task[c].request) IN
       /\ ~Acceptable(w)
       /\ answer' = [answer EXCEPT ![c] =
            IF w.op \in Transports /\ w.expected # playback.rev
            THEN <<[type |-> "conflict"]>> ELSE <<>>]
  /\ task' = [task EXCEPT ![c] = Idle]
  /\ UNCHANGED <<store, registered, snap, loads, wire, view, told, behind>>

\* RunClock moves a room on whose track has finished.
ClockAdvance ==
  /\ task[Clock] = Idle
  /\ requests < MaxRequests
  /\ requests' = requests + 1
  /\ playback.track # NoEntry
  /\ Load(Clock, "next", queue)
  /\ UNCHANGED <<added, registered, snap, loads, client>>

-----------------------------------------------------------------------------
(* Broadcasts *)

Step(p) == Head(task[p].todo)
Writing(p) == task[p].to # {}

\* ListQueue, outside any transaction.
ListQueue(p) ==
  /\ ~Writing(p) /\ task[p].todo # <<>> /\ Step(p) = "list"
  /\ task' = [task EXCEPT ![p].queue = queue, ![p].todo = Tail(@)]
  /\ UNCHANGED <<store, registered, snap, loads, client>>

Event(p) ==
  IF Step(p) = "playback" THEN [type |-> "playback", playback |-> task[p].playback]
  ELSE [type |-> "queue", queue |-> task[p].queue]

\* Broadcast collects the clients of the room under Hub.mu ...
Collect(p) ==
  /\ ~Writing(p) /\ task[p].todo # <<>> /\ Step(p) # "list"
  /\ task' = [task EXCEPT ![p].note = IF registered = {} THEN <<>> ELSE <<Event(p)>>,
                          ![p].to = registered,
                          ![p].todo = Tail(@)]
  /\ UNCHANGED <<store, registered, snap, loads, client>>

\* ... and writes to one after the other.
Write(p, c) ==
  /\ c \in task[p].to
  /\ task' = [task EXCEPT ![p].to = @ \ {c}, ![p].note = IF task[p].to = {c} THEN <<>> ELSE @]
  /\ wire' = [wire EXCEPT ![c] = @ \o task[p].note]
  /\ UNCHANGED <<store, registered, snap, loads, answer, view, told, behind>>

\* The response to the client that asked.
Answer(w, t) ==
  IF w.op \in Transports THEN [type |-> "playback", playback |-> t.playback]
  ELSE IF w.op = "add" THEN [type |-> "added", queue |-> t.queue, primed |-> t.playback]
  ELSE IF w.op = "remove" THEN [type |-> "removed", entry |-> w.entry]
  ELSE [type |-> "reordered", queue |-> t.queue]

Finish(p) ==
  /\ task[p].at = "working" /\ task[p].todo = <<>> /\ ~Writing(p)
  /\ answer' = IF p = Clock THEN answer
               ELSE [answer EXCEPT ![p] = <<Answer(Head(task[p].request), task[p])>>]
  /\ task' = [task EXCEPT ![p] = Idle]
  /\ UNCHANGED <<store, registered, snap, loads, wire, view, told, behind>>

-----------------------------------------------------------------------------
(* Snapshots and connections *)

\* Fault: the playback is read first.
BuildBackwards(s) ==
  IF s.stage = "half" THEN [s EXCEPT !.stage = "built", !.queue = queue, !.live = {}]
  ELSE [s EXCEPT !.stage = "half", !.playback = playback, !.live = Live]

\* buildSnapshot reads the queue and then the playback.  live remembers the
\* entries that were waiting or loaded when it began.
Build(s) ==
  IF s.stage = "half" THEN [s EXCEPT !.stage = "built", !.playback = playback, !.live = {}]
  ELSE [s EXCEPT !.stage = "half", !.queue = queue, !.live = Live]

\* GET /snapshot: at start, when the page becomes visible, before a reconnect.
Fetch(c) ==
  /\ snap[c]["fetch"].stage = "none"
  /\ loads < MaxLoads
  /\ loads' = loads + 1
  /\ snap' = [snap EXCEPT ![c]["fetch"] = [NoSnap EXCEPT !.stage = "asked"]]
  /\ UNCHANGED <<store, registered, task, client>>

\* GET /ws: the handler builds the snapshot before the hub knows the socket.
Connect(c) ==
  /\ c \notin registered /\ snap[c]["socket"].stage = "none"
  /\ loads < MaxLoads
  /\ loads' = loads + 1
  /\ snap' = [snap EXCEPT ![c]["socket"] = [NoSnap EXCEPT !.stage = "asked"]]
  /\ UNCHANGED <<store, registered, task, client>>

BuildStep(c, v) ==
  /\ snap[c][v].stage \in {"asked", "half"}
  /\ snap' = [snap EXCEPT ![c][v] = Build(@)]
  /\ UNCHANGED <<store, registered, task, loads, client>>

\* Hub.add.  The client has fallen behind already if something was committed
\* since its snapshot was read.
Register(c) ==
  /\ snap[c]["socket"].stage = "built" /\ c \notin registered
  /\ registered' = registered \union {c}
  /\ told' = [told EXCEPT ![c] = [rev |-> playback.rev, queues |-> {queue}]]
  /\ behind' = IF snap[c]["socket"].playback.rev < playback.rev THEN behind \union {c} ELSE behind \ {c}
  /\ UNCHANGED <<store, task, snap, loads, wire, answer, view>>

\* Serve writes the snapshot after the hub may already have written events.
WriteInitial(c) ==
  /\ c \in registered /\ snap[c]["socket"].stage = "built"
  /\ wire' = [wire EXCEPT ![c] =
       Append(@, [type |-> "snapshot", queue |-> snap[c]["socket"].queue,
                  playback |-> snap[c]["socket"].playback])]
  /\ snap' = [snap EXCEPT ![c]["socket"] = NoSnap]
  /\ UNCHANGED <<store, registered, task, loads, answer, view, told, behind>>

\* The connection breaks: frames on it, and frames still to be written, are
\* lost.
Disconnect(c) ==
  /\ c \in registered
  /\ registered' = registered \ {c}
  /\ wire' = [wire EXCEPT ![c] = <<>>]
  /\ snap' = [snap EXCEPT ![c]["socket"] = NoSnap]
  /\ task' = [p \in Tasks |-> [task[p] EXCEPT !.to = @ \ {c}]]
  /\ UNCHANGED <<store, loads, answer, view, told, behind>>

-----------------------------------------------------------------------------
(* The client *)

\* Showing something older than before leaves the client behind until it shows
\* the room's current revision again.
Track(c, shown) ==
  behind' = IF shown.rev = playback.rev THEN behind \ {c}
            ELSE IF shown.rev < view[c].playback.rev THEN behind \union {c}
            ELSE behind

CatchUp(c, shown) ==
  behind' = IF shown.rev = playback.rev THEN behind \ {c} ELSE behind

\* Fault: handleEvent takes playback events as they come.
NewerUnchecked(old, new) == new

\* A playback event older than what is shown is dropped.
Newer(old, new) == IF new.rev < old.rev THEN old ELSE new

\* handleEvent.
Handled(v, e) ==
  CASE e.type = "snapshot" -> [playback |-> e.playback, queue |-> e.queue]
    [] e.type = "playback" -> [v EXCEPT !.playback = Newer(@, e.playback)]
    [] e.type = "queue"    -> [v EXCEPT !.queue = e.queue]

Handle(c) ==
  /\ wire[c] # <<>>
  /\ wire' = [wire EXCEPT ![c] = Tail(@)]
  /\ LET e == Head(wire[c])
         v == Handled(view[c], e)
     IN /\ view' = [view EXCEPT ![c] = v]
        /\ IF e.type = "playback" THEN CatchUp(c, v.playback) ELSE Track(c, v.playback)
        /\ told' = [told EXCEPT ![c] =
             [rev |-> IF e.type = "playback" /\ e.playback.rev > @.rev THEN e.playback.rev ELSE @.rev,
              queues |-> IF e.type = "queue" THEN @.queues \union {e.queue} ELSE @.queues]]
  /\ UNCHANGED <<store, registered, task, snap, loads, answer>>

\* Fault: addSong takes the playback of every answer.
AnsweredUnchecked(v, a) ==
  CASE a.type = "playback"  -> [v EXCEPT !.playback = a.playback]
    [] a.type = "added"     -> [playback |-> a.primed, queue |-> a.queue]
    [] a.type = "removed"   -> [v EXCEPT !.queue = Without(@, a.entry)]
    [] a.type = "reordered" -> [v EXCEPT !.queue = a.queue]

\* command, addSong, removeQueue and moveQueue take the answer as it is.
Answered(v, a) ==
  CASE a.type = "playback"  -> [v EXCEPT !.playback = a.playback]
    [] a.type = "added"     -> [playback |-> IF a.primed = NoPlayback THEN v.playback ELSE a.primed,
                                queue |-> a.queue]
    [] a.type = "removed"   -> [v EXCEPT !.queue = Without(@, a.entry)]
    [] a.type = "reordered" -> [v EXCEPT !.queue = a.queue]

TakeAnswer(c) ==
  /\ answer[c] # <<>> /\ answer[c][1].type # "conflict"
  /\ answer' = [answer EXCEPT ![c] = <<>>]
  /\ LET v == Answered(view[c], answer[c][1]) IN
       /\ view' = [view EXCEPT ![c] = v]
       /\ Track(c, v.playback)
  /\ UNCHANGED <<store, registered, task, snap, loads, wire, told>>

\* 409 revision_conflict: the client fetches a snapshot.
TakeConflict(c) ==
  /\ answer[c] # <<>> /\ answer[c][1].type = "conflict"
  /\ snap[c]["fetch"].stage = "none"
  /\ answer' = [answer EXCEPT ![c] = <<>>]
  /\ snap' = [snap EXCEPT ![c]["fetch"] = [NoSnap EXCEPT !.stage = "asked"]]
  /\ UNCHANGED <<store, registered, task, loads, wire, view, told, behind>>

\* applySnapshot replaces what is shown.
TakeFetched(c) ==
  /\ snap[c]["fetch"].stage = "built"
  /\ view' = [view EXCEPT ![c] =
       [playback |-> snap[c]["fetch"].playback, queue |-> snap[c]["fetch"].queue]]
  /\ Track(c, snap[c]["fetch"].playback)
  /\ snap' = [snap EXCEPT ![c]["fetch"] = NoSnap]
  /\ UNCHANGED <<store, registered, task, loads, wire, answer, told>>

\* Every request is answered, every frame handled, nothing on its way.
Settled ==
  /\ \A p \in Tasks : task[p] = Idle
  /\ \A c \in Clients : wire[c] = <<>> /\ answer[c] = <<>> /\ \A v \in Vias : snap[c][v] = NoSnap

\* A settled room may rest; any other stop is a deadlock.
AtRest == Settled /\ UNCHANGED vars

Next ==
  \/ \E c \in Managers : Ask(c) \/ Serve(c) \/ Refuse(c) \/ TakeAnswer(c) \/ TakeConflict(c)
  \/ ClockAdvance
  \/ \E p \in Tasks : ListQueue(p) \/ Collect(p) \/ Finish(p) \/ \E c \in Clients : Write(p, c)
  \/ \E c \in Listeners : Fetch(c) \/ Connect(c) \/ Register(c) \/ WriteInitial(c) \/ Disconnect(c)
  \/ \E c \in Clients : Handle(c) \/ TakeFetched(c) \/ \E v \in Vias : BuildStep(c, v)
  \/ AtRest

Spec == Init /\ [][Next]_vars

-----------------------------------------------------------------------------
(* Correctness *)

Playbacks == [rev : 0 .. MaxRequests, track : Entries \union {NoEntry}]
Queues == {q \in Seq(Entries) : IsInjective(q)}

TypeOK ==
  /\ playback \in Playbacks /\ queue \in Queues /\ added \subseteq Entries
  /\ registered \subseteq Clients /\ behind \subseteq Clients
  /\ \A p \in Tasks : task[p].at \in {"idle", "asked", "working"} /\ task[p].to \subseteq registered
  /\ \A c \in Clients :
       /\ view[c].playback \in Playbacks /\ view[c].queue \in Queues
       /\ c \notin registered => wire[c] = <<>>
       /\ Len(answer[c]) <= 1

\* Whatever was committed last while a client was connected has reached it by
\* the time the room settles, through whichever handler, in whatever order the
\* broadcasts overtook each other.  (The handlers broadcast after they commit,
\* and re-read the queue or send what their transaction read.)
NewsReachesEveryone ==
  Settled => \A c \in registered :
    told[c].rev = playback.rev /\ queue \in told[c].queues

\* A connected client shows the current playback of a settled room, unless it
\* was misled by a snapshot that was outdated when the hub registered it, or
\* by a snapshot or an answer older than what it already showed.  (handleEvent
\* compares revisions; applySnapshot and command do not.)
OnlyOldAnswersMislead ==
  Settled => \A c \in registered \ behind : view[c].playback = playback

\* A snapshot shows every track that was waiting or loaded all the time it was
\* being read, in the queue or as the current one, though "next" may move a
\* track between the two reads.  (buildSnapshot reads the queue first.)
SnapshotLosesNoTrack ==
  [][\A c \in Clients, v \in Vias :
       snap[c][v].stage = "half" /\ snap'[c][v].stage = "built" =>
         snap[c][v].live \intersect Live \subseteq
           ToSet(snap'[c][v].queue) \union {snap'[c][v].playback.track}]_vars

\* After a refresh or an interruption clients recover the latest snapshot.
\* (README.md, "Listen together".)
RecoversLatestSnapshot ==
  Settled => \A c \in registered : view[c].playback = playback
=============================================================================
