---------------------------- MODULE RoomPlayback ----------------------------
(***************************************************************************)
(* The playback of one room: the revisioned playback record kept in the    *)
(* rooms table, the rows of the queue and playback_history tables, the     *)
(* managers' commands in flight, and the clock that moves the room on when *)
(* a track has finished.  (gateway/internal/store/playback.go, queue.go,   *)
(* domain/helpers.go and the clock of api/server.go.)                      *)
(*                                                                         *)
(* Every store operation runs under Store.writeLock in one transaction, so *)
(* it is one action here; what happens between two store calls of one      *)
(* handler or of the clock is a separate action.  A refused request        *)
(* changes nothing and is a stuttering step, except that a refused command *)
(* ends (RejectCommand).                                                   *)
(*                                                                         *)
(* Abstracted: a track is its queue entry (the track JSON, display names   *)
(* and timestamps are dropped); the contributor of the current track is a  *)
(* function of the entry, as in the code, which always writes both         *)
(* together; usernames are compared up to the case folding the code        *)
(* applies; time is in whole seconds and never goes back, and the 50 ms    *)
(* tolerance of AdvanceFinished is zero.                                   *)
(***************************************************************************)
EXTENDS Integers, Sequences, FiniteSetsExt, Functions

CONSTANTS
  Entries,        \* queue identifiers ever issued (each NewID is fresh)
  Users,          \* usernames, up to case
  Managers,       \* clients allowed to send playback commands
  Contributor,    \* [Entries -> Users], who requested the entry
  Duration,       \* [Entries -> Nat], seconds; 0 when Navidrome knows none
  QueueLimits,    \* personal queue limits a manager may set (1..100)
  Modes,          \* playback modes a manager may set
  SeekPositions,  \* positions a seek may ask for
  RoomCapacity,   \* 1000: rows a room's queue may hold
  MaxRevision,    \* bound: no change starts once the revision reaches it
  MaxTime,        \* bound on the wall clock
  MaxRestarts,    \* bound on restarts of the gateway
  NoEntry, NoUser, NoCmd

NoTime == -1      \* a NULL anchor_unix_ms
NoHistory == 0    \* an empty current_history_id

ASSUME DataAssumption ==
  /\ IsFiniteSet(Entries)
  /\ Contributor \in [Entries -> Users]
  /\ Duration \in [Entries -> Nat]
  /\ NoEntry \notin Entries
  /\ NoUser \notin Users
ASSUME BoundAssumption ==
  /\ QueueLimits \subseteq Nat \ {0}
  /\ Modes \subseteq {"fifo", "fair_random"}
  /\ SeekPositions \subseteq Int
  /\ RoomCapacity \in Nat
  /\ MaxRevision \in Nat
  /\ MaxTime \in Nat
  /\ MaxRestarts \in Nat

VARIABLES
  roomStatus,  \* "open" or "closed"
  settings,    \* queue_limit and playback_mode
  playback,    \* the playback columns of the room's row
  queue,       \* [Entries -> Nat]: position of the entry's row, 0 for no row
  history,     \* rows of playback_history, in the order they were inserted
  added,       \* entries whose insertion was committed
  cmd,         \* [Managers -> command in flight or NoCmd]
  clock,       \* program counter of RunClock, with the revision it read
  now,         \* wall clock
  restarts     \* restarts so far

vars == <<roomStatus, settings, playback, queue, history, added, cmd, clock,
          now, restarts>>

Statuses == {"stopped", "playing", "paused"}
Ops == {"play", "pause", "seek", "next", "stop"}

(* playbackRecord: PlaybackState with last_contributor and                 *)
(* current_history_id.                                                     *)
Playbacks ==
  [revision : Nat, status : Statuses, pausedForEmpty : BOOLEAN,
   position : Nat, anchor : Nat \cup {NoTime}, current : Entries \cup {NoEntry},
   last : Users \cup {NoUser}, historyID : Nat]

HistoryRows == [entry : Entries, finished : BOOLEAN, played : Nat]

(* A command carries the expectedRevision its client read; "seen" is the   *)
(* playback the client read it from, and no action looks at it.            *)
Commands == [op : Ops, expected : Nat, seen : Playbacks]

ClockStates ==
  [at : {"startup", "prime", "idle", "advance"}, revision : Nat]

Settings == [limit : QueueLimits, mode : Modes]

TypeOK ==
  /\ roomStatus \in {"open", "closed"}
  /\ settings \in Settings
  /\ playback \in Playbacks
  /\ queue \in [Entries -> Nat]
  /\ history \in Seq(HistoryRows)
  /\ added \subseteq Entries
  /\ cmd \in [Managers -> Commands \cup {NoCmd}]
  /\ clock \in ClockStates
  /\ now \in Nat
  /\ restarts \in Nat

-----------------------------------------------------------------------------
(* The queue table.                                                        *)

Queued(q) == {e \in Entries : q[e] # 0}

(* normalizeQueueTx: rows are renumbered 1..n in the order of their        *)
(* positions.                                                              *)
Normalized(q) ==
  [e \in Entries |->
     IF q[e] = 0 THEN 0
     ELSE Cardinality({f \in Queued(q) : q[f] <= q[e]})]

\* Fault: the row goes, the others keep their positions.
WithoutRowGap(q, e) == [q EXCEPT ![e] = 0]
\* Fault: DELETE ... WHERE position <= the entry's.
WithoutRowsUpTo(q, e) ==
  Normalized([f \in Entries |-> IF q[f] <= q[e] THEN 0 ELSE q[f]])

WithoutRow(q, e) == Normalized([q EXCEPT ![e] = 0])

MaxPosition(q) == Max({0} \cup {q[e] : e \in Queued(q)})

(* SelectNext: the entries it may return.  With several contributors       *)
(* waiting, the one who was loaded last is passed over.                    *)
Waiting(q) == {Contributor[e] : e \in Queued(q)}

\* Fault: the contributor loaded last is not passed over.
EligibleAll(q, last) == Waiting(q)

Eligible(q, last) ==
  IF \E c, d \in Waiting(q) : c # d THEN Waiting(q) \ {last} ELSE Waiting(q)

SelectNext(q, mode, last) ==
  LET candidates == {e \in Queued(q) : Contributor[e] \in Eligible(q, last)}
  IN  IF mode = "fifo"
      THEN {e \in candidates : \A f \in candidates : q[e] <= q[f]}
      ELSE candidates

-----------------------------------------------------------------------------
(* The playback record.                                                    *)

\* Fault: clampPosition without its lower bound.
ClampAbove(p, e) ==
  IF e # NoEntry /\ Duration[e] > 0 /\ p > Duration[e] THEN Duration[e] ELSE p

Clamp(p, e) ==
  IF p < 0 THEN 0
  ELSE IF e # NoEntry /\ Duration[e] > 0 /\ p > Duration[e] THEN Duration[e]
  ELSE p

EffectivePosition(rec, t) ==
  Clamp(rec.position + (IF rec.status = "playing" /\ rec.anchor # NoTime
                        THEN t - rec.anchor ELSE 0),
        rec.current)

\* Fault: scanPlayback hands out the base position as stored.
ReadBase == playback

(* playbackQuery and scanPlayback: every reader sees the base position     *)
(* already advanced to its own "now".                                      *)
Read == [playback EXCEPT !.position = EffectivePosition(playback, now)]

(* The caller's Revision++ followed by persistPlaybackTx.                  *)
Persisted(rec) == [rec EXCEPT !.revision = @ + 1]

\* Fault: loadNextTrackTx without its DELETE.
LoadNextKeepsRow(rec, q) ==
  {[rec |-> [rec EXCEPT !.current = e, !.position = 0,
                        !.pausedForEmpty = FALSE, !.historyID = NoHistory,
                        !.last = Contributor[e]],
    queue |-> q] : e \in SelectNext(q, settings.mode, rec.last)}

(* loadNextTrackTx: the possible results on the record and on the queue.   *)
LoadNext(rec, q) ==
  IF Queued(q) = {}
  THEN {[rec |-> [rec EXCEPT !.status = "stopped", !.current = NoEntry,
                             !.position = 0, !.anchor = NoTime,
                             !.historyID = NoHistory],
         queue |-> q]}
  ELSE {[rec |-> [rec EXCEPT !.current = e, !.position = 0,
                             !.pausedForEmpty = FALSE,
                             !.historyID = NoHistory,
                             !.last = Contributor[e]],
         queue |-> WithoutRow(q, e)]
          : e \in SelectNext(q, settings.mode, rec.last)}

(* startCurrentHistoryTx: the record and the table after it.               *)
\* Fault: a row for every start, also when the track has one.
NeedsHistoryAlways(rec) == rec.current # NoEntry
NeedsHistory(rec) == rec.current # NoEntry /\ rec.historyID = NoHistory

StartHistory(rec, hist) ==
  IF NeedsHistory(rec) THEN [rec EXCEPT !.historyID = Len(hist) + 1] ELSE rec

HistoryStarted(rec, hist) ==
  IF NeedsHistory(rec)
  THEN Append(hist, [entry |-> rec.current, finished |-> FALSE, played |-> 0])
  ELSE hist

(* finishCurrentTrackTx: the record and the table after it.                *)
\* Fault: the anchor survives the track.
FinishCurrentKeepsAnchor(rec) ==
  [rec EXCEPT !.historyID = NoHistory, !.current = NoEntry, !.position = 0]

FinishCurrent(rec) ==
  [rec EXCEPT !.historyID = NoHistory, !.current = NoEntry, !.position = 0,
              !.anchor = NoTime]

HistoryFinished(rec, hist) ==
  IF rec.historyID # NoHistory /\ ~hist[rec.historyID].finished
  THEN [hist EXCEPT ![rec.historyID].finished = TRUE,
                    ![rec.historyID].played = Clamp(rec.position, rec.current)]
  ELSE hist

(* primeNextTrackTx on a record without a current track, when the queue    *)
(* has one to load.                                                        *)
Primed(rec) ==
  [rec EXCEPT !.status = "paused", !.pausedForEmpty = FALSE, !.position = 0,
              !.anchor = NoTime]

\* Fault: priming without Revision++.
PrimeNextSameRevision(q) ==
  \E out \in LoadNext(Read, q) :
     /\ out.rec.current # NoEntry
     /\ playback' = Primed(out.rec)
     /\ queue' = out.queue

PrimeNext(q) ==
  \E out \in LoadNext(Read, q) :
     /\ out.rec.current # NoEntry
     /\ playback' = Persisted(Primed(out.rec))
     /\ queue' = out.queue

-----------------------------------------------------------------------------
(* Requests on the queue.                                                  *)

OwnRows(u) == {f \in Queued(queue) : Contributor[f] = u}

(* AddQueueEntry: inserts behind the last row and, in a room without a     *)
(* current track, promotes an entry to the paused current track.           *)
AddQueueEntry(e) ==
  /\ e \notin added
  /\ roomStatus = "open"
  /\ Cardinality(OwnRows(Contributor[e])) < settings.limit
  /\ Cardinality(Queued(queue)) < RoomCapacity
  /\ added' = added \cup {e}
  /\ LET inserted == [queue EXCEPT ![e] = MaxPosition(queue) + 1]
     IN  \/ /\ playback.current # NoEntry
            /\ queue' = inserted
            /\ UNCHANGED playback
         \/ /\ playback.current = NoEntry
            /\ playback.revision < MaxRevision
            /\ PrimeNext(inserted)
  /\ UNCHANGED <<roomStatus, settings, history, cmd, clock, now, restarts>>

(* RemoveQueueEntry, by the entry's contributor or a manager.  Neither the *)
(* handler nor the store looks at the room's status.                       *)
RemoveQueueEntry(e) ==
  /\ e \in Queued(queue)
  /\ queue' = WithoutRow(queue, e)
  /\ UNCHANGED <<roomStatus, settings, playback, history, added, cmd, clock,
                 now, restarts>>

(* ReorderQueue: the list must name exactly the rows of the queue as it is *)
(* now, each once; index[e] is the place of e in that list.                *)
ReorderQueue(index) ==
  /\ index \in Bijection(Queued(queue), 1 .. Cardinality(Queued(queue)))
  /\ queue' = [e \in Entries |->
                 IF e \in Queued(queue) THEN index[e] ELSE 0]
  /\ UNCHANGED <<roomStatus, settings, playback, history, added, cmd, clock,
                 now, restarts>>

-----------------------------------------------------------------------------
(* Playback commands.                                                      *)

(* A client read the playback and sends a command; the handler finds the   *)
(* room open (requireRoomAccess) before it calls ApplyPlayback.            *)
SendCommand(m, op) ==
  /\ cmd[m] = NoCmd
  /\ roomStatus = "open"
  /\ playback.revision < MaxRevision
  /\ cmd' = [cmd EXCEPT ![m] = [op |-> op, expected |-> playback.revision,
                                seen |-> playback]]
  /\ UNCHANGED <<roomStatus, settings, playback, queue, history, added, clock,
                 now, restarts>>

(* The body of ApplyPlayback's "play": without a current track it loads    *)
(* the next one, and refuses when there is none.                           *)
Play ==
  \E start \in IF Read.current # NoEntry THEN {[rec |-> Read, queue |-> queue]}
               ELSE LoadNext(Read, queue) :
     /\ start.rec.current # NoEntry
     /\ queue' = start.queue
     /\ history' = HistoryStarted(start.rec, history)
     /\ playback' = Persisted([StartHistory(start.rec, history) EXCEPT
                                 !.status = "playing", !.pausedForEmpty = FALSE,
                                 !.anchor = now])

Pause ==
  /\ playback.current # NoEntry
  /\ playback' = Persisted([Read EXCEPT !.status = "paused", !.anchor = NoTime])
  /\ UNCHANGED <<queue, history>>

Seek(p) ==
  /\ playback.current # NoEntry
  /\ playback' = Persisted([Read EXCEPT
                              !.position = Clamp(p, playback.current),
                              !.anchor = IF playback.status = "playing"
                                         THEN now ELSE NoTime])
  /\ UNCHANGED <<queue, history>>

\* Fault: "next" finishes the track and forgets to load one.
NextWithoutLoad ==
  /\ playback' = Persisted([FinishCurrent(Read) EXCEPT !.status = "stopped"])
  /\ history' = HistoryFinished(Read, history)
  /\ UNCHANGED queue

NextTrack ==
  LET closed == HistoryFinished(Read, history)
  IN  \E out \in LoadNext(FinishCurrent(Read), queue) :
        /\ queue' = out.queue
        /\ history' = HistoryStarted(out.rec, closed)
        /\ playback' = Persisted(
             IF out.rec.current = NoEntry THEN out.rec
             ELSE [StartHistory(out.rec, closed) EXCEPT
                     !.status = "playing", !.anchor = now])

Stop ==
  /\ playback' = Persisted([FinishCurrent(Read) EXCEPT !.status = "stopped"])
  /\ history' = HistoryFinished(Read, history)
  /\ UNCHANGED queue

Command(op) ==
  \/ op = "play" /\ Play
  \/ op = "pause" /\ Pause
  \/ op = "seek" /\ \E p \in SeekPositions : Seek(p)
  \/ op = "next" /\ NextTrack
  \/ op = "stop" /\ Stop

(* ApplyPlayback: the expected revision is compared under the write lock.  *)
ApplyPlayback(m) ==
  /\ cmd[m] # NoCmd
  /\ cmd[m].expected = playback.revision
  /\ Command(cmd[m].op)
  /\ cmd' = [cmd EXCEPT ![m] = NoCmd]
  /\ UNCHANGED <<roomStatus, settings, added, clock, now, restarts>>

(* 409 revision_conflict, 409 queue_empty, 409 no_current_track, 400       *)
(* seek_invalid; or the request is lost before it reaches the store.       *)
RejectCommand(m) ==
  /\ cmd[m] # NoCmd
  /\ cmd' = [cmd EXCEPT ![m] = NoCmd]
  /\ UNCHANGED <<roomStatus, settings, playback, queue, history, added, clock,
                 now, restarts>>

(* PauseForEmpty, called by the hub when a room has had no listener for    *)
(* the whole delay; this module lets it come at any time.                  *)
PauseForEmpty ==
  /\ playback.status = "playing"
  /\ playback.current # NoEntry
  /\ playback.revision < MaxRevision
  /\ playback' = Persisted([Read EXCEPT !.status = "paused",
                                        !.pausedForEmpty = TRUE,
                                        !.anchor = NoTime])
  /\ UNCHANGED <<roomStatus, settings, queue, history, added, cmd, clock, now,
                 restarts>>

-----------------------------------------------------------------------------
(* RunClock.                                                               *)

Idle == [at |-> "idle", revision |-> 0]

\* Fault: looks for paused rooms, which always have a track.
ListPausedRooms ==
  /\ clock.at = "startup"
  /\ clock' = IF playback.status = "paused" /\ playback.current = NoEntry
              THEN [at |-> "prime", revision |-> 0] ELSE Idle
  /\ UNCHANGED <<roomStatus, settings, playback, queue, history, added, cmd,
                 now, restarts>>

(* ListIdleQueuedRoomIDs at start-up.                                      *)
ListIdleRooms ==
  /\ clock.at = "startup"
  /\ clock' = IF playback.current = NoEntry /\ Queued(queue) # {}
              THEN [at |-> "prime", revision |-> 0] ELSE Idle
  /\ UNCHANGED <<roomStatus, settings, playback, queue, history, added, cmd,
                 now, restarts>>

(* PrimePlaybackIfIdle looks at the room again under the lock.             *)
PrimePlaybackIfIdle ==
  /\ clock.at = "prime"
  /\ clock' = Idle
  /\ \/ /\ playback.current = NoEntry
        /\ Queued(queue) # {}
        /\ playback.revision < MaxRevision
        /\ PrimeNext(queue)
     \/ /\ playback.current # NoEntry \/ Queued(queue) = {}
        /\ UNCHANGED <<playback, queue>>
  /\ UNCHANGED <<roomStatus, settings, history, added, cmd, now, restarts>>

\* Fault: waits until the (clamped) position is beyond the end.
TrackFinishedLate ==
  /\ playback.status = "playing"
  /\ playback.current # NoEntry
  /\ Duration[playback.current] > 0
  /\ EffectivePosition(playback, now) > Duration[playback.current]

(* A tick: ListPlayingRoomIDs and the unlocked read of AdvanceFinished.    *)
TrackFinished ==
  /\ playback.status = "playing"
  /\ playback.current # NoEntry
  /\ Duration[playback.current] > 0
  /\ EffectivePosition(playback, now) >= Duration[playback.current]

ObserveFinished ==
  /\ clock.at = "idle"
  /\ TrackFinished
  /\ playback.revision < MaxRevision
  /\ clock' = [at |-> "advance", revision |-> playback.revision]
  /\ UNCHANGED <<roomStatus, settings, playback, queue, history, added, cmd,
                 now, restarts>>

\* Fault: the clock's "next" does not compare revisions.
AdvanceUnchecked ==
  /\ clock.at = "advance"
  /\ clock' = Idle
  /\ NextTrack
  /\ UNCHANGED <<roomStatus, settings, added, cmd, now, restarts>>

(* AdvanceFinished calls ApplyPlayback("next") with the revision it read   *)
(* and takes a conflict for "somebody else was faster".                    *)
AdvanceFinished ==
  /\ clock.at = "advance"
  /\ clock' = Idle
  /\ IF clock.revision = playback.revision THEN NextTrack
     ELSE UNCHANGED <<playback, queue, history>>
  /\ UNCHANGED <<roomStatus, settings, added, cmd, now, restarts>>

-----------------------------------------------------------------------------
(* The room's settings and the environment.                                *)

(* UpdateRoom writes every setting of the handler's copy of the room.      *)
UpdateRoom(s) ==
  /\ settings' = s
  /\ UNCHANGED <<roomStatus, playback, queue, history, added, cmd, clock, now,
                 restarts>>

(* SetRoomStatus (close, reopen) leaves the playback as it is.             *)
SetRoomStatus(status) ==
  /\ roomStatus' = status
  /\ UNCHANGED <<settings, playback, queue, history, added, cmd, clock, now,
                 restarts>>

(* The gateway stops at any point and starts again: requests in flight and *)
(* the clock's read are gone, every committed transaction stays.           *)
Restart ==
  /\ restarts < MaxRestarts
  /\ restarts' = restarts + 1
  /\ cmd' = [m \in Managers |-> NoCmd]
  /\ clock' = [at |-> "startup", revision |-> 0]
  /\ UNCHANGED <<roomStatus, settings, playback, queue, history, added, now>>

Tick ==
  /\ now < MaxTime
  /\ now' = now + 1
  /\ UNCHANGED <<roomStatus, settings, playback, queue, history, added, cmd,
                 clock, restarts>>

Init ==
  /\ roomStatus = "open"
  /\ settings \in Settings
  /\ playback = [revision |-> 0, status |-> "stopped", pausedForEmpty |-> FALSE,
                 position |-> 0, anchor |-> NoTime, current |-> NoEntry,
                 last |-> NoUser, historyID |-> NoHistory]
  /\ queue = [e \in Entries |-> 0]
  /\ history = <<>>
  /\ added = {}
  /\ cmd = [m \in Managers |-> NoCmd]
  /\ clock = [at |-> "startup", revision |-> 0]
  /\ now = 0
  /\ restarts = 0

QueueStep ==
  \/ \E e \in Entries : AddQueueEntry(e) \/ RemoveQueueEntry(e)
  \/ \E index \in [Queued(queue) -> 1 .. Cardinality(Queued(queue))] :
       ReorderQueue(index)

CommandStep ==
  \E m \in Managers :
     \/ \E op \in Ops : SendCommand(m, op)
     \/ ApplyPlayback(m)
     \/ RejectCommand(m)

ClockStep ==
  ListIdleRooms \/ PrimePlaybackIfIdle \/ ObserveFinished \/ AdvanceFinished

RoomStep ==
  \/ \E s \in Settings : UpdateRoom(s)
  \/ \E status \in {"open", "closed"} : SetRoomStatus(status)

Next == QueueStep \/ CommandStep \/ PauseForEmpty \/ ClockStep \/ RoomStep
        \/ Restart \/ Tick

Spec == Init /\ [][Next]_vars

(* RunClock is a goroutine of the gateway that nothing blocks: it takes    *)
(* its next step whenever it has one.  Users and listeners owe nothing.    *)
FairSpec == Spec /\ WF_vars(ClockStep)

-----------------------------------------------------------------------------
(* Properties.                                                             *)

(* The rows of the queue table are numbered 1..n without gaps or           *)
(* duplicates after every transaction: the table's UNIQUE constraint can   *)
(* never fail an insertion, and "position" is what the clients show.       *)
Dense(q) == {q[e] : e \in Queued(q)} = 1 .. Cardinality(Queued(q))

QueueIsDense == Dense(queue)

(* The columns of the playback record agree: an anchor exactly while       *)
(* playing, a stopped room exactly without a track, nothing plays without  *)
(* an open history row, the mark left by PauseForEmpty never survives into *)
(* playing, the base position stays inside the track, and the contributor  *)
(* to be passed over next is the one of the loaded track.                  *)
TransportIsCoherent ==
  /\ playback.anchor # NoTime <=> playback.status = "playing"
  /\ playback.current = NoEntry <=> playback.status = "stopped"
  /\ playback.status = "playing" =>
       playback.historyID # NoHistory /\ ~playback.pausedForEmpty
  /\ playback.current = NoEntry =>
       playback.position = 0 /\ playback.historyID = NoHistory
  /\ playback.current # NoEntry /\ Duration[playback.current] > 0 =>
       playback.position <= Duration[playback.current]
  /\ playback.current # NoEntry =>
       playback.last = Contributor[playback.current]

(* A row of playback_history is open exactly while it is the current       *)
(* track's, whatever restarts, lost commands or clock races came between;  *)
(* a closed row never claims more than the track's length.                 *)
HistoryIsCoherent ==
  /\ playback.historyID # NoHistory =>
       /\ playback.historyID \in DOMAIN history
       /\ history[playback.historyID].entry = playback.current
  /\ \A i \in DOMAIN history :
       /\ history[i].finished <=> i # playback.historyID
       /\ Duration[history[i].entry] > 0 =>
            history[i].played <= Duration[history[i].entry]

(* A requested track is in one place: waiting, loaded, or in the history,  *)
(* where it has at most one row.  Nothing is played twice or from thin air.*)
PlayedAtMostOnce ==
  /\ \A i, j \in DOMAIN history : history[i].entry = history[j].entry => i = j
  /\ \A i \in DOMAIN history :
       history[i].entry = playback.current => i = playback.historyID
  /\ {history[i].entry : i \in DOMAIN history}
       \cap Queued(queue) = {}
  /\ playback.current \notin Queued(queue)

(* The point of expectedRevision: whoever holds the current revision,      *)
(* holds the current playback.  A command that is accepted therefore acts  *)
(* on the track its sender saw, and the clock's "next" on a track that is  *)
(* still finished.                                                         *)
RevisionIdentifiesPlayback ==
  /\ \A m \in Managers : cmd[m] # NoCmd =>
       /\ cmd[m].expected <= playback.revision
       /\ cmd[m].expected = playback.revision => cmd[m].seen = playback
  /\ clock.at = "advance" =>
       /\ clock.revision <= playback.revision
       /\ clock.revision = playback.revision => TrackFinished

(* Waiting, loaded and played tracks were all requested.                   *)
OnlyAddedEntries ==
  /\ Queued(queue) \subseteq added
  /\ playback.current # NoEntry => playback.current \in added
  /\ \A i \in DOMAIN history : history[i].entry \in added

(* The inductive invariant of the room: each of the above needs the others *)
(* (an insertion keeps the queue dense because it inserts a new entry, a   *)
(* loaded track has no history row because waiting tracks have none, ...). *)
RoomInv ==
  /\ TypeOK
  /\ QueueIsDense
  /\ OnlyAddedEntries
  /\ TransportIsCoherent
  /\ HistoryIsCoherent
  /\ PlayedAtMostOnce
  /\ RevisionIdentifiesPlayback

(* The room implements the life of a track that TrackLifecycle promises:   *)
(* no renumbering, race, restart or refused command loses a waiting track, *)
(* loads two, or brings one back.                                          *)
Stage(e) ==
  CASE e \notin added -> "new"
    [] e \in Queued(queue) -> "queued"
    [] e = playback.current /\ playback.historyID = NoHistory -> "loaded"
    [] e = playback.current /\ playback.historyID # NoHistory -> "started"
    [] e \in added /\ e \notin Queued(queue) /\ e # playback.current ->
         IF \E i \in DOMAIN history : history[i].entry = e
         THEN "played" ELSE "dropped"

Lifecycle == INSTANCE TrackLifecycle WITH stage <- [e \in Entries |-> Stage(e)]

ImplementsLifecycle == Lifecycle!Spec

(* The position listeners compute moves with the wall clock while playing, *)
(* stands still while paused, and never jumps at a change of the record:   *)
(* pausing, resuming, playing again, a pause for emptiness and a restart   *)
(* keep it.  Only a seek may move it.                                      *)
SeekApplied ==
  \E m \in Managers : cmd[m] # NoCmd /\ cmd[m].op = "seek" /\ cmd'[m] = NoCmd

Moved == EffectivePosition(playback', now') - EffectivePosition(playback, now)

PositionIsContinuous ==
  [][ /\ playback.current # NoEntry
      /\ playback'.current = playback.current
      /\ ~SeekApplied
      => IF playback.status = "playing" THEN Moved \in 0 .. (now' - now)
         ELSE Moved = 0 ]_vars

(* The clock closes a history row only with the track's full length (in    *)
(* the code, up to the 50 ms less at which AdvanceFinishedRooms takes a    *)
(* track for finished; the model's units of time are coarser): a seek, a   *)
(* pause or another "next" that slips in between the clock's read and its  *)
(* write is never answered by cutting a track short.                       *)
ClockNeverCutsShort ==
  [][ clock.at = "advance" /\ clock'.at = "idle" /\ playback' # playback
      => history'[playback.historyID].played = Duration[playback.current] ]_vars

(* A track of the contributor who was loaded last is loaded only when      *)
(* nobody else's is left waiting: whoever loads it ("next", the clock,     *)
(* "play", an entry added to an idle room, the priming at start-up), in    *)
(* both modes, and however often the room was stopped, drained or          *)
(* restarted in between, for a room without a track remembers whose turn   *)
(* it was (docs/ARCHITECTURE.md, "Queue selection prevents one contributor *)
(* from monopolizing playback").                                           *)
NoContributorTwiceInARow ==
  [][ /\ /\ playback'.current \notin {NoEntry, playback.current}
         /\ Contributor[playback'.current] = playback.last
         => \A e \in Queued(queue') : Contributor[e] = playback.last
      /\ playback'.current = NoEntry => playback'.last = playback.last ]_vars

(* A room with tracks waiting loses its current track only to a manager's  *)
(* stop: neither the clock, nor next, nor a restart leaves it idle.        *)
OnlyStopIdlesTheRoom ==
  [][ /\ playback.current # NoEntry /\ playback'.current = NoEntry
      /\ Queued(queue') # {}
      => \E m \in Managers : /\ cmd[m] # NoCmd /\ cmd'[m] = NoCmd
                             /\ cmd[m].op = "stop" ]_vars

(* A track that has played to its end does not stay: the clock moves on,   *)
(* through restarts and races with managers.  (At MaxRevision nothing may  *)
(* change any more.)                                                       *)
AtBound == playback.revision = MaxRevision

AtEnd(e) ==
  /\ playback.current = e /\ playback.status = "playing" /\ Duration[e] > 0
  /\ EffectivePosition(playback, now) = Duration[e]

FinishedTrackAdvances ==
  \A e \in Entries : AtEnd(e) ~> (~AtEnd(e) \/ AtBound)

(* A gateway that starts and finds a room idle with tracks waiting gets it *)
(* a current track, unless the tracks go first.                            *)
IdleRoomIsPrimed ==
  (clock.at = "startup" /\ playback.current = NoEntry /\ Queued(queue) # {})
    ~> (playback.current # NoEntry \/ Queued(queue) = {} \/ AtBound)

(* What contracts/openapi.yaml says of POST /rooms/{room_id}/close: "Close *)
(* a room to new joins and queue changes".  The code keeps it for requests *)
(* that add a track, and for no other change of the queue.                 *)
ClosedRoomKeepsItsQueue ==
  [][ roomStatus = "closed" => UNCHANGED queue ]_vars

=============================================================================
