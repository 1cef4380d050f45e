---------------------------- MODULE RoomPresence ----------------------------
(***************************************************************************)
(* Who is connected to one room, and the timer that pauses a room nobody   *)
(* listens to: the registry and the timers of realtime/hub.go, the         *)
(* WebSocket handler that checks first and registers later, and the        *)
(* handlers that end connections.                                          *)
(*                                                                         *)
(* Hub.mu makes each registry operation one action.  A callback of         *)
(* time.AfterFunc runs in its own goroutine: it fires, waits for the lock, *)
(* decides under it and calls the store after it has let the lock go, so   *)
(* it is three actions.  Sockets are closed outside the lock as well.      *)
(*                                                                         *)
(* Abstracted: the playback is the one bit PauseForEmpty looks at (the     *)
(* module RoomPlayback has the rest); presence events are left to the      *)
(* registry they announce; timers and sockets are reused once they are     *)
(* spent, in the code they are garbage.                                    *)
(***************************************************************************)
EXTENDS Integers

CONSTANTS
  Sockets,      \* connections that may exist at a time (bound)
  Users,        \* usernames, up to case
  UserOf,       \* [Sockets -> Users]
  Timers,       \* timers that may exist at a time (bound)
  EmptyDelay,   \* seconds an empty room keeps playing (15)
  MaxRestarts,  \* bound on restarts of the gateway
  NoTimer

ASSUME PresenceAssumption ==
  /\ UserOf \in [Sockets -> Users]
  /\ EmptyDelay \in Nat
  /\ MaxRestarts \in Nat
  /\ NoTimer \notin Timers

VARIABLES
  room,        \* "open", "deleted" (row gone, sockets not yet), "gone"
  playing,     \* the room's playback status is "playing"
  socket,      \* [Sockets -> SocketStages]
  registered,  \* Hub.rooms[room]
  doomed,      \* sockets somebody collected under the lock and will close
  timer,       \* [Timers -> TimerStages]
  left,        \* [Timers -> seconds until the timer may fire]
  emptyTimer,  \* Hub.emptyTimers[room]
  emptyFor,    \* history: seconds nobody has been registered, up to the delay
  deserted,    \* history: the last connection has left the playing room, and
               \* nobody has come, paused, deleted or restarted it since
  restarts

vars == <<room, playing, socket, registered, doomed,
          timer, left, emptyTimer, emptyFor, deserted, restarts>>
timerVars == <<timer, left, emptyTimer>>

\* A socket is admitted (all checks of the handler passed), serving (its
\* goroutine reads), or broken (the next read fails).
SocketStages == {"none", "admitted", "serving", "broken"}

\* A timer is armed, fired (its goroutine waits for the lock), or calling
\* (it has decided and will call PauseForEmpty).
TimerStages == {"none", "armed", "fired", "calling"}

Armed(t) == timer[t] = "armed"

Init ==
  /\ room = "open" /\ playing = FALSE
  /\ socket = [c \in Sockets |-> "none"]
  /\ registered = {} /\ doomed = {}
  /\ timer = [t \in Timers |-> "none"]
  /\ left = [t \in Timers |-> 0]
  /\ emptyTimer = NoTimer
  /\ emptyFor = 0 /\ deserted = FALSE
  /\ restarts = 0

-----------------------------------------------------------------------------
(* Connections *)

\* The handler has checked ticket, session, room and membership, has built
\* the snapshot and upgraded the connection.  The hub does not know it yet.
Admit(c) ==
  /\ room = "open"
  /\ socket[c] = "none"
  /\ c \notin doomed
  /\ socket' = [socket EXCEPT ![c] = "admitted"]
  /\ UNCHANGED <<room, playing, registered, doomed, timerVars, emptyFor, deserted, restarts>>

\* Fault: the room's timer is stopped but stays the room's timer.
StopOnlyTheTimer ==
  /\ timer' = [t \in Timers |-> IF t = emptyTimer /\ Armed(t) THEN "none" ELSE timer[t]]
  /\ UNCHANGED <<emptyTimer, left>>

\* Stop() on the room's timer: an armed timer will not fire, a fired one runs.
StopEmptyTimer ==
  /\ timer' = [t \in Timers |-> IF t = emptyTimer /\ Armed(t) THEN "none" ELSE timer[t]]
  /\ emptyTimer' = NoTimer
  /\ UNCHANGED left

Register(c) ==
  /\ socket[c] = "admitted"
  /\ socket' = [socket EXCEPT ![c] = "serving"]
  /\ registered' = registered \union {c}
  /\ StopEmptyTimer
  /\ emptyFor' = 0 /\ deserted' = FALSE
  /\ UNCHANGED <<room, playing, doomed, restarts>>

\* The listener leaves, a ping cannot be written, or the read deadline ends.
Break(c) ==
  /\ socket[c] = "serving"
  /\ socket' = [socket EXCEPT ![c] = "broken"]
  /\ UNCHANGED <<room, playing, registered, doomed, timerVars, emptyFor, deserted, restarts>>

\* Fault: the timer is started but not stored.
ArmUnnamedTimer ==
  \E t \in Timers :
    /\ timer[t] = "none"
    /\ timer' = [timer EXCEPT ![t] = "armed"]
    /\ left' = [left EXCEPT ![t] = EmptyDelay]
    /\ UNCHANGED emptyTimer

ArmEmptyTimer ==
  \E t \in Timers :
    /\ timer[t] = "none"
    /\ timer' = [timer EXCEPT ![t] = "armed"]
    /\ left' = [left EXCEPT ![t] = EmptyDelay]
    /\ emptyTimer' = t

\* The deferred remove of Serve.  A room without connections has no entry in
\* Hub.rooms, so the last one to leave arms the timer and nobody after it.
Remove(c) ==
  /\ socket[c] = "broken"
  /\ socket' = [socket EXCEPT ![c] = "none"]
  /\ registered' = registered \ {c}
  /\ IF registered # {} /\ registered' = {}
     THEN ArmEmptyTimer /\ emptyFor' = 0 /\ deserted' = playing
     ELSE UNCHANGED <<timerVars, emptyFor, deserted>>
  /\ UNCHANGED <<room, playing, doomed, restarts>>

-----------------------------------------------------------------------------
(* The empty-room timer *)

Fire(t) ==
  /\ Armed(t) /\ left[t] = 0
  /\ timer' = [timer EXCEPT ![t] = "fired"]
  /\ UNCHANGED <<room, playing, socket, registered, doomed, left, emptyTimer, emptyFor, deserted, restarts>>

\* Fault: the callback checks only that nobody is here now.
EmptyNow(t) == registered = {}

\* Under the lock: is this still the room's timer, and is nobody here?
StillEmpty(t) == emptyTimer = t /\ registered = {}

Decide(t) ==
  /\ timer[t] = "fired"
  /\ \/ /\ StillEmpty(t)
        /\ timer' = [timer EXCEPT ![t] = "calling"]
        /\ emptyTimer' = NoTimer
     \/ /\ ~StillEmpty(t)
        /\ timer' = [timer EXCEPT ![t] = "none"]
        /\ UNCHANGED emptyTimer
  /\ UNCHANGED <<room, playing, socket, registered, doomed, left, emptyFor, deserted, restarts>>

\* PauseForEmpty: pauses a playing room; fails on a deleted one.
PauseForEmpty(t) ==
  /\ timer[t] = "calling"
  /\ timer' = [timer EXCEPT ![t] = "none"]
  /\ playing' = FALSE /\ deserted' = FALSE
  /\ UNCHANGED <<room, socket, registered, doomed, left, emptyTimer, emptyFor, restarts>>

-----------------------------------------------------------------------------
(* Handlers that end connections *)

\* CloseRoom collects the connections and drops the registry entry under the
\* lock, then closes them one by one.
CloseRoom ==
  /\ room = "deleted"
  /\ room' = "gone"
  /\ doomed' = doomed \union registered
  /\ registered' = {}
  /\ StopEmptyTimer
  /\ emptyFor' = 0 /\ deserted' = FALSE
  /\ UNCHANGED <<playing, socket, restarts>>

DeleteRoom ==
  /\ room = "open"
  /\ room' = "deleted"
  /\ playing' = FALSE /\ deserted' = FALSE
  /\ UNCHANGED <<socket, registered, doomed, timerVars, emptyFor, restarts>>

\* A member left or was removed, or the plugin's allowlist dropped the user.
KickUser(u) ==
  /\ doomed' = doomed \union {c \in registered : UserOf[c] = u}
  /\ UNCHANGED <<room, playing, socket, registered, timerVars, emptyFor, deserted, restarts>>

\* Fault: the peer is told to close, the socket is left to it.
CloseFrameOnly(c) ==
  /\ c \in doomed
  /\ doomed' = doomed \ {c}
  /\ UNCHANGED <<room, playing, socket, registered, timerVars, emptyFor, deserted, restarts>>

CloseSocket(c) ==
  /\ c \in doomed
  /\ doomed' = doomed \ {c}
  /\ socket' = [socket EXCEPT ![c] = IF @ = "serving" THEN "broken" ELSE @]
  /\ UNCHANGED <<room, playing, registered, timerVars, emptyFor, deserted, restarts>>

-----------------------------------------------------------------------------
(* Managers, the clock, restarts *)

\* A manager starts or stops playing; no connection is needed for that.
SetPlaying(on) ==
  /\ room = "open"
  /\ playing' = on /\ deserted' = (deserted /\ on)
  /\ UNCHANGED <<room, socket, registered, doomed, timerVars, emptyFor, restarts>>

Tick ==
  /\ \E t \in Timers : Armed(t) /\ left[t] > 0
  /\ left' = [t \in Timers |-> IF Armed(t) /\ left[t] > 0 THEN left[t] - 1 ELSE left[t]]
  /\ emptyFor' = IF registered = {} /\ emptyFor < EmptyDelay THEN emptyFor + 1 ELSE emptyFor
  /\ UNCHANGED <<room, playing, socket, registered, doomed, timer, emptyTimer, deserted, restarts>>

\* Connections, timers and running handlers are lost; the database is not.
Restart ==
  /\ restarts < MaxRestarts
  /\ restarts' = restarts + 1
  /\ room' = IF room = "open" THEN "open" ELSE "gone"
  /\ socket' = [c \in Sockets |-> "none"]
  /\ registered' = {} /\ doomed' = {}
  /\ timer' = [t \in Timers |-> "none"]
  /\ left' = [t \in Timers |-> 0]
  /\ emptyTimer' = NoTimer
  /\ emptyFor' = 0 /\ deserted' = FALSE
  /\ UNCHANGED playing

HubStep ==
  \/ \E c \in Sockets : Register(c) \/ Remove(c) \/ CloseSocket(c)
  \/ \E t \in Timers : Fire(t) \/ Decide(t) \/ PauseForEmpty(t)
  \/ CloseRoom
  \/ Tick

Next ==
  \/ HubStep
  \/ \E c \in Sockets : Admit(c) \/ Break(c)
  \/ \E u \in Users : KickUser(u)
  \/ \E on \in BOOLEAN : SetPlaying(on)
  \/ DeleteRoom
  \/ Restart

Spec == Init /\ [][Next]_vars

\* Timers fire and goroutines that hold or wait for no user run.
TimerFairness ==
  /\ WF_vars(Tick)
  /\ \A t \in Timers : WF_vars(Fire(t)) /\ WF_vars(Decide(t)) /\ WF_vars(PauseForEmpty(t))
SocketFairness ==
  \A c \in Sockets : WF_vars(Register(c)) /\ WF_vars(CloseSocket(c)) /\ WF_vars(Remove(c))
FairSpec == Spec /\ TimerFairness /\ SocketFairness

-----------------------------------------------------------------------------
(* Correctness *)

TypeOK ==
  /\ room \in {"open", "deleted", "gone"}
  /\ playing \in BOOLEAN
  /\ socket \in [Sockets -> SocketStages]
  /\ registered \subseteq Sockets
  /\ doomed \subseteq Sockets
  /\ timer \in [Timers -> TimerStages]
  /\ left \in [Timers -> 0..EmptyDelay]
  /\ emptyTimer \in Timers \union {NoTimer}
  /\ emptyFor \in 0..EmptyDelay
  /\ deserted \in BOOLEAN
  /\ restarts \in 0..MaxRestarts

\* The room has a timer only while nobody is registered, the timer is the only
\* armed one, and it is running down or waiting for the lock.  (add, remove
\* and CloseRoom keep Hub.rooms and Hub.emptyTimers in step.)
TimerTracksRoom ==
  /\ emptyTimer # NoTimer => registered = {} /\ timer[emptyTimer] \in {"armed", "fired"}
  /\ \A t \in Timers : Armed(t) => t = emptyTimer

\* The room's timer never runs ahead of the time the room has been empty.
TimerNotEarly ==
  emptyTimer # NoTimer =>
    /\ emptyFor + left[emptyTimer] >= EmptyDelay
    /\ timer[emptyTimer] = "fired" => left[emptyTimer] = 0

\* A served connection gets the room's events, or is about to be closed by the
\* handler that took it out of the registry; whoever is registered has a
\* goroutine that will remove it.  (CloseRoom, Serve.)
NoOrphanSocket ==
  \A c \in Sockets :
    /\ socket[c] = "serving" => c \in registered \union doomed
    /\ c \in registered => socket[c] \in {"serving", "broken"}

\* A deserted room has its timer, or a callback that has decided and is about
\* to pause it.  (remove, by which every connection goes, and the callback.)
DesertedIsTimed ==
  deserted => emptyTimer # NoTimer \/ \E t \in Timers : timer[t] = "calling"

PresenceInv ==
  TypeOK /\ TimerTracksRoom /\ TimerNotEarly /\ NoOrphanSocket /\ DesertedIsTimed

\* A pause is decided only for a room nobody has been in for the whole delay:
\* a callback that lost its race for the lock against a reconnect, and even
\* against the next departure, decides nothing.  (hub.go, the two checks of
\* the AfterFunc callback.)
PauseAfterWholeDelay ==
  [][\A t \in Timers :
       timer[t] = "fired" /\ timer'[t] = "calling" =>
         registered = {} /\ emptyFor = EmptyDelay]_vars

\* When the last connection leaves a playing room, by whichever path, the room
\* does not stay deserted: it is paused, unless somebody comes back, the room
\* is deleted or the gateway is restarted.  It starts from the departure, not
\* from a timer.  (hub.remove and its AfterFunc callback.)
EmptyRoomPauses ==
  \A r \in 0..MaxRestarts :
    deserted /\ restarts = r ~>
      ~playing \/ registered # {} \/ room # "open" \/ restarts # r

\* Collected connections end: they are closed, and the goroutine that serves
\* them takes them out of the registry.  (KickUser, CloseRoom, remove.)
DoomedSocketsEnd ==
  \A c \in Sockets : c \in doomed ~> socket[c] = "none"

\* A pause for emptiness never hits a room somebody is connected to.
\* (hub_test.go, TestReconnectCancelsEmptyRoomPause.)
ListenersKeepPlaying ==
  [][\A t \in Timers :
       timer[t] = "calling" /\ playing /\ ~playing' => registered = {}]_vars

=============================================================================
