------------------------ MODULE RoomPresence_proofs ------------------------
(***************************************************************************)
(* The empty-room timer, for any number of sockets, users and timers and   *)
(* any delay: PresenceInv is inductive, and a pause is decided only after  *)
(* the whole delay.                                                        *)
(***************************************************************************)
EXTENDS RoomPresence, TLAPS

LEMMA InitPresence == Init => PresenceInv
<1>1. ASSUME Init
      PROVE  TypeOK
  <2>1. playing \in BOOLEAN /\ deserted \in BOOLEAN
    BY <1>1 DEF Init
  <2>2. socket \in [Sockets -> SocketStages] /\ timer \in [Timers -> TimerStages]
    BY <1>1 DEF Init, SocketStages, TimerStages
  <2>3. left \in [Timers -> 0..EmptyDelay] /\ emptyFor \in 0..EmptyDelay /\ restarts \in 0..MaxRestarts
    BY <1>1, PresenceAssumption DEF Init
  <2>4. QED
    BY <1>1, <2>1, <2>2, <2>3 DEF Init, TypeOK
<1>2. Init => TimerTracksRoom /\ TimerNotEarly /\ NoOrphanSocket /\ DesertedIsTimed
  BY DEF Init, TimerTracksRoom, TimerNotEarly, NoOrphanSocket, DesertedIsTimed, Armed
<1>3. QED
  BY <1>1, <1>2 DEF PresenceInv

\* Admitting, breaking and closing sockets does not touch registry or timers.
LEMMA SocketSteps ==
  ASSUME PresenceInv, NEW c \in Sockets, Admit(c) \/ Break(c) \/ CloseSocket(c)
  PROVE  PresenceInv'
<1>1. TypeOK'
  BY DEF PresenceInv, TypeOK, Admit, Break, CloseSocket, timerVars, SocketStages
<1>2. TimerTracksRoom' /\ TimerNotEarly' /\ DesertedIsTimed'
  BY DEF PresenceInv, TimerTracksRoom, TimerNotEarly, DesertedIsTimed, Armed,
         Admit, Break, CloseSocket, timerVars
<1>3. NoOrphanSocket'
  BY DEF PresenceInv, TypeOK, NoOrphanSocket, Admit, Break, CloseSocket, SocketStages
<1>4. QED
  BY <1>1, <1>2, <1>3 DEF PresenceInv

\* Stopping the room's timer leaves the room without a timer and without an
\* armed one.
LEMMA StopLeavesNone ==
  ASSUME TypeOK, TimerTracksRoom, StopEmptyTimer
  PROVE  /\ emptyTimer' = NoTimer
         /\ timer' \in [Timers -> TimerStages]
         /\ left' = left
         /\ \A t \in Timers : timer'[t] # "armed"
BY DEF TypeOK, TimerTracksRoom, StopEmptyTimer, Armed, TimerStages

LEMMA RegisterStep ==
  ASSUME PresenceInv, NEW c \in Sockets, Register(c)
  PROVE  PresenceInv'
<1>1. /\ emptyTimer' = NoTimer
      /\ timer' \in [Timers -> TimerStages]
      /\ left' = left
      /\ \A t \in Timers : timer'[t] # "armed"
  BY StopLeavesNone DEF PresenceInv, Register
<1>2. TypeOK'
  <2>1. deserted' \in BOOLEAN
    BY DEF Register
  <2>2. socket' \in [Sockets -> SocketStages]
    BY DEF PresenceInv, TypeOK, Register, SocketStages
  <2>3. QED
    BY <1>1, <2>1, <2>2, PresenceAssumption DEF PresenceInv, TypeOK, Register
<1>3. TimerTracksRoom' /\ TimerNotEarly'
  BY <1>1 DEF TimerTracksRoom, TimerNotEarly, Armed
<1>4. NoOrphanSocket' /\ DesertedIsTimed'
  BY DEF PresenceInv, TypeOK, NoOrphanSocket, DesertedIsTimed, Register, SocketStages
<1>5. QED
  BY <1>2, <1>3, <1>4 DEF PresenceInv

LEMMA CloseRoomStep ==
  ASSUME PresenceInv, CloseRoom
  PROVE  PresenceInv'
<1>1. /\ emptyTimer' = NoTimer
      /\ timer' \in [Timers -> TimerStages]
      /\ left' = left
      /\ \A t \in Timers : timer'[t] # "armed"
  BY StopLeavesNone DEF PresenceInv, CloseRoom
<1>2. TypeOK'
  <2>1. deserted' \in BOOLEAN
    BY DEF CloseRoom
  <2>2. QED
    BY <1>1, <2>1, PresenceAssumption DEF PresenceInv, TypeOK, CloseRoom
<1>3. TimerTracksRoom' /\ TimerNotEarly'
  BY <1>1 DEF TimerTracksRoom, TimerNotEarly, Armed
<1>4. NoOrphanSocket' /\ DesertedIsTimed'
  BY DEF PresenceInv, NoOrphanSocket, DesertedIsTimed, CloseRoom
<1>5. QED
  BY <1>2, <1>3, <1>4 DEF PresenceInv

\* Leaving: while somebody was registered the room had no timer, so the one
\* the last to leave arms is the only one.
LEMMA RemoveStep ==
  ASSUME PresenceInv, NEW c \in Sockets, Remove(c)
  PROVE  PresenceInv'
<1>1. NoOrphanSocket'
  BY DEF PresenceInv, TypeOK, NoOrphanSocket, Remove, SocketStages
<1>2. CASE registered # {} /\ registered' = {}
  <2>1. emptyTimer = NoTimer /\ \A t \in Timers : ~Armed(t)
    BY <1>2, PresenceAssumption DEF PresenceInv, TypeOK, TimerTracksRoom
  <2>2. PICK t \in Timers :
          /\ timer[t] = "none"
          /\ timer' = [timer EXCEPT ![t] = "armed"]
          /\ left' = [left EXCEPT ![t] = EmptyDelay]
          /\ emptyTimer' = t
    BY <1>2 DEF Remove, ArmEmptyTimer
  <2>3. emptyFor' = 0 /\ deserted' = playing
    BY <1>2 DEF Remove
  <2>4. TypeOK'
    BY <2>2, <2>3, PresenceAssumption DEF PresenceInv, TypeOK, Remove, SocketStages, TimerStages
  <2>5. timer'[t] = "armed" /\ left'[t] = EmptyDelay
    BY <2>2 DEF PresenceInv, TypeOK
  <2>6. TimerTracksRoom'
    BY <1>2, <2>1, <2>2, <2>5 DEF PresenceInv, TypeOK, TimerTracksRoom, Armed
  <2>7. TimerNotEarly'
    BY <2>2, <2>3, <2>5, PresenceAssumption DEF TimerNotEarly
  <2>8. DesertedIsTimed'
    BY <2>2, PresenceAssumption DEF DesertedIsTimed
  <2>9. QED
    BY <1>1, <2>4, <2>6, <2>7, <2>8 DEF PresenceInv
<1>3. CASE ~(registered # {} /\ registered' = {})
  <2>1. UNCHANGED <<timer, left, emptyTimer, emptyFor, deserted>>
    BY <1>3 DEF Remove, timerVars
  <2>2. TypeOK'
    BY <2>1 DEF PresenceInv, TypeOK, Remove, SocketStages
  <2>3. registered = {} => registered' = {}
    BY DEF Remove
  <2>4. TimerTracksRoom' /\ TimerNotEarly' /\ DesertedIsTimed'
    BY <2>1, <2>3 DEF PresenceInv, TimerTracksRoom, TimerNotEarly, DesertedIsTimed, Armed
  <2>5. QED
    BY <1>1, <2>2, <2>4 DEF PresenceInv
<1>4. QED
  BY <1>2, <1>3

LEMMA CallbackSteps ==
  ASSUME PresenceInv, NEW t \in Timers, Fire(t) \/ Decide(t) \/ PauseForEmpty(t)
  PROVE  PresenceInv'
<1>1. TypeOK'
  BY DEF PresenceInv, TypeOK, Fire, Decide, PauseForEmpty, TimerStages
<1>2. NoOrphanSocket'
  BY DEF PresenceInv, NoOrphanSocket, Fire, Decide, PauseForEmpty
<1>3. CASE Fire(t)
  <2>1. DesertedIsTimed'
    BY <1>3 DEF PresenceInv, TypeOK, DesertedIsTimed, Armed, Fire
  <2>2. TimerTracksRoom' /\ TimerNotEarly'
    BY <1>3 DEF PresenceInv, TypeOK, TimerTracksRoom, TimerNotEarly, Armed, Fire, TimerStages
  <2>3. QED
    BY <1>1, <1>2, <2>1, <2>2 DEF PresenceInv
<1>4. CASE Decide(t)
  <2>1. TimerTracksRoom'
    BY <1>4, PresenceAssumption
       DEF PresenceInv, TypeOK, TimerTracksRoom, Armed, Decide, StillEmpty, TimerStages
  <2>2. TimerNotEarly'
    BY <1>4, PresenceAssumption
       DEF PresenceInv, TypeOK, TimerTracksRoom, TimerNotEarly, Decide, StillEmpty, TimerStages
  <2>3. DesertedIsTimed'
    BY <1>4 DEF PresenceInv, TypeOK, DesertedIsTimed, Decide
  <2>4. QED
    BY <1>1, <1>2, <2>1, <2>2, <2>3 DEF PresenceInv
<1>5. CASE PauseForEmpty(t)
  BY <1>1, <1>2, <1>5
     DEF PresenceInv, TypeOK, TimerTracksRoom, TimerNotEarly, DesertedIsTimed, Armed,
         PauseForEmpty, TimerStages
<1>6. QED
  BY <1>3, <1>4, <1>5

LEMMA TickStep ==
  ASSUME PresenceInv, Tick
  PROVE  PresenceInv'
<1>1. TypeOK'
  BY PresenceAssumption DEF PresenceInv, TypeOK, Tick, Armed
<1>2. TimerTracksRoom' /\ NoOrphanSocket' /\ DesertedIsTimed'
  BY DEF PresenceInv, TimerTracksRoom, NoOrphanSocket, DesertedIsTimed, Armed, Tick
<1>3. TimerNotEarly'
  <2>1. SUFFICES ASSUME emptyTimer # NoTimer
                 PROVE  /\ emptyFor' + left'[emptyTimer] >= EmptyDelay
                        /\ timer[emptyTimer] = "fired" => left'[emptyTimer] = 0
    BY DEF TimerNotEarly, Tick
  <2>2. /\ emptyTimer \in Timers /\ registered = {}
        /\ timer[emptyTimer] \in {"armed", "fired"}
        /\ emptyFor + left[emptyTimer] >= EmptyDelay
        /\ timer[emptyTimer] = "fired" => left[emptyTimer] = 0
    BY <2>1 DEF PresenceInv, TypeOK, TimerTracksRoom, TimerNotEarly
  <2>3. left'[emptyTimer] = IF Armed(emptyTimer) /\ left[emptyTimer] > 0
                            THEN left[emptyTimer] - 1 ELSE left[emptyTimer]
    BY <2>2 DEF Tick
  <2>4. emptyFor' = IF emptyFor < EmptyDelay THEN emptyFor + 1 ELSE emptyFor
    BY <2>2 DEF Tick
  <2>5. emptyFor \in 0..EmptyDelay /\ left[emptyTimer] \in 0..EmptyDelay
    BY <2>2 DEF PresenceInv, TypeOK
  <2>6. QED
    BY <2>2, <2>3, <2>4, <2>5, PresenceAssumption DEF Armed
<1>4. QED
  BY <1>1, <1>2, <1>3 DEF PresenceInv

\* Kicks, deletion and managers' commands change nothing the timers look at.
LEMMA OtherSteps ==
  ASSUME PresenceInv,
         \/ \E u \in Users : KickUser(u)
         \/ \E on \in BOOLEAN : SetPlaying(on)
         \/ DeleteRoom
         \/ Restart
  PROVE  PresenceInv'
<1>1. CASE \E u \in Users : KickUser(u)
  BY <1>1 DEF PresenceInv, TypeOK, TimerTracksRoom, TimerNotEarly, NoOrphanSocket, DesertedIsTimed, Armed,
              KickUser, timerVars
<1>2. CASE \E on \in BOOLEAN : SetPlaying(on)
  <2>1. UNCHANGED <<room, socket, registered, doomed, timer, left, emptyTimer, emptyFor, restarts>>
    BY <1>2 DEF SetPlaying, timerVars
  <2>2. playing' \in BOOLEAN /\ deserted' \in BOOLEAN /\ (deserted' => deserted)
    BY <1>2 DEF SetPlaying
  <2>3. TypeOK'
    BY <2>1, <2>2 DEF PresenceInv, TypeOK
  <2>4. TimerTracksRoom' /\ TimerNotEarly' /\ NoOrphanSocket' /\ DesertedIsTimed'
    BY <2>1, <2>2 DEF PresenceInv, TimerTracksRoom, TimerNotEarly, NoOrphanSocket,
                      DesertedIsTimed, Armed
  <2>5. QED
    BY <2>3, <2>4 DEF PresenceInv
<1>3. CASE DeleteRoom
  <2>1. UNCHANGED <<socket, registered, doomed, timer, left, emptyTimer, emptyFor, restarts>>
    BY <1>3 DEF DeleteRoom, timerVars
  <2>2. playing' \in BOOLEAN /\ deserted' \in BOOLEAN /\ ~deserted'
    BY <1>3 DEF DeleteRoom
  <2>3. TypeOK'
    BY <1>3, <2>1, <2>2 DEF PresenceInv, TypeOK, DeleteRoom
  <2>4. TimerTracksRoom' /\ TimerNotEarly' /\ NoOrphanSocket' /\ DesertedIsTimed'
    BY <2>1, <2>2 DEF PresenceInv, TimerTracksRoom, TimerNotEarly, NoOrphanSocket,
                      DesertedIsTimed, Armed
  <2>5. QED
    BY <2>3, <2>4 DEF PresenceInv
<1>4. CASE Restart
  <2>1. /\ socket' = [c \in Sockets |-> "none"] /\ registered' = {} /\ doomed' = {}
        /\ timer' = [t \in Timers |-> "none"] /\ left' = [t \in Timers |-> 0]
        /\ emptyTimer' = NoTimer /\ emptyFor' = 0
        /\ restarts < MaxRestarts /\ restarts' = restarts + 1
        /\ playing' = playing /\ room' \in {"open", "gone"}
    BY <1>4 DEF Restart
  <2>2. deserted' \in BOOLEAN /\ ~deserted'
    BY <1>4 DEF Restart
  <2>3. TypeOK'
    BY <2>1, <2>2, PresenceAssumption DEF PresenceInv, TypeOK, SocketStages, TimerStages
  <2>4. TimerTracksRoom' /\ TimerNotEarly' /\ NoOrphanSocket' /\ DesertedIsTimed'
    BY <2>1, <2>2 DEF TimerTracksRoom, TimerNotEarly, NoOrphanSocket, DesertedIsTimed, Armed
  <2>5. QED
    BY <2>3, <2>4 DEF PresenceInv
<1>5. QED
  BY <1>1, <1>2, <1>3, <1>4

LEMMA StepKeepsPresence ==
  ASSUME PresenceInv, [Next]_vars
  PROVE  PresenceInv'
<1>1. CASE HubStep
  BY <1>1, RegisterStep, RemoveStep, SocketSteps, CallbackSteps, CloseRoomStep, TickStep DEF HubStep
<1>2. CASE \E c \in Sockets : Admit(c) \/ Break(c)
  BY <1>2, SocketSteps
<1>3. CASE \/ \E u \in Users : KickUser(u)
           \/ \E on \in BOOLEAN : SetPlaying(on)
           \/ DeleteRoom
           \/ Restart
  BY <1>3, OtherSteps
<1>4. CASE UNCHANGED vars
  BY <1>4 DEF vars, timerVars, PresenceInv, TypeOK, TimerTracksRoom, TimerNotEarly, NoOrphanSocket, DesertedIsTimed, Armed
<1>5. QED
  BY <1>1, <1>2, <1>3, <1>4 DEF Next

\* The registry, the sockets and the timer agree in every reachable state.
THEOREM PresenceInvariant == Spec => []PresenceInv
<1>1. QED
  BY InitPresence, StepKeepsPresence, PTL DEF Spec

\* Every connection that is served gets the room's events or is being closed.
THEOREM NoSocketIsOrphaned == Spec => []NoOrphanSocket
<1>1. PresenceInv => NoOrphanSocket
  BY DEF PresenceInv
<1>2. QED
  BY <1>1, PresenceInvariant, PTL

\* Whenever the last connection has left a playing room, and nobody has come
\* back, paused, deleted or restarted it since, the timer that pauses it is
\* there, or its callback has decided: no departure is forgotten.
THEOREM DesertedRoomsAreTimed == Spec => []DesertedIsTimed
<1>1. PresenceInv => DesertedIsTimed
  BY DEF PresenceInv
<1>2. QED
  BY <1>1, PresenceInvariant, PTL

\* A pause is decided only when nobody has been here for the whole delay: the
\* callback that decides belongs to the room's timer, which never runs ahead.
THEOREM PausesAreNotEarly == Spec => PauseAfterWholeDelay
<1>1. ASSUME PresenceInv, [Next]_vars
      PROVE  [\A t \in Timers : timer[t] = "fired" /\ timer'[t] = "calling" =>
                registered = {} /\ emptyFor = EmptyDelay]_vars
  <2>1. SUFFICES ASSUME NEW t \in Timers, timer[t] = "fired", timer'[t] = "calling"
                 PROVE  registered = {} /\ emptyFor = EmptyDelay
    OBVIOUS
  <2>2. Decide(t)
    <3>1. CASE \E c \in Sockets : Register(c)
      BY <1>1, <2>1, <3>1 DEF Register, StopEmptyTimer
    <3>2. CASE \E c \in Sockets : Remove(c)
      BY <1>1, <2>1, <3>2 DEF Remove, ArmEmptyTimer, timerVars, PresenceInv, TypeOK
    <3>3. CASE \E c \in Sockets : CloseSocket(c) \/ Admit(c) \/ Break(c)
      BY <1>1, <2>1, <3>3 DEF CloseSocket, Admit, Break, timerVars
    <3>4. CASE \E s \in Timers : Fire(s) \/ PauseForEmpty(s)
      BY <1>1, <2>1, <3>4 DEF Fire, PauseForEmpty, PresenceInv, TypeOK
    <3>5. CASE \E s \in Timers : Decide(s)
      BY <1>1, <2>1, <3>5 DEF Decide, PresenceInv, TypeOK
    <3>6. CASE CloseRoom
      BY <1>1, <2>1, <3>6 DEF CloseRoom, StopEmptyTimer
    <3>7. CASE Tick \/ Restart
      BY <1>1, <2>1, <3>7 DEF Tick, Restart
    <3>8. CASE \/ \E u \in Users : KickUser(u)
               \/ \E on \in BOOLEAN : SetPlaying(on)
               \/ DeleteRoom
               \/ UNCHANGED vars
      BY <1>1, <2>1, <3>8 DEF KickUser, SetPlaying, DeleteRoom, timerVars, vars
    <3>9. QED
      BY <1>1, <3>1, <3>2, <3>3, <3>4, <3>5, <3>6, <3>7, <3>8 DEF Next, HubStep
  <2>3. emptyTimer = t /\ registered = {}
    BY <1>1, <2>1, <2>2 DEF Decide, StillEmpty, PresenceInv, TypeOK
  <2>4. left[t] = 0 /\ emptyFor + left[t] >= EmptyDelay
    BY <1>1, <2>1, <2>3, PresenceAssumption DEF PresenceInv, TypeOK, TimerNotEarly
  <2>5. QED
    BY <1>1, <2>3, <2>4, PresenceAssumption DEF PresenceInv, TypeOK
<1>2. QED
  BY <1>1, PresenceInvariant, PTL DEF Spec, PauseAfterWholeDelay
=============================================================================
