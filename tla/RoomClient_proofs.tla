-------------------------- MODULE RoomClient_proofs --------------------------
(***************************************************************************)
(* A room page's session, connection and invitation, for any number of     *)
(* sockets and any bound on the connections it may have under way.         *)
(***************************************************************************)
EXTENDS RoomClient, TLAPS

\* A session that is under way has its renewal ahead of it before the page is
\* ready; a page that waits for an answer is still entering.
EnteringInv ==
  /\ step \in {"join", "redeem", "rejoin", "snapshot", "catalog"} =>
       sessionTimer \/ refreshing \/ missed
  /\ step # "none" => phase \in {"login", "joining"}
  /\ refreshing => phase = "ready"

\* Who has been a member all the time is one now, and has no need to redeem.
MembershipInv ==
  /\ settled => member
  /\ MemberNeedsNoInvitation

IInv == SessionInv /\ EnteringInv /\ MembershipInv /\ NeverStranded /\ OneConnection

Entering == /\ phase \in {"booting", "login", "joining", "ready", "error"}
            /\ step \in Answers \union {"none"}
            /\ proof \in BOOLEAN /\ invited \in BOOLEAN /\ hash \in BOOLEAN
            /\ sessionTimer \in BOOLEAN /\ refreshing \in BOOLEAN /\ missed \in BOOLEAN
            /\ session \in {"none", "live", "expired"}

LinkOK == /\ sockets \in [Sockets -> SocketStates] /\ current \in Sockets \union {NoSocket}
          /\ tickets \in Nat /\ recovering \in Nat
          /\ connected \in BOOLEAN /\ reconnecting \in BOOLEAN /\ retrying \in BOOLEAN
          /\ reconnectTimer \in BOOLEAN /\ raced \in BOOLEAN

OutsideOK == /\ member \in BOOLEAN /\ reachable \in BOOLEAN
             /\ leased \in BOOLEAN /\ usable \in BOOLEAN /\ settled \in BOOLEAN

\* What is about the session and entering, and what is about the connection.
EnterInv == Entering /\ RenewalAhead /\ EnteringInv
LinkInv == LinkOK /\ NeverStranded /\ OneConnection
OutsideInv == OutsideOK /\ MembershipInv

LEMMA Parts == IInv <=> EnterInv /\ LinkInv /\ OutsideInv
BY DEF IInv, SessionInv, TypeOK, EnterInv, LinkInv, OutsideInv, Entering, LinkOK, OutsideOK

LEMMA InitClient == Init => IInv
<1> SUFFICES ASSUME Init PROVE IInv
  OBVIOUS
<1>1. EnterInv
  BY DEF Init, EnterInv, Entering, RenewalAhead, EnteringInv
<1>2. LinkInv
  <2>1. LinkOK
    BY DEF Init, LinkOK, SocketStates
  <2>2. NeverStranded
    BY DEF Init, NeverStranded
  <2>3. OneConnection
    BY DEF Init, OneConnection, Live
  <2>4. QED
    BY <2>1, <2>2, <2>3 DEF LinkInv
<1>3. OutsideInv
  BY DEF Init, OutsideInv, OutsideOK, MembershipInv, MemberNeedsNoInvitation
<1>4. QED
  BY <1>1, <1>2, <1>3, Parts

-----------------------------------------------------------------------------
(* What a step leaves alone *)

LEMMA EnterKept ==
  ASSUME EnterInv, UNCHANGED <<enter, renewal>>
  PROVE  EnterInv'
BY DEF EnterInv, Entering, RenewalAhead, EnteringInv, enter, renewal

LEMMA OutsideKept ==
  ASSUME OutsideInv, UNCHANGED outside, step' = step \/ step' # "redeem"
  PROVE  OutsideInv'
BY DEF OutsideInv, OutsideOK, MembershipInv, MemberNeedsNoInvitation, outside, world

\* A page that is no more ready than before keeps its connection's invariant.
LEMMA LinkKept ==
  ASSUME LinkInv, UNCHANGED <<link, retry>>, phase' = "ready" => phase = "ready"
  PROVE  LinkInv'
<1>1. LinkOK'
  BY DEF LinkInv, LinkOK, link, retry
<1>2. NeverStranded'
  BY DEF LinkInv, NeverStranded, Held, link, retry
<1>3. OneConnection'
  BY DEF LinkInv, OneConnection, link
<1>4. QED
  BY <1>1, <1>2, <1>3 DEF LinkInv

-----------------------------------------------------------------------------
(* The connection *)

\* Closing a socket makes no other live.
LEMMA ClosedFacts ==
  ASSUME NEW states \in [Sockets -> SocketStates], NEW s \in Sockets \union {NoSocket}
  PROVE  /\ Closed(states, s) \in [Sockets -> SocketStates]
         /\ \A t \in Sockets : Closed(states, s)[t] \in Live => states[t] \in Live /\ t # s
<1>1. CASE s = NoSocket
  BY <1>1, ClientAssumption DEF Closed
<1>2. CASE s # NoSocket
  <2>1. s \in Sockets
    BY <1>2
  <2> DEFINE next == CASE states[s] = "open" -> "closing"
                       [] states[s] = "connecting" -> "failing"
                       [] OTHER -> states[s]
  <2>2. Closed(states, s) = [states EXCEPT ![s] = next]
    BY <1>2, <2>1 DEF Closed
  <2>3. next \in SocketStates /\ next \notin Live
    <3>1. states[s] \in SocketStates
      BY <2>1
    <3>2. QED
      BY <3>1 DEF SocketStates, Live
  <2> HIDE DEF next
  <2>4. QED
    BY <2>1, <2>2, <2>3
<1>3. QED
  BY <1>1, <1>2

\* Connecting is what NeverStranded asks for, and only a race makes it a second.
LEMMA ConnectFacts ==
  ASSUME LinkInv, NEW replace \in BOOLEAN, ConnectRealtime(replace)
  PROVE  /\ sockets' \in [Sockets -> SocketStates] /\ current' \in Sockets \union {NoSocket}
         /\ tickets' \in Nat /\ reconnecting' \in BOOLEAN /\ raced' \in BOOLEAN
         /\ OneConnection'
         /\ Held' # "none" \/ tickets' > 0
<1>1. LinkOK /\ OneConnection
  BY DEF LinkInv
<1>2. CASE ~replace /\ Held \in Live
  <2>1. UNCHANGED link
    BY <1>2 DEF ConnectRealtime
  <2>2. Held' = Held /\ Held # "none"
    BY <1>2, <2>1 DEF Held, link, Live
  <2>3. QED
    BY <1>1, <2>1, <2>2 DEF LinkOK, OneConnection, link
<1>3. CASE ~(~replace /\ Held \in Live)
  <2>1. /\ sockets' = Closed(sockets, current) /\ current' = NoSocket
        /\ tickets' = tickets + 1 /\ reconnecting' = retrying
        /\ raced' = (raced \/ tickets > 0)
    BY <1>3 DEF ConnectRealtime
  <2>2. /\ sockets' \in [Sockets -> SocketStates]
        /\ \A t \in Sockets : sockets'[t] \in Live => sockets[t] \in Live /\ t # current
    BY <1>1, <2>1, ClosedFacts DEF LinkOK
  <2>3. tickets' \in Nat /\ tickets' > 0
    BY <1>1, <2>1 DEF LinkOK
  <2>4. raced' \in BOOLEAN /\ reconnecting' \in BOOLEAN
    BY <1>1, <2>1 DEF LinkOK
  <2>5. OneConnection'
    <3> SUFFICES ASSUME ~raced' PROVE tickets' <= 1 /\ \A t \in Sockets : sockets'[t] \notin Live
      BY DEF OneConnection
    <3>0. ~raced /\ ~(tickets > 0)
      BY <2>1
    <3>1. ~raced /\ tickets = 0
      BY <1>1, <3>0 DEF LinkOK
    <3>2. tickets' <= 1
      BY <2>1, <3>1
    <3>3. QED
      BY <1>1, <2>2, <3>1, <3>2 DEF OneConnection
  <2>6. QED
    BY <2>1, <2>2, <2>3, <2>4, <2>5
<1>4. QED
  BY <1>2, <1>3

\* A link set up by ConnectRealtime, whatever becomes of the rest.
LEMMA ConnectStep ==
  ASSUME LinkInv, NEW replace \in BOOLEAN, ConnectRealtime(replace),
         connected' \in BOOLEAN, retrying' \in BOOLEAN, reconnectTimer' \in BOOLEAN,
         recovering' \in Nat
  PROVE  LinkInv'
<1>1. /\ sockets' \in [Sockets -> SocketStates] /\ current' \in Sockets \union {NoSocket}
      /\ tickets' \in Nat /\ reconnecting' \in BOOLEAN /\ raced' \in BOOLEAN
      /\ OneConnection'
      /\ Held' # "none" \/ tickets' > 0
  BY ConnectFacts
<1>2. LinkOK'
  BY <1>1 DEF LinkOK
<1>3. NeverStranded'
  BY <1>1 DEF NeverStranded
<1>4. QED
  BY <1>1, <1>2, <1>3 DEF LinkInv

LEMMA ScheduleFacts ==
  ASSUME LinkOK, ScheduleReconnect
  PROVE  /\ reconnecting' \in BOOLEAN /\ retrying' \in BOOLEAN /\ reconnectTimer' \in BOOLEAN
         /\ phase = "ready" => reconnectTimer'
BY DEF LinkOK, ScheduleReconnect

LEMMA TicketGrantedStep ==
  ASSUME LinkInv, TicketGranted
  PROVE  LinkInv'
<1>1. LinkOK /\ OneConnection /\ tickets > 0 /\ tickets' = tickets - 1
      /\ UNCHANGED <<phase, reconnecting, raced, connected, retrying, reconnectTimer, recovering>>
  BY DEF LinkInv, TicketGranted, enter, retry
<1>2. tickets' \in Nat /\ (tickets <= 1 => tickets' = 0)
  BY <1>1 DEF LinkOK
<1>3. CASE phase = "ready"
  <2>1. PICK s \in Sockets : sockets[s] = "none" /\ current' = s
                             /\ sockets' = [sockets EXCEPT ![s] = "connecting"]
    BY <1>3 DEF TicketGranted
  <2>2. /\ sockets' \in [Sockets -> SocketStates] /\ sockets'[s] = "connecting"
        /\ \A t \in Sockets : t # s => sockets'[t] = sockets[t]
    BY <1>1, <2>1 DEF LinkOK, SocketStates
  <2>3. LinkOK'
    BY <1>1, <1>2, <2>1, <2>2 DEF LinkOK
  <2>4. Held' = "connecting"
    BY <2>1, <2>2, ClientAssumption DEF Held
  <2>5. NeverStranded'
    BY <2>4 DEF NeverStranded
  <2>6. OneConnection'
    BY <1>1, <1>2, <2>1, <2>2 DEF OneConnection, LinkOK
  <2>7. QED
    BY <2>3, <2>5, <2>6 DEF LinkInv
<1>4. CASE phase # "ready"
  <2>1. UNCHANGED <<sockets, current>>
    BY <1>4 DEF TicketGranted
  <2>2. LinkOK'
    BY <1>1, <1>2, <2>1 DEF LinkOK
  <2>3. NeverStranded'
    BY <1>1, <1>4 DEF NeverStranded
  <2>4. OneConnection'
    BY <1>1, <1>2, <2>1 DEF OneConnection, LinkOK
  <2>5. QED
    BY <2>2, <2>3, <2>4 DEF LinkInv
<1>5. QED
  BY <1>3, <1>4

LEMMA TicketRefusedStep ==
  ASSUME LinkInv, TicketRefused
  PROVE  LinkInv'
<1>1. LinkOK /\ OneConnection /\ tickets > 0 /\ tickets' = tickets - 1
      /\ UNCHANGED <<phase, sockets, current, raced, connected, recovering>>
  BY DEF LinkInv, TicketRefused, enter
<1>2. tickets' \in Nat /\ tickets' <= tickets /\ tickets \in Nat
  BY <1>1 DEF LinkOK
<1>3. /\ reconnecting' \in BOOLEAN /\ retrying' \in BOOLEAN /\ reconnectTimer' \in BOOLEAN
      /\ phase = "ready" => reconnectTimer'
  BY <1>1, ScheduleFacts DEF TicketRefused
<1>4. LinkOK' /\ NeverStranded'
  BY <1>1, <1>2, <1>3 DEF LinkOK, NeverStranded
<1>5. OneConnection'
  <2> SUFFICES ASSUME ~raced'
               PROVE  /\ tickets' <= 1
                      /\ \A s \in Sockets : sockets'[s] \in Live => s = current' /\ tickets' = 0
    BY DEF OneConnection
  <2>1. /\ tickets <= 1
        /\ \A s \in Sockets : sockets[s] \in Live => s = current /\ tickets = 0
    BY <1>1 DEF OneConnection
  <2>2. QED
    BY <1>1, <1>2, <2>1
<1>6. QED
  BY <1>4, <1>5 DEF LinkInv

LEMMA OpenedStep ==
  ASSUME LinkInv, NEW s \in Sockets, Opened(s)
  PROVE  LinkInv'
<1>1. /\ LinkOK /\ OneConnection /\ NeverStranded
      /\ sockets[s] = "connecting" /\ sockets' = [sockets EXCEPT ![s] = "open"]
      /\ UNCHANGED <<phase, current, tickets, raced, reconnectTimer, recovering>>
      /\ connected' = TRUE /\ reconnecting' = FALSE /\ retrying' = FALSE
  BY DEF LinkInv, Opened, enter
<1>2. /\ sockets' \in [Sockets -> SocketStates] /\ sockets'[s] = "open"
      /\ \A t \in Sockets : t # s => sockets'[t] = sockets[t]
  BY <1>1 DEF LinkOK, SocketStates
<1>3. LinkOK'
  BY <1>1, <1>2 DEF LinkOK
<1>4. Held # "none" => Held' # "none"
  BY <1>1, <1>2 DEF Held, LinkOK
<1>5. NeverStranded'
  BY <1>1, <1>4 DEF NeverStranded
<1>6. OneConnection'
  BY <1>1, <1>2 DEF OneConnection, Live
<1>7. QED
  BY <1>3, <1>5, <1>6 DEF LinkInv

LEMMA SocketEndsStep ==
  ASSUME LinkInv, NEW s \in Sockets, SocketEnds(s)
  PROVE  LinkInv'
<1>1. PICK failed \in BOOLEAN :
        sockets' = [IF failed /\ current # s THEN Closed(sockets, current) ELSE sockets
                     EXCEPT ![s] = "none"]
  BY DEF SocketEnds
<1>2. /\ LinkOK /\ OneConnection
      /\ connected' = FALSE /\ current' = NoSocket
      /\ raced' = (raced \/ current \notin {s, NoSocket})
      /\ UNCHANGED <<phase, tickets, recovering>>
  BY DEF LinkInv, SocketEnds, enter
<1> DEFINE base == IF failed /\ current # s THEN Closed(sockets, current) ELSE sockets
<1>3. /\ base \in [Sockets -> SocketStates]
      /\ \A t \in Sockets : base[t] \in Live => sockets[t] \in Live
  BY <1>2, ClosedFacts DEF LinkOK
<1>4. sockets' = [base EXCEPT ![s] = "none"]
  BY <1>1
<1> HIDE DEF base
<1>5. /\ sockets' \in [Sockets -> SocketStates] /\ sockets'[s] = "none"
      /\ \A t \in Sockets : sockets'[t] \in Live => sockets[t] \in Live /\ t # s
  BY <1>3, <1>4 DEF SocketStates, Live
<1>6. /\ reconnecting' \in BOOLEAN /\ retrying' \in BOOLEAN /\ reconnectTimer' \in BOOLEAN
      /\ phase = "ready" => reconnectTimer'
  BY <1>2, ScheduleFacts DEF SocketEnds
<1>7. raced' \in BOOLEAN
  BY <1>2 DEF LinkOK
<1>8. LinkOK' /\ NeverStranded'
  BY <1>2, <1>5, <1>6, <1>7 DEF LinkOK, NeverStranded
<1>9. OneConnection'
  <2> SUFFICES ASSUME ~raced' PROVE tickets' <= 1 /\ \A t \in Sockets : sockets'[t] \notin Live
    BY DEF OneConnection
  <2>1. ~raced /\ current \in {s, NoSocket} /\ tickets' = tickets
    BY <1>2
  <2>2. QED
    BY <1>2, <1>5, <2>1, ClientAssumption DEF OneConnection
<1>10. QED
  BY <1>8, <1>9 DEF LinkInv

LEMMA ReconnectTimerStep ==
  ASSUME LinkInv, ReconnectTimer
  PROVE  LinkInv'
<1>1. /\ UNCHANGED <<phase, sockets, current, tickets, reconnecting, raced, connected, retrying>>
      /\ reconnectTimer' = FALSE /\ recovering' = recovering + 1
  BY DEF ReconnectTimer, enter, link
<1>2. recovering' \in Nat /\ recovering' > 0
  BY <1>1 DEF LinkInv, LinkOK
<1>3. QED
  BY <1>1, <1>2 DEF LinkInv, LinkOK, NeverStranded, OneConnection

LEMMA SnapshotFetchedStep ==
  ASSUME LinkInv, SnapshotFetched
  PROVE  LinkInv'
<1>1. /\ UNCHANGED <<phase, connected, retrying, reconnectTimer>>
      /\ recovering > 0 /\ recovering' = recovering - 1
  BY DEF SnapshotFetched, enter
<1>2. LinkOK /\ recovering' \in Nat
  BY <1>1 DEF LinkInv, LinkOK
<1>3. CASE phase = "ready"
  <2>1. ConnectRealtime(FALSE)
    BY <1>3 DEF SnapshotFetched
  <2>2. connected' \in BOOLEAN /\ retrying' \in BOOLEAN /\ reconnectTimer' \in BOOLEAN
    BY <1>1, <1>2 DEF LinkOK
  <2>3. QED
    BY <1>2, <2>1, <2>2, ConnectStep
<1>4. CASE phase # "ready"
  <2>1. UNCHANGED link
    BY <1>4 DEF SnapshotFetched
  <2>2. QED
    BY <1>1, <1>2, <1>4, <2>1 DEF LinkInv, LinkOK, NeverStranded, OneConnection, link
<1>5. QED
  BY <1>3, <1>4

LEMMA LinkSteps ==
  ASSUME IInv, \/ TicketGranted \/ TicketRefused \/ ReconnectTimer \/ SnapshotFetched
               \/ HandleVisibility \/ \E s \in Sockets : Opened(s) \/ SocketEnds(s)
  PROVE  IInv'
<1>1. UNCHANGED <<enter, outside, renewal>>
  BY DEF TicketGranted, TicketRefused, ReconnectTimer, SnapshotFetched, HandleVisibility,
         Opened, SocketEnds
<1>2. EnterInv /\ LinkInv /\ OutsideInv
  BY Parts
<1>3. EnterInv' /\ OutsideInv'
  BY <1>1, <1>2, EnterKept, OutsideKept DEF enter
<1>4. CASE HandleVisibility
  <2>1. ConnectRealtime(FALSE) /\ UNCHANGED retry
    BY <1>4 DEF HandleVisibility
  <2>2. /\ connected' \in BOOLEAN /\ retrying' \in BOOLEAN /\ reconnectTimer' \in BOOLEAN
        /\ recovering' \in Nat
    BY <1>2, <2>1 DEF LinkInv, LinkOK, retry
  <2>3. LinkInv'
    BY <1>2, <2>1, <2>2, ConnectStep
  <2>4. QED
    BY <1>3, <2>3, Parts, PTL
<1>5. CASE ~HandleVisibility
  <2>1. LinkInv'
    BY <1>2, <1>5, TicketGrantedStep, TicketRefusedStep, ReconnectTimerStep,
       SnapshotFetchedStep, OpenedStep, SocketEndsStep
  <2>2. QED
    BY <1>3, <2>1, Parts, PTL
<1>6. QED
  BY <1>4, <1>5

-----------------------------------------------------------------------------
(* The session *)

LEMMA SessionSteps ==
  ASSUME IInv, SessionTimer \/ SessionRefreshed \/ RefreshFails \/ Expire
  PROVE  IInv'
<1>1. EnterInv /\ LinkInv /\ OutsideInv
  BY Parts
<1>2. UNCHANGED <<outside, step, proof, invited, hash>> /\ phase' \in {phase, "error"}
  BY DEF SessionTimer, SessionRefreshed, RefreshFails, Expire, enter
<1>3. OutsideInv'
  BY <1>1, <1>2, OutsideKept
<1>4. EnterInv'
  <2>1. CASE SessionTimer
    <3>1. refreshing' \in BOOLEAN /\ missed' \in BOOLEAN
      BY <1>1, <2>1 DEF SessionTimer, EnterInv, Entering
    <3>2. sessionTimer' = FALSE /\ session' = session /\ phase' = phase
          /\ (refreshing' \/ missed') /\ (refreshing' => phase = "ready")
      BY <2>1 DEF SessionTimer, enter
    <3>3. QED
      BY <1>1, <1>2, <3>1, <3>2 DEF EnterInv, Entering, RenewalAhead, EnteringInv
  <2>2. CASE SessionRefreshed
    BY <1>1, <1>2, <2>2 DEF SessionRefreshed, enter, EnterInv, Entering, RenewalAhead, EnteringInv
  <2>3. CASE RefreshFails
    BY <1>1, <1>2, <2>3 DEF RefreshFails, EnterInv, Entering, RenewalAhead, EnteringInv
  <2>4. CASE Expire
    BY <1>1, <1>2, <2>4 DEF Expire, enter, EnterInv, Entering, RenewalAhead, EnteringInv
  <2>5. QED
    BY <2>1, <2>2, <2>3, <2>4
<1>5. LinkInv'
  <2>1. CASE SessionRefreshed /\ phase = "ready"
    <3>1. ConnectRealtime(TRUE) /\ UNCHANGED retry
      BY <2>1 DEF SessionRefreshed
    <3>2. /\ connected' \in BOOLEAN /\ retrying' \in BOOLEAN /\ reconnectTimer' \in BOOLEAN
          /\ recovering' \in Nat
      BY <1>1, <3>1 DEF LinkInv, LinkOK, retry
    <3>3. QED
      BY <1>1, <3>1, <3>2, ConnectStep
  <2>2. CASE ~(SessionRefreshed /\ phase = "ready")
    <3>1. UNCHANGED <<link, retry>>
      BY <2>2 DEF SessionTimer, SessionRefreshed, RefreshFails, Expire
    <3>2. QED
      BY <1>1, <1>2, <3>1, LinkKept
  <2>3. QED
    BY <2>1, <2>2
<1>6. QED
  BY <1>3, <1>4, <1>5, Parts, PTL

-----------------------------------------------------------------------------
(* Entering and leaving *)

LEMMA EnteringSteps ==
  ASSUME IInv, Start \/ Submit \/ LoggedIn \/ Exchanged \/ Joined \/ Redeemed
  PROVE  IInv'
<1>1. EnterInv /\ LinkInv /\ OutsideInv
  BY Parts
<1>2. UNCHANGED <<link, retry>> /\ phase' \in {phase, "login", "joining", "error"}
  BY DEF Start, Submit, LoggedIn, Exchanged, Joined, Redeemed, GiveUp
<1>3. LinkInv'
  BY <1>1, <1>2, LinkKept
<1>4. EnterInv'
  <2>1. CASE Start
    BY <1>1, <2>1 DEF Start, GiveUp, WaitFor, renewal, EnterInv, Entering, RenewalAhead,
                      EnteringInv, Answers
  <2>2. CASE Submit
    BY <1>1, <2>2 DEF Submit, GiveUp, WaitFor, renewal, EnterInv, Entering, RenewalAhead,
                      EnteringInv, Answers
  <2>3. CASE LoggedIn
    BY <1>1, <2>3 DEF LoggedIn, GiveUp, WaitFor, StoreProof, renewal, EnterInv, Entering,
                      RenewalAhead, EnteringInv, Answers
  <2>4. CASE Exchanged
    BY <1>1, <2>4 DEF Exchanged, GiveUp, WaitFor, EnterInv, Entering, RenewalAhead,
                      EnteringInv, Answers
  <2>5. CASE Joined
    BY <1>1, <2>5 DEF Joined, GiveUp, WaitFor, ClearInvitation, renewal, EnterInv, Entering,
                      RenewalAhead, EnteringInv, Answers
  <2>6. CASE Redeemed
    BY <1>1, <2>6 DEF Redeemed, GiveUp, WaitFor, renewal, EnterInv, Entering, RenewalAhead,
                      EnteringInv, Answers
  <2>7. QED
    BY <2>1, <2>2, <2>3, <2>4, <2>5, <2>6
<1>5. OutsideInv'
  <2>1. OutsideOK /\ (settled => member)
    BY <1>1 DEF OutsideInv, MembershipInv
  <2>2. CASE Joined
    <3>1. UNCHANGED outside /\ (step' = "redeem" => ~member)
      BY <2>2 DEF Joined, GiveUp, WaitFor
    <3>2. QED
      BY <2>1, <3>1 DEF outside, world, OutsideInv, OutsideOK, MembershipInv, MemberNeedsNoInvitation
  <2>3. CASE Redeemed
    <3>1. step' # "redeem" /\ UNCHANGED <<reachable, leased, settled>>
      BY <2>3 DEF Redeemed, GiveUp, WaitFor
    <3>2. \/ member' = TRUE /\ (usable' = usable \/ usable' \in BOOLEAN)
          \/ UNCHANGED <<member, usable>>
      BY <2>3 DEF Redeemed, RedeemInvite
    <3>3. member' \in BOOLEAN /\ usable' \in BOOLEAN /\ (member => member')
      BY <2>1, <3>2 DEF OutsideOK
    <3>4. QED
      BY <2>1, <3>1, <3>3 DEF OutsideInv, OutsideOK, MembershipInv, MemberNeedsNoInvitation
  <2>4. CASE Start \/ LoggedIn
    <3>1. UNCHANGED world /\ settled' = member /\ step' # "redeem"
      BY <2>4, <1>1 DEF Start, LoggedIn, GiveUp, WaitFor, EnterInv, EnteringInv
    <3>2. QED
      BY <2>1, <3>1 DEF world, OutsideInv, OutsideOK, MembershipInv, MemberNeedsNoInvitation
  <2>5. CASE Submit \/ Exchanged
    <3>1. UNCHANGED outside /\ step' # "redeem"
      BY <2>5 DEF Submit, Exchanged, GiveUp, WaitFor
    <3>2. QED
      BY <1>1, <3>1, OutsideKept
  <2>6. QED
    BY <2>2, <2>3, <2>4, <2>5
<1>6. QED
  BY <1>3, <1>4, <1>5, Parts, PTL

LEMMA LoadedStep ==
  ASSUME IInv, Loaded
  PROVE  IInv'
<1>1. EnterInv /\ LinkInv /\ OutsideInv
  BY Parts
<1>2. UNCHANGED <<outside, retry>> /\ step' # "redeem"
  BY DEF Loaded, WaitFor, GiveUp
<1>3. OutsideInv'
  BY <1>1, <1>2, OutsideKept
<1>4. EnterInv'
  BY <1>1 DEF Loaded, GiveUp, WaitFor, renewal, EnterInv, Entering, RenewalAhead,
              EnteringInv, Answers
<1>5. LinkInv'
  <2>1. CASE ConnectRealtime(FALSE)
    <3>1. /\ connected' \in BOOLEAN /\ retrying' \in BOOLEAN /\ reconnectTimer' \in BOOLEAN
          /\ recovering' \in Nat
      BY <1>1, <1>2 DEF LinkInv, LinkOK, retry
    <3>2. QED
      BY <1>1, <2>1, <3>1, ConnectStep
  <2>2. CASE ~ConnectRealtime(FALSE)
    <3>1. UNCHANGED link /\ (phase' = "ready" => phase = "ready")
      BY <2>2 DEF Loaded, GiveUp
    <3>2. QED
      BY <1>1, <1>2, <3>1, LinkKept
  <2>3. QED
    BY <2>1, <2>2
<1>6. QED
  BY <1>3, <1>4, <1>5, Parts, PTL

LEMMA ReloadStep ==
  ASSUME IInv, Reload
  PROVE  IInv'
<1>1. EnterInv /\ LinkInv /\ OutsideInv
  BY Parts
<1>2. EnterInv'
  BY <1>1 DEF Reload, RouteContext, EnterInv, Entering, RenewalAhead, EnteringInv
<1>3. OutsideInv'
  <2>1. step' = "none" /\ settled' = FALSE /\ UNCHANGED world
    BY DEF Reload
  <2>2. QED
    BY <1>1, <2>1 DEF world, OutsideInv, OutsideOK, MembershipInv, MemberNeedsNoInvitation
<1>4. LinkOK'
  BY DEF Reload, LinkOK, SocketStates
<1>5. NeverStranded'
  BY DEF Reload, NeverStranded
<1>6. OneConnection'
  BY DEF Reload, OneConnection, Live
<1>7. QED
  BY <1>2, <1>3, <1>4, <1>5, <1>6, Parts, PTL DEF LinkInv

LEMMA OutsideSteps ==
  ASSUME IInv, World
  PROVE  IInv'
<1>1. EnterInv /\ LinkInv /\ OutsideInv
  BY Parts
<1>2. UNCHANGED <<enter, renewal, link, retry>>
  BY DEF World, MembershipChanges, InvitationEnds, NetworkChanges, LeaseChanges
<1>3. EnterInv'
  BY <1>1, <1>2, EnterKept
<1>4. LinkInv'
  BY <1>1, <1>2, LinkKept DEF enter
<1>5. OutsideInv'
  <2>1. step' = step
    BY <1>2 DEF enter
  <2>2. CASE MembershipChanges
    <3>1. /\ member' = ~member /\ settled' = FALSE /\ UNCHANGED <<reachable, leased>>
          /\ usable' \in {usable, FALSE}
      BY <2>2 DEF MembershipChanges
    <3>2. member' \in BOOLEAN /\ usable' \in BOOLEAN /\ settled' \in BOOLEAN /\ ~settled'
      BY <1>1, <3>1 DEF OutsideInv, OutsideOK
    <3>3. QED
      BY <1>1, <3>1, <3>2 DEF OutsideInv, OutsideOK, MembershipInv, MemberNeedsNoInvitation
  <2>3. CASE InvitationEnds \/ NetworkChanges \/ LeaseChanges
    <3>1. reachable' \in BOOLEAN /\ leased' \in BOOLEAN /\ usable' \in BOOLEAN
          /\ UNCHANGED <<member, settled>>
      BY <1>1, <2>3 DEF InvitationEnds, NetworkChanges, LeaseChanges, OutsideInv, OutsideOK
    <3>2. QED
      BY <1>1, <2>1, <3>1 DEF OutsideInv, OutsideOK, MembershipInv, MemberNeedsNoInvitation
  <2>4. QED
    BY <2>2, <2>3 DEF World
<1>6. QED
  BY <1>3, <1>4, <1>5, Parts, PTL

LEMMA StepClient == IInv /\ [Next]_vars => IInv'
<1> SUFFICES ASSUME IInv, [Next]_vars PROVE IInv'
  OBVIOUS
<1>1. CASE UNCHANGED vars
  <2>1. EnterInv /\ LinkInv /\ OutsideInv
    BY Parts
  <2>2. EnterInv' /\ LinkInv' /\ OutsideInv'
    BY <1>1, <2>1, EnterKept, LinkKept, OutsideKept DEF vars, enter
  <2>3. QED
    BY <2>2, Parts, PTL
<1>2. CASE Page
  BY <1>2, LinkSteps, SessionSteps, EnteringSteps, LoadedStep DEF Page
<1>3. CASE Expire
  BY <1>3, SessionSteps
<1>4. CASE Reload
  BY <1>4, ReloadStep
<1>5. CASE World
  BY <1>5, OutsideSteps
<1>6. QED
  BY <1>1, <1>2, <1>3, <1>4, <1>5 DEF Next

LEMMA InvariantClient == Spec => []IInv
BY InitClient, StepClient, PTL DEF Spec

\* For any sockets, the session of a page in its room has its renewal ahead of it
\* unless its timer ran out before (room.ts, scheduleSessionRefresh).
THEOREM SessionIsRenewed == Spec => []SessionInv
<1>1. IInv => SessionInv
  BY DEF IInv
<1>2. QED
  BY <1>1, InvariantClient, PTL

\* A page in its room has a socket or something under way that makes one, in
\* whatever order its sockets report (room.ts, connectRealtime, scheduleReconnect).
THEOREM NobodyIsStranded == Spec => []NeverStranded
<1>1. IInv => NeverStranded
  BY DEF IInv
<1>2. QED
  BY <1>1, InvariantClient, PTL

\* There is one live socket, the current one, unless two connections were set up
\* at once or a replaced one reported late (room.ts, connectRealtime).
THEOREM ConnectsOnce == Spec => []OneConnection
<1>1. IInv => OneConnection
  BY DEF IInv
<1>2. QED
  BY <1>1, InvariantClient, PTL

\* However often the page is loaded again and whichever answers are lost, who has
\* been a member since the page began to enter is not made to redeem an invitation
\* that may be used up (room.ts, enterWithProof).
THEOREM MembersNeedNoInvitation == Spec => []MemberNeedsNoInvitation
<1>1. IInv => MemberNeedsNoInvitation
  BY DEF IInv, MembershipInv
<1>2. QED
  BY <1>1, InvariantClient, PTL

=============================================================================
