----------------------------- MODULE RoomClient -----------------------------
(***************************************************************************)
(* How a room page gets into its room and stays connected to it            *)
(* (room-ui/src/stores/room.ts): entering with a proof and an invitation,  *)
(* the renewal of the session, WebSocket tickets, sockets whose events     *)
(* come late, the reconnect timer, and the reload of the page.             *)
(*                                                                         *)
(* Every await is a step of its own; what an answer may be is chosen when  *)
(* it comes.  What the sockets carry is RoomSync's subject, the catalog    *)
(* RoomCatalog's.  disconnect() and its flag are left out: only disposing  *)
(* the store calls it, which the application never does.                   *)
(***************************************************************************)
EXTENDS FiniteSets, Naturals

CONSTANTS
  Sockets,         \* names for WebSocket objects, used again once closed
  NoSocket,
  MaxConnections   \* bound on what renewals and glances may add, see Pending

ASSUME ClientAssumption == NoSocket \notin Sockets /\ MaxConnections \in Nat

VARIABLES
  phase,          \* what the page shows
  step,           \* the answer the entering page waits for
  proof,          \* credentials are in the browser's storage
  invited,        \* invitation
  hash,           \* the invitation is still in the address bar
  member,         \* external: the gateway has the user among the room's members
  reachable,      \* external: the network and the gateway
  leased,         \* external: the plugin's heartbeat is fresh and its allowlist has the user
  usable,         \* external: the invitation is neither used up nor revoked nor expired
  session,        \* the gateway's session
  sessionTimer,   \* armed by scheduleSessionRefresh
  refreshing,     \* refreshSession waits for its exchange
  sockets,        \* state of every WebSocket
  current,        \* socket
  tickets,        \* tickets that have been asked for
  connected,
  reconnecting,   \* the banner
  retrying,       \* reconnectAttempt > 0
  reconnectTimer, \* armed by scheduleReconnect
  recovering,     \* snapshots its callback waits for
  settled,        \* history: a member ever since the page began to enter
  raced,          \* history: two connections were set up at once
  missed          \* history: the session's timer ran out before the page was ready

enter == <<phase, step, proof, invited, hash>>
world == <<member, reachable, leased, usable>>
outside == <<world, settled>>
renewal == <<session, sessionTimer, refreshing, missed>>
link == <<sockets, current, tickets, reconnecting, raced>>
retry == <<connected, retrying, reconnectTimer, recovering>>
vars == <<enter, outside, renewal, link, retry>>

Answers == {"password", "exchange", "join", "redeem", "rejoin", "snapshot", "catalog"}
SocketStates == {"none", "connecting", "open", "closing", "failing"}
Live == {"connecting", "open"}

Init ==
  /\ phase = "booting" /\ step = "none"
  /\ proof \in BOOLEAN /\ hash \in BOOLEAN /\ invited = hash
  /\ member \in BOOLEAN /\ reachable \in BOOLEAN
  /\ leased \in BOOLEAN /\ usable \in BOOLEAN
  /\ session = "none" /\ sessionTimer = FALSE /\ refreshing = FALSE
  /\ sockets = [s \in Sockets |-> "none"] /\ current = NoSocket /\ tickets = 0
  /\ connected = FALSE /\ reconnecting = FALSE /\ retrying = FALSE
  /\ reconnectTimer = FALSE /\ recovering = 0
  /\ settled = FALSE /\ raced = FALSE /\ missed = FALSE

\* What may still become a connection.  Only a glance and a renewal add to it;
\* a renewal of a session that has ended is not held back by the bound.
Pending ==
  Cardinality({s \in Sockets : sockets[s] # "none"}) + tickets + recovering
    + (IF reconnectTimer THEN 1 ELSE 0) + (IF refreshing THEN 1 ELSE 0)

-----------------------------------------------------------------------------
(* The connection *)

\* close(): an open socket waits for its peer, one that connects fails at once.
Closed(states, s) ==
  IF s = NoSocket THEN states
  ELSE [states EXCEPT ![s] = CASE @ = "open" -> "closing"
                               [] @ = "connecting" -> "failing"
                               [] OTHER -> @]

Held == IF current = NoSocket THEN "none" ELSE sockets[current]

\* Fault: the socket that is replaced is not closed.
ConnectRealtimeBeside(replace) ==
  IF ~replace /\ Held \in Live
    THEN UNCHANGED link
    ELSE /\ current' = NoSocket
         /\ tickets' = tickets + 1
         /\ reconnecting' = retrying
         /\ raced' = (raced \/ tickets > 0)
         /\ UNCHANGED sockets

ConnectRealtime(replace) ==
  IF ~replace /\ Held \in Live
    THEN UNCHANGED link
    ELSE /\ sockets' = Closed(sockets, current)
         /\ current' = NoSocket
         /\ tickets' = tickets + 1
         /\ reconnecting' = retrying
         /\ raced' = (raced \/ tickets > 0)

ScheduleReconnect ==
  IF phase # "ready" \/ reconnectTimer
    THEN UNCHANGED <<reconnecting, retrying, reconnectTimer>>
    ELSE reconnecting' = TRUE /\ retrying' = TRUE /\ reconnectTimer' = TRUE

\* Authenticate: the session, the plugin's lease and its allowlist.
Served == reachable /\ leased /\ session = "live"

\* Tickets and the handshake ask for the membership as well.
Admitted == Served /\ member

\* The ticket comes, and a socket with it.  A socket that was closed while it
\* connected has reported that before: it needs no answer from anybody.
TicketGranted ==
  /\ tickets > 0 /\ Admitted
  /\ \A s \in Sockets : sockets[s] # "failing"
  /\ tickets' = tickets - 1
  /\ IF phase = "ready"
       THEN \E s \in Sockets :
              /\ sockets[s] = "none"
              /\ sockets' = [sockets EXCEPT ![s] = "connecting"]
              /\ current' = s
       ELSE UNCHANGED <<sockets, current>>
  /\ UNCHANGED <<enter, outside, renewal, reconnecting, raced, retry>>

\* Fault: a refused ticket is only reported.
TicketRefusedOnly ==
  /\ tickets > 0 /\ ~Admitted
  /\ tickets' = tickets - 1
  /\ UNCHANGED <<enter, outside, renewal, sockets, current, raced, reconnecting, retry>>

TicketRefused ==
  /\ tickets > 0 /\ ~Admitted
  /\ tickets' = tickets - 1
  /\ ScheduleReconnect
  /\ UNCHANGED <<enter, outside, renewal, sockets, current, raced, connected, recovering>>

\* The handlers of a socket do not ask whether it is still the current one.
Opened(s) ==
  /\ sockets[s] = "connecting" /\ Admitted
  /\ sockets' = [sockets EXCEPT ![s] = "open"]
  /\ connected' = TRUE /\ reconnecting' = FALSE /\ retrying' = FALSE
  /\ UNCHANGED <<enter, outside, renewal, current, tickets, raced, reconnectTimer, recovering>>

\* A socket ends: asked to, by the gateway, or with an error when the network
\* breaks or the gateway refuses the handshake.  The error's handler closes the
\* current socket, whichever it is.
SocketEnds(s) ==
  /\ \E failed \in BOOLEAN :
       /\ sockets[s] \in IF failed THEN {"connecting", "open", "failing"} ELSE {"open", "closing"}
       /\ failed => \/ ~reachable
                     \/ sockets[s] = "failing"
                     \/ (sockets[s] = "connecting" /\ ~Admitted)
       /\ sockets' = [IF failed /\ current # s THEN Closed(sockets, current) ELSE sockets
                       EXCEPT ![s] = "none"]
  /\ connected' = FALSE
  /\ current' = NoSocket
  /\ raced' = (raced \/ current \notin {s, NoSocket})
  /\ ScheduleReconnect
  /\ UNCHANGED <<enter, outside, renewal, tickets, recovering>>

\* The reconnect timer fetches a snapshot first, and connects whether it came.
ReconnectTimer ==
  /\ reconnectTimer
  /\ reconnectTimer' = FALSE
  /\ recovering' = recovering + 1
  /\ UNCHANGED <<enter, outside, renewal, link, connected, retrying>>

\* Fault: "then" for "finally".
SnapshotThenConnect ==
  /\ recovering > 0
  /\ recovering' = recovering - 1
  /\ IF phase = "ready" /\ Served THEN ConnectRealtime(FALSE) ELSE UNCHANGED link
  /\ UNCHANGED <<enter, outside, renewal, connected, retrying, reconnectTimer>>

SnapshotFetched ==
  /\ recovering > 0
  /\ recovering' = recovering - 1
  /\ IF phase = "ready" THEN ConnectRealtime(FALSE) ELSE UNCHANGED link
  /\ UNCHANGED <<enter, outside, renewal, connected, retrying, reconnectTimer>>

\* The page comes to the foreground again.
HandleVisibility ==
  /\ phase = "ready" /\ Pending < MaxConnections
  /\ Held \notin Live
  /\ ConnectRealtime(FALSE)
  /\ UNCHANGED <<enter, outside, renewal, retry>>

-----------------------------------------------------------------------------
(* The session *)

SessionTimer ==
  /\ sessionTimer
  /\ session = "expired" \/ Pending < MaxConnections
  /\ sessionTimer' = FALSE
  /\ refreshing' = (phase = "ready")
  /\ missed' = (missed \/ phase # "ready")
  /\ UNCHANGED <<enter, outside, session, link, retry>>

\* Fault: the renewed session gets no timer of its own.
SessionRefreshedOnce ==
  /\ refreshing /\ reachable /\ leased
  /\ refreshing' = FALSE
  /\ session' = "live"
  /\ IF phase = "ready" THEN ConnectRealtime(TRUE) ELSE UNCHANGED link
  /\ UNCHANGED <<enter, outside, sessionTimer, missed, retry>>

SessionRefreshed ==
  /\ refreshing /\ reachable /\ leased
  /\ refreshing' = FALSE
  /\ session' = "live" /\ sessionTimer' = TRUE
  /\ IF phase = "ready" THEN ConnectRealtime(TRUE) ELSE UNCHANGED link
  /\ UNCHANGED <<enter, outside, missed, retry>>

\* fail(): the error page, for good; the connection and its timers stay.
RefreshFails ==
  /\ refreshing
  /\ refreshing' = FALSE
  /\ phase' = "error"
  /\ UNCHANGED <<step, proof, invited, hash, outside, session, sessionTimer, missed, link, retry>>

\* The gateway no longer knows the session: it has run out, was in the memory of
\* a gateway that was restarted, was revoked with its user, or is deleted for a
\* user the allowlist has dropped.  The page's timer may be far from running out.
Expire ==
  /\ session = "live" /\ Pending < MaxConnections
  /\ session' = "expired"
  /\ UNCHANGED <<enter, outside, sessionTimer, refreshing, missed, link, retry>>

-----------------------------------------------------------------------------
(* Entering *)

WaitFor(answer) == step' = answer
GiveUp(next) == step' = "none" /\ phase' = next
StoreProof == proof' = TRUE
ClearInvitation == hash' = FALSE
RouteContext == invited' = hash

\* The link may have no valid room, the storage no proof.
Start ==
  /\ phase = "booting"
  /\ \/ GiveUp("error")
     \/ ~proof /\ GiveUp("login")
     \/ proof /\ phase' = "joining" /\ WaitFor("exchange")
  /\ settled' = member
  /\ UNCHANGED <<proof, invited, hash, world, renewal, link, retry>>

Submit ==
  /\ phase = "login" /\ step = "none"
  /\ WaitFor("password")
  /\ UNCHANGED <<phase, proof, invited, hash, outside, renewal, link, retry>>

LoggedIn ==
  /\ step = "password"
  /\ \/ reachable /\ StoreProof /\ phase' = "joining" /\ WaitFor("exchange")
     \/ GiveUp("login") /\ UNCHANGED proof
  /\ settled' = member
  /\ UNCHANGED <<invited, hash, world, renewal, link, retry>>

\* The exchange, then assertSameOrigin, which may throw.
Exchanged ==
  /\ step = "exchange"
  /\ \/ /\ reachable /\ leased
        /\ session' = "live" /\ sessionTimer' = TRUE
        /\ WaitFor("join") /\ UNCHANGED phase
     \/ GiveUp("error") /\ session' \in {"live", session} /\ UNCHANGED sessionTimer
  /\ UNCHANGED <<proof, invited, hash, outside, refreshing, missed, link, retry>>

\* Fault: any failure to join is met with the invitation.
JoinedWithInvitation ==
  /\ step \in {"join", "rejoin"}
  /\ \/ Admitted /\ WaitFor("snapshot") /\ ClearInvitation /\ UNCHANGED phase
     \/ invited /\ step = "join" /\ WaitFor("redeem") /\ UNCHANGED <<phase, hash>>
     \/ GiveUp("error") /\ UNCHANGED hash
  /\ UNCHANGED <<proof, invited, outside, renewal, link, retry>>

\* membership_required is the one refusal an invitation helps against.  (The user
\* is no administrator of Navidrome: those become members by joining.)
Joined ==
  /\ step \in {"join", "rejoin"}
  /\ \/ Admitted /\ WaitFor("snapshot") /\ ClearInvitation /\ UNCHANGED phase
     \/ /\ Served /\ ~member /\ invited /\ step = "join"
        /\ WaitFor("redeem") /\ UNCHANGED <<phase, hash>>
     \/ GiveUp("error") /\ UNCHANGED hash
  /\ UNCHANGED <<proof, invited, outside, renewal, link, retry>>

\* RedeemInvite: one that cannot be used any more is refused to members too;
\* to a member it costs no use, for anybody else it may be the last.
RedeemInvite ==
  /\ Served /\ usable
  /\ member' = TRUE
  /\ IF member THEN UNCHANGED usable ELSE usable' \in BOOLEAN

\* The gateway may carry it out and its answer be lost.
Redeemed ==
  /\ step = "redeem"
  /\ \/ RedeemInvite /\ WaitFor("rejoin") /\ UNCHANGED phase
     \/ (RedeemInvite \/ UNCHANGED <<member, usable>>) /\ GiveUp("error")
  /\ UNCHANGED <<proof, invited, hash, reachable, leased, settled, renewal, link, retry>>

Loaded ==
  /\ \/ /\ step = "snapshot" /\ Admitted
        /\ WaitFor("catalog") /\ UNCHANGED <<phase, link>>
     \/ /\ step = "catalog" /\ reachable
        /\ step' = "none" /\ phase' = "ready"
        /\ ConnectRealtime(FALSE)
     \/ /\ step \in {"snapshot", "catalog"}
        /\ GiveUp("error") /\ UNCHANGED link
  /\ UNCHANGED <<proof, invited, hash, outside, renewal, retry>>

\* The page is loaded again: the address and the storage are all it keeps.
Reload ==
  /\ phase # "booting"
  /\ phase' = "booting" /\ step' = "none" /\ RouteContext
  /\ session' = "none" /\ sessionTimer' = FALSE /\ refreshing' = FALSE
  /\ sockets' = [s \in Sockets |-> "none"] /\ current' = NoSocket /\ tickets' = 0
  /\ connected' = FALSE /\ reconnecting' = FALSE /\ retrying' = FALSE
  /\ reconnectTimer' = FALSE /\ recovering' = 0
  /\ settled' = FALSE /\ raced' = FALSE /\ missed' = FALSE
  /\ UNCHANGED <<proof, hash, world>>

-----------------------------------------------------------------------------
(* Outside the page *)

\* The user leaves or is removed, or becomes a member through another page.
MembershipChanges ==
  /\ member' = ~member
  /\ settled' = FALSE
  /\ IF member THEN UNCHANGED usable ELSE usable' \in {usable, FALSE}
  /\ UNCHANGED <<enter, reachable, leased, renewal, link, retry>>

\* Others use the invitation up, it is revoked, or its time is over.
InvitationEnds ==
  /\ usable' = FALSE
  /\ UNCHANGED <<enter, member, reachable, leased, settled, renewal, link, retry>>

NetworkChanges ==
  /\ reachable' = ~reachable
  /\ UNCHANGED <<enter, member, leased, usable, settled, renewal, link, retry>>

\* The plugin falls silent or is heard of again; the allowlist changes.
LeaseChanges ==
  /\ leased' = ~leased
  /\ UNCHANGED <<enter, member, reachable, usable, settled, renewal, link, retry>>

World == MembershipChanges \/ InvitationEnds \/ NetworkChanges \/ LeaseChanges

Page ==
  \/ Start \/ Submit \/ LoggedIn \/ Exchanged \/ Joined \/ Redeemed \/ Loaded
  \/ SessionTimer \/ SessionRefreshed \/ RefreshFails
  \/ TicketGranted \/ TicketRefused \/ ReconnectTimer \/ SnapshotFetched \/ HandleVisibility
  \/ \E s \in Sockets : Opened(s) \/ SocketEnds(s)

Next == Page \/ Expire \/ Reload \/ World

Spec == Init /\ [][Next]_vars

\* Reconnect timers run out, requests are answered one way or the other, sockets
\* report their end.  Renewals are half a minute apart at least, so that sockets are
\* not for ever replaced before they open: hence the strong fairness of opening.
FairSpec ==
  /\ Spec
  /\ WF_vars(ReconnectTimer) /\ WF_vars(SnapshotFetched)
  /\ WF_vars(TicketGranted \/ TicketRefused) /\ WF_vars(SessionRefreshed)
  /\ SF_vars(\E s \in Sockets : Opened(s))
  /\ WF_vars(\E s \in Sockets : sockets[s] \in {"closing", "failing"} /\ SocketEnds(s))

-----------------------------------------------------------------------------
(* Properties *)

TypeOK ==
  /\ phase \in {"booting", "login", "joining", "ready", "error"}
  /\ step \in Answers \union {"none"}
  /\ proof \in BOOLEAN /\ invited \in BOOLEAN /\ hash \in BOOLEAN
  /\ member \in BOOLEAN /\ reachable \in BOOLEAN
  /\ session \in {"none", "live", "expired"}
  /\ sessionTimer \in BOOLEAN /\ refreshing \in BOOLEAN
  /\ sockets \in [Sockets -> SocketStates] /\ current \in Sockets \union {NoSocket}
  /\ tickets \in Nat /\ recovering \in Nat
  /\ connected \in BOOLEAN /\ reconnecting \in BOOLEAN /\ retrying \in BOOLEAN
  /\ reconnectTimer \in BOOLEAN
  /\ leased \in BOOLEAN /\ usable \in BOOLEAN /\ settled \in BOOLEAN
  /\ raced \in BOOLEAN /\ missed \in BOOLEAN

\* A page in its room is never left without a connection and without anything
\* under way that sets one up, whichever handler of whichever socket ran last.
NeverStranded ==
  phase = "ready" =>
    \/ Held # "none"
    \/ tickets > 0 \/ reconnectTimer \/ recovering > 0

\* There is one connection, the one the page knows, unless two were set up at
\* once or a replaced socket reported its end when there was a new one.
OneConnection ==
  ~raced =>
    /\ tickets <= 1
    /\ \A s \in Sockets : sockets[s] \in Live => s = current /\ tickets = 0

\* The session of a page in its room has its renewal ahead of it, unless its
\* timer ran out while the page was still entering.
RenewalAhead == phase = "ready" => sessionTimer \/ refreshing \/ missed

\* Type correctness, and a session that gets renewed.
SessionInv == TypeOK /\ RenewalAhead

\* Who has been a member all the time the page has been entering is never made
\* to redeem the invitation, which may be used up by then: reloads and lost
\* answers lock no member out.  (room.ts, enterWithProof joins first.)
MemberNeedsNoInvitation == step = "redeem" => ~settled

\* A page in its room is connected again, whatever sockets, tickets, handshakes and
\* sessions it has lost before, or is left.  When the gateway serves it, by its own
\* attempts and without a renewal of the session; when the gateway has dropped its
\* session and no other is lost, by the renewal as well, unless its timer was missed.
\* (room.ts: scheduleReconnect and refreshSession.)
Recovers ==
  /\ <>[]Admitted /\ <>[][~SessionTimer]_vars =>
       [](phase = "ready" => <>(connected \/ phase # "ready"))
  /\ <>[](reachable /\ leased /\ member) /\ <>[][~Expire]_vars /\ WF_vars(SessionTimer) =>
       []((phase = "ready" /\ ~missed) => <>(connected \/ phase # "ready"))

=============================================================================
