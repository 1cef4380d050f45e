------------------------- MODULE AdminConsole_proofs -------------------------
(***************************************************************************)
(* The administrator's page for any rooms: selection, form, details and    *)
(* invitation belong to one room, whatever order answers come in.          *)
(***************************************************************************)
EXTENDS AdminConsole, TLAPS

\* What is awaited for a change belongs to the change under way.
TaskInv ==
  /\ "change" \in lists => task \in Tasks /\ task.step = "reload" /\ task.kind \in ListTasks
  /\ \A load \in loads : load.own =>
       task \in Tasks /\ task.step = "reload" /\ task.kind \in DetailTasks /\ task.room = load.room

\* The details shown are the selected room's, or on their way, or known to be wrong.
DetailsInv == misled \/ shown = selected \/ \E load \in loads : load.room = selected

\* An invitation is made for the selected room in its dialog, until one is left.
InvitationInv ==
  /\ InvitationIsOfTheRoom
  /\ Inviting /\ ~crossed => dialog = "share" /\ task.room = selected

IInv == ConsoleInv /\ TaskInv /\ DetailsInv /\ InvitationInv

Loads == [room : Rooms, own : BOOLEAN]

LEMMA TaskFields ==
  ASSUME NEW t \in Tasks
  PROVE  /\ t # NoTask /\ t.room \in Selections
         /\ t.kind \in ListTasks \union DetailTasks /\ t.step \in {"asked", "reload"}
BY TaskAssumption DEF Tasks

LEMMA InitConsole == Init => IInv
<1> SUFFICES ASSUME Init PROVE IInv
  OBVIOUS
<1>1. ConsoleInv
  BY DEF Init, ConsoleInv, TypeOK, SelectionIsCoherent, Selections
<1>2. TaskInv /\ DetailsInv
  BY DEF Init, TaskInv, DetailsInv
<1>3. InvitationInv
  BY TaskAssumption DEF Init, InvitationInv, InvitationIsOfTheRoom, Inviting
<1>4. QED
  BY <1>1, <1>2, <1>3 DEF IInv

-----------------------------------------------------------------------------
(* The selection *)

\* What another selection does to the details and the invitation.
LEMMA SelectKeeps ==
  ASSUME IInv, NEW room \in Selections, Select(room),
         task' = task \/ (task' = NoTask /\ ~Inviting), dialog' = dialog, misled' = misled
  PROVE  /\ shown' \in Selections /\ created' \in Selections /\ crossed' \in BOOLEAN
         /\ loads' \subseteq Loads
         /\ \A load \in loads' : load.own => load \in loads
         /\ DetailsInv' /\ InvitationInv'
<1> DEFINE asked == {[room |-> r, own |-> FALSE] : r \in {room} \ {NoRoom}}
<1>0. /\ selected' = room
      /\ shown' \in {shown, NoRoom} /\ created' \in {created, NoRoom}
      /\ loads' = loads \/ loads' = loads \union asked
  BY DEF Select
<1>1. /\ shown' \in Selections /\ created' \in Selections
      /\ loads' \subseteq Loads
      /\ \A load \in loads' : load.own => load \in loads
  <2>1. shown \in Selections /\ created \in Selections /\ NoRoom \in Selections
        /\ loads \subseteq Loads
    BY DEF IInv, ConsoleInv, TypeOK, Selections, Loads
  <2>2. asked \subseteq Loads /\ \A load \in asked : ~load.own
    <3> SUFFICES ASSUME NEW load \in asked PROVE load \in Loads /\ ~load.own
      OBVIOUS
    <3>1. PICK r \in {room} \ {NoRoom} : load = [room |-> r, own |-> FALSE]
      OBVIOUS
    <3>2. r \in Rooms
      BY DEF Selections
    <3>3. QED
      BY <3>1, <3>2 DEF Loads
  <2> HIDE DEF asked
  <2>3. QED
    BY <1>0, <2>1, <2>2
<1>2. crossed' \in BOOLEAN
  BY DEF IInv, ConsoleInv, TypeOK, Select
<1>3. DetailsInv'
  <2>1. CASE room = selected
    BY <2>1 DEF IInv, DetailsInv, Select
  <2>2. CASE room # selected /\ room = NoRoom
    BY <2>2 DEF DetailsInv, Select
  <2>3. CASE room # selected /\ room # NoRoom
    <3>1. [room |-> room, own |-> FALSE] \in loads' /\ selected' = room
      BY <2>3 DEF Select
    <3>2. QED
      BY <3>1 DEF DetailsInv
  <2>4. QED
    BY <2>1, <2>2, <2>3
<1>4. Inviting' => Inviting /\ task' = task
  BY TaskAssumption DEF Inviting
<1>5. InvitationInv'
  <2>1. CASE room = selected
    BY <2>1, <1>4 DEF IInv, InvitationInv, InvitationIsOfTheRoom, Select
  <2>2. CASE room # selected
    BY <2>2, <1>4 DEF IInv, InvitationInv, InvitationIsOfTheRoom, Select
  <2>3. QED
    BY <2>1, <2>2
<1>6. QED
  BY <1>1, <1>2, <1>3, <1>5

LEMMA ListArrivesStep ==
  ASSUME IInv, NEW who \in {"boot", "timer", "change"}, ListArrives(who)
  PROVE  IInv'
<1>1. PICK room \in (IF Wanted(who) \in rooms' THEN {Wanted(who)}
                     ELSE IF rooms' = {} THEN {NoRoom} ELSE rooms') :
        /\ Select(room)
        /\ form' = IF dialog = "edit" THEN Filled(room) ELSE form
  BY DEF ListArrives
<1>2. /\ rooms' \subseteq Rooms
      /\ lists' = lists \ {who}
      /\ task' = IF who = "change" THEN NoTask ELSE task
      /\ UNCHANGED <<auth, dialog, misled>>
  BY DEF ListArrives
<1>3. room \in Selections /\ (IF rooms' = {} THEN room = NoRoom ELSE room \in rooms')
  BY <1>1, <1>2 DEF Selections
<1>4. selected' = room
  BY <1>1 DEF Select
<1>5. who = "change" => ~Inviting
  BY DEF ListArrives, IInv, TaskInv, Inviting, ListTasks
<1>6. /\ shown' \in Selections /\ created' \in Selections /\ crossed' \in BOOLEAN
      /\ loads' \subseteq Loads
      /\ \A load \in loads' : load.own => load \in loads
      /\ DetailsInv' /\ InvitationInv'
  BY <1>1, <1>2, <1>3, <1>5, SelectKeeps
<1>7. ConsoleInv'
  BY <1>1, <1>2, <1>3, <1>4, <1>6, ConsoleAssumption
     DEF IInv, ConsoleInv, TypeOK, SelectionIsCoherent, Filled, Loads
<1>8. TaskInv'
  <2>1. CASE who = "change"
    <3>1. \A load \in loads : ~load.own
      BY <2>1 DEF ListArrives, IInv, TaskInv, ListTasks, DetailTasks
    <3>2. QED
      BY <1>2, <1>6, <2>1, <3>1 DEF TaskInv
  <2>2. CASE who # "change"
    BY <1>2, <1>6, <2>2 DEF IInv, TaskInv
  <2>3. QED
    BY <2>1, <2>2
<1>9. QED
  BY <1>6, <1>7, <1>8 DEF IInv

LEMMA ClickStep ==
  ASSUME IInv, NEW room \in Rooms, Click(room)
  PROVE  IInv'
<1>1. room \in Selections /\ selected' = room
  BY DEF Click, Select, Selections
<1>2. /\ shown' \in Selections /\ created' \in Selections /\ crossed' \in BOOLEAN
      /\ loads' \subseteq Loads
      /\ \A load \in loads' : load.own => load \in loads
      /\ DetailsInv' /\ InvitationInv'
  BY <1>1, SelectKeeps DEF Click
<1>3. ConsoleInv'
  BY <1>1, <1>2 DEF IInv, ConsoleInv, TypeOK, SelectionIsCoherent, Click, Loads
<1>4. TaskInv'
  BY <1>2 DEF IInv, TaskInv, Click
<1>5. QED
  BY <1>2, <1>3, <1>4 DEF IInv

\* Steps that leave the selection and the details alone.
LEMMA BootSteps ==
  ASSUME IInv, NEW who \in {"boot", "timer", "change"}, Boot \/ Poll \/ ListFails(who)
  PROVE  IInv'
<1>0. lists \subseteq {"boot", "timer", "change"}
  BY DEF IInv, ConsoleInv, TypeOK
<1>1. /\ UNCHANGED <<rooms, selected, shown, loads, dialog, form, created, misled, crossed>>
      /\ lists' \subseteq {"boot", "timer", "change"}
  BY <1>0 DEF Boot, Poll, ListFails
<1>a. \/ task' = task /\ ("change" \in lists' => "change" \in lists)
      \/ task' = NoTask /\ "change" \in lists /\ "change" \notin lists'
  <2>1. CASE Boot
    BY <2>1 DEF Boot
  <2>2. CASE Poll
    BY <2>2 DEF Poll
  <2>3. CASE ListFails("change")
    BY <2>3 DEF ListFails
  <2>4. CASE who # "change" /\ ListFails(who)
    BY <2>4 DEF ListFails
  <2>5. QED
    BY <2>1, <2>2, <2>3, <2>4
<1>2. auth' \in {"loading", "missing", "error", "ready"}
  BY DEF Boot, Poll, ListFails, IInv, ConsoleInv, TypeOK
<1>3. ConsoleInv'
  BY <1>1, <1>a, <1>2 DEF IInv, ConsoleInv, TypeOK, SelectionIsCoherent
<1>4. TaskInv'
  BY <1>1, <1>a DEF IInv, TaskInv, ListTasks, DetailTasks
<1>5. DetailsInv' /\ InvitationInv'
  BY <1>1, <1>a, TaskAssumption DEF IInv, DetailsInv, InvitationInv, InvitationIsOfTheRoom, Inviting
<1>6. QED
  BY <1>3, <1>4, <1>5 DEF IInv

-----------------------------------------------------------------------------
(* Details *)

\* The one load that was made for a change ends it.
LEMMA ProceedFacts ==
  ASSUME IInv, NEW load \in loads, Proceed(load), loads' = loads \ {load}, lists' = lists
  PROVE  /\ task' \in Tasks \union {NoTask} /\ created' \in Selections
         /\ TaskInv'
         /\ \/ task' = task /\ created' = created
            \/ task' = NoTask /\ (created' = created \/ (Inviting /\ created' = task.room))
<1>1. CASE ~load.own
  BY <1>1 DEF IInv, ConsoleInv, TypeOK, TaskInv, Proceed
<1>2. CASE load.own
  <2>1. /\ task \in Tasks /\ task.step = "reload" /\ task.kind \in DetailTasks
        /\ task.room = load.room
    BY <1>2 DEF IInv, TaskInv
  <2>2. task.room \in Selections
    BY <2>1, TaskFields
  <2>3. /\ task' = NoTask
        /\ created' = created \/ (Inviting /\ created' = task.room)
    BY <1>2, <2>1 DEF Proceed, Inviting
  <2>4. \A other \in loads' : ~other.own
    <3> SUFFICES ASSUME NEW other \in loads, other.own
                 PROVE  other = load
      OBVIOUS
    <3>1. other.room = load.room
      BY <2>1 DEF IInv, TaskInv
    <3>2. other \in Loads /\ load \in Loads /\ other.own = load.own
      BY <1>2 DEF IInv, ConsoleInv, TypeOK, Loads
    <3>3. QED
      BY <3>1, <3>2 DEF Loads
  <2>5. "change" \notin lists
    BY <2>1 DEF IInv, TaskInv, ListTasks, DetailTasks
  <2>6. TaskInv'
    BY <2>4, <2>5 DEF TaskInv
  <2>7. QED
    BY <2>2, <2>3, <2>6 DEF IInv, ConsoleInv, TypeOK
<1>3. QED
  BY <1>1, <1>2

LEMMA LoadSteps ==
  ASSUME IInv, NEW load \in loads, LoadArrives(load) \/ LoadFails(load)
  PROVE  IInv'
<1>1. /\ Proceed(load) /\ loads' = loads \ {load}
      /\ UNCHANGED <<auth, rooms, selected, lists, dialog, form, crossed>>
  BY DEF LoadArrives, LoadFails
<1>2. /\ task' \in Tasks \union {NoTask} /\ created' \in Selections
      /\ TaskInv'
      /\ \/ task' = task /\ created' = created
         \/ task' = NoTask /\ (created' = created \/ (Inviting /\ created' = task.room))
  BY <1>1, ProceedFacts
<1>3. misled' \in BOOLEAN
  BY DEF LoadArrives, LoadFails
<1>4. shown' \in Selections
  BY DEF LoadArrives, LoadFails, IInv, ConsoleInv, TypeOK, Selections
<1>5. ConsoleInv'
  BY <1>1, <1>2, <1>3, <1>4 DEF IInv, ConsoleInv, TypeOK, SelectionIsCoherent
<1>6. DetailsInv'
  <2>1. CASE LoadArrives(load)
    <3>1. shown' = load.room /\ misled' = (load.room # selected)
      BY <2>1 DEF LoadArrives
    <3>2. CASE load.room = selected
      BY <1>1, <3>1, <3>2 DEF DetailsInv
    <3>3. CASE load.room # selected
      BY <3>1, <3>3 DEF DetailsInv
    <3>4. QED
      BY <3>2, <3>3
  <2>2. CASE LoadFails(load)
    <3>1. shown' = shown /\ misled' = (misled \/ load.room = selected)
      BY <2>2 DEF LoadFails
    <3>2. CASE load.room = selected
      BY <3>1, <3>2 DEF DetailsInv
    <3>3. CASE load.room # selected
      BY <1>1, <3>1, <3>3 DEF IInv, DetailsInv
    <3>4. QED
      BY <3>2, <3>3
  <2>3. QED
    BY <2>1, <2>2
<1>7. InvitationInv'
  BY <1>1, <1>2, TaskAssumption DEF IInv, InvitationInv, InvitationIsOfTheRoom, Inviting
<1>8. QED
  BY <1>2, <1>5, <1>6, <1>7 DEF IInv

-----------------------------------------------------------------------------
(* Changes *)

LEMMA FilledForm ==
  ASSUME NEW room \in Selections
  PROVE  Filled(room) \in [room : Selections, edited : BOOLEAN] /\ Filled(room).room = room
BY DEF Filled

LEMMA DialogSteps ==
  ASSUME IInv,
         \/ \E which \in {"create", "edit", "share"} : OpenDialog(which)
         \/ Edit \/ CloseDialog
  PROVE  IInv'
<1>0. Filled(selected) \in [room : Selections, edited : BOOLEAN] /\ Filled(selected).room = selected
      /\ Filled(NoRoom) \in [room : Selections, edited : BOOLEAN]
  BY FilledForm DEF IInv, ConsoleInv, TypeOK, Selections
<1>1. CASE \E which \in {"create", "edit", "share"} : OpenDialog(which)
  <2>1. PICK which \in {"create", "edit", "share"} : OpenDialog(which)
    BY <1>1
  <2>2. /\ form' \in [room : Selections, edited : BOOLEAN] /\ created' \in Selections
        /\ (which = "edit" => form'.room = selected)
    BY <1>0, <2>1 DEF OpenDialog, IInv, ConsoleInv, TypeOK, Selections
  <2>3. ConsoleInv'
    BY <2>1, <2>2 DEF OpenDialog, IInv, ConsoleInv, TypeOK, SelectionIsCoherent
  <2>4. TaskInv' /\ DetailsInv'
    BY <2>1 DEF OpenDialog, IInv, TaskInv, DetailsInv
  <2>5. InvitationInv'
    BY <2>1 DEF OpenDialog, IInv, InvitationInv, InvitationIsOfTheRoom, Inviting
  <2>6. QED
    BY <2>3, <2>4, <2>5 DEF IInv
<1>2. CASE Edit
  <2>1. form' \in [room : Selections, edited : BOOLEAN] /\ form'.room = form.room
    BY <1>2 DEF Edit, IInv, ConsoleInv, TypeOK
  <2>2. ConsoleInv'
    BY <1>2, <2>1 DEF Edit, IInv, ConsoleInv, TypeOK, SelectionIsCoherent
  <2>3. TaskInv' /\ DetailsInv' /\ InvitationInv'
    BY <1>2 DEF Edit, IInv, TaskInv, DetailsInv, InvitationInv, InvitationIsOfTheRoom, Inviting
  <2>4. QED
    BY <2>2, <2>3 DEF IInv
<1>3. CASE CloseDialog
  <2>1. crossed' \in BOOLEAN /\ (Inviting => crossed')
    BY <1>3 DEF CloseDialog, IInv, ConsoleInv, TypeOK
  <2>2. ConsoleInv'
    BY <1>0, <1>3, <2>1 DEF CloseDialog, IInv, ConsoleInv, TypeOK, SelectionIsCoherent
  <2>3. TaskInv' /\ DetailsInv'
    BY <1>3 DEF CloseDialog, IInv, TaskInv, DetailsInv
  <2>4. InvitationInv'
    BY <1>3, <2>1 DEF CloseDialog, InvitationInv, InvitationIsOfTheRoom, Inviting
  <2>5. QED
    BY <2>2, <2>3, <2>4 DEF IInv
<1>4. QED
  BY <1>1, <1>2, <1>3

LEMMA AskStep ==
  ASSUME IInv, NEW kind \in ListTasks \union DetailTasks, Ask(kind)
  PROVE  IInv'
<1>1. /\ task' \in Tasks /\ task'.kind = kind /\ task'.room = selected
  BY DEF Ask, Tasks, IInv, ConsoleInv, TypeOK
<1>2. crossed' \in BOOLEAN
  BY DEF Ask, IInv, ConsoleInv, TypeOK
<1>3. ConsoleInv'
  BY <1>1, <1>2 DEF Ask, IInv, ConsoleInv, TypeOK, SelectionIsCoherent
<1>4. TaskInv'
  <2>1. "change" \notin lists /\ \A load \in loads : ~load.own
    BY TaskAssumption DEF Ask, IInv, TaskInv
  <2>2. QED
    BY <2>1 DEF Ask, TaskInv
<1>5. DetailsInv'
  BY DEF Ask, IInv, DetailsInv
<1>6. InvitationInv'
  <2>1. CASE kind = "invite"
    BY <1>1, <2>1 DEF Ask, InvitationInv, InvitationIsOfTheRoom
  <2>2. CASE kind # "invite"
    BY <1>1, <2>2 DEF Ask, IInv, InvitationInv, InvitationIsOfTheRoom, Inviting
  <2>3. QED
    BY <2>1, <2>2
<1>7. QED
  BY <1>3, <1>4, <1>5, <1>6 DEF IInv

LEMMA DoneStep ==
  ASSUME IInv, Done
  PROVE  IInv'
<1>1. PICK room \in (IF task.kind = "create" THEN Rooms ELSE {task.room}) :
        /\ room # NoRoom
        /\ task' = [task EXCEPT !.room = room, !.step = "reload"]
        /\ IF task.kind \in ListTasks
             THEN lists' = lists \union {"change"} /\ UNCHANGED loads
             ELSE loads' = loads \union {[room |-> room, own |-> TRUE]} /\ UNCHANGED lists
  BY DEF Done
<1>2. /\ task \in Tasks /\ task.step = "asked" /\ task.kind \in ListTasks \union DetailTasks
      /\ task.room \in Selections
  BY TaskFields DEF Done
<1>3. room \in Rooms /\ (task.kind # "create" => room = task.room)
  BY <1>1, <1>2 DEF Selections
<1>4. /\ task' \in Tasks /\ task'.kind = task.kind /\ task'.room = room /\ task'.step = "reload"
  BY <1>1, <1>2, <1>3 DEF Tasks, Selections
<1>5. "change" \notin lists /\ \A load \in loads : ~load.own
  BY <1>2 DEF IInv, TaskInv
<1>6. /\ Filled(NoRoom) \in [room : Selections, edited : BOOLEAN]
      /\ [room |-> room, own |-> TRUE] \in Loads
  BY <1>3, FilledForm DEF Selections, Loads
<1>7. /\ UNCHANGED <<auth, rooms, selected, shown, created, misled, crossed>>
      /\ \/ dialog' = "none" /\ form' = Filled(NoRoom) /\ task.kind \in {"save", "create"}
         \/ UNCHANGED <<dialog, form>>
  BY DEF Done
<1>8. ConsoleInv'
  BY <1>1, <1>4, <1>6, <1>7 DEF IInv, ConsoleInv, TypeOK, SelectionIsCoherent, Loads
<1>9. TaskInv'
  <2>1. CASE task.kind \in ListTasks
    BY <1>1, <1>4, <1>5, <2>1 DEF TaskInv
  <2>2. CASE task.kind \notin ListTasks
    <3>1. loads' = loads \union {[room |-> room, own |-> TRUE]} /\ lists' = lists
      BY <1>1, <2>2
    <3>2. QED
      BY <1>2, <1>4, <1>5, <2>2, <3>1 DEF TaskInv
  <2>3. QED
    BY <2>1, <2>2
<1>10. DetailsInv'
  BY <1>1, <1>7 DEF IInv, DetailsInv
<1>11. InvitationInv'
  BY <1>2, <1>3, <1>4, <1>7 DEF IInv, InvitationInv, InvitationIsOfTheRoom, Inviting
<1>12. QED
  BY <1>8, <1>9, <1>10, <1>11 DEF IInv

LEMMA RefusedStep ==
  ASSUME IInv, Refused
  PROVE  IInv'
<1>1. "change" \notin lists /\ \A load \in loads : ~load.own
  BY DEF Refused, IInv, TaskInv
<1>2. ConsoleInv' /\ TaskInv' /\ DetailsInv'
  BY <1>1 DEF Refused, IInv, ConsoleInv, TypeOK, SelectionIsCoherent, TaskInv, DetailsInv
<1>3. InvitationInv'
  BY TaskAssumption DEF Refused, IInv, InvitationInv, InvitationIsOfTheRoom, Inviting
<1>4. QED
  BY <1>2, <1>3 DEF IInv

-----------------------------------------------------------------------------

LEMMA StepConsole == IInv /\ [Next]_vars => IInv'
<1> SUFFICES ASSUME IInv, [Next]_vars PROVE IInv'
  OBVIOUS
<1>1. CASE UNCHANGED vars
  BY <1>1 DEF IInv, ConsoleInv, TypeOK, SelectionIsCoherent, TaskInv, DetailsInv,
              InvitationInv, InvitationIsOfTheRoom, Inviting, vars
<1>2. CASE Boot \/ Poll
  BY <1>2, BootSteps
<1>3. CASE \E who \in {"boot", "timer", "change"} : ListArrives(who) \/ ListFails(who)
  BY <1>3, BootSteps, ListArrivesStep
<1>4. CASE \E room \in Rooms : Click(room)
  BY <1>4, ClickStep
<1>5. CASE \E load \in loads : LoadArrives(load) \/ LoadFails(load)
  BY <1>5, LoadSteps
<1>6. CASE (\E which \in {"create", "edit", "share"} : OpenDialog(which)) \/ Edit \/ CloseDialog
  BY <1>6, DialogSteps
<1>7. CASE \E kind \in ListTasks \union DetailTasks : Ask(kind)
  BY <1>7, AskStep
<1>8. CASE Done \/ Refused
  BY <1>8, DoneStep, RefusedStep
<1>9. QED
  BY <1>1, <1>2, <1>3, <1>4, <1>5, <1>6, <1>7, <1>8 DEF Next

LEMMA InvariantConsole == Spec => []IInv
BY InitConsole, StepConsole, PTL DEF Spec

\* For any rooms, the selection is in the list last received and the form that is
\* going to be saved was filled from it (App.jsx, refreshRooms and RoomDialog).
THEOREM ConsoleIsCoherent == Spec => []ConsoleInv
<1>1. IInv => ConsoleInv
  BY DEF IInv
<1>2. QED
  BY <1>1, InvariantConsole, PTL

\* When nothing is being loaded the members and invitations shown are the selected
\* room's, late and failed loads excepted (App.jsx, refreshDetails).
THEOREM DetailsFitTheRoom == Spec => []DetailsAreOfTheRoom
<1>1. IInv => DetailsAreOfTheRoom
  BY DEF IInv, DetailsInv, DetailsAreOfTheRoom
<1>2. QED
  BY <1>1, InvariantConsole, PTL

\* The invitation in the dialog is the selected room's, unless it was left meanwhile
\* (App.jsx, ShareDialog and createInvite).
THEOREM InvitationFitsTheRoom == Spec => []InvitationIsOfTheRoom
<1>1. IInv => InvitationIsOfTheRoom
  BY DEF IInv, InvitationInv
<1>2. QED
  BY <1>1, InvariantConsole, PTL

=============================================================================
