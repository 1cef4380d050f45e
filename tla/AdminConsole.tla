---------------------------- MODULE AdminConsole ----------------------------
(***************************************************************************)
(* The administrator's page (admin-ui/src/App.jsx): a list of rooms that a *)
(* timer fetches again, a selection that follows it, the selected room's   *)
(* members and invitations, and the changes an administrator makes, each   *)
(* of which goes on with what the page held when its button was pressed.   *)
(*                                                                         *)
(* Of a room only its name is kept, of the details only whose they are.    *)
(* What a list holds is the gateway's affair: any answer may come, an old  *)
(* one too.  Requests of one kind for one room count as one.               *)
(***************************************************************************)
EXTENDS Naturals

CONSTANTS Rooms, NoRoom, NoTask

ASSUME ConsoleAssumption == NoRoom \notin Rooms

Selections == Rooms \union {NoRoom}
ListTasks == {"save", "create", "toggle", "delete"}
DetailTasks == {"invite", "withdraw"}  \* withdraw: remove a member, revoke an invitation
Tasks == [kind : ListTasks \union DetailTasks, room : Selections, step : {"asked", "reload"}]

ASSUME TaskAssumption == NoTask \notin Tasks

VARIABLES
  auth,
  rooms,    \* the rooms listed
  selected, \* selectedID
  shown,    \* the room whose members and invitations are shown
  lists,    \* who waits for a list: the start, the timer, a change
  loads,    \* details that have been asked for, and whether for a change
  task,     \* the change under way; busy while there is one
  dialog,   \* roomDialog, or the dialog that shares
  form,     \* the room the form was filled from, and whether it was edited
  created,  \* the room of the invitation shown
  misled,   \* history: the details last received are not the selected room's
  crossed   \* history: the dialog was left while an invitation was being made

vars == <<auth, rooms, selected, shown, lists, loads, task, dialog, form, created, misled, crossed>>

Init ==
  /\ auth = "loading"
  /\ rooms = {} /\ selected = NoRoom /\ shown = NoRoom
  /\ lists = {} /\ loads = {} /\ task = NoTask
  /\ dialog = "none" /\ form = [room |-> NoRoom, edited |-> FALSE] /\ created = NoRoom
  /\ misled = FALSE /\ crossed = FALSE

-----------------------------------------------------------------------------
(* The list and the selection *)

\* Without Navidrome's credentials, or without a session, the page is of no use:
\* what it would say cannot be rendered, for LockIcon is not imported.
Boot ==
  /\ auth = "loading"
  /\ \/ auth' \in {"missing", "error"} /\ UNCHANGED lists
     \/ auth' = "ready" /\ lists' = {"boot"}
  /\ UNCHANGED <<rooms, selected, shown, loads, task, dialog, form, created, misled, crossed>>

\* The timer, and the button beside it.
Poll ==
  /\ auth = "ready"
  /\ lists' = lists \union {"timer"}
  /\ UNCHANGED <<auth, rooms, selected, shown, loads, task, dialog, form, created, misled, crossed>>

Inviting == task \in Tasks /\ task.kind = "invite"

\* Fault: another selection does not ask for its details.
SelectOnly(room) ==
  /\ selected' = room
  /\ IF room = selected
       THEN UNCHANGED <<shown, loads, created, crossed>>
       ELSE /\ shown' = IF room = NoRoom THEN NoRoom ELSE shown
            /\ created' = IF dialog = "share" THEN NoRoom ELSE created
            /\ crossed' = (crossed \/ Inviting)
            /\ UNCHANGED loads

\* The effects of another selection: its details are asked for, or cleared, and
\* the dialog that shares starts anew.
Select(room) ==
  /\ selected' = room
  /\ IF room = selected
       THEN UNCHANGED <<shown, loads, created, crossed>>
       ELSE /\ shown' = IF room = NoRoom THEN NoRoom ELSE shown
            /\ loads' = loads \union {[room |-> r, own |-> FALSE] : r \in {room} \ {NoRoom}}
            /\ created' = IF dialog = "share" THEN NoRoom ELSE created
            /\ crossed' = (crossed \/ Inviting)

Wanted(who) == IF who = "change" /\ task.kind # "delete" THEN task.room ELSE selected

\* RoomDialog's effect.
Filled(room) == [room |-> room, edited |-> FALSE]

\* Fault: the form is filled when it is opened and not again.
ListKeepsForm(who) ==
  /\ who \in lists /\ auth = "ready"
  /\ rooms' \in SUBSET Rooms
  /\ \E room \in IF Wanted(who) \in rooms' THEN {Wanted(who)}
                 ELSE IF rooms' = {} THEN {NoRoom} ELSE rooms' : Select(room)
  /\ lists' = lists \ {who}
  /\ task' = IF who = "change" THEN NoTask ELSE task
  /\ UNCHANGED <<auth, dialog, form, misled>>

\* Every list makes every room a new object: a form that shows the selected one
\* is filled again, whatever was typed into it.
ListArrives(who) ==
  /\ who \in lists /\ auth = "ready"
  /\ rooms' \in SUBSET Rooms
  /\ \E room \in IF Wanted(who) \in rooms' THEN {Wanted(who)}
                 ELSE IF rooms' = {} THEN {NoRoom} ELSE rooms' :
       /\ Select(room)
       /\ form' = IF dialog = "edit" THEN Filled(room) ELSE form
  /\ lists' = lists \ {who}
  /\ task' = IF who = "change" THEN NoTask ELSE task
  /\ UNCHANGED <<auth, dialog, misled>>

\* Fault: a change whose list does not come is not ended.
ListFailsBusy(who) ==
  /\ who \in lists /\ auth = "ready"
  /\ lists' = lists \ {who}
  /\ auth' = IF who = "boot" THEN "error" ELSE auth
  /\ UNCHANGED <<rooms, selected, shown, loads, task, dialog, form, created, misled, crossed>>

ListFails(who) ==
  /\ who \in lists /\ auth = "ready"
  /\ lists' = lists \ {who}
  /\ task' = IF who = "change" THEN NoTask ELSE task
  /\ auth' = IF who = "boot" THEN "error" ELSE auth
  /\ UNCHANGED <<rooms, selected, shown, loads, dialog, form, created, misled, crossed>>

\* A dialog covers the page.
Click(room) ==
  /\ auth = "ready" /\ dialog = "none" /\ room \in rooms
  /\ Select(room)
  /\ UNCHANGED <<auth, rooms, lists, task, dialog, form, misled>>

-----------------------------------------------------------------------------
(* Details *)

\* The change a load was made for goes on when it has ended, well or not.  Only
\* then the new invitation is shown, by a dialog that may be another by now.
Proceed(load) ==
  IF ~load.own
    THEN UNCHANGED <<task, created>>
    ELSE /\ task' = NoTask
         /\ created' = IF task.kind = "invite" THEN task.room ELSE created

LoadArrives(load) ==
  /\ load \in loads
  /\ loads' = loads \ {load}
  /\ shown' = load.room
  /\ misled' = (load.room # selected)
  /\ Proceed(load)
  /\ UNCHANGED <<auth, rooms, selected, lists, dialog, form, crossed>>

LoadFails(load) ==
  /\ load \in loads
  /\ loads' = loads \ {load}
  /\ misled' = (misled \/ load.room = selected)
  /\ Proceed(load)
  /\ UNCHANGED <<auth, rooms, selected, shown, lists, dialog, form, crossed>>

-----------------------------------------------------------------------------
(* Changes *)

\* Fault: the invitation of the last time is still there.
OpenDialogAsLeft(which) ==
  /\ auth = "ready" /\ dialog = "none"
  /\ which # "create" => selected # NoRoom
  /\ dialog' = which
  /\ form' = CASE which = "edit" -> Filled(selected)
               [] which = "create" -> Filled(NoRoom)
               [] which = "share" -> form
  /\ UNCHANGED <<auth, rooms, selected, shown, lists, loads, task, created, misled, crossed>>

OpenDialog(which) ==
  /\ auth = "ready" /\ dialog = "none"
  /\ which # "create" => selected # NoRoom
  /\ dialog' = which
  /\ form' = CASE which = "edit" -> Filled(selected)
               [] which = "create" -> Filled(NoRoom)
               [] which = "share" -> form
  /\ created' = IF which = "share" THEN NoRoom ELSE created
  /\ UNCHANGED <<auth, rooms, selected, shown, lists, loads, task, misled, crossed>>

Edit ==
  /\ dialog \in {"create", "edit"}
  /\ form' = [form EXCEPT !.edited = TRUE]
  /\ UNCHANGED <<auth, rooms, selected, shown, lists, loads, task, dialog, created, misled, crossed>>

\* The dialog that shares can be left by its button while the page is busy.  The
\* form's effect empties a form that is closed.
CloseDialog ==
  /\ dialog # "none"
  /\ dialog # "share" => task = NoTask
  /\ dialog' = "none" /\ form' = Filled(NoRoom)
  /\ crossed' = (crossed \/ Inviting)
  /\ UNCHANGED <<auth, rooms, selected, shown, lists, loads, task, created, misled>>

\* What a change keeps of the moment its button was pressed: the selection, and
\* with it the refreshDetails it is going to call.  A form without a name has no
\* button.
Ask(kind) ==
  /\ auth = "ready" /\ task = NoTask
  /\ CASE kind = "save"   -> dialog = "edit"
       [] kind = "create" -> dialog = "create"
       [] kind = "invite" -> dialog = "share" /\ created = NoRoom /\ selected # NoRoom
       [] OTHER           -> dialog = "none" /\ selected # NoRoom
  /\ kind \in {"save", "create"} => form.edited \/ form.room # NoRoom
  /\ task' = [kind |-> kind, room |-> selected, step |-> "asked"]
  /\ crossed' = (crossed /\ kind # "invite")
  /\ UNCHANGED <<auth, rooms, selected, shown, lists, loads, dialog, form, created, misled>>

\* It was carried out, perhaps on the room it made.
Done ==
  /\ task \in Tasks /\ task.step = "asked"
  /\ \E room \in IF task.kind = "create" THEN Rooms ELSE {task.room} :
       /\ room # NoRoom
       /\ task' = [task EXCEPT !.room = room, !.step = "reload"]
       /\ IF task.kind \in ListTasks
            THEN lists' = lists \union {"change"} /\ UNCHANGED loads
            ELSE loads' = loads \union {[room |-> room, own |-> TRUE]} /\ UNCHANGED lists
  /\ IF task.kind \in {"save", "create"}
       THEN dialog' = "none" /\ form' = Filled(NoRoom)
       ELSE UNCHANGED <<dialog, form>>
  /\ UNCHANGED <<auth, rooms, selected, shown, created, misled, crossed>>

Refused ==
  /\ task \in Tasks /\ task.step = "asked"
  /\ task' = NoTask
  /\ UNCHANGED <<auth, rooms, selected, shown, lists, loads, dialog, form, created, misled, crossed>>

Next ==
  \/ Boot \/ Poll
  \/ \E who \in {"boot", "timer", "change"} : ListArrives(who) \/ ListFails(who)
  \/ \E room \in Rooms : Click(room)
  \/ \E load \in loads : LoadArrives(load) \/ LoadFails(load)
  \/ \E which \in {"create", "edit", "share"} : OpenDialog(which)
  \/ Edit \/ CloseDialog
  \/ \E kind \in ListTasks \union DetailTasks : Ask(kind)
  \/ Done \/ Refused

Spec == Init /\ [][Next]_vars

\* What the change under way waits for comes, one way or another.
Answered ==
  \/ Done \/ Refused
  \/ ListArrives("change") \/ ListFails("change")
  \/ \E load \in loads : load.own /\ (LoadArrives(load) \/ LoadFails(load))

FairSpec == Spec /\ WF_vars(Answered)

-----------------------------------------------------------------------------
(* Properties *)

TypeOK ==
  /\ auth \in {"loading", "missing", "error", "ready"}
  /\ rooms \subseteq Rooms
  /\ selected \in Selections /\ shown \in Selections /\ created \in Selections
  /\ lists \subseteq {"boot", "timer", "change"}
  /\ loads \subseteq [room : Rooms, own : BOOLEAN]
  /\ task \in Tasks \union {NoTask}
  /\ dialog \in {"none", "create", "edit", "share"}
  /\ form \in [room : Selections, edited : BOOLEAN]
  /\ misled \in BOOLEAN /\ crossed \in BOOLEAN

\* The selection is in the list, if there is one, whichever list came last; and
\* the form that is going to be saved to it was filled from it.
SelectionIsCoherent ==
  /\ IF rooms = {} THEN selected = NoRoom ELSE selected \in rooms
  /\ dialog = "edit" => form.room = selected

\* Type correctness and a coherent selection.
ConsoleInv == TypeOK /\ SelectionIsCoherent

\* When nothing is being loaded the members and invitations shown are those of the
\* selected room, so that a withdrawal meets the room it was meant for; unless a
\* load failed or, asked for another room, came in late.
DetailsAreOfTheRoom == loads = {} /\ ~misled => shown = selected

\* The invitation in the dialog admits to the room in its title, unless the dialog
\* or the room was left while it was being made.
InvitationIsOfTheRoom ==
  dialog = "share" /\ created # NoRoom /\ ~crossed => created = selected

\* No change leaves the page busy for ever, whichever step of it fails.
BusyEnds == task # NoTask ~> (task = NoTask \/ auth # "ready")

=============================================================================
