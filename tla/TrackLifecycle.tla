--------------------------- MODULE TrackLifecycle ---------------------------
(***************************************************************************)
(* What a room promises about each requested track, without queue          *)
(* positions, revisions, clocks or commands: the stages a track goes       *)
(* through, one step at a time, with at most one track on stage.           *)
(*                                                                         *)
(*    new -> queued -> loaded -> started -> played                         *)
(*              |         |                                                *)
(*              +---------+--> dropped     (withdrawn, or skipped unheard) *)
(*                                                                         *)
(* RoomPlayback implements it; see RoomPlayback!Lifecycle.                 *)
(***************************************************************************)
CONSTANT Entries
VARIABLE stage

Stages == {"new", "queued", "loaded", "started", "played", "dropped"}

OnStage == {e \in Entries : stage[e] \in {"loaded", "started"}}

AfterStage(e) == IF stage[e] = "started" THEN "played" ELSE "dropped"

Init == stage = [e \in Entries |-> "new"]

(* A request joins the queue, ...                                          *)
Request(e) ==
  /\ stage[e] = "new"
  /\ stage' = [stage EXCEPT ![e] = "queued"]

(* ... and in an idle room one waiting track, it or another, is loaded.    *)
RequestAndLoad(e, f) ==
  /\ stage[e] = "new"
  /\ OnStage = {}
  /\ f = e \/ stage[f] = "queued"
  /\ stage' = [stage EXCEPT ![e] = "queued", ![f] = "loaded"]

Withdraw(e) ==
  /\ stage[e] = "queued"
  /\ stage' = [stage EXCEPT ![e] = "dropped"]

Load(e) ==
  /\ OnStage = {}
  /\ stage[e] = "queued"
  /\ stage' = [stage EXCEPT ![e] = "loaded"]

Start(e) ==
  /\ \/ stage[e] = "loaded"
     \/ OnStage = {} /\ stage[e] = "queued"
  /\ stage' = [stage EXCEPT ![e] = "started"]

Leave(e) ==
  /\ e \in OnStage
  /\ stage' = [stage EXCEPT ![e] = AfterStage(e)]

(* "Next": one track leaves and another starts in the same step.           *)
Advance(e, f) ==
  /\ e \in OnStage
  /\ stage[f] = "queued"
  /\ stage' = [stage EXCEPT ![e] = AfterStage(e), ![f] = "started"]

Next ==
  \/ \E e \in Entries : Request(e) \/ Withdraw(e) \/ Load(e) \/ Start(e) \/ Leave(e)
  \/ \E e, f \in Entries : RequestAndLoad(e, f) \/ Advance(e, f)

(* [][Next]_stage, written so that a step that moves no track is seen to be *)
(* one at once.                                                            *)
Spec == Init /\ [][stage' # stage /\ Next]_stage

=============================================================================
