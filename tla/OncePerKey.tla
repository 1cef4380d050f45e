----------------------------- MODULE OncePerKey -----------------------------
(***************************************************************************)
(* What a client that repeats a request under one key may rely on: while   *)
(* the request is carried out nobody begins it again, and its answer, once *)
(* good enough to be remembered, stays the answer until it has grown old.  *)
(*                                                                         *)
(*    fresh -> running -> decided -> remembered -> due -> fresh            *)
(*                           |                                             *)
(*                           +----> fresh   (failed: it may be tried again)*)
(*                                                                         *)
(* Idempotency implements it; see Idempotency!Once.                        *)
(***************************************************************************)
CONSTANTS Keys, Results, Kept, NoResult

VARIABLES stage, outcome

Init ==
  /\ stage = [k \in Keys |-> "fresh"]
  /\ outcome = [k \in Keys |-> NoResult]

\* Answers that have grown old are forgotten together, ...
ForgetDue ==
  /\ stage' = [k \in Keys |-> IF stage[k] = "due" THEN "fresh" ELSE stage[k]]
  /\ outcome' = [k \in Keys |-> IF stage[k] = "due" THEN NoResult ELSE outcome[k]]

\* ... and when a request comes that nobody is carrying out or remembers.
Take(k) ==
  /\ stage[k] \in {"fresh", "due"}
  /\ stage' = [i \in Keys |-> IF i = k THEN "running"
                              ELSE IF stage[i] = "due" THEN "fresh" ELSE stage[i]]
  /\ outcome' = [i \in Keys |-> IF stage[i] = "due" THEN NoResult ELSE outcome[i]]

Decide(k) ==
  /\ stage[k] = "running"
  /\ stage' = [stage EXCEPT ![k] = "decided"]
  /\ \E result \in Results : outcome' = [outcome EXCEPT ![k] = result]

Remember(k) ==
  /\ stage[k] = "decided" /\ outcome[k] \in Kept
  /\ stage' = [stage EXCEPT ![k] = "remembered"]
  /\ UNCHANGED outcome

GiveUp(k) ==
  /\ stage[k] = "decided" /\ outcome[k] \notin Kept
  /\ stage' = [stage EXCEPT ![k] = "fresh"]
  /\ outcome' = [outcome EXCEPT ![k] = NoResult]

Age(k) ==
  /\ stage[k] = "remembered"
  /\ stage' = [stage EXCEPT ![k] = "due"]
  /\ UNCHANGED outcome

\* Nothing outlives the gateway.
Crash ==
  /\ stage' = [k \in Keys |-> "fresh"]
  /\ outcome' = [k \in Keys |-> NoResult]

Next ==
  \/ ForgetDue \/ Crash
  \/ \E k \in Keys : Take(k) \/ Decide(k) \/ Remember(k) \/ GiveUp(k) \/ Age(k)

Spec == Init /\ [][Next]_<<stage, outcome>>

=============================================================================
