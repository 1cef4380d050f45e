---------------------------- MODULE Idempotency ----------------------------
(***************************************************************************)
(* The gateway's idempotency cache (internal/api/idempotency.go): of the   *)
(* mutating requests that carry the same key one is carried out, those     *)
(* that come meanwhile wait for its answer, and later ones are given it.   *)
(*                                                                         *)
(* A key here is the whole scope (user, method, path and key), a body the  *)
(* hash of the request.  Of a response its status class is kept, and what  *)
(* it answers.  An item is what a pointer to an idempotencyEntry leads to; *)
(* as long as it is open it is identified by the handler that made it.     *)
(* Requests without a key, or not mutating, never come here.               *)
(***************************************************************************)
EXTENDS Naturals, FiniteSets

CONSTANTS Handlers,  \* goroutines serving requests; an idle one serves again
          Keys, Bodies,
          MaxItems,  \* maxSize
          NoItem, NoAnswer, NoHandler

Kept == {"done", "refused"}       \* below 500, within a MiB
Results == Kept \union {"failed"} \* 500 and above, too large, or a panic

Requests == [key : Keys, body : Bodies]
Answers == [to : Requests, result : Results]
Items == [owner : Handlers, body : Bodies, answer : Answers \union {NoAnswer}, expired : BOOLEAN]

ASSUME CacheAssumption ==
  /\ MaxItems \in Nat
  /\ NoItem \notin Items /\ NoAnswer \notin Answers /\ NoHandler \notin Handlers

VARIABLES
  items,  \* by key
  at,     \* where each handler is
  asks,   \* the request it serves
  awaits, \* whose entry it waits for
  answer  \* what it has been answered, or has to answer

vars == <<items, at, asks, awaits, answer>>

Init ==
  /\ items = [k \in Keys |-> NoItem]
  /\ at = [h \in Handlers |-> "idle"]
  /\ asks \in [Handlers -> Requests]
  /\ awaits = [h \in Handlers |-> NoHandler]
  /\ answer = [h \in Handlers |-> NoAnswer]

\* The handler that carries a request out; its entry is open.
Owner(h) == at[h] \in {"serving", "decided", "panicking"}

Arrive(h) ==
  /\ at[h] = "idle"
  /\ at' = [at EXCEPT ![h] = "begin"]
  /\ \E request \in Requests : asks' = [asks EXCEPT ![h] = request]
  /\ UNCHANGED <<items, awaits, answer>>

-----------------------------------------------------------------------------
(* begin, under the lock *)

Answered(item) == item # NoItem /\ item.answer # NoAnswer

\* Fault: whatever is older than the time to live goes, finished or not.
StaleOrOpen(k) == items[k] # NoItem /\ (items[k].expired \/ items[k].answer = NoAnswer)

Stale(k) == Answered(items[k]) /\ items[k].expired

\* cleanupLocked
Cleaned == [k \in Keys |-> IF Stale(k) THEN NoItem ELSE items[k]]

InUse(cache) == {k \in Keys : cache[k] # NoItem}

\* The key was used for something else.
Conflict(h) ==
  /\ Cleaned[asks[h].key] # NoItem
  /\ Cleaned[asks[h].key].body # asks[h].body
  /\ items' = Cleaned
  /\ at' = [at EXCEPT ![h] = "idle"]
  /\ UNCHANGED <<asks, awaits, answer>>

\* Somebody carries the request out, or has: a closed channel does not block.
Join(h) ==
  LET item == Cleaned[asks[h].key] IN
  /\ item # NoItem /\ item.body = asks[h].body
  /\ items' = Cleaned
  /\ IF item.answer = NoAnswer
       THEN /\ at' = [at EXCEPT ![h] = "waiting"]
            /\ awaits' = [awaits EXCEPT ![h] = item.owner]
            /\ UNCHANGED answer
       ELSE /\ at' = [at EXCEPT ![h] = "woken"]
            /\ answer' = [answer EXCEPT ![h] = item.answer]
            /\ UNCHANGED awaits
  /\ UNCHANGED asks

Full(h) ==
  /\ Cleaned[asks[h].key] = NoItem
  /\ Cardinality(InUse(Cleaned)) >= MaxItems
  /\ items' = Cleaned
  /\ at' = [at EXCEPT ![h] = "idle"]
  /\ UNCHANGED <<asks, awaits, answer>>

Own(h) ==
  /\ Cleaned[asks[h].key] = NoItem
  /\ Cardinality(InUse(Cleaned)) < MaxItems
  /\ items' = [Cleaned EXCEPT ![asks[h].key] =
                 [owner |-> h, body |-> asks[h].body, answer |-> NoAnswer, expired |-> FALSE]]
  /\ at' = [at EXCEPT ![h] = "serving"]
  /\ UNCHANGED <<asks, awaits, answer>>

Begin(h) == at[h] = "begin" /\ (Conflict(h) \/ Join(h) \/ Full(h) \/ Own(h))

-----------------------------------------------------------------------------
(* The owner *)

\* The handlers behind the middleware run, with whatever effect; they answer or panic.
Serve(h) ==
  /\ at[h] = "serving"
  /\ \/ /\ at' = [at EXCEPT ![h] = "decided"]
        /\ \E result \in Results :
             answer' = [answer EXCEPT ![h] = [to |-> asks[h], result |-> result]]
     \/ /\ at' = [at EXCEPT ![h] = "panicking"]
        /\ UNCHANGED answer
  /\ UNCHANGED <<items, asks, awaits>>

\* `current != entry`
HoldsItem(h) ==
  LET item == items[asks[h].key] IN
  item # NoItem /\ item.answer = NoAnswer /\ item.owner = h

\* The handler is done, with or without closing its entry for those who wait.
Ends(h) ==
  /\ at' = [at EXCEPT ![h] = "idle"]
  /\ answer' = [answer EXCEPT ![h] = NoAnswer]
  /\ UNCHANGED awaits

\* Fault: the entry is not closed.
ClosesNothing(h, result) == Ends(h)

Closes(h, result) ==
  LET waiters == {w \in Handlers : at[w] = "waiting" /\ awaits[w] = h} IN
  /\ at' = [w \in Handlers |-> IF w = h THEN "idle" ELSE IF w \in waiters THEN "woken" ELSE at[w]]
  /\ answer' = [w \in Handlers |-> IF w = h THEN NoAnswer
                                   ELSE IF w \in waiters THEN result ELSE answer[w]]
  /\ awaits' = [w \in Handlers |-> IF w \in waiters THEN NoHandler ELSE awaits[w]]

\* Fault: a server's error is remembered too.
KeepsAnything(h) == at[h] = "decided"

\* status < 500, and a body that is not too long
Keeps(h) == at[h] = "decided" /\ answer[h].result \in Kept

Commit(h) ==
  /\ Keeps(h)
  /\ IF HoldsItem(h)
       THEN /\ items' = [items EXCEPT ![asks[h].key].answer = answer[h]]
            /\ Closes(h, answer[h])
       ELSE Ends(h) /\ UNCHANGED items
  /\ UNCHANGED asks

\* After an answer that is not kept, or deferred: after a panic.
Abort(h) ==
  /\ at[h] \in {"panicking", "decided"} /\ ~Keeps(h)
  /\ IF HoldsItem(h)
       THEN /\ items' = [items EXCEPT ![asks[h].key] = NoItem]
            /\ Closes(h, NoAnswer)
       ELSE Ends(h) /\ UNCHANGED items
  /\ UNCHANGED asks

-----------------------------------------------------------------------------
(* Those who wait, time, and restarts *)

\* wait returns: the answer is replayed; without one the request begins again.
Wake(h) ==
  /\ at[h] = "woken"
  /\ at' = [at EXCEPT ![h] = IF answer[h] = NoAnswer THEN "begin" ELSE "idle"]
  /\ answer' = [answer EXCEPT ![h] = NoAnswer]
  /\ UNCHANGED <<items, asks, awaits>>

\* The client has gone.
Cancel(h) ==
  /\ at[h] = "waiting"
  /\ at' = [at EXCEPT ![h] = "idle"]
  /\ awaits' = [awaits EXCEPT ![h] = NoHandler]
  /\ UNCHANGED <<items, asks, answer>>

Expire(k) ==
  /\ Answered(items[k]) /\ ~items[k].expired
  /\ items' = [items EXCEPT ![k].expired = TRUE]
  /\ UNCHANGED <<at, asks, awaits, answer>>

Restart ==
  /\ items' = [k \in Keys |-> NoItem]
  /\ at' = [h \in Handlers |-> "idle"]
  /\ awaits' = [h \in Handlers |-> NoHandler]
  /\ answer' = [h \in Handlers |-> NoAnswer]
  /\ UNCHANGED asks

Proceed(h) == Begin(h) \/ Serve(h) \/ Commit(h) \/ Abort(h) \/ Wake(h)

Next ==
  \/ \E h \in Handlers : Arrive(h) \/ Cancel(h) \/ Proceed(h)
  \/ \E k \in Keys : Expire(k)
  \/ Restart

Spec == Init /\ [][Next]_vars

\* A goroutine that waits for nobody goes on; what it serves ends.
FairSpec == Spec /\ \A h \in Handlers : WF_vars(Proceed(h))

-----------------------------------------------------------------------------
TypeOK ==
  /\ items \in [Keys -> Items \union {NoItem}]
  /\ at \in [Handlers -> {"idle", "begin", "serving", "decided", "panicking", "waiting", "woken"}]
  /\ asks \in [Handlers -> Requests]
  /\ awaits \in [Handlers -> Handlers \union {NoHandler}]
  /\ answer \in [Handlers -> Answers \union {NoAnswer}]

\* An owner finds its own open entry under its key when it comes to close it, so
\* `current != entry` holds back nobody's waiters; and no entry stays open without
\* an owner: a panic, a failure and an expiry elsewhere leave none behind.
OwnersHoldOpenItems ==
  /\ \A h \in Handlers : Owner(h) => HoldsItem(h) /\ items[asks[h].key].body = asks[h].body
  /\ \A k \in Keys : items[k] # NoItem /\ items[k].answer = NoAnswer =>
       /\ ~items[k].expired
       /\ Owner(items[k].owner) /\ asks[items[k].owner].key = k

\* Whoever waits waits for a handler that is carrying out the very same request.
WaitersAwaitOwners ==
  \A h \in Handlers : at[h] = "waiting" =>
    /\ awaits[h] \in Handlers
    /\ Owner(awaits[h]) /\ asks[awaits[h]] = asks[h]

\* What is remembered answers the request it is remembered for, what a waiter is
\* told answers the request it serves, and neither is a failure.
AnswersFit ==
  /\ \A k \in Keys : Answered(items[k]) =>
       items[k].answer.to = [key |-> k, body |-> items[k].body] /\ items[k].answer.result \in Kept
  /\ \A h \in Handlers : answer[h] # NoAnswer =>
       /\ answer[h].to = asks[h]
       /\ at[h] \in {"decided", "woken"}
       /\ at[h] = "woken" => answer[h].result \in Kept
  /\ \A h \in Handlers : at[h] = "decided" => answer[h] # NoAnswer

WithinCapacity == IsFiniteSet(InUse(items)) /\ Cardinality(InUse(items)) <= MaxItems

\* The entries, those who own them and those who wait for them fit together,
\* through failures, panics, cancelled requests, expiry and a full cache.
\* (begin, wait, commit, abort and the loop of idempotencyMiddleware.)
CacheInv ==
  /\ TypeOK /\ OwnersHoldOpenItems /\ WaitersAwaitOwners /\ AnswersFit /\ WithinCapacity

Doing(k) == {h \in Handlers : Owner(h) /\ asks[h].key = k}

\* A panic is a failure that has been decided.
Stage ==
  [k \in Keys |->
     IF items[k] = NoItem THEN "fresh"
     ELSE IF items[k].answer # NoAnswer THEN IF items[k].expired THEN "due" ELSE "remembered"
     ELSE IF \E h \in Doing(k) : at[h] # "serving" THEN "decided" ELSE "running"]

Outcome ==
  [k \in Keys |->
     IF items[k] = NoItem THEN NoAnswer
     ELSE IF items[k].answer # NoAnswer THEN items[k].answer.result
     ELSE IF \E h \in Doing(k) : at[h] = "decided"
       THEN answer[CHOOSE h \in Doing(k) : at[h] = "decided"].result
     ELSE IF \E h \in Doing(k) : at[h] = "panicking" THEN "failed"
     ELSE NoAnswer]

Once == INSTANCE OncePerKey WITH NoResult <- NoAnswer, stage <- Stage, outcome <- Outcome

\* A request is carried out once for as long as its answer is remembered, and that
\* answer never changes.  (contracts/openapi.yaml:530; idempotencyMiddleware.)
ImplementsOnce == Once!Spec

Failing(k) == \E h \in Doing(k) : at[h] # "serving" /\ ~Keeps(h)

\* Nobody waits for ever: every request is answered or cancelled, unless one after
\* the other of those that carry out its key fails and others are quicker to try
\* again.  (wait, and the loop that begins again after an abort.)
RequestsEnd ==
  \A h \in Handlers, k \in Keys :
    []<>(at[h] = "idle" \/ asks[h].key # k) \/ []<>Failing(k)

=============================================================================
