------------------------- MODULE Idempotency_proofs -------------------------
(***************************************************************************)
(* For any handlers, keys, bodies and capacity: the entries of the cache,  *)
(* their owners and those who wait for them fit together (CacheInv), and   *)
(* what a client sees of a key is what OncePerKey promises.                *)
(***************************************************************************)
EXTENDS Idempotency, FiniteSetTheorems, TLAPS

\* An owner's entry is its own: nobody else carries its key out.  (begin hands an
\* entry to one handler, and only that one closes it.)
LEMMA OwnerIsUnique ==
  ASSUME CacheInv, NEW g \in Handlers, NEW h \in Handlers,
         Owner(g), Owner(h), asks[g].key = asks[h].key
  PROVE  g = h
BY DEF CacheInv, OwnersHoldOpenItems, HoldsItem

\* cleanupLocked keeps what is open and what it keeps it leaves alone.
LEMMA CleanedFacts ==
  ASSUME CacheInv
  PROVE  /\ Cleaned \in [Keys -> Items \union {NoItem}]
         /\ \A k \in Keys : Cleaned[k] # NoItem => Cleaned[k] = items[k]
         /\ \A k \in Keys : items[k] # NoItem /\ items[k].answer = NoAnswer => Cleaned[k] = items[k]
         /\ IsFiniteSet(InUse(Cleaned)) /\ Cardinality(InUse(Cleaned)) <= MaxItems
<1>1. Cleaned \in [Keys -> Items \union {NoItem}]
  BY DEF CacheInv, TypeOK, Cleaned
<1>2. \A k \in Keys : Cleaned[k] # NoItem => Cleaned[k] = items[k]
  BY DEF Cleaned
<1>3. \A k \in Keys : items[k] # NoItem /\ items[k].answer = NoAnswer => Cleaned[k] = items[k]
  BY DEF Cleaned, Stale, Answered
<1>4. InUse(Cleaned) \subseteq InUse(items)
  BY <1>2 DEF InUse, Cleaned
<1>5. IsFiniteSet(InUse(Cleaned)) /\ Cardinality(InUse(Cleaned)) <= MaxItems
  <2>1. /\ IsFiniteSet(InUse(Cleaned))
        /\ Cardinality(InUse(Cleaned)) <= Cardinality(InUse(items))
    BY <1>4, FS_Subset DEF CacheInv, WithinCapacity
  <2>2. Cardinality(InUse(items)) \in Nat /\ Cardinality(InUse(Cleaned)) \in Nat
    BY <2>1, FS_CardinalityType DEF CacheInv, WithinCapacity
  <2> QED BY <2>1, <2>2, CacheAssumption DEF CacheInv, WithinCapacity
<1> QED BY <1>1, <1>2, <1>3, <1>5

\* What an Answer and an Item consist of.
LEMMA ItemFields ==
  /\ \A item \in Items : /\ item.owner \in Handlers /\ item.body \in Bodies
                         /\ item.answer \in Answers \union {NoAnswer} /\ item.expired \in BOOLEAN
                         /\ item # NoItem
  /\ \A a \in Answers : a.to \in Requests /\ a.result \in Results /\ a # NoAnswer
  /\ \A r \in Requests : r.key \in Keys /\ r.body \in Bodies /\ r = [key |-> r.key, body |-> r.body]
BY CacheAssumption DEF Items, Answers, Requests

-----------------------------------------------------------------------------
(* Steps that touch nothing but one handler *)

LEMMA InitHolds == Init => CacheInv
<1> SUFFICES ASSUME Init PROVE CacheInv
  OBVIOUS
<1>1. InUse(items) = {} /\ IsFiniteSet({}) /\ Cardinality({}) = 0
  BY FS_EmptySet DEF Init, InUse
<1>2. WithinCapacity
  BY <1>1, CacheAssumption DEF WithinCapacity
<1>3. TypeOK /\ OwnersHoldOpenItems /\ WaitersAwaitOwners /\ AnswersFit
  BY DEF Init, TypeOK, OwnersHoldOpenItems, WaitersAwaitOwners, AnswersFit, Owner, Answered
<1> QED BY <1>2, <1>3 DEF CacheInv

\* Which entries are in use depends on the entries alone.
LEMMA SameItems ==
  ASSUME CacheInv, items' = items
  PROVE  WithinCapacity'
BY DEF CacheInv, WithinCapacity, InUse

LEMMA ArriveStep ==
  ASSUME CacheInv, NEW h \in Handlers, Arrive(h)
  PROVE  CacheInv'
<1>1. /\ at' = [at EXCEPT ![h] = "begin"] /\ at[h] = "idle" /\ asks' \in [Handlers -> Requests]
      /\ \A g \in Handlers : g # h => asks'[g] = asks[g]
      /\ items' = items /\ awaits' = awaits /\ answer' = answer
  BY DEF Arrive, CacheInv, TypeOK
<1>2. TypeOK'
  BY <1>1 DEF CacheInv, TypeOK
<1>3. OwnersHoldOpenItems'
  BY <1>1, ItemFields DEF CacheInv, TypeOK, OwnersHoldOpenItems, HoldsItem, Owner
<1>4. WaitersAwaitOwners'
  BY <1>1 DEF CacheInv, TypeOK, WaitersAwaitOwners, Owner
<1>5. AnswersFit'
  BY <1>1 DEF CacheInv, TypeOK, AnswersFit, Answered
<1> QED BY <1>1, <1>2, <1>3, <1>4, <1>5, SameItems DEF CacheInv

LEMMA CancelStep ==
  ASSUME CacheInv, NEW h \in Handlers, Cancel(h)
  PROVE  CacheInv'
<1> USE DEF CacheInv, Cancel, TypeOK
<1>1. TypeOK'
  OBVIOUS
<1>2. OwnersHoldOpenItems'
  BY ItemFields DEF OwnersHoldOpenItems, HoldsItem, Owner
<1>3. WaitersAwaitOwners'
  BY DEF WaitersAwaitOwners, Owner
<1>4. AnswersFit'
  BY DEF AnswersFit, Answered
<1> QED BY <1>1, <1>2, <1>3, <1>4, SameItems

LEMMA WakeStep ==
  ASSUME CacheInv, NEW h \in Handlers, Wake(h)
  PROVE  CacheInv'
<1> USE DEF CacheInv, Wake, TypeOK
<1>1. TypeOK'
  OBVIOUS
<1>2. OwnersHoldOpenItems'
  BY ItemFields DEF OwnersHoldOpenItems, HoldsItem, Owner
<1>3. WaitersAwaitOwners'
  BY DEF WaitersAwaitOwners, Owner
<1>4. AnswersFit'
  BY DEF AnswersFit, Answered
<1> QED BY <1>1, <1>2, <1>3, <1>4, SameItems

LEMMA ServeStep ==
  ASSUME CacheInv, NEW h \in Handlers, Serve(h)
  PROVE  CacheInv'
<1>1. /\ items' = items /\ asks' = asks /\ awaits' = awaits /\ at[h] = "serving"
      /\ \E to \in {"decided", "panicking"} : at' = [at EXCEPT ![h] = to]
      /\ \A g \in Handlers : Owner(g)' <=> Owner(g)
  BY DEF Serve, CacheInv, TypeOK, Owner
<1>2. \/ \E result \in Results :
           /\ at' = [at EXCEPT ![h] = "decided"]
           /\ answer' = [answer EXCEPT ![h] = [to |-> asks[h], result |-> result]]
      \/ at' = [at EXCEPT ![h] = "panicking"] /\ answer' = answer
  BY DEF Serve
<1>3. TypeOK'
  BY <1>1, <1>2 DEF CacheInv, TypeOK, Answers
<1>4. OwnersHoldOpenItems'
  BY <1>1 DEF CacheInv, OwnersHoldOpenItems, HoldsItem, TypeOK, Items
<1>5. WaitersAwaitOwners'
  BY <1>1 DEF CacheInv, TypeOK, WaitersAwaitOwners
<1>6. AnswersFit'
  <2>1. answer[h] = NoAnswer
    BY <1>1 DEF CacheInv, AnswersFit
  <2> QED BY <1>1, <1>2, <2>1, ItemFields DEF CacheInv, TypeOK, AnswersFit, Answered, Answers
<1> QED BY <1>1, <1>3, <1>4, <1>5, <1>6, SameItems DEF CacheInv

-----------------------------------------------------------------------------
(* begin *)

\* After a cleanup that makes no entry, with the handlers' places as they may be.
LEMMA AfterCleanup ==
  ASSUME CacheInv, items' = Cleaned
  PROVE  /\ WithinCapacity'
         /\ \A k \in Keys : items'[k] # NoItem => items'[k] = items[k]
         /\ \A g \in Handlers : HoldsItem(g) /\ asks'[g] = asks[g] =>
              HoldsItem(g)' /\ items'[asks[g].key] = items[asks[g].key]
<1>1. WithinCapacity'
  BY CleanedFacts DEF WithinCapacity, InUse
<1>2. \A g \in Handlers : HoldsItem(g) /\ asks'[g] = asks[g] =>
        HoldsItem(g)' /\ items'[asks[g].key] = items[asks[g].key]
  BY CleanedFacts, ItemFields DEF CacheInv, TypeOK, HoldsItem
<1> QED BY <1>1, <1>2, CleanedFacts

\* A handler that begins and is turned away.
LEMMA TurnedAway ==
  ASSUME CacheInv, NEW h \in Handlers, at[h] = "begin", items' = Cleaned,
         at' = [at EXCEPT ![h] = "idle"], UNCHANGED <<asks, awaits, answer>>
  PROVE  CacheInv'
<1>1. TypeOK'
  BY CleanedFacts DEF CacheInv, TypeOK
<1>2. \A g \in Handlers : Owner(g)' <=> Owner(g)
  BY DEF CacheInv, TypeOK, Owner
<1>3. OwnersHoldOpenItems'
  BY <1>2, AfterCleanup, ItemFields DEF CacheInv, TypeOK, OwnersHoldOpenItems
<1>4. WaitersAwaitOwners'
  BY <1>2 DEF CacheInv, TypeOK, WaitersAwaitOwners
<1>5. AnswersFit'
  BY AfterCleanup DEF CacheInv, TypeOK, AnswersFit, Answered
<1> QED BY <1>1, <1>3, <1>4, <1>5, AfterCleanup DEF CacheInv

LEMMA JoinStep ==
  ASSUME CacheInv, NEW h \in Handlers, at[h] = "begin", Join(h)
  PROVE  CacheInv'
<1> DEFINE k == asks[h].key
           item == Cleaned[k]
<1>1. /\ k \in Keys /\ asks[h].body \in Bodies /\ asks[h] = [key |-> k, body |-> item.body]
      /\ item # NoItem /\ item = items[k] /\ item \in Items /\ item.body = asks[h].body
      /\ items' = Cleaned /\ asks' = asks
  BY CleanedFacts, ItemFields DEF Join, CacheInv, TypeOK
<1>2. CASE item.answer = NoAnswer
  <2>1. /\ at' = [at EXCEPT ![h] = "waiting"] /\ answer' = answer
        /\ awaits' = [awaits EXCEPT ![h] = item.owner]
    BY <1>1, <1>2 DEF Join
  <2>2. TypeOK'
    BY <1>1, <2>1, CleanedFacts, ItemFields DEF CacheInv, TypeOK
  <2>3. \A g \in Handlers : Owner(g)' <=> Owner(g)
    BY <2>1 DEF CacheInv, TypeOK, Owner
  <2>4. OwnersHoldOpenItems'
    BY <1>1, <2>3, AfterCleanup, ItemFields DEF CacheInv, TypeOK, OwnersHoldOpenItems
  <2>5. /\ item.owner \in Handlers /\ Owner(item.owner) /\ asks[item.owner] = asks[h]
    BY <1>1, <1>2, ItemFields DEF CacheInv, TypeOK, OwnersHoldOpenItems
  <2>6. WaitersAwaitOwners'
    BY <1>1, <2>1, <2>3, <2>5 DEF CacheInv, TypeOK, WaitersAwaitOwners
  <2>7. AnswersFit'
    BY <1>1, <2>1, AfterCleanup DEF CacheInv, TypeOK, AnswersFit, Answered
  <2> QED BY <1>1, <2>2, <2>4, <2>6, <2>7, AfterCleanup DEF CacheInv
<1>3. CASE item.answer # NoAnswer
  <2>1. /\ at' = [at EXCEPT ![h] = "woken"] /\ awaits' = awaits
        /\ answer' = [answer EXCEPT ![h] = item.answer]
    BY <1>1, <1>3 DEF Join
  <2>2. TypeOK'
    BY <1>1, <2>1, CleanedFacts, ItemFields DEF CacheInv, TypeOK
  <2>3. \A g \in Handlers : Owner(g)' <=> Owner(g)
    BY <2>1 DEF CacheInv, TypeOK, Owner
  <2>4. OwnersHoldOpenItems'
    BY <1>1, <2>3, AfterCleanup, ItemFields DEF CacheInv, TypeOK, OwnersHoldOpenItems
  <2>5. WaitersAwaitOwners'
    BY <1>1, <2>1, <2>3 DEF CacheInv, TypeOK, WaitersAwaitOwners
  <2>6. item.answer.to = asks[h] /\ item.answer.result \in Kept
    BY <1>1, <1>3 DEF CacheInv, AnswersFit, Answered
  <2>7. AnswersFit'
    BY <1>1, <2>1, <2>6, AfterCleanup DEF CacheInv, TypeOK, AnswersFit, Answered
  <2> QED BY <1>1, <2>2, <2>4, <2>5, <2>7, AfterCleanup DEF CacheInv
<1> QED BY <1>2, <1>3

LEMMA OwnStep ==
  ASSUME CacheInv, NEW h \in Handlers, at[h] = "begin", Own(h)
  PROVE  CacheInv'
<1> DEFINE k == asks[h].key
           new == [owner |-> h, body |-> asks[h].body, answer |-> NoAnswer, expired |-> FALSE]
<1>1. /\ k \in Keys /\ asks[h].body \in Bodies /\ new \in Items /\ new # NoItem
      /\ Cleaned[k] = NoItem /\ asks' = asks /\ awaits' = awaits /\ answer' = answer
      /\ items' = [Cleaned EXCEPT ![k] = new] /\ at' = [at EXCEPT ![h] = "serving"]
  BY ItemFields DEF Own, CacheInv, TypeOK, Items
<1>2. /\ items'[k] = new
      /\ \A i \in Keys : i # k => items'[i] = Cleaned[i]
  BY <1>1, CleanedFacts
<1>3. TypeOK'
  BY <1>1, CleanedFacts DEF CacheInv, TypeOK
<1>4. \A g \in Handlers : Owner(g)' <=> Owner(g) \/ g = h
  BY <1>1 DEF CacheInv, TypeOK, Owner
<1>5. \A g \in Handlers : Owner(g) =>
        /\ g # h /\ asks[g].key # k /\ asks[g].key \in Keys
        /\ items'[asks[g].key] = items[asks[g].key]
  BY <1>1, <1>2, CleanedFacts, ItemFields DEF CacheInv, TypeOK, OwnersHoldOpenItems, HoldsItem, Owner
<1>6. OwnersHoldOpenItems'
  <2>1. \A g \in Handlers : Owner(g)' => HoldsItem(g)' /\ items'[asks'[g].key].body = asks'[g].body
    BY <1>1, <1>2, <1>4, <1>5 DEF CacheInv, OwnersHoldOpenItems, HoldsItem
  <2>2. ASSUME NEW i \in Keys, items'[i] # NoItem, items'[i].answer = NoAnswer
        PROVE  ~items'[i].expired /\ Owner(items[i].owner)' /\ asks'[items'[i].owner].key = i
    <3>1. CASE i = k
      BY <1>1, <1>2, <1>4, <3>1
    <3>2. CASE i # k
      <4>1. items'[i] = items[i] /\ items[i] \in Items
        BY <1>2, <2>2, <3>2, CleanedFacts DEF CacheInv, TypeOK
      <4>2. /\ items[i].owner \in Handlers /\ Owner(items[i].owner) /\ asks[items[i].owner].key = i
            /\ ~items[i].expired
        BY <2>2, <4>1, ItemFields DEF CacheInv, OwnersHoldOpenItems
      <4> QED BY <1>1, <1>4, <4>1, <4>2
    <3> QED BY <3>1, <3>2
  <2> QED BY <2>1, <2>2 DEF OwnersHoldOpenItems
<1>7. WaitersAwaitOwners'
  BY <1>1, <1>4 DEF CacheInv, TypeOK, WaitersAwaitOwners
<1>8. AnswersFit'
  BY <1>1, <1>2, CleanedFacts DEF CacheInv, TypeOK, AnswersFit, Answered
<1>9. WithinCapacity'
  <2>1. InUse(items') = InUse(Cleaned) \union {k} /\ k \notin InUse(Cleaned)
    BY <1>1, <1>2 DEF InUse
  <2>2. IsFiniteSet(InUse(items')) /\ Cardinality(InUse(items')) = Cardinality(InUse(Cleaned)) + 1
    BY <2>1, CleanedFacts, FS_AddElement
  <2>3. Cardinality(InUse(Cleaned)) \in Nat /\ Cardinality(InUse(Cleaned)) < MaxItems
    BY CleanedFacts, FS_CardinalityType DEF Own
  <2> QED BY <2>2, <2>3, CacheAssumption DEF WithinCapacity, InUse
<1> QED BY <1>3, <1>6, <1>7, <1>8, <1>9 DEF CacheInv

-----------------------------------------------------------------------------
(* The end of an owner, time, restarts *)

\* An owner closes its own entry; those who wait for it are those of its key.
LEMMA CloseStep ==
  ASSUME CacheInv, NEW h \in Handlers, Owner(h), NEW item, NEW result,
         items' = [items EXCEPT ![asks[h].key] = item], Closes(h, result), asks' = asks,
         \/ item = NoItem /\ result = NoAnswer
         \/ /\ item \in Items /\ result = item.answer
            /\ result \in Answers /\ result.result \in Kept
            /\ result.to = asks[h] /\ item.body = asks[h].body
  PROVE  CacheInv'
<1> DEFINE k == asks[h].key
           waiters == {w \in Handlers : at[w] = "waiting" /\ awaits[w] = h}
<1>1. /\ k \in Keys /\ HoldsItem(h) /\ asks[h] \in Requests
      /\ items'[k] = item /\ \A i \in Keys : i # k => items'[i] = items[i]
  BY ItemFields DEF CacheInv, TypeOK, OwnersHoldOpenItems
<1>2. /\ at' = [w \in Handlers |-> IF w = h THEN "idle" ELSE IF w \in waiters THEN "woken" ELSE at[w]]
      /\ answer' = [w \in Handlers |-> IF w = h THEN NoAnswer
                                       ELSE IF w \in waiters THEN result ELSE answer[w]]
      /\ awaits' = [w \in Handlers |-> IF w \in waiters THEN NoHandler ELSE awaits[w]]
  BY DEF Closes
<1>3. TypeOK'
  BY <1>1, <1>2 DEF CacheInv, TypeOK
<1>4. \A g \in Handlers : Owner(g)' <=> Owner(g) /\ g # h
  BY <1>2 DEF CacheInv, TypeOK, Owner
<1>5. \A g \in Handlers : Owner(g) /\ g # h => asks[g].key # k /\ asks[g].key \in Keys
  BY OwnerIsUnique, ItemFields DEF CacheInv, TypeOK
<1>6. OwnersHoldOpenItems'
  <2>1. \A g \in Handlers : Owner(g)' => HoldsItem(g)' /\ items'[asks'[g].key].body = asks'[g].body
    BY <1>1, <1>4, <1>5 DEF CacheInv, OwnersHoldOpenItems, HoldsItem
  <2>2. ASSUME NEW i \in Keys, items'[i] # NoItem, items'[i].answer = NoAnswer
        PROVE  ~items'[i].expired /\ Owner(items[i].owner)' /\ asks'[items'[i].owner].key = i
    <3>1. i # k /\ items'[i] = items[i]
      BY <1>1, <2>2, ItemFields
    <3>2. /\ items[i].owner \in Handlers /\ Owner(items[i].owner) /\ asks[items[i].owner].key = i
          /\ ~items[i].expired
      BY <2>2, <3>1, ItemFields DEF CacheInv, TypeOK, OwnersHoldOpenItems
    <3>3. items[i].owner # h
      BY <3>1, <3>2
    <3> QED BY <3>1, <3>2, <3>3, <1>4
  <2> QED BY <2>1, <2>2 DEF OwnersHoldOpenItems
<1>7. WaitersAwaitOwners'
  BY <1>2, <1>4 DEF CacheInv, WaitersAwaitOwners
<1>8. AnswersFit'
  <2>1. \A w \in waiters : asks[w] = asks[h] /\ w # h
    BY DEF CacheInv, WaitersAwaitOwners, Owner
  <2>2. \A i \in Keys : Answered(items'[i]) =>
          items'[i].answer.to = [key |-> i, body |-> items'[i].body] /\ items'[i].answer.result \in Kept
    BY <1>1, ItemFields DEF CacheInv, AnswersFit, Answered
  <2>3. \A w \in Handlers : answer'[w] # NoAnswer =>
          /\ answer'[w].to = asks'[w]
          /\ at'[w] \in {"decided", "woken"}
          /\ at'[w] = "woken" => answer'[w].result \in Kept
    BY <1>2, <2>1 DEF CacheInv, AnswersFit
  <2>4. \A w \in Handlers : at'[w] = "decided" => answer'[w] # NoAnswer
    BY <1>2 DEF CacheInv, AnswersFit
  <2> QED BY <2>2, <2>3, <2>4 DEF AnswersFit
<1>9. WithinCapacity'
  <2>1. InUse(items') \subseteq InUse(items)
    BY <1>1 DEF InUse, HoldsItem
  <2>2. /\ IsFiniteSet(InUse(items')) /\ Cardinality(InUse(items')) <= Cardinality(InUse(items))
    BY <2>1, FS_Subset DEF CacheInv, WithinCapacity
  <2>3. Cardinality(InUse(items')) \in Nat /\ Cardinality(InUse(items)) \in Nat
    BY <2>2, FS_CardinalityType DEF CacheInv, WithinCapacity
  <2> QED BY <2>2, <2>3, CacheAssumption DEF CacheInv, WithinCapacity, InUse
<1> QED BY <1>3, <1>6, <1>7, <1>8, <1>9 DEF CacheInv

\* What a commit and an abort do, given that the owner holds its entry.
LEMMA CommitCloses ==
  ASSUME CacheInv, NEW h \in Handlers, Commit(h)
  PROVE  /\ Owner(h) /\ at[h] = "decided" /\ answer[h] \in Answers /\ answer[h].result \in Kept
         /\ items' = [items EXCEPT ![asks[h].key] = [items[asks[h].key] EXCEPT !.answer = answer[h]]]
         /\ Closes(h, answer[h]) /\ asks' = asks
<1>1. Owner(h) /\ at[h] = "decided" /\ answer[h].result \in Kept
  BY DEF Commit, Keeps, Owner
<1>2. HoldsItem(h) /\ answer[h] \in Answers
  BY <1>1 DEF CacheInv, TypeOK, OwnersHoldOpenItems, AnswersFit
<1> QED BY <1>1, <1>2 DEF Commit

LEMMA AbortCloses ==
  ASSUME CacheInv, NEW h \in Handlers, Abort(h)
  PROVE  /\ Owner(h) /\ at[h] \in {"decided", "panicking"} /\ ~Keeps(h)
         /\ items' = [items EXCEPT ![asks[h].key] = NoItem]
         /\ Closes(h, NoAnswer) /\ asks' = asks
<1>1. Owner(h) /\ at[h] \in {"decided", "panicking"} /\ ~Keeps(h)
  BY DEF Abort, Owner
<1>2. HoldsItem(h)
  BY <1>1 DEF CacheInv, OwnersHoldOpenItems
<1> QED BY <1>1, <1>2 DEF Abort

LEMMA CommitStep ==
  ASSUME CacheInv, NEW h \in Handlers, Commit(h)
  PROVE  CacheInv'
<1> DEFINE item == [items[asks[h].key] EXCEPT !.answer = answer[h]]
<1>1. asks[h].key \in Keys /\ items[asks[h].key] \in Items /\ items[asks[h].key].body = asks[h].body
  <2>1. Owner(h) /\ asks[h].key \in Keys
    BY CommitCloses, ItemFields DEF CacheInv, TypeOK
  <2> QED BY <2>1 DEF CacheInv, TypeOK, OwnersHoldOpenItems, HoldsItem
<1>2. item \in Items /\ item.answer = answer[h] /\ item.body = asks[h].body
  BY <1>1, CommitCloses DEF Items
<1>3. answer[h].to = asks[h]
  BY CommitCloses, CacheAssumption DEF CacheInv, AnswersFit
<1> QED BY <1>2, <1>3, CommitCloses, CloseStep

LEMMA AbortStep ==
  ASSUME CacheInv, NEW h \in Handlers, Abort(h)
  PROVE  CacheInv'
BY AbortCloses, CloseStep

LEMMA ExpireStep ==
  ASSUME CacheInv, NEW k \in Keys, Expire(k)
  PROVE  CacheInv'
<1>1. /\ items[k] \in Items /\ items[k].answer # NoAnswer
      /\ items' = [items EXCEPT ![k] = [items[k] EXCEPT !.expired = TRUE]]
      /\ at' = at /\ asks' = asks /\ awaits' = awaits /\ answer' = answer
  BY DEF Expire, Answered, CacheInv, TypeOK
<1>2. /\ items'[k] \in Items /\ items'[k].answer = items[k].answer /\ items'[k].body = items[k].body
      /\ items'[k] # NoItem /\ items[k] # NoItem
      /\ \A i \in Keys : i # k => items'[i] = items[i]
  BY <1>1, ItemFields DEF CacheInv, TypeOK, Items
<1>3. TypeOK'
  BY <1>1, <1>2 DEF CacheInv, TypeOK
<1>4. OwnersHoldOpenItems'
  BY <1>1, <1>2, ItemFields DEF CacheInv, TypeOK, OwnersHoldOpenItems, HoldsItem, Owner
<1>5. WaitersAwaitOwners'
  BY <1>1 DEF CacheInv, WaitersAwaitOwners, Owner
<1>6. AnswersFit'
  BY <1>1, <1>2 DEF CacheInv, AnswersFit, Answered
<1>7. InUse(items') = InUse(items)
  BY <1>2 DEF InUse
<1>8. WithinCapacity'
  BY <1>7 DEF CacheInv, WithinCapacity, InUse
<1> QED BY <1>3, <1>4, <1>5, <1>6, <1>8 DEF CacheInv

LEMMA RestartStep ==
  ASSUME CacheInv, Restart
  PROVE  CacheInv'
<1>1. InUse(items') = {} /\ IsFiniteSet({}) /\ Cardinality({}) = 0
  BY FS_EmptySet DEF Restart, InUse
<1>2. WithinCapacity'
  BY <1>1, CacheAssumption DEF WithinCapacity, InUse
<1>3. TypeOK' /\ OwnersHoldOpenItems' /\ WaitersAwaitOwners' /\ AnswersFit'
  BY DEF Restart, CacheInv, TypeOK, OwnersHoldOpenItems, WaitersAwaitOwners, AnswersFit, Owner, Answered
<1> QED BY <1>2, <1>3 DEF CacheInv

LEMMA StutterStep ==
  ASSUME CacheInv, UNCHANGED vars
  PROVE  CacheInv'
BY DEF vars, CacheInv, TypeOK, OwnersHoldOpenItems, WaitersAwaitOwners, AnswersFit,
       WithinCapacity, Owner, HoldsItem, Answered, InUse

LEMMA BeginStep ==
  ASSUME CacheInv, NEW h \in Handlers, Begin(h)
  PROVE  CacheInv'
<1>1. at[h] = "begin"
  BY DEF Begin
<1>2. CASE Conflict(h)
  BY <1>1, <1>2, TurnedAway DEF Conflict
<1>3. CASE Join(h)
  BY <1>1, <1>3, JoinStep
<1>4. CASE Full(h)
  BY <1>1, <1>4, TurnedAway DEF Full
<1>5. CASE Own(h)
  BY <1>1, <1>5, OwnStep
<1> QED BY <1>2, <1>3, <1>4, <1>5 DEF Begin

LEMMA StepKeepsInv ==
  ASSUME CacheInv, [Next]_vars
  PROVE  CacheInv'
<1>1. ASSUME NEW h \in Handlers, Arrive(h) \/ Cancel(h) \/ Proceed(h) PROVE CacheInv'
  BY <1>1, ArriveStep, CancelStep, BeginStep, ServeStep, CommitStep, AbortStep, WakeStep DEF Proceed
<1> QED BY <1>1, ExpireStep, RestartStep, StutterStep DEF Next

\* The cache, the owners and those who wait fit together in every reachable state:
\* no owner misses its entry, no entry is left open without an owner, no answer
\* reaches a request it does not belong to.  (idempotency.go, begin to abort.)
THEOREM CacheStaysCoherent == Spec => []CacheInv
<1>1. Init => CacheInv
  BY InitHolds
<1>2. CacheInv /\ [Next]_vars => CacheInv'
  BY StepKeepsInv
<1> QED BY <1>1, <1>2, PTL DEF Spec

-----------------------------------------------------------------------------
(* The refinement *)

\* What the mapping shows of a key, by the state of its entry.
MapFacts ==
  /\ Stage = [k \in Keys |-> Stage[k]] /\ Outcome = [k \in Keys |-> Outcome[k]]
  /\ \A k \in Keys : items[k] = NoItem => Stage[k] = "fresh" /\ Outcome[k] = NoAnswer
  /\ \A k \in Keys : Answered(items[k]) =>
       /\ Stage[k] = (IF items[k].expired THEN "due" ELSE "remembered")
       /\ Outcome[k] = items[k].answer.result
  /\ \A k \in Keys : items[k] # NoItem /\ items[k].answer = NoAnswer =>
       /\ Stage[k] = (IF at[items[k].owner] = "serving" THEN "running" ELSE "decided")
       /\ Outcome[k] = (IF at[items[k].owner] = "decided" THEN answer[items[k].owner].result
                        ELSE IF at[items[k].owner] = "panicking" THEN "failed" ELSE NoAnswer)

\* An open entry's key is carried out by its owner alone.
LEMMA OneDoes ==
  ASSUME CacheInv, NEW k \in Keys, items[k] # NoItem, items[k].answer = NoAnswer
  PROVE  items[k].owner \in Handlers /\ Doing(k) = {items[k].owner}
<1>1. items[k].owner \in Handlers /\ Owner(items[k].owner) /\ asks[items[k].owner].key = k
  BY ItemFields DEF CacheInv, TypeOK, OwnersHoldOpenItems
<1> QED BY <1>1, OwnerIsUnique DEF Doing

LEMMA Mapped == CacheInv => MapFacts
<1> SUFFICES ASSUME CacheInv PROVE MapFacts
  OBVIOUS
<1>1. Stage = [k \in Keys |-> Stage[k]] /\ Outcome = [k \in Keys |-> Outcome[k]]
  BY Zenon DEF Stage, Outcome
<1>2. ASSUME NEW k \in Keys, items[k] = NoItem
      PROVE  Stage[k] = "fresh" /\ Outcome[k] = NoAnswer
  BY <1>2 DEF Stage, Outcome
<1>3. ASSUME NEW k \in Keys, Answered(items[k])
      PROVE  /\ Stage[k] = (IF items[k].expired THEN "due" ELSE "remembered")
             /\ Outcome[k] = items[k].answer.result
  BY <1>3 DEF Stage, Outcome, Answered
<1>4. ASSUME NEW k \in Keys, items[k] # NoItem, items[k].answer = NoAnswer
      PROVE  /\ Stage[k] = (IF at[items[k].owner] = "serving" THEN "running" ELSE "decided")
             /\ Outcome[k] = (IF at[items[k].owner] = "decided" THEN answer[items[k].owner].result
                              ELSE IF at[items[k].owner] = "panicking" THEN "failed" ELSE NoAnswer)
  <2> DEFINE o == items[k].owner
  <2>1. Doing(k) = {o}
    BY <1>4, OneDoes
  <2>2. (\E h \in Doing(k) : at[h] # "serving") <=> at[o] # "serving"
    BY <2>1
  <2>3. (\E h \in Doing(k) : at[h] = "decided") <=> at[o] = "decided"
    BY <2>1
  <2>4. (\E h \in Doing(k) : at[h] = "panicking") <=> at[o] = "panicking"
    BY <2>1
  <2>5. at[o] = "decided" => (CHOOSE h \in Doing(k) : at[h] = "decided") = o
    BY <2>1
  <2>6. Stage[k] = (IF at[o] = "serving" THEN "running" ELSE "decided")
    BY <1>4, <2>2 DEF Stage
  <2>7. Outcome[k] = (IF at[o] = "decided" THEN answer[o].result
                      ELSE IF at[o] = "panicking" THEN "failed" ELSE NoAnswer)
    BY <1>4, <2>3, <2>4, <2>5 DEF Outcome
  <2> QED BY <2>6, <2>7
<1> QED BY <1>1, <1>2, <1>3, <1>4 DEF MapFacts

LEMMA MappedNext == CacheInv' => MapFacts'
BY Mapped, PTL

\* A step is nothing to a key whose entry, and its owner, it leaves alone.
LEMMA SameKey ==
  ASSUME CacheInv, CacheInv', NEW k \in Keys, items'[k] = items[k],
         \A h \in Handlers : Owner(h) /\ asks[h].key = k => at'[h] = at[h] /\ answer'[h] = answer[h]
  PROVE  Stage'[k] = Stage[k] /\ Outcome'[k] = Outcome[k]
<1>1. MapFacts /\ MapFacts'
  BY Mapped, MappedNext
<1>2. CASE items[k] = NoItem
  BY <1>1, <1>2 DEF MapFacts
<1>3. CASE Answered(items[k])
  BY <1>1, <1>3 DEF MapFacts, Answered
<1>4. CASE items[k] # NoItem /\ items[k].answer = NoAnswer
  <2>1. /\ at'[items[k].owner] = at[items[k].owner]
        /\ answer'[items[k].owner] = answer[items[k].owner]
    BY <1>4, OneDoes, ItemFields DEF CacheInv, TypeOK, OwnersHoldOpenItems
  <2> QED BY <1>1, <1>4, <2>1 DEF MapFacts
<1> QED BY <1>2, <1>3, <1>4 DEF Answered

\* ... and nothing at all when it leaves them all alone.
LEMMA SameKeys ==
  ASSUME CacheInv, CacheInv', items' = items,
         \A h \in Handlers : Owner(h) => at'[h] = at[h] /\ answer'[h] = answer[h]
  PROVE  UNCHANGED <<Stage, Outcome>>
<1>1. \A k \in Keys : Stage'[k] = Stage[k] /\ Outcome'[k] = Outcome[k]
  BY SameKey
<1>2. /\ Stage = [k \in Keys |-> Stage[k]] /\ Outcome = [k \in Keys |-> Outcome[k]]
      /\ Stage' = [k \in Keys |-> Stage'[k]] /\ Outcome' = [k \in Keys |-> Outcome'[k]]
  BY Mapped, MappedNext DEF MapFacts
<1>3. /\ [k \in Keys |-> Stage'[k]] = [k \in Keys |-> Stage[k]]
      /\ [k \in Keys |-> Outcome'[k]] = [k \in Keys |-> Outcome[k]]
  BY <1>1
<1> QED BY <1>2, <1>3

\* A cleanup forgets what is due, and nothing else.
LEMMA CleanedKey ==
  ASSUME CacheInv, CacheInv', NEW k \in Keys, items'[k] = Cleaned[k],
         \A h \in Handlers : Owner(h) => at'[h] = at[h] /\ answer'[h] = answer[h]
  PROVE  /\ Stage'[k] = (IF Stage[k] = "due" THEN "fresh" ELSE Stage[k])
         /\ Outcome'[k] = (IF Stage[k] = "due" THEN NoAnswer ELSE Outcome[k])
<1>1. MapFacts /\ MapFacts'
  BY Mapped, MappedNext
<1>2. CASE Stale(k)
  <2>1. items'[k] = NoItem
    BY <1>2 DEF Cleaned
  <2> QED BY <1>1, <1>2, <2>1 DEF MapFacts, Stale
<1>3. CASE ~Stale(k)
  <2>1. items'[k] = items[k]
    BY <1>3 DEF Cleaned
  <2>2. Stage[k] # "due"
    BY <1>1, <1>3, ItemFields DEF MapFacts, Stale, Answered, CacheInv, TypeOK
  <2>3. Stage'[k] = Stage[k] /\ Outcome'[k] = Outcome[k]
    BY <2>1, SameKey
  <2> QED BY <2>2, <2>3
<1> QED BY <1>2, <1>3

LEMMA CleanedOnly ==
  ASSUME CacheInv, CacheInv', items' = Cleaned,
         \A h \in Handlers : Owner(h) => at'[h] = at[h] /\ answer'[h] = answer[h]
  PROVE  Once!ForgetDue
<1>1. MapFacts /\ MapFacts'
  BY Mapped, MappedNext
<1>2. \A k \in Keys :
        /\ Stage'[k] = (IF Stage[k] = "due" THEN "fresh" ELSE Stage[k])
        /\ Outcome'[k] = (IF Stage[k] = "due" THEN NoAnswer ELSE Outcome[k])
  BY CleanedKey
<1> QED BY <1>1, <1>2, Zenon DEF MapFacts, Once!ForgetDue

LEMMA BeginMaps ==
  ASSUME CacheInv, CacheInv', NEW h \in Handlers, Begin(h)
  PROVE  Once!ForgetDue \/ Once!Take(asks[h].key)
<1>1. at[h] = "begin" /\ asks[h].key \in Keys
  BY ItemFields DEF Begin, CacheInv, TypeOK
<1>2. CASE Conflict(h) \/ Full(h)
  <2>1. /\ items' = Cleaned
        /\ \A g \in Handlers : Owner(g) => at'[g] = at[g] /\ answer'[g] = answer[g]
    BY <1>1, <1>2 DEF Conflict, Full, Owner, CacheInv, TypeOK
  <2> QED BY <2>1, CleanedOnly
<1>3. CASE Join(h)
  <2>1. /\ items' = Cleaned
        /\ \A g \in Handlers : Owner(g) => at'[g] = at[g] /\ answer'[g] = answer[g]
    BY <1>1, <1>3 DEF Join, Owner, CacheInv, TypeOK
  <2> QED BY <2>1, CleanedOnly
<1>4. CASE Own(h)
  <2> DEFINE k == asks[h].key
  <2>1. /\ items'[k].owner = h /\ items'[k].answer = NoAnswer /\ Cleaned[k] = NoItem
        /\ \A i \in Keys : i # k => items'[i] = Cleaned[i]
        /\ at'[h] = "serving"
        /\ \A g \in Handlers : Owner(g) => at'[g] = at[g] /\ answer'[g] = answer[g]
    BY <1>1, <1>4, CleanedFacts DEF Own, Owner, CacheInv, TypeOK
  <2>2. MapFacts /\ MapFacts'
    BY Mapped, MappedNext
  <2>3. Stage[k] \in {"fresh", "due"}
    BY <1>1, <2>1, <2>2, ItemFields DEF MapFacts, Cleaned, Stale
  <2>4. items'[k] # NoItem
    <3>1. items'[k] \in Items
      BY <1>1, <1>4, CleanedFacts, ItemFields DEF Own, Items, CacheInv, TypeOK
    <3> QED BY <3>1, ItemFields
  <2>5. Stage'[k] = "running" /\ Outcome'[k] = NoAnswer
    BY <1>1, <2>1, <2>2, <2>4 DEF MapFacts
  <2>6. Outcome[k] = NoAnswer \/ Stage[k] = "due"
    BY <1>1, <2>1, <2>2, <2>3 DEF MapFacts, Cleaned, Stale
  <2>7. \A i \in Keys : i # k =>
          /\ Stage'[i] = (IF Stage[i] = "due" THEN "fresh" ELSE Stage[i])
          /\ Outcome'[i] = (IF Stage[i] = "due" THEN NoAnswer ELSE Outcome[i])
    BY <2>1, CleanedKey
  <2>8. \A i \in Keys :
          /\ Stage'[i] = (IF i = k THEN "running"
                          ELSE IF Stage[i] = "due" THEN "fresh" ELSE Stage[i])
          /\ Outcome'[i] = (IF Stage[i] = "due" THEN NoAnswer ELSE Outcome[i])
    BY <2>5, <2>6, <2>7
  <2>9. /\ Stage' = [i \in Keys |-> IF i = k THEN "running"
                                    ELSE IF Stage[i] = "due" THEN "fresh" ELSE Stage[i]]
        /\ Outcome' = [i \in Keys |-> IF Stage[i] = "due" THEN NoAnswer ELSE Outcome[i]]
    BY <2>2, <2>8, Zenon DEF MapFacts
  <2> QED BY <2>3, <2>9 DEF Once!Take
<1> QED BY <1>2, <1>3, <1>4 DEF Begin

\* A step that changes one key alone.
LEMMA OneKey ==
  ASSUME CacheInv, CacheInv', NEW k \in Keys,
         \A i \in Keys : i # k => Stage'[i] = Stage[i] /\ Outcome'[i] = Outcome[i]
  PROVE  /\ Stage' = [Stage EXCEPT ![k] = Stage'[k]]
         /\ Outcome' = [Outcome EXCEPT ![k] = Outcome'[k]]
<1>1. MapFacts /\ MapFacts'
  BY Mapped, MappedNext
<1>2. DOMAIN Stage = Keys /\ DOMAIN Outcome = Keys
  BY <1>1 DEF MapFacts
<1>3. /\ [Stage EXCEPT ![k] = Stage'[k]] = [i \in Keys |-> Stage'[i]]
      /\ [Outcome EXCEPT ![k] = Outcome'[k]] = [i \in Keys |-> Outcome'[i]]
  BY <1>1, <1>2 DEF MapFacts
<1> QED BY <1>1, <1>3 DEF MapFacts

LEMMA ServeMaps ==
  ASSUME CacheInv, CacheInv', NEW h \in Handlers, Serve(h)
  PROVE  Once!Decide(asks[h].key)
<1> DEFINE k == asks[h].key
<1>1. /\ at[h] = "serving" /\ Owner(h) /\ k \in Keys /\ items' = items
      /\ items[k] # NoItem /\ items[k].answer = NoAnswer /\ items[k].owner = h
  BY ItemFields DEF Serve, Owner, CacheInv, TypeOK, OwnersHoldOpenItems, HoldsItem
<1>2. \/ at'[h] = "panicking"
      \/ at'[h] = "decided" /\ answer'[h].result \in Results
  BY DEF Serve, CacheInv, TypeOK
<1>3. \A g \in Handlers : g # h => at'[g] = at[g] /\ answer'[g] = answer[g]
  BY DEF Serve, CacheInv, TypeOK
<1>4. MapFacts /\ MapFacts'
  BY Mapped, MappedNext
<1>5. Stage[k] = "running" /\ Stage'[k] = "decided"
  BY <1>1, <1>2, <1>4 DEF MapFacts
<1>6. Outcome'[k] \in Results
  BY <1>1, <1>2, <1>4 DEF MapFacts, Results
<1>7. \A i \in Keys : i # k => Stage'[i] = Stage[i] /\ Outcome'[i] = Outcome[i]
  BY <1>1, <1>3, SameKey
<1>8. /\ Stage' = [Stage EXCEPT ![k] = Stage'[k]]
      /\ Outcome' = [Outcome EXCEPT ![k] = Outcome'[k]]
  BY <1>1, <1>7, OneKey
<1> QED BY <1>5, <1>6, <1>8 DEF Once!Decide

\* An owner that closes its entry changes nobody else's key.
LEMMA ClosesOneKey ==
  ASSUME CacheInv, CacheInv', NEW h \in Handlers, Owner(h), NEW item, NEW result,
         items' = [items EXCEPT ![asks[h].key] = item], Closes(h, result)
  PROVE  /\ asks[h].key \in Keys /\ items'[asks[h].key] = item
         /\ Stage' = [Stage EXCEPT ![asks[h].key] = Stage'[asks[h].key]]
         /\ Outcome' = [Outcome EXCEPT ![asks[h].key] = Outcome'[asks[h].key]]
<1> DEFINE k == asks[h].key
<1>1. k \in Keys /\ items'[k] = item /\ \A i \in Keys : i # k => items'[i] = items[i]
  BY ItemFields DEF CacheInv, TypeOK
<1>2. \A g \in Handlers : Owner(g) /\ g # h => at'[g] = at[g] /\ answer'[g] = answer[g]
  BY DEF Closes, Owner
<1>3. \A i \in Keys : i # k => Stage'[i] = Stage[i] /\ Outcome'[i] = Outcome[i]
  BY <1>1, <1>2, SameKey
<1> QED BY <1>1, <1>3, OneKey

LEMMA CommitMaps ==
  ASSUME CacheInv, CacheInv', NEW h \in Handlers, Commit(h)
  PROVE  Once!Remember(asks[h].key)
<1> DEFINE k == asks[h].key
           item == [items[k] EXCEPT !.answer = answer[h]]
<1>1. /\ Owner(h) /\ at[h] = "decided" /\ answer[h] \in Answers /\ answer[h].result \in Kept
      /\ items' = [items EXCEPT ![k] = item] /\ Closes(h, answer[h])
  BY CommitCloses
<1>2. /\ k \in Keys /\ items'[k] = item
      /\ Stage' = [Stage EXCEPT ![k] = Stage'[k]] /\ Outcome' = [Outcome EXCEPT ![k] = Outcome'[k]]
  BY <1>1, ClosesOneKey
<1>3. items[k] \in Items /\ items[k].answer = NoAnswer /\ items[k].owner = h
  BY <1>1, <1>2 DEF CacheInv, TypeOK, OwnersHoldOpenItems, HoldsItem
<1>4. item \in Items /\ item.answer = answer[h] /\ item.expired = items[k].expired
  BY <1>1, <1>3 DEF Items
<1>5. ~items[k].expired
  BY <1>2, <1>3, ItemFields DEF CacheInv, OwnersHoldOpenItems
<1>6. MapFacts /\ MapFacts'
  BY Mapped, MappedNext
<1>7. Stage[k] = "decided" /\ Outcome[k] = answer[h].result
  BY <1>1, <1>2, <1>3, <1>6, ItemFields DEF MapFacts
<1>8. Stage'[k] = "remembered" /\ Outcome'[k] = answer[h].result
  <2>1. items'[k].answer = answer[h] /\ answer[h] # NoAnswer /\ Answered(items'[k]) /\ ~items'[k].expired
    BY <1>1, <1>2, <1>4, <1>5, ItemFields DEF Answered
  <2>2. k \in Keys
    BY <1>2
  <2> HIDE DEF item, k
  <2>3. Stage'[k] = "remembered" /\ Outcome'[k] = items'[k].answer.result
    BY <1>6, <2>1, <2>2 DEF MapFacts
  <2> QED BY <2>1, <2>3
<1>9. UNCHANGED Outcome
  BY <1>2, <1>6, <1>7, <1>8 DEF MapFacts
<1> QED BY <1>1, <1>2, <1>7, <1>8, <1>9 DEF Once!Remember

LEMMA AbortMaps ==
  ASSUME CacheInv, CacheInv', NEW h \in Handlers, Abort(h)
  PROVE  Once!GiveUp(asks[h].key)
<1> DEFINE k == asks[h].key
<1>1. /\ Owner(h) /\ at[h] \in {"decided", "panicking"} /\ ~Keeps(h)
      /\ items' = [items EXCEPT ![k] = NoItem] /\ Closes(h, NoAnswer)
  BY AbortCloses
<1>2. /\ k \in Keys /\ items'[k] = NoItem
      /\ Stage' = [Stage EXCEPT ![k] = Stage'[k]] /\ Outcome' = [Outcome EXCEPT ![k] = Outcome'[k]]
  BY <1>1, ClosesOneKey
<1>3. items[k] # NoItem /\ items[k].answer = NoAnswer /\ items[k].owner = h
  BY <1>1, <1>2 DEF CacheInv, OwnersHoldOpenItems, HoldsItem
<1>4. MapFacts /\ MapFacts'
  BY Mapped, MappedNext
<1>5. Stage[k] = "decided" /\ Outcome[k] \notin Kept
  BY <1>1, <1>2, <1>3, <1>4 DEF MapFacts, Keeps, Kept
<1>6. Stage'[k] = "fresh" /\ Outcome'[k] = NoAnswer
  BY <1>2, <1>4 DEF MapFacts
<1> QED BY <1>2, <1>5, <1>6 DEF Once!GiveUp

LEMMA ExpireMaps ==
  ASSUME CacheInv, CacheInv', NEW k \in Keys, Expire(k)
  PROVE  Once!Age(k)
<1>1. /\ items[k] \in Items /\ items[k].answer # NoAnswer /\ ~items[k].expired
      /\ items' = [items EXCEPT ![k] = [items[k] EXCEPT !.expired = TRUE]]
      /\ at' = at /\ answer' = answer
  BY DEF Expire, Answered, CacheInv, TypeOK
<1>2. /\ items'[k].answer = items[k].answer /\ items'[k].expired /\ items'[k] # NoItem
      /\ items[k] # NoItem
      /\ \A i \in Keys : i # k => items'[i] = items[i]
  BY <1>1, ItemFields DEF CacheInv, TypeOK, Items
<1>3. MapFacts /\ MapFacts'
  BY Mapped, MappedNext
<1>4. Stage[k] = "remembered" /\ Stage'[k] = "due" /\ Outcome'[k] = Outcome[k]
  BY <1>1, <1>2, <1>3 DEF MapFacts, Answered
<1>5. \A i \in Keys : i # k => Stage'[i] = Stage[i] /\ Outcome'[i] = Outcome[i]
  BY <1>1, <1>2, SameKey
<1>6. /\ Stage' = [Stage EXCEPT ![k] = Stage'[k]] /\ Outcome' = [Outcome EXCEPT ![k] = Outcome'[k]]
  BY <1>5, OneKey
<1>7. UNCHANGED Outcome
  BY <1>3, <1>4, <1>6 DEF MapFacts
<1> QED BY <1>4, <1>6, <1>7 DEF Once!Age

LEMMA RestartMaps ==
  ASSUME CacheInv, CacheInv', Restart
  PROVE  Once!Crash
<1>1. MapFacts'
  BY MappedNext
<1>2. \A k \in Keys : Stage'[k] = "fresh" /\ Outcome'[k] = NoAnswer
  BY <1>1 DEF MapFacts, Restart
<1> QED BY <1>1, <1>2, Zenon DEF MapFacts, Once!Crash

LEMMA InitMaps == Init => Once!Init
<1> SUFFICES ASSUME Init PROVE Once!Init
  OBVIOUS
<1>1. MapFacts
  BY InitHolds, Mapped
<1>2. \A k \in Keys : Stage[k] = "fresh" /\ Outcome[k] = NoAnswer
  BY <1>1 DEF MapFacts, Init
<1> QED BY <1>1, <1>2, Zenon DEF MapFacts, Once!Init

LEMMA StepMaps ==
  ASSUME CacheInv, CacheInv', [Next]_vars
  PROVE  [Once!Next]_<<Stage, Outcome>>
<1>1. ASSUME NEW h \in Handlers, Arrive(h) \/ Cancel(h) \/ Wake(h)
      PROVE  UNCHANGED <<Stage, Outcome>>
  <2>1. /\ items' = items
        /\ \A g \in Handlers : Owner(g) => at'[g] = at[g] /\ answer'[g] = answer[g]
    BY <1>1 DEF Arrive, Cancel, Wake, Owner, CacheInv, TypeOK
  <2> QED BY <2>1, SameKeys
<1>2. ASSUME NEW h \in Handlers, Begin(h) \/ Serve(h) \/ Commit(h) \/ Abort(h)
      PROVE  Once!Next
  <2>1. asks[h].key \in Keys
    BY ItemFields DEF CacheInv, TypeOK
  <2> QED BY <1>2, <2>1, BeginMaps, ServeMaps, CommitMaps, AbortMaps DEF Once!Next
<1>3. ASSUME NEW k \in Keys, Expire(k) PROVE Once!Next
  BY <1>3, ExpireMaps DEF Once!Next
<1>4. CASE Restart
  BY <1>4, RestartMaps DEF Once!Next
<1>5. CASE UNCHANGED vars
  BY <1>5, SameKeys DEF vars
<1> QED BY <1>1, <1>2, <1>3, <1>4, <1>5 DEF Next, Proceed

\* The cache keeps what OncePerKey promises for any number of requests, keys and
\* entries: a request is carried out once while it is being answered or its answer
\* is remembered, and the answer stays what it was.  (idempotencyMiddleware.)
THEOREM CacheImplementsOnce == Spec => ImplementsOnce
<1>1. Init => Once!Init
  BY InitMaps
<1>2. CacheInv /\ CacheInv' /\ [Next]_vars => [Once!Next]_<<Stage, Outcome>>
  BY StepMaps
<1> QED BY <1>1, <1>2, CacheStaysCoherent, PTL DEF Spec, ImplementsOnce, Once!Spec

=============================================================================
