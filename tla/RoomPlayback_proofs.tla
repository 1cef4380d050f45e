------------------------ MODULE RoomPlayback_proofs ------------------------
(* Proofs about RoomPlayback, for every set of entries, users and managers *)
(* and every value of the bounds.                                          *)
EXTENDS RoomPlayback, FiniteSetTheorems, TLAPS

Tables == [Entries -> Nat]

-----------------------------------------------------------------------------
(* The queue table.                                                        *)

(* A room's queue has finitely many rows.                                  *)
LEMMA QueuedFinite ==
  ASSUME NEW q
  PROVE  IsFiniteSet(Queued(q)) /\ Cardinality(Queued(q)) \in Nat
<1>1. Queued(q) \in SUBSET Entries
  BY DEF Queued
<1>2. IsFiniteSet(Queued(q))
  BY <1>1, FS_Subset, DataAssumption
<1> QED
  BY <1>2, FS_CardinalityType

(* Rows numbered 1..n have different numbers.                              *)
LEMMA DenseDistinct ==
  ASSUME NEW q \in Tables, Dense(q),
         NEW e \in Queued(q), NEW f \in Queued(q), q[e] = q[f]
  PROVE  e = f
<1> DEFINE n == Cardinality(Queued(q))
           p == [x \in Queued(q) |-> q[x]]
<1>1. n \in Nat /\ IsFiniteSet(Queued(q))
  BY QueuedFinite
<1>2. p \in Surjection(Queued(q), 1..n)
  BY DEF Dense, Surjection
<1>3. Cardinality(1..n) = n
  BY <1>1, FS_Interval
<1>4. p \in Injection(Queued(q), 1..n)
  BY <1>1, <1>2, <1>3, FS_SurjSameCardinalityImpliesInj
<1>5. p[e] = p[f] => e = f
  BY <1>4 DEF Injection, IsInjective
<1> QED
  BY <1>5

(* Renumbering keeps exactly the rows there are, and numbers them 1..n.    *)
LEMMA NormalizedDense ==
  ASSUME NEW q \in Tables,
         \A e, f \in Queued(q) : q[e] = q[f] => e = f
  PROVE  /\ Normalized(q) \in Tables
         /\ Queued(Normalized(q)) = Queued(q)
         /\ Dense(Normalized(q))
<1> DEFINE Q == Queued(q)
           n == Cardinality(Q)
           Below(e) == {f \in Q : q[f] <= q[e]}
           rank == [e \in Q |-> Cardinality(Below(e))]
<1>1. n \in Nat /\ IsFiniteSet(Q)
  BY QueuedFinite
<1>2. ASSUME NEW e \in Q
      PROVE  IsFiniteSet(Below(e)) /\ Cardinality(Below(e)) \in 1..n
  <2>1. Below(e) \in SUBSET Q
    OBVIOUS
  <2>2. /\ IsFiniteSet(Below(e))
        /\ Cardinality(Below(e)) <= n
        /\ Cardinality(Below(e)) \in Nat
    BY <1>1, <2>1, FS_Subset, FS_CardinalityType
  <2>3. e \in Below(e)
    BY DEF Tables, Queued
  <2>4. Cardinality(Below(e)) # 0
    BY <2>2, <2>3, FS_EmptySet
  <2> QED
    BY <2>2, <2>4, <1>1
<1>3. ASSUME NEW e \in Q, NEW f \in Q, q[e] < q[f]
      PROVE  Cardinality(Below(e)) # Cardinality(Below(f))
  <2>1. q[e] \in Nat /\ q[f] \in Nat
    BY DEF Tables, Queued
  <2>2. Below(e) \in SUBSET Below(f)
    BY <1>3, <2>1 DEF Tables, Queued
  <2>3. f \in Below(f) /\ f \notin Below(e)
    BY <1>3, <2>1
  <2> QED
    BY <1>2, <2>2, <2>3, FS_Subset
<1>4. rank \in Injection(Q, 1..n)
  <2>1. rank \in [Q -> 1..n]
    BY <1>2
  <2>2. ASSUME NEW e \in Q, NEW f \in Q, rank[e] = rank[f]
        PROVE  e = f
    <3>1. q[e] \in Nat /\ q[f] \in Nat
      BY DEF Tables, Queued
    <3>2. ~(q[e] < q[f]) /\ ~(q[f] < q[e])
      BY <1>3, <2>2
    <3> QED
      BY <3>1, <3>2
  <2> QED
    BY <2>1, <2>2 DEF Injection, IsInjective
<1>5. rank \in Surjection(Q, 1..n)
  <2>1. IsFiniteSet(1..n) /\ Cardinality(1..n) = n
    BY <1>1, FS_Interval
  <2> QED
    BY <1>4, <2>1, FS_Injection
<1>6. Normalized(q) \in Tables /\ \A e \in Entries :
         Normalized(q)[e] = IF e \in Q THEN rank[e] ELSE 0
  BY <1>1, <1>2 DEF Normalized, Queued, Tables
<1>7. Queued(Normalized(q)) = Q
  <2>1. \A e \in Q : rank[e] # 0
    <3>1. \A x \in 1..n : x # 0
      BY <1>1
    <3> QED
      BY <1>2, <3>1
  <2>2. Q \subseteq Entries
    BY DEF Queued
  <2> HIDE DEF Q, rank
  <2>3. \A e \in Entries : Normalized(q)[e] # 0 <=> e \in Q
    BY <1>6, <2>1
  <2> QED
    BY <2>2, <2>3 DEF Queued
<1>8. {Normalized(q)[e] : e \in Q} = 1..n
  <2>1. Q \subseteq Entries
    BY DEF Queued
  <2>2. \A e \in Q : Normalized(q)[e] = rank[e]
    BY <1>6, <2>1
  <2>3. \A t \in 1..n : \E e \in Q : rank[e] = t
    BY <1>5 DEF Surjection
  <2>4. \A e \in Q : rank[e] \in 1..n
    BY <1>2
  <2> HIDE DEF Q, rank
  <2> QED
    BY <2>2, <2>3, <2>4
<1> QED
  BY <1>6, <1>7, <1>8 DEF Dense

(* Deleting a row and renumbering leaves the other rows, numbered 1..n.    *)
LEMMA WithoutRowDense ==
  ASSUME NEW q \in Tables, Dense(q), NEW e \in Entries
  PROVE  /\ WithoutRow(q, e) \in Tables
         /\ Queued(WithoutRow(q, e)) = Queued(q) \ {e}
         /\ Dense(WithoutRow(q, e))
<1> DEFINE r == [q EXCEPT ![e] = 0]
<1>1. r \in Tables /\ Queued(r) = Queued(q) \ {e}
  BY DEF Tables, Queued
<1>2. \A f, g \in Queued(r) : r[f] = r[g] => f = g
  <2> SUFFICES ASSUME NEW f \in Queued(r), NEW g \in Queued(r), r[f] = r[g]
               PROVE  f = g
    OBVIOUS
  <2>1. q[f] = r[f] /\ q[g] = r[g]
    BY <1>1 DEF Tables, Queued
  <2> QED
    BY <1>1, <2>1, DenseDistinct
<1> QED
  BY <1>1, <1>2, NormalizedDense DEF WithoutRow

(* COALESCE(MAX(position), 0) is the number of rows.                       *)
LEMMA MaxPositionIsCount ==
  ASSUME NEW q \in Tables, Dense(q)
  PROVE  MaxPosition(q) = Cardinality(Queued(q))
<1> DEFINE n == Cardinality(Queued(q))
<1>1. n \in Nat
  BY QueuedFinite
<1>2. {0} \cup {q[e] : e \in Queued(q)} = 0..n
  BY <1>1 DEF Dense
<1>3. Max(0..n) = n
  BY <1>1 DEF Max
<1> QED
  BY <1>2, <1>3 DEF MaxPosition

(* Inserting behind the last row.                                          *)
LEMMA InsertDense ==
  ASSUME NEW q \in Tables, Dense(q), NEW e \in Entries \ Queued(q),
         NEW r, r = [q EXCEPT ![e] = MaxPosition(q) + 1]
  PROVE  /\ r \in Tables
         /\ Queued(r) = Queued(q) \cup {e}
         /\ Dense(r)
<1> DEFINE n == Cardinality(Queued(q))
<1>1. n \in Nat /\ IsFiniteSet(Queued(q))
  BY QueuedFinite
<1>2. r = [q EXCEPT ![e] = n + 1]
  BY MaxPositionIsCount
<1>3. r \in Tables /\ Queued(r) = Queued(q) \cup {e}
  BY <1>1, <1>2 DEF Tables, Queued
<1>4. Cardinality(Queued(r)) = n + 1
  BY <1>1, <1>3, FS_AddElement
<1>5. {r[f] : f \in Queued(r)} = {q[f] : f \in Queued(q)} \cup {n + 1}
  BY <1>2, <1>3 DEF Tables, Queued
<1>6. {r[f] : f \in Queued(r)} = 1..(n + 1)
  <2>1. 1..(n + 1) = (1..n) \cup {n + 1}
    BY <1>1
  <2> QED
    BY <1>5, <2>1 DEF Dense
<1> QED
  BY <1>3, <1>4, <1>6 DEF Dense

-----------------------------------------------------------------------------
(* The playback record and the history.                                    *)

(* What one store transaction reads and writes, and its invariant.         *)
DataInv ==
  /\ playback \in Playbacks
  /\ queue \in Tables
  /\ history \in Seq(HistoryRows)
  /\ added \subseteq Entries
  /\ QueueIsDense
  /\ OnlyAddedEntries
  /\ TransportIsCoherent
  /\ HistoryIsCoherent
  /\ PlayedAtMostOnce

(* A clamped position is inside the track.                                 *)
LEMMA ClampInside ==
  ASSUME NEW p \in Int, NEW e \in Entries \cup {NoEntry}
  PROVE  /\ Clamp(p, e) \in Nat
         /\ e # NoEntry /\ Duration[e] > 0 => Clamp(p, e) <= Duration[e]
<1>1. CASE e = NoEntry
  BY <1>1 DEF Clamp
<1>2. CASE e \in Entries
  <2>1. Duration[e] \in Nat
    BY <1>2, DataAssumption
  <2> QED
    BY <2>1 DEF Clamp
<1> QED
  BY <1>1, <1>2

(* A transaction starts from the stored record with an effective position. *)
LEMMA ReadRecord ==
  ASSUME playback \in Playbacks, now \in Nat
  PROVE  /\ Read \in Playbacks
         /\ Read.revision = playback.revision
         /\ Read.status = playback.status
         /\ Read.pausedForEmpty = playback.pausedForEmpty
         /\ Read.anchor = playback.anchor
         /\ Read.current = playback.current
         /\ Read.last = playback.last
         /\ Read.historyID = playback.historyID
         /\ playback.current # NoEntry /\ Duration[playback.current] > 0 =>
              Read.position <= Duration[playback.current]
<1> DEFINE p == playback.position
                + (IF playback.status = "playing" /\ playback.anchor # NoTime
                   THEN now - playback.anchor ELSE 0)
<1>1. p \in Int
  BY DEF Playbacks, NoTime
<1>2. EffectivePosition(playback, now) = Clamp(p, playback.current)
  BY DEF EffectivePosition
<1>3. playback.current \in Entries \cup {NoEntry}
  BY DEF Playbacks
<1>4. Clamp(p, playback.current) \in Nat
  BY <1>1, <1>3, ClampInside
<1>5. playback.current # NoEntry /\ Duration[playback.current] > 0 =>
        Clamp(p, playback.current) <= Duration[playback.current]
  BY <1>1, <1>3, ClampInside
<1> HIDE DEF p
<1> QED
  BY <1>2, <1>4, <1>5 DEF Read, Playbacks

(* Names for the records the store operations build, and their fields.     *)
Loaded(r, e) ==
  [r EXCEPT !.current = e, !.position = 0, !.pausedForEmpty = FALSE,
            !.historyID = NoHistory, !.last = Contributor[e]]
Unloaded(r) ==
  [r EXCEPT !.status = "stopped", !.current = NoEntry, !.position = 0,
            !.anchor = NoTime, !.historyID = NoHistory]
Started(r, t) ==
  Persisted([r EXCEPT !.status = "playing", !.pausedForEmpty = FALSE, !.anchor = t])
Named(r, n) == [r EXCEPT !.historyID = n]
Continued(r, t) == Persisted([r EXCEPT !.status = "playing", !.anchor = t])
Paused(r, b) ==
  Persisted([r EXCEPT !.status = "paused", !.pausedForEmpty = b, !.anchor = NoTime])

LEMMA PersistedRecord ==
  ASSUME NEW r \in Playbacks
  PROVE  /\ Persisted(r) \in Playbacks
         /\ Persisted(r).revision = r.revision + 1
         /\ Persisted(r).status = r.status
         /\ Persisted(r).pausedForEmpty = r.pausedForEmpty
         /\ Persisted(r).position = r.position
         /\ Persisted(r).anchor = r.anchor
         /\ Persisted(r).current = r.current
         /\ Persisted(r).historyID = r.historyID
         /\ Persisted(r).last = r.last
BY DEF Playbacks, Persisted

LEMMA LoadedRecord ==
  ASSUME NEW r \in Playbacks, NEW e \in Entries
  PROVE  /\ Loaded(r, e) \in Playbacks
         /\ Loaded(r, e).revision = r.revision
         /\ Loaded(r, e).status = r.status
         /\ Loaded(r, e).anchor = r.anchor
         /\ Loaded(r, e).current = e
         /\ Loaded(r, e).position = 0
         /\ ~Loaded(r, e).pausedForEmpty
         /\ Loaded(r, e).historyID = NoHistory
         /\ Loaded(r, e).last = Contributor[e]
<1>1. Contributor[e] \in Users
  BY DataAssumption
<1>2. Loaded(r, e) \in Playbacks
  BY <1>1 DEF Loaded, Playbacks, NoHistory
<1> QED
  BY <1>2 DEF Loaded, Playbacks

LEMMA UnloadedRecord ==
  ASSUME NEW r \in Playbacks
  PROVE  /\ Unloaded(r) \in Playbacks
         /\ Unloaded(r).revision = r.revision
         /\ Unloaded(r).status = "stopped"
         /\ Unloaded(r).anchor = NoTime
         /\ Unloaded(r).current = NoEntry
         /\ Unloaded(r).position = 0
         /\ Unloaded(r).historyID = NoHistory
         /\ Unloaded(r).last = r.last
<1>1. Unloaded(r) \in Playbacks
  BY DEF Unloaded, Playbacks, Statuses, NoTime, NoHistory
<1> QED
  BY <1>1 DEF Unloaded, Playbacks

LEMMA PrimedRecord ==
  ASSUME NEW r \in Playbacks
  PROVE  /\ Primed(r) \in Playbacks
         /\ Primed(r).revision = r.revision
         /\ Primed(r).status = "paused"
         /\ Primed(r).anchor = NoTime
         /\ Primed(r).current = r.current
         /\ Primed(r).position = 0
         /\ Primed(r).historyID = r.historyID
         /\ Primed(r).last = r.last
<1>1. Primed(r) \in Playbacks
  BY DEF Primed, Playbacks, Statuses, NoTime
<1> QED
  BY <1>1 DEF Primed, Playbacks

(* The two results loading may have.                                       *)
LEMMA LoadNextOutcome ==
  ASSUME NEW rec, NEW q, NEW out \in LoadNext(rec, q)
  PROVE  \/ Queued(q) = {} /\ out = [rec |-> Unloaded(rec), queue |-> q]
         \/ \E e \in Queued(q) :
              out = [rec |-> Loaded(rec, e), queue |-> WithoutRow(q, e)]
<1>1. SelectNext(q, settings.mode, rec.last) \subseteq Queued(q)
  BY DEF SelectNext
<1> QED
  BY <1>1 DEF LoadNext, Loaded, Unloaded

(* Loading stops the room only when the queue is empty.                    *)
LEMMA LoadNextStops ==
  ASSUME NEW rec \in Playbacks, NEW q, NEW out \in LoadNext(rec, q),
         out.rec.current = NoEntry
  PROVE  out.queue = q /\ out.rec = Unloaded(rec) /\ Queued(q) = {}
<1>1. ASSUME NEW e \in Queued(q) PROVE Loaded(rec, e).current # NoEntry
  BY LoadedRecord, DataAssumption DEF Queued
<1> QED
  BY <1>1, LoadNextOutcome

(* Otherwise it takes exactly one row out of the queue.                    *)
LEMMA LoadNextLoads ==
  ASSUME NEW rec \in Playbacks, NEW q, NEW out \in LoadNext(rec, q),
         out.rec.current # NoEntry
  PROVE  /\ out.rec \in Playbacks
         /\ out.rec.current \in Queued(q)
         /\ out.queue = WithoutRow(q, out.rec.current)
         /\ out.rec.revision = rec.revision
         /\ out.rec.status = rec.status
         /\ out.rec.anchor = rec.anchor
         /\ out.rec.position = 0
         /\ ~out.rec.pausedForEmpty
         /\ out.rec.historyID = NoHistory
         /\ out.rec.last = Contributor[out.rec.current]
<1>1. Unloaded(rec).current = NoEntry
  BY UnloadedRecord
<1>2. PICK e \in Queued(q) :
        out = [rec |-> Loaded(rec, e), queue |-> WithoutRow(q, e)]
  BY <1>1, LoadNextOutcome
<1>3. e \in Entries /\ out.rec = Loaded(rec, e) /\ out.queue = WithoutRow(q, e)
  BY <1>2 DEF Queued
<1> QED
  BY <1>3, LoadedRecord

(* ... of a contributor who may be next.                                   *)
LEMMA LoadNextEligible ==
  ASSUME NEW rec \in Playbacks, NEW q, NEW out \in LoadNext(rec, q),
         out.rec.current # NoEntry
  PROVE  Contributor[out.rec.current] \in Eligible(q, rec.last)
<1>1. Queued(q) # {}
  BY LoadNextLoads
<1>2. PICK e \in SelectNext(q, settings.mode, rec.last) :
         out = [rec |-> Loaded(rec, e), queue |-> WithoutRow(q, e)]
  BY <1>1 DEF LoadNext, Loaded
<1>3. e \in Entries /\ Contributor[e] \in Eligible(q, rec.last)
  BY <1>2 DEF SelectNext, Queued
<1> QED
  BY <1>2, <1>3, LoadedRecord

(* Starting the transport: the record of play and of next.                 *)
LEMMA StartedRecord ==
  ASSUME NEW r \in Playbacks, NEW t \in Nat
  PROVE  /\ Started(r, t) \in Playbacks
         /\ Started(r, t).revision = r.revision + 1
         /\ Started(r, t).status = "playing"
         /\ ~Started(r, t).pausedForEmpty
         /\ Started(r, t).anchor = t
         /\ Started(r, t).current = r.current
         /\ Started(r, t).position = r.position
         /\ Started(r, t).historyID = r.historyID
         /\ Started(r, t).last = r.last
<1> DEFINE y == [r EXCEPT !.status = "playing", !.pausedForEmpty = FALSE,
                          !.anchor = t]
<1>1. /\ y.revision = r.revision
      /\ y.status = "playing"
      /\ ~y.pausedForEmpty
      /\ y.anchor = t
      /\ y.current = r.current
      /\ y.position = r.position
      /\ y.historyID = r.historyID
      /\ y.last = r.last
  BY DEF Playbacks
<1>2. y \in Playbacks
  BY DEF Playbacks, Statuses
<1> HIDE DEF y
<1>3. Started(r, t) = Persisted(y)
  BY DEF Started, y
<1> QED
  BY <1>1, <1>2, <1>3, PersistedRecord

LEMMA ContinuedRecord ==
  ASSUME NEW r \in Playbacks, NEW t \in Nat
  PROVE  /\ Continued(r, t) \in Playbacks
         /\ Continued(r, t).revision = r.revision + 1
         /\ Continued(r, t).status = "playing"
         /\ Continued(r, t).pausedForEmpty = r.pausedForEmpty
         /\ Continued(r, t).anchor = t
         /\ Continued(r, t).current = r.current
         /\ Continued(r, t).position = r.position
         /\ Continued(r, t).historyID = r.historyID
         /\ Continued(r, t).last = r.last
<1> DEFINE y == [r EXCEPT !.status = "playing", !.anchor = t]
<1>1. /\ y.revision = r.revision
      /\ y.status = "playing"
      /\ y.pausedForEmpty = r.pausedForEmpty
      /\ y.anchor = t
      /\ y.current = r.current
      /\ y.position = r.position
      /\ y.historyID = r.historyID
      /\ y.last = r.last
  BY DEF Playbacks
<1>2. y \in Playbacks
  BY DEF Playbacks, Statuses
<1> HIDE DEF y
<1>3. Continued(r, t) = Persisted(y)
  BY DEF Continued, y
<1> QED
  BY <1>1, <1>2, <1>3, PersistedRecord

(* Naming the history row.                                                 *)
LEMMA NamedRecord ==
  ASSUME NEW r \in Playbacks, NEW n \in Nat
  PROVE  /\ Named(r, n) \in Playbacks
         /\ Named(r, n).revision = r.revision
         /\ Named(r, n).pausedForEmpty = r.pausedForEmpty
         /\ Named(r, n).current = r.current
         /\ Named(r, n).position = r.position
         /\ Named(r, n).historyID = n
         /\ Named(r, n).last = r.last
BY DEF Named, Playbacks

(* Pausing the transport: the records of pause and of PauseForEmpty.       *)
LEMMA PausedRecord ==
  ASSUME NEW r \in Playbacks, NEW b \in BOOLEAN
  PROVE  /\ Paused(r, b) \in Playbacks
         /\ Paused(r, b).revision = r.revision + 1
         /\ Paused(r, b).status = "paused"
         /\ Paused(r, b).anchor = NoTime
         /\ Paused(r, b).current = r.current
         /\ Paused(r, b).position = r.position
         /\ Paused(r, b).historyID = r.historyID
         /\ Paused(r, b).last = r.last
<1> DEFINE y == [r EXCEPT !.status = "paused", !.pausedForEmpty = b,
                          !.anchor = NoTime]
<1>1. /\ y.revision = r.revision
      /\ y.status = "paused"
      /\ y.anchor = NoTime
      /\ y.current = r.current
      /\ y.position = r.position
      /\ y.historyID = r.historyID
      /\ y.last = r.last
  BY DEF Playbacks
<1>2. y \in Playbacks
  BY DEF Playbacks, Statuses, NoTime
<1> HIDE DEF y
<1>3. Paused(r, b) = Persisted(y)
  BY DEF Paused, y
<1> QED
  BY <1>1, <1>2, <1>3, PersistedRecord

(* The record without its track.                                           *)
LEMMA FinishedRecord ==
  ASSUME NEW r \in Playbacks
  PROVE  /\ FinishCurrent(r) \in Playbacks
         /\ FinishCurrent(r).revision = r.revision
         /\ FinishCurrent(r).current = NoEntry
         /\ FinishCurrent(r).position = 0
         /\ FinishCurrent(r).anchor = NoTime
         /\ FinishCurrent(r).historyID = NoHistory
         /\ FinishCurrent(r).last = r.last
<1>1. FinishCurrent(r) \in Playbacks
  BY DEF FinishCurrent, Playbacks, NoTime, NoHistory
<1> QED
  BY <1>1 DEF FinishCurrent, Playbacks

(* Finishing the current track closes its row, the only open one.          *)
LEMMA AllFinished ==
  ASSUME DataInv, now \in Nat, NEW h, h = HistoryFinished(Read, history)
  PROVE  /\ h \in Seq(HistoryRows)
         /\ Len(h) = Len(history)
         /\ \A i \in DOMAIN h :
              /\ h[i].entry = history[i].entry
              /\ h[i].finished
              /\ Duration[h[i].entry] > 0 => h[i].played <= Duration[h[i].entry]
<1> DEFINE k == playback.historyID
           p == Clamp(Read.position, playback.current)
<1>1. /\ Read \in Playbacks
      /\ Read.historyID = k
      /\ Read.current = playback.current
  BY ReadRecord DEF DataInv, Playbacks
<1>2. DOMAIN history = 1..Len(history) /\ Len(history) \in Nat
  BY DEF DataInv
<1>3. \A i \in DOMAIN history : history[i] \in HistoryRows
  BY DEF DataInv
<1>4. CASE k = NoHistory
  <2>1. h = history
    BY <1>1, <1>4 DEF HistoryFinished
  <2> QED
    BY <1>2, <1>4, <2>1 DEF DataInv, HistoryIsCoherent, NoHistory
<1>5. CASE k # NoHistory
  <2>1. /\ k \in DOMAIN history
        /\ ~history[k].finished
        /\ history[k].entry = playback.current
    BY <1>5 DEF DataInv, HistoryIsCoherent
  <2>2. playback.current \in Entries /\ playback.current # NoEntry
    BY <1>3, <2>1, DataAssumption DEF HistoryRows
  <2>3. p \in Nat /\ (Duration[playback.current] > 0 => p <= Duration[playback.current])
    BY <1>1, <2>2, ClampInside DEF Playbacks
  <2> HIDE DEF p
  <2>4. h = [history EXCEPT ![k] = [[history[k] EXCEPT !.finished = TRUE]
                                       EXCEPT !.played = p]]
    BY <1>1, <1>5, <2>1 DEF HistoryFinished, p
  <2>5. h[k] = [entry |-> playback.current, finished |-> TRUE, played |-> p]
    BY <1>3, <2>1, <2>4 DEF HistoryRows
  <2>6. h[k] \in HistoryRows
    BY <2>2, <2>3, <2>5 DEF HistoryRows
  <2>7. \A i \in DOMAIN history : i # k => h[i] = history[i]
    BY <2>4
  <2>8. DOMAIN h = 1..Len(history)
    BY <1>2, <2>4
  <2>9. h \in Seq(HistoryRows) /\ Len(h) = Len(history)
    <3>1. \A i \in 1..Len(history) : h[i] \in HistoryRows
      BY <1>2, <1>3, <2>6, <2>7
    <3>2. h \in [1..Len(history) -> HistoryRows]
      BY <2>4, <2>8, <3>1
    <3> QED
      BY <1>2, <3>2
  <2>10. \A i \in DOMAIN history : i # k => history[i].finished
    BY DEF DataInv, HistoryIsCoherent
  <2>11. \A i \in DOMAIN history :
           Duration[history[i].entry] > 0 =>
             history[i].played <= Duration[history[i].entry]
    BY DEF DataInv, HistoryIsCoherent
  <2> QED
    BY <1>2, <2>1, <2>3, <2>5, <2>7, <2>8, <2>9, <2>10, <2>11
<1> QED
  BY <1>4, <1>5

(* Starting a track without a row appends one open row and names it.       *)
LEMMA RowStarted ==
  ASSUME NEW rec \in Playbacks, rec.current # NoEntry, rec.historyID = NoHistory,
         NEW hist \in Seq(HistoryRows)
  PROVE  /\ StartHistory(rec, hist) = Named(rec, Len(hist) + 1)
         /\ HistoryStarted(rec, hist) =
              Append(hist, [entry |-> rec.current, finished |-> FALSE, played |-> 0])
         /\ HistoryStarted(rec, hist) \in Seq(HistoryRows)
<1>1. rec.current \in Entries
  BY DEF Playbacks
<1>2. [entry |-> rec.current, finished |-> FALSE, played |-> 0] \in HistoryRows
  BY <1>1 DEF HistoryRows
<1> QED
  BY <1>2 DEF StartHistory, HistoryStarted, NeedsHistory, Named

-----------------------------------------------------------------------------
(* The store operations keep DataInv.                                      *)

(* A change of the transport only: same track, same history row.           *)
LEMMA SameTrackKeeps ==
  ASSUME DataInv, UNCHANGED <<queue, history, added>>,
         playback' \in Playbacks, TransportIsCoherent',
         playback'.current = playback.current,
         playback'.historyID = playback.historyID
  PROVE  DataInv'
BY DEF DataInv, QueueIsDense, OnlyAddedEntries, HistoryIsCoherent,
       PlayedAtMostOnce

(* The current track is started for the first time.                        *)
LEMMA FirstStartKeeps ==
  ASSUME DataInv, UNCHANGED <<queue, added>>,
         playback.current # NoEntry, playback.historyID = NoHistory,
         history' = Append(history, [entry |-> playback.current,
                                     finished |-> FALSE, played |-> 0]),
         playback' \in Playbacks, TransportIsCoherent',
         playback'.current = playback.current,
         playback'.historyID = Len(history) + 1
  PROVE  DataInv'
<1> DEFINE n == Len(history)
           row == [entry |-> playback.current, finished |-> FALSE, played |-> 0]
<1>1. history \in Seq(HistoryRows) /\ n \in Nat /\ DOMAIN history = 1..n
  BY DEF DataInv
<1>2. playback.current \in Entries
  BY DEF DataInv, Playbacks
<1>3. row \in HistoryRows
  BY <1>2 DEF HistoryRows
<1>4. /\ history' \in Seq(HistoryRows)
      /\ DOMAIN history' = 1..(n + 1)
      /\ history'[n + 1] = row
      /\ \A i \in 1..n : history'[i] = history[i]
  BY <1>1, <1>3
<1>5. \A i \in 1..n : /\ history[i].finished
                      /\ history[i].entry # playback.current
  BY <1>1 DEF DataInv, HistoryIsCoherent, PlayedAtMostOnce, NoHistory
<1>6. Duration[playback.current] \in Nat
  BY <1>2, DataAssumption
<1>7. OnlyAddedEntries'
  BY <1>1, <1>4 DEF DataInv, OnlyAddedEntries
<1>8. HistoryIsCoherent'
  BY <1>1, <1>4, <1>5, <1>6 DEF DataInv, HistoryIsCoherent, NoHistory
<1>9. PlayedAtMostOnce'
  BY <1>1, <1>4, <1>5 DEF DataInv, PlayedAtMostOnce
<1> QED
  BY <1>4, <1>7, <1>8, <1>9 DEF DataInv, QueueIsDense

(* With the history closed as h, a waiting track is loaded and started.    *)
LEMMA LoadAndStartKeeps ==
  ASSUME DataInv, UNCHANGED added,
         NEW h \in Seq(HistoryRows), Len(h) = Len(history),
         \A i \in DOMAIN h :
            /\ h[i].entry = history[i].entry
            /\ h[i].finished
            /\ Duration[h[i].entry] > 0 => h[i].played <= Duration[h[i].entry],
         NEW e \in Queued(queue), queue' = WithoutRow(queue, e),
         history' = Append(h, [entry |-> e, finished |-> FALSE, played |-> 0]),
         playback' \in Playbacks, TransportIsCoherent',
         playback'.current = e, playback'.historyID = Len(h) + 1
  PROVE  DataInv'
<1> DEFINE n == Len(h)
           row == [entry |-> e, finished |-> FALSE, played |-> 0]
<1>1. /\ n \in Nat /\ DOMAIN h = 1..n
      /\ history \in Seq(HistoryRows) /\ DOMAIN history = 1..n
  BY DEF DataInv
<1>2. e \in Entries
  BY DEF Queued
<1>3. row \in HistoryRows
  BY <1>2 DEF HistoryRows
<1>4. /\ history' \in Seq(HistoryRows)
      /\ DOMAIN history' = 1..(n + 1)
      /\ history'[n + 1] = row
      /\ \A i \in 1..n : history'[i] = h[i]
  BY <1>1, <1>3
<1>5. /\ queue' \in Tables
      /\ Dense(queue')
      /\ Queued(queue') = Queued(queue) \ {e}
  BY <1>2, WithoutRowDense DEF DataInv, QueueIsDense
<1>6. \A i \in 1..n : h[i].entry # e /\ h[i].entry \notin Queued(queue)
  BY <1>1 DEF DataInv, PlayedAtMostOnce
<1>7. Duration[e] \in Nat
  BY <1>2, DataAssumption
<1>8. OnlyAddedEntries'
  <2>1. e \in added /\ Queued(queue) \subseteq added
    BY DEF DataInv, OnlyAddedEntries
  <2>2. \A i \in 1..n : h[i].entry \in added
    BY <1>1 DEF DataInv, OnlyAddedEntries
  <2>3. \A i \in DOMAIN history' : history'[i].entry \in added
    BY <1>1, <1>4, <2>1, <2>2
  <2> QED
    BY <1>5, <2>1, <2>3 DEF OnlyAddedEntries
<1>9. HistoryIsCoherent'
  BY <1>1, <1>4, <1>7 DEF HistoryIsCoherent, NoHistory
<1>10. PlayedAtMostOnce'
  <2>1. \A i, j \in 1..n : h[i].entry = h[j].entry => i = j
    BY <1>1 DEF DataInv, PlayedAtMostOnce
  <2>2. \A i, j \in DOMAIN history' :
          history'[i].entry = history'[j].entry => i = j
    BY <1>1, <1>4, <1>6, <2>1
  <2>3. \A i \in DOMAIN history' :
          history'[i].entry \notin Queued(queue')
    BY <1>1, <1>4, <1>5, <1>6
  <2>4. \A i \in DOMAIN history' :
          history'[i].entry = e => i = n + 1
    BY <1>1, <1>4, <1>6
  <2> QED
    BY <1>5, <2>2, <2>3, <2>4 DEF PlayedAtMostOnce
<1> QED
  BY <1>4, <1>5, <1>8, <1>9, <1>10 DEF DataInv, QueueIsDense

(* With the history closed as h, the room is left without a track.         *)
LEMMA UnloadKeeps ==
  ASSUME DataInv, UNCHANGED <<queue, added>>,
         history' \in Seq(HistoryRows), Len(history') = Len(history),
         \A i \in DOMAIN history' :
            /\ history'[i].entry = history[i].entry
            /\ history'[i].finished
            /\ Duration[history'[i].entry] > 0 =>
                 history'[i].played <= Duration[history'[i].entry],
         playback' \in Playbacks, TransportIsCoherent',
         playback'.current = NoEntry, playback'.historyID = NoHistory
  PROVE  DataInv'
<1>1. /\ DOMAIN history = DOMAIN history' /\ NoHistory \notin DOMAIN history
      /\ \A i \in DOMAIN history' : history'[i] \in HistoryRows
  BY DEF DataInv, NoHistory
<1>2. NoEntry \notin Entries
  BY DataAssumption
<1>3. HistoryIsCoherent'
  BY <1>1 DEF HistoryIsCoherent
<1>4. PlayedAtMostOnce'
  <2>1. \A i, j \in DOMAIN history' : history'[i].entry = history'[j].entry => i = j
    BY <1>1 DEF DataInv, PlayedAtMostOnce
  <2>2. \A i \in DOMAIN history' : history'[i].entry # playback'.current
    BY <1>1, <1>2 DEF HistoryRows
  <2>3. \A i \in DOMAIN history' : history'[i].entry \notin Queued(queue')
    <3>1. Queued(queue') = Queued(queue)
      BY DEF Queued
    <3>2. \A i \in DOMAIN history : history[i].entry \notin Queued(queue)
      BY DEF DataInv, PlayedAtMostOnce
    <3>3. QED
      BY <1>1, <3>1, <3>2
  <2>4. playback'.current \notin Queued(queue')
    BY <1>2 DEF Queued, DataInv
  <2> QED
    BY <2>1, <2>2, <2>3, <2>4 DEF PlayedAtMostOnce
<1>5. OnlyAddedEntries'
  BY <1>1 DEF DataInv, OnlyAddedEntries
<1> QED
  BY <1>3, <1>4, <1>5 DEF DataInv, QueueIsDense

(* A primed track: paused, without a history row, out of the queue.        *)
LEMMA PrimeKeeps ==
  ASSUME DataInv, now \in Nat, playback.current = NoEntry,
         NEW q \in Tables, Dense(q),
         UNCHANGED history, added' \subseteq Entries, added \subseteq added',
         Queued(q) \subseteq added',
         \A i \in DOMAIN history : history[i].entry \notin Queued(q),
         PrimeNext(q)
  PROVE  DataInv' /\ playback'.revision = playback.revision + 1
<1>1. PICK out \in LoadNext(Read, q) :
         /\ out.rec.current # NoEntry
         /\ playback' = Persisted(Primed(out.rec))
         /\ queue' = out.queue
  BY DEF PrimeNext
<1>2. /\ Read \in Playbacks
      /\ Read.revision = playback.revision
  BY ReadRecord DEF DataInv
<1> DEFINE r == out.rec
           e == r.current
<1>3. /\ r \in Playbacks
      /\ e \in Queued(q)
      /\ queue' = WithoutRow(q, e)
      /\ r.revision = playback.revision
      /\ r.historyID = NoHistory
      /\ r.last = Contributor[e]
  BY <1>1, <1>2, LoadNextLoads
<1>4. e \in Entries /\ e # NoEntry /\ Duration[e] \in Nat
  BY <1>3, DataAssumption DEF Queued
<1>5. /\ playback' \in Playbacks
      /\ playback'.revision = playback.revision + 1
      /\ playback'.status = "paused"
      /\ playback'.anchor = NoTime
      /\ playback'.current = e
      /\ playback'.position = 0
      /\ playback'.historyID = NoHistory
      /\ playback'.last = Contributor[e]
  <2>1. playback' = Persisted(Primed(r))
    BY <1>1
  <2> HIDE DEF r
  <2> QED
    BY <1>3, <2>1, PrimedRecord, PersistedRecord
<1> HIDE DEF r
<1>6. TransportIsCoherent'
  BY <1>4, <1>5 DEF TransportIsCoherent
<1>7. /\ queue' \in Tables
      /\ Dense(queue')
      /\ Queued(queue') = Queued(q) \ {e}
  BY <1>1, <1>3, <1>4, WithoutRowDense
<1>8. playback.historyID = NoHistory
  BY DEF DataInv, TransportIsCoherent
<1>9. HistoryIsCoherent'
  BY <1>5, <1>8 DEF DataInv, HistoryIsCoherent
<1>10. PlayedAtMostOnce'
  BY <1>3, <1>4, <1>5, <1>7 DEF DataInv, PlayedAtMostOnce
<1>11. OnlyAddedEntries'
  BY <1>3, <1>5, <1>7 DEF DataInv, OnlyAddedEntries
<1> QED
  BY <1>5, <1>6, <1>7, <1>9, <1>10, <1>11 DEF DataInv, QueueIsDense

(* The commands of ApplyPlayback: what each does, and that it keeps the    *)
(* invariant.  The track goes on, is started for the first time, or a      *)
(* waiting one is loaded and started, with the history as h.               *)
Resumes ==
  /\ playback.current # NoEntry /\ playback.historyID # NoHistory
  /\ UNCHANGED <<queue, history>>
  /\ playback'.current = playback.current
  /\ playback'.historyID = playback.historyID
  /\ playback'.position = Read.position
  /\ playback'.last = playback.last

StartsFirst ==
  /\ playback.current # NoEntry /\ playback.historyID = NoHistory
  /\ UNCHANGED queue
  /\ history' = Append(history, [entry |-> playback.current, finished |-> FALSE,
                                 played |-> 0])
  /\ playback'.current = playback.current
  /\ playback'.historyID = Len(history) + 1
  /\ playback'.position = Read.position
  /\ playback'.last = playback.last

LoadsAndStarts(e, h) ==
  /\ queue' = WithoutRow(queue, e)
  /\ history' = Append(h, [entry |-> e, finished |-> FALSE, played |-> 0])
  /\ playback'.current = e
  /\ playback'.historyID = Len(h) + 1
  /\ playback'.position = 0
  /\ playback'.last = Contributor[e]

IsPlaying ==
  /\ playback' \in Playbacks
  /\ playback'.revision = playback.revision + 1
  /\ playback'.status = "playing"
  /\ ~playback'.pausedForEmpty
  /\ playback'.anchor = now

LEMMA StartedPlays ==
  ASSUME now \in Nat, NEW r \in Playbacks, r.revision = playback.revision,
         \/ playback' = Started(r, now)
         \/ playback' = Continued(r, now) /\ ~r.pausedForEmpty
  PROVE  /\ IsPlaying
         /\ playback'.current = r.current
         /\ playback'.position = r.position
         /\ playback'.historyID = r.historyID
         /\ playback'.last = r.last
<1>1. CASE playback' = Started(r, now)
  BY <1>1, StartedRecord DEF IsPlaying
<1>2. CASE playback' = Continued(r, now) /\ ~r.pausedForEmpty
  BY <1>2, ContinuedRecord DEF IsPlaying
<1> QED
  BY <1>1, <1>2

LEMMA PlayEffect ==
  ASSUME DataInv, now \in Nat, Play
  PROVE  /\ IsPlaying
         /\ \/ Resumes
            \/ StartsFirst
            \/ /\ playback.current = NoEntry
               /\ \E e \in Queued(queue) :
                    /\ LoadsAndStarts(e, history)
                    /\ Contributor[e] \in Eligible(queue, playback.last)
<1>1. /\ Read \in Playbacks
      /\ Read.revision = playback.revision
      /\ Read.current = playback.current
      /\ Read.historyID = playback.historyID
      /\ Read.last = playback.last
  BY ReadRecord DEF DataInv
<1>2. /\ Len(history) \in Nat
      /\ Len(history) + 1 \in Nat
      /\ history \in Seq(HistoryRows)
  BY DEF DataInv
<1>3. CASE playback.current # NoEntry
  <2> DEFINE s == StartHistory(Read, history)
  <2>1. /\ queue' = queue
        /\ history' = HistoryStarted(Read, history)
        /\ playback' = Started(s, now)
    <3> DEFINE one == [rec |-> Read, queue |-> queue]
    <3>1. \E start \in {one} :
            /\ queue' = start.queue
            /\ history' = HistoryStarted(start.rec, history)
            /\ playback' = Started(StartHistory(start.rec, history), now)
      BY <1>1, <1>3 DEF Play, Started
    <3>2. one.rec = Read /\ one.queue = queue
      OBVIOUS
    <3> HIDE DEF one
    <3> QED
      BY <3>1, <3>2
  <2>2. CASE playback.historyID = NoHistory
    <3> DEFINE n == Len(history) + 1
    <3>1. /\ s = Named(Read, n) /\ n \in Nat
          /\ history' = Append(history, [entry |-> playback.current,
                                         finished |-> FALSE, played |-> 0])
      BY <1>1, <1>2, <1>3, <2>1, <2>2, RowStarted
    <3> HIDE DEF s, n
    <3>2. /\ s \in Playbacks
          /\ s.revision = playback.revision
          /\ s.current = playback.current
          /\ s.position = Read.position
          /\ s.historyID = n
          /\ s.last = playback.last
      BY <1>1, <3>1, NamedRecord
    <3>3. playback' = Started(s, now)
      BY <2>1 DEF s
    <3>4. /\ IsPlaying
          /\ playback'.current = playback.current
          /\ playback'.position = Read.position
          /\ playback'.historyID = n
          /\ playback'.last = playback.last
      BY <3>2, <3>3, StartedPlays
    <3> QED
      BY <1>3, <2>1, <2>2, <3>1, <3>4 DEF n, StartsFirst
  <2>3. CASE playback.historyID # NoHistory
    <3>1. s = Read /\ history' = history
      BY <1>1, <2>1, <2>3 DEF StartHistory, HistoryStarted, NeedsHistory
    <3>2. playback' = Started(Read, now)
      BY <2>1, <3>1
    <3>3. /\ IsPlaying
          /\ playback'.current = Read.current
          /\ playback'.position = Read.position
          /\ playback'.historyID = Read.historyID
          /\ playback'.last = Read.last
      BY <1>1, <3>2, StartedPlays
    <3> QED
      BY <1>1, <1>3, <2>1, <2>3, <3>1, <3>3 DEF Resumes
  <2> QED
    BY <2>2, <2>3
<1>4. CASE playback.current = NoEntry
  <2>1. PICK out \in LoadNext(Read, queue) :
          /\ out.rec.current # NoEntry
          /\ queue' = out.queue
          /\ history' = HistoryStarted(out.rec, history)
          /\ playback' = Started(StartHistory(out.rec, history), now)
    BY <1>1, <1>4 DEF Play, Started
  <2> DEFINE r == out.rec
             s == StartHistory(r, history)
             n == Len(history) + 1
  <2>2. /\ r \in Playbacks
        /\ r.current \in Queued(queue)
        /\ queue' = WithoutRow(queue, r.current)
        /\ r.revision = playback.revision
        /\ r.position = 0
        /\ r.historyID = NoHistory
        /\ r.last = Contributor[r.current]
        /\ Contributor[r.current] \in Eligible(queue, playback.last)
    BY <1>1, <2>1, LoadNextLoads, LoadNextEligible
  <2>3. /\ s = Named(r, n) /\ n \in Nat
        /\ history' = Append(history, [entry |-> r.current, finished |-> FALSE,
                                       played |-> 0])
    BY <1>2, <2>1, <2>2, RowStarted
  <2>4. playback' = Started(s, now)
    BY <2>1
  <2> HIDE DEF r, s, n
  <2>5. /\ s \in Playbacks
        /\ s.revision = playback.revision
        /\ s.current = r.current
        /\ s.position = 0
        /\ s.historyID = n
        /\ s.last = Contributor[r.current]
    BY <2>2, <2>3, NamedRecord
  <2>6. /\ IsPlaying
        /\ playback'.current = r.current
        /\ playback'.position = 0
        /\ playback'.historyID = n
        /\ playback'.last = Contributor[r.current]
    BY <2>4, <2>5, StartedPlays
  <2>7. LoadsAndStarts(r.current, history)
    BY <2>2, <2>3, <2>6 DEF n, LoadsAndStarts
  <2> QED
    BY <1>4, <2>2, <2>6, <2>7
<1> QED
  BY <1>3, <1>4

LEMMA PlayKeeps ==
  ASSUME DataInv, now \in Nat, UNCHANGED added, Play
  PROVE  DataInv' /\ playback'.revision = playback.revision + 1
<1>1. /\ playback.current # NoEntry /\ Duration[playback.current] > 0 =>
           Read.position <= Duration[playback.current]
      /\ playback.current # NoEntry =>
           playback.last = Contributor[playback.current]
      /\ Len(history) \in Nat /\ history \in Seq(HistoryRows)
  BY ReadRecord DEF DataInv, TransportIsCoherent
<1>2. IsPlaying
  BY PlayEffect
<1>3. CASE Resumes
  <2>1. TransportIsCoherent'
    BY <1>1, <1>2, <1>3 DEF IsPlaying, Resumes, TransportIsCoherent, NoTime
  <2> QED
    BY <1>2, <1>3, <2>1, SameTrackKeeps DEF IsPlaying, Resumes
<1>4. CASE StartsFirst
  <2>1. TransportIsCoherent'
    BY <1>1, <1>2, <1>4 DEF IsPlaying, StartsFirst, TransportIsCoherent, NoTime, NoHistory
  <2> QED
    BY <1>2, <1>4, <2>1, FirstStartKeeps DEF IsPlaying, StartsFirst
<1>5. ASSUME playback.current = NoEntry,
             NEW e \in Queued(queue), LoadsAndStarts(e, history)
      PROVE  DataInv' /\ playback'.revision = playback.revision + 1
  <2>1. \A i \in DOMAIN history :
           /\ history[i].finished
           /\ Duration[history[i].entry] > 0 =>
                history[i].played <= Duration[history[i].entry]
    BY <1>5 DEF DataInv, HistoryIsCoherent, TransportIsCoherent, NoHistory
  <2>2. Duration[e] \in Nat /\ e # NoEntry
    BY DataAssumption DEF Queued
  <2>3. TransportIsCoherent'
    BY <1>1, <1>2, <1>5, <2>2
       DEF IsPlaying, LoadsAndStarts, TransportIsCoherent, NoTime, NoHistory
  <2> QED
    BY <1>1, <1>2, <1>5, <2>1, <2>3, LoadAndStartKeeps DEF IsPlaying, LoadsAndStarts
<1> QED
  BY <1>3, <1>4, <1>5, PlayEffect

LEMMA PauseKeeps ==
  ASSUME DataInv, now \in Nat, UNCHANGED <<queue, history, added>>,
         playback.current # NoEntry,
         NEW b \in BOOLEAN, playback' = Paused(Read, b)
  PROVE  DataInv' /\ playback'.revision = playback.revision + 1
<1>1. /\ Read \in Playbacks
      /\ Read.revision = playback.revision
      /\ Read.current = playback.current
      /\ Read.historyID = playback.historyID
      /\ playback.current # NoEntry /\ Duration[playback.current] > 0 =>
           Read.position <= Duration[playback.current]
      /\ Read.last = Contributor[playback.current]
  BY ReadRecord DEF DataInv, TransportIsCoherent
<1>2. /\ playback' \in Playbacks
      /\ playback'.revision = playback.revision + 1
      /\ playback'.status = "paused"
      /\ playback'.anchor = NoTime
      /\ playback'.current = playback.current
      /\ playback'.position = Read.position
      /\ playback'.historyID = playback.historyID
      /\ playback'.last = Contributor[playback.current]
  BY <1>1, PausedRecord
<1>3. TransportIsCoherent'
  BY <1>1, <1>2 DEF TransportIsCoherent
<1> QED
  BY <1>1, <1>2, <1>3, SameTrackKeeps

LEMMA SeekKeeps ==
  ASSUME DataInv, now \in Nat, UNCHANGED added, NEW p \in Int, Seek(p)
  PROVE  DataInv' /\ playback'.revision = playback.revision + 1
<1> DEFINE e == playback.current
           c == Clamp(p, e)
           a == IF playback.status = "playing" THEN now ELSE NoTime
           y == [Read EXCEPT !.position = c, !.anchor = a]
<1>1. /\ Read \in Playbacks
      /\ Read.revision = playback.revision
      /\ Read.status = playback.status
      /\ Read.pausedForEmpty = playback.pausedForEmpty
      /\ Read.current = e
      /\ Read.historyID = playback.historyID
      /\ Read.last = playback.last
  BY ReadRecord DEF DataInv
<1>2. e \in Entries \cup {NoEntry} /\ e # NoEntry
  BY DEF DataInv, Playbacks, Seek
<1>3. c \in Nat /\ (Duration[e] > 0 => c <= Duration[e])
  BY <1>2, ClampInside
<1>4. a \in Nat \cup {NoTime}
  OBVIOUS
<1>5. playback' = Persisted(y) /\ UNCHANGED <<queue, history>>
  BY DEF Seek
<1> HIDE DEF c, a
<1>6. y \in Playbacks
  BY <1>1, <1>3, <1>4 DEF Playbacks
<1>7. /\ y.revision = playback.revision
      /\ y.status = playback.status
      /\ y.pausedForEmpty = playback.pausedForEmpty
      /\ y.current = e
      /\ y.historyID = playback.historyID
      /\ y.position = c
      /\ y.anchor = a
      /\ y.last = playback.last
  BY <1>1 DEF Playbacks
<1> HIDE DEF y
<1>8. /\ playback' \in Playbacks
      /\ playback'.revision = playback.revision + 1
      /\ playback'.status = playback.status
      /\ playback'.pausedForEmpty = playback.pausedForEmpty
      /\ playback'.current = e
      /\ playback'.historyID = playback.historyID
      /\ playback'.position = c
      /\ playback'.anchor = a
      /\ playback'.last = playback.last
  BY <1>5, <1>6, <1>7, PersistedRecord
<1>9. TransportIsCoherent'
  BY <1>2, <1>3, <1>8 DEF TransportIsCoherent, DataInv, NoTime, a
<1> QED
  BY <1>5, <1>8, <1>9, SameTrackKeeps

(* With the history closed, the room is left stopped and empty, or a       *)
(* waiting track of an eligible contributor is loaded and started.         *)
LeavesEmpty ==
  /\ UNCHANGED queue
  /\ history' = HistoryFinished(Read, history)
  /\ playback' \in Playbacks
  /\ playback'.revision = playback.revision + 1
  /\ playback'.status = "stopped"
  /\ playback'.anchor = NoTime
  /\ playback'.current = NoEntry
  /\ playback'.position = 0
  /\ playback'.historyID = NoHistory
  /\ playback'.last = playback.last

LEMMA StopEffect ==
  ASSUME DataInv, now \in Nat, Stop
  PROVE  LeavesEmpty
<1> DEFINE f == FinishCurrent(Read)
           y == [f EXCEPT !.status = "stopped"]
<1>1. /\ Read \in Playbacks
      /\ Read.revision = playback.revision
      /\ Read.last = playback.last
  BY ReadRecord DEF DataInv
<1>2. /\ f \in Playbacks
      /\ f.revision = playback.revision
      /\ f.current = NoEntry
      /\ f.position = 0
      /\ f.anchor = NoTime
      /\ f.historyID = NoHistory
      /\ f.last = playback.last
  BY <1>1, FinishedRecord
<1>3. /\ playback' = Persisted(y)
      /\ history' = HistoryFinished(Read, history)
      /\ UNCHANGED queue
  BY DEF Stop
<1> HIDE DEF f
<1>4. y \in Playbacks
  BY <1>2 DEF Playbacks, Statuses
<1>5. /\ y.revision = playback.revision
      /\ y.status = "stopped"
      /\ y.current = NoEntry
      /\ y.position = 0
      /\ y.anchor = NoTime
      /\ y.historyID = NoHistory
      /\ y.last = playback.last
  BY <1>2 DEF Playbacks
<1> HIDE DEF y
<1> QED
  BY <1>3, <1>4, <1>5, PersistedRecord DEF LeavesEmpty

LEMMA LeaveEmptyKeeps ==
  ASSUME DataInv, now \in Nat, UNCHANGED added, LeavesEmpty
  PROVE  DataInv' /\ playback'.revision = playback.revision + 1
<1>1. TransportIsCoherent'
  BY DEF LeavesEmpty, TransportIsCoherent
<1>2. /\ history' \in Seq(HistoryRows)
      /\ Len(history') = Len(history)
      /\ \A i \in DOMAIN history' :
           /\ history'[i].entry = history[i].entry
           /\ history'[i].finished
           /\ Duration[history'[i].entry] > 0 =>
                history'[i].played <= Duration[history'[i].entry]
  BY AllFinished DEF LeavesEmpty
<1> QED
  BY <1>1, <1>2, UnloadKeeps DEF LeavesEmpty

LEMMA NextEffect ==
  ASSUME DataInv, now \in Nat, NextTrack
  PROVE  \/ LeavesEmpty /\ Queued(queue) = {}
         \/ \E e \in Queued(queue) :
              /\ IsPlaying
              /\ LoadsAndStarts(e, HistoryFinished(Read, history))
              /\ Contributor[e] \in Eligible(queue, playback.last)
<1> DEFINE f == FinishCurrent(Read)
           h == HistoryFinished(Read, history)
<1>1. Read \in Playbacks /\ Read.revision = playback.revision /\ Read.last = playback.last
  BY ReadRecord DEF DataInv
<1>2. f \in Playbacks /\ f.revision = playback.revision /\ f.last = playback.last
  BY <1>1, FinishedRecord
<1>3. h \in Seq(HistoryRows)
  BY AllFinished
<1>4. PICK out \in LoadNext(f, queue) :
        /\ queue' = out.queue
        /\ history' = HistoryStarted(out.rec, h)
        /\ playback' = IF out.rec.current = NoEntry THEN Persisted(out.rec)
                       ELSE Continued(StartHistory(out.rec, h), now)
  BY DEF NextTrack, Continued
<1> HIDE DEF f, h
<1> DEFINE r == out.rec
<1>5. CASE r.current = NoEntry
  <2>1. /\ UNCHANGED queue /\ Queued(queue) = {}
        /\ r = Unloaded(f) /\ playback' = Persisted(r)
    BY <1>2, <1>4, <1>5, LoadNextStops
  <2>2. history' = HistoryFinished(Read, history)
    BY <1>4, <1>5 DEF HistoryStarted, NeedsHistory, h
  <2> HIDE DEF r
  <2>3. /\ r \in Playbacks
        /\ r.revision = playback.revision
        /\ r.status = "stopped"
        /\ r.current = NoEntry
        /\ r.position = 0
        /\ r.anchor = NoTime
        /\ r.historyID = NoHistory
        /\ r.last = playback.last
    BY <1>2, <2>1, UnloadedRecord
  <2> QED
    BY <2>1, <2>2, <2>3, PersistedRecord DEF LeavesEmpty
<1>6. CASE r.current # NoEntry
  <2> DEFINE s == StartHistory(r, h)
             n == Len(h) + 1
  <2>1. /\ r \in Playbacks
        /\ r.current \in Queued(queue)
        /\ queue' = WithoutRow(queue, r.current)
        /\ r.revision = playback.revision
        /\ r.position = 0
        /\ ~r.pausedForEmpty
        /\ r.historyID = NoHistory
        /\ r.last = Contributor[r.current]
    BY <1>2, <1>4, <1>6, LoadNextLoads
  <2>2. Contributor[r.current] \in Eligible(queue, playback.last)
    BY <1>2, <1>4, <1>6, LoadNextEligible
  <2>3. playback' = Continued(s, now) /\ history' = HistoryStarted(r, h)
    BY <1>4, <1>6
  <2> HIDE DEF r
  <2>4. /\ s = Named(r, n)
        /\ history' = Append(h, [entry |-> r.current, finished |-> FALSE,
                                 played |-> 0])
    BY <1>3, <1>6, <2>1, <2>3, RowStarted
  <2>5. n \in Nat
    BY <1>3
  <2> HIDE DEF s, n
  <2>6. /\ s \in Playbacks
        /\ s.revision = playback.revision
        /\ ~s.pausedForEmpty
        /\ s.current = r.current
        /\ s.position = 0
        /\ s.historyID = n
        /\ s.last = Contributor[r.current]
    BY <2>1, <2>4, <2>5, NamedRecord
  <2>7. /\ IsPlaying
        /\ playback'.current = r.current
        /\ playback'.position = 0
        /\ playback'.historyID = n
        /\ playback'.last = Contributor[r.current]
    BY <2>3, <2>6, StartedPlays
  <2>8. LoadsAndStarts(r.current, h)
    BY <2>1, <2>4, <2>7 DEF n, LoadsAndStarts
  <2> QED
    BY <2>1, <2>2, <2>7, <2>8 DEF h
<1> QED
  BY <1>5, <1>6

LEMMA NextTrackKeeps ==
  ASSUME DataInv, now \in Nat, UNCHANGED added, NextTrack
  PROVE  DataInv' /\ playback'.revision = playback.revision + 1
<1> DEFINE h == HistoryFinished(Read, history)
<1>1. /\ h \in Seq(HistoryRows)
      /\ Len(h) = Len(history) /\ Len(h) \in Nat
      /\ \A i \in DOMAIN h :
           /\ h[i].entry = history[i].entry
           /\ h[i].finished
           /\ Duration[h[i].entry] > 0 => h[i].played <= Duration[h[i].entry]
  BY AllFinished
<1>2. ASSUME NEW e \in Queued(queue), IsPlaying, LoadsAndStarts(e, h)
      PROVE  DataInv' /\ playback'.revision = playback.revision + 1
  <2> HIDE DEF h
  <2>1. Duration[e] \in Nat /\ e # NoEntry
    BY DataAssumption DEF Queued
  <2>2. TransportIsCoherent'
    BY <1>1, <1>2, <2>1
       DEF IsPlaying, LoadsAndStarts, TransportIsCoherent, NoTime, NoHistory
  <2> QED
    BY <1>1, <1>2, <2>2, LoadAndStartKeeps DEF IsPlaying, LoadsAndStarts
<1> QED
  BY <1>2, NextEffect, LeaveEmptyKeeps

LEMMA CommandKeeps ==
  ASSUME DataInv, now \in Nat, UNCHANGED added, NEW op \in Ops, Command(op)
  PROVE  DataInv' /\ playback'.revision = playback.revision + 1
<1>1. CASE Play
  BY <1>1, PlayKeeps
<1>2. CASE Pause
  <2>1. Read \in Playbacks
    BY ReadRecord DEF DataInv
  <2> DEFINE b == Read.pausedForEmpty
  <2>2. b \in BOOLEAN
    BY <2>1 DEF Playbacks
  <2>3. [Read EXCEPT !.status = "paused", !.anchor = NoTime]
          = [Read EXCEPT !.status = "paused", !.pausedForEmpty = b,
                         !.anchor = NoTime]
    BY <2>1 DEF Playbacks
  <2>4. playback' = Paused(Read, b)
    BY <1>2, <2>3 DEF Pause, Paused
  <2> HIDE DEF b
  <2> QED
    BY <1>2, <2>2, <2>4, PauseKeeps DEF Pause
<1>3. ASSUME NEW p \in SeekPositions, Seek(p)
      PROVE  DataInv' /\ playback'.revision = playback.revision + 1
  BY <1>3, SeekKeeps, BoundAssumption
<1>4. CASE NextTrack
  BY <1>4, NextTrackKeeps
<1>5. CASE Stop
  BY <1>5, StopEffect, LeaveEmptyKeeps
<1> QED
  BY <1>1, <1>2, <1>3, <1>4, <1>5 DEF Command

-----------------------------------------------------------------------------
(* The inductive invariant.                                                *)

(* The state the store does not keep.                                      *)
ControlOK ==
  /\ roomStatus \in {"open", "closed"}
  /\ settings \in Settings
  /\ cmd \in [Managers -> Commands \cup {NoCmd}]
  /\ clock \in ClockStates
  /\ now \in Nat
  /\ restarts \in Nat

LEMMA RoomInvParts ==
  RoomInv <=> DataInv /\ ControlOK /\ RevisionIdentifiesPlayback
BY DEF RoomInv, DataInv, ControlOK, TypeOK, Tables

LEMMA RoomInvPartsNext ==
  RoomInv' <=> DataInv' /\ ControlOK' /\ RevisionIdentifiesPlayback'
BY DEF RoomInv, DataInv, ControlOK, TypeOK, Tables

(* A transaction that changes the playback outdates every command in       *)
(* flight and the clock's read.                                            *)
LEMMA NewRevision ==
  ASSUME RoomInv, ControlOK', playback' \in Playbacks,
         playback'.revision = playback.revision + 1,
         \A m \in Managers : cmd'[m] \in {cmd[m], NoCmd},
         clock'.at = "advance" => clock' = clock
  PROVE  RevisionIdentifiesPlayback'
<1>1. playback.revision \in Nat
  BY DEF RoomInv, TypeOK, Playbacks
<1>2. ASSUME NEW m \in Managers, cmd'[m] # NoCmd
      PROVE  /\ cmd'[m].expected <= playback'.revision
             /\ cmd'[m].expected # playback'.revision
  <2>1. cmd'[m] = cmd[m] /\ cmd[m] \in Commands
    BY <1>2 DEF RoomInv, TypeOK
  <2>2. cmd[m].expected \in Nat
    BY <2>1 DEF Commands
  <2>3. cmd[m].expected <= playback.revision
    BY <1>2, <2>1 DEF RoomInv, RevisionIdentifiesPlayback
  <2> QED
    BY <1>1, <2>1, <2>2, <2>3
<1>3. ASSUME clock'.at = "advance"
      PROVE  /\ clock'.revision <= playback'.revision
             /\ clock'.revision # playback'.revision
  <2>1. clock' = clock
    BY <1>3
  <2>2. clock.revision \in Nat
    BY DEF RoomInv, TypeOK, ClockStates
  <2>3. clock.revision <= playback.revision
    BY <1>3, <2>1 DEF RoomInv, RevisionIdentifiesPlayback
  <2> QED
    BY <1>1, <2>1, <2>2, <2>3
<1> QED
  BY <1>2, <1>3 DEF RevisionIdentifiesPlayback

(* Every other step leaves what the commands and the clock have seen.      *)
LEMMA SameRevision ==
  ASSUME RoomInv, UNCHANGED playback,
         \A m \in Managers : cmd'[m] \in {cmd[m], NoCmd},
         clock'.at = "advance" => clock' = clock,
         TrackFinished => TrackFinished'
  PROVE  RevisionIdentifiesPlayback'
BY DEF RoomInv, RevisionIdentifiesPlayback

(* Time never takes a finished track back.                                 *)
LEMMA FinishedStays ==
  ASSUME RoomInv, UNCHANGED playback, now' \in Nat, now <= now', TrackFinished
  PROVE  TrackFinished'
<1> DEFINE e == playback.current
           p == playback.position + (now - playback.anchor)
           r == playback.position + (now' - playback.anchor)
<1>1. /\ playback.status = "playing"
      /\ e # NoEntry
      /\ Duration[e] > 0
      /\ EffectivePosition(playback, now) >= Duration[e]
  BY DEF TrackFinished
<1>2. playback.anchor # NoTime
  BY <1>1 DEF RoomInv, TransportIsCoherent
<1>3. /\ playback.position \in Nat /\ playback.anchor \in Nat
      /\ now \in Nat /\ e \in Entries
  BY <1>1, <1>2 DEF RoomInv, TypeOK, Playbacks
<1>4. Duration[e] \in Nat
  BY <1>3, DataAssumption
<1>5. /\ EffectivePosition(playback, now) = Clamp(p, e)
      /\ EffectivePosition(playback, now') = Clamp(r, e)
  BY <1>1, <1>2 DEF EffectivePosition
<1>6. p \in Int /\ r \in Int /\ p <= r
  BY <1>3
<1>7. Clamp(p, e) >= Duration[e]
  BY <1>1, <1>5
<1> HIDE DEF p, r
<1>8. Clamp(r, e) >= Duration[e]
  BY <1>1, <1>4, <1>6, <1>7 DEF Clamp
<1> QED
  BY <1>1, <1>5, <1>8 DEF TrackFinished

-----------------------------------------------------------------------------
(* One lemma per kind of step.                                             *)

LEMMA InitInv == Init => RoomInv
<1> SUFFICES ASSUME Init PROVE RoomInv
  OBVIOUS
<1>1. Queued(queue) = {} /\ queue \in Tables
  BY DEF Init, Queued, Tables
<1>2. Cardinality({}) = 0
  BY FS_EmptySet
<1>3. QueueIsDense
  BY <1>1, <1>2 DEF QueueIsDense, Dense
<1>4. playback \in Playbacks
  BY DEF Init, Playbacks, Statuses, NoTime, NoHistory
<1>5. history \in Seq(HistoryRows) /\ DOMAIN history = {}
  BY DEF Init
<1>6. ControlOK
  BY DEF Init, ControlOK, ClockStates
<1>7. TransportIsCoherent
  BY DEF Init, TransportIsCoherent, NoTime, NoHistory
<1>8. HistoryIsCoherent /\ PlayedAtMostOnce /\ OnlyAddedEntries
  BY <1>1, <1>5 DEF Init, HistoryIsCoherent, PlayedAtMostOnce,
                    OnlyAddedEntries, NoHistory
<1>9. RevisionIdentifiesPlayback
  BY DEF Init, RevisionIdentifiesPlayback
<1> QED
  BY <1>1, <1>3, <1>4, <1>5, <1>6, <1>7, <1>8, <1>9, RoomInvParts
     DEF DataInv, Init

LEMMA AddStep ==
  ASSUME RoomInv, NEW e \in Entries, AddQueueEntry(e)
  PROVE  RoomInv'
<1> DEFINE q == [queue EXCEPT ![e] = MaxPosition(queue) + 1]
<1>1. DataInv /\ ControlOK /\ RevisionIdentifiesPlayback
  BY RoomInvParts
<1>2. /\ e \notin added
      /\ added' = added \cup {e}
      /\ UNCHANGED <<roomStatus, settings, history, cmd, clock, now, restarts>>
  BY DEF AddQueueEntry
<1>3. e \notin Queued(queue)
  BY <1>1, <1>2 DEF DataInv, OnlyAddedEntries
<1>4. q \in Tables /\ Queued(q) = Queued(queue) \cup {e} /\ Dense(q)
  BY <1>1, <1>3, InsertDense DEF DataInv, QueueIsDense
<1>5. ControlOK'
  BY <1>1, <1>2 DEF ControlOK
<1>6. CASE playback.current # NoEntry
  <2>1. queue' = q /\ UNCHANGED playback
    BY <1>6 DEF AddQueueEntry
  <2>2. /\ \A i \in DOMAIN history : history[i].entry # e
        /\ playback.current # e
    BY <1>1, <1>2, <1>6 DEF DataInv, OnlyAddedEntries
  <2>3. DataInv'
    <3>1. queue' \in Tables /\ QueueIsDense' /\ Queued(queue') = Queued(queue) \cup {e}
      BY <1>4, <2>1 DEF QueueIsDense
    <3>2. playback' \in Playbacks /\ TransportIsCoherent'
      BY <1>1, <2>1 DEF DataInv, TransportIsCoherent
    <3>3. history' \in Seq(HistoryRows) /\ HistoryIsCoherent'
      BY <1>1, <1>2, <2>1 DEF DataInv, HistoryIsCoherent
    <3>4. added' \subseteq Entries /\ OnlyAddedEntries'
      BY <1>1, <1>2, <2>1, <3>1 DEF DataInv, OnlyAddedEntries
    <3>5. PlayedAtMostOnce'
      BY <1>1, <1>2, <2>1, <2>2, <3>1 DEF DataInv, PlayedAtMostOnce
    <3> QED
      BY <3>1, <3>2, <3>3, <3>4, <3>5 DEF DataInv
  <2>4. RevisionIdentifiesPlayback'
    BY <1>2, <2>1, SameRevision DEF TrackFinished, EffectivePosition
  <2> QED
    BY <1>5, <2>3, <2>4, RoomInvPartsNext
<1>7. CASE playback.current = NoEntry
  <2>1. PrimeNext(q)
    BY <1>7 DEF AddQueueEntry
  <2>2. \A i \in DOMAIN history : history[i].entry \notin Queued(q)
    BY <1>1, <1>2, <1>4 DEF DataInv, OnlyAddedEntries, PlayedAtMostOnce
  <2>3. /\ now \in Nat /\ UNCHANGED history
        /\ added' \subseteq Entries /\ added \subseteq added'
        /\ Queued(q) \subseteq added'
    BY <1>1, <1>2, <1>4 DEF DataInv, ControlOK, OnlyAddedEntries
  <2> HIDE DEF q
  <2>4. DataInv' /\ playback'.revision = playback.revision + 1
    BY <1>1, <1>4, <1>7, <2>1, <2>2, <2>3, PrimeKeeps
  <2>5. RevisionIdentifiesPlayback'
    BY <1>2, <1>5, <2>4, NewRevision DEF DataInv
  <2> QED
    BY <1>5, <2>4, <2>5, RoomInvPartsNext
<1> QED
  BY <1>6, <1>7

LEMMA RemoveStep ==
  ASSUME RoomInv, NEW e \in Entries, RemoveQueueEntry(e)
  PROVE  RoomInv'
<1>1. DataInv /\ ControlOK /\ RevisionIdentifiesPlayback
  BY RoomInvParts
<1>2. /\ queue' = WithoutRow(queue, e)
      /\ UNCHANGED <<roomStatus, settings, playback, history, added, cmd,
                     clock, now, restarts>>
  BY DEF RemoveQueueEntry
<1>3. /\ queue' \in Tables
      /\ Queued(queue') = Queued(queue) \ {e}
      /\ Dense(queue')
  BY <1>1, <1>2, WithoutRowDense DEF DataInv, QueueIsDense
<1>4. DataInv'
  BY <1>1, <1>2, <1>3
     DEF DataInv, QueueIsDense, OnlyAddedEntries, TransportIsCoherent,
         HistoryIsCoherent, PlayedAtMostOnce
<1>5. ControlOK'
  BY <1>1, <1>2 DEF ControlOK
<1>6. RevisionIdentifiesPlayback'
  BY <1>2, SameRevision DEF TrackFinished, EffectivePosition
<1> QED
  BY <1>4, <1>5, <1>6, RoomInvPartsNext

LEMMA ReorderStep ==
  ASSUME RoomInv, NEW index, ReorderQueue(index)
  PROVE  RoomInv'
<1> DEFINE Q == Queued(queue)
           n == Cardinality(Q)
<1>1. DataInv /\ ControlOK /\ RevisionIdentifiesPlayback
  BY RoomInvParts
<1>2. /\ index \in Bijection(Q, 1..n)
      /\ queue' = [x \in Entries |-> IF x \in Q THEN index[x] ELSE 0]
      /\ UNCHANGED <<roomStatus, settings, playback, history, added, cmd,
                     clock, now, restarts>>
  BY DEF ReorderQueue
<1>3. n \in Nat /\ Q \subseteq Entries
  BY QueuedFinite DEF Queued
<1>4. /\ index \in [Q -> 1..n]
      /\ \A t \in 1..n : \E x \in Q : index[x] = t
  BY <1>2 DEF Bijection, Surjection
<1> HIDE DEF n, Q
<1>5. \A x \in Q : queue'[x] = index[x] /\ index[x] \in 1..n /\ index[x] # 0
  BY <1>2, <1>3, <1>4
<1>6. queue' \in Tables
  BY <1>2, <1>3, <1>4 DEF Tables
<1>7. Queued(queue') = Q
  BY <1>2, <1>3, <1>5 DEF Queued
<1>8. {queue'[x] : x \in Q} = 1..n
  BY <1>4, <1>5
<1>9. Dense(queue')
  BY <1>7, <1>8 DEF Dense, n
<1>10. Queued(queue') = Queued(queue)
  BY <1>7 DEF Q
<1>11. DataInv'
  BY <1>1, <1>2, <1>6, <1>9, <1>10
     DEF DataInv, QueueIsDense, OnlyAddedEntries, TransportIsCoherent,
         HistoryIsCoherent, PlayedAtMostOnce
<1>12. ControlOK'
  BY <1>1, <1>2 DEF ControlOK
<1>13. RevisionIdentifiesPlayback'
  BY <1>2, SameRevision DEF TrackFinished, EffectivePosition
<1> QED
  BY <1>11, <1>12, <1>13, RoomInvPartsNext

(* Steps that touch neither the store's tables nor the playback.           *)
LEMMA ControlKeepsData ==
  ASSUME RoomInv, UNCHANGED <<playback, queue, history, added>>
  PROVE  DataInv'
<1>1. DataInv
  BY RoomInvParts
<1> QED
  BY <1>1 DEF DataInv, QueueIsDense, OnlyAddedEntries, TransportIsCoherent,
              HistoryIsCoherent, PlayedAtMostOnce

LEMMA SendStep ==
  ASSUME RoomInv, NEW m \in Managers, NEW op \in Ops, SendCommand(m, op)
  PROVE  RoomInv'
<1> DEFINE c == [op |-> op, expected |-> playback.revision, seen |-> playback]
<1>1. DataInv /\ ControlOK /\ RevisionIdentifiesPlayback
  BY RoomInvParts
<1>2. /\ cmd' = [cmd EXCEPT ![m] = c]
      /\ UNCHANGED <<roomStatus, settings, playback, queue, history, added,
                     clock, now, restarts>>
  BY DEF SendCommand
<1>3. DataInv'
  BY <1>2, ControlKeepsData
<1>4. playback.revision \in Nat /\ playback \in Playbacks
  BY <1>1 DEF DataInv, Playbacks
<1>5. c \in Commands
  BY <1>4 DEF Commands
<1>6. ControlOK'
  BY <1>1, <1>2, <1>5 DEF ControlOK
<1>7. c.expected = playback.revision /\ c.seen = playback
  OBVIOUS
<1> HIDE DEF c
<1>8. cmd'[m] = c /\ \A k \in Managers : k # m => cmd'[k] = cmd[k]
  BY <1>1, <1>2 DEF ControlOK
<1>9. TrackFinished' <=> TrackFinished
  BY <1>2 DEF TrackFinished, EffectivePosition
<1>10. \A k \in Managers : cmd'[k] # NoCmd =>
         /\ cmd'[k].expected <= playback'.revision
         /\ cmd'[k].expected = playback'.revision => cmd'[k].seen = playback'
  BY <1>1, <1>2, <1>4, <1>7, <1>8 DEF RevisionIdentifiesPlayback
<1>11. RevisionIdentifiesPlayback'
  BY <1>1, <1>2, <1>9, <1>10 DEF RevisionIdentifiesPlayback
<1> QED
  BY <1>3, <1>6, <1>11, RoomInvPartsNext

LEMMA RejectStep ==
  ASSUME RoomInv, NEW m \in Managers, RejectCommand(m)
  PROVE  RoomInv'
<1>1. ControlOK
  BY RoomInvParts
<1>2. /\ cmd' = [cmd EXCEPT ![m] = NoCmd]
      /\ UNCHANGED <<roomStatus, settings, playback, queue, history, added,
                     clock, now, restarts>>
  BY DEF RejectCommand
<1>3. DataInv'
  BY <1>2, ControlKeepsData
<1>4. ControlOK' /\ \A k \in Managers : cmd'[k] \in {cmd[k], NoCmd}
  BY <1>1, <1>2 DEF ControlOK
<1>5. RevisionIdentifiesPlayback'
  BY <1>2, <1>4, SameRevision DEF TrackFinished, EffectivePosition
<1> QED
  BY <1>3, <1>4, <1>5, RoomInvPartsNext

LEMMA ApplyStep ==
  ASSUME RoomInv, NEW m \in Managers, ApplyPlayback(m)
  PROVE  RoomInv'
<1>1. DataInv /\ ControlOK
  BY RoomInvParts
<1>2. /\ cmd[m] # NoCmd
      /\ Command(cmd[m].op)
      /\ cmd' = [cmd EXCEPT ![m] = NoCmd]
      /\ UNCHANGED <<roomStatus, settings, added, clock, now, restarts>>
  BY DEF ApplyPlayback
<1>3. cmd[m].op \in Ops
  BY <1>1, <1>2 DEF ControlOK, Commands
<1>4. now \in Nat
  BY <1>1 DEF ControlOK
<1>5. DataInv' /\ playback'.revision = playback.revision + 1
  BY <1>1, <1>2, <1>3, <1>4, CommandKeeps
<1>6. ControlOK' /\ \A k \in Managers : cmd'[k] \in {cmd[k], NoCmd}
  BY <1>1, <1>2 DEF ControlOK
<1>7. RevisionIdentifiesPlayback'
  BY <1>2, <1>5, <1>6, NewRevision DEF DataInv
<1> QED
  BY <1>5, <1>6, <1>7, RoomInvPartsNext

LEMMA PauseForEmptyStep ==
  ASSUME RoomInv, PauseForEmpty
  PROVE  RoomInv'
<1>1. DataInv /\ ControlOK
  BY RoomInvParts
<1>2. /\ playback.current # NoEntry
      /\ playback' = Paused(Read, TRUE)
      /\ UNCHANGED <<roomStatus, settings, queue, history, added, cmd, clock,
                     now, restarts>>
  BY DEF PauseForEmpty, Paused
<1>3. now \in Nat
  BY <1>1 DEF ControlOK
<1>4. DataInv' /\ playback'.revision = playback.revision + 1
  BY <1>1, <1>2, <1>3, PauseKeeps
<1>5. ControlOK'
  BY <1>1, <1>2 DEF ControlOK
<1>6. RevisionIdentifiesPlayback'
  BY <1>2, <1>4, <1>5, NewRevision DEF DataInv
<1> QED
  BY <1>4, <1>5, <1>6, RoomInvPartsNext

LEMMA ClockStepKeeps ==
  ASSUME RoomInv, ClockStep
  PROVE  RoomInv'
<1>1. DataInv /\ ControlOK /\ RevisionIdentifiesPlayback
  BY RoomInvParts
<1>2. now \in Nat /\ playback.revision \in Nat
  BY <1>1 DEF DataInv, ControlOK, Playbacks
<1>3. Idle \in ClockStates /\ Idle.at # "advance"
  BY DEF Idle, ClockStates
<1>4. CASE ListIdleRooms
  <2>1. /\ UNCHANGED <<roomStatus, settings, playback, queue, history, added,
                       cmd, now, restarts>>
        /\ clock' \in {[at |-> "prime", revision |-> 0], Idle}
    BY <1>4 DEF ListIdleRooms
  <2>2. clock' \in ClockStates /\ clock'.at # "advance"
    BY <1>3, <2>1 DEF ClockStates
  <2>3. ControlOK'
    BY <1>1, <2>1, <2>2 DEF ControlOK
  <2>4. DataInv'
    BY <2>1, ControlKeepsData
  <2>5. RevisionIdentifiesPlayback'
    BY <2>1, <2>2, SameRevision DEF TrackFinished, EffectivePosition
  <2> QED
    BY <2>3, <2>4, <2>5, RoomInvPartsNext
<1>5. CASE PrimePlaybackIfIdle
  <2>1. /\ clock' = Idle
        /\ UNCHANGED <<roomStatus, settings, history, added, cmd, now, restarts>>
    BY <1>5 DEF PrimePlaybackIfIdle
  <2>2. ControlOK'
    BY <1>1, <1>3, <2>1 DEF ControlOK
  <2>3. CASE UNCHANGED <<playback, queue>>
    <3>1. DataInv'
      BY <2>1, <2>3, ControlKeepsData
    <3>2. RevisionIdentifiesPlayback'
      BY <1>3, <2>1, <2>3, SameRevision DEF TrackFinished, EffectivePosition
    <3> QED
      BY <2>2, <3>1, <3>2, RoomInvPartsNext
  <2>4. CASE playback.current = NoEntry /\ PrimeNext(queue)
    <3>1. /\ queue \in Tables /\ Dense(queue)
          /\ added' \subseteq Entries /\ added \subseteq added'
          /\ Queued(queue) \subseteq added'
      BY <1>1, <2>1 DEF DataInv, QueueIsDense, OnlyAddedEntries
    <3>2. \A i \in DOMAIN history : history[i].entry \notin Queued(queue)
      BY <1>1 DEF DataInv, PlayedAtMostOnce
    <3>3. DataInv' /\ playback'.revision = playback.revision + 1
      BY <1>1, <1>2, <2>1, <2>4, <3>1, <3>2, PrimeKeeps
    <3>4. RevisionIdentifiesPlayback'
      BY <1>3, <2>1, <2>2, <3>3, NewRevision DEF DataInv
    <3> QED
      BY <2>2, <3>3, <3>4, RoomInvPartsNext
  <2> QED
    BY <1>5, <2>3, <2>4 DEF PrimePlaybackIfIdle
<1>6. CASE ObserveFinished
  <2>1. /\ TrackFinished
        /\ clock' = [at |-> "advance", revision |-> playback.revision]
        /\ UNCHANGED <<roomStatus, settings, playback, queue, history, added,
                       cmd, now, restarts>>
    BY <1>6 DEF ObserveFinished
  <2>2. clock' \in ClockStates /\ clock'.revision = playback.revision
    BY <1>2, <2>1 DEF ClockStates
  <2>3. ControlOK'
    BY <1>1, <2>1, <2>2 DEF ControlOK
  <2>4. DataInv'
    BY <2>1, ControlKeepsData
  <2>5. TrackFinished'
    BY <2>1 DEF TrackFinished, EffectivePosition
  <2>6. RevisionIdentifiesPlayback'
    BY <1>1, <1>2, <2>1, <2>2, <2>5 DEF RevisionIdentifiesPlayback
  <2> QED
    BY <2>3, <2>4, <2>6, RoomInvPartsNext
<1>7. CASE AdvanceFinished
  <2>1. /\ clock' = Idle
        /\ UNCHANGED <<roomStatus, settings, added, cmd, now, restarts>>
    BY <1>7 DEF AdvanceFinished
  <2>2. ControlOK'
    BY <1>1, <1>3, <2>1 DEF ControlOK
  <2>3. CASE UNCHANGED <<playback, queue, history>>
    <3>1. DataInv'
      BY <2>1, <2>3, ControlKeepsData
    <3>2. RevisionIdentifiesPlayback'
      BY <1>3, <2>1, <2>3, SameRevision DEF TrackFinished, EffectivePosition
    <3> QED
      BY <2>2, <3>1, <3>2, RoomInvPartsNext
  <2>4. CASE NextTrack
    <3>1. DataInv' /\ playback'.revision = playback.revision + 1
      BY <1>1, <1>2, <2>1, <2>4, NextTrackKeeps
    <3>2. RevisionIdentifiesPlayback'
      BY <1>3, <2>1, <2>2, <3>1, NewRevision DEF DataInv
    <3> QED
      BY <2>2, <3>1, <3>2, RoomInvPartsNext
  <2> QED
    BY <1>7, <2>3, <2>4 DEF AdvanceFinished
<1> QED
  BY <1>4, <1>5, <1>6, <1>7 DEF ClockStep

LEMMA EnvironmentStep ==
  ASSUME RoomInv, RoomStep \/ Restart \/ Tick
  PROVE  RoomInv'
<1>1. DataInv /\ ControlOK
  BY RoomInvParts
<1>2. UNCHANGED <<playback, queue, history, added>>
  BY DEF RoomStep, UpdateRoom, SetRoomStatus, Restart, Tick
<1>3. DataInv'
  BY <1>2, ControlKeepsData
<1>4. CASE RoomStep
  <2>1. /\ UNCHANGED <<cmd, clock, now, restarts>>
        /\ roomStatus' \in {"open", "closed"} /\ settings' \in Settings
    BY <1>1, <1>4 DEF RoomStep, UpdateRoom, SetRoomStatus, ControlOK
  <2>2. ControlOK'
    BY <1>1, <2>1 DEF ControlOK
  <2>3. RevisionIdentifiesPlayback'
    BY <1>2, <2>1, SameRevision DEF TrackFinished, EffectivePosition
  <2> QED
    BY <1>3, <2>2, <2>3, RoomInvPartsNext
<1>5. CASE Restart
  <2>1. /\ restarts' = restarts + 1
        /\ cmd' = [m \in Managers |-> NoCmd]
        /\ clock' = [at |-> "startup", revision |-> 0]
        /\ UNCHANGED <<roomStatus, settings, now>>
    BY <1>5 DEF Restart
  <2>2. ControlOK'
    BY <1>1, <2>1 DEF ControlOK, ClockStates
  <2>3. RevisionIdentifiesPlayback'
    BY <2>1 DEF RevisionIdentifiesPlayback
  <2> QED
    BY <1>3, <2>2, <2>3, RoomInvPartsNext
<1>6. CASE Tick
  <2>1. now' = now + 1 /\ UNCHANGED <<roomStatus, settings, cmd, clock, restarts>>
    BY <1>6 DEF Tick
  <2>2. now \in Nat /\ now' \in Nat /\ now <= now'
    BY <1>1, <2>1 DEF ControlOK
  <2>3. ControlOK'
    BY <1>1, <2>1, <2>2 DEF ControlOK
  <2>4. TrackFinished => TrackFinished'
    BY <1>2, <2>2, FinishedStays
  <2>5. RevisionIdentifiesPlayback'
    BY <1>2, <2>1, <2>4, SameRevision
  <2> QED
    BY <1>3, <2>3, <2>5, RoomInvPartsNext
<1> QED
  BY <1>4, <1>5, <1>6

LEMMA StutterStep ==
  ASSUME RoomInv, UNCHANGED vars
  PROVE  RoomInv'
<1>1. DataInv /\ ControlOK
  BY RoomInvParts
<1>2. DataInv'
  BY ControlKeepsData DEF vars
<1>3. ControlOK'
  BY <1>1 DEF vars, ControlOK
<1>4. RevisionIdentifiesPlayback'
  BY SameRevision DEF vars, TrackFinished, EffectivePosition
<1> QED
  BY <1>2, <1>3, <1>4, RoomInvPartsNext

LEMMA NextInv == RoomInv /\ [Next]_vars => RoomInv'
<1> SUFFICES ASSUME RoomInv, [Next]_vars PROVE RoomInv'
  OBVIOUS
<1>1. CASE QueueStep
  BY <1>1, AddStep, RemoveStep, ReorderStep DEF QueueStep
<1>2. CASE CommandStep
  BY <1>2, SendStep, ApplyStep, RejectStep DEF CommandStep
<1>3. CASE PauseForEmpty
  BY <1>3, PauseForEmptyStep
<1>4. CASE ClockStep
  BY <1>4, ClockStepKeeps
<1>5. CASE RoomStep \/ Restart \/ Tick
  BY <1>5, EnvironmentStep
<1>6. CASE UNCHANGED vars
  BY <1>6, StutterStep
<1> QED
  BY <1>1, <1>2, <1>3, <1>4, <1>5, <1>6 DEF Next

-----------------------------------------------------------------------------
(* What a step may do to the playback.                                     *)

(* What an idle room is primed from: its queue, or the queue with the row  *)
(* of the entry just added.                                                *)
QueuedOrAdded(q) ==
  \/ q = queue
  \/ \E e \in Entries : q = [queue EXCEPT ![e] = MaxPosition(queue) + 1]

(* The playback changes by priming an idle room, by an accepted command,   *)
(* by a pause for emptiness or by the clock, and in no time.               *)
LEMMA PlaybackSteps ==
  ASSUME [Next]_vars, playback' # playback
  PROVE  /\ now' = now
         /\ \/ /\ playback.current = NoEntry
               /\ \E q : PrimeNext(q) /\ QueuedOrAdded(q)
               /\ clock' = clock \/ clock.at = "prime"
            \/ \E m \in Managers : /\ cmd[m] # NoCmd
                                   /\ cmd' = [cmd EXCEPT ![m] = NoCmd]
                                   /\ clock' = clock
                                   /\ Command(cmd[m].op)
            \/ PauseForEmpty
            \/ /\ clock.at = "advance" /\ clock.revision = playback.revision
               /\ clock' = Idle
               /\ NextTrack
<1>1. CASE QueueStep
  <2>1. PICK e \in Entries : AddQueueEntry(e)
    BY <1>1 DEF QueueStep, RemoveQueueEntry, ReorderQueue
  <2> QED
    BY <2>1 DEF AddQueueEntry, QueuedOrAdded
<1>2. CASE CommandStep
  <2>1. PICK m \in Managers : ApplyPlayback(m)
    BY <1>2 DEF CommandStep, SendCommand, RejectCommand
  <2> QED
    BY <2>1 DEF ApplyPlayback
<1>3. CASE PauseForEmpty
  BY <1>3 DEF PauseForEmpty
<1>4. CASE ClockStep
  BY <1>4 DEF ClockStep, ListIdleRooms, PrimePlaybackIfIdle, ObserveFinished,
              AdvanceFinished, QueuedOrAdded
<1>5. CASE RoomStep \/ Restart \/ Tick
  BY <1>5 DEF RoomStep, UpdateRoom, SetRoomStatus, Restart, Tick
<1>6. CASE UNCHANGED vars
  BY <1>6 DEF vars
<1> QED
  BY <1>1, <1>2, <1>3, <1>4, <1>5, <1>6 DEF Next

(* Priming loads a waiting track and leaves it paused at its beginning.    *)
LEMMA PrimeEffect ==
  ASSUME DataInv, now \in Nat, NEW q, PrimeNext(q)
  PROVE  \E e \in Queued(q) : /\ queue' = WithoutRow(q, e)
                              /\ playback'.current = e
                              /\ playback'.historyID = NoHistory
                              /\ Contributor[e] \in Eligible(q, playback.last)
<1>1. PICK out \in LoadNext(Read, q) :
         /\ out.rec.current # NoEntry
         /\ playback' = Persisted(Primed(out.rec))
         /\ queue' = out.queue
  BY DEF PrimeNext
<1>2. Read \in Playbacks /\ Read.last = playback.last
  BY ReadRecord DEF DataInv
<1> DEFINE r == out.rec
<1>3. /\ r \in Playbacks
      /\ r.current \in Queued(q)
      /\ queue' = WithoutRow(q, r.current)
      /\ r.historyID = NoHistory
      /\ Contributor[r.current] \in Eligible(q, playback.last)
  BY <1>1, <1>2, LoadNextLoads, LoadNextEligible
<1>4. playback' = Persisted(Primed(r))
  BY <1>1
<1> HIDE DEF r
<1>5. playback'.current = r.current /\ playback'.historyID = NoHistory
  BY <1>3, <1>4, PrimedRecord, PersistedRecord
<1> QED
  BY <1>3, <1>5

(* Pausing and seeking leave the track and its row.                        *)
LEMMA PauseEffect ==
  ASSUME DataInv, now \in Nat, Pause \/ PauseForEmpty
  PROVE  /\ playback.current # NoEntry
         /\ playback'.status = "paused"
         /\ playback'.position = Read.position
         /\ playback'.current = playback.current
         /\ playback'.historyID = playback.historyID
         /\ UNCHANGED <<queue, history>>
<1>1. /\ Read \in Playbacks
      /\ Read.current = playback.current
      /\ Read.historyID = playback.historyID
  BY ReadRecord DEF DataInv
<1> DEFINE b == Read.pausedForEmpty
<1>2. b \in BOOLEAN
  BY <1>1 DEF Playbacks
<1>3. [Read EXCEPT !.status = "paused", !.anchor = NoTime]
        = [Read EXCEPT !.status = "paused", !.pausedForEmpty = b, !.anchor = NoTime]
  BY <1>1 DEF Playbacks
<1>4. \E c \in BOOLEAN : playback' = Paused(Read, c)
  BY <1>2, <1>3 DEF Pause, PauseForEmpty, Paused
<1> QED
  BY <1>1, <1>4, PausedRecord DEF Pause, PauseForEmpty

LEMMA SeekEffect ==
  ASSUME DataInv, now \in Nat, NEW p, Seek(p)
  PROVE  /\ playback.current # NoEntry
         /\ playback'.current = playback.current
         /\ playback'.historyID = playback.historyID
         /\ UNCHANGED <<queue, history>>
BY ReadRecord DEF DataInv, Seek, Persisted, Playbacks

(* A loaded track gives way to a waiting one of an eligible contributor,   *)
(* which is then playing, or leaves the room empty: for want of another,   *)
(* or by a manager's stop.                                                 *)
LEMMA TrackChanges ==
  ASSUME RoomInv, [Next]_vars,
         playback.current # NoEntry, playback'.current # playback.current
  PROVE  \/ /\ playback'.current \in Queued(queue)
            /\ Contributor[playback'.current] \in Eligible(queue, playback.last)
         \/ /\ playback'.current = NoEntry /\ UNCHANGED queue
            /\ \/ Queued(queue) = {}
               \/ \E m \in Managers : /\ cmd[m] # NoCmd /\ cmd'[m] = NoCmd
                                      /\ cmd[m].op = "stop"
<1>1. DataInv /\ ControlOK /\ now \in Nat
  BY RoomInvParts DEF ControlOK
<1>2. CASE NextTrack
  BY <1>1, <1>2, NextEffect DEF LeavesEmpty, LoadsAndStarts
<1>3. ASSUME NEW m \in Managers, cmd[m] # NoCmd,
             cmd' = [cmd EXCEPT ![m] = NoCmd], Command(cmd[m].op)
      PROVE  NextTrack \/ (cmd[m].op = "stop" /\ Stop)
  <2>1. ~Play
    <3> SUFFICES ASSUME Play PROVE FALSE
      OBVIOUS
    <3>1. Resumes \/ StartsFirst
      BY <1>1, PlayEffect
    <3> QED
      BY <3>1 DEF Resumes, StartsFirst
  <2>2. ~Pause /\ \A p \in SeekPositions : ~Seek(p)
    BY <1>1, PauseEffect, SeekEffect
  <2> QED
    BY <1>3, <2>1, <2>2 DEF Command
<1>4. ASSUME NEW m \in Managers, cmd[m] # NoCmd, cmd[m].op = "stop",
             cmd' = [cmd EXCEPT ![m] = NoCmd], Stop
      PROVE  /\ playback'.current = NoEntry /\ UNCHANGED queue
             /\ cmd[m] # NoCmd /\ cmd'[m] = NoCmd /\ cmd[m].op = "stop"
  BY <1>1, <1>4, StopEffect DEF LeavesEmpty, ControlOK
<1>5. ~PauseForEmpty
  BY <1>1, PauseEffect
<1>6. playback' # playback
  OBVIOUS
<1> QED
  BY <1>2, <1>3, <1>4, <1>5, <1>6, PlaybackSteps

(* Loading takes rows out of the queue it loads from and puts none in.     *)
LEMMA LoadedLeavesRows ==
  ASSUME NEW q, DOMAIN q = Entries, NEW e \in Entries
  PROVE  Queued(WithoutRow(q, e)) \subseteq Queued(q)
BY DEF WithoutRow, Normalized, Queued

(* If an eligible track is of the contributor loaded last, nobody else's   *)
(* was waiting.                                                            *)
LEMMA EligibleLast ==
  ASSUME NEW q, DOMAIN q = Entries, NEW e \in Queued(q), NEW last,
         Contributor[e] \in Eligible(q, last), Contributor[e] = last
  PROVE  \A f \in Queued(WithoutRow(q, e)) : Contributor[f] = last
<1>1. Contributor[e] \in Waiting(q)
  BY DEF Waiting
<1>2. \A c, d \in Waiting(q) : c = d
  BY DEF Eligible
<1>3. SUFFICES ASSUME NEW f \in Queued(q) PROVE Contributor[f] = last
  BY LoadedLeavesRows DEF Queued
<1>4. Contributor[f] \in Waiting(q)
  BY DEF Waiting
<1> QED
  BY <1>1, <1>2, <1>4

(* Every load, by a command, by the clock or into an idle room, takes an   *)
(* eligible row of the queue as it is, or as an added entry leaves it.     *)
LEMMA LoadsAreEligible ==
  ASSUME RoomInv, [Next]_vars,
         playback'.current # NoEntry, playback'.current # playback.current
  PROVE  \E q : /\ DOMAIN q = Entries
               /\ playback'.current \in Queued(q)
               /\ queue' = WithoutRow(q, playback'.current)
               /\ Contributor[playback'.current] \in Eligible(q, playback.last)
<1>1. DataInv /\ ControlOK /\ now \in Nat
  BY RoomInvParts DEF ControlOK
<1>2. DOMAIN queue = Entries
  BY <1>1 DEF DataInv, Tables
<1>3. ASSUME NEW q, PrimeNext(q), QueuedOrAdded(q)
      PROVE  /\ DOMAIN q = Entries
             /\ playback'.current \in Queued(q)
             /\ queue' = WithoutRow(q, playback'.current)
             /\ Contributor[playback'.current] \in Eligible(q, playback.last)
  <2>1. DOMAIN q = Entries
    BY <1>2, <1>3 DEF QueuedOrAdded
  <2> QED
    BY <1>1, <1>3, <2>1, PrimeEffect
<1>4. CASE NextTrack
  BY <1>1, <1>2, <1>4, NextEffect DEF LeavesEmpty, LoadsAndStarts
<1>5. CASE Play
  BY <1>1, <1>2, <1>5, PlayEffect DEF Resumes, StartsFirst, LoadsAndStarts
<1>6. ASSUME NEW m \in Managers, Command(cmd[m].op) PROVE NextTrack \/ Play
  BY <1>1, <1>6, PauseEffect, SeekEffect, StopEffect DEF Command, LeavesEmpty
<1>7. ~PauseForEmpty
  BY <1>1, PauseEffect
<1>8. playback' # playback
  OBVIOUS
<1> QED
  BY <1>3, <1>4, <1>5, <1>6, <1>7, <1>8, PlaybackSteps

LEMMA TakesTurns ==
  ASSUME RoomInv, [Next]_vars,
         playback'.current # NoEntry, playback'.current # playback.current,
         Contributor[playback'.current] = playback.last
  PROVE  \A e \in Queued(queue') : Contributor[e] = playback.last
BY LoadsAreEligible, EligibleLast

(* A step that leaves the room without a track leaves the contributor to   *)
(* be passed over as he was.                                               *)
LEMMA TurnIsRemembered ==
  ASSUME RoomInv, [Next]_vars, playback'.current = NoEntry
  PROVE  playback'.last = playback.last
<1>1. DataInv /\ ControlOK /\ now \in Nat
  BY RoomInvParts DEF ControlOK
<1>2. CASE playback' = playback
  BY <1>2
<1>3. CASE playback' # playback
  <2>1. NoEntry \notin Queued(queue)
    BY DataAssumption DEF Queued
  <2>2. ASSUME NEW q, PrimeNext(q) PROVE FALSE
    <3>1. NoEntry \notin Queued(q)
      BY DataAssumption DEF Queued
    <3> QED
      BY <1>1, <2>2, <3>1, PrimeEffect
  <2>3. CASE NextTrack
    BY <1>1, <2>1, <2>3, NextEffect DEF LeavesEmpty, LoadsAndStarts
  <2>4. CASE Stop
    BY <1>1, <2>4, StopEffect DEF LeavesEmpty
  <2>5. ~Play
    BY <1>1, <2>1, PlayEffect DEF Resumes, StartsFirst, LoadsAndStarts
  <2>6. ASSUME NEW m \in Managers, Command(cmd[m].op) PROVE NextTrack \/ Stop
    BY <1>1, <2>5, <2>6, PauseEffect, SeekEffect DEF Command
  <2>7. ~PauseForEmpty
    BY <1>1, PauseEffect
  <2> QED
    BY <1>3, <2>2, <2>3, <2>4, <2>6, <2>7, PlaybackSteps
<1> QED
  BY <1>2, <1>3

(* Closing the row of a finished track writes the track's full length.     *)
LEMMA FinishedRowIsFull ==
  ASSUME DataInv, now \in Nat, TrackFinished,
         NEW h, h = HistoryFinished(Read, history)
  PROVE  /\ playback.historyID \in DOMAIN history
         /\ h[playback.historyID].played = Duration[playback.current]
<1> DEFINE k == playback.historyID
           e == playback.current
           p == Clamp(Read.position, e)
<1>1. /\ e # NoEntry /\ Duration[e] > 0
      /\ EffectivePosition(playback, now) >= Duration[e]
  BY DEF TrackFinished
<1>2. e \in Entries /\ Duration[e] \in Nat
  BY <1>1, DataAssumption DEF DataInv, Playbacks
<1>3. /\ Read \in Playbacks /\ Read.historyID = k /\ Read.current = e
      /\ Read.position <= Duration[e]
  BY <1>1, ReadRecord DEF DataInv
<1>4. Read.position = EffectivePosition(playback, now)
  BY DEF Read, DataInv, Playbacks
<1>5. Read.position \in Nat
  BY <1>3 DEF Playbacks
<1>6. p = Duration[e]
  BY <1>1, <1>2, <1>3, <1>4, <1>5 DEF Clamp
<1>7. k # NoHistory /\ k \in DOMAIN history /\ ~history[k].finished
  BY DEF TrackFinished, DataInv, TransportIsCoherent, HistoryIsCoherent
<1>8. history[k] \in HistoryRows
  BY <1>7 DEF DataInv
<1> HIDE DEF p
<1>9. h = [history EXCEPT ![k] = [[history[k] EXCEPT !.finished = TRUE]
                                     EXCEPT !.played = p]]
  BY <1>3, <1>7 DEF HistoryFinished, p
<1>10. h[k].played = p
  BY <1>7, <1>8, <1>9 DEF HistoryRows
<1> QED
  BY <1>6, <1>7, <1>10

(* Only the clock's own "next" takes the clock from its read to rest.      *)
LEMMA ClockClosesFull ==
  ASSUME RoomInv, [Next]_vars,
         clock.at = "advance", clock'.at = "idle", playback' # playback
  PROVE  history'[playback.historyID].played = Duration[playback.current]
<1> DEFINE k == playback.historyID
           h == HistoryFinished(Read, history)
<1>1. DataInv /\ now \in Nat
  BY RoomInvParts DEF ControlOK
<1>2. clock.revision = playback.revision /\ NextTrack
  BY PlaybackSteps DEF PauseForEmpty
<1>3. TrackFinished
  BY <1>2 DEF RoomInv, RevisionIdentifiesPlayback
<1>4. k \in DOMAIN history /\ h[k].played = Duration[playback.current]
  BY <1>1, <1>3, FinishedRowIsFull
<1>5. h \in Seq(HistoryRows) /\ Len(h) = Len(history) /\ k \in 1 .. Len(h)
  BY <1>1, <1>4, AllFinished DEF DataInv
<1>6. history' = h \/ \E row : history' = Append(h, row)
  BY <1>1, <1>2, NextEffect DEF LeavesEmpty, LoadsAndStarts
<1> HIDE DEF h
<1>7. history'[k] = h[k]
  BY <1>5, <1>6
<1> QED
  BY <1>4, <1>7

(* Clamping to the track keeps distances: a position that moves by d is    *)
(* seen to move by at most d, and one inside the track is left alone.      *)
LEMMA ClampMoves ==
  ASSUME NEW p \in Int, NEW d \in Nat, NEW e \in Entries
  PROVE  Clamp(p + d, e) - Clamp(p, e) \in 0 .. d
<1>1. Duration[e] \in Nat
  BY DataAssumption
<1> QED
  BY <1>1 DEF Clamp

LEMMA ClampStays ==
  ASSUME NEW p \in Nat, NEW e \in Entries, Duration[e] > 0 => p <= Duration[e]
  PROVE  Clamp(p, e) = p
BY DataAssumption DEF Clamp

(* While the record stays, the position follows the clock on the wall.     *)
LEMMA TimeMoves ==
  ASSUME RoomInv, playback.current # NoEntry, UNCHANGED playback,
         now' = now \/ now' = now + 1
  PROVE  IF playback.status = "playing" THEN Moved \in 0 .. (now' - now)
         ELSE Moved = 0
<1> DEFINE e == playback.current
           d == now' - now
<1>1. e \in Entries /\ playback.position \in Nat /\ now \in Nat /\ d \in Nat
  BY DEF RoomInv, TypeOK, Playbacks
<1>2. CASE playback.status = "playing"
  <2> DEFINE p == playback.position + (now - playback.anchor)
  <2>1. playback.anchor \in Nat /\ playback.anchor # NoTime
    BY <1>2 DEF RoomInv, TransportIsCoherent, TypeOK, Playbacks
  <2>2. p \in Int /\ playback.position + (now' - playback.anchor) = p + d
    BY <1>1, <2>1
  <2>3. Moved = Clamp(p + d, e) - Clamp(p, e)
    BY <1>2, <2>1, <2>2 DEF Moved, EffectivePosition
  <2> HIDE DEF p, d
  <2> QED
    BY <1>1, <1>2, <2>2, <2>3, ClampMoves DEF d
<1>3. CASE playback.status # "playing"
  <2>1. Moved = Clamp(playback.position, e) - Clamp(playback.position, e)
    BY <1>1, <1>3 DEF Moved, EffectivePosition
  <2>2. Clamp(playback.position, e) \in Nat
    BY <1>1, ClampInside
  <2> QED
    BY <1>3, <2>1, <2>2
<1> QED
  BY <1>2, <1>3

(* A record written now with the position read now shows that position.    *)
LEMMA RewrittenStands ==
  ASSUME RoomInv, playback.current # NoEntry, now' = now,
         playback'.current = playback.current,
         playback'.position = Read.position,
         \/ playback'.status = "playing" /\ playback'.anchor = now
         \/ playback'.status # "playing"
  PROVE  Moved = 0
<1> DEFINE e == playback.current
           p == Read.position
<1>1. DataInv /\ now \in Nat /\ e \in Entries
  BY RoomInvParts DEF ControlOK, DataInv, Playbacks
<1>2. p \in Nat /\ (Duration[e] > 0 => p <= Duration[e])
  BY <1>1, ReadRecord DEF DataInv, Playbacks
<1>3. p = EffectivePosition(playback, now)
  BY <1>1 DEF Read, DataInv, Playbacks
<1>4. EffectivePosition(playback', now') = Clamp(p, e)
  <2>1. now - now = 0 /\ p + 0 = p
    BY <1>1, <1>2
  <2> HIDE DEF p
  <2> QED
    BY <2>1 DEF EffectivePosition, p
<1> HIDE DEF p
<1>5. Clamp(p, e) = p
  BY <1>1, <1>2, ClampStays
<1> QED
  BY <1>2, <1>3, <1>4, <1>5 DEF Moved

LEMMA PositionMoves ==
  ASSUME RoomInv, [Next]_vars,
         playback.current # NoEntry, playback'.current = playback.current,
         ~SeekApplied
  PROVE  IF playback.status = "playing" THEN Moved \in 0 .. (now' - now)
         ELSE Moved = 0
<1>1. DataInv /\ ControlOK /\ now \in Nat
  BY RoomInvParts DEF ControlOK
<1>2. CASE playback' = playback
  <2>1. now' = now \/ now' = now + 1
    BY DEF Next, QueueStep, CommandStep, ClockStep, RoomStep, AddQueueEntry,
           RemoveQueueEntry, ReorderQueue, SendCommand, ApplyPlayback,
           RejectCommand, PauseForEmpty, ListIdleRooms, PrimePlaybackIfIdle,
           ObserveFinished, AdvanceFinished, UpdateRoom, SetRoomStatus,
           Restart, Tick, vars
  <2> QED
    BY <1>2, <2>1, TimeMoves
<1>3. CASE playback' # playback
  <2>1. now' = now
    BY <1>3, PlaybackSteps
  <2>2. ASSUME Pause \/ PauseForEmpty PROVE Moved = 0
    BY <1>1, <2>1, <2>2, PauseEffect, RewrittenStands
  <2>3. ASSUME Play PROVE Moved = 0
    <3>1. IsPlaying /\ (Resumes \/ StartsFirst)
      BY <1>1, <2>3, PlayEffect
    <3> QED
      BY <2>1, <3>1, RewrittenStands DEF IsPlaying, Resumes, StartsFirst
  <2>4. ~NextTrack
    <3>1. playback.current \notin Queued(queue)
      BY <1>1 DEF DataInv, PlayedAtMostOnce
    <3> QED
      BY <1>1, <3>1, NextEffect DEF LeavesEmpty, LoadsAndStarts
  <2>5. ~Stop
    BY <1>1, StopEffect DEF LeavesEmpty
  <2>6. Moved = 0
    <3>1. ASSUME NEW m \in Managers, cmd[m] # NoCmd,
                 cmd' = [cmd EXCEPT ![m] = NoCmd], Command(cmd[m].op)
          PROVE  Play \/ Pause
      <4>1. cmd[m].op # "seek"
        BY <1>1, <3>1 DEF SeekApplied, ControlOK
      <4> QED
        BY <2>4, <2>5, <3>1, <4>1 DEF Command
    <3> QED
      BY <1>3, <2>2, <2>3, <2>4, <3>1, PlaybackSteps
  <2> QED
    BY <1>1, <2>1, <2>6
<1> QED
  BY <1>2, <1>3

-----------------------------------------------------------------------------
(* The refinement of TrackLifecycle.                                       *)

PlayedEntries(h) == {h[i].entry : i \in DOMAIN h}

(* The stage of a track in a room that keeps its invariant.                *)
LEMMA StageIs ==
  ASSUME RoomInv, NEW e \in Entries
  PROVE  Stage(e) =
           IF e \notin added THEN "new"
           ELSE IF e \in Queued(queue) THEN "queued"
           ELSE IF e = playback.current
                THEN IF playback.historyID = NoHistory THEN "loaded" ELSE "started"
           ELSE IF e \in PlayedEntries(history) THEN "played" ELSE "dropped"
<1>1. /\ e \in Queued(queue) => e \in added /\ e # playback.current
      /\ e = playback.current => e \in added
  BY DataAssumption DEF RoomInv, OnlyAddedEntries, PlayedAtMostOnce
<1> QED
  BY <1>1 DEF Stage, PlayedEntries

LEMMA StageBecomes ==
  ASSUME RoomInv', NEW e \in Entries
  PROVE  Stage(e)' =
           IF e \notin added' THEN "new"
           ELSE IF e \in Queued(queue') THEN "queued"
           ELSE IF e = playback'.current
                THEN IF playback'.historyID = NoHistory THEN "loaded" ELSE "started"
           ELSE IF e \in PlayedEntries(history') THEN "played" ELSE "dropped"
<1>1. /\ e \in Queued(queue') => e \in added' /\ e # playback'.current
      /\ e = playback'.current => e \in added'
  BY DataAssumption DEF RoomInv, OnlyAddedEntries, PlayedAtMostOnce
<1> QED
  BY <1>1 DEF Stage, PlayedEntries

(* A track about which nothing changes keeps its stage.                    *)
Untouched(e) ==
  /\ e \in added' <=> e \in added
  /\ e \in Queued(queue') <=> e \in Queued(queue)
  /\ e = playback'.current <=> e = playback.current
  /\ e = playback.current =>
       (playback'.historyID = NoHistory <=> playback.historyID = NoHistory)
  /\ e \in PlayedEntries(history') <=> e \in PlayedEntries(history)

LEMMA SameStage ==
  ASSUME RoomInv, RoomInv', NEW e \in Entries, Untouched(e)
  PROVE  Stage(e)' = Stage(e)
BY StageIs, StageBecomes DEF Untouched

(* Where the tracks of a room are to be found.                             *)
LEMMA Whereabouts ==
  ASSUME RoomInv
  PROVE  /\ PlayedEntries(history) \subseteq added
         /\ Queued(queue) \subseteq added /\ Queued(queue) \subseteq Entries
         /\ Queued(queue) \cap PlayedEntries(history) = {}
         /\ playback.current \notin Queued(queue)
         /\ playback.current # NoEntry =>
              /\ playback.current \in Entries /\ playback.current \in added
              /\ playback.current \in PlayedEntries(history)
                   <=> playback.historyID # NoHistory
         /\ \A e \in Entries : Stage(e) \in {"loaded", "started"} <=> e = playback.current
<1>1. /\ PlayedEntries(history) \subseteq added
      /\ Queued(queue) \subseteq added /\ Queued(queue) \subseteq Entries
      /\ playback.current # NoEntry =>
           playback.current \in Entries /\ playback.current \in added
  BY DEF RoomInv, TypeOK, Playbacks, OnlyAddedEntries, PlayedEntries, Queued
<1>2. /\ Queued(queue) \cap PlayedEntries(history) = {}
      /\ playback.current \notin Queued(queue)
  BY DEF RoomInv, PlayedAtMostOnce, PlayedEntries
<1>3. playback.current \in PlayedEntries(history) <=> playback.historyID # NoHistory
  <2>1. NoHistory \notin DOMAIN history
    BY DEF RoomInv, TypeOK, NoHistory
  <2> QED
    BY <2>1 DEF RoomInv, HistoryIsCoherent, PlayedAtMostOnce, PlayedEntries
<1>4. \A e \in Entries : Stage(e) \in {"loaded", "started"} <=> e = playback.current
  BY <1>1, <1>2, StageIs, DataAssumption
<1> QED
  BY <1>1, <1>2, <1>3, <1>4

LEMMA PlayedAfterAppend ==
  ASSUME NEW h \in Seq(HistoryRows), NEW row \in HistoryRows
  PROVE  PlayedEntries(Append(h, row)) = PlayedEntries(h) \cup {row.entry}
<1> DEFINE g == Append(h, row)
           n == Len(h)
<1>1. /\ n \in Nat /\ DOMAIN h = 1 .. n /\ DOMAIN g = 1 .. (n + 1)
      /\ g[n + 1] = row
      /\ \A i \in 1 .. n : g[i] = h[i]
  OBVIOUS
<1>2. 1 .. (n + 1) = (1 .. n) \cup {n + 1}
  BY <1>1
<1> HIDE DEF g, n
<1>3. PlayedEntries(g) = PlayedEntries(h) \cup {row.entry}
  BY <1>1, <1>2 DEF PlayedEntries
<1> QED
  BY <1>3 DEF g

(* Closing a row adds none.                                                *)
LEMMA PlayedAfterClosing ==
  ASSUME RoomInv
  PROVE  /\ HistoryFinished(Read, history) \in Seq(HistoryRows)
         /\ PlayedEntries(HistoryFinished(Read, history)) = PlayedEntries(history)
<1> DEFINE h == HistoryFinished(Read, history)
<1>1. DataInv /\ now \in Nat
  BY RoomInvParts DEF ControlOK
<1>2. /\ h \in Seq(HistoryRows) /\ Len(h) = Len(history)
      /\ \A i \in DOMAIN h : h[i].entry = history[i].entry
  BY <1>1, AllFinished
<1>3. DOMAIN h = DOMAIN history
  BY <1>1, <1>2 DEF DataInv
<1> HIDE DEF h
<1>4. PlayedEntries(h) = PlayedEntries(history)
  BY <1>2, <1>3 DEF PlayedEntries
<1> QED
  BY <1>2, <1>4 DEF h

(* The steps of the room, as steps of the tracks.                          *)
LEMMA KeepStages ==
  ASSUME RoomInv, RoomInv',
         UNCHANGED <<added, history>>, Queued(queue') = Queued(queue),
         playback'.current = playback.current,
         playback'.historyID = playback.historyID
  PROVE  \A e \in Entries : Stage(e)' = Stage(e)
BY SameStage DEF Untouched

LEMMA ReorderKeepsRows ==
  ASSUME NEW index, ReorderQueue(index)
  PROVE  Queued(queue') = Queued(queue)
<1>1. /\ index \in [Queued(queue) -> 1 .. Cardinality(Queued(queue))]
      /\ queue' = [e \in Entries |-> IF e \in Queued(queue) THEN index[e] ELSE 0]
  BY DEF ReorderQueue, Bijection, Surjection
<1>2. Cardinality(Queued(queue)) \in Nat
  BY QueuedFinite
<1>3. \A e \in Queued(queue) : index[e] # 0
  BY <1>1, <1>2
<1> QED
  BY <1>1, <1>3 DEF Queued

LEMMA AddIsRequest ==
  ASSUME RoomInv, RoomInv', NEW e \in Entries, AddQueueEntry(e)
  PROVE  \/ Lifecycle!Request(e)
         \/ \E f \in Entries : Lifecycle!RequestAndLoad(e, f)
<1> DEFINE q == [queue EXCEPT ![e] = MaxPosition(queue) + 1]
<1>1. /\ e \notin added /\ added' = added \cup {e}
      /\ UNCHANGED <<history, now>>
      /\ DataInv /\ now \in Nat
  BY RoomInvParts DEF AddQueueEntry, ControlOK
<1>2. e \notin Queued(queue) /\ (e # playback.current \/ playback.current = NoEntry)
  BY <1>1, Whereabouts
<1>3. q \in Tables /\ Queued(q) = Queued(queue) \cup {e} /\ Dense(q)
  BY <1>1, Whereabouts, InsertDense DEF DataInv, QueueIsDense
<1>4. Stage(e) = "new"
  BY <1>1, StageIs
<1>5. CASE playback.current # NoEntry
  <2>1. queue' = q /\ UNCHANGED playback
    BY <1>5 DEF AddQueueEntry
  <2>2. Stage(e)' = "queued"
    BY <1>1, <1>3, <2>1, StageBecomes
  <2>3. \A x \in Entries \ {e} : Stage(x)' = Stage(x)
    BY <1>1, <1>3, <2>1, SameStage DEF Untouched
  <2> QED
    BY <1>4, <2>2, <2>3 DEF Lifecycle!Request
<1>6. CASE playback.current = NoEntry
  <2>1. PrimeNext(q)
    BY <1>6 DEF AddQueueEntry
  <2> HIDE DEF q
  <2>2. PICK f \in Queued(q) : /\ queue' = WithoutRow(q, f)
                               /\ playback'.current = f
                               /\ playback'.historyID = NoHistory
    BY <1>1, <2>1, PrimeEffect
  <2>3. f \in Entries /\ Queued(queue') = Queued(q) \ {f}
    BY <1>3, <2>2, WithoutRowDense DEF Queued
  <2>4. Stage(f)' = "loaded"
    BY <1>1, <1>3, <2>2, <2>3, Whereabouts, StageBecomes
  <2>5. e # f => Stage(e)' = "queued"
    BY <1>1, <1>3, <2>3, StageBecomes
  <2>6. \A x \in Entries \ {e, f} : Stage(x)' = Stage(x)
    BY <1>1, <1>3, <1>6, <2>2, <2>3, DataAssumption, SameStage DEF Untouched
  <2>7. f = e \/ Stage(f) = "queued"
    BY <1>3, <2>2, <2>3, Whereabouts, StageIs
  <2>8. Lifecycle!OnStage = {}
    BY <1>6, Whereabouts, DataAssumption DEF Lifecycle!OnStage
  <2> QED
    BY <1>4, <2>3, <2>4, <2>5, <2>6, <2>7, <2>8 DEF Lifecycle!RequestAndLoad
<1> QED
  BY <1>5, <1>6

LEMMA RemoveIsWithdraw ==
  ASSUME RoomInv, RoomInv', NEW e \in Entries, RemoveQueueEntry(e)
  PROVE  Lifecycle!Withdraw(e)
<1>1. /\ e \in Queued(queue) /\ Queued(queue') = Queued(queue) \ {e}
      /\ UNCHANGED <<playback, history, added>>
  BY WithoutRowDense DEF RemoveQueueEntry, RoomInv, TypeOK, QueueIsDense, Tables
<1>2. Stage(e) = "queued" /\ Stage(e)' = "dropped"
  BY <1>1, Whereabouts, StageIs, StageBecomes
<1>3. \A x \in Entries \ {e} : Stage(x)' = Stage(x)
  BY <1>1, SameStage DEF Untouched
<1> QED
  BY <1>2, <1>3 DEF Lifecycle!Withdraw

LEMMA PrimeIsLoad ==
  ASSUME RoomInv, RoomInv', playback.current = NoEntry, PrimeNext(queue),
         UNCHANGED <<history, added>>
  PROVE  \E e \in Entries : Lifecycle!Load(e)
<1>1. DataInv /\ now \in Nat
  BY RoomInvParts DEF ControlOK
<1>2. PICK e \in Queued(queue) : /\ queue' = WithoutRow(queue, e)
                                 /\ playback'.current = e
                                 /\ playback'.historyID = NoHistory
  BY <1>1, PrimeEffect
<1>3. e \in Entries /\ Queued(queue') = Queued(queue) \ {e}
  BY <1>1, <1>2, WithoutRowDense DEF Queued, DataInv, QueueIsDense
<1>4. Stage(e) = "queued" /\ Stage(e)' = "loaded"
  BY <1>2, <1>3, Whereabouts, StageIs, StageBecomes
<1>5. \A x \in Entries \ {e} : Stage(x)' = Stage(x)
  BY <1>2, <1>3, DataAssumption, SameStage DEF Untouched
<1>6. Lifecycle!OnStage = {}
  BY Whereabouts, DataAssumption DEF Lifecycle!OnStage
<1> QED
  BY <1>3, <1>4, <1>5, <1>6 DEF Lifecycle!Load

(* The loaded track leaves: played if it was started, dropped otherwise.   *)
LEMMA LeavesTheStage ==
  ASSUME RoomInv, RoomInv', UNCHANGED added,
         NEW f \in Entries, f = playback.current, playback.current # NoEntry,
         f \notin Queued(queue'), f # playback'.current,
         f \in PlayedEntries(history') <=> f \in PlayedEntries(history)
  PROVE  f \in Lifecycle!OnStage /\ Stage(f)' = Lifecycle!AfterStage(f)
<1>1. /\ f \in added /\ f \notin Queued(queue)
      /\ f \in PlayedEntries(history) <=> playback.historyID # NoHistory
  BY Whereabouts
<1>2. Stage(f) = IF playback.historyID = NoHistory THEN "loaded" ELSE "started"
  BY <1>1, StageIs
<1>3. Stage(f)' = IF playback.historyID = NoHistory THEN "dropped" ELSE "played"
  BY <1>1, StageBecomes
<1> QED
  BY <1>2, <1>3 DEF Lifecycle!OnStage, Lifecycle!AfterStage

(* Loading and starting, with the history as it is or with its open row    *)
(* closed: the loaded track leaves, if there is one, in the same step.     *)
LEMMA LoadIsStart ==
  ASSUME RoomInv, RoomInv', UNCHANGED added,
         NEW h \in Seq(HistoryRows), PlayedEntries(h) = PlayedEntries(history),
         NEW e \in Queued(queue), LoadsAndStarts(e, h)
  PROVE  \/ Lifecycle!Start(e)
         \/ \E f \in Entries : Lifecycle!Advance(f, e)
<1>1. e \in Entries /\ Queued(queue') = Queued(queue) \ {e}
  <2>1. DataInv
    BY RoomInvParts
  <2>2. e \in Entries /\ queue' = WithoutRow(queue, e)
    BY DEF Queued, LoadsAndStarts
  <2> QED
    BY <2>1, <2>2, WithoutRowDense DEF DataInv, QueueIsDense
<1>2. PlayedEntries(history') = PlayedEntries(history) \cup {e}
  <2>1. [entry |-> e, finished |-> FALSE, played |-> 0] \in HistoryRows
    BY <1>1 DEF HistoryRows
  <2> QED
    BY <2>1, PlayedAfterAppend DEF LoadsAndStarts
<1>3. playback'.current = e /\ playback'.historyID # NoHistory
  BY DEF LoadsAndStarts, NoHistory
<1>4. Stage(e) = "queued" /\ Stage(e)' = "started"
  BY <1>1, <1>3, Whereabouts, StageIs, StageBecomes
<1>5. \A x \in Entries \ {e, playback.current} : Stage(x)' = Stage(x)
  BY <1>1, <1>2, <1>3, SameStage DEF Untouched
<1>6. CASE playback.current = NoEntry
  <2>1. Lifecycle!OnStage = {}
    BY <1>6, Whereabouts, DataAssumption DEF Lifecycle!OnStage
  <2>2. playback.current \notin Entries
    BY <1>6, DataAssumption
  <2> QED
    BY <1>1, <1>4, <1>5, <2>1, <2>2 DEF Lifecycle!Start
<1>7. CASE playback.current # NoEntry
  <2>1. PICK f \in Entries : f = playback.current
    BY <1>7, Whereabouts
  <2>2. f \notin Queued(queue) /\ f # e
    BY <2>1, Whereabouts
  <2>3. f \in Lifecycle!OnStage /\ Stage(f)' = Lifecycle!AfterStage(f)
    BY <1>1, <1>2, <1>3, <1>7, <2>1, <2>2, LeavesTheStage
  <2>4. Lifecycle!Advance(f, e)
    BY <1>1, <1>4, <1>5, <2>1, <2>2, <2>3 DEF Lifecycle!Advance
  <2> QED
    BY <2>4
<1> QED
  BY <1>6, <1>7

(* Stopping, or "next" with nothing waiting.                               *)
LEMMA StopIsLeave ==
  ASSUME RoomInv, RoomInv', UNCHANGED added, LeavesEmpty
  PROVE  \/ \A x \in Entries : Stage(x)' = Stage(x)
         \/ \E f \in Entries : Lifecycle!Leave(f)
<1>1. /\ Queued(queue') = Queued(queue)
      /\ PlayedEntries(history') = PlayedEntries(history)
      /\ playback'.current = NoEntry /\ playback'.historyID = NoHistory
  BY PlayedAfterClosing DEF LeavesEmpty, Queued
<1>2. \A x \in Entries \ {playback.current} : Stage(x)' = Stage(x)
  BY <1>1, DataAssumption, SameStage DEF Untouched
<1>3. CASE playback.current = NoEntry
  BY <1>2, <1>3, DataAssumption
<1>4. CASE playback.current # NoEntry
  <2>1. PICK f \in Entries : f = playback.current
    BY <1>4, Whereabouts
  <2>2. f \in Lifecycle!OnStage /\ Stage(f)' = Lifecycle!AfterStage(f)
    <3>1. f \notin Queued(queue') /\ f # playback'.current
      BY <1>1, <2>1, Whereabouts, DataAssumption
    <3> QED
      BY <1>1, <1>4, <2>1, <3>1, LeavesTheStage
  <2>3. Lifecycle!Leave(f)
    BY <1>2, <2>1, <2>2 DEF Lifecycle!Leave
  <2> QED
    BY <2>3
<1> QED
  BY <1>3, <1>4

LEMMA FirstStartIsStart ==
  ASSUME RoomInv, RoomInv', UNCHANGED added, StartsFirst
  PROVE  \E e \in Entries : Lifecycle!Start(e)
<1>1. PICK e \in Entries : e = playback.current
  BY Whereabouts DEF StartsFirst
<1>2. /\ e \in added
      /\ Queued(queue') = Queued(queue) /\ e \notin Queued(queue)
      /\ playback.historyID = NoHistory
      /\ playback'.current = e /\ playback'.historyID # NoHistory
  <2>1. Len(history) + 1 # NoHistory
    BY DEF RoomInv, TypeOK, NoHistory
  <2> QED
    BY <1>1, <2>1, Whereabouts DEF StartsFirst, Queued
<1>3. PlayedEntries(history') = PlayedEntries(history) \cup {e}
  <2>1. [entry |-> e, finished |-> FALSE, played |-> 0] \in HistoryRows
    BY <1>1 DEF HistoryRows
  <2> QED
    BY <1>1, <2>1, PlayedAfterAppend DEF StartsFirst, RoomInv, TypeOK
<1>4. Stage(e) = "loaded" /\ Stage(e)' = "started"
  BY <1>1, <1>2, StageIs, StageBecomes
<1>5. \A x \in Entries \ {e} : Stage(x)' = Stage(x)
  BY <1>1, <1>2, <1>3, SameStage DEF Untouched
<1>6. Lifecycle!Start(e)
  BY <1>1, <1>4, <1>5 DEF Lifecycle!Start
<1> QED
  BY <1>6

LEMMA NextIsAdvance ==
  ASSUME RoomInv, RoomInv', UNCHANGED added, NextTrack
  PROVE  \/ \A x \in Entries : Stage(x)' = Stage(x)
         \/ Lifecycle!Next
<1>1. DataInv /\ now \in Nat
  BY RoomInvParts DEF ControlOK
<1>2. CASE LeavesEmpty
  BY <1>2, StopIsLeave DEF Lifecycle!Next
<1>3. ASSUME NEW e \in Queued(queue), LoadsAndStarts(e, HistoryFinished(Read, history))
      PROVE  Lifecycle!Next
  <2>1. e \in Entries
    BY DEF Queued
  <2> QED
    BY <1>3, <2>1, PlayedAfterClosing, LoadIsStart DEF Lifecycle!Next
<1> QED
  BY <1>1, <1>2, <1>3, NextEffect

LEMMA CommandIsStep ==
  ASSUME RoomInv, RoomInv', UNCHANGED added, NEW op, Command(op)
  PROVE  \/ \A x \in Entries : Stage(x)' = Stage(x)
         \/ Lifecycle!Next
<1>1. DataInv /\ now \in Nat /\ history \in Seq(HistoryRows)
  BY RoomInvParts DEF ControlOK, DataInv
<1>2. CASE Play
  <2>1. CASE Resumes
    BY <2>1, KeepStages DEF Resumes
  <2>2. CASE StartsFirst
    <3>1. playback.current \in Entries
      BY <2>2, Whereabouts DEF StartsFirst
    <3> QED
      BY <2>2, <3>1, FirstStartIsStart DEF Lifecycle!Next
  <2>3. ASSUME NEW e \in Queued(queue), LoadsAndStarts(e, history)
        PROVE  Lifecycle!Next
    <3>1. e \in Entries
      BY DEF Queued
    <3> QED
      BY <1>1, <2>3, <3>1, LoadIsStart DEF Lifecycle!Next
  <2> QED
    BY <1>1, <1>2, <2>1, <2>2, <2>3, PlayEffect
<1>3. CASE Pause
  BY <1>1, <1>3, PauseEffect, KeepStages
<1>4. ASSUME NEW p \in SeekPositions, Seek(p)
      PROVE  \A x \in Entries : Stage(x)' = Stage(x)
  BY <1>1, <1>4, SeekEffect, KeepStages
<1>5. CASE NextTrack
  BY <1>5, NextIsAdvance
<1>6. CASE Stop
  BY <1>1, <1>6, StopEffect, StopIsLeave DEF Lifecycle!Next
<1> QED
  BY <1>2, <1>3, <1>4, <1>5, <1>6 DEF Command

(* Every step of the room is a step of the tracks, or moves none.          *)
LEMMA StepIsLifecycle ==
  ASSUME RoomInv, RoomInv', [Next]_vars
  PROVE  \/ \A x \in Entries : Stage(x)' = Stage(x)
         \/ Lifecycle!Next
<1>1. DataInv /\ now \in Nat
  BY RoomInvParts DEF ControlOK
<1>2. CASE QueueStep
  <2>1. ASSUME NEW e \in Entries, AddQueueEntry(e) PROVE Lifecycle!Next
    BY <2>1, AddIsRequest DEF Lifecycle!Next
  <2>2. ASSUME NEW e \in Entries, RemoveQueueEntry(e) PROVE Lifecycle!Next
    BY <2>2, RemoveIsWithdraw DEF Lifecycle!Next
  <2>3. ASSUME NEW index, ReorderQueue(index)
        PROVE  \A x \in Entries : Stage(x)' = Stage(x)
    <3>1. Queued(queue') = Queued(queue)
      BY <2>3, ReorderKeepsRows
    <3> QED
      BY <2>3, <3>1, KeepStages DEF ReorderQueue
  <2> QED
    BY <1>2, <2>1, <2>2, <2>3 DEF QueueStep
<1>3. CASE CommandStep
  <2>1. ASSUME NEW m \in Managers, ApplyPlayback(m)
        PROVE  (\A x \in Entries : Stage(x)' = Stage(x)) \/ Lifecycle!Next
    BY <2>1, CommandIsStep DEF ApplyPlayback
  <2>2. ASSUME NEW m \in Managers, NEW op \in Ops, SendCommand(m, op) \/ RejectCommand(m)
        PROVE  \A x \in Entries : Stage(x)' = Stage(x)
    BY <2>2, KeepStages DEF SendCommand, RejectCommand
  <2>3. "play" \in Ops
    BY DEF Ops
  <2> QED
    BY <1>3, <2>1, <2>2, <2>3 DEF CommandStep
<1>4. CASE PauseForEmpty
  BY <1>1, <1>4, PauseEffect, KeepStages DEF PauseForEmpty
<1>5. CASE ClockStep
  <2>1. CASE UNCHANGED <<playback, queue, history, added>>
    BY <2>1, KeepStages
  <2>2. CASE PrimePlaybackIfIdle
    BY <2>2, KeepStages, PrimeIsLoad DEF PrimePlaybackIfIdle, Lifecycle!Next
  <2>3. CASE AdvanceFinished
    BY <2>3, KeepStages, NextIsAdvance DEF AdvanceFinished
  <2> QED
    BY <1>5, <2>1, <2>2, <2>3 DEF ClockStep, ListIdleRooms, ObserveFinished
<1>6. CASE RoomStep \/ Restart \/ Tick
  BY <1>6, KeepStages DEF RoomStep, UpdateRoom, SetRoomStatus, Restart, Tick
<1>7. CASE UNCHANGED vars
  BY <1>7, KeepStages DEF vars
<1> QED
  BY <1>2, <1>3, <1>4, <1>5, <1>6, <1>7 DEF Next

-----------------------------------------------------------------------------
(* The theorems.                                                           *)

(* The invariant of a room, however many tracks, users and managers it     *)
(* has and whatever they do: the rows of the queue are numbered 1..n, the  *)
(* columns of the playback record agree, a history row is open exactly     *)
(* while it is the current track's, no requested track is in two places,   *)
(* and a revision stands for one playback.                                 *)
THEOREM RoomInvariant == Spec => []RoomInv
<1>1. Init => RoomInv
  BY InitInv
<1>2. RoomInv /\ [Next]_vars => RoomInv'
  BY NextInv
<1> QED
  BY <1>1, <1>2, PTL DEF Spec

(* Type correctness.                                                       *)
THEOREM TypeCorrect == Spec => []TypeOK
<1>1. RoomInv => TypeOK
  BY DEF RoomInv
<1> QED
  BY <1>1, RoomInvariant, PTL

(* No deletion, insertion, reordering or load leaves a gap or a duplicate  *)
(* in the positions of the queue table.                                    *)
THEOREM QueueStaysDense == Spec => []QueueIsDense
<1>1. RoomInv => QueueIsDense
  BY DEF RoomInv
<1> QED
  BY <1>1, RoomInvariant, PTL

(* Status, anchor, position and history row of the playback fit together   *)
(* after every command, addition, clock tick, pause and restart.           *)
THEOREM TransportStaysCoherent == Spec => []TransportIsCoherent
<1>1. RoomInv => TransportIsCoherent
  BY DEF RoomInv
<1> QED
  BY <1>1, RoomInvariant, PTL

(* A history row is open exactly while its track is loaded, and closed     *)
(* with no more than the track's length.                                   *)
THEOREM HistoryStaysCoherent == Spec => []HistoryIsCoherent
<1>1. RoomInv => HistoryIsCoherent
  BY DEF RoomInv
<1> QED
  BY <1>1, RoomInvariant, PTL

(* No requested track is played twice or waits after it was played.        *)
THEOREM TracksPlayOnce == Spec => []PlayedAtMostOnce
<1>1. RoomInv => PlayedAtMostOnce
  BY DEF RoomInv
<1> QED
  BY <1>1, RoomInvariant, PTL

(* An accepted command acts on the playback its sender saw, and the clock  *)
(* advances only a track that is still finished.                           *)
THEOREM RevisionsIdentify == Spec => []RevisionIdentifiesPlayback
<1>1. RoomInv => RevisionIdentifiesPlayback
  BY DEF RoomInv
<1> QED
  BY <1>1, RoomInvariant, PTL

(* Whatever loads a track ("next", the clock, "play" or an added entry in  *)
(* an idle room, the priming at start-up), in either mode: SelectNext      *)
(* passes over the contributor who was loaded last while somebody else is  *)
(* waiting, and no stop, drained queue or restart makes the room forget    *)
(* who that was.                                                           *)
THEOREM NobodyTwiceInARow == Spec => NoContributorTwiceInARow
<1>1. RoomInv /\ [Next]_vars =>
        [ /\ /\ playback'.current \notin {NoEntry, playback.current}
             /\ Contributor[playback'.current] = playback.last
             => \A e \in Queued(queue') : Contributor[e] = playback.last
          /\ playback'.current = NoEntry =>
               playback'.last = playback.last ]_vars
  BY TakesTurns, TurnIsRemembered
<1> QED
  BY <1>1, RoomInvariant, PTL DEF Spec, NoContributorTwiceInARow

(* ApplyPlayback leaves a room with waiting tracks without a current one   *)
(* only for "stop": "next", the clock and restarts never do.               *)
THEOREM OnlyAStopIdles == Spec => OnlyStopIdlesTheRoom
<1>1. RoomInv /\ [Next]_vars =>
        [ /\ playback.current # NoEntry /\ playback'.current = NoEntry
          /\ Queued(queue') # {}
          => \E m \in Managers : /\ cmd[m] # NoCmd /\ cmd'[m] = NoCmd
                                 /\ cmd[m].op = "stop" ]_vars
  <2> SUFFICES ASSUME RoomInv, [Next]_vars,
                      playback.current # NoEntry, playback'.current = NoEntry,
                      Queued(queue') # {}
               PROVE  \E m \in Managers : /\ cmd[m] # NoCmd /\ cmd'[m] = NoCmd
                                          /\ cmd[m].op = "stop"
    OBVIOUS
  <2>1. NoEntry \notin Queued(queue)
    BY DataAssumption DEF Queued
  <2> QED
    BY <2>1, TrackChanges
<1> QED
  BY <1>1, RoomInvariant, PTL DEF Spec, OnlyStopIdlesTheRoom

(* AdvanceFinished, with what a manager may do between its read and its    *)
(* write, closes a history row only with the track's full length (in the   *)
(* code, up to the 50 ms less at which it takes a track for finished).     *)
THEOREM ClockPlaysToTheEnd == Spec => ClockNeverCutsShort
<1>1. RoomInv /\ [Next]_vars =>
        [ clock.at = "advance" /\ clock'.at = "idle" /\ playback' # playback
          => history'[playback.historyID].played = Duration[playback.current] ]_vars
  BY ClockClosesFull
<1> QED
  BY <1>1, RoomInvariant, PTL DEF Spec, ClockNeverCutsShort

(* The position scanPlayback computes for every reader advances with the   *)
(* wall clock while playing and stands while paused, across every rewrite  *)
(* of the base position and its anchor but a seek.                         *)
THEOREM PositionStaysContinuous == Spec => PositionIsContinuous
<1>1. RoomInv /\ [Next]_vars =>
        [ /\ playback.current # NoEntry
          /\ playback'.current = playback.current
          /\ ~SeekApplied
          => IF playback.status = "playing" THEN Moved \in 0 .. (now' - now)
             ELSE Moved = 0 ]_vars
  BY PositionMoves
<1> QED
  BY <1>1, RoomInvariant, PTL DEF Spec, PositionIsContinuous

(* A room implements the life of a track: a requested track is queued,     *)
(* loaded, started and played, or withdrawn or skipped on the way, with at *)
(* most one track loaded at a time, and never comes back.                  *)
THEOREM RoomImplementsLifecycle == Spec => ImplementsLifecycle
<1>1. Init => Lifecycle!Init
  <2>1. Init => RoomInv /\ added = {}
    BY InitInv DEF Init
  <2> QED
    BY <2>1, StageIs DEF Lifecycle!Init
<1>2. RoomInv /\ RoomInv' /\ [Next]_vars =>
        [[e \in Entries |-> Stage(e)]' # [e \in Entries |-> Stage(e)]
         /\ Lifecycle!Next]_[e \in Entries |-> Stage(e)]
  BY StepIsLifecycle
<1> QED
  BY <1>1, <1>2, RoomInvariant, PTL DEF Spec, ImplementsLifecycle, Lifecycle!Spec

=============================================================================
