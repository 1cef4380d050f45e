--------------------------- MODULE RoomSync_proofs ---------------------------
(***************************************************************************)
(* What listeners get to know, for any clients, managers, operations,      *)
(* entries and bounds: nothing that was committed stays unannounced, only  *)
(* an outdated snapshot or answer shows an old playback, a snapshot loses  *)
(* no track between its two reads, and every queue and playback stored,    *)
(* shown or under way is one of the room's entries.                        *)
(***************************************************************************)
EXTENDS RoomSync, FiniteSetTheorems, TLAPS

-----------------------------------------------------------------------------
(* Sequences, of which only the elements matter *)

IsSeq(s) == \E S : s \in Seq(S)

LEMMA EmptySeqFacts == IsSeq(<<>>) /\ ToSet(<<>>) = {}
<1>1. <<>> \in Seq({})
  OBVIOUS
<1>2. ToSet(<<>>) = {}
  BY DEF ToSet
<1>3. QED
  BY <1>1, <1>2 DEF IsSeq

LEMMA SingleFacts ==
  ASSUME NEW x
  PROVE  IsSeq(<<x>>) /\ ToSet(<<x>>) = {x} /\ <<x>> # <<>> /\ <<x>>[1] = x
<1>1. <<x>> \in Seq({x}) /\ DOMAIN <<x>> = {1} /\ <<x>>[1] = x
  OBVIOUS
<1>2. ToSet(<<x>>) = {x}
  BY <1>1 DEF ToSet
<1>3. QED
  BY <1>1, <1>2 DEF IsSeq

LEMMA ConcatFacts ==
  ASSUME NEW s, NEW t, IsSeq(s), IsSeq(t)
  PROVE  IsSeq(s \o t) /\ ToSet(s \o t) = ToSet(s) \union ToSet(t)
<1>1. PICK S : s \in Seq(S)
  BY DEF IsSeq
<1>2. PICK T : t \in Seq(T)
  BY DEF IsSeq
<1> DEFINE U == S \union T
<1>3. s \in Seq(U) /\ t \in Seq(U)
  BY <1>1, <1>2
<1> HIDE DEF U
<1>4. /\ s \o t \in Seq(U) /\ Len(s \o t) = Len(s) + Len(t)
      /\ \A i \in 1 .. Len(s) + Len(t) :
           (s \o t)[i] = IF i <= Len(s) THEN s[i] ELSE t[i - Len(s)]
  BY <1>3
<1>5. /\ DOMAIN s = 1 .. Len(s) /\ DOMAIN t = 1 .. Len(t)
      /\ DOMAIN (s \o t) = 1 .. Len(s) + Len(t)
      /\ Len(s) \in Nat /\ Len(t) \in Nat
  BY <1>3, <1>4
<1>6. ToSet(s \o t) \subseteq ToSet(s) \union ToSet(t)
  <2> SUFFICES ASSUME NEW i \in DOMAIN (s \o t)
               PROVE  (s \o t)[i] \in ToSet(s) \union ToSet(t)
    BY DEF ToSet
  <2>1. CASE i <= Len(s)
    <3>1. i \in DOMAIN s /\ (s \o t)[i] = s[i]
      BY <1>4, <1>5, <2>1
    <3>2. QED
      BY <3>1 DEF ToSet
  <2>2. CASE ~(i <= Len(s))
    <3>1. i - Len(s) \in DOMAIN t /\ (s \o t)[i] = t[i - Len(s)]
      BY <1>4, <1>5, <2>2
    <3>2. QED
      BY <3>1 DEF ToSet
  <2>3. QED
    BY <2>1, <2>2
<1>7. ToSet(s) \subseteq ToSet(s \o t)
  <2> SUFFICES ASSUME NEW i \in DOMAIN s PROVE s[i] \in ToSet(s \o t)
    BY DEF ToSet
  <2>1. i \in DOMAIN (s \o t) /\ (s \o t)[i] = s[i]
    BY <1>4, <1>5
  <2>2. QED
    BY <2>1 DEF ToSet
<1>8. ToSet(t) \subseteq ToSet(s \o t)
  <2> SUFFICES ASSUME NEW i \in DOMAIN t PROVE t[i] \in ToSet(s \o t)
    BY DEF ToSet
  <2>1. i + Len(s) \in DOMAIN (s \o t) /\ (s \o t)[i + Len(s)] = t[i]
    BY <1>4, <1>5
  <2>2. QED
    BY <2>1 DEF ToSet
<1>9. QED
  BY <1>4, <1>6, <1>7, <1>8 DEF IsSeq

LEMMA AppendFacts ==
  ASSUME NEW s, NEW x, IsSeq(s)
  PROVE  IsSeq(Append(s, x)) /\ ToSet(Append(s, x)) = ToSet(s) \union {x}
<1>1. PICK S : s \in Seq(S)
  BY DEF IsSeq
<1>2. s \in Seq(S \union {x}) /\ <<x>> \in Seq(S \union {x})
  BY <1>1
<1>3. Append(s, x) = s \o <<x>>
  BY <1>2
<1>4. QED
  BY <1>3, ConcatFacts, SingleFacts

LEMMA TailFacts ==
  ASSUME NEW s, IsSeq(s), s # <<>>
  PROVE  IsSeq(Tail(s)) /\ ToSet(s) = {Head(s)} \union ToSet(Tail(s))
<1>1. PICK S : s \in Seq(S)
  BY DEF IsSeq
<1>2. /\ Tail(s) \in Seq(S) /\ Len(Tail(s)) = Len(s) - 1 /\ Len(s) \in Nat \ {0}
      /\ \A i \in 1 .. Len(Tail(s)) : Tail(s)[i] = s[i + 1]
      /\ Head(s) = s[1]
  BY <1>1
<1>3. DOMAIN s = 1 .. Len(s) /\ DOMAIN Tail(s) = 1 .. Len(s) - 1
  BY <1>1, <1>2
<1>4. ToSet(s) \subseteq {Head(s)} \union ToSet(Tail(s))
  <2> SUFFICES ASSUME NEW i \in DOMAIN s, i # 1 PROVE s[i] \in ToSet(Tail(s))
    BY <1>2 DEF ToSet
  <2>1. i - 1 \in DOMAIN Tail(s) /\ Tail(s)[i - 1] = s[i]
    BY <1>2, <1>3
  <2>2. QED
    BY <2>1 DEF ToSet
<1>5. Head(s) \in ToSet(s)
  BY <1>2, <1>3 DEF ToSet
<1>6. ToSet(Tail(s)) \subseteq ToSet(s)
  <2> SUFFICES ASSUME NEW i \in DOMAIN Tail(s) PROVE Tail(s)[i] \in ToSet(s)
    BY DEF ToSet
  <2>1. i + 1 \in DOMAIN s /\ Tail(s)[i] = s[i + 1]
    BY <1>2, <1>3
  <2>2. QED
    BY <2>1 DEF ToSet
<1>7. QED
  BY <1>2, <1>4, <1>5, <1>6 DEF IsSeq

\* What a handler may still have to do.
Todos == {<<>>, <<"queue">>, <<"list", "queue">>, <<"playback">>, <<"playback", "list", "queue">>}

LEMMA TodoTails ==
  ASSUME NEW todo \in Todos, todo # <<>>
  PROVE  /\ Tail(todo) \in Todos
         /\ ToSet(todo) = {Head(todo)} \union ToSet(Tail(todo))
         /\ Head(todo) \in {"queue", "list", "playback"}
         /\ Head(todo) = "queue" => Tail(todo) = <<>>
         /\ Head(todo) = "list" => Tail(todo) = <<"queue">>
         /\ Head(todo) = "playback" => Tail(todo) \in {<<>>, <<"list", "queue">>}
<1> DEFINE W == {"queue", "list", "playback"}
<1>a. <<>> \in Seq(W) /\ <<"queue">> \in Seq(W) /\ <<"playback">> \in Seq(W)
  OBVIOUS
<1>b. <<"list", "queue">> \in Seq(W)
  OBVIOUS
<1>c. <<"playback", "list", "queue">> \in Seq(W)
  OBVIOUS
<1>1. todo \in Seq(W)
  BY <1>a, <1>b, <1>c DEF Todos
<1>2. ToSet(todo) = {Head(todo)} \union ToSet(Tail(todo))
  BY <1>1, TailFacts DEF IsSeq
<1>3. CASE todo = <<"queue">>
  BY <1>2, <1>3 DEF Todos
<1>4. CASE todo = <<"list", "queue">>
  BY <1>2, <1>4 DEF Todos
<1>5. CASE todo = <<"playback">>
  BY <1>2, <1>5 DEF Todos
<1>6. CASE todo = <<"playback", "list", "queue">>
  BY <1>2, <1>6 DEF Todos
<1>7. QED
  BY <1>3, <1>4, <1>5, <1>6 DEF Todos

LEMMA TodoSets ==
  /\ ToSet(<<"queue">>) = {"queue"} /\ ToSet(<<"playback">>) = {"playback"}
  /\ ToSet(<<"list", "queue">>) = {"list", "queue"}
  /\ ToSet(<<"playback", "list", "queue">>) = {"playback", "list", "queue"}
<1>1. DOMAIN <<"list", "queue">> = {1, 2} /\ DOMAIN <<"playback", "list", "queue">> = {1, 2, 3}
  OBVIOUS
<1>2. ToSet(<<"list", "queue">>) = {"list", "queue"}
  BY <1>1 DEF ToSet
<1>3. ToSet(<<"playback", "list", "queue">>) = {"playback", "list", "queue"}
  BY <1>1 DEF ToSet
<1>4. QED
  BY <1>2, <1>3, SingleFacts

-----------------------------------------------------------------------------
(* Records, as functions of their fields *)

IsRecord(r, fields) == r = [f \in fields |-> r[f]]

HandlerFields == {"at", "request", "todo", "playback", "queue", "note", "to"}
SnapFields == {"stage", "queue", "playback", "live"}
ViewFields == {"playback", "queue"}

\* Whatever the fields hold, the constructors make such records.
LEMMA IdleFacts ==
  /\ IsRecord(Idle, HandlerFields)
  /\ Idle.at = "idle" /\ Idle.todo = <<>> /\ Idle.playback = NoPlayback
  /\ Idle.note = <<>> /\ Idle.to = {} /\ Idle.request = <<>>
BY DEF Idle, IsRecord, HandlerFields

LEMMA NoSnapFacts ==
  /\ IsRecord(NoSnap, SnapFields)
  /\ NoSnap.stage = "none" /\ NoSnap.playback = NoPlayback
  /\ LET asked == [NoSnap EXCEPT !.stage = "asked"] IN
       IsRecord(asked, SnapFields) /\ asked.stage = "asked" /\ asked.playback = NoPlayback
BY DEF NoSnap, IsRecord, SnapFields

\* A read of the snapshot takes the playback as it is, or leaves it alone.
LEMMA BuildFacts ==
  ASSUME NEW s, IsRecord(s, SnapFields)
  PROVE  /\ IsRecord(Build(s), SnapFields)
         /\ Build(s).playback \in {s.playback, playback}
         /\ Build(s).stage \in {"half", "built"}
<1>1. CASE s.stage = "half"
  BY <1>1 DEF Build, IsRecord, SnapFields
<1>2. CASE s.stage # "half"
  BY <1>2 DEF Build, IsRecord, SnapFields
<1>3. QED
  BY <1>1, <1>2

LEMMA ViewFacts ==
  ASSUME NEW pb, NEW q
  PROVE  LET v == [playback |-> pb, queue |-> q] IN
           IsRecord(v, ViewFields) /\ v.playback = pb /\ v.queue = q
BY DEF IsRecord, ViewFields

-----------------------------------------------------------------------------
(* Revisions *)

\* x is a playback the room had by the time it has now.
Known(x, now) ==
  /\ x.rev \in Int /\ x.rev <= now.rev
  /\ x.rev = now.rev => x = now

\* The room's playback stays, or becomes the next one.
Moves(now, then) == then = now \/ (then.rev \in Nat /\ then.rev = now.rev + 1)

LEMMA KnownFacts ==
  ASSUME NEW now, now.rev \in Nat
  PROVE  Known(now, now) /\ Known(NoPlayback, now)
BY DEF Known, NoPlayback

LEMMA KnownStays ==
  ASSUME NEW x, NEW now, NEW then, now.rev \in Nat, Known(x, now), Moves(now, then)
  PROVE  Known(x, then)
BY DEF Known, Moves

FrameOK(f, now) ==
  /\ f.type \in {"snapshot", "playback", "queue"}
  /\ f.type # "queue" => Known(f.playback, now)

AnswerOK(a, now) ==
  /\ a.type \in {"playback", "added", "removed", "reordered", "conflict"}
  /\ a.type = "playback" => Known(a.playback, now)
  /\ a.type = "added" => Known(a.primed, now)

HandlerOK(t, now) ==
  /\ IsRecord(t, HandlerFields)
  /\ t.todo \in Todos
  /\ t.at # "working" => t.todo = <<>> /\ t.to = {}
  /\ Known(t.playback, now)
  /\ IsSeq(t.note) /\ \A f \in ToSet(t.note) : FrameOK(f, now)

WireOK(w, now) == IsSeq(w) /\ \A f \in ToSet(w) : FrameOK(f, now)

SnapOK(s, now) == IsRecord(s, SnapFields) /\ Known(s.playback, now)

ViewOK(v, now) == IsRecord(v, ViewFields) /\ Known(v.playback, now)

ToldOK(n, now) == n.rev \in Int /\ n.rev <= now.rev

LEMMA PartsStay ==
  ASSUME NEW now, NEW then, now.rev \in Nat, Moves(now, then)
  PROVE  /\ \A t : HandlerOK(t, now) => HandlerOK(t, then)
         /\ \A w : WireOK(w, now) => WireOK(w, then)
         /\ \A s : SnapOK(s, now) => SnapOK(s, then)
         /\ \A a : AnswerOK(a, now) => AnswerOK(a, then)
         /\ \A v : ViewOK(v, now) => ViewOK(v, then)
         /\ \A n : ToldOK(n, now) => ToldOK(n, then)
<1>1. \A x : Known(x, now) => Known(x, then)
  BY KnownStays
<1>2. \A f : FrameOK(f, now) => FrameOK(f, then)
  BY <1>1 DEF FrameOK
<1>3. \A n : ToldOK(n, now) => ToldOK(n, then)
  BY DEF ToldOK, Moves
<1>4. \A a : AnswerOK(a, now) => AnswerOK(a, then)
  BY <1>1 DEF AnswerOK
<1>5. QED
  BY <1>1, <1>2, <1>3, <1>4 DEF HandlerOK, WireOK, SnapOK, ViewOK

\* What every variable is, for any instance.
TasksTyped(tk, now) == tk = [p \in Tasks |-> tk[p]] /\ \A p \in Tasks : HandlerOK(tk[p], now)
WiresTyped(w, now) == w = [c \in Clients |-> w[c]] /\ \A c \in Clients : WireOK(w[c], now)
SnapsTyped(s, now) ==
  /\ s = [c \in Clients |-> [v \in Vias |-> s[c][v]]]
  /\ \A c \in Clients, v \in Vias : SnapOK(s[c][v], now)
AnswersTyped(a, now) ==
  /\ a = [c \in Clients |-> a[c]]
  /\ \A c \in Clients : a[c] # <<>> => AnswerOK(a[c][1], now)
ViewsTyped(v, now) == v = [c \in Clients |-> v[c]] /\ \A c \in Clients : ViewOK(v[c], now)
ToldTyped(n, now) == n = [c \in Clients |-> n[c]] /\ \A c \in Clients : ToldOK(n[c], now)

Typed ==
  /\ playback.rev \in Nat
  /\ registered \subseteq Clients
  /\ TasksTyped(task, playback)
  /\ WiresTyped(wire, playback)
  /\ SnapsTyped(snap, playback)
  /\ AnswersTyped(answer, playback)
  /\ ViewsTyped(view, playback)
  /\ ToldTyped(told, playback)

LEMMA InitTyped == Init => Typed
<1> SUFFICES ASSUME Init PROVE Typed
  OBVIOUS
<1>1. playback.rev \in Nat /\ registered \subseteq Clients
  BY DEF Init
<1>2. Known(playback, playback) /\ Known(NoPlayback, playback)
  BY <1>1, KnownFacts
<1>3. task = [p \in Tasks |-> Idle] /\ HandlerOK(Idle, playback)
  BY <1>2, IdleFacts, EmptySeqFacts DEF Init, HandlerOK, Todos
<1>4. wire = [c \in Clients |-> <<>>] /\ WireOK(<<>>, playback)
  BY EmptySeqFacts DEF Init, WireOK
<1>5. snap = [c \in Clients |-> [v \in Vias |-> NoSnap]] /\ SnapOK(NoSnap, playback)
  BY <1>2, NoSnapFacts DEF Init, SnapOK
<1>6. answer = [c \in Clients |-> <<>>]
  BY DEF Init
<1>7. /\ view = [c \in Clients |-> [playback |-> playback, queue |-> queue]]
      /\ ViewOK([playback |-> playback, queue |-> queue], playback)
  BY <1>2, ViewFacts DEF Init, ViewOK
<1>8. /\ told = [c \in Clients |-> [rev |-> 0, queues |-> {queue}]]
      /\ ToldOK([rev |-> 0, queues |-> {queue}], playback)
  BY DEF Init, ToldOK
<1>9. TasksTyped(task, playback) /\ WiresTyped(wire, playback) /\ SnapsTyped(snap, playback)
  BY <1>3, <1>4, <1>5 DEF TasksTyped, WiresTyped, SnapsTyped
<1>10. AnswersTyped(answer, playback) /\ ViewsTyped(view, playback) /\ ToldTyped(told, playback)
  BY <1>6, <1>7, <1>8 DEF AnswersTyped, ViewsTyped, ToldTyped
<1>11. QED
  BY <1>1, <1>9, <1>10 DEF Typed

LEMMA AllStay ==
  ASSUME Typed, NEW then, Moves(playback, then)
  PROVE  /\ then.rev \in Nat
         /\ TasksTyped(task, then) /\ WiresTyped(wire, then) /\ SnapsTyped(snap, then)
         /\ AnswersTyped(answer, then) /\ ViewsTyped(view, then) /\ ToldTyped(told, then)
<1>1. playback.rev \in Nat /\ then.rev \in Nat
  BY DEF Typed, Moves
<1>2. TasksTyped(task, then)
  BY <1>1, PartsStay DEF Typed, TasksTyped
<1>3. WiresTyped(wire, then)
  BY <1>1, PartsStay DEF Typed, WiresTyped
<1>4. SnapsTyped(snap, then)
  BY <1>1, PartsStay DEF Typed, SnapsTyped
<1>5. AnswersTyped(answer, then)
  BY <1>1, PartsStay DEF Typed, AnswersTyped
<1>6. ViewsTyped(view, then)
  BY <1>1, PartsStay DEF Typed, ViewsTyped
<1>7. ToldTyped(told, then)
  BY <1>1, PartsStay DEF Typed, ToldTyped
<1>8. QED
  BY <1>1, <1>2, <1>3, <1>4, <1>5, <1>6, <1>7

-----------------------------------------------------------------------------
(* Transactions *)

\* p has committed a playback and a queue, and its todo announces what is new.
Committed(p, pb, q, todo) ==
  /\ playback' = pb /\ queue' = q
  /\ task' = [task EXCEPT
       ![p].at = "working",
       ![p].todo = todo,
       ![p].playback = IF pb # playback THEN pb ELSE NoPlayback,
       ![p].queue = q]

Announces(pb, q, todo) ==
  /\ todo \in Todos
  /\ pb # playback => "playback" \in ToSet(todo)
  /\ q # queue => "queue" \in ToSet(todo)

Transaction(p) ==
  \E pb, q, todo :
    Committed(p, pb, q, todo) /\ Moves(playback, pb) /\ Announces(pb, q, todo)

LEMMA TodoFacts ==
  ASSUME NEW op \in Waits \union Transports, NEW primed \in BOOLEAN
  PROVE  /\ Todo(op, primed) \in Todos
         /\ op \in Transports \/ (op = "add" /\ primed) => "playback" \in ToSet(Todo(op, primed))
         /\ op # "seek" => "queue" \in ToSet(Todo(op, primed))
BY TodoSets DEF Todo, Todos, Waits, Transports

\* A commit that changes the playback makes it the next one.
LEMMA CommitFacts ==
  ASSUME NEW p, NEW op \in Waits \union Transports, NEW pb, NEW q,
         playback.rev \in Nat,
         Commit(p, op, pb, q),
         pb = playback \/ pb.rev = playback.rev + 1,
         op \in Transports \union {"add"} \/ pb = playback,
         op = "seek" => q = queue
  PROVE  Transaction(p)
<1> DEFINE changed == pb # playback
           todo == Todo(op, changed)
<1>1. changed \in BOOLEAN
  OBVIOUS
<1>2. Moves(playback, pb)
  BY DEF Moves
<1>3. Committed(p, pb, q, todo)
  BY DEF Commit, Committed
<1>4. Announces(pb, q, todo)
  <2> HIDE DEF changed
  <2>1. /\ todo \in Todos
        /\ op \in Transports \/ (op = "add" /\ changed) => "playback" \in ToSet(todo)
        /\ op # "seek" => "queue" \in ToSet(todo)
    BY <1>1, TodoFacts
  <2>2. QED
    BY <2>1 DEF Announces, changed
<1>5. QED
  BY <1>2, <1>3, <1>4 DEF Transaction

LEMMA LoadFacts ==
  ASSUME NEW p, NEW op \in (Transports \ {"seek"}) \union {"add"}, NEW q, playback.rev \in Nat, Load(p, op, q)
  PROVE  Transaction(p)
<1>1. PICK n \in WithNext(q) : Commit(p, op, [rev |-> playback.rev + 1, track |-> n.track], n.queue)
  BY DEF Load
<1>2. [rev |-> playback.rev + 1, track |-> n.track].rev = playback.rev + 1
  OBVIOUS
<1>3. op \in Waits \union Transports /\ op # "seek" /\ op \in Transports \union {"add"}
  BY DEF Waits, Transports
<1>4. QED
  BY <1>1, <1>2, <1>3, CommitFacts

LEMMA KeepFacts ==
  ASSUME NEW p, NEW op \in Transports, NEW track, playback.rev \in Nat, Keep(p, op, track)
  PROVE  Transaction(p)
<1>1. Commit(p, op, [rev |-> playback.rev + 1, track |-> track], queue)
  BY DEF Keep
<1>2. [rev |-> playback.rev + 1, track |-> track].rev = playback.rev + 1
  OBVIOUS
<1>3. QED
  BY <1>1, <1>2, CommitFacts

LEMMA CommandFacts ==
  ASSUME NEW p, NEW op \in Transports, playback.rev \in Nat, Command(p, op)
  PROVE  Transaction(p)
<1>1. ASSUME NEW track, Keep(p, op, track) PROVE Transaction(p)
  BY <1>1, KeepFacts
<1>2. ASSUME op # "seek", Load(p, op, queue) PROVE Transaction(p)
  BY <1>2, LoadFacts
<1>3. QED
  BY <1>1, <1>2 DEF Command

LEMMA ServeFacts ==
  ASSUME NEW p, playback.rev \in Nat, Serve(p)
  PROVE  task[p].at = "asked" /\ Transaction(p)
<1>0. task[p].at = "asked"
  BY DEF Serve
<1> DEFINE w == Head(task[p].request)
<1>1. \/ w.op \in Transports /\ Command(p, w.op)
      \/ w.op = "add" /\ Add(p, w.entry)
      \/ w.op = "remove" /\ Commit(p, w.op, playback, Without(queue, w.entry))
      \/ w.op = "reorder" /\ Commit(p, w.op, playback, w.order)
  BY DEF Serve
<1> HIDE DEF w
<1>2. CASE w.op \in Transports /\ Command(p, w.op)
  BY <1>0, <1>2, CommandFacts
<1>3. CASE w.op = "add" /\ Add(p, w.entry)
  <2>1. CASE Load(p, "add", Append(queue, w.entry))
    BY <1>0, <2>1, LoadFacts
  <2>2. CASE Commit(p, "add", playback, Append(queue, w.entry))
    BY <1>0, <2>2, CommitFacts DEF Waits
  <2>3. QED
    BY <1>3, <2>1, <2>2 DEF Add
<1>4. CASE w.op = "remove" /\ Commit(p, w.op, playback, Without(queue, w.entry))
  BY <1>0, <1>4, CommitFacts DEF Waits
<1>5. CASE w.op = "reorder" /\ Commit(p, w.op, playback, w.order)
  BY <1>0, <1>5, CommitFacts DEF Waits
<1>6. QED
  BY <1>1, <1>2, <1>3, <1>4, <1>5

LEMMA ClockFacts ==
  ASSUME playback.rev \in Nat, ClockAdvance
  PROVE  task[Clock].at = "idle" /\ Transaction(Clock)
<1>1. task[Clock] = Idle /\ Load(Clock, "next", queue)
  BY DEF ClockAdvance
<1>2. QED
  BY <1>1, IdleFacts, LoadFacts DEF Transports

-----------------------------------------------------------------------------
(* What the steps do to a handler *)

\* Only p's handler changes; t is what becomes of it.
Works(p, t) == task' = [task EXCEPT ![p] = t] /\ task'[p] = t /\ \A r \in Tasks \ {p} : task'[r] = task[r]

LEMMA WorksTyped ==
  ASSUME NEW now, NEW then, TasksTyped(task, then), NEW p \in Tasks, NEW t, Works(p, t), HandlerOK(t, then)
  PROVE  TasksTyped(task', then)
BY DEF Works, TasksTyped

LEMMA CommittedHandler ==
  ASSUME NEW p \in Tasks, NEW pb, NEW q, NEW todo, TasksTyped(task, playback), Committed(p, pb, q, todo)
  PROVE  \E t :
           /\ Works(p, t) /\ IsRecord(t, HandlerFields)
           /\ t.at = "working" /\ t.todo = todo /\ t.queue = q
           /\ t.playback = IF pb # playback THEN pb ELSE NoPlayback
           /\ t.note = task[p].note /\ t.to = task[p].to /\ t.request = task[p].request
<1>1. task = [r \in Tasks |-> task[r]] /\ IsRecord(task[p], HandlerFields)
  BY DEF TasksTyped, HandlerOK
<1> DEFINE t == task'[p]
<1>2. /\ IsRecord(t, HandlerFields)
      /\ t.at = "working" /\ t.todo = todo /\ t.queue = q
      /\ t.playback = IF pb # playback THEN pb ELSE NoPlayback
      /\ t.note = task[p].note /\ t.to = task[p].to /\ t.request = task[p].request
  BY <1>1 DEF Committed, IsRecord, HandlerFields
<1>3. task' = [task EXCEPT ![p] = t] /\ \A r \in Tasks \ {p} : task'[r] = task[r]
  BY <1>1 DEF Committed
<1>4. QED
  BY <1>2, <1>3 DEF Works

\* What the other steps make of p's handler.
LEMMA AskHandler ==
  ASSUME NEW p \in Managers, TasksTyped(task, playback), Ask(p)
  PROVE  \E t :
           /\ Works(p, t) /\ IsRecord(t, HandlerFields)
           /\ t.at = "asked" /\ t.todo = <<>> /\ t.playback = NoPlayback
           /\ t.note = <<>> /\ t.to = {}
           /\ \E op \in Ops : \E w \in Wish(p, op) : t.request = <<w>>
<1>0. p \in Tasks /\ task = [r \in Tasks |-> task[r]] /\ task[p] = Idle
  BY DEF TasksTyped, Tasks, Ask
<1>a. PICK op \in Ops :
        \E w \in Wish(p, op) : task' = [task EXCEPT ![p].at = "asked", ![p].request = <<w>>]
  BY DEF Ask
<1>1. PICK w \in Wish(p, op) : task' = [task EXCEPT ![p].at = "asked", ![p].request = <<w>>]
  BY <1>a
<1> DEFINE t == task'[p]
<1>2. /\ IsRecord(t, HandlerFields)
      /\ t.at = "asked" /\ t.todo = task[p].todo /\ t.playback = task[p].playback
      /\ t.note = task[p].note /\ t.to = task[p].to /\ t.request = <<w>>
  BY <1>0, <1>1, IdleFacts DEF IsRecord, HandlerFields
<1>3. task' = [task EXCEPT ![p] = t] /\ \A r \in Tasks \ {p} : task'[r] = task[r]
  BY <1>0, <1>1
<1>4. QED
  BY <1>0, <1>2, <1>3, IdleFacts DEF Works

LEMMA RestHandler ==
  ASSUME NEW p \in Tasks, TasksTyped(task, playback), task' = [task EXCEPT ![p] = Idle]
  PROVE  Works(p, Idle)
BY DEF TasksTyped, Works

LEMMA ListHandler ==
  ASSUME NEW p \in Tasks, TasksTyped(task, playback), ListQueue(p)
  PROVE  \E t :
           /\ Works(p, t) /\ IsRecord(t, HandlerFields)
           /\ t.at = task[p].at /\ t.todo = Tail(task[p].todo) /\ t.playback = task[p].playback
           /\ t.request = task[p].request
           /\ t.queue = queue /\ t.note = task[p].note /\ t.to = task[p].to
<1>0. task = [r \in Tasks |-> task[r]] /\ IsRecord(task[p], HandlerFields)
  BY DEF TasksTyped, HandlerOK
<1>1. task' = [task EXCEPT ![p].queue = queue, ![p].todo = Tail(@)]
  BY DEF ListQueue
<1> DEFINE t == task'[p]
<1>2. /\ IsRecord(t, HandlerFields)
      /\ t.at = task[p].at /\ t.todo = Tail(task[p].todo) /\ t.playback = task[p].playback
      /\ t.request = task[p].request
      /\ t.queue = queue /\ t.note = task[p].note /\ t.to = task[p].to
  BY <1>0, <1>1 DEF IsRecord, HandlerFields
<1>3. task' = [task EXCEPT ![p] = t] /\ \A r \in Tasks \ {p} : task'[r] = task[r]
  BY <1>0, <1>1
<1>4. QED
  BY <1>2, <1>3 DEF Works

LEMMA CollectHandler ==
  ASSUME NEW p \in Tasks, TasksTyped(task, playback), Collect(p)
  PROVE  \E t :
           /\ Works(p, t) /\ IsRecord(t, HandlerFields)
           /\ t.at = task[p].at /\ t.todo = Tail(task[p].todo) /\ t.playback = task[p].playback
           /\ t.request = task[p].request
           /\ t.queue = task[p].queue /\ t.to = registered
           /\ t.note = IF registered = {} THEN <<>> ELSE <<Event(p)>>
<1>0. task = [r \in Tasks |-> task[r]] /\ IsRecord(task[p], HandlerFields)
  BY DEF TasksTyped, HandlerOK
<1> DEFINE note == IF registered = {} THEN <<>> ELSE <<Event(p)>>
<1>1. task' = [task EXCEPT ![p].note = note, ![p].to = registered, ![p].todo = Tail(@)]
  BY DEF Collect
<1> HIDE DEF note
<1> DEFINE t == task'[p]
<1>2. /\ IsRecord(t, HandlerFields)
      /\ t.at = task[p].at /\ t.todo = Tail(task[p].todo) /\ t.playback = task[p].playback
      /\ t.request = task[p].request
      /\ t.queue = task[p].queue /\ t.to = registered /\ t.note = note
  BY <1>0, <1>1 DEF IsRecord, HandlerFields
<1>3. task' = [task EXCEPT ![p] = t] /\ \A r \in Tasks \ {p} : task'[r] = task[r]
  BY <1>0, <1>1
<1>4. QED
  BY <1>2, <1>3 DEF Works, note

LEMMA WriteHandler ==
  ASSUME NEW p \in Tasks, TasksTyped(task, playback), NEW c \in Clients, Write(p, c)
  PROVE  \E t :
           /\ Works(p, t) /\ IsRecord(t, HandlerFields)
           /\ t.at = task[p].at /\ t.todo = task[p].todo /\ t.playback = task[p].playback
           /\ t.request = task[p].request
           /\ t.queue = task[p].queue /\ t.to = task[p].to \ {c}
           /\ t.note = IF task[p].to = {c} THEN <<>> ELSE task[p].note
<1>0. task = [r \in Tasks |-> task[r]] /\ IsRecord(task[p], HandlerFields)
  BY DEF TasksTyped, HandlerOK
<1> DEFINE note == IF task[p].to = {c} THEN <<>> ELSE task[p].note
<1>1. task' = [task EXCEPT ![p].to = @ \ {c}, ![p].note = note]
  BY DEF Write
<1> HIDE DEF note
<1> DEFINE t == task'[p]
<1>2. /\ IsRecord(t, HandlerFields)
      /\ t.at = task[p].at /\ t.todo = task[p].todo /\ t.playback = task[p].playback
      /\ t.request = task[p].request
      /\ t.queue = task[p].queue /\ t.to = task[p].to \ {c} /\ t.note = note
  BY <1>0, <1>1 DEF IsRecord, HandlerFields
<1>3. task' = [task EXCEPT ![p] = t] /\ \A r \in Tasks \ {p} : task'[r] = task[r]
  BY <1>0, <1>1
<1>4. QED
  BY <1>2, <1>3 DEF Works, note

LEMMA DisconnectHandlers ==
  ASSUME TasksTyped(task, playback), NEW c, Disconnect(c), NEW p \in Tasks
  PROVE  LET t == task'[p] IN
           /\ IsRecord(t, HandlerFields)
           /\ t.at = task[p].at /\ t.todo = task[p].todo /\ t.playback = task[p].playback
           /\ t.request = task[p].request
           /\ t.queue = task[p].queue /\ t.note = task[p].note /\ t.to = task[p].to \ {c}
BY DEF Disconnect, TasksTyped, HandlerOK, IsRecord, HandlerFields

-----------------------------------------------------------------------------
(* Every step leaves the variables well formed *)

LEMMA EventOK ==
  ASSUME NEW p, HandlerOK(task[p], playback), task[p].todo # <<>>, Step(p) # "list"
  PROVE  /\ FrameOK(Event(p), playback)
         /\ Step(p) = "playback" => Event(p).type = "playback" /\ Event(p).playback = task[p].playback
         /\ Step(p) = "queue" => Event(p).type = "queue" /\ Event(p).queue = task[p].queue
<1>1. Known(task[p].playback, playback)
  BY DEF HandlerOK
<1>2. CASE Step(p) = "playback"
  <2>1. Event(p) = [type |-> "playback", playback |-> task[p].playback]
    BY <1>2 DEF Event
  <2>2. QED
    BY <1>1, <1>2, <2>1 DEF FrameOK
<1>3. CASE Step(p) # "playback"
  <2>1. Event(p) = [type |-> "queue", queue |-> task[p].queue]
    BY <1>3 DEF Event
  <2>2. QED
    BY <1>3, <2>1 DEF FrameOK
<1>4. QED
  BY <1>2, <1>3

LEMMA AnswerIsOK ==
  ASSUME NEW w, NEW t, NEW now, Known(t.playback, now)
  PROVE  AnswerOK(Answer(w, t), now)
<1>1. CASE w.op \in Transports
  BY <1>1 DEF Answer, AnswerOK
<1>2. CASE w.op \notin Transports /\ w.op = "add"
  BY <1>2 DEF Answer, AnswerOK
<1>3. CASE w.op \notin Transports /\ w.op = "remove"
  BY <1>3 DEF Answer, AnswerOK
<1>4. CASE w.op \notin Transports /\ w.op # "add" /\ w.op # "remove"
  BY <1>4 DEF Answer, AnswerOK
<1>5. QED
  BY <1>1, <1>2, <1>3, <1>4

\* A frame changes the playback shown to its own, or not at all if older.
LEMMA HandledFacts ==
  ASSUME NEW v, NEW e, NEW now, ViewOK(v, now), FrameOK(e, now)
  PROVE  LET h == Handled(v, e) IN
         /\ ViewOK(h, now)
         /\ e.type = "snapshot" => h.playback = e.playback
         /\ e.type = "playback" => h.playback = Newer(v.playback, e.playback)
         /\ e.type = "queue" => h.playback = v.playback
<1>1. CASE e.type = "snapshot"
  <2>1. Handled(v, e) = [playback |-> e.playback, queue |-> e.queue]
    BY <1>1 DEF Handled
  <2>2. QED
    BY <1>1, <2>1, ViewFacts DEF ViewOK, FrameOK
<1>2. CASE e.type = "playback"
  <2>1. Handled(v, e) = [v EXCEPT !.playback = Newer(@, e.playback)]
    BY <1>2 DEF Handled
  <2>2. Known(Newer(v.playback, e.playback), now)
    BY <1>2 DEF Newer, ViewOK, FrameOK
  <2> DEFINE pb == Newer(v.playback, e.playback)
  <2>3. Handled(v, e) = [v EXCEPT !.playback = pb]
    BY <2>1
  <2> HIDE DEF pb
  <2>4. /\ IsRecord(Handled(v, e), ViewFields) /\ Handled(v, e).playback = pb
    BY <2>3 DEF ViewOK, IsRecord, ViewFields
  <2>5. QED
    BY <1>2, <2>2, <2>4 DEF ViewOK, pb
<1>3. CASE e.type = "queue"
  <2>1. Handled(v, e) = [v EXCEPT !.queue = e.queue]
    BY <1>3 DEF Handled
  <2>2. /\ IsRecord(Handled(v, e), ViewFields) /\ Handled(v, e).playback = v.playback
    BY <2>1 DEF ViewOK, IsRecord, ViewFields
  <2>3. QED
    BY <1>3, <2>2 DEF ViewOK
<1>4. QED
  BY <1>1, <1>2, <1>3 DEF FrameOK

LEMMA AnsweredFacts ==
  ASSUME NEW v, NEW a, NEW now, ViewOK(v, now), AnswerOK(a, now), a.type # "conflict"
  PROVE  ViewOK(Answered(v, a), now)
<1>1. CASE a.type = "playback"
  <2>1. Answered(v, a) = [v EXCEPT !.playback = a.playback]
    BY <1>1 DEF Answered
  <2>2. /\ IsRecord(Answered(v, a), ViewFields) /\ Answered(v, a).playback = a.playback
    BY <2>1 DEF ViewOK, IsRecord, ViewFields
  <2>3. QED
    BY <1>1, <2>2 DEF ViewOK, AnswerOK
<1>2. CASE a.type = "added"
  <2> DEFINE pb == IF a.primed = NoPlayback THEN v.playback ELSE a.primed
  <2>1. Answered(v, a) = [playback |-> pb, queue |-> a.queue]
    BY <1>2 DEF Answered
  <2>2. Known(pb, now)
    BY <1>2 DEF ViewOK, AnswerOK
  <2> HIDE DEF pb
  <2>3. QED
    BY <2>1, <2>2, ViewFacts DEF ViewOK
<1>3. CASE a.type = "removed"
  <2> DEFINE q == Without(v.queue, a.entry)
  <2>1. Answered(v, a) = [v EXCEPT !.queue = q]
    BY <1>3 DEF Answered
  <2> HIDE DEF q
  <2>2. /\ IsRecord(Answered(v, a), ViewFields) /\ Answered(v, a).playback = v.playback
    BY <2>1 DEF ViewOK, IsRecord, ViewFields
  <2>3. QED
    BY <2>2 DEF ViewOK
<1>4. CASE a.type = "reordered"
  <2>1. Answered(v, a) = [v EXCEPT !.queue = a.queue]
    BY <1>4 DEF Answered
  <2>2. /\ IsRecord(Answered(v, a), ViewFields) /\ Answered(v, a).playback = v.playback
    BY <2>1 DEF ViewOK, IsRecord, ViewFields
  <2>3. QED
    BY <2>2 DEF ViewOK
<1>5. QED
  BY <1>1, <1>2, <1>3, <1>4 DEF AnswerOK

\* A transaction: only its handler and the store change.
LEMMA TransactionTyped ==
  ASSUME Typed, NEW p \in Tasks, Transaction(p), task[p].at # "working",
         UNCHANGED <<registered, snap, client>>
  PROVE  Typed'
<1>1. PICK pb, q, todo :
        Committed(p, pb, q, todo) /\ Moves(playback, pb) /\ Announces(pb, q, todo)
  BY DEF Transaction
<1>2. playback' = pb
  BY <1>1 DEF Committed
<1>3. /\ pb.rev \in Nat
      /\ TasksTyped(task, pb) /\ WiresTyped(wire, pb) /\ SnapsTyped(snap, pb)
      /\ AnswersTyped(answer, pb) /\ ViewsTyped(view, pb) /\ ToldTyped(told, pb)
  BY <1>1, AllStay
<1>4. TasksTyped(task', pb)
  <2>1. PICK t :
           /\ Works(p, t) /\ IsRecord(t, HandlerFields)
           /\ t.at = "working" /\ t.todo = todo /\ t.queue = q
           /\ t.playback = IF pb # playback THEN pb ELSE NoPlayback
           /\ t.note = task[p].note /\ t.to = task[p].to
    BY <1>1, CommittedHandler DEF Typed
  <2>2. Known(t.playback, pb)
    BY <1>3, <2>1, KnownFacts
  <2>3. HandlerOK(t, pb)
    BY <1>1, <1>3, <2>1, <2>2 DEF HandlerOK, Announces, TasksTyped
  <2>4. QED
    BY <1>3, <2>1, <2>3, WorksTyped
<1>5. QED
  BY <1>2, <1>3, <1>4 DEF Typed, client

\* Steps that leave the playback alone.
LEMMA StillTyped ==
  ASSUME Typed, UNCHANGED playback, registered' \subseteq Clients,
         task' = task \/ TasksTyped(task', playback),
         wire' = wire \/ WiresTyped(wire', playback),
         snap' = snap \/ SnapsTyped(snap', playback),
         answer' = answer \/ AnswersTyped(answer', playback),
         view' = view \/ ViewsTyped(view', playback),
         told' = told \/ ToldTyped(told', playback)
  PROVE  Typed'
BY DEF Typed

\* Only c's snapshot of this kind changes.
Snaps(c, v, s) == snap' = [snap EXCEPT ![c][v] = s]

LEMMA SnapChanges ==
  ASSUME SnapsTyped(snap, playback), NEW c \in Clients, NEW v \in Vias, NEW s,
         Snaps(c, v, s), SnapOK(s, playback)
  PROVE  /\ SnapsTyped(snap', playback) /\ snap'[c][v] = s
         /\ \A d \in Clients, u \in Vias : <<d, u>> # <<c, v>> => snap'[d][u] = snap[d][u]
BY DEF SnapsTyped, Snaps

LEMMA WireChanges ==
  ASSUME WiresTyped(wire, playback), NEW c \in Clients, NEW w,
         wire' = [wire EXCEPT ![c] = w], WireOK(w, playback)
  PROVE  /\ WiresTyped(wire', playback) /\ wire'[c] = w
         /\ \A d \in Clients \ {c} : wire'[d] = wire[d]
BY DEF WiresTyped

LEMMA AskTyped == ASSUME Typed, NEW p \in Managers, Ask(p) PROVE Typed'
<1>0. p \in Tasks /\ UNCHANGED <<playback, registered, snap, client>>
  BY DEF Tasks, Ask
<1>1. PICK t :
        /\ Works(p, t) /\ IsRecord(t, HandlerFields)
        /\ t.at = "asked" /\ t.todo = <<>> /\ t.playback = NoPlayback
        /\ t.note = <<>> /\ t.to = {}
  BY AskHandler DEF Typed
<1>2. HandlerOK(t, playback)
  BY <1>1, KnownFacts, EmptySeqFacts DEF HandlerOK, Todos, Typed
<1>3. TasksTyped(task', playback)
  BY <1>0, <1>1, <1>2, WorksTyped DEF Typed
<1>4. QED
  BY <1>0, <1>3, StillTyped DEF Typed, client

LEMMA IdleOK == ASSUME playback.rev \in Nat PROVE HandlerOK(Idle, playback)
BY KnownFacts, IdleFacts, EmptySeqFacts DEF HandlerOK, Todos

LEMMA RefuseTyped == ASSUME Typed, NEW p \in Managers, Refuse(p) PROVE Typed'
<1>0. /\ p \in Tasks /\ p \in Clients
      /\ task' = [task EXCEPT ![p] = Idle]
      /\ UNCHANGED <<playback, registered, snap, wire, view, told>>
  BY SyncAssumption DEF Tasks, Refuse, store
<1>1. Works(p, Idle) /\ HandlerOK(Idle, playback)
  BY <1>0, RestHandler, IdleOK DEF Typed
<1>2. TasksTyped(task', playback)
  BY <1>0, <1>1, WorksTyped DEF Typed
<1>3. \/ answer' = [answer EXCEPT ![p] = <<[type |-> "conflict"]>>]
      \/ answer' = [answer EXCEPT ![p] = <<>>]
  BY DEF Refuse
<1>4. AnswersTyped(answer', playback)
  BY <1>0, <1>3 DEF Typed, AnswersTyped, AnswerOK
<1>5. QED
  BY <1>0, <1>2, <1>4, StillTyped DEF Typed

LEMMA ListTyped == ASSUME Typed, NEW p \in Tasks, ListQueue(p) PROVE Typed'
<1>0. UNCHANGED <<playback, registered, snap, client>> /\ task[p].todo # <<>>
  BY DEF ListQueue, store
<1>1. PICK t :
        /\ Works(p, t) /\ IsRecord(t, HandlerFields)
        /\ t.at = task[p].at /\ t.todo = Tail(task[p].todo) /\ t.playback = task[p].playback
        /\ t.queue = queue /\ t.note = task[p].note /\ t.to = task[p].to
  BY ListHandler DEF Typed
<1>2. HandlerOK(task[p], playback)
  BY DEF Typed, TasksTyped
<1>3. t.todo \in Todos
  BY <1>0, <1>1, <1>2, TodoTails DEF HandlerOK
<1>4. HandlerOK(t, playback)
  BY <1>0, <1>1, <1>2, <1>3 DEF HandlerOK
<1>5. TasksTyped(task', playback)
  BY <1>1, <1>4, WorksTyped DEF Typed
<1>6. QED
  BY <1>0, <1>5, StillTyped DEF Typed, client

LEMMA CollectTyped == ASSUME Typed, NEW p \in Tasks, Collect(p) PROVE Typed'
<1>0. UNCHANGED <<playback, registered, snap, client>> /\ task[p].todo # <<>> /\ Step(p) # "list"
  BY DEF Collect, store
<1>1. PICK t :
        /\ Works(p, t) /\ IsRecord(t, HandlerFields)
        /\ t.at = task[p].at /\ t.todo = Tail(task[p].todo) /\ t.playback = task[p].playback
        /\ t.queue = task[p].queue /\ t.to = registered
        /\ t.note = IF registered = {} THEN <<>> ELSE <<Event(p)>>
  BY CollectHandler DEF Typed
<1>2. HandlerOK(task[p], playback)
  BY DEF Typed, TasksTyped
<1>3. t.todo \in Todos
  BY <1>0, <1>1, <1>2, TodoTails DEF HandlerOK
<1>4. IsSeq(t.note) /\ \A f \in ToSet(t.note) : FrameOK(f, playback)
  BY <1>0, <1>1, <1>2, EventOK, SingleFacts, EmptySeqFacts
<1>5. HandlerOK(t, playback)
  BY <1>0, <1>1, <1>2, <1>3, <1>4 DEF HandlerOK
<1>6. TasksTyped(task', playback)
  BY <1>1, <1>5, WorksTyped DEF Typed
<1>7. QED
  BY <1>0, <1>6, StillTyped DEF Typed, client

LEMMA WriteTyped ==
  ASSUME Typed, NEW p \in Tasks, NEW c \in Clients, Write(p, c)
  PROVE  /\ Typed'
         /\ ToSet(wire'[c]) = ToSet(wire[c]) \union ToSet(task[p].note)
         /\ \A d \in Clients \ {c} : wire'[d] = wire[d]
<1>0. /\ UNCHANGED <<playback, registered, snap, answer, view, told>>
      /\ wire' = [wire EXCEPT ![c] = @ \o task[p].note] /\ c \in task[p].to
  BY DEF Write, store
<1>1. PICK t :
        /\ Works(p, t) /\ IsRecord(t, HandlerFields)
        /\ t.at = task[p].at /\ t.todo = task[p].todo /\ t.playback = task[p].playback
        /\ t.queue = task[p].queue /\ t.to = task[p].to \ {c}
        /\ t.note = IF task[p].to = {c} THEN <<>> ELSE task[p].note
  BY WriteHandler DEF Typed
<1>2. HandlerOK(task[p], playback) /\ WireOK(wire[c], playback)
  BY DEF Typed, TasksTyped, WiresTyped
<1>3. HandlerOK(t, playback)
  BY <1>1, <1>2, EmptySeqFacts DEF HandlerOK
<1>4. TasksTyped(task', playback)
  BY <1>1, <1>3, WorksTyped DEF Typed
<1> DEFINE w == wire[c] \o task[p].note
<1>5. ToSet(w) = ToSet(wire[c]) \union ToSet(task[p].note) /\ WireOK(w, playback)
  BY <1>2, ConcatFacts DEF WireOK, HandlerOK
<1> HIDE DEF w
<1>6. wire' = [wire EXCEPT ![c] = w]
  BY <1>0 DEF w
<1>7. WiresTyped(wire', playback) /\ wire'[c] = w /\ \A d \in Clients \ {c} : wire'[d] = wire[d]
  BY <1>5, <1>6, WireChanges DEF Typed
<1>8. Typed'
  BY <1>0, <1>4, <1>7, StillTyped DEF Typed
<1>9. QED
  BY <1>5, <1>7, <1>8

LEMMA FinishTyped == ASSUME Typed, NEW p \in Tasks, Finish(p) PROVE Typed'
<1>0. /\ task' = [task EXCEPT ![p] = Idle]
      /\ UNCHANGED <<playback, registered, snap, wire, view, told>>
  BY DEF Finish, store
<1>1. Works(p, Idle) /\ HandlerOK(Idle, playback)
  BY <1>0, RestHandler, IdleOK DEF Typed
<1>2. TasksTyped(task', playback)
  BY <1>0, <1>1, WorksTyped DEF Typed
<1> DEFINE a == Answer(Head(task[p].request), task[p])
<1>3. AnswerOK(a, playback)
  BY AnswerIsOK DEF Typed, TasksTyped, HandlerOK
<1>4. answer' = answer \/ (p \in Clients /\ answer' = [answer EXCEPT ![p] = <<a>>])
  BY SyncAssumption DEF Finish, Tasks
<1> HIDE DEF a
<1>5. answer' = answer \/ AnswersTyped(answer', playback)
  BY <1>3, <1>4 DEF Typed, AnswersTyped
<1>6. QED
  BY <1>0, <1>2, <1>5, StillTyped DEF Typed

\* Both kinds of snapshots are asked for and built alike.
LEMMA AskedTyped ==
  ASSUME Typed, NEW c \in Clients, NEW v \in Vias,
         snap' = [snap EXCEPT ![c][v] = [NoSnap EXCEPT !.stage = "asked"]]
  PROVE  /\ SnapsTyped(snap', playback)
         /\ \A d \in Clients, u \in Vias : <<d, u>> # <<c, v>> => snap'[d][u] = snap[d][u]
<1>1. SnapOK([NoSnap EXCEPT !.stage = "asked"], playback)
  BY NoSnapFacts, KnownFacts DEF SnapOK, Typed
<1>2. Snaps(c, v, [NoSnap EXCEPT !.stage = "asked"])
  BY DEF Snaps
<1> DEFINE s == [NoSnap EXCEPT !.stage = "asked"]
<1> HIDE DEF s
<1>3. Snaps(c, v, s) /\ SnapOK(s, playback)
  BY <1>1, <1>2 DEF s
<1>4. QED
  BY <1>3, SnapChanges DEF Typed

LEMMA ClearedTyped ==
  ASSUME Typed, NEW c \in Clients, NEW v \in Vias, snap' = [snap EXCEPT ![c][v] = NoSnap]
  PROVE  /\ SnapsTyped(snap', playback)
         /\ \A d \in Clients, u \in Vias : <<d, u>> # <<c, v>> => snap'[d][u] = snap[d][u]
<1>1. SnapOK(NoSnap, playback)
  BY NoSnapFacts, KnownFacts DEF SnapOK, Typed
<1>2. Snaps(c, v, NoSnap)
  BY DEF Snaps
<1>3. QED
  BY <1>1, <1>2, SnapChanges DEF Typed

LEMMA BuildTyped ==
  ASSUME Typed, NEW c \in Clients, NEW v \in Vias, BuildStep(c, v)
  PROVE  /\ Typed'
         /\ \A d \in Clients, u \in Vias : <<d, u>> # <<c, v>> => snap'[d][u] = snap[d][u]
<1>0. /\ UNCHANGED <<playback, registered, task, client>>
      /\ snap' = [snap EXCEPT ![c][v] = Build(@)]
  BY DEF BuildStep, store
<1> DEFINE s == Build(snap[c][v])
<1>1. SnapOK(s, playback)
  BY BuildFacts, KnownFacts DEF Typed, SnapsTyped, SnapOK
<1>2. Snaps(c, v, s)
  BY <1>0 DEF Snaps
<1> HIDE DEF s
<1>3. /\ SnapsTyped(snap', playback)
      /\ \A d \in Clients, u \in Vias : <<d, u>> # <<c, v>> => snap'[d][u] = snap[d][u]
  BY <1>1, <1>2, SnapChanges DEF Typed
<1>4. QED
  BY <1>0, <1>3, StillTyped DEF Typed, client

LEMMA FetchTyped ==
  ASSUME Typed, NEW c \in Listeners, Fetch(c)
  PROVE  Typed' /\ \A d \in Clients : snap'[d]["socket"] = snap[d]["socket"]
<1>0. /\ UNCHANGED <<playback, registered, task, client>> /\ c \in Clients /\ "fetch" \in Vias
      /\ snap' = [snap EXCEPT ![c]["fetch"] = [NoSnap EXCEPT !.stage = "asked"]]
  BY SyncAssumption DEF Fetch, store, Vias
<1>1. /\ SnapsTyped(snap', playback)
      /\ \A d \in Clients, u \in Vias : <<d, u>> # <<c, "fetch">> => snap'[d][u] = snap[d][u]
  BY <1>0, AskedTyped
<1>2. QED
  BY <1>0, <1>1, StillTyped DEF Typed, client, Vias

LEMMA ConnectTyped ==
  ASSUME Typed, NEW c \in Listeners, Connect(c)
  PROVE  Typed' /\ \A d \in Clients \ {c} : snap'[d]["socket"] = snap[d]["socket"]
<1>0. /\ UNCHANGED <<playback, registered, task, client>> /\ c \in Clients /\ "socket" \in Vias
      /\ snap' = [snap EXCEPT ![c]["socket"] = [NoSnap EXCEPT !.stage = "asked"]]
  BY SyncAssumption DEF Connect, store, Vias
<1>1. /\ SnapsTyped(snap', playback)
      /\ \A d \in Clients, u \in Vias : <<d, u>> # <<c, "socket">> => snap'[d][u] = snap[d][u]
  BY <1>0, AskedTyped
<1>2. QED
  BY <1>0, <1>1, StillTyped DEF Typed, client, Vias

LEMMA RegisterTyped ==
  ASSUME Typed, NEW c \in Listeners, Register(c)
  PROVE  /\ Typed'
         /\ told'[c].rev = playback.rev /\ told'[c].queues = {queue}
         /\ \A d \in Clients \ {c} : told'[d] = told[d]
<1> DEFINE n == [rev |-> playback.rev, queues |-> {queue}]
<1>0. /\ UNCHANGED <<playback, task, snap, wire, answer, view>> /\ c \in Clients
      /\ registered' = registered \union {c}
      /\ told' = [told EXCEPT ![c] = n]
  BY SyncAssumption DEF Register, store
<1>1. ToldOK(n, playback) /\ n.rev = playback.rev /\ n.queues = {queue}
  BY DEF ToldOK, Typed
<1> HIDE DEF n
<1>2. /\ ToldTyped(told', playback) /\ told'[c] = n
      /\ \A d \in Clients \ {c} : told'[d] = told[d]
  BY <1>0, <1>1 DEF Typed, ToldTyped
<1>3. registered' \subseteq Clients
  BY <1>0 DEF Typed
<1>4. QED
  BY <1>0, <1>1, <1>2, <1>3, StillTyped

LEMMA InitialTyped ==
  ASSUME Typed, NEW c \in Listeners, WriteInitial(c)
  PROVE  /\ Typed'
         /\ \E f : /\ f.type = "snapshot" /\ f.playback = snap[c]["socket"].playback
                   /\ ToSet(wire'[c]) = ToSet(wire[c]) \union {f}
         /\ \A d \in Clients \ {c} : wire'[d] = wire[d] /\ snap'[d]["socket"] = snap[d]["socket"]
<1> DEFINE f == [type |-> "snapshot", queue |-> snap[c]["socket"].queue,
                 playback |-> snap[c]["socket"].playback]
           w == Append(wire[c], f)
<1>0. /\ UNCHANGED <<playback, registered, task, answer, view, told>>
      /\ c \in Clients /\ "socket" \in Vias
      /\ wire' = [wire EXCEPT ![c] = w]
      /\ snap' = [snap EXCEPT ![c]["socket"] = NoSnap]
  BY SyncAssumption DEF WriteInitial, store, Vias
<1>1. Known(snap[c]["socket"].playback, playback) /\ WireOK(wire[c], playback)
  BY <1>0 DEF Typed, SnapsTyped, SnapOK, WiresTyped
<1>2. FrameOK(f, playback) /\ f.type = "snapshot" /\ f.playback = snap[c]["socket"].playback
  BY <1>1 DEF FrameOK
<1> HIDE DEF f
<1>3. ToSet(w) = ToSet(wire[c]) \union {f} /\ WireOK(w, playback)
  BY <1>1, <1>2, AppendFacts DEF WireOK
<1> HIDE DEF w
<1>4. WiresTyped(wire', playback) /\ wire'[c] = w /\ \A d \in Clients \ {c} : wire'[d] = wire[d]
  BY <1>0, <1>3, WireChanges DEF Typed
<1>5. /\ SnapsTyped(snap', playback)
      /\ \A d \in Clients, u \in Vias : <<d, u>> # <<c, "socket">> => snap'[d][u] = snap[d][u]
  BY <1>0, ClearedTyped
<1>6. Typed'
  BY <1>0, <1>4, <1>5, StillTyped DEF Typed
<1>7. QED
  BY <1>2, <1>3, <1>4, <1>5, <1>6 DEF Vias

LEMMA DisconnectTyped ==
  ASSUME Typed, NEW c \in Listeners, Disconnect(c)
  PROVE  /\ Typed'
         /\ \A d \in Clients \ {c} : wire'[d] = wire[d] /\ snap'[d]["socket"] = snap[d]["socket"]
<1>0. /\ UNCHANGED <<playback, answer, view, told>>
      /\ c \in Clients /\ "socket" \in Vias
      /\ registered' = registered \ {c}
      /\ wire' = [wire EXCEPT ![c] = <<>>]
      /\ snap' = [snap EXCEPT ![c]["socket"] = NoSnap]
      /\ task' = [p \in Tasks |-> [task[p] EXCEPT !.to = @ \ {c}]]
  BY SyncAssumption DEF Disconnect, store, Vias
<1>1. WiresTyped(wire', playback) /\ \A d \in Clients \ {c} : wire'[d] = wire[d]
  BY <1>0, EmptySeqFacts, WireChanges DEF Typed, WireOK
<1>2. /\ SnapsTyped(snap', playback)
      /\ \A d \in Clients, u \in Vias : <<d, u>> # <<c, "socket">> => snap'[d][u] = snap[d][u]
  BY <1>0, ClearedTyped
<1>3. ASSUME NEW p \in Tasks PROVE HandlerOK(task'[p], playback)
  <2> DEFINE t == task'[p]
  <2>1. /\ IsRecord(t, HandlerFields)
        /\ t.at = task[p].at /\ t.todo = task[p].todo /\ t.playback = task[p].playback
        /\ t.queue = task[p].queue /\ t.note = task[p].note /\ t.to = task[p].to \ {c}
    BY DisconnectHandlers DEF Typed
  <2> HIDE DEF t
  <2>2. HandlerOK(task[p], playback)
    BY DEF Typed, TasksTyped
  <2>3. HandlerOK(t, playback)
    BY <2>1, <2>2 DEF HandlerOK
  <2>4. QED
    BY <2>3 DEF t
<1>4. TasksTyped(task', playback)
  BY <1>0, <1>3 DEF TasksTyped
<1>5. Typed'
  BY <1>0, <1>1, <1>2, <1>4, StillTyped DEF Typed
<1>6. QED
  BY <1>1, <1>2, <1>5 DEF Vias

LEMMA ViewChanges ==
  ASSUME ViewsTyped(view, playback), NEW c \in Clients, NEW v,
         view' = [view EXCEPT ![c] = v], ViewOK(v, playback)
  PROVE  /\ ViewsTyped(view', playback) /\ view'[c] = v
         /\ \A d \in Clients \ {c} : view'[d] = view[d]
BY DEF ViewsTyped

LEMMA HandleTyped ==
  ASSUME Typed, NEW c \in Clients, Handle(c)
  PROVE  LET e == Head(wire[c]) IN
         /\ Typed'
         /\ FrameOK(e, playback)
         /\ ToSet(wire[c]) = {e} \union ToSet(wire'[c])
         /\ view'[c] = Handled(view[c], e)
         /\ told'[c].rev = IF e.type = "playback" /\ e.playback.rev > told[c].rev
                           THEN e.playback.rev ELSE told[c].rev
         /\ told'[c].queues = IF e.type = "queue" THEN told[c].queues \union {e.queue} ELSE told[c].queues
         /\ \A d \in Clients \ {c} :
              wire'[d] = wire[d] /\ view'[d] = view[d] /\ told'[d] = told[d]
<1> DEFINE e == Head(wire[c])
           w == Tail(wire[c])
           v == Handled(view[c], e)
           rev == IF e.type = "playback" /\ e.playback.rev > told[c].rev
                  THEN e.playback.rev ELSE told[c].rev
           queues == IF e.type = "queue" THEN told[c].queues \union {e.queue} ELSE told[c].queues
           n == [rev |-> rev, queues |-> queues]
<1>0. /\ UNCHANGED <<playback, registered, task, snap, answer>> /\ wire[c] # <<>>
      /\ wire' = [wire EXCEPT ![c] = w]
      /\ view' = [view EXCEPT ![c] = v]
      /\ told' = [told EXCEPT ![c] = n]
  BY DEF Handle, store
<1>1. WireOK(wire[c], playback) /\ ViewOK(view[c], playback) /\ ToldOK(told[c], playback)
  BY DEF Typed, WiresTyped, ViewsTyped, ToldTyped
<1>2. ToSet(wire[c]) = {e} \union ToSet(w) /\ WireOK(w, playback) /\ FrameOK(e, playback)
  BY <1>0, <1>1, TailFacts DEF WireOK
<1>3. ViewOK(v, playback)
  BY <1>1, <1>2, HandledFacts
<1>4. rev \in Int /\ rev <= playback.rev
  BY <1>1, <1>2 DEF ToldOK, FrameOK, Known
<1> HIDE DEF e, w, v, rev, queues
<1>5. ToldOK(n, playback) /\ n.rev = rev /\ n.queues = queues
  BY <1>4 DEF ToldOK
<1> HIDE DEF n
<1>6. WiresTyped(wire', playback) /\ wire'[c] = w /\ \A d \in Clients \ {c} : wire'[d] = wire[d]
  BY <1>0, <1>2, WireChanges DEF Typed
<1>7. ViewsTyped(view', playback) /\ view'[c] = v /\ \A d \in Clients \ {c} : view'[d] = view[d]
  BY <1>0, <1>3, ViewChanges DEF Typed
<1>8. ToldTyped(told', playback) /\ told'[c] = n /\ \A d \in Clients \ {c} : told'[d] = told[d]
  BY <1>0, <1>5 DEF Typed, ToldTyped
<1>9. Typed'
  BY <1>0, <1>6, <1>7, <1>8, StillTyped DEF Typed
<1>10. QED
  BY <1>2, <1>5, <1>6, <1>7, <1>8, <1>9 DEF e, v, rev, queues

LEMMA AnswerTyped ==
  ASSUME Typed, NEW c \in Managers, TakeAnswer(c)
  PROVE  /\ Typed' /\ c \in Clients
         /\ \A d \in Clients \ {c} : view'[d] = view[d]
<1> DEFINE v == Answered(view[c], answer[c][1])
<1>0. /\ UNCHANGED <<playback, registered, task, snap, wire, told>> /\ c \in Clients
      /\ answer' = [answer EXCEPT ![c] = <<>>] /\ answer[c] # <<>> /\ answer[c][1].type # "conflict"
      /\ view' = [view EXCEPT ![c] = v]
  BY SyncAssumption DEF TakeAnswer, store
<1>1. ViewOK(v, playback)
  BY <1>0, AnsweredFacts DEF Typed, ViewsTyped, AnswersTyped
<1> HIDE DEF v
<1>2. ViewsTyped(view', playback) /\ view'[c] = v /\ \A d \in Clients \ {c} : view'[d] = view[d]
  BY <1>0, <1>1, ViewChanges DEF Typed
<1>3. AnswersTyped(answer', playback)
  BY <1>0 DEF Typed, AnswersTyped
<1>4. QED
  BY <1>0, <1>2, <1>3, StillTyped DEF Typed

LEMMA ConflictTyped ==
  ASSUME Typed, NEW c \in Managers, TakeConflict(c)
  PROVE  Typed' /\ \A d \in Clients : snap'[d]["socket"] = snap[d]["socket"]
<1>0. /\ UNCHANGED <<playback, registered, task, wire, view, told>> /\ c \in Clients /\ "fetch" \in Vias
      /\ snap' = [snap EXCEPT ![c]["fetch"] = [NoSnap EXCEPT !.stage = "asked"]]
      /\ answer' = [answer EXCEPT ![c] = <<>>]
  BY SyncAssumption DEF TakeConflict, store, Vias
<1>1. /\ SnapsTyped(snap', playback)
      /\ \A d \in Clients, u \in Vias : <<d, u>> # <<c, "fetch">> => snap'[d][u] = snap[d][u]
  BY <1>0, AskedTyped
<1>2. AnswersTyped(answer', playback)
  BY <1>0 DEF Typed, AnswersTyped
<1>3. QED
  BY <1>0, <1>1, <1>2, StillTyped DEF Typed, Vias

LEMMA FetchedTyped ==
  ASSUME Typed, NEW c \in Clients, TakeFetched(c)
  PROVE  /\ Typed'
         /\ view'[c].playback = snap[c]["fetch"].playback
         /\ \A d \in Clients \ {c} : view'[d] = view[d]
         /\ \A d \in Clients : snap'[d]["socket"] = snap[d]["socket"]
<1> DEFINE v == [playback |-> snap[c]["fetch"].playback, queue |-> snap[c]["fetch"].queue]
<1>0. /\ UNCHANGED <<playback, registered, task, wire, answer, told>> /\ "fetch" \in Vias
      /\ view' = [view EXCEPT ![c] = v]
      /\ snap' = [snap EXCEPT ![c]["fetch"] = NoSnap]
  BY DEF TakeFetched, store, Vias
<1>1. ViewOK(v, playback) /\ v.playback = snap[c]["fetch"].playback
  BY <1>0, ViewFacts DEF ViewOK, Typed, SnapsTyped, SnapOK
<1> HIDE DEF v
<1>2. ViewsTyped(view', playback) /\ view'[c] = v /\ \A d \in Clients \ {c} : view'[d] = view[d]
  BY <1>0, <1>1, ViewChanges DEF Typed
<1>3. /\ SnapsTyped(snap', playback)
      /\ \A d \in Clients, u \in Vias : <<d, u>> # <<c, "fetch">> => snap'[d][u] = snap[d][u]
  BY <1>0, ClearedTyped
<1>4. QED
  BY <1>0, <1>1, <1>2, <1>3, StillTyped DEF Typed, Vias

-----------------------------------------------------------------------------
(* What was committed last is under way to every registered client *)

Kinds == {"playback", "queue"}

Has(n, kind, pb, q) == IF kind = "playback" THEN n.rev = pb.rev ELSE q \in n.queues

Carries(f, kind, pb, q) ==
  f.type = kind /\ IF kind = "playback" THEN f.playback = pb ELSE f.queue = q

\* The handler will still send it: a queue event after "list" sends what is
\* read then.
Owes(t, kind, pb, q) ==
  /\ kind \in ToSet(t.todo)
  /\ IF kind = "playback" THEN t.playback = pb ELSE "list" \in ToSet(t.todo) \/ t.queue = q

InHands(t, c, kind, pb, q) ==
  \/ Owes(t, kind, pb, q)
  \/ c \in t.to /\ \E f \in ToSet(t.note) : Carries(f, kind, pb, q)

News(c, kind) ==
  \/ Has(told[c], kind, playback, queue)
  \/ \E f \in ToSet(wire[c]) : Carries(f, kind, playback, queue)
  \/ \E p \in Tasks : InHands(task[p], c, kind, playback, queue)

NewsInv == \A c \in registered, kind \in Kinds : News(c, kind)

\* A handler that owes nothing and is writing nothing.
LEMMA EmptyHands ==
  ASSUME NEW t, t.todo = <<>>, t.to = {}, NEW c, NEW kind, NEW pb, NEW q
  PROVE  ~InHands(t, c, kind, pb, q)
BY EmptySeqFacts DEF InHands, Owes

\* Steps that only change p's handler keep the news if p keeps it.
LEMMA WorkKeepsNews ==
  ASSUME NewsInv, NEW p \in Tasks, NEW t, Works(p, t),
         UNCHANGED <<playback, queue, registered, wire, told>>,
         \A c \in registered, kind \in Kinds :
           InHands(task[p], c, kind, playback, queue) => InHands(t, c, kind, playback, queue)
  PROVE  NewsInv'
<1> SUFFICES ASSUME NEW c \in registered, NEW kind \in Kinds PROVE News(c, kind)'
  BY DEF NewsInv
<1>1. News(c, kind)
  BY DEF NewsInv
<1>2. CASE \E r \in Tasks : InHands(task[r], c, kind, playback, queue)
  <2>1. PICK r \in Tasks : InHands(task[r], c, kind, playback, queue)
    BY <1>2
  <2>2. InHands(task'[r], c, kind, playback, queue)
    BY <2>1 DEF Works
  <2>3. QED
    BY <2>2 DEF News
<1>3. CASE Has(told[c], kind, playback, queue) \/ \E f \in ToSet(wire[c]) : Carries(f, kind, playback, queue)
  BY <1>3 DEF News
<1>4. QED
  BY <1>1, <1>2, <1>3 DEF News

LEMMA SameNews ==
  ASSUME NewsInv, UNCHANGED <<playback, queue, registered, task, wire, told>>
  PROVE  NewsInv'
BY DEF NewsInv, News

LEMMA AskNews == ASSUME Typed, NewsInv, NEW p \in Managers, Ask(p) PROVE NewsInv'
<1>0. p \in Tasks /\ UNCHANGED <<playback, queue, registered, wire, told>> /\ task[p] = Idle
  BY DEF Tasks, Ask, client
<1>1. PICK t : Works(p, t)
  BY AskHandler DEF Typed
<1>2. \A c, kind : ~InHands(task[p], c, kind, playback, queue)
  BY <1>0, IdleFacts, EmptyHands
<1>3. QED
  BY <1>0, <1>1, <1>2, WorkKeepsNews

LEMMA RefuseNews == ASSUME Typed, NewsInv, NEW p \in Managers, Refuse(p) PROVE NewsInv'
<1>0. /\ p \in Tasks /\ UNCHANGED <<playback, queue, registered, wire, told>>
      /\ task[p].at = "asked" /\ task' = [task EXCEPT ![p] = Idle]
  BY DEF Tasks, Refuse, store
<1>1. Works(p, Idle)
  BY <1>0, RestHandler DEF Typed
<1>2. \A c, kind : ~InHands(task[p], c, kind, playback, queue)
  BY <1>0, EmptyHands DEF Typed, TasksTyped, HandlerOK
<1>3. QED
  BY <1>0, <1>1, <1>2, WorkKeepsNews

LEMMA FinishNews == ASSUME Typed, NewsInv, NEW p \in Tasks, Finish(p) PROVE NewsInv'
<1>0. /\ UNCHANGED <<playback, queue, registered, wire, told>>
      /\ task[p].todo = <<>> /\ task[p].to = {} /\ task' = [task EXCEPT ![p] = Idle]
  BY DEF Finish, store, Writing
<1>1. Works(p, Idle)
  BY <1>0, RestHandler DEF Typed
<1>2. \A c, kind : ~InHands(task[p], c, kind, playback, queue)
  BY <1>0, EmptyHands
<1>3. QED
  BY <1>0, <1>1, <1>2, WorkKeepsNews

LEMMA ListNews == ASSUME Typed, NewsInv, NEW p \in Tasks, ListQueue(p) PROVE NewsInv'
<1>0. /\ UNCHANGED <<playback, queue, registered, wire, told>>
      /\ task[p].todo # <<>> /\ Head(task[p].todo) = "list"
  BY DEF ListQueue, store, client, Step
<1>1. PICK t :
        /\ Works(p, t) /\ IsRecord(t, HandlerFields)
        /\ t.at = task[p].at /\ t.todo = Tail(task[p].todo) /\ t.playback = task[p].playback
        /\ t.queue = queue /\ t.note = task[p].note /\ t.to = task[p].to
  BY ListHandler DEF Typed
<1>2. ToSet(task[p].todo) = {"list"} \union ToSet(t.todo)
  BY <1>0, <1>1, TodoTails DEF Typed, TasksTyped, HandlerOK
<1>3. ASSUME NEW c \in registered, NEW kind \in Kinds, InHands(task[p], c, kind, playback, queue)
      PROVE  InHands(t, c, kind, playback, queue)
  <2>1. CASE Owes(task[p], kind, playback, queue)
    <3>1. kind \in ToSet(t.todo)
      BY <1>2, <2>1 DEF Owes, Kinds
    <3>2. Owes(t, kind, playback, queue)
      BY <1>1, <2>1, <3>1 DEF Owes
    <3>3. QED
      BY <3>2 DEF InHands
  <2>2. CASE c \in task[p].to /\ \E f \in ToSet(task[p].note) : Carries(f, kind, playback, queue)
    BY <1>1, <2>2 DEF InHands
  <2>3. QED
    BY <1>3, <2>1, <2>2 DEF InHands
<1>4. QED
  BY <1>0, <1>1, <1>3, WorkKeepsNews

LEMMA CollectNews == ASSUME Typed, NewsInv, NEW p \in Tasks, Collect(p) PROVE NewsInv'
<1>0. /\ UNCHANGED <<playback, queue, registered, wire, told>>
      /\ task[p].todo # <<>> /\ Step(p) # "list" /\ task[p].to = {} /\ Step(p) = Head(task[p].todo)
  BY DEF Collect, store, client, Step, Writing
<1>1. PICK t :
        /\ Works(p, t) /\ IsRecord(t, HandlerFields)
        /\ t.at = task[p].at /\ t.todo = Tail(task[p].todo) /\ t.playback = task[p].playback
        /\ t.queue = task[p].queue /\ t.to = registered
        /\ t.note = IF registered = {} THEN <<>> ELSE <<Event(p)>>
  BY CollectHandler DEF Typed
<1>2. HandlerOK(task[p], playback)
  BY DEF Typed, TasksTyped
<1>3. /\ ToSet(task[p].todo) = {Step(p)} \union ToSet(t.todo)
      /\ Step(p) = "queue" => t.todo = <<>>
  BY <1>0, <1>1, <1>2, TodoTails DEF HandlerOK
<1>4. /\ Step(p) = "playback" => Event(p).type = "playback" /\ Event(p).playback = task[p].playback
      /\ Step(p) = "queue" => Event(p).type = "queue" /\ Event(p).queue = task[p].queue
  BY <1>0, <1>2, EventOK
<1>5. ASSUME NEW c \in registered, NEW kind \in Kinds, InHands(task[p], c, kind, playback, queue)
      PROVE  InHands(t, c, kind, playback, queue)
  <2>1. Owes(task[p], kind, playback, queue)
    BY <1>0, <1>5 DEF InHands
  <2>2. CASE kind = Step(p)
    <3>1. kind = "queue" => ToSet(task[p].todo) = {"queue"}
      BY <1>3, <2>2, EmptySeqFacts
    <3>2. Carries(Event(p), kind, playback, queue)
      BY <1>4, <2>1, <2>2, <3>1 DEF Owes, Carries, Kinds
    <3>3. c \in t.to /\ Event(p) \in ToSet(t.note)
      BY <1>1, SingleFacts
    <3>4. QED
      BY <3>2, <3>3 DEF InHands
  <2>3. CASE kind # Step(p)
    <3>1. kind \in ToSet(t.todo) /\ ("list" \in ToSet(task[p].todo) => "list" \in ToSet(t.todo))
      BY <1>0, <1>3, <2>1, <2>3 DEF Owes
    <3>2. Owes(t, kind, playback, queue)
      BY <1>1, <2>1, <3>1 DEF Owes
    <3>3. QED
      BY <3>2 DEF InHands
  <2>4. QED
    BY <2>2, <2>3
<1>6. QED
  BY <1>0, <1>1, <1>5, WorkKeepsNews

LEMMA WriteNews == ASSUME Typed, NewsInv, NEW p \in Tasks, NEW d \in Clients, Write(p, d) PROVE NewsInv'
<1>0. UNCHANGED <<playback, queue, registered, told>>
  BY DEF Write, store
<1>1. PICK t :
        /\ Works(p, t) /\ IsRecord(t, HandlerFields)
        /\ t.at = task[p].at /\ t.todo = task[p].todo /\ t.playback = task[p].playback
        /\ t.queue = task[p].queue /\ t.to = task[p].to \ {d}
        /\ t.note = IF task[p].to = {d} THEN <<>> ELSE task[p].note
  BY WriteHandler DEF Typed
<1>2. /\ ToSet(wire'[d]) = ToSet(wire[d]) \union ToSet(task[p].note)
      /\ \A c \in Clients \ {d} : wire'[c] = wire[c]
  BY WriteTyped
<1> SUFFICES ASSUME NEW c \in registered, NEW kind \in Kinds PROVE News(c, kind)'
  BY <1>0 DEF NewsInv
<1>3. News(c, kind) /\ c \in Clients
  BY DEF NewsInv, Typed
<1>4. CASE Has(told[c], kind, playback, queue)
  BY <1>0, <1>4 DEF News
<1>5. CASE \E f \in ToSet(wire[c]) : Carries(f, kind, playback, queue)
  <2>1. \E f \in ToSet(wire'[c]) : Carries(f, kind, playback, queue)
    BY <1>2, <1>3, <1>5
  <2>2. QED
    BY <1>0, <2>1 DEF News
<1>6. ASSUME NEW r \in Tasks, InHands(task[r], c, kind, playback, queue) PROVE News(c, kind)'
  <2>1. CASE r # p
    <3>1. InHands(task'[r], c, kind, playback, queue)
      BY <1>1, <1>6, <2>1 DEF Works
    <3>2. QED
      BY <1>0, <3>1 DEF News
  <2>2. CASE r = p /\ Owes(task[p], kind, playback, queue)
    <3>1. InHands(t, c, kind, playback, queue)
      BY <1>1, <2>2 DEF InHands, Owes
    <3>2. QED
      BY <1>0, <1>1, <3>1 DEF News, Works
  <2>3. CASE r = p /\ c \in task[p].to /\ \E f \in ToSet(task[p].note) : Carries(f, kind, playback, queue)
    <3>1. CASE c = d
      <4>1. \E f \in ToSet(wire'[c]) : Carries(f, kind, playback, queue)
        BY <1>2, <2>3, <3>1
      <4>2. QED
        BY <1>0, <4>1 DEF News
    <3>2. CASE c # d
      <4>1. InHands(t, c, kind, playback, queue)
        BY <1>1, <2>3, <3>2 DEF InHands
      <4>2. QED
        BY <1>0, <1>1, <4>1 DEF News, Works
    <3>3. QED
      BY <3>1, <3>2
  <2>4. QED
    BY <1>6, <2>1, <2>2, <2>3 DEF InHands
<1>7. QED
  BY <1>3, <1>4, <1>5, <1>6 DEF News

LEMMA TransactionNews ==
  ASSUME Typed, NewsInv, NEW p \in Tasks, Transaction(p), task[p].at # "working",
         UNCHANGED <<registered, wire, told>>
  PROVE  NewsInv'
<1>1. PICK pb, q, todo :
        Committed(p, pb, q, todo) /\ Moves(playback, pb) /\ Announces(pb, q, todo)
  BY DEF Transaction
<1>2. PICK t :
         /\ Works(p, t) /\ IsRecord(t, HandlerFields)
         /\ t.at = "working" /\ t.todo = todo /\ t.queue = q
         /\ t.playback = IF pb # playback THEN pb ELSE NoPlayback
         /\ t.note = task[p].note /\ t.to = task[p].to
  BY <1>1, CommittedHandler DEF Typed
<1>3. playback' = pb /\ queue' = q
  BY <1>1 DEF Committed
<1> SUFFICES ASSUME NEW c \in registered, NEW kind \in Kinds PROVE News(c, kind)'
  BY DEF NewsInv
<1> DEFINE new == (kind = "playback" /\ pb # playback) \/ (kind = "queue" /\ q # queue)
<1>4. CASE new
  <2>1. Owes(t, kind, pb, q)
    BY <1>1, <1>2, <1>4 DEF Owes, Announces
  <2>2. QED
    BY <1>2, <1>3, <2>1 DEF News, InHands, Works
<1>5. CASE ~new
  <2>1. (kind = "playback" /\ pb = playback) \/ (kind = "queue" /\ q = queue)
    BY <1>5 DEF Kinds
  <2>2. News(c, kind)
    BY DEF NewsInv
  <2>3. CASE Has(told[c], kind, playback, queue)
    BY <1>3, <2>1, <2>3 DEF News, Has
  <2>4. CASE \E f \in ToSet(wire[c]) : Carries(f, kind, playback, queue)
    BY <1>3, <2>1, <2>4 DEF News, Carries
  <2>5. ASSUME NEW r \in Tasks, InHands(task[r], c, kind, playback, queue) PROVE News(c, kind)'
    <3>1. r # p
      BY <2>5, EmptyHands DEF Typed, TasksTyped, HandlerOK
    <3>2. InHands(task[r], c, kind, pb, q)
      BY <2>1, <2>5 DEF InHands, Owes, Carries
    <3>3. QED
      BY <1>2, <1>3, <3>1, <3>2 DEF News, Works
  <2>6. QED
    BY <2>2, <2>3, <2>4, <2>5 DEF News
<1>6. QED
  BY <1>4, <1>5

LEMMA RegisterNews == ASSUME Typed, NewsInv, NEW d \in Listeners, Register(d) PROVE NewsInv'
<1>0. /\ UNCHANGED <<playback, queue, task, wire>> /\ registered' = registered \union {d}
  BY DEF Register, store
<1>1. /\ told'[d].rev = playback.rev /\ told'[d].queues = {queue}
      /\ \A c \in Clients \ {d} : told'[c] = told[c]
  BY RegisterTyped
<1> SUFFICES ASSUME NEW c \in registered', NEW kind \in Kinds PROVE News(c, kind)'
  BY DEF NewsInv
<1>2. CASE c = d
  BY <1>0, <1>1, <1>2 DEF News, Has
<1>3. CASE c # d
  <2>1. News(c, kind) /\ told'[c] = told[c]
    BY <1>0, <1>1, <1>3 DEF NewsInv, Typed
  <2>2. QED
    BY <1>0, <2>1 DEF News
<1>4. QED
  BY <1>2, <1>3

LEMMA InitialNews == ASSUME Typed, NewsInv, NEW d \in Listeners, WriteInitial(d) PROVE NewsInv'
<1>0. UNCHANGED <<playback, queue, registered, task, told>>
  BY DEF WriteInitial, store
<1>1. PICK f : /\ ToSet(wire'[d]) = ToSet(wire[d]) \union {f}
               /\ \A c \in Clients \ {d} : wire'[c] = wire[c]
  BY InitialTyped
<1> SUFFICES ASSUME NEW c \in registered, NEW kind \in Kinds PROVE News(c, kind)'
  BY <1>0 DEF NewsInv
<1>2. News(c, kind) /\ ToSet(wire[c]) \subseteq ToSet(wire'[c])
  BY <1>1 DEF NewsInv, Typed
<1>3. QED
  BY <1>0, <1>2 DEF News

LEMMA DisconnectNews == ASSUME Typed, NewsInv, NEW d \in Listeners, Disconnect(d) PROVE NewsInv'
<1>0. UNCHANGED <<playback, queue, told>> /\ registered' = registered \ {d}
  BY DEF Disconnect, store
<1>1. \A c \in Clients \ {d} : wire'[c] = wire[c]
  BY DisconnectTyped
<1> SUFFICES ASSUME NEW c \in registered \ {d}, NEW kind \in Kinds PROVE News(c, kind)'
  BY <1>0 DEF NewsInv
<1>2. News(c, kind) /\ wire'[c] = wire[c]
  BY <1>1 DEF NewsInv, Typed
<1>3. ASSUME NEW r \in Tasks, InHands(task[r], c, kind, playback, queue)
      PROVE  InHands(task'[r], c, kind, playback, queue)
  <2>1. /\ task'[r].todo = task[r].todo /\ task'[r].playback = task[r].playback
        /\ task'[r].queue = task[r].queue /\ task'[r].note = task[r].note
        /\ task'[r].to = task[r].to \ {d}
    BY DisconnectHandlers DEF Typed
  <2>2. QED
    BY <1>3, <2>1 DEF InHands, Owes
<1>4. QED
  BY <1>0, <1>2, <1>3 DEF News

LEMMA HandleNews == ASSUME Typed, NewsInv, NEW d \in Clients, Handle(d) PROVE NewsInv'
<1> DEFINE e == Head(wire[d])
<1>0. UNCHANGED <<playback, queue, registered, task>>
  BY DEF Handle, store
<1>1. /\ FrameOK(e, playback)
      /\ ToSet(wire[d]) = {e} \union ToSet(wire'[d])
      /\ told'[d].rev = IF e.type = "playback" /\ e.playback.rev > told[d].rev
                        THEN e.playback.rev ELSE told[d].rev
      /\ told'[d].queues = IF e.type = "queue" THEN told[d].queues \union {e.queue} ELSE told[d].queues
      /\ \A c \in Clients \ {d} : wire'[c] = wire[c] /\ told'[c] = told[c]
  BY HandleTyped
<1> HIDE DEF e
<1> SUFFICES ASSUME NEW c \in registered, NEW kind \in Kinds PROVE News(c, kind)'
  BY <1>0 DEF NewsInv
<1>2. News(c, kind) /\ c \in Clients
  BY DEF NewsInv, Typed
<1>3. CASE c # d
  <2>1. wire'[c] = wire[c] /\ told'[c] = told[c]
    BY <1>1, <1>2, <1>3
  <2>2. QED
    BY <1>0, <1>2, <2>1 DEF News
<1>4. CASE c = d
  <2>0. ToldOK(told[d], playback) /\ playback.rev \in Nat
    BY DEF Typed, ToldTyped
  <2>1. CASE Has(told[d], kind, playback, queue)
    <3>1. Has(told'[d], kind, playback, queue)
      BY <1>1, <2>0, <2>1 DEF Has, FrameOK, Known, ToldOK
    <3>2. QED
      BY <1>0, <1>4, <3>1 DEF News
  <2>2. CASE Carries(e, kind, playback, queue)
    <3>1. Has(told'[d], kind, playback, queue)
      BY <1>1, <2>0, <2>2 DEF Has, Carries, ToldOK, Kinds
    <3>2. QED
      BY <1>0, <1>4, <3>1 DEF News
  <2>3. CASE \E f \in ToSet(wire'[d]) : Carries(f, kind, playback, queue)
    BY <1>0, <1>4, <2>3 DEF News
  <2>4. CASE \E r \in Tasks : InHands(task[r], c, kind, playback, queue)
    BY <1>0, <2>4 DEF News
  <2>5. QED
    BY <1>1, <1>2, <1>4, <2>1, <2>2, <2>3, <2>4 DEF News
<1>5. QED
  BY <1>3, <1>4

-----------------------------------------------------------------------------
(* Only what is older than what was shown misleads *)

\* A snapshot on its way to the socket is as new as what the socket brought.
Pending(c) ==
  \/ snap[c]["socket"].stage = "built" /\ snap[c]["socket"].playback.rev >= told[c].rev
  \/ \E f \in ToSet(wire[c]) : f.type = "snapshot" /\ f.playback.rev >= told[c].rev

Seen(c) == view[c].playback.rev >= told[c].rev \/ Pending(c)

SeenInv == \A c \in registered \ behind : Seen(c)

LEMMA SameSeen ==
  ASSUME SeenInv, UNCHANGED <<registered, snap, wire, view, told, behind>>
  PROVE  SeenInv'
BY DEF SeenInv, Seen, Pending

\* Steps that concern a snapshot fetched over HTTP.
LEMMA OtherSnapSeen ==
  ASSUME Typed, SeenInv, UNCHANGED <<registered, wire, view, told, behind>>,
         \A c \in Clients : snap'[c]["socket"] = snap[c]["socket"]
  PROVE  SeenInv'
BY DEF SeenInv, Seen, Pending, Typed

LEMMA WriteSeen == ASSUME Typed, SeenInv, NEW p \in Tasks, NEW d \in Clients, Write(p, d) PROVE SeenInv'
<1>0. UNCHANGED <<registered, snap, view, told, behind>>
  BY DEF Write
<1>1. \A c \in Clients : ToSet(wire[c]) \subseteq ToSet(wire'[c])
  BY WriteTyped
<1>2. QED
  BY <1>0, <1>1 DEF SeenInv, Seen, Pending, Typed

LEMMA ConnectSeen == ASSUME Typed, SeenInv, NEW d \in Listeners, Connect(d) PROVE SeenInv'
<1>0. UNCHANGED <<registered, wire, view, told, behind>> /\ d \notin registered
  BY DEF Connect, client
<1>1. \A c \in Clients \ {d} : snap'[c]["socket"] = snap[c]["socket"]
  BY ConnectTyped
<1>2. QED
  BY <1>0, <1>1 DEF SeenInv, Seen, Pending, Typed

\* A snapshot still being built is not pending yet.
LEMMA BuildSeen == ASSUME Typed, SeenInv, NEW d \in Clients, NEW v \in Vias, BuildStep(d, v) PROVE SeenInv'
<1>0. /\ UNCHANGED <<registered, wire, view, told, behind>>
      /\ snap[d][v].stage \in {"asked", "half"}
  BY DEF BuildStep, client
<1>1. \A c \in Clients, u \in Vias : <<c, u>> # <<d, v>> => snap'[c][u] = snap[c][u]
  BY BuildTyped
<1>2. \A c \in Clients : snap[c]["socket"].stage = "built" => snap'[c]["socket"] = snap[c]["socket"]
  BY <1>0, <1>1 DEF Vias
<1>3. QED
  BY <1>0, <1>2 DEF SeenInv, Seen, Pending, Typed

LEMMA RegisterSeen == ASSUME Typed, SeenInv, NEW d \in Listeners, Register(d) PROVE SeenInv'
<1>0. /\ UNCHANGED <<snap, wire, view>> /\ registered' = registered \union {d}
      /\ snap[d]["socket"].stage = "built" /\ d \in Clients /\ "socket" \in Vias
      /\ behind' = IF snap[d]["socket"].playback.rev < playback.rev
                   THEN behind \union {d} ELSE behind \ {d}
  BY SyncAssumption DEF Register, Vias
<1>1. /\ told'[d].rev = playback.rev
      /\ \A c \in Clients \ {d} : told'[c] = told[c]
  BY RegisterTyped
<1>2. playback.rev \in Nat /\ snap[d]["socket"].playback.rev \in Int
  BY <1>0 DEF Typed, SnapsTyped, SnapOK, Known
<1> SUFFICES ASSUME NEW c \in registered' \ behind' PROVE Seen(c)'
  BY DEF SeenInv
<1>3. CASE c = d
  <2>1. snap[d]["socket"].playback.rev >= playback.rev
    BY <1>0, <1>2, <1>3
  <2>2. QED
    BY <1>0, <1>1, <1>3, <2>1 DEF Seen, Pending
<1>4. CASE c # d
  <2>1. c \in registered \ behind /\ c \in Clients
    BY <1>0, <1>4 DEF Typed
  <2>2. Seen(c) /\ told'[c] = told[c]
    BY <1>1, <1>4, <2>1 DEF SeenInv
  <2>3. QED
    BY <1>0, <2>2 DEF Seen, Pending
<1>5. QED
  BY <1>3, <1>4

LEMMA InitialSeen == ASSUME Typed, SeenInv, NEW d \in Listeners, WriteInitial(d) PROVE SeenInv'
<1>0. UNCHANGED <<registered, view, told, behind>> /\ d \in Clients
  BY SyncAssumption DEF WriteInitial
<1>1. PICK f : /\ f.type = "snapshot" /\ f.playback = snap[d]["socket"].playback
               /\ ToSet(wire'[d]) = ToSet(wire[d]) \union {f}
               /\ \A c \in Clients \ {d} : wire'[c] = wire[c] /\ snap'[c]["socket"] = snap[c]["socket"]
  BY InitialTyped
<1> SUFFICES ASSUME NEW c \in registered \ behind PROVE Seen(c)'
  BY <1>0 DEF SeenInv
<1>2. Seen(c) /\ c \in Clients
  BY DEF SeenInv, Typed
<1>3. CASE c = d
  <2>1. \A g \in ToSet(wire[d]) : g \in ToSet(wire'[d])
    BY <1>1
  <2>2. f \in ToSet(wire'[d])
    BY <1>1
  <2>3. CASE view[d].playback.rev >= told[d].rev
    BY <1>0, <1>3, <2>3 DEF Seen
  <2>4. CASE snap[d]["socket"].playback.rev >= told[d].rev
    BY <1>0, <1>1, <1>3, <2>2, <2>4 DEF Seen, Pending
  <2>5. CASE \E g \in ToSet(wire[d]) : g.type = "snapshot" /\ g.playback.rev >= told[d].rev
    BY <1>0, <1>3, <2>1, <2>5 DEF Seen, Pending
  <2>6. QED
    BY <1>2, <1>3, <2>3, <2>4, <2>5 DEF Seen, Pending
<1>4. CASE c # d
  BY <1>0, <1>1, <1>2, <1>4 DEF Seen, Pending
<1>5. QED
  BY <1>3, <1>4

LEMMA DisconnectSeen == ASSUME Typed, SeenInv, NEW d \in Listeners, Disconnect(d) PROVE SeenInv'
<1>0. UNCHANGED <<view, told, behind>> /\ registered' = registered \ {d}
  BY DEF Disconnect
<1>1. \A c \in Clients \ {d} : wire'[c] = wire[c] /\ snap'[c]["socket"] = snap[c]["socket"]
  BY DisconnectTyped
<1>2. QED
  BY <1>0, <1>1 DEF SeenInv, Seen, Pending, Typed

\* Whatever Track lets pass is at least what was shown, or current.
LEMMA TrackFacts ==
  ASSUME NEW c, NEW shown, Track(c, shown), c \notin behind',
         shown.rev \in Int, view[c].playback.rev \in Int
  PROVE  shown.rev = playback.rev \/ (shown.rev >= view[c].playback.rev /\ c \notin behind)
BY DEF Track

LEMMA OthersBehind ==
  ASSUME NEW c, NEW shown, Track(c, shown) \/ CatchUp(c, shown), NEW d, d # c, d \notin behind'
  PROVE  d \notin behind
BY DEF Track, CatchUp

\* A client that takes a playback no older than what it shows, outside the
\* socket, has still seen what the socket brought.
LEMMA ShownSeen ==
  ASSUME Typed, Typed', SeenInv, NEW d \in Clients, UNCHANGED <<playback, registered, wire, told>>,
         Track(d, view'[d].playback),
         \A c \in Clients \ {d} : view'[c] = view[c],
         \A c \in Clients : snap'[c]["socket"] = snap[c]["socket"]
  PROVE  SeenInv'
<1> SUFFICES ASSUME NEW c \in registered, c \notin behind' PROVE Seen(c)'
  BY DEF SeenInv
<1>0. c \in Clients
  BY DEF Typed
<1>1. CASE c # d
  <2>1. c \notin behind
    BY <1>1, OthersBehind
  <2>2. Seen(c) /\ view'[c] = view[c]
    BY <1>0, <1>1, <2>1 DEF SeenInv
  <2>3. QED
    BY <1>0, <2>2 DEF Seen, Pending
<1>2. CASE c = d
  <2> DEFINE new == view'[d].playback.rev
             old == view[d].playback.rev
             rev == told[d].rev
  <2>1. new \in Int /\ old \in Int /\ rev \in Int /\ rev <= playback.rev /\ playback.rev \in Nat
    BY DEF Typed, ViewsTyped, ViewOK, Known, ToldTyped, ToldOK
  <2>2. new = playback.rev \/ (new >= old /\ c \notin behind)
    BY <1>2, <2>1, TrackFacts
  <2> HIDE DEF new, old, rev
  <2>3. CASE new = playback.rev
    <3>1. new >= rev
      BY <2>1, <2>3
    <3>2. QED
      BY <1>2, <3>1 DEF Seen, new, rev
  <2>4. CASE new >= old /\ c \notin behind
    <3>1. Seen(d)
      BY <1>2, <2>4 DEF SeenInv
    <3>2. CASE old >= rev
      <4>1. new >= rev
        BY <2>1, <2>4, <3>2
      <4>2. QED
        BY <1>2, <4>1 DEF Seen, new, rev
    <3>3. CASE Pending(d)
      BY <1>2, <3>3 DEF Seen, Pending
    <3>4. QED
      BY <3>1, <3>2, <3>3 DEF Seen, old, rev
  <2>5. QED
    BY <2>2, <2>3, <2>4
<1>3. QED
  BY <1>1, <1>2

LEMMA AnswerSeen == ASSUME Typed, SeenInv, NEW d \in Managers, TakeAnswer(d) PROVE SeenInv'
<1> DEFINE v == Answered(view[d], answer[d][1])
<1>0. UNCHANGED <<playback, registered, wire, told, snap>> /\ Track(d, v.playback) /\ view' = [view EXCEPT ![d] = v]
  BY DEF TakeAnswer, store
<1> HIDE DEF v
<1>1. Typed' /\ d \in Clients /\ \A c \in Clients \ {d} : view'[c] = view[c]
  BY AnswerTyped
<1>2. view'[d] = v
  BY <1>0, <1>1 DEF Typed, ViewsTyped
<1>3. QED
  BY <1>0, <1>1, <1>2, ShownSeen

LEMMA FetchedSeen == ASSUME Typed, SeenInv, NEW d \in Clients, TakeFetched(d) PROVE SeenInv'
<1>0. UNCHANGED <<playback, registered, wire, told>> /\ Track(d, snap[d]["fetch"].playback)
  BY DEF TakeFetched, store
<1>1. /\ Typed'
      /\ view'[d].playback = snap[d]["fetch"].playback
      /\ \A c \in Clients \ {d} : view'[c] = view[c]
      /\ \A c \in Clients : snap'[c]["socket"] = snap[c]["socket"]
  BY FetchedTyped
<1>2. QED
  BY <1>0, <1>1, ShownSeen

\* Frames: an event raises what is shown as it raises what was told; the
\* pending snapshot is shown, or stays pending.
LEMMA HandleSeen == ASSUME Typed, SeenInv, NEW d \in Clients, Handle(d) PROVE SeenInv'
<1> DEFINE e == Head(wire[d])
<1>0. /\ UNCHANGED <<playback, registered, snap>>
      /\ IF e.type = "playback" THEN CatchUp(d, Handled(view[d], e).playback)
                                ELSE Track(d, Handled(view[d], e).playback)
  BY DEF Handle, store
<1>1. /\ Typed' /\ FrameOK(e, playback)
      /\ ToSet(wire[d]) = {e} \union ToSet(wire'[d])
      /\ view'[d] = Handled(view[d], e)
      /\ told'[d].rev = IF e.type = "playback" /\ e.playback.rev > told[d].rev
                        THEN e.playback.rev ELSE told[d].rev
      /\ \A c \in Clients \ {d} : wire'[c] = wire[c] /\ view'[c] = view[c] /\ told'[c] = told[c]
  BY HandleTyped
<1> HIDE DEF e
<1> SUFFICES ASSUME NEW c \in registered, c \notin behind' PROVE Seen(c)'
  BY <1>0 DEF SeenInv
<1>2. c \in Clients
  BY DEF Typed
<1>3. CASE c # d
  <2>1. c \notin behind
    BY <1>0, <1>3, OthersBehind
  <2>2. Seen(c) /\ wire'[c] = wire[c] /\ view'[c] = view[c] /\ told'[c] = told[c]
    BY <1>1, <1>2, <1>3, <2>1 DEF SeenInv
  <2>3. QED
    BY <1>0, <2>2 DEF Seen, Pending
<1>4. CASE c = d
  <2> DEFINE new == view'[d].playback.rev
             old == view[d].playback.rev
             rev == told[d].rev
             then == told'[d].rev
  <2>1. /\ new \in Int /\ old \in Int /\ rev \in Int /\ then \in Int
        /\ then <= playback.rev /\ playback.rev \in Nat
    BY <1>0, <1>1 DEF Typed, ViewsTyped, ViewOK, Known, ToldTyped, ToldOK
  <2>2. ViewOK(view[d], playback)
    BY DEF Typed, ViewsTyped
  <2>3. CASE new = playback.rev
    BY <1>4, <2>1, <2>3 DEF Seen
  <2>4. CASE e.type = "playback" /\ new # playback.rev
    <3>1. view'[d].playback = Newer(view[d].playback, e.playback) /\ e.playback.rev \in Int
      BY <1>1, <2>2, <2>4, HandledFacts DEF FrameOK, Known
    <3>2. new >= old /\ new >= e.playback.rev
      BY <2>1, <3>1 DEF Newer
    <3>3. c \notin behind
      BY <1>0, <1>1, <1>4, <2>4 DEF CatchUp
    <3>4. Seen(d)
      BY <1>4, <3>3 DEF SeenInv
    <3>5. then = IF e.playback.rev > rev THEN e.playback.rev ELSE rev
      BY <1>1, <2>4
    <3> HIDE DEF new, old, rev, then
    <3>6. CASE old >= rev \/ e.playback.rev > rev
      <4>1. new >= then
        BY <2>1, <3>1, <3>2, <3>5, <3>6
      <4>2. QED
        BY <1>4, <4>1 DEF Seen, new, then
    <3>7. CASE Pending(d) /\ ~(e.playback.rev > rev)
      <4>1. told'[d].rev = told[d].rev
        BY <3>5, <3>7 DEF rev, then
      <4>2. Pending(d)'
        BY <1>0, <1>1, <2>4, <3>7, <4>1 DEF Pending
      <4>3. QED
        BY <1>4, <4>2 DEF Seen
    <3>8. QED
      BY <3>4, <3>6, <3>7 DEF Seen, old, rev
  <2>5. CASE e.type # "playback" /\ new # playback.rev
    <3>1. told'[d].rev = told[d].rev
      BY <1>1, <2>5
    <3>2. new >= old /\ c \notin behind
      BY <1>0, <1>1, <1>4, <2>1, <2>5, TrackFacts
    <3>3. Seen(d)
      BY <1>4, <3>2 DEF SeenInv
    <3> HIDE DEF new, old, rev, then
    <3>4. CASE old >= rev
      <4>1. new >= rev
        BY <2>1, <3>2, <3>4
      <4>2. QED
        BY <1>4, <3>1, <4>1 DEF Seen, new, rev
    <3>5. CASE e.type = "snapshot" /\ e.playback.rev >= told[d].rev
      <4>1. view'[d].playback = e.playback
        BY <1>1, <2>2, <3>5, HandledFacts
      <4>2. QED
        BY <1>4, <3>1, <3>5, <4>1 DEF Seen
    <3>6. CASE Pending(d) /\ ~(e.type = "snapshot" /\ e.playback.rev >= told[d].rev)
      <4>1. Pending(d)'
        BY <1>0, <1>1, <3>1, <3>6 DEF Pending
      <4>2. QED
        BY <1>4, <4>1 DEF Seen
    <3>7. QED
      BY <3>3, <3>4, <3>5, <3>6 DEF Seen, old, rev
  <2>6. QED
    BY <2>3, <2>4, <2>5
<1>5. QED
  BY <1>3, <1>4

-----------------------------------------------------------------------------
(* The inductive invariant of what is announced and shown *)

SyncInv == Typed /\ NewsInv /\ SeenInv

LEMMA InitSync == Init => SyncInv
BY InitTyped DEF Init, SyncInv, NewsInv, SeenInv

LEMMA TransactionSync ==
  ASSUME SyncInv, NEW p \in Tasks, Transaction(p), task[p].at # "working",
         UNCHANGED <<registered, snap, client>>
  PROVE  SyncInv'
<1>1. Typed'
  BY TransactionTyped DEF SyncInv
<1>2. NewsInv'
  BY TransactionNews DEF SyncInv, client
<1>3. SeenInv'
  BY SameSeen DEF SyncInv, client
<1>4. QED
  BY <1>1, <1>2, <1>3 DEF SyncInv

\* Steps of the store and of the handlers.
LEMMA HandlersSync ==
  ASSUME SyncInv,
         \/ \E p \in Managers : Ask(p) \/ Serve(p) \/ Refuse(p)
         \/ ClockAdvance
         \/ \E p \in Tasks : ListQueue(p) \/ Collect(p) \/ Finish(p) \/ \E c \in Clients : Write(p, c)
  PROVE  SyncInv'
<1> USE DEF SyncInv
<1>1. ASSUME NEW p \in Managers, Ask(p) PROVE SyncInv'
  <2>1. UNCHANGED <<registered, snap, wire, view, told, behind>>
    BY <1>1 DEF Ask, client
  <2>2. QED
    BY <1>1, <2>1, AskTyped, AskNews, SameSeen
<1>2. ASSUME NEW p \in Managers, Serve(p) PROVE SyncInv'
  <2>1. p \in Tasks /\ UNCHANGED <<registered, snap, client>>
    BY <1>2 DEF Tasks, Serve
  <2>2. task[p].at = "asked" /\ Transaction(p)
    BY <1>2, ServeFacts DEF Typed
  <2>3. QED
    BY <2>1, <2>2, TransactionSync
<1>3. ASSUME NEW p \in Managers, Refuse(p) PROVE SyncInv'
  <2>1. UNCHANGED <<registered, snap, wire, view, told, behind>>
    BY <1>3 DEF Refuse
  <2>2. QED
    BY <1>3, <2>1, RefuseTyped, RefuseNews, SameSeen
<1>4. ASSUME ClockAdvance PROVE SyncInv'
  <2>1. Clock \in Tasks /\ UNCHANGED <<registered, snap, client>>
    BY <1>4 DEF Tasks, ClockAdvance
  <2>2. task[Clock].at = "idle" /\ Transaction(Clock)
    BY <1>4, ClockFacts DEF Typed
  <2>3. QED
    BY <2>1, <2>2, TransactionSync
<1>5. ASSUME NEW p \in Tasks, ListQueue(p) PROVE SyncInv'
  <2>1. UNCHANGED <<registered, snap, wire, view, told, behind>>
    BY <1>5 DEF ListQueue, client
  <2>2. QED
    BY <1>5, <2>1, ListTyped, ListNews, SameSeen
<1>6. ASSUME NEW p \in Tasks, Collect(p) PROVE SyncInv'
  <2>1. UNCHANGED <<registered, snap, wire, view, told, behind>>
    BY <1>6 DEF Collect, client
  <2>2. QED
    BY <1>6, <2>1, CollectTyped, CollectNews, SameSeen
<1>7. ASSUME NEW p \in Tasks, Finish(p) PROVE SyncInv'
  <2>1. UNCHANGED <<registered, snap, wire, view, told, behind>>
    BY <1>7 DEF Finish
  <2>2. QED
    BY <1>7, <2>1, FinishTyped, FinishNews, SameSeen
<1>8. ASSUME NEW p \in Tasks, NEW c \in Clients, Write(p, c) PROVE SyncInv'
  BY <1>8, WriteTyped, WriteNews, WriteSeen
<1>9. QED
  BY <1>1, <1>2, <1>3, <1>4, <1>5, <1>6, <1>7, <1>8

\* Steps of the connections.
LEMMA ListenersSync ==
  ASSUME SyncInv, NEW c \in Listeners,
         Fetch(c) \/ Connect(c) \/ Register(c) \/ WriteInitial(c) \/ Disconnect(c)
  PROVE  SyncInv'
<1> USE DEF SyncInv
<1>1. CASE Fetch(c)
  <2>1. /\ UNCHANGED <<playback, queue, registered, task, wire, view, told, behind>>
        /\ Typed' /\ \A d \in Clients : snap'[d]["socket"] = snap[d]["socket"]
    BY <1>1, FetchTyped DEF Fetch, store, client
  <2>2. QED
    BY <2>1, SameNews, OtherSnapSeen
<1>2. CASE Connect(c)
  <2>1. UNCHANGED <<playback, queue, registered, task, wire, told>> /\ Typed'
    BY <1>2, ConnectTyped DEF Connect, store, client
  <2>2. QED
    BY <1>2, <2>1, SameNews, ConnectSeen
<1>3. CASE Register(c)
  BY <1>3, RegisterTyped, RegisterNews, RegisterSeen
<1>4. CASE WriteInitial(c)
  BY <1>4, InitialTyped, InitialNews, InitialSeen
<1>5. CASE Disconnect(c)
  BY <1>5, DisconnectTyped, DisconnectNews, DisconnectSeen
<1>6. QED
  BY <1>1, <1>2, <1>3, <1>4, <1>5

\* Steps of the clients.
LEMMA ClientsSync ==
  ASSUME SyncInv,
         \/ \E c \in Managers : TakeAnswer(c) \/ TakeConflict(c)
         \/ \E c \in Clients : Handle(c) \/ TakeFetched(c) \/ \E v \in Vias : BuildStep(c, v)
  PROVE  SyncInv'
<1> USE DEF SyncInv
<1>1. ASSUME NEW c \in Managers, TakeAnswer(c) PROVE SyncInv'
  <2>1. UNCHANGED <<playback, queue, registered, task, wire, told>>
    BY <1>1 DEF TakeAnswer, store
  <2>2. QED
    BY <1>1, <2>1, AnswerTyped, SameNews, AnswerSeen
<1>2. ASSUME NEW c \in Managers, TakeConflict(c) PROVE SyncInv'
  <2>1. /\ UNCHANGED <<playback, queue, registered, task, wire, view, told, behind>>
        /\ Typed' /\ \A d \in Clients : snap'[d]["socket"] = snap[d]["socket"]
    BY <1>2, ConflictTyped DEF TakeConflict, store
  <2>2. QED
    BY <2>1, SameNews, OtherSnapSeen
<1>3. ASSUME NEW c \in Clients, Handle(c) PROVE SyncInv'
  BY <1>3, HandleTyped, HandleNews, HandleSeen
<1>4. ASSUME NEW c \in Clients, TakeFetched(c) PROVE SyncInv'
  <2>1. UNCHANGED <<playback, queue, registered, task, wire, told>>
    BY <1>4 DEF TakeFetched, store
  <2>2. QED
    BY <1>4, <2>1, FetchedTyped, SameNews, FetchedSeen
<1>5. ASSUME NEW c \in Clients, NEW v \in Vias, BuildStep(c, v) PROVE SyncInv'
  <2>1. UNCHANGED <<playback, queue, registered, task, wire, told>>
    BY <1>5 DEF BuildStep, store, client
  <2>2. QED
    BY <1>5, <2>1, BuildTyped, SameNews, BuildSeen
<1>6. QED
  BY <1>1, <1>2, <1>3, <1>4, <1>5

LEMMA StutterSync == ASSUME SyncInv, UNCHANGED vars PROVE SyncInv'
<1>1. Typed'
  BY DEF SyncInv, vars, Typed
<1>2. NewsInv' /\ SeenInv'
  BY SameNews, SameSeen DEF SyncInv, vars
<1>3. QED
  BY <1>1, <1>2 DEF SyncInv

LEMMA NextSync == SyncInv /\ [Next]_vars => SyncInv'
<1> SUFFICES ASSUME SyncInv, [Next]_vars PROVE SyncInv'
  OBVIOUS
<1>1. CASE \/ \E c \in Managers : Ask(c) \/ Serve(c) \/ Refuse(c) \/ TakeAnswer(c) \/ TakeConflict(c)
           \/ ClockAdvance
  BY <1>1, HandlersSync, ClientsSync
<1>2. CASE \E p \in Tasks : ListQueue(p) \/ Collect(p) \/ Finish(p) \/ \E c \in Clients : Write(p, c)
  BY <1>2, HandlersSync
<1>3. CASE \E c \in Listeners : Fetch(c) \/ Connect(c) \/ Register(c) \/ WriteInitial(c) \/ Disconnect(c)
  BY <1>3, ListenersSync
<1>4. CASE \E c \in Clients : Handle(c) \/ TakeFetched(c) \/ \E v \in Vias : BuildStep(c, v)
  BY <1>4, ClientsSync
<1>5. CASE AtRest \/ UNCHANGED vars
  BY <1>5, StutterSync DEF AtRest
<1>6. QED
  BY <1>1, <1>2, <1>3, <1>4, <1>5 DEF Next

LEMMA SyncInvHolds == Spec => []SyncInv
BY InitSync, NextSync, PTL DEF Spec

\* Once a room has settled, nobody has anything in hand: the news has arrived.
LEMMA SettledNews == SyncInv => NewsReachesEveryone
<1> SUFFICES ASSUME SyncInv, Settled, NEW c \in registered
             PROVE  told[c].rev = playback.rev /\ queue \in told[c].queues
  BY DEF NewsReachesEveryone
<1>1. c \in Clients /\ wire[c] = <<>> /\ \A p \in Tasks : task[p] = Idle
  BY DEF SyncInv, Typed, Settled
<1>2. \A kind \in Kinds : News(c, kind)
  BY DEF SyncInv, NewsInv
<1>3. ASSUME NEW kind \in Kinds PROVE Has(told[c], kind, playback, queue)
  <2>1. \A p \in Tasks : ~InHands(task[p], c, kind, playback, queue)
    BY <1>1, IdleFacts, EmptyHands
  <2>2. ToSet(wire[c]) = {}
    BY <1>1, EmptySeqFacts
  <2>3. QED
    BY <1>2, <2>1, <2>2 DEF News
<1>4. QED
  BY <1>3 DEF Has, Kinds

\* What was told last is the room's revision, and what is shown is no older.
LEMMA SettledViews == SyncInv => OnlyOldAnswersMislead
<1> SUFFICES ASSUME SyncInv, Settled, NEW c \in registered \ behind
             PROVE  view[c].playback = playback
  BY DEF OnlyOldAnswersMislead
<1>1. /\ c \in Clients /\ wire[c] = <<>> /\ "socket" \in Vias
      /\ \A v \in Vias : snap[c][v] = NoSnap
  BY DEF SyncInv, Typed, Settled, Vias
<1>2. told[c].rev = playback.rev
  BY SettledNews DEF NewsReachesEveryone
<1>3. snap[c]["socket"].stage # "built" /\ ToSet(wire[c]) = {}
  BY <1>1, NoSnapFacts, EmptySeqFacts
<1>4. view[c].playback.rev >= told[c].rev
  BY <1>3 DEF SyncInv, SeenInv, Seen, Pending
<1>5. Known(view[c].playback, playback)
  BY <1>1 DEF SyncInv, Typed, ViewsTyped, ViewOK
<1>6. playback.rev \in Nat
  BY DEF SyncInv, Typed
<1>7. QED
  BY <1>2, <1>4, <1>5, <1>6 DEF Known

-----------------------------------------------------------------------------
(* What is stored, and what is on its way, is about the room's entries *)

FrameIn(f) ==
  /\ f.type # "queue" => f.playback \in Playbacks
  /\ f.type # "playback" => f.queue \in Queues

RequestIn(w) ==
  /\ w.op \in Waits \union Transports
  /\ w.op = "add" => w.entry \in Entries
  /\ w.op = "reorder" => w.order \in Queues

AnswerIn(a) ==
  /\ a.type = "playback" => a.playback \in Playbacks
  /\ a.type = "added" => a.primed \in Playbacks \union {NoPlayback}
  /\ a.type \in {"added", "reordered"} => a.queue \in Queues

\* A handler that works off a client's command has a playback to announce.
HandlerIn(p, t) ==
  /\ t.at \in {"idle", "asked", "working"}
  /\ t.at # "idle" /\ p # Clock => \E w : t.request = <<w>> /\ RequestIn(w)
  /\ t.at = "working" /\ p # Clock /\ Head(t.request).op \in Transports => t.playback \in Playbacks
  /\ t.at = "working" => t.queue \in Queues
  /\ t.playback \in Playbacks \union {NoPlayback}
  /\ "playback" \in ToSet(t.todo) => t.playback \in Playbacks
  /\ \A f \in ToSet(t.note) : FrameIn(f)

\* What was there when the snapshot's first read was done, and still waits,
\* is in the queue it read.
SnapIn(s, q, known) ==
  /\ s.stage \in {"half", "built"} => s.queue \in Queues
  /\ s.stage = "built" => s.playback \in Playbacks
  /\ s.stage = "half" => s.live \subseteq known /\ s.live \intersect ToSet(q) \subseteq ToSet(s.queue)

HandlersIn(tk, reg) == \A p \in Tasks : HandlerIn(p, tk[p]) /\ tk[p].to \subseteq reg
WiresIn(w, reg) ==
  \A c \in Clients : (\A f \in ToSet(w[c]) : FrameIn(f)) /\ (c \notin reg => w[c] = <<>>)
SnapsIn(s, q, known) == \A c \in Clients, v \in Vias : SnapIn(s[c][v], q, known)
AnswersIn(a) == \A c \in Clients : a[c] = <<>> \/ \E x : a[c] = <<x>> /\ AnswerIn(x)
ViewsIn(v) == \A c \in Clients : v[c].playback \in Playbacks /\ v[c].queue \in Queues

StoreIn ==
  /\ playback \in Playbacks /\ queue \in Queues
  /\ Live \subseteq added /\ added \subseteq Entries

\* Every revision was asked for, and no request that is still on its way to
\* the store has raised it yet.
Asked == {p \in Tasks : task[p].at = "asked"}

Counted ==
  /\ requests \in Nat /\ requests <= MaxRequests
  /\ IsFiniteSet(Asked) /\ playback.rev + Cardinality(Asked) <= requests

ContentInv ==
  /\ StoreIn /\ Counted
  /\ behind \subseteq Clients
  /\ HandlersIn(task, registered) /\ WiresIn(wire, registered)
  /\ SnapsIn(snap, queue, added) /\ AnswersIn(answer) /\ ViewsIn(view)

-----------------------------------------------------------------------------
(* Queues, and what the operations on them return *)

LEMMA RemoveAtFacts ==
  ASSUME NEW q \in Queues, NEW i \in DOMAIN q
  PROVE  RemoveAt(q, i) \in Queues /\ ToSet(RemoveAt(q, i)) \subseteq ToSet(q)
<1> DEFINE n == Len(q)
           r == RemoveAt(q, i)
<1>1. /\ q \in Seq(Entries) /\ n \in Nat /\ DOMAIN q = 1 .. n /\ i \in 1 .. n
      /\ \A j, k \in 1 .. n : q[j] = q[k] => j = k
  BY DEF Queues, IsInjective
<1>2. /\ SubSeq(q, 1, i - 1) \in Seq(Entries) /\ Len(SubSeq(q, 1, i - 1)) = i - 1
      /\ \A j \in 1 .. i - 1 : SubSeq(q, 1, i - 1)[j] = q[j]
  BY <1>1
<1>3. /\ SubSeq(q, i + 1, n) \in Seq(Entries) /\ Len(SubSeq(q, i + 1, n)) = n - i
      /\ \A j \in 1 .. n - i : SubSeq(q, i + 1, n)[j] = q[j + i]
  BY <1>1
<1>4. /\ r \in Seq(Entries) /\ Len(r) = n - 1
      /\ \A j \in 1 .. n - 1 : r[j] = IF j <= i - 1 THEN q[j] ELSE q[j + 1]
  <2> DEFINE s == SubSeq(q, 1, i - 1)
             t == SubSeq(q, i + 1, n)
  <2>1. r = s \o t
    BY DEF RemoveAt
  <2> HIDE DEF s, t, r, n
  <2>2. s \in Seq(Entries) /\ Len(s) = i - 1 /\ \A j \in 1 .. i - 1 : s[j] = q[j]
    BY <1>2 DEF s
  <2>3. t \in Seq(Entries) /\ Len(t) = n - i /\ \A j \in 1 .. n - i : t[j] = q[j + i]
    BY <1>3 DEF t
  <2>4. /\ r \in Seq(Entries) /\ Len(r) = Len(s) + Len(t)
        /\ \A j \in 1 .. Len(s) + Len(t) : r[j] = IF j <= Len(s) THEN s[j] ELSE t[j - Len(s)]
    BY <2>1, <2>2, <2>3
  <2>5. i \in Int /\ n \in Int /\ (i - 1) + (n - i) = n - 1
    BY <1>1
  <2>6. ASSUME NEW j \in 1 .. n - 1
        PROVE  r[j] = IF j <= i - 1 THEN q[j] ELSE q[j + 1]
    <3>1. CASE j <= i - 1
      BY <2>2, <2>3, <2>4, <2>5, <3>1
    <3>2. CASE ~(j <= i - 1)
      <4>1. j - (i - 1) \in 1 .. n - i /\ j - (i - 1) + i = j + 1
        BY <2>5, <3>2
      <4>2. r[j] = t[j - (i - 1)]
        BY <2>2, <2>3, <2>4, <2>5, <3>2
      <4> QED
        BY <2>3, <3>2, <4>1, <4>2
    <3> QED
      BY <3>1, <3>2
  <2> QED
    BY <2>2, <2>3, <2>4, <2>5, <2>6
<1>5. DOMAIN r = 1 .. n - 1
  BY <1>1, <1>4
<1> HIDE DEF n, r
<1>6. \A j, k \in DOMAIN r : r[j] = r[k] => j = k
  BY <1>1, <1>4, <1>5
<1>7. ASSUME NEW j \in DOMAIN r PROVE \E k \in DOMAIN q : r[j] = q[k]
  <2>1. j \in 1 .. n /\ j + 1 \in 1 .. n /\ (r[j] = q[j] \/ r[j] = q[j + 1])
    BY <1>1, <1>4, <1>5
  <2> QED
    BY <1>1, <2>1
<1>8. r \in Queues /\ ToSet(r) \subseteq ToSet(q)
  BY <1>4, <1>6, <1>7 DEF Queues, IsInjective, ToSet
<1> QED
  BY <1>8 DEF r

LEMMA WithoutFacts ==
  ASSUME NEW q \in Queues, NEW e
  PROVE  Without(q, e) \in Queues /\ ToSet(Without(q, e)) \subseteq ToSet(q)
<1>1. CASE e \in ToSet(q)
  <2>1. (CHOOSE i \in DOMAIN q : q[i] = e) \in DOMAIN q
    BY <1>1 DEF ToSet
  <2> QED
    BY <1>1, <2>1, RemoveAtFacts DEF Without
<1>2. CASE e \notin ToSet(q)
  BY <1>2 DEF Without
<1> QED
  BY <1>1, <1>2

LEMMA AppendNewFacts ==
  ASSUME NEW q \in Queues, NEW e \in Entries, e \notin ToSet(q)
  PROVE  Append(q, e) \in Queues /\ ToSet(Append(q, e)) = ToSet(q) \union {e}
<1> DEFINE n == Len(q)
           r == Append(q, e)
<1>1. /\ q \in Seq(Entries) /\ n \in Nat /\ DOMAIN q = 1 .. n
      /\ \A j, k \in 1 .. n : q[j] = q[k] => j = k
      /\ \A j \in 1 .. n : q[j] # e
  BY DEF Queues, IsInjective, ToSet
<1>2. /\ r \in Seq(Entries) /\ DOMAIN r = 1 .. n + 1
      /\ \A j \in 1 .. n : r[j] = q[j]
      /\ r[n + 1] = e
  BY <1>1
<1>3. \A j \in 1 .. n + 1 : j \in 1 .. n \/ j = n + 1
  BY <1>1
<1> HIDE DEF n, r
<1>4. \A j, k \in DOMAIN r : r[j] = r[k] => j = k
  BY <1>1, <1>2, <1>3
<1>5. r \in Queues
  BY <1>2, <1>4 DEF Queues, IsInjective
<1>6. ToSet(r) = ToSet(q) \union {e}
  BY <1>1, AppendFacts DEF IsSeq, r
<1> QED
  BY <1>5, <1>6 DEF r

\* Two neighbours of a queue change places.
LEMMA SwapFacts ==
  ASSUME NEW q \in Queues, NEW i \in 1 .. Len(q) - 1
  PROVE  ReplaceAt(ReplaceAt(q, i, q[i + 1]), i + 1, q[i]) \in Queues
<1> DEFINE n == Len(q)
           r == ReplaceAt(ReplaceAt(q, i, q[i + 1]), i + 1, q[i])
<1>1. /\ q \in Seq(Entries) /\ n \in Nat /\ DOMAIN q = 1 .. n
      /\ q = [j \in 1 .. n |-> q[j]]
      /\ i \in 1 .. n /\ i + 1 \in 1 .. n
      /\ \A j \in 1 .. n : q[j] \in Entries
      /\ \A j, k \in 1 .. n : q[j] = q[k] => j = k
  BY DEF Queues, IsInjective
<1>2. r = [j \in 1 .. n |-> IF j = i + 1 THEN q[i] ELSE IF j = i THEN q[i + 1] ELSE q[j]]
  BY <1>1 DEF ReplaceAt
<1> HIDE DEF n, r
<1>3. r \in [1 .. n -> Entries]
  BY <1>1, <1>2
<1>4. r \in Seq(Entries)
  BY <1>1, <1>3
<1>5. \A j, k \in DOMAIN r : r[j] = r[k] => j = k
  BY <1>1, <1>2
<1>6. r \in Queues
  BY <1>4, <1>5 DEF Queues, IsInjective
<1> QED
  BY <1>6 DEF r

LEMMA WithNextFacts ==
  ASSUME NEW q \in Queues, NEW n \in WithNext(q)
  PROVE  /\ n.queue \in Queues /\ ToSet(n.queue) \subseteq ToSet(q)
         /\ n.track \in ToSet(q) \union {NoEntry}
<1>1. CASE q = <<>>
  BY <1>1 DEF WithNext
<1>2. CASE q # <<>>
  <2>1. PICK i \in DOMAIN q : n = [track |-> q[i], queue |-> RemoveAt(q, i)]
    BY <1>2 DEF WithNext
  <2> QED
    BY <2>1, RemoveAtFacts DEF ToSet
<1> QED
  BY <1>1, <1>2

-----------------------------------------------------------------------------
(* The parts of the invariant, one handler, client or snapshot at a time *)

LEMMA HandlersChange ==
  ASSUME HandlersIn(task, registered), NEW p \in Tasks, NEW t,
         Works(p, t), HandlerIn(p, t), t.to \subseteq registered
  PROVE  HandlersIn(task', registered)
BY DEF HandlersIn, Works

LEMMA AnswersChange ==
  ASSUME AnswersTyped(answer, playback), AnswersIn(answer), NEW c \in Clients, NEW a,
         answer' = [answer EXCEPT ![c] = a], a = <<>> \/ \E x : a = <<x>> /\ AnswerIn(x)
  PROVE  AnswersIn(answer')
BY DEF AnswersTyped, AnswersIn

LEMMA SnapsChange ==
  ASSUME Typed, SnapsIn(snap, queue, added), NEW c \in Clients, NEW v \in Vias, NEW s,
         Snaps(c, v, s), SnapIn(s, queue, added)
  PROVE  SnapsIn(snap', queue, added)
BY DEF Typed, SnapsTyped, SnapsIn, Snaps

\* A snapshot that is only asked for, or taken, holds nothing yet.
LEMMA EmptySnaps ==
  ASSUME Typed, SnapsIn(snap, queue, added), NEW c \in Clients, NEW v \in Vias,
         \/ snap' = [snap EXCEPT ![c][v] = [NoSnap EXCEPT !.stage = "asked"]]
         \/ snap' = [snap EXCEPT ![c][v] = NoSnap]
  PROVE  SnapsIn(snap', queue, added)
<1> DEFINE s == [NoSnap EXCEPT !.stage = "asked"]
<1>1. SnapIn(s, queue, added) /\ SnapIn(NoSnap, queue, added)
  BY NoSnapFacts DEF SnapIn
<1>2. Snaps(c, v, s) \/ Snaps(c, v, NoSnap)
  BY DEF Snaps
<1> HIDE DEF s
<1> QED
  BY <1>1, <1>2, SnapsChange

\* How many requests are on their way to the store.
LEMMA AskedChanges ==
  ASSUME NEW p \in Tasks, NEW t, Works(p, t)
  PROVE  Asked' = IF t.at = "asked" THEN Asked \union {p} ELSE Asked \ {p}
BY DEF Asked, Works

LEMMA AskedOneLess ==
  ASSUME Counted, NEW p
  PROVE  /\ IsFiniteSet(Asked \ {p})
         /\ Cardinality(Asked \ {p}) \in Nat /\ Cardinality(Asked) \in Nat
         /\ Cardinality(Asked \ {p}) <= Cardinality(Asked)
         /\ p \in Asked => Cardinality(Asked \ {p}) = Cardinality(Asked) - 1
<1>1. IsFiniteSet(Asked)
  BY DEF Counted
<1> QED
  BY <1>1, FS_RemoveElement, FS_CardinalityType

LEMMA SameCount ==
  ASSUME Typed, Counted, NEW p \in Tasks, NEW t, Works(p, t),
         t.at = "asked" => task[p].at = "asked", UNCHANGED <<requests, playback>>
  PROVE  Counted'
<1>1. Asked' = Asked \/ Asked' = Asked \ {p}
  BY AskedChanges DEF Asked
<1>2. playback.rev \in Nat
  BY DEF Typed
<1>3. IsFiniteSet(Asked) /\ Cardinality(Asked) \in Nat
  BY FS_CardinalityType DEF Counted
<1>4. /\ IsFiniteSet(Asked') /\ Cardinality(Asked') \in Nat
      /\ Cardinality(Asked') <= Cardinality(Asked)
  <2>1. CASE Asked' = Asked
    BY <1>3, <2>1
  <2>2. CASE Asked' = Asked \ {p}
    BY <2>2, AskedOneLess
  <2> QED
    BY <1>1, <2>1, <2>2
<1> QED
  BY <1>2, <1>3, <1>4 DEF Counted

\* Steps that leave the store alone.
LEMMA StillIn ==
  ASSUME ContentInv, UNCHANGED <<playback, queue, added>>, Counted', behind' \subseteq Clients,
         UNCHANGED <<task, registered>> \/ HandlersIn(task', registered'),
         UNCHANGED <<wire, registered>> \/ WiresIn(wire', registered'),
         snap' = snap \/ SnapsIn(snap', queue, added),
         answer' = answer \/ AnswersIn(answer'),
         view' = view \/ ViewsIn(view')
  PROVE  ContentInv'
<1>1. StoreIn'
  BY DEF ContentInv, StoreIn, Live, Waiting, Loaded
<1> QED
  BY <1>1 DEF ContentInv

LEMMA IdleIn == ASSUME NEW p PROVE HandlerIn(p, Idle)
BY IdleFacts, EmptySeqFacts DEF HandlerIn

-----------------------------------------------------------------------------
(* Transactions, and what they put into the queue *)

\* What waits or is loaded was there before, or is new to the room.
OnlyNewcomers == added \subseteq added' /\ Live' \subseteq Live \union (added' \ added)

\* What a client can ask for.
LEMMA WishIn ==
  ASSUME ViewsIn(view), NEW c \in Clients, NEW op \in Ops, NEW w \in Wish(c, op)
  PROVE  RequestIn(w)
<1>1. op \in Waits \union Transports
  BY SyncAssumption
<1>2. CASE op \in Transports
  <2>1. w = [op |-> op, expected |-> view[c].playback.rev]
    BY <1>2 DEF Wish
  <2> QED
    BY <1>1, <1>2, <2>1 DEF RequestIn, Transports
<1>3. CASE op = "add"
  <2>1. PICK e \in Entries : w = [op |-> op, entry |-> e]
    BY <1>3 DEF Wish, Transports
  <2> QED
    BY <1>1, <1>3, <2>1 DEF RequestIn
<1>4. CASE op = "remove"
  <2>1. w.op = op
    BY <1>4 DEF Wish, Transports
  <2> QED
    BY <1>1, <1>4, <2>1 DEF RequestIn
<1>5. CASE op = "reorder"
  <2>1. PICK i \in 1 .. Len(view[c].queue) - 1, q \in {view[c].queue} :
          w = [op |-> op, order |-> ReplaceAt(ReplaceAt(q, i, q[i + 1]), i + 1, q[i])]
    BY <1>5 DEF Wish, Transports
  <2>2. q \in Queues /\ i \in 1 .. Len(q) - 1
    BY <2>1 DEF ViewsIn
  <2>3. ReplaceAt(ReplaceAt(q, i, q[i + 1]), i + 1, q[i]) \in Queues
    BY <2>2, SwapFacts
  <2> QED
    BY <1>1, <1>5, <2>1, <2>3 DEF RequestIn
<1> QED
  BY <1>1, <1>2, <1>3, <1>4, <1>5 DEF Waits

LEMMA AskIn ==
  ASSUME Typed, ContentInv, NEW p \in Managers, Ask(p)
  PROVE  ContentInv'
<1>0. /\ p \in Tasks /\ p \in Clients
      /\ UNCHANGED <<playback, queue, added, registered, snap, client>>
      /\ requests < MaxRequests /\ requests' = requests + 1 /\ task[p] = Idle
  BY SyncAssumption DEF Tasks, Ask
<1>1. PICK t :
        /\ Works(p, t) /\ IsRecord(t, HandlerFields)
        /\ t.at = "asked" /\ t.todo = <<>> /\ t.playback = NoPlayback
        /\ t.note = <<>> /\ t.to = {}
        /\ \E op \in Ops : \E w \in Wish(p, op) : t.request = <<w>>
  BY AskHandler DEF Typed
<1>2. HandlerIn(p, t)
  <2>1. PICK w : t.request = <<w>> /\ RequestIn(w)
    BY <1>0, <1>1, WishIn DEF ContentInv
  <2> QED
    BY <1>1, <2>1, EmptySeqFacts DEF HandlerIn
<1>3. HandlersIn(task', registered')
  BY <1>0, <1>1, <1>2, HandlersChange DEF ContentInv
<1>4. Counted'
  <2>1. Asked' = Asked \union {p} /\ p \notin Asked
    BY <1>0, <1>1, AskedChanges, IdleFacts DEF Asked
  <2>2. playback.rev \in Nat /\ MaxRequests \in Nat
    BY SyncAssumption DEF Typed
  <2>3. Counted
    BY DEF ContentInv
  <2>4. /\ IsFiniteSet(Asked') /\ Cardinality(Asked') = Cardinality(Asked) + 1
        /\ Cardinality(Asked) \in Nat
    BY <2>1, <2>3, FS_AddElement, FS_CardinalityType DEF Counted
  <2> QED
    BY <1>0, <2>2, <2>3, <2>4 DEF Counted
<1> QED
  BY <1>0, <1>3, <1>4, StillIn DEF client, ContentInv

\* A commit: the room's new playback and queue, of entries known or new.
LEMMA CommitIn ==
  ASSUME Typed, ContentInv, NEW p \in Tasks, task[p].at # "working",
         NEW op \in Waits \union Transports, NEW pb, NEW q, Commit(p, op, pb, q),
         UNCHANGED <<registered, snap, client>>,
         pb = playback \/ pb.rev = playback.rev + 1, op \in Transports => pb # playback,
         pb.track \in Live \union (added' \ added) \union {NoEntry},
         pb = [rev |-> pb.rev, track |-> pb.track],
         q \in Queues, ToSet(q) \subseteq Waiting \union (added' \ added),
         added \subseteq added', added' \subseteq Entries,
         requests' \in Nat, requests' <= MaxRequests,
         pb.rev + Cardinality(Asked \ {p}) <= requests',
         p # Clock => \E w : task[p].request = <<w>> /\ RequestIn(w) /\ w.op = op
  PROVE  ContentInv' /\ OnlyNewcomers
<1> DEFINE changed == pb # playback
           todo == Todo(op, changed)
<1>1. Committed(p, pb, q, todo) /\ playback' = pb /\ queue' = q
  BY DEF Commit, Committed
<1>2. PICK t :
        /\ Works(p, t) /\ IsRecord(t, HandlerFields)
        /\ t.at = "working" /\ t.todo = todo /\ t.queue = q
        /\ t.playback = IF pb # playback THEN pb ELSE NoPlayback
        /\ t.note = task[p].note /\ t.to = task[p].to /\ t.request = task[p].request
  BY <1>1, CommittedHandler DEF Typed
<1>3. Asked' = Asked \ {p}
  BY <1>2, AskedChanges
<1>4. Counted'
  BY <1>1, <1>3, AskedOneLess DEF ContentInv, Counted
<1>5. pb \in Playbacks
  <2>1. pb.rev \in Nat /\ playback.rev \in Nat
    BY DEF Typed
  <2>2. pb.rev <= MaxRequests /\ MaxRequests \in Nat
    <3>1. Cardinality(Asked \ {p}) \in Nat
      BY AskedOneLess DEF ContentInv
    <3> QED
      BY <2>1, <3>1, SyncAssumption
  <2>3. pb.track \in Entries \union {NoEntry}
    BY DEF ContentInv, StoreIn
  <2> QED
    BY <2>1, <2>2, <2>3 DEF Playbacks
<1>6. StoreIn'
  <2>1. Live' \subseteq added'
    BY <1>1 DEF ContentInv, StoreIn, Live, Waiting, Loaded
  <2> QED
    BY <1>1, <1>5, <2>1 DEF StoreIn
<1>7. SnapsIn(snap', queue', added')
  <2> SUFFICES ASSUME NEW c \in Clients, NEW v \in Vias
               PROVE  SnapIn(snap[c][v], q, added')
    BY <1>1 DEF SnapsIn
  <2>1. SnapIn(snap[c][v], queue, added)
    BY DEF ContentInv, SnapsIn
  <2> QED
    BY <2>1 DEF SnapIn, Waiting
<1>8. HandlerIn(p, t)
  <2>1. HandlerIn(p, task[p])
    BY DEF ContentInv, HandlersIn
  <2>2. "playback" \in ToSet(todo) => changed
    <3> SUFFICES ASSUME ~changed PROVE "playback" \notin ToSet(todo)
      OBVIOUS
    <3>1. op \notin Transports
      OBVIOUS
    <3>2. todo \in {<<"list", "queue">>, <<"queue">>}
      BY <3>1 DEF Todo, Transports
    <3> QED
      BY <3>2, TodoSets
  <2> HIDE DEF todo
  <2>3. p # Clock /\ Head(t.request).op \in Transports => changed
    BY <1>2
  <2> QED
    BY <1>2, <1>5, <2>1, <2>2, <2>3 DEF HandlerIn
<1>9. HandlersIn(task', registered')
  BY <1>2, <1>8, HandlersChange DEF ContentInv, HandlersIn
<1>10. OnlyNewcomers
  BY <1>1 DEF OnlyNewcomers, Live, Waiting, Loaded
<1> QED
  BY <1>4, <1>6, <1>7, <1>9, <1>10 DEF ContentInv, client

LEMMA LoadIn ==
  ASSUME Typed, ContentInv, NEW p \in Tasks, task[p].at # "working",
         NEW op \in Waits \union Transports, NEW q, Load(p, op, q),
         UNCHANGED <<registered, snap, client>>,
         q \in Queues, ToSet(q) \subseteq Waiting \union (added' \ added),
         added \subseteq added', added' \subseteq Entries,
         requests' \in Nat, requests' <= MaxRequests,
         playback.rev + 1 + Cardinality(Asked \ {p}) <= requests',
         p # Clock => \E w : task[p].request = <<w>> /\ RequestIn(w) /\ w.op = op
  PROVE  ContentInv' /\ OnlyNewcomers
<1>1. PICK n \in WithNext(q) : Commit(p, op, [rev |-> playback.rev + 1, track |-> n.track], n.queue)
  BY DEF Load
<1> DEFINE pb == [rev |-> playback.rev + 1, track |-> n.track]
<1>2. /\ pb.rev = playback.rev + 1 /\ pb.track = n.track
      /\ pb = [rev |-> pb.rev, track |-> pb.track]
  OBVIOUS
<1>3. pb # playback
  BY <1>2 DEF Typed
<1>4. Commit(p, op, pb, n.queue)
  BY <1>1
<1> HIDE DEF pb
<1>5. /\ n.queue \in Queues /\ ToSet(n.queue) \subseteq ToSet(q)
      /\ n.track \in ToSet(q) \union {NoEntry}
  BY <1>1, WithNextFacts
<1>6. n.track \in Live \union (added' \ added) \union {NoEntry}
  BY <1>5 DEF Live
<1> QED
  BY <1>2, <1>3, <1>4, <1>5, <1>6, CommitIn

LEMMA KeepIn ==
  ASSUME Typed, ContentInv, NEW p \in Tasks, task[p].at # "working",
         NEW op \in Transports, NEW track \in {playback.track, NoEntry}, Keep(p, op, track),
         UNCHANGED <<registered, snap, client, added, requests>>,
         playback.rev + 1 + Cardinality(Asked \ {p}) <= requests,
         p # Clock => \E w : task[p].request = <<w>> /\ RequestIn(w) /\ w.op = op
  PROVE  ContentInv' /\ OnlyNewcomers
<1> DEFINE pb == [rev |-> playback.rev + 1, track |-> track]
<1>1. /\ pb.rev = playback.rev + 1 /\ pb.track = track
      /\ pb = [rev |-> pb.rev, track |-> pb.track]
  OBVIOUS
<1>2. pb # playback
  BY <1>1 DEF Typed
<1>3. Commit(p, op, pb, queue)
  BY DEF Keep
<1> HIDE DEF pb
<1>4. track \in Live \union (added' \ added) \union {NoEntry}
  BY DEF Live, Loaded
<1>5. /\ queue \in Queues /\ ToSet(queue) \subseteq Waiting \union (added' \ added)
      /\ added \subseteq added' /\ added' \subseteq Entries
      /\ requests' \in Nat /\ requests' <= MaxRequests
  BY DEF ContentInv, StoreIn, Counted, Waiting
<1> QED
  BY <1>1, <1>2, <1>3, <1>4, <1>5, CommitIn

LEMMA ServeIn ==
  ASSUME Typed, ContentInv, NEW p \in Managers, Serve(p)
  PROVE  ContentInv' /\ OnlyNewcomers
<1>0. /\ p \in Tasks /\ p # Clock /\ task[p].at = "asked" /\ p \in Asked
      /\ UNCHANGED <<registered, snap, requests, client>>
  BY SyncAssumption DEF Serve, Tasks, Asked
<1>1. PICK w : task[p].request = <<w>> /\ RequestIn(w)
  BY <1>0 DEF ContentInv, HandlersIn, HandlerIn
<1>2. /\ Acceptable(w)
      /\ \/ w.op \in Transports /\ Command(p, w.op)
         \/ w.op = "add" /\ Add(p, w.entry)
         \/ w.op = "remove" /\ Commit(p, w.op, playback, Without(queue, w.entry))
         \/ w.op = "reorder" /\ Commit(p, w.op, playback, w.order)
      /\ added' = IF w.op = "add" THEN added \union {w.entry} ELSE added
  <2>1. Head(task[p].request) = w
    BY <1>1
  <2> QED
    BY <2>1 DEF Serve
<1>3. /\ w.op \in Waits \union Transports
      /\ \E x : task[p].request = <<x>> /\ RequestIn(x) /\ x.op = w.op
      /\ task[p].at # "working"
  BY <1>0, <1>1 DEF RequestIn
<1>4. /\ playback.rev + 1 + Cardinality(Asked \ {p}) <= requests
      /\ playback.rev + Cardinality(Asked \ {p}) <= requests
      /\ requests' \in Nat /\ requests' <= MaxRequests
  <2>1. /\ Counted /\ playback.rev \in Nat
        /\ Cardinality(Asked \ {p}) = Cardinality(Asked) - 1 /\ Cardinality(Asked) \in Nat
    BY <1>0, AskedOneLess DEF ContentInv, Typed
  <2> QED
    BY <1>0, <2>1 DEF Counted
<1>5. /\ queue \in Queues /\ ToSet(queue) = Waiting /\ added \subseteq Entries
      /\ Waiting \subseteq added /\ playback.track \in Live \union {NoEntry}
      /\ playback = [rev |-> playback.rev, track |-> playback.track]
  BY DEF ContentInv, StoreIn, Waiting, Live, Loaded, Playbacks
<1>6. CASE w.op \in Transports /\ Command(p, w.op)
  <2>1. added' = added
    BY <1>2, <1>6 DEF Transports
  <2>2. \/ w.op # "seek" /\ Load(p, w.op, queue)
        \/ \E track \in {playback.track, NoEntry} : Keep(p, w.op, track)
    BY <1>6 DEF Command
  <2>3. CASE w.op # "seek" /\ Load(p, w.op, queue)
    BY <1>0, <1>3, <1>4, <1>5, <2>1, <2>3, LoadIn
  <2>4. ASSUME NEW track \in {playback.track, NoEntry}, Keep(p, w.op, track)
        PROVE  ContentInv' /\ OnlyNewcomers
    BY <1>0, <1>3, <1>4, <1>6, <2>1, <2>4, KeepIn
  <2> QED
    BY <2>2, <2>3, <2>4
<1>7. CASE w.op = "add" /\ Add(p, w.entry)
  <2> DEFINE q == Append(queue, w.entry)
  <2>1. w.entry \in Entries /\ w.entry \notin added /\ added' = added \union {w.entry}
    BY <1>1, <1>2, <1>7 DEF RequestIn, Acceptable, Transports
  <2>2. q \in Queues /\ ToSet(q) = Waiting \union {w.entry}
    BY <1>5, <2>1, AppendNewFacts
  <2>3. Load(p, w.op, q) \/ Commit(p, w.op, playback, q)
    BY <1>7 DEF Add
  <2>4. w.op \notin Transports
    BY <1>7 DEF Transports
  <2>5. ToSet(q) \subseteq Waiting \union (added' \ added) /\ added \subseteq added' /\ added' \subseteq Entries
    BY <1>5, <2>1, <2>2
  <2> HIDE DEF q
  <2>6. CASE Load(p, w.op, q)
    BY <1>0, <1>3, <1>4, <2>2, <2>5, <2>6, LoadIn
  <2>7. CASE Commit(p, w.op, playback, q)
    BY <1>0, <1>3, <1>4, <1>5, <2>2, <2>4, <2>5, <2>7, CommitIn
  <2> QED
    BY <2>3, <2>6, <2>7
<1>8. ASSUME w.op \in {"remove", "reorder"}, NEW q \in Queues, ToSet(q) \subseteq Waiting,
             Commit(p, w.op, playback, q)
      PROVE  ContentInv' /\ OnlyNewcomers
  <2>1. w.op \notin Transports /\ added' = added
    BY <1>2, <1>8 DEF Transports
  <2> QED
    BY <1>0, <1>3, <1>4, <1>5, <1>8, <2>1, CommitIn
<1>9. CASE w.op = "remove" /\ Commit(p, w.op, playback, Without(queue, w.entry))
  BY <1>5, <1>8, <1>9, WithoutFacts
<1>10. CASE w.op = "reorder" /\ Commit(p, w.op, playback, w.order)
  <2>1. w.order \in Queues /\ ToSet(w.order) = Waiting
    BY <1>1, <1>2, <1>10 DEF RequestIn, Acceptable, Transports
  <2> QED
    BY <1>8, <1>10, <2>1
<1> QED
  BY <1>2, <1>6, <1>7, <1>9, <1>10

LEMMA ClockIn ==
  ASSUME Typed, ContentInv, ClockAdvance
  PROVE  ContentInv' /\ OnlyNewcomers
<1>0. /\ Clock \in Tasks /\ task[Clock].at # "working" /\ Clock \notin Asked
      /\ UNCHANGED <<added, registered, snap, client>>
      /\ requests < MaxRequests /\ requests' = requests + 1
      /\ Load(Clock, "next", queue) /\ "next" \in Waits \union Transports
  BY IdleFacts DEF ClockAdvance, Tasks, Asked, Transports
<1>1. /\ queue \in Queues /\ ToSet(queue) = Waiting /\ added \subseteq Entries
  BY DEF ContentInv, StoreIn, Waiting
<1>2. /\ playback.rev + 1 + Cardinality(Asked \ {Clock}) <= requests'
      /\ requests' \in Nat /\ requests' <= MaxRequests
  <2>1. /\ Counted /\ playback.rev \in Nat /\ MaxRequests \in Nat
        /\ Asked \ {Clock} = Asked /\ Cardinality(Asked) \in Nat
    BY <1>0, AskedOneLess, SyncAssumption DEF ContentInv, Typed
  <2> QED
    BY <1>0, <2>1 DEF Counted
<1> QED
  BY <1>0, <1>1, <1>2, LoadIn

-----------------------------------------------------------------------------
(* Answers and broadcasts *)

\* A handler that is done with, with or without an answer.
LEMMA RestIn ==
  ASSUME Typed, ContentInv, NEW p \in Tasks, task' = [task EXCEPT ![p] = Idle],
         UNCHANGED <<store, registered>>
  PROVE  Counted' /\ HandlersIn(task', registered)
<1>1. Works(p, Idle) /\ Idle.at = "idle" /\ Idle.to = {} /\ HandlerIn(p, Idle)
  BY RestHandler, IdleFacts, IdleIn DEF Typed
<1>2. Counted'
  BY <1>1, SameCount DEF ContentInv, store
<1> QED
  BY <1>1, <1>2, HandlersChange DEF ContentInv

LEMMA RefuseIn ==
  ASSUME Typed, ContentInv, NEW p \in Managers, Refuse(p)
  PROVE  ContentInv'
<1>0. /\ p \in Tasks /\ p \in Clients /\ UNCHANGED <<store, registered, snap, wire, view, behind>>
      /\ task' = [task EXCEPT ![p] = Idle]
      /\ \/ answer' = [answer EXCEPT ![p] = <<[type |-> "conflict"]>>]
         \/ answer' = [answer EXCEPT ![p] = <<>>]
  BY SyncAssumption DEF Refuse, Tasks
<1>1. AnswerIn([type |-> "conflict"])
  BY DEF AnswerIn
<1>2. AnswersIn(answer')
  BY <1>0, <1>1, AnswersChange DEF Typed, ContentInv
<1> QED
  BY <1>0, <1>2, RestIn, StillIn DEF store, ContentInv

LEMMA AnswerIsIn ==
  ASSUME NEW w, NEW t, t.queue \in Queues, t.playback \in Playbacks \union {NoPlayback},
         w.op \in Transports => t.playback \in Playbacks
  PROVE  AnswerIn(Answer(w, t))
<1>1. CASE w.op \in Transports
  BY <1>1 DEF Answer, AnswerIn
<1>2. CASE w.op \notin Transports /\ w.op = "add"
  BY <1>2 DEF Answer, AnswerIn
<1>3. CASE w.op \notin Transports /\ w.op = "remove"
  BY <1>3 DEF Answer, AnswerIn
<1>4. CASE w.op \notin Transports /\ w.op # "add" /\ w.op # "remove"
  BY <1>4 DEF Answer, AnswerIn
<1> QED
  BY <1>1, <1>2, <1>3, <1>4

LEMMA FinishIn ==
  ASSUME Typed, ContentInv, NEW p \in Tasks, Finish(p)
  PROVE  ContentInv'
<1>0. /\ UNCHANGED <<store, registered, snap, wire, view, behind>>
      /\ task' = [task EXCEPT ![p] = Idle] /\ task[p].at = "working"
  BY DEF Finish
<1> DEFINE a == Answer(Head(task[p].request), task[p])
<1>1. p # Clock => AnswerIn(a)
  <2>1. HandlerIn(p, task[p])
    BY DEF ContentInv, HandlersIn
  <2> QED
    BY <1>0, <2>1, AnswerIsIn DEF HandlerIn
<1>2. answer' = answer \/ (p # Clock /\ p \in Clients /\ answer' = [answer EXCEPT ![p] = <<a>>])
  BY SyncAssumption DEF Finish, Tasks
<1> HIDE DEF a
<1>3. answer' = answer \/ AnswersIn(answer')
  BY <1>1, <1>2, AnswersChange DEF Typed, ContentInv
<1> QED
  BY <1>0, <1>3, RestIn, StillIn DEF store, ContentInv

LEMMA ListIn ==
  ASSUME Typed, ContentInv, NEW p \in Tasks, ListQueue(p)
  PROVE  ContentInv'
<1>0. UNCHANGED <<store, registered, snap, client>> /\ task[p].todo # <<>>
  BY DEF ListQueue
<1>1. PICK t :
        /\ Works(p, t) /\ IsRecord(t, HandlerFields)
        /\ t.at = task[p].at /\ t.todo = Tail(task[p].todo) /\ t.playback = task[p].playback
        /\ t.request = task[p].request
        /\ t.queue = queue /\ t.note = task[p].note /\ t.to = task[p].to
  BY ListHandler DEF Typed
<1>2. HandlerIn(p, task[p]) /\ task[p].to \subseteq registered /\ queue \in Queues
  BY DEF ContentInv, HandlersIn, StoreIn
<1>3. ToSet(t.todo) \subseteq ToSet(task[p].todo)
  BY <1>0, <1>1, TodoTails DEF Typed, TasksTyped, HandlerOK
<1>4. HandlerIn(p, t)
  BY <1>1, <1>2, <1>3 DEF HandlerIn
<1>5. HandlersIn(task', registered') /\ Counted'
  BY <1>0, <1>1, <1>2, <1>4, HandlersChange, SameCount DEF ContentInv, store
<1> QED
  BY <1>0, <1>5, StillIn DEF store, client, ContentInv

LEMMA EventIn ==
  ASSUME NEW p \in Tasks, HandlerIn(p, task[p]), task[p].at = "working",
         Step(p) = "playback" => task[p].playback \in Playbacks
  PROVE  FrameIn(Event(p))
<1>1. CASE Step(p) = "playback"
  BY <1>1 DEF Event, FrameIn
<1>2. CASE Step(p) # "playback"
  BY <1>2 DEF Event, FrameIn, HandlerIn
<1> QED
  BY <1>1, <1>2

LEMMA CollectIn ==
  ASSUME Typed, ContentInv, NEW p \in Tasks, Collect(p)
  PROVE  ContentInv'
<1>0. UNCHANGED <<store, registered, snap, client>> /\ task[p].todo # <<>>
  BY DEF Collect
<1>1. PICK t :
        /\ Works(p, t) /\ IsRecord(t, HandlerFields)
        /\ t.at = task[p].at /\ t.todo = Tail(task[p].todo) /\ t.playback = task[p].playback
        /\ t.request = task[p].request
        /\ t.queue = task[p].queue /\ t.to = registered
        /\ t.note = IF registered = {} THEN <<>> ELSE <<Event(p)>>
  BY CollectHandler DEF Typed
<1>2. HandlerIn(p, task[p]) /\ HandlerOK(task[p], playback)
  BY DEF ContentInv, HandlersIn, Typed, TasksTyped
<1>3. /\ ToSet(t.todo) \subseteq ToSet(task[p].todo) /\ Step(p) \in ToSet(task[p].todo)
      /\ task[p].at = "working"
  BY <1>0, <1>1, <1>2, TodoTails DEF HandlerOK, Step
<1>4. FrameIn(Event(p))
  BY <1>2, <1>3, EventIn DEF HandlerIn
<1>5. \A f \in ToSet(t.note) : FrameIn(f)
  BY <1>1, <1>4, EmptySeqFacts, SingleFacts
<1>6. HandlerIn(p, t)
  BY <1>1, <1>2, <1>3, <1>5 DEF HandlerIn
<1>7. HandlersIn(task', registered') /\ Counted'
  BY <1>0, <1>1, <1>6, HandlersChange, SameCount DEF ContentInv, store
<1> QED
  BY <1>0, <1>7, StillIn DEF store, client, ContentInv

LEMMA WriteIn ==
  ASSUME Typed, ContentInv, NEW p \in Tasks, NEW c \in Clients, Write(p, c)
  PROVE  ContentInv'
<1>0. UNCHANGED <<store, registered, snap, answer, view, behind>> /\ c \in task[p].to
  BY DEF Write
<1>1. PICK t :
        /\ Works(p, t) /\ IsRecord(t, HandlerFields)
        /\ t.at = task[p].at /\ t.todo = task[p].todo /\ t.playback = task[p].playback
        /\ t.request = task[p].request
        /\ t.queue = task[p].queue /\ t.to = task[p].to \ {c}
        /\ t.note = IF task[p].to = {c} THEN <<>> ELSE task[p].note
  BY WriteHandler DEF Typed
<1>2. HandlerIn(p, task[p]) /\ task[p].to \subseteq registered
  BY DEF ContentInv, HandlersIn
<1>3. HandlerIn(p, t)
  BY <1>1, <1>2, EmptySeqFacts DEF HandlerIn
<1>4. HandlersIn(task', registered') /\ Counted'
  BY <1>0, <1>1, <1>2, <1>3, HandlersChange, SameCount DEF ContentInv, store
<1>5. WiresIn(wire', registered')
  <2>1. /\ ToSet(wire'[c]) = ToSet(wire[c]) \union ToSet(task[p].note)
        /\ \A d \in Clients \ {c} : wire'[d] = wire[d]
    BY WriteTyped
  <2>2. \A f \in ToSet(task[p].note) : FrameIn(f)
    BY <1>2 DEF HandlerIn
  <2> QED
    BY <1>0, <1>2, <2>1, <2>2 DEF ContentInv, WiresIn
<1> QED
  BY <1>0, <1>4, <1>5, StillIn DEF store, ContentInv

-----------------------------------------------------------------------------
(* Snapshots, connections and clients *)

LEMMA InitContent == Init => ContentInv
<1> SUFFICES ASSUME Init PROVE ContentInv
  OBVIOUS
<1>1. queue \in Queues /\ playback \in Playbacks /\ playback.track = NoEntry /\ playback.rev = 0
  BY SyncAssumption DEF Init, Queues, Playbacks
<1>2. StoreIn
  <2>1. ToSet(queue) \subseteq Entries
    BY <1>1 DEF Queues, ToSet
  <2> QED
    BY <1>1, <2>1 DEF Init, StoreIn, Live, Loaded, Waiting
<1>3. \A p \in Tasks : task[p] = Idle
  BY DEF Init
<1>4. Counted
  <2>1. Asked = {}
    BY <1>3, IdleFacts DEF Asked
  <2> QED
    BY <1>1, <2>1, FS_EmptySet, SyncAssumption DEF Init, Counted
<1>5. HandlersIn(task, registered)
  BY <1>3, IdleIn, IdleFacts DEF HandlersIn
<1>6. WiresIn(wire, registered)
  BY EmptySeqFacts DEF Init, WiresIn
<1>7. SnapsIn(snap, queue, added)
  <2>1. \A c \in Clients, v \in Vias : snap[c][v] = NoSnap
    BY DEF Init
  <2> QED
    BY <2>1, NoSnapFacts DEF SnapsIn, SnapIn
<1>8. AnswersIn(answer)
  BY DEF Init, AnswersIn
<1>9. ViewsIn(view)
  BY <1>1, ViewFacts DEF Init, ViewsIn
<1> QED
  BY <1>2, <1>4, <1>5, <1>6, <1>7, <1>8, <1>9 DEF Init, ContentInv

\* The handlers have nothing to do with these steps.
LEMMA CountedStays ==
  ASSUME Counted, UNCHANGED <<requests, playback, task>> PROVE Counted'
BY DEF Counted, Asked

LEMMA FetchIn ==
  ASSUME Typed, ContentInv, NEW c \in Listeners, Fetch(c) \/ Connect(c)
  PROVE  ContentInv'
<1>1. /\ UNCHANGED <<store, registered, task, client>>
      /\ c \in Clients
      /\ \E v \in Vias : snap' = [snap EXCEPT ![c][v] = [NoSnap EXCEPT !.stage = "asked"]]
  BY SyncAssumption DEF Fetch, Connect, Vias
<1>2. SnapsIn(snap', queue, added)
  BY <1>1, EmptySnaps DEF ContentInv
<1> QED
  BY <1>1, <1>2, CountedStays, StillIn DEF ContentInv, store, client

LEMMA ConflictIn ==
  ASSUME Typed, ContentInv, NEW c \in Managers, TakeConflict(c)
  PROVE  ContentInv'
<1>1. /\ UNCHANGED <<store, registered, task, wire, view, behind>>
      /\ c \in Clients /\ "fetch" \in Vias
      /\ answer' = [answer EXCEPT ![c] = <<>>]
      /\ snap' = [snap EXCEPT ![c]["fetch"] = [NoSnap EXCEPT !.stage = "asked"]]
  BY SyncAssumption DEF TakeConflict, Vias
<1>2. SnapsIn(snap', queue, added)
  BY <1>1, EmptySnaps DEF ContentInv
<1>3. AnswersIn(answer')
  BY <1>1, AnswersChange DEF ContentInv, Typed
<1> QED
  BY <1>1, <1>2, <1>3, CountedStays, StillIn DEF ContentInv, store

\* The two reads of a snapshot.
LEMMA BuildReads ==
  ASSUME NEW s, IsRecord(s, SnapFields)
  PROVE  /\ s.stage = "half" => /\ Build(s).stage = "built" /\ Build(s).playback = playback
                                /\ Build(s).queue = s.queue
         /\ s.stage # "half" => /\ Build(s).stage = "half" /\ Build(s).queue = queue
                                /\ Build(s).live = Live
<1>1. CASE s.stage = "half"
  BY <1>1 DEF Build, IsRecord, SnapFields
<1>2. CASE s.stage # "half"
  BY <1>2 DEF Build, IsRecord, SnapFields
<1> QED
  BY <1>1, <1>2

LEMMA BuildIn ==
  ASSUME Typed, ContentInv, NEW c \in Clients, NEW v \in Vias, BuildStep(c, v)
  PROVE  ContentInv'
<1> DEFINE s == Build(snap[c][v])
<1>1. /\ UNCHANGED <<store, registered, task, client>>
      /\ Snaps(c, v, s)
  BY DEF BuildStep, Snaps
<1>2. SnapIn(snap[c][v], queue, added) /\ IsRecord(snap[c][v], SnapFields)
  BY DEF ContentInv, SnapsIn, Typed, SnapsTyped, SnapOK
<1>3. SnapIn(s, queue, added)
  <2>1. CASE snap[c][v].stage = "half"
    BY <1>2, <2>1, BuildReads DEF SnapIn, ContentInv, StoreIn
  <2>2. CASE snap[c][v].stage # "half"
    BY <1>2, <2>2, BuildReads DEF SnapIn, ContentInv, StoreIn
  <2> QED
    BY <2>1, <2>2
<1> HIDE DEF s
<1>4. SnapsIn(snap', queue, added)
  BY <1>1, <1>3, SnapsChange DEF ContentInv
<1> QED
  BY <1>1, <1>4, CountedStays, StillIn DEF ContentInv, store, client

LEMMA RegisterIn ==
  ASSUME Typed, ContentInv, NEW c \in Listeners, Register(c)
  PROVE  ContentInv'
<1>1. /\ UNCHANGED <<store, task, snap, wire, answer, view>> /\ c \in Clients
      /\ registered' = registered \union {c} /\ behind' \subseteq behind \union {c}
  BY SyncAssumption DEF Register
<1>2. HandlersIn(task', registered') /\ WiresIn(wire', registered')
  BY <1>1 DEF ContentInv, HandlersIn, WiresIn
<1>3. behind' \subseteq Clients
  BY <1>1 DEF ContentInv
<1> QED
  BY <1>1, <1>2, <1>3, CountedStays, StillIn DEF ContentInv, store

LEMMA InitialIn ==
  ASSUME Typed, ContentInv, NEW c \in Listeners, WriteInitial(c)
  PROVE  ContentInv'
<1> DEFINE f == [type |-> "snapshot", queue |-> snap[c]["socket"].queue,
                 playback |-> snap[c]["socket"].playback]
           w == Append(wire[c], f)
<1>1. /\ UNCHANGED <<store, registered, task, answer, view, behind>>
      /\ c \in Clients /\ "socket" \in Vias /\ c \in registered
      /\ snap[c]["socket"].stage = "built"
      /\ wire' = [wire EXCEPT ![c] = w]
      /\ snap' = [snap EXCEPT ![c]["socket"] = NoSnap]
  BY SyncAssumption DEF WriteInitial, Vias
<1>2. FrameIn(f)
  <2>1. SnapIn(snap[c]["socket"], queue, added)
    BY <1>1 DEF ContentInv, SnapsIn
  <2> QED
    BY <1>1, <2>1 DEF SnapIn, FrameIn
<1> HIDE DEF f
<1>3. ToSet(w) = ToSet(wire[c]) \union {f}
  BY <1>1, AppendFacts DEF Typed, WiresTyped, WireOK
<1> HIDE DEF w
<1>4. wire'[c] = w /\ \A d \in Clients \ {c} : wire'[d] = wire[d]
  BY <1>1 DEF Typed, WiresTyped
<1>5. WiresIn(wire', registered')
  BY <1>1, <1>2, <1>3, <1>4 DEF ContentInv, WiresIn
<1>6. SnapsIn(snap', queue, added)
  BY <1>1, EmptySnaps DEF ContentInv
<1> QED
  BY <1>1, <1>5, <1>6, CountedStays, StillIn DEF ContentInv, store

LEMMA DisconnectIn ==
  ASSUME Typed, ContentInv, NEW c \in Listeners, Disconnect(c)
  PROVE  ContentInv'
<1>1. /\ UNCHANGED <<store, answer, view, behind>> /\ c \in Clients /\ "socket" \in Vias
      /\ registered' = registered \ {c}
      /\ wire' = [wire EXCEPT ![c] = <<>>]
      /\ snap' = [snap EXCEPT ![c]["socket"] = NoSnap]
  BY SyncAssumption DEF Disconnect, Vias
<1>2. ASSUME NEW p \in Tasks
      PROVE  HandlerIn(p, task'[p]) /\ task'[p].to \subseteq registered' /\ task'[p].at = task[p].at
  <2> DEFINE t == task'[p]
  <2>1. /\ t.at = task[p].at /\ t.todo = task[p].todo /\ t.playback = task[p].playback
        /\ t.request = task[p].request
        /\ t.queue = task[p].queue /\ t.note = task[p].note /\ t.to = task[p].to \ {c}
    BY DisconnectHandlers DEF Typed
  <2> HIDE DEF t
  <2>2. HandlerIn(p, task[p]) /\ task[p].to \subseteq registered
    BY DEF ContentInv, HandlersIn
  <2>3. HandlerIn(p, t) /\ t.to \subseteq registered'
    BY <1>1, <2>1, <2>2 DEF HandlerIn
  <2> QED
    BY <2>1, <2>3 DEF t
<1>3. HandlersIn(task', registered')
  BY <1>2 DEF HandlersIn
<1>4. Counted'
  <2>1. Asked' = Asked
    BY <1>2 DEF Asked
  <2> QED
    BY <1>1, <2>1 DEF ContentInv, Counted, store
<1>5. WiresIn(wire', registered')
  <2>1. wire'[c] = <<>> /\ \A d \in Clients \ {c} : wire'[d] = wire[d]
    BY <1>1 DEF Typed, WiresTyped
  <2> QED
    BY <1>1, <2>1, EmptySeqFacts DEF ContentInv, WiresIn
<1>6. SnapsIn(snap', queue, added)
  BY <1>1, EmptySnaps DEF ContentInv
<1> QED
  BY <1>1, <1>3, <1>4, <1>5, <1>6, StillIn DEF ContentInv, store

\* What a client shows after a frame, an answer or a snapshot.
LEMMA HandledIn ==
  ASSUME NEW v, IsRecord(v, ViewFields), v.playback \in Playbacks, v.queue \in Queues,
         NEW e, FrameIn(e), e.type \in {"snapshot", "playback", "queue"}
  PROVE  Handled(v, e).playback \in Playbacks /\ Handled(v, e).queue \in Queues
<1>1. CASE e.type = "snapshot"
  BY <1>1 DEF Handled, FrameIn
<1>2. CASE e.type = "playback"
  <2> DEFINE pb == Newer(v.playback, e.playback)
  <2>1. pb \in Playbacks
    BY <1>2 DEF FrameIn, Newer
  <2>2. Handled(v, e) = [v EXCEPT !.playback = pb]
    BY <1>2 DEF Handled
  <2> HIDE DEF pb
  <2> QED
    BY <2>1, <2>2 DEF IsRecord, ViewFields
<1>3. CASE e.type = "queue"
  <2>1. Handled(v, e) = [v EXCEPT !.queue = e.queue] /\ e.queue \in Queues
    BY <1>3 DEF Handled, FrameIn
  <2> QED
    BY <2>1 DEF IsRecord, ViewFields
<1> QED
  BY <1>1, <1>2, <1>3

LEMMA AnsweredIn ==
  ASSUME NEW v, IsRecord(v, ViewFields), v.playback \in Playbacks, v.queue \in Queues,
         NEW a, AnswerIn(a), a.type \in {"playback", "added", "removed", "reordered"}
  PROVE  Answered(v, a).playback \in Playbacks /\ Answered(v, a).queue \in Queues
<1>1. CASE a.type = "playback"
  <2>1. Answered(v, a) = [v EXCEPT !.playback = a.playback] /\ a.playback \in Playbacks
    BY <1>1 DEF Answered, AnswerIn
  <2> QED
    BY <2>1 DEF IsRecord, ViewFields
<1>2. CASE a.type = "added"
  BY <1>2 DEF Answered, AnswerIn
<1>3. CASE a.type = "removed"
  <2> DEFINE q == Without(v.queue, a.entry)
  <2>1. Answered(v, a) = [v EXCEPT !.queue = q] /\ q \in Queues
    BY <1>3, WithoutFacts DEF Answered
  <2> HIDE DEF q
  <2> QED
    BY <2>1 DEF IsRecord, ViewFields
<1>4. CASE a.type = "reordered"
  <2>1. Answered(v, a) = [v EXCEPT !.queue = a.queue] /\ a.queue \in Queues
    BY <1>4 DEF Answered, AnswerIn
  <2> QED
    BY <2>1 DEF IsRecord, ViewFields
<1> QED
  BY <1>1, <1>2, <1>3, <1>4

LEMMA ViewsChange ==
  ASSUME Typed, ViewsIn(view), NEW c \in Clients, NEW v, view' = [view EXCEPT ![c] = v],
         v.playback \in Playbacks, v.queue \in Queues
  PROVE  ViewsIn(view')
BY DEF Typed, ViewsTyped, ViewsIn

\* Only clients fall behind.
LEMMA BehindIn ==
  ASSUME behind \subseteq Clients, NEW c \in Clients, NEW shown, Track(c, shown) \/ CatchUp(c, shown)
  PROVE  behind' \subseteq Clients
BY DEF Track, CatchUp

LEMMA HandleIn ==
  ASSUME Typed, ContentInv, NEW c \in Clients, Handle(c)
  PROVE  ContentInv'
<1> DEFINE e == Head(wire[c])
           v == Handled(view[c], e)
<1>1. /\ UNCHANGED <<store, registered, task, snap, answer>>
      /\ view' = [view EXCEPT ![c] = v] /\ wire' = [wire EXCEPT ![c] = Tail(wire[c])]
      /\ \E shown : Track(c, shown) \/ CatchUp(c, shown)
  BY DEF Handle
<1>2. /\ ToSet(wire[c]) = {e} \union ToSet(wire'[c]) /\ wire[c] # <<>>
      /\ \A d \in Clients \ {c} : wire'[d] = wire[d]
      /\ FrameOK(e, playback)
  BY HandleTyped DEF Handle
<1>3. FrameIn(e)
  BY <1>2 DEF ContentInv, WiresIn
<1>4. v.playback \in Playbacks /\ v.queue \in Queues
  BY <1>2, <1>3, HandledIn DEF ContentInv, ViewsIn, Typed, ViewsTyped, ViewOK, FrameOK
<1> HIDE DEF v, e
<1>5. ViewsIn(view')
  BY <1>1, <1>4, ViewsChange DEF ContentInv
<1>6. WiresIn(wire', registered')
  BY <1>1, <1>2 DEF ContentInv, WiresIn
<1>7. behind' \subseteq Clients
  BY <1>1, BehindIn DEF ContentInv
<1> QED
  BY <1>1, <1>5, <1>6, <1>7, CountedStays, StillIn DEF ContentInv, store

LEMMA TakeAnswerIn ==
  ASSUME Typed, ContentInv, NEW c \in Managers, TakeAnswer(c)
  PROVE  ContentInv'
<1> DEFINE a == answer[c][1]
           v == Answered(view[c], a)
<1>1. /\ UNCHANGED <<store, registered, task, snap, wire>> /\ c \in Clients
      /\ view' = [view EXCEPT ![c] = v] /\ answer' = [answer EXCEPT ![c] = <<>>]
      /\ answer[c] # <<>> /\ a.type # "conflict"
      /\ \E shown : Track(c, shown) \/ CatchUp(c, shown)
  BY SyncAssumption DEF TakeAnswer
<1>2. AnswerOK(a, playback)
  BY <1>1 DEF Typed, AnswersTyped
<1>3. AnswerIn(a)
  <2>1. PICK x : answer[c] = <<x>> /\ AnswerIn(x)
    BY <1>1 DEF ContentInv, AnswersIn
  <2> QED
    BY <2>1, SingleFacts
<1>4. v.playback \in Playbacks /\ v.queue \in Queues
  BY <1>1, <1>2, <1>3, AnsweredIn DEF ContentInv, ViewsIn, Typed, ViewsTyped, ViewOK, AnswerOK
<1> HIDE DEF v, a
<1>5. ViewsIn(view')
  BY <1>1, <1>4, ViewsChange DEF ContentInv
<1>6. AnswersIn(answer')
  BY <1>1, AnswersChange DEF ContentInv, Typed
<1>7. behind' \subseteq Clients
  BY <1>1, BehindIn DEF ContentInv
<1> QED
  BY <1>1, <1>5, <1>6, <1>7, CountedStays, StillIn DEF ContentInv, store

LEMMA FetchedIn ==
  ASSUME Typed, ContentInv, NEW c \in Clients, TakeFetched(c)
  PROVE  ContentInv'
<1> DEFINE s == snap[c]["fetch"]
           v == [playback |-> s.playback, queue |-> s.queue]
<1>1. /\ UNCHANGED <<store, registered, task, wire, answer>> /\ "fetch" \in Vias
      /\ view' = [view EXCEPT ![c] = v] /\ s.stage = "built"
      /\ snap' = [snap EXCEPT ![c]["fetch"] = NoSnap]
      /\ \E shown : Track(c, shown) \/ CatchUp(c, shown)
  BY DEF TakeFetched, Vias
<1>2. SnapIn(s, queue, added)
  BY <1>1 DEF ContentInv, SnapsIn
<1>3. v.playback \in Playbacks /\ v.queue \in Queues
  BY <1>1, <1>2 DEF SnapIn
<1> HIDE DEF v, s
<1>4. ViewsIn(view')
  BY <1>1, <1>3, ViewsChange DEF ContentInv
<1>5. SnapsIn(snap', queue, added)
  BY <1>1, EmptySnaps DEF ContentInv
<1>6. behind' \subseteq Clients
  BY <1>1, BehindIn DEF ContentInv
<1> QED
  BY <1>1, <1>4, <1>5, <1>6, CountedStays, StillIn DEF ContentInv, store

LEMMA StutterIn == ASSUME ContentInv, UNCHANGED vars PROVE ContentInv'
BY DEF vars, ContentInv, StoreIn, Live, Waiting, Loaded, Counted, Asked

LEMMA NextContent == Typed /\ ContentInv /\ [Next]_vars => ContentInv'
<1> SUFFICES ASSUME Typed, ContentInv, [Next]_vars PROVE ContentInv'
  OBVIOUS
<1>1. CASE \/ \E c \in Managers : Ask(c) \/ Serve(c) \/ Refuse(c) \/ TakeAnswer(c) \/ TakeConflict(c)
           \/ ClockAdvance
  BY <1>1, AskIn, ServeIn, RefuseIn, TakeAnswerIn, ConflictIn, ClockIn
<1>2. CASE \E p \in Tasks : ListQueue(p) \/ Collect(p) \/ Finish(p) \/ \E c \in Clients : Write(p, c)
  BY <1>2, ListIn, CollectIn, FinishIn, WriteIn
<1>3. CASE \E c \in Listeners : Fetch(c) \/ Connect(c) \/ Register(c) \/ WriteInitial(c) \/ Disconnect(c)
  BY <1>3, FetchIn, RegisterIn, InitialIn, DisconnectIn
<1>4. CASE \E c \in Clients : Handle(c) \/ TakeFetched(c) \/ \E v \in Vias : BuildStep(c, v)
  BY <1>4, HandleIn, FetchedIn, BuildIn
<1>5. CASE AtRest \/ UNCHANGED vars
  BY <1>5, StutterIn DEF AtRest
<1> QED
  BY <1>1, <1>2, <1>3, <1>4, <1>5 DEF Next

\* No step lets in what is not new.
LEMMA NextNewcomers == Typed /\ ContentInv /\ [Next]_vars => OnlyNewcomers
<1> SUFFICES ASSUME Typed, ContentInv, [Next]_vars PROVE OnlyNewcomers
  OBVIOUS
<1>1. CASE (\E c \in Managers : Serve(c)) \/ ClockAdvance
  BY <1>1, ServeIn, ClockIn
<1>2. CASE UNCHANGED <<playback, queue, added>>
  BY <1>2 DEF OnlyNewcomers, Live, Waiting, Loaded
<1>3. CASE \E c \in Managers : Ask(c) \/ Refuse(c) \/ TakeAnswer(c) \/ TakeConflict(c)
  BY <1>2, <1>3 DEF Ask, Refuse, TakeAnswer, TakeConflict, store
<1>4. CASE \E p \in Tasks : ListQueue(p) \/ Collect(p) \/ Finish(p) \/ \E c \in Clients : Write(p, c)
  BY <1>2, <1>4 DEF ListQueue, Collect, Finish, Write, store
<1>5. CASE \E c \in Listeners : Fetch(c) \/ Connect(c) \/ Register(c) \/ WriteInitial(c) \/ Disconnect(c)
  BY <1>2, <1>5 DEF Fetch, Connect, Register, WriteInitial, Disconnect, store
<1>6. CASE \E c \in Clients : Handle(c) \/ TakeFetched(c) \/ \E v \in Vias : BuildStep(c, v)
  BY <1>2, <1>6 DEF Handle, TakeFetched, BuildStep, store
<1>7. CASE AtRest \/ UNCHANGED vars
  BY <1>2, <1>7 DEF AtRest, vars
<1> QED
  BY <1>1, <1>3, <1>4, <1>5, <1>6, <1>7 DEF Next

LEMMA ContentInvHolds == Spec => [](SyncInv /\ ContentInv)
<1>1. Init => SyncInv /\ ContentInv
  BY InitSync, InitContent
<1>2. SyncInv /\ ContentInv /\ [Next]_vars => (SyncInv /\ ContentInv)'
  BY NextSync, NextContent DEF SyncInv
<1> QED
  BY <1>1, <1>2, PTL DEF Spec

LEMMA ContentTypeOK == SyncInv /\ ContentInv => TypeOK
<1> SUFFICES ASSUME Typed, ContentInv PROVE TypeOK
  BY DEF SyncInv
<1>1. /\ playback \in Playbacks /\ queue \in Queues /\ added \subseteq Entries
      /\ registered \subseteq Clients /\ behind \subseteq Clients
      /\ \A p \in Tasks : task[p].at \in {"idle", "asked", "working"} /\ task[p].to \subseteq registered
      /\ \A c \in Clients : /\ view[c].playback \in Playbacks /\ view[c].queue \in Queues
                            /\ c \notin registered => wire[c] = <<>>
  BY DEF Typed, ContentInv, StoreIn, HandlersIn, HandlerIn, ViewsIn, WiresIn
<1>2. ASSUME NEW c \in Clients PROVE Len(answer[c]) <= 1
  <2>1. answer[c] = <<>> \/ \E x : answer[c] = <<x>>
    BY DEF ContentInv, AnswersIn
  <2>2. CASE answer[c] = <<>>
    BY <2>2
  <2>3. ASSUME NEW x, answer[c] = <<x>> PROVE Len(answer[c]) <= 1
    <3>1. Len(<<x>>) <= 1
      OBVIOUS
    <3> QED
      BY <2>3, <3>1
  <2> QED
    BY <2>1, <2>2, <2>3
<1> QED
  BY <1>1, <1>2 DEF TypeOK

\* A step that completes a snapshot reads the playback, and leaves the store
\* and what was read before as it is.
LEMMA SnapshotReads ==
  ASSUME Typed, [Next]_vars, NEW c \in Clients, NEW v \in Vias,
         snap[c][v].stage = "half", snap'[c][v].stage = "built"
  PROVE  /\ UNCHANGED store
         /\ snap'[c][v].queue = snap[c][v].queue /\ snap'[c][v].playback = playback
<1>1. snap[c][v].stage # "built"
  OBVIOUS
<1>2. snap' # snap
  BY <1>1
<1>3. \A d \in Clients, u \in Vias : snap' # [snap EXCEPT ![d][u] = NoSnap]
  BY <1>1, NoSnapFacts DEF Typed, SnapsTyped
<1>4. ASSUME NEW d \in Clients, NEW u \in Vias
      PROVE  snap' # [snap EXCEPT ![d][u] = [NoSnap EXCEPT !.stage = "asked"]]
  <2> DEFINE s == [NoSnap EXCEPT !.stage = "asked"]
  <2>1. s.stage = "asked"
    BY NoSnapFacts
  <2> HIDE DEF s
  <2>2. snap' # [snap EXCEPT ![d][u] = s]
    BY <1>1, <2>1 DEF Typed, SnapsTyped
  <2> QED
    BY <2>2 DEF s
<1>5. \E d \in Clients, u \in Vias : BuildStep(d, u)
  <2>1. ~UNCHANGED vars /\ ~AtRest
    BY <1>2 DEF vars, AtRest
  <2>2. ~ClockAdvance /\ ~\E p \in Managers : Ask(p) \/ Serve(p) \/ Refuse(p) \/ TakeAnswer(p)
    BY <1>2 DEF ClockAdvance, Ask, Serve, Refuse, TakeAnswer
  <2>3. ~\E p \in Tasks : ListQueue(p) \/ Collect(p) \/ Finish(p) \/ \E d \in Clients : Write(p, d)
    BY <1>2 DEF ListQueue, Collect, Finish, Write
  <2>4. ~\E d \in Managers : TakeConflict(d)
    BY <1>4, SyncAssumption DEF TakeConflict, Vias
  <2>5. ~\E d \in Listeners : Fetch(d) \/ Connect(d) \/ Register(d) \/ WriteInitial(d) \/ Disconnect(d)
    BY <1>2, <1>3, <1>4, SyncAssumption DEF Fetch, Connect, Register, WriteInitial, Disconnect, Vias
  <2>6. ~\E d \in Clients : Handle(d) \/ TakeFetched(d)
    BY <1>2, <1>3 DEF Handle, TakeFetched, Vias
  <2> QED
    BY <2>1, <2>2, <2>3, <2>4, <2>5, <2>6 DEF Next
<1>6. PICK d \in Clients, u \in Vias : BuildStep(d, u)
  BY <1>5
<1>7. <<d, u>> = <<c, v>>
  BY <1>1, <1>6, BuildTyped
<1>8. UNCHANGED store /\ snap' = [snap EXCEPT ![c][v] = Build(snap[c][v])]
  BY <1>6, <1>7 DEF BuildStep
<1> DEFINE s == Build(snap[c][v])
<1>9. s.queue = snap[c][v].queue /\ s.playback = playback
  BY BuildReads DEF Typed, SnapsTyped, SnapOK
<1> HIDE DEF s
<1>10. snap'[c][v] = s
  BY <1>8 DEF Typed, SnapsTyped, s
<1> QED
  BY <1>8, <1>9, <1>10

\* An entry that was live when the queue was read, and is live still, was
\* waiting then or is the track now: nothing that left the queue comes back.
LEMMA SnapshotStep ==
  ASSUME Typed, ContentInv, [Next]_vars, NEW c \in Clients, NEW v \in Vias,
         snap[c][v].stage = "half", snap'[c][v].stage = "built"
  PROVE  snap[c][v].live \intersect Live \subseteq
           ToSet(snap'[c][v].queue) \union {snap'[c][v].playback.track}
<1>1. snap[c][v].live \intersect Waiting \subseteq ToSet(snap[c][v].queue)
  BY DEF ContentInv, SnapsIn, SnapIn, Waiting
<1>2. snap'[c][v].queue = snap[c][v].queue /\ snap'[c][v].playback = playback
  BY SnapshotReads
<1> QED
  BY <1>1, <1>2 DEF Live, Loaded

-----------------------------------------------------------------------------
(* The theorems *)

\* Whatever was committed last while a client was connected has reached it by
\* the time the room settles: for any number of clients, entries and requests.
THEOREM NewsArrives == Spec => []NewsReachesEveryone
BY SyncInvHolds, SettledNews, PTL

\* A connected client of a settled room shows its current playback, unless an
\* outdated snapshot, or an answer older than what it showed, misled it.
THEOREM OnlyTheOldMisleads == Spec => []OnlyOldAnswersMislead
BY SyncInvHolds, SettledViews, PTL

\* The room's playback, queue and entries, the handlers' targets, the answers
\* and everything a client shows have their types: no revision is raised by
\* anything but a request (ApplyPlayback), no queue holds an entry twice, no
\* handler writes to a client that has left, nobody gets two answers.
THEOREM WellTyped == Spec => []TypeOK
BY ContentInvHolds, ContentTypeOK, PTL

\* Everything stored, shown or under way - requests, handlers, frames, answers,
\* snapshots - is about the room's entries, and the room has not had more
\* revisions than requests have reached its store: no handler commits twice.
THEOREM ContentStaysTheRooms == Spec => []ContentInv
BY ContentInvHolds, PTL

\* A track that was played, skipped or removed does not come back: neither a
\* reorder with an outdated queue nor a removal that lost its race (their
\* checks in ReorderQueue and RemoveQueueEntry) returns it to the room.
THEOREM GoneForGood == Spec => [][\A e \in added \ Live : e \in added' \ Live']_vars
<1>1. SyncInv /\ ContentInv /\ [Next]_vars => [\A e \in added \ Live : e \in added' \ Live']_vars
  BY NextNewcomers DEF SyncInv, OnlyNewcomers
<1> QED
  BY <1>1, ContentInvHolds, PTL DEF Spec

\* The snapshot buildSnapshot puts together shows every track that was waiting
\* or loaded all the while, however many commits fell between its two reads:
\* what has left the queue never comes back to it, so a track that is no longer
\* in the queue read first is the current one read afterwards, or gone.
THEOREM SnapshotsLoseNothing == Spec => SnapshotLosesNoTrack
<1>1. SyncInv /\ ContentInv /\ [Next]_vars =>
        [\A c \in Clients, v \in Vias :
           snap[c][v].stage = "half" /\ snap'[c][v].stage = "built" =>
             snap[c][v].live \intersect Live \subseteq
               ToSet(snap'[c][v].queue) \union {snap'[c][v].playback.track}]_vars
  BY SnapshotStep DEF SyncInv
<1> QED
  BY <1>1, ContentInvHolds, PTL DEF Spec, SnapshotLosesNoTrack

=============================================================================
