------------------------ MODULE QueueLifecycle_proofs ------------------------
(***************************************************************************)
(* Theorems about QueueLifecycle for any sessions, settings and bounds.    *)
(*                                                                         *)
(* The inductive invariant IInv says for each thread which use it holds    *)
(* and what its step implies of the queue it is at (ThreadOK), that one    *)
(* thread deletes a queue, and that the depth covers what is on it.  It    *)
(* needs SoleDeleter: with two clients that delete, or a client that       *)
(* deletes a queue which the broker deletes as well, both properties of    *)
(* this module are false.                                                  *)
(***************************************************************************)
EXTENDS QueueLifecycle, TLAPS, SequenceTheorems, FiniteSetTheorems

\* One thread at a time deletes a queue: either the broker does, when it is no
\* longer used, or one client.
SoleDeleter ==
    \A S \in Settings :
        IF S.autodelete THEN S.deleters = {} ELSE \A s, u \in S.deleters : s = u

----------------------------------------------------------------------------
(* The invariant of the types                                              *)

Holding(q) == {s \in Sessions : held[s] = q}

Pushing(q) == {s \in Sessions : at[s] = q /\ pc[s] \in {"store enqueue", "push"}}

\* The depth of a queue covers what waits on it, what is held and what is about
\* to be pushed.  It may exceed them: accepting a message of a queue that is
\* being deleted gives nothing back.
Covered ==
    \A q \in Queues :
        depth[q] >= waiting[q] + Cardinality(Holding(q)) + Cardinality(Pushing(q))

\* The message that is dequeued is of the queue it is dequeued from.
Dequeuing == \A s \in Sessions : pc[s] = "dequeue" => held[s] \in {0, at[s]}

\* Nothing refers to a queue that has not been created.
Known ==
    /\ \A t \in Threads : pc[t] # "idle" => at[t] \in 1 .. created
    /\ \A s \in Sessions : held[s] <= created
    /\ \A q \in Queues : users[q] # {} \/ owner[q] # {} \/ tasks[q] # << >> => q <= created

TInv == TypeOK /\ Covered /\ Dequeuing /\ Known

----------------------------------------------------------------------------
(* The invariant of the deletion                                           *)

IsDeleting(t, q) == at[t] = q /\ pc[t] \in Deleting

\* A thread t at label l and queue q, with a use of u: the use is of the queue
\* it is at, and what its step says of that queue is true.
Fits(t, l, q, u) ==
    /\ l = "idle" => u = 0
    /\ u \in {0, q}
    /\ Durable /\ u # 0 => store[u]
    /\ l \in {"reserve", "store enqueue", "dequeue", "store dequeue", "store dequeue last",
             "store drain"} => u = q
    /\ l \in {"store enqueue", "store dequeue", "store dequeue last", "drain", "store drain"}
           => Durable
    /\ l \in {"barrier", "wait", "store destroy"} => store[q]
    /\ l \in {"wait", "store destroy", "reset"} => deleted[q]
    /\ l \in {"store dequeue last", "schedule", "arm", "try"} => Autodelete
    /\ l \in Deleting => IF Autodelete THEN deleted[q] ELSE t \in Deleters
    /\ l = "unregister" => registry = q
    /\ l = "found" /\ ~Autodelete /\ t \in Deleters => registry = q

ThreadOK(t) == Fits(t, pc[t], at[t], using[t])

\* The store is open for every durable queue that is not deleted.
StoreOK ==
    \A q \in Queues : /\ store[q] => Durable
                      /\ Durable => store[q] \/ deleted[q]

\* UsageBarrier: once destroyed() has passed it, nobody uses the queue.
Unused == \A t, u \in Threads : pc[t] = "store destroy" => using[u] # at[t]

OneDeletes == \A t, u \in Threads : pc[t] \in Deleting /\ IsDeleting(u, at[t]) => t = u

\* The registry forgets only queues that are being deleted.
Registered ==
    \A q \in 1 .. created : registry = q \/ deleted[q] \/ \E t \in Threads : IsDeleting(t, q)

\* Only queues to be deleted automatically have tasks.
TasksOK == \A q \in Queues : tasks[q] # << >> => Autodelete

DInv ==
    /\ \A t \in Threads : ThreadOK(t)
    /\ StoreOK /\ Unused /\ OneDeletes /\ Registered /\ TasksOK

IInv == TInv /\ DInv

----------------------------------------------------------------------------
(* How threads move                                                        *)

ThreadTypes ==
    /\ pc \in [Threads -> PCs]
    /\ at \in [Threads -> 0 .. MaxQueues] /\ using \in [Threads -> 0 .. MaxQueues]
    /\ task \in [Threads -> 0 .. MaxTasks]

\* Only thread t moves, to label l, queue a and use u.
Moves(t, l, a, u) ==
    /\ ThreadTypes'
    /\ pc'[t] = l /\ at'[t] = a /\ using'[t] = u
    /\ \A x \in Threads \ {t} : pc'[x] = pc[x] /\ at'[x] = at[x] /\ using'[x] = using[x]

\* Replacing one value of a function.
LEMMA Replacing ==
    ASSUME NEW S, NEW T, NEW f \in [S -> T], NEW x \in S, NEW y \in T
    PROVE  /\ [f EXCEPT ![x] = y] \in [S -> T]
           /\ \A z \in S : [f EXCEPT ![x] = y][z] = IF z = x THEN y ELSE f[z]
OBVIOUS

\* The bounds are numbers.
LEMMA Numbers ==
    /\ MaxQueues \in Nat /\ MaxDepth \in Nat /\ MaxTasks \in Nat
    /\ 0 \in 0 .. MaxQueues /\ 0 \in 0 .. MaxTasks /\ 0 \in 0 .. MaxDepth
BY LifecycleAssumption

\* A thread that goes to label l and stays where it is.
LEMMA GoesTo ==
    ASSUME TypeOK, NEW t \in Threads, NEW l \in PCs, Goto(t, l), Here(t)
    PROVE  Moves(t, l, at[t], using[t])
<1>1. ThreadTypes
  BY DEF TypeOK, ThreadTypes
<1>2. pc' = [pc EXCEPT ![t] = l] /\ at' = at /\ using' = using /\ task' = task
  BY DEF Goto, Here
<1>3. pc' \in [Threads -> PCs] /\ \A x \in Threads : pc'[x] = IF x = t THEN l ELSE pc[x]
  BY <1>1, <1>2, Replacing DEF ThreadTypes
<1> QED
  BY <1>1, <1>2, <1>3 DEF Moves, ThreadTypes

\* The general form: all four places of the thread.
LEMMA GoesAnywhere ==
    ASSUME TypeOK, NEW t \in Threads, NEW l \in PCs, NEW a \in 0 .. MaxQueues,
           NEW u \in 0 .. MaxQueues, NEW k \in 0 .. MaxTasks,
           pc' = [pc EXCEPT ![t] = l], at' = [at EXCEPT ![t] = a],
           using' = [using EXCEPT ![t] = u], task' = [task EXCEPT ![t] = k]
    PROVE  Moves(t, l, a, u)
<1>1. ThreadTypes
  BY DEF TypeOK, ThreadTypes
<1>2. pc' \in [Threads -> PCs] /\ \A x \in Threads : pc'[x] = IF x = t THEN l ELSE pc[x]
  BY <1>1, Replacing DEF ThreadTypes
<1>3. at' \in [Threads -> 0 .. MaxQueues] /\ \A x \in Threads : at'[x] = IF x = t THEN a ELSE at[x]
  BY <1>1, Replacing DEF ThreadTypes
<1>4. /\ using' \in [Threads -> 0 .. MaxQueues]
      /\ \A x \in Threads : using'[x] = IF x = t THEN u ELSE using[x]
  BY <1>1, Replacing DEF ThreadTypes
<1>5. task' \in [Threads -> 0 .. MaxTasks]
  BY <1>1, Replacing DEF ThreadTypes
<1> QED
  BY <1>2, <1>3, <1>4, <1>5 DEF Moves, ThreadTypes

\* The places of a thread are what they are.
LEMMA Unmoved ==
    ASSUME TypeOK, NEW t \in Threads
    PROVE  /\ pc[t] \in PCs /\ at[t] \in 0 .. MaxQueues /\ using[t] \in 0 .. MaxQueues
           /\ task[t] \in 0 .. MaxTasks
           /\ pc = [pc EXCEPT ![t] = pc[t]] /\ at = [at EXCEPT ![t] = at[t]]
           /\ using = [using EXCEPT ![t] = using[t]] /\ task = [task EXCEPT ![t] = task[t]]
BY DEF TypeOK

\* A thread that is done is idle, at no queue, and uses none.
LEMMA IsDone ==
    ASSUME TypeOK, NEW t \in Threads, Done(t)
    PROVE  Moves(t, "idle", 0, 0)
<1>1. "idle" \in PCs
  BY DEF PCs
<1> QED
  BY <1>1, Numbers, GoesAnywhere DEF Done, Goto

\* A ScopedUse is had of a queue that is not deleted only.
LEMMA Uses ==
    ASSUME TypeOK, NEW t \in Threads, NEW q \in Queues, NEW l \in PCs, Use(t, q, l)
    PROVE  IF deleted[q] THEN Moves(t, "idle", 0, 0) ELSE Moves(t, l, q, q)
<1>1. CASE deleted[q]
  BY <1>1, IsDone DEF Use
<1>2. CASE ~deleted[q]
  <2>1. q \in 0 .. MaxQueues
    BY Numbers DEF Queues
  <2>2. /\ pc' = [pc EXCEPT ![t] = l] /\ at' = [at EXCEPT ![t] = q]
        /\ using' = [using EXCEPT ![t] = q] /\ task' = [task EXCEPT ![t] = task[t]]
    BY <1>2, Unmoved DEF Use, Goto
  <2> QED
    BY <1>2, <2>1, <2>2, Unmoved, GoesAnywhere
<1> QED
  BY <1>1, <1>2

----------------------------------------------------------------------------
(* What most steps keep                                                    *)

\* Sessions and queues are finite sets of threads and numbers.
LEMMA Ranges ==
    ASSUME TypeOK
    PROVE  /\ Sessions \subseteq Threads /\ IsFiniteSet(Sessions)
           /\ created \in Nat /\ created <= MaxQueues /\ registry \in 0 .. created
           /\ 1 .. created \subseteq Queues /\ 0 .. created \subseteq 0 .. MaxQueues
           /\ \A q \in Queues : q \in Nat /\ q # 0 /\ q \in 0 .. MaxQueues
BY LifecycleAssumption DEF TypeOK, Threads, Queues

\* The sets of sessions counted by Covered are finite.
LEMMA CountedSets ==
    ASSUME NEW q
    PROVE  /\ IsFiniteSet(Holding(q)) /\ IsFiniteSet(Pushing(q))
           /\ Cardinality(Holding(q)) \in Nat /\ Cardinality(Pushing(q)) \in Nat
<1>1. Holding(q) \subseteq Sessions /\ Pushing(q) \subseteq Sessions /\ IsFiniteSet(Sessions)
  BY LifecycleAssumption DEF Holding, Pushing
<1> QED
  BY <1>1, FS_Subset, FS_CardinalityType

\* Fewer messages to be held or pushed are covered as well.
LEMMA FewerMessages ==
    ASSUME TypeOK, Covered, waiting' = waiting, depth' = depth,
           \A q \in Queues : Holding(q)' \subseteq Holding(q),
           \A q \in Queues : Pushing(q)' \subseteq Pushing(q)
    PROVE  Covered'
<1> SUFFICES ASSUME NEW q \in Queues
             PROVE  depth[q] >= waiting[q] + Cardinality(Holding(q)') + Cardinality(Pushing(q)')
  BY DEF Covered
<1>1. /\ Cardinality(Pushing(q)') <= Cardinality(Pushing(q)) /\ Cardinality(Pushing(q)') \in Nat
      /\ Cardinality(Holding(q)') <= Cardinality(Holding(q)) /\ Cardinality(Holding(q)') \in Nat
  BY CountedSets, FS_Subset, FS_CardinalityType
<1>2. depth[q] >= waiting[q] + Cardinality(Holding(q)) + Cardinality(Pushing(q))
  BY DEF Covered
<1>3. depth[q] \in 0 .. MaxDepth /\ waiting[q] \in 0 .. MaxDepth
  BY DEF TypeOK
<1>4. Cardinality(Holding(q)) \in Nat /\ Cardinality(Pushing(q)) \in Nat
  BY CountedSets
<1> QED
  BY <1>1, <1>2, <1>3, <1>4, Numbers

\* A step that leaves the messages alone and does not begin to push or dequeue.
LEMMA MessagesKept ==
    ASSUME TInv, TypeOK', NEW t \in Threads, NEW l, NEW a, NEW u, Moves(t, l, a, u),
           UNCHANGED <<created, waiting, depth, held>>,
           l \in {"store enqueue", "push"} => pc[t] \in {"store enqueue", "push"} /\ a = at[t],
           l # "dequeue",
           l # "idle" => a \in 1 .. created,
           \A q \in Queues : users'[q] # {} \/ owner'[q] # {} \/ tasks'[q] # << >> => q <= created
    PROVE  TInv'
<1>1. waiting' = waiting /\ depth' = depth /\ held' = held /\ created' = created
  OBVIOUS
<1>2. Covered'
  <2>1. \A q \in Queues : Holding(q)' \subseteq Holding(q)
    BY <1>1 DEF Holding
  <2>2. \A q \in Queues : Pushing(q)' \subseteq Pushing(q)
    BY DEF Moves, Pushing, Threads
  <2> QED
    BY <1>1, <2>1, <2>2, FewerMessages DEF TInv
<1>3. Dequeuing'
  BY <1>1 DEF TInv, Dequeuing, Moves, Threads
<1>4. Known'
  BY <1>1 DEF TInv, Known, Moves
<1> QED
  BY <1>2, <1>3, <1>4 DEF TInv

\* A step that leaves registry and store alone and deletes nothing behind
\* another thread's back.
LEMMA DeletionKept ==
    ASSUME IInv, NEW t \in Threads, NEW l, NEW a, NEW u, Moves(t, l, a, u),
           UNCHANGED <<settings, registry, created, store>>,
           \A q \in Queues : deleted[q] => deleted'[q],
           \A q \in Queues : tasks'[q] # << >> => Autodelete,
           Fits(t, l, a, u)',
           l \in Deleting => \/ pc[t] \in Deleting /\ a = at[t]
                             \/ \A x \in Threads : ~IsDeleting(x, a),
           pc[t] \in Deleting => (l \in Deleting /\ a = at[t]) \/ deleted[at[t]],
           u \in {0, using[t]} \/ ~deleted[u],
           l = "store destroy" => \A x \in Threads : using'[x] # a
    PROVE  DInv'
<1>1. /\ TypeOK /\ \A x \in Threads : ThreadOK(x)
      /\ StoreOK /\ Unused /\ OneDeletes /\ Registered /\ TasksOK
      /\ \A x \in Threads : pc[x] # "idle" => at[x] \in 1 .. created
  BY DEF IInv, TInv, DInv, Known
<1>2. /\ settings' = settings /\ registry' = registry /\ created' = created /\ store' = store
      /\ pc'[t] = l /\ at'[t] = a /\ using'[t] = u
      /\ \A x \in Threads \ {t} : pc'[x] = pc[x] /\ at'[x] = at[x] /\ using'[x] = using[x]
  BY DEF Moves
<1>3. \A x \in Threads : pc[x] # "idle" => at[x] \in Queues /\ at[x] # 0
  BY <1>1, Ranges
<1>4. \A x \in Threads : ThreadOK(x)'
  <2> SUFFICES ASSUME NEW x \in Threads \ {t} PROVE ThreadOK(x)'
    BY <1>2 DEF ThreadOK
  <2>1. ThreadOK(x)
    BY <1>1
  <2>2. pc[x] \in {"wait", "store destroy", "reset"} \cup Deleting => at[x] \in Queues
    BY <1>3 DEF Deleting
  <2>3. /\ Durable' = Durable /\ Autodelete' = Autodelete /\ Deleters' = Deleters
        /\ deleted[at[x]] /\ at[x] \in Queues => deleted'[at[x]]
    BY <1>2 DEF Durable, Autodelete, Deleters
  <2> QED
    BY <1>2, <2>1, <2>2, <2>3 DEF ThreadOK, Fits
<1>5. StoreOK'
  BY <1>1, <1>2 DEF StoreOK, Durable
<1>6. Unused'
  <2> SUFFICES ASSUME NEW x \in Threads, NEW y \in Threads, pc'[x] = "store destroy",
                      using'[y] = at'[x]
               PROVE  FALSE
    BY DEF Unused
  <2>1. x # t
    BY <1>2
  <2>2. pc[x] = "store destroy" /\ at'[x] = at[x] /\ deleted[at[x]] /\ at[x] # 0
    <3>1. pc[x] = "store destroy" /\ at'[x] = at[x]
      BY <1>2, <2>1
    <3>2. ThreadOK(x) /\ pc[x] # "idle"
      BY <1>1, <3>1
    <3>3. deleted[at[x]]
      BY <3>1, <3>2 DEF ThreadOK, Fits
    <3> QED
      BY <1>3, <3>1, <3>2, <3>3
  <2>3. using[y] # at[x] /\ using[t] # at[x]
    BY <1>1, <2>2 DEF Unused
  <2> QED
    BY <1>2, <2>2, <2>3
<1>7. OneDeletes'
  BY <1>1, <1>2 DEF OneDeletes, IsDeleting
<1>8. Registered'
  <2> SUFFICES ASSUME NEW q \in 1 .. created, registry # q, ~deleted'[q]
               PROVE  \E x \in Threads : IsDeleting(x, q)'
    BY <1>2 DEF Registered
  <2>1. q \in Queues
    BY <1>1, Ranges
  <2>2. PICK x \in Threads : at[x] = q /\ pc[x] \in Deleting
    BY <1>1, <2>1 DEF Registered, IsDeleting
  <2>3. pc'[x] \in Deleting /\ at'[x] = q
    BY <1>2, <2>1, <2>2
  <2> QED
    BY <2>3 DEF IsDeleting
<1>9. TasksOK'
  BY <1>2 DEF TasksOK, Autodelete
<1> QED
  BY <1>4, <1>5, <1>6, <1>7, <1>8, <1>9 DEF DInv

----------------------------------------------------------------------------
(* Steps that move a thread and change little else                         *)

\* Where thread t may go, in a step that leaves registry, store and messages
\* alone.
Allowed(t, l, a, u) ==
    /\ Fits(t, l, a, u)
    /\ l \in {"store enqueue", "push"} => pc[t] \in {"store enqueue", "push"} /\ a = at[t]
    /\ l # "dequeue"
    /\ l # "idle" => a \in 1 .. created
    /\ l \in Deleting => \/ pc[t] \in Deleting /\ a = at[t]
                         \/ \A x \in Threads : ~IsDeleting(x, a)
    /\ pc[t] \in Deleting => (l \in Deleting /\ a = at[t]) \/ deleted[at[t]]
    /\ u \in {0, using[t]} \/ ~deleted[u]
    /\ l = "store destroy" => u = using[t] /\ \A x \in Threads : using[x] # a

\* Steps that change users and tasks besides.
LEMMA AllowedKeeps ==
    ASSUME IInv, TypeOK', NEW t \in Threads, NEW l, NEW a, NEW u,
           Moves(t, l, a, u), Allowed(t, l, a, u),
           UNCHANGED <<settings, registry, created, deleted, store, waiting, depth, held>>,
           \A q \in Queues : users'[q] # {} \/ owner'[q] # {} => q <= created,
           \A q \in Queues : tasks'[q] # << >> => Autodelete /\ q <= created
    PROVE  IInv'
<1>1. TInv'
  BY MessagesKept DEF IInv, Allowed
<1>2. Fits(t, l, a, u)'
  BY DEF Allowed, Fits, Durable, Autodelete, Deleters
<1>3. l = "store destroy" => \A x \in Threads : using'[x] # a
  BY DEF Allowed, Moves
<1>4. DInv'
  BY <1>2, <1>3, DeletionKept DEF Allowed
<1> QED
  BY <1>1, <1>4 DEF IInv

\* Steps that move the thread and change nothing else.
LEMMA OnlyMoves ==
    ASSUME IInv, NEW t \in Threads, NEW l, NEW a, NEW u,
           Moves(t, l, a, u), Allowed(t, l, a, u),
           UNCHANGED <<settings, registry, created, deleted, users, owner, used,
                       waiting, depth, held, store, tasks, latest>>
    PROVE  IInv'
<1>1. TypeOK'
  BY DEF IInv, TInv, TypeOK, Moves, ThreadTypes
<1>2. /\ \A q \in Queues : users[q] # {} \/ owner[q] # {} => q <= created
      /\ \A q \in Queues : tasks[q] # << >> => Autodelete /\ q <= created
  BY DEF IInv, TInv, Known, DInv, TasksOK
<1> QED
  BY <1>1, <1>2, AllowedKeeps

\* What SoleDeleter says of the queue's settings.
LEMMA SoleFacts ==
    ASSUME SoleDeleter, TypeOK
    PROVE  /\ Autodelete => Deleters = {}
           /\ ~Autodelete => \A s, u \in Deleters : s = u
BY DEF SoleDeleter, TypeOK, Autodelete, Deleters

\* What the invariant says of a thread that is at a queue.
LEMMA HereFacts ==
    ASSUME IInv, NEW t \in Threads
    PROVE  /\ TypeOK /\ Fits(t, pc[t], at[t], using[t])
           /\ pc[t] # "idle" => at[t] \in 1 .. created /\ at[t] \in Queues
           /\ pc[t] = "idle" => using[t] = 0
BY Ranges DEF IInv, TInv, DInv, Known, ThreadOK, Fits

\* A thread that is not deleting, or has marked the queue, may always be done.
LEMMA DoneAllowed ==
    ASSUME IInv, NEW t \in Threads, pc[t] \in Deleting => deleted[at[t]]
    PROVE  Allowed(t, "idle", 0, 0)
BY DEF Allowed, Fits, Deleting

\* A thread that goes on at its queue, outside the deletion.
LEMMA StaysAllowed ==
    ASSUME IInv, NEW t \in Threads, NEW l, pc[t] \notin Deleting \cup {"idle"},
           l \notin Deleting \cup {"idle", "dequeue", "store enqueue", "push", "found"},
           Fits(t, l, at[t], using[t])
    PROVE  Allowed(t, l, at[t], using[t])
BY HereFacts DEF Allowed, Deleting

----------------------------------------------------------------------------
(* Finding, using and leaving the queue                                    *)

\* The labels are labels.
LEMMA Labels ==
    /\ {"idle", "found", "consume", "cancel task", "own", "reserve", "store enqueue", "push",
        "dequeue", "store dequeue", "store dequeue last", "schedule", "arm", "try"} \subseteq PCs
    /\ Deleting \subseteq PCs
    /\ {"unregister", "abandon", "drain", "store drain", "barrier", "wait", "store destroy",
        "notify", "reset"} = Deleting
BY DEF PCs, Deleting

\* Finding the queue under its name.
LEMMA FindKeeps ==
    ASSUME IInv, NEW s \in Sessions, Find(s)
    PROVE  IInv'
<1>1. s \in Threads /\ pc[s] = "idle" /\ registry # 0 /\ TypeOK
  BY DEF Find, Threads, IInv, TInv
<1>2. registry \in 1 .. created /\ registry \in 0 .. MaxQueues
  BY <1>1, Ranges
<1>3. Moves(s, "found", registry, using[s])
  <2>1. /\ pc' = [pc EXCEPT ![s] = "found"] /\ at' = [at EXCEPT ![s] = registry]
        /\ using' = [using EXCEPT ![s] = using[s]] /\ task' = [task EXCEPT ![s] = task[s]]
    BY <1>1, Unmoved DEF Find, Goto
  <2> QED
    BY <1>1, <1>2, <2>1, Unmoved, Labels, GoesAnywhere
<1>4. Allowed(s, "found", registry, using[s])
  BY <1>1, <1>2, HereFacts DEF Allowed, Fits, Deleting
<1> QED
  BY <1>1, <1>3, <1>4, OnlyMoves DEF Find, Usage, Messages, Tasks

\* message.subscribe, granted or refused.
LEMMA SubscribeKeeps ==
    ASSUME IInv, NEW s \in Sessions, Subscribe(s)
    PROVE  IInv'
<1>1. s \in Threads /\ pc[s] = "found" /\ TypeOK /\ pc[s] \notin Deleting
  BY DEF Subscribe, Threads, IInv, TInv, Deleting
<1>2. CASE Goto(s, "consume") /\ Here(s)
  <2>1. Moves(s, "consume", at[s], using[s])
    BY <1>1, <1>2, Labels, GoesTo
  <2>2. Allowed(s, "consume", at[s], using[s])
    BY <1>1, HereFacts, StaysAllowed DEF Fits, Deleting
  <2> QED
    BY <1>1, <2>1, <2>2, OnlyMoves DEF Subscribe, Usage, Messages, Tasks
<1>3. CASE Done(s)
  <2>1. Moves(s, "idle", 0, 0) /\ Allowed(s, "idle", 0, 0)
    BY <1>1, <1>3, IsDone, DoneAllowed
  <2> QED
    BY <1>1, <2>1, OnlyMoves DEF Subscribe, Usage, Messages, Tasks
<1> QED
  BY <1>2, <1>3 DEF Subscribe

\* Queue::consume adds a user and may go on to cancel the delayed task.
LEMMA ConsumeKeeps ==
    ASSUME IInv, NEW s \in Sessions, Consume(s)
    PROVE  IInv'
<1>1. /\ s \in Threads /\ pc[s] = "consume" /\ TypeOK /\ pc[s] \notin Deleting
      /\ at[s] \in 1 .. created /\ at[s] \in Queues
  BY HereFacts DEF Consume, Threads, Deleting
<1>2. PICK l, a, u : Moves(s, l, a, u) /\ Allowed(s, l, a, u)
  <2>1. CASE Done(s)
    BY <1>1, <2>1, IsDone, DoneAllowed
  <2>2. CASE latest[at[s]] # 0
    <3>1. /\ pc' = [pc EXCEPT ![s] = "cancel task"] /\ at' = [at EXCEPT ![s] = at[s]]
          /\ using' = [using EXCEPT ![s] = using[s]]
          /\ task' = [task EXCEPT ![s] = latest[at[s]]]
      BY <1>1, <2>2, Unmoved DEF Consume, Goto
    <3>2. latest[at[s]] \in 0 .. MaxTasks
      BY <1>1 DEF TypeOK
    <3>3. Moves(s, "cancel task", at[s], using[s])
      BY <1>1, <3>1, <3>2, Unmoved, Labels, GoesAnywhere
    <3>4. Allowed(s, "cancel task", at[s], using[s])
      BY <1>1, HereFacts, StaysAllowed DEF Fits, Deleting
    <3> QED
      BY <3>3, <3>4
  <2> QED
    BY <2>1, <2>2 DEF Consume
<1>3. /\ users' = [users EXCEPT ![at[s]] = @ \cup {s}] /\ used' = [used EXCEPT ![at[s]] = TRUE]
      /\ UNCHANGED <<settings, registry, created, deleted, owner, waiting, depth, held, store,
                     tasks, latest>>
  BY DEF Consume, Messages, Tasks
<1>4. TypeOK'
  BY <1>1, <1>2, <1>3 DEF TypeOK, Moves, ThreadTypes
<1>5. \A q \in Queues : users'[q] # {} \/ owner'[q] # {} => q <= created
  <2>1. \A q \in Queues : users'[q] = IF q = at[s] THEN users[q] \cup {s} ELSE users[q]
    BY <1>1, <1>3 DEF TypeOK
  <2> QED
    BY <1>1, <1>3, <2>1 DEF IInv, TInv, Known
<1> QED
  BY <1>1, <1>2, <1>3, <1>4, <1>5, AllowedKeeps DEF IInv, TInv, DInv, Known, TasksOK

\* What is left of the tasks when one is cancelled are tasks of the queue.
LEMMA CancelledTasks ==
    ASSUME NEW S, NEW s \in Seq(S), NEW n
    PROVE  cancelled(s, n) \in Seq(S) /\ (s = << >> => cancelled(s, n) = << >>)
<1>1. DOMAIN s = 1 .. Len(s) /\ Len(s) \in Nat /\ \A i \in 1 .. Len(s) : s[i] \in S
  BY LenProperties, ElementOfSeq
<1>2. CASE n \in Range(s)
  <2> DEFINE i == CHOOSE j \in DOMAIN s : s[j] = n
  <2>1. \E j \in DOMAIN s : s[j] = n
    BY <1>2 DEF Range
  <2>2. i \in 1 .. Len(s)
    BY <1>1, <2>1
  <2>3. cancelled(s, n) = SubSeq(s, 1, i - 1) \o SubSeq(s, i + 1, Len(s))
    BY <1>2 DEF cancelled, RemoveAt
  <2> HIDE DEF i
  <2>4. SubSeq(s, 1, i - 1) \in Seq(S)
    BY <1>1, <2>2, SubSeqProperties
  <2>5. SubSeq(s, i + 1, Len(s)) \in Seq(S)
    BY <1>1, <2>2, SubSeqProperties
  <2>6. s # << >>
    BY <1>1, <2>2
  <2> QED
    BY <2>3, <2>4, <2>5, <2>6, ConcatProperties
<1>3. CASE n \notin Range(s)
  BY <1>3 DEF cancelled
<1> QED
  BY <1>2, <1>3

\* Cancelling a task gives no queue tasks.
LEMMA TasksCancelled ==
    ASSUME TypeOK, NEW q \in Queues, NEW n, tasks' = [tasks EXCEPT ![q] = cancelled(@, n)]
    PROVE  /\ tasks' \in [Queues -> Seq(1 .. MaxTasks)]
           /\ \A x \in Queues : tasks'[x] # << >> => tasks[x] # << >>
<1>1. tasks \in [Queues -> Seq(1 .. MaxTasks)] /\ tasks[q] \in Seq(1 .. MaxTasks)
  BY DEF TypeOK
<1>2. /\ cancelled(tasks[q], n) \in Seq(1 .. MaxTasks)
      /\ tasks[q] = << >> => cancelled(tasks[q], n) = << >>
  BY <1>1, CancelledTasks
<1>3. tasks' = [tasks EXCEPT ![q] = cancelled(tasks[q], n)]
  OBVIOUS
<1>4. /\ tasks' \in [Queues -> Seq(1 .. MaxTasks)]
      /\ \A x \in Queues : tasks'[x] = IF x = q THEN cancelled(tasks[q], n) ELSE tasks[x]
  BY <1>1, <1>2, <1>3, Replacing
<1> QED
  BY <1>2, <1>4

\* TimerTask::cancel.
LEMMA CancelTaskKeeps ==
    ASSUME IInv, NEW s \in Sessions, CancelTask(s)
    PROVE  IInv'
<1>1. /\ s \in Threads /\ pc[s] = "cancel task" /\ TypeOK /\ pc[s] \notin Deleting
      /\ at[s] \in Queues
  BY HereFacts DEF CancelTask, Threads, Deleting
<1>2. Moves(s, "idle", 0, 0) /\ Allowed(s, "idle", 0, 0)
  BY <1>1, IsDone, DoneAllowed DEF CancelTask
<1>3. /\ tasks' \in [Queues -> Seq(1 .. MaxTasks)]
      /\ \A q \in Queues : tasks'[q] # << >> => tasks[q] # << >>
  BY <1>1, TasksCancelled DEF CancelTask
<1>4. UNCHANGED <<settings, registry, created, deleted, users, owner, used, waiting, depth, held,
                  store, latest>>
  BY DEF CancelTask, Usage, Messages
<1>5. TypeOK'
  BY <1>1, <1>2, <1>3, <1>4 DEF TypeOK, Moves, ThreadTypes
<1> QED
  BY <1>1, <1>2, <1>3, <1>4, <1>5, AllowedKeeps DEF IInv, TInv, DInv, Known, TasksOK

\* Queue::setExclusiveOwner cancels the task ...
LEMMA OwnBeginKeeps ==
    ASSUME IInv, NEW s \in Sessions, OwnBegin(s)
    PROVE  IInv'
<1>1. /\ s \in Threads /\ pc[s] = "found" /\ TypeOK /\ pc[s] \notin Deleting
      /\ at[s] \in Queues
  BY HereFacts DEF OwnBegin, Threads, Deleting
<1>2. Moves(s, "own", at[s], using[s])
  BY <1>1, Labels, GoesTo DEF OwnBegin
<1>3. Allowed(s, "own", at[s], using[s])
  BY <1>1, HereFacts, StaysAllowed DEF Fits, Deleting
<1>4. /\ tasks' \in [Queues -> Seq(1 .. MaxTasks)]
      /\ \A q \in Queues : tasks'[q] # << >> => tasks[q] # << >>
  BY <1>1, TasksCancelled DEF OwnBegin
<1>5. UNCHANGED <<settings, registry, created, deleted, users, owner, used, waiting, depth, held,
                  store, latest>>
  BY DEF OwnBegin, Usage, Messages
<1>6. TypeOK'
  BY <1>1, <1>2, <1>4, <1>5 DEF TypeOK, Moves, ThreadTypes
<1> QED
  BY <1>1, <1>2, <1>3, <1>4, <1>5, <1>6, AllowedKeeps DEF IInv, TInv, DInv, Known, TasksOK

\* ... and makes the session the owner of an unused queue.
LEMMA OwnKeeps ==
    ASSUME IInv, NEW s \in Sessions, Own(s)
    PROVE  IInv'
<1>1. /\ s \in Threads /\ pc[s] = "own" /\ TypeOK /\ pc[s] \notin Deleting
      /\ at[s] \in Queues /\ at[s] \in 1 .. created
  BY HereFacts DEF Own, Threads, Deleting
<1>2. Moves(s, "idle", 0, 0) /\ Allowed(s, "idle", 0, 0)
  BY <1>1, IsDone, DoneAllowed DEF Own
<1>3. UNCHANGED <<settings, registry, created, deleted, users, waiting, depth, held,
                  store, tasks, latest>>
  BY DEF Own, Messages, Tasks
<1>4. /\ owner' \in [Queues -> SUBSET Sessions] /\ used' \in [Queues -> BOOLEAN]
      /\ \A q \in Queues : owner'[q] \in {owner[q], {s}} /\ (q # at[s] => owner'[q] = owner[q])
  <2>1. owner \in [Queues -> SUBSET Sessions] /\ used \in [Queues -> BOOLEAN]
    BY <1>1 DEF TypeOK
  <2>2. CASE isUnused(at[s])
    <3>1. owner' = [owner EXCEPT ![at[s]] = {s}] /\ used' = [used EXCEPT ![at[s]] = TRUE]
      BY <2>2 DEF Own
    <3>2. {s} \in SUBSET Sessions
      OBVIOUS
    <3>3. /\ owner' \in [Queues -> SUBSET Sessions]
          /\ \A q \in Queues : owner'[q] = IF q = at[s] THEN {s} ELSE owner[q]
      BY <1>1, <2>1, <3>1, <3>2, Replacing
    <3>4. used' \in [Queues -> BOOLEAN]
      BY <1>1, <2>1, <3>1
    <3> QED
      BY <3>3, <3>4
  <2>3. CASE ~isUnused(at[s])
    BY <2>1, <2>3 DEF Own
  <2> QED
    BY <2>2, <2>3
<1>5. \A q \in Queues : Cardinality(owner'[q]) <= 1
  <2>1. Cardinality({s}) = 1
    BY FS_Singleton
  <2>2. \A q \in Queues : Cardinality(owner[q]) <= 1
    BY <1>1 DEF TypeOK
  <2> QED
    BY <1>4, <2>1, <2>2
<1>6. TypeOK'
  BY <1>1, <1>2, <1>3, <1>4, <1>5 DEF TypeOK, Moves, ThreadTypes
<1>7. \A q \in Queues : users'[q] # {} \/ owner'[q] # {} => q <= created
  BY <1>1, <1>3, <1>4 DEF IInv, TInv, Known
<1> QED
  BY <1>1, <1>2, <1>3, <1>6, <1>7, AllowedKeeps DEF IInv, TInv, DInv, Known, TasksOK

\* The last user of an auto-delete queue goes on to schedule its deletion.
LEMMA Leaves ==
    ASSUME IInv, NEW s \in Sessions, NEW q \in Queues, NEW nobody, q <= created,
           pc[s] = "idle", Leave(s, q, nobody)
    PROVE  \E l, a, u : Moves(s, l, a, u) /\ Allowed(s, l, a, u)
<1>1. s \in Threads /\ TypeOK /\ using[s] = 0 /\ q \in 1 .. created /\ q \in 0 .. MaxQueues
  BY HereFacts, Ranges DEF Threads, Queues
<1>2. CASE Autodelete /\ nobody
  <2>1. /\ pc' = [pc EXCEPT ![s] = "schedule"] /\ at' = [at EXCEPT ![s] = q]
        /\ using' = [using EXCEPT ![s] = using[s]] /\ task' = [task EXCEPT ![s] = task[s]]
    BY <1>1, <1>2, Unmoved DEF Leave, Goto
  <2>2. Moves(s, "schedule", q, using[s])
    BY <1>1, <2>1, Unmoved, Labels, GoesAnywhere
  <2>3. Allowed(s, "schedule", q, using[s])
    BY <1>1, <1>2 DEF Allowed, Fits, Deleting
  <2> QED
    BY <2>2, <2>3
<1>3. CASE ~(Autodelete /\ nobody)
  <2>1. UNCHANGED <<pc, at, using, task>>
    BY <1>3 DEF Leave
  <2>2. Moves(s, pc[s], at[s], using[s])
    BY <1>1, <2>1 DEF Moves, TypeOK, ThreadTypes
  <2>3. Allowed(s, pc[s], at[s], using[s])
    BY <1>1, HereFacts DEF Allowed, Deleting
  <2> QED
    BY <2>2, <2>3
<1> QED
  BY <1>2, <1>3

\* Queue::cancel.
LEMMA CancelKeeps ==
    ASSUME IInv, NEW s \in Sessions, NEW q \in Queues, Cancel(s, q)
    PROVE  IInv'
<1>1. s \in Threads /\ pc[s] = "idle" /\ TypeOK /\ q <= created
  BY DEF Cancel, Threads, IInv, TInv, Known
<1>2. PICK l, a, u : Moves(s, l, a, u) /\ Allowed(s, l, a, u)
  BY <1>1, Leaves DEF Cancel
<1>3. /\ users' = [users EXCEPT ![q] = @ \ {s}]
      /\ UNCHANGED <<settings, registry, created, deleted, owner, used, waiting, depth, held,
                     store, tasks, latest>>
  BY DEF Cancel, Messages, Tasks
<1>4. users' \in [Queues -> SUBSET Sessions] /\ \A x \in Queues : users'[x] \subseteq users[x]
  BY <1>1, <1>3 DEF TypeOK
<1>5. TypeOK'
  BY <1>1, <1>2, <1>3, <1>4 DEF TypeOK, Moves, ThreadTypes
<1>6. \A x \in Queues : users'[x] # {} \/ owner'[x] # {} => x <= created
  BY <1>1, <1>3, <1>4 DEF IInv, TInv, Known
<1> QED
  BY <1>1, <1>2, <1>3, <1>5, <1>6, AllowedKeeps DEF IInv, TInv, DInv, Known, TasksOK

\* Queue::releaseExclusiveOwnership.
LEMMA DisownKeeps ==
    ASSUME IInv, NEW s \in Sessions, NEW q \in Queues, Disown(s, q)
    PROVE  IInv'
<1>1. s \in Threads /\ pc[s] = "idle" /\ TypeOK /\ q <= created
  BY DEF Disown, Threads, IInv, TInv, Known
<1>2. PICK l, a, u : Moves(s, l, a, u) /\ Allowed(s, l, a, u)
  BY <1>1, Leaves DEF Disown
<1>3. /\ owner' = [owner EXCEPT ![q] = {}]
      /\ UNCHANGED <<settings, registry, created, deleted, users, used, waiting, depth, held,
                     store, tasks, latest>>
  BY DEF Disown, Messages, Tasks
<1>4. owner' \in [Queues -> SUBSET Sessions] /\ \A x \in Queues : owner'[x] \in {{}, owner[x]}
  BY <1>1, <1>3 DEF TypeOK
<1>5. \A x \in Queues : Cardinality(owner'[x]) <= 1
  <2>1. Cardinality({}) = 0
    BY FS_EmptySet
  <2>2. \A x \in Queues : Cardinality(owner[x]) <= 1
    BY <1>1 DEF TypeOK
  <2> QED
    BY <1>4, <2>1, <2>2
<1>6. TypeOK'
  BY <1>1, <1>2, <1>3, <1>4, <1>5 DEF TypeOK, Moves, ThreadTypes
<1>7. \A x \in Queues : users'[x] # {} \/ owner'[x] # {} => x <= created
  BY <1>1, <1>3, <1>4 DEF IInv, TInv, Known
<1> QED
  BY <1>1, <1>2, <1>3, <1>6, <1>7, AllowedKeeps DEF IInv, TInv, DInv, Known, TasksOK

----------------------------------------------------------------------------
(* Scheduling and deleting: steps that only move the thread                *)

\* Queue::scheduleAutoDelete.
LEMMA ScheduleKeeps ==
    ASSUME IInv, NEW t \in Sessions, Schedule(t)
    PROVE  IInv'
<1>1. t \in Threads /\ pc[t] = "schedule" /\ TypeOK /\ pc[t] \notin Deleting
  BY DEF Schedule, Threads, IInv, TInv, Deleting
<1>2. CASE Done(t)
  <2>1. Moves(t, "idle", 0, 0) /\ Allowed(t, "idle", 0, 0)
    BY <1>1, <1>2, IsDone, DoneAllowed
  <2> QED
    BY <1>1, <2>1, OnlyMoves DEF Schedule, Usage, Messages, Tasks
<1>3. ASSUME NEW l \in {"arm", "try"}, Goto(t, l), Here(t)
      PROVE  IInv'
  <2>1. Moves(t, l, at[t], using[t])
    BY <1>1, <1>3, Labels, GoesTo
  <2>2. Allowed(t, l, at[t], using[t])
    BY <1>1, HereFacts, StaysAllowed DEF Fits, Deleting
  <2> QED
    BY <1>1, <2>1, <2>2, OnlyMoves DEF Schedule, Usage, Messages, Tasks
<1> QED
  BY <1>2, <1>3 DEF Schedule

\* The store's part of a dequeue.
LEMMA StoreDequeueKeeps ==
    ASSUME IInv, NEW t \in Sessions, StoreDequeue(t)
    PROVE  IInv'
<1>1. /\ t \in Threads /\ TypeOK /\ pc[t] \notin Deleting
      /\ pc[t] \in {"store dequeue", "store dequeue last"}
  BY DEF StoreDequeue, Threads, IInv, TInv, Deleting
<1>2. CASE Done(t)
  <2>1. Moves(t, "idle", 0, 0) /\ Allowed(t, "idle", 0, 0)
    BY <1>1, <1>2, IsDone, DoneAllowed
  <2> QED
    BY <1>1, <2>1, OnlyMoves DEF StoreDequeue, Usage, Messages, Tasks
<1>3. CASE pc[t] = "store dequeue last" /\ Goto(t, "schedule") /\ Here(t)
  <2>1. Moves(t, "schedule", at[t], using[t])
    BY <1>1, <1>3, Labels, GoesTo
  <2>2. Allowed(t, "schedule", at[t], using[t])
    BY <1>1, <1>3, HereFacts, StaysAllowed DEF Fits, Deleting
  <2> QED
    BY <1>1, <2>1, <2>2, OnlyMoves DEF StoreDequeue, Usage, Messages, Tasks
<1> QED
  BY <1>2, <1>3 DEF StoreDequeue, AfterDequeue

\* A client that may delete the queue is the only one that does.
LEMMA CheckDeleteKeeps ==
    ASSUME SoleDeleter, IInv, NEW s \in Sessions, NEW ifUnused, NEW ifEmpty,
           CheckDelete(s, ifUnused, ifEmpty)
    PROVE  IInv'
<1>1. /\ s \in Threads /\ pc[s] = "found" /\ TypeOK /\ pc[s] \notin Deleting /\ s \in Deleters
  BY DEF CheckDelete, Threads, IInv, TInv, Deleting
<1>2. CASE Done(s)
  <2>1. Moves(s, "idle", 0, 0) /\ Allowed(s, "idle", 0, 0)
    BY <1>1, <1>2, IsDone, DoneAllowed
  <2> QED
    BY <1>1, <2>1, OnlyMoves DEF CheckDelete, Usage, Messages, Tasks
<1>3. CASE Goto(s, "unregister") /\ Here(s)
  <2>1. Moves(s, "unregister", at[s], using[s])
    BY <1>1, <1>3, Labels, GoesTo
  <2>2. ~Autodelete /\ \A x \in Deleters : x = s
    BY <1>1, SoleFacts
  <2>3. \A x \in Threads : pc[x] \in Deleting => x \in Deleters
    BY <2>2 DEF IInv, DInv, ThreadOK, Fits
  <2>4. \A x \in Threads : ~IsDeleting(x, at[s])
    BY <1>1, <2>2, <2>3 DEF IsDeleting
  <2>5. Fits(s, "found", at[s], using[s]) /\ at[s] \in 1 .. created
    BY <1>1, HereFacts
  <2>6. Fits(s, "unregister", at[s], using[s])
    BY <1>1, <2>2, <2>5 DEF Fits, Deleting
  <2>7. Allowed(s, "unregister", at[s], using[s])
    BY <1>1, <2>4, <2>5, <2>6 DEF Allowed, Deleting
  <2> QED
    BY <1>1, <2>1, <2>7, OnlyMoves DEF CheckDelete, Usage, Messages, Tasks
<1> QED
  BY <1>2, <1>3 DEF CheckDelete

\* A thread that goes on deleting.
LEMMA DeletesAllowed ==
    ASSUME IInv, NEW t \in Threads, pc[t] \in Deleting, NEW l \in Deleting, NEW u,
           Fits(t, l, at[t], u), u \in {0, using[t]} \/ ~deleted[u],
           l = "store destroy" => u = using[t] /\ \A x \in Threads : using[x] # at[t]
    PROVE  Allowed(t, l, at[t], u)
BY HereFacts DEF Allowed, Deleting

\* dequeueFromStore, for what destroyed() has removed, takes a use of its own ...
LEMMA DrainKeeps ==
    ASSUME IInv, NEW t \in Threads, Drain(t)
    PROVE  IInv'
<1>1. /\ pc[t] = "drain" /\ TypeOK /\ pc[t] \in Deleting /\ at[t] \in Queues
      /\ Fits(t, "drain", at[t], using[t]) /\ StoreOK /\ at[t] \in 0 .. MaxQueues
  BY HereFacts, Ranges DEF Drain, IInv, TInv, Deleting, DInv
<1>2. UNCHANGED <<settings, registry, created, deleted, users, owner, used,
                  waiting, depth, held, store, tasks, latest>>
  BY DEF Drain, Usage, Messages, Tasks
<1>3. ASSUME NEW l \in {"store drain", "barrier", "notify"}, NEW u \in {using[t], at[t]},
             Goto(t, l), using' = [using EXCEPT ![t] = u],
             l = "store drain" => ~deleted[at[t]], l = "barrier" => store[at[t]],
             u = IF deleted[at[t]] THEN using[t] ELSE at[t]
      PROVE  IInv'
  <2>1. /\ pc' = [pc EXCEPT ![t] = l] /\ at' = [at EXCEPT ![t] = at[t]]
        /\ using' = [using EXCEPT ![t] = u] /\ task' = [task EXCEPT ![t] = task[t]]
    BY <1>1, <1>3, Unmoved DEF Drain, Goto
  <2>2. u \in 0 .. MaxQueues /\ l \in PCs /\ l \in Deleting
    BY <1>1, <1>3, Unmoved DEF Deleting, PCs
  <2>3. Moves(t, l, at[t], u)
    BY <1>1, <2>1, <2>2, Unmoved, GoesAnywhere
  <2>4. Fits(t, l, at[t], u)
    BY <1>1, <1>3 DEF Fits, Deleting, StoreOK
  <2>5. Allowed(t, l, at[t], u)
    BY <1>1, <1>3, <2>2, <2>4, DeletesAllowed
  <2> QED
    BY <1>2, <2>3, <2>5, OnlyMoves
<1> QED
  BY <1>1, <1>3 DEF Drain

\* ... and releases it.
LEMMA StoreDrainKeeps ==
    ASSUME IInv, NEW t \in Threads, StoreDrain(t)
    PROVE  IInv'
<1>1. /\ pc[t] = "store drain" /\ TypeOK /\ pc[t] \in Deleting
      /\ Fits(t, "store drain", at[t], using[t])
  BY HereFacts DEF StoreDrain, IInv, TInv, Deleting
<1>2. UNCHANGED <<settings, registry, created, deleted, users, owner, used,
                  waiting, depth, held, store, tasks, latest>>
  BY DEF StoreDrain, Usage, Messages, Tasks
<1>3. ASSUME NEW l \in {"barrier", "notify"}, Goto(t, l), l = "barrier" => store[at[t]]
      PROVE  IInv'
  <2>1. /\ pc' = [pc EXCEPT ![t] = l] /\ at' = [at EXCEPT ![t] = at[t]]
        /\ using' = [using EXCEPT ![t] = 0] /\ task' = [task EXCEPT ![t] = task[t]]
    BY <1>1, <1>3, Unmoved DEF StoreDrain, Goto
  <2>2. l \in PCs /\ l \in Deleting
    BY <1>3 DEF Deleting, PCs
  <2>3. Moves(t, l, at[t], 0)
    BY <1>1, <2>1, <2>2, Unmoved, Numbers, GoesAnywhere
  <2>4. Fits(t, l, at[t], 0)
    BY <1>1, <1>3 DEF Fits, Deleting
  <2>5. Allowed(t, l, at[t], 0)
    BY <1>1, <1>3, <2>2, <2>4, DeletesAllowed
  <2> QED
    BY <1>2, <2>3, <2>5, OnlyMoves
<1> QED
  BY <1>1, <1>3 DEF StoreDrain

\* UsageBarrier::destroy has waited: nobody uses the queue.
LEMMA BarrierWaitKeeps ==
    ASSUME IInv, NEW t \in Threads, BarrierWait(t)
    PROVE  IInv'
<1>1. /\ pc[t] = "wait" /\ TypeOK /\ pc[t] \in Deleting /\ "store destroy" \in Deleting
      /\ Fits(t, "wait", at[t], using[t]) /\ \A x \in Threads : using[x] # at[t]
  BY HereFacts DEF BarrierWait, IInv, TInv, Deleting
<1>2. Moves(t, "store destroy", at[t], using[t])
  BY <1>1, Labels, GoesTo DEF BarrierWait
<1>3. Fits(t, "store destroy", at[t], using[t])
  BY <1>1 DEF Fits, Deleting
<1>4. Allowed(t, "store destroy", at[t], using[t])
  BY <1>1, <1>3, DeletesAllowed
<1> QED
  BY <1>2, <1>4, OnlyMoves DEF BarrierWait, Usage, Messages, Tasks

----------------------------------------------------------------------------
(* The tasks of the Timer                                                  *)

\* A new task is given to the Timer.
LEMMA ArmKeeps ==
    ASSUME IInv, NEW t \in Sessions, Arm(t)
    PROVE  IInv'
<1>1. /\ t \in Threads /\ pc[t] = "arm" /\ TypeOK /\ pc[t] \notin Deleting
      /\ at[t] \in Queues /\ at[t] \in 1 .. created /\ at[t] <= created
      /\ Fits(t, "arm", at[t], using[t])
  BY HereFacts, Ranges DEF Arm, Threads, Deleting
<1>2. Moves(t, "idle", 0, 0) /\ Allowed(t, "idle", 0, 0)
  BY <1>1, IsDone, DoneAllowed DEF Arm
<1>3. PICK n \in Idle(at[t]) : /\ latest' = [latest EXCEPT ![at[t]] = n]
                               /\ tasks' = [tasks EXCEPT ![at[t]] = Append(@, n)]
  BY DEF Arm
<1>4. n \in 1 .. MaxTasks /\ n \in 0 .. MaxTasks
  BY Numbers DEF Idle
<1>5. latest' \in [Queues -> 0 .. MaxTasks]
  BY <1>1, <1>3, <1>4 DEF TypeOK
<1>6. /\ tasks' \in [Queues -> Seq(1 .. MaxTasks)]
      /\ \A q \in Queues : q # at[t] => tasks'[q] = tasks[q]
  <2>1. tasks \in [Queues -> Seq(1 .. MaxTasks)] /\ tasks[at[t]] \in Seq(1 .. MaxTasks)
    BY <1>1 DEF TypeOK
  <2>2. Append(tasks[at[t]], n) \in Seq(1 .. MaxTasks)
    BY <1>4, <2>1, AppendProperties
  <2>3. tasks' = [tasks EXCEPT ![at[t]] = Append(tasks[at[t]], n)]
    BY <1>3
  <2> QED
    BY <1>1, <2>1, <2>2, <2>3, Replacing
<1>7. UNCHANGED <<settings, registry, created, deleted, users, owner, used, waiting, depth, held,
                  store>>
  BY DEF Arm, Usage, Messages
<1>8. TypeOK'
  BY <1>1, <1>2, <1>5, <1>6, <1>7 DEF TypeOK, Moves, ThreadTypes
<1>9. Autodelete
  BY <1>1 DEF Fits
<1>10. \A q \in Queues : tasks'[q] # << >> => Autodelete /\ q <= created
  BY <1>1, <1>6, <1>9 DEF IInv, TInv, Known
<1> QED
  BY <1>1, <1>2, <1>7, <1>8, <1>10, AllowedKeeps DEF IInv, TInv, Known

\* The Timer runs the oldest task of a queue.
LEMMA FireKeeps ==
    ASSUME IInv, NEW q \in Queues, Fire(q)
    PROVE  IInv'
<1> DEFINE t == "timer"
<1>1. /\ t \in Threads /\ pc[t] = "idle" /\ TypeOK /\ using[t] = 0 /\ q \in 0 .. MaxQueues
      /\ tasks[q] # << >> /\ q <= created /\ q \in 1 .. created /\ Autodelete
  BY HereFacts, Ranges DEF Fire, Threads, IInv, TInv, DInv, TasksOK, Known, Queues
<1>2. tasks \in [Queues -> Seq(1 .. MaxTasks)] /\ tasks[q] \in Seq(1 .. MaxTasks)
  BY <1>1 DEF TypeOK
<1>3. Head(tasks[q]) \in 0 .. MaxTasks /\ Tail(tasks[q]) \in Seq(1 .. MaxTasks)
  BY <1>1, <1>2, HeadTailProperties, Numbers
<1>4. Moves(t, "try", q, using[t])
  <2>1. /\ pc' = [pc EXCEPT ![t] = "try"] /\ at' = [at EXCEPT ![t] = q]
        /\ using' = [using EXCEPT ![t] = using[t]] /\ task' = [task EXCEPT ![t] = Head(tasks[q])]
    BY <1>1, Unmoved DEF Fire, Goto
  <2> HIDE DEF t
  <2> QED
    BY <1>1, <1>3, <2>1, Unmoved, Labels, GoesAnywhere
<1>5. Allowed(t, "try", q, using[t])
  BY <1>1 DEF Allowed, Fits, Deleting
<1>6. /\ tasks' \in [Queues -> Seq(1 .. MaxTasks)]
      /\ \A x \in Queues : x # q => tasks'[x] = tasks[x]
  <2>1. tasks' = [tasks EXCEPT ![q] = Tail(tasks[q])]
    BY DEF Fire
  <2> QED
    BY <1>2, <1>3, <2>1, Replacing
<1>7. UNCHANGED <<settings, registry, created, deleted, users, owner, used, waiting, depth, held,
                  store, latest>>
  BY DEF Fire, Usage, Messages
<1> HIDE DEF t
<1>8. TypeOK'
  BY <1>1, <1>4, <1>6, <1>7 DEF TypeOK, Moves, ThreadTypes
<1>9. \A x \in Queues : tasks'[x] # << >> => Autodelete /\ x <= created
  BY <1>1, <1>6 DEF IInv, TInv, Known
<1> QED
  BY <1>1, <1>4, <1>5, <1>7, <1>8, <1>9, AllowedKeeps DEF IInv, TInv, Known

\* The end of destroyed().
LEMMA ResetTaskKeeps ==
    ASSUME IInv, NEW t \in Threads, ResetTask(t)
    PROVE  IInv'
<1>1. pc[t] = "reset" /\ TypeOK /\ at[t] \in Queues /\ Fits(t, "reset", at[t], using[t])
  BY HereFacts DEF ResetTask
<1>2. deleted[at[t]]
  BY <1>1 DEF Fits
<1>3. Moves(t, "idle", 0, 0) /\ Allowed(t, "idle", 0, 0)
  BY <1>1, <1>2, IsDone, DoneAllowed DEF ResetTask
<1>4. latest' \in [Queues -> 0 .. MaxTasks]
  BY <1>1, Numbers DEF TypeOK, ResetTask
<1>5. UNCHANGED <<settings, registry, created, deleted, users, owner, used, waiting, depth, held,
                  store, tasks>>
  BY DEF ResetTask, Usage, Messages
<1>6. TypeOK'
  BY <1>1, <1>3, <1>4, <1>5 DEF TypeOK, Moves, ThreadTypes
<1> QED
  BY <1>1, <1>3, <1>5, <1>6, AllowedKeeps DEF IInv, TInv, DInv, Known, TasksOK

----------------------------------------------------------------------------
(* Messages                                                                *)

\* A finite set with one element more or less.
LEMMA OneMoreOrLess ==
    ASSUME NEW S, IsFiniteSet(S), NEW x
    PROVE  /\ Cardinality(S) \in Nat
           /\ x \notin S => Cardinality(S \cup {x}) = Cardinality(S) + 1
           /\ x \in S => Cardinality(S) >= 1 /\ Cardinality(S \ {x}) = Cardinality(S) - 1
<1>1. Cardinality(S) \in Nat /\ Cardinality(S \ {x}) \in Nat
  BY FS_CardinalityType, FS_Subset
<1>2. x \notin S => Cardinality(S \cup {x}) = Cardinality(S) + 1
  BY FS_AddElement
<1>3. Cardinality(S \ {x}) = IF x \in S THEN Cardinality(S) - 1 ELSE Cardinality(S)
  BY FS_RemoveElement
<1> QED
  BY <1>1, <1>2, <1>3

\* The messages of one queue change.
LEMMA OneQueueChanges ==
    ASSUME TypeOK, Covered, NEW q \in Queues,
           \A x \in Queues \ {q} : /\ waiting'[x] = waiting[x] /\ depth'[x] = depth[x]
                                   /\ Holding(x)' \subseteq Holding(x)
                                   /\ Pushing(x)' \subseteq Pushing(x),
           depth'[q] >= waiting'[q] + Cardinality(Holding(q)') + Cardinality(Pushing(q)')
    PROVE  Covered'
<1> SUFFICES ASSUME NEW x \in Queues \ {q}
             PROVE  depth'[x] >= waiting'[x] + Cardinality(Holding(x)') + Cardinality(Pushing(x)')
  BY DEF Covered
<1>1. /\ Cardinality(Pushing(x)') <= Cardinality(Pushing(x)) /\ Cardinality(Pushing(x)') \in Nat
      /\ Cardinality(Holding(x)') <= Cardinality(Holding(x)) /\ Cardinality(Holding(x)') \in Nat
  BY CountedSets, FS_Subset, FS_CardinalityType
<1>2. depth[x] >= waiting[x] + Cardinality(Holding(x)) + Cardinality(Pushing(x))
  BY DEF Covered
<1>3. depth[x] \in 0 .. MaxDepth /\ waiting[x] \in 0 .. MaxDepth
  BY DEF TypeOK
<1>4. Cardinality(Holding(x)) \in Nat /\ Cardinality(Pushing(x)) \in Nat
  BY CountedSets
<1> QED
  BY <1>1, <1>2, <1>3, <1>4, Numbers

\* What the counts of one queue are.
LEMMA CountsOf ==
    ASSUME TypeOK, Covered, NEW q \in Queues
    PROVE  /\ depth[q] \in Nat /\ waiting[q] \in Nat
           /\ depth[q] <= MaxDepth /\ waiting[q] <= MaxDepth
           /\ Cardinality(Holding(q)) \in Nat /\ Cardinality(Pushing(q)) \in Nat
           /\ depth[q] >= waiting[q] + Cardinality(Holding(q)) + Cardinality(Pushing(q))
BY CountedSets, Numbers DEF TypeOK, Covered

\* A step that changes messages and leaves registry, users, tasks and store alone.
LEMMA MessageStep ==
    ASSUME IInv, TypeOK', Covered', Dequeuing', NEW t \in Threads, NEW l, NEW a, NEW u,
           Moves(t, l, a, u), Fits(t, l, a, u), l # "idle" => a \in 1 .. created,
           l \in Deleting => pc[t] \in Deleting /\ a = at[t],
           pc[t] \in Deleting => l \in Deleting /\ a = at[t],
           u \in {0, using[t]} \/ ~deleted[u], l # "store destroy",
           UNCHANGED <<settings, registry, created, deleted, users, owner, store, tasks>>,
           \A s \in Sessions : held'[s] <= created
    PROVE  IInv'
<1>1. Known'
  BY DEF IInv, TInv, Known, Moves
<1>2. Fits(t, l, a, u)'
  BY DEF Fits, Durable, Autodelete, Deleters
<1>3. DInv'
  BY <1>2, DeletionKept DEF IInv, DInv, TasksOK
<1> QED
  BY <1>1, <1>3 DEF IInv, TInv

\* Queue::enqueue takes a use of the queue ...
LEMMA EnqueueKeeps ==
    ASSUME IInv, NEW s \in Sessions, Enqueue(s)
    PROVE  IInv'
<1>1. /\ s \in Threads /\ pc[s] = "found" /\ TypeOK /\ pc[s] \notin Deleting
      /\ at[s] \in Queues /\ at[s] \in 1 .. created /\ StoreOK
  BY HereFacts DEF Enqueue, Threads, Deleting, IInv, DInv
<1>2. IF deleted[at[s]] THEN Moves(s, "idle", 0, 0) ELSE Moves(s, "reserve", at[s], at[s])
  BY <1>1, Labels, Uses DEF Enqueue
<1>3. Allowed(s, "idle", 0, 0)
  BY <1>1, DoneAllowed
<1>4. ~deleted[at[s]] => Allowed(s, "reserve", at[s], at[s])
  BY <1>1 DEF Allowed, Fits, Deleting, StoreOK
<1> QED
  BY <1>1, <1>2, <1>3, <1>4, OnlyMoves DEF Enqueue, Usage, Messages, Tasks

\* ... and reserves the depth for the message it is about to push.
LEMMA ReserveKeeps ==
    ASSUME IInv, NEW s \in Sessions, Reserve(s)
    PROVE  IInv'
<1>1. PICK q : /\ q = at[s] /\ q \in Queues /\ q \in 1 .. created /\ q \in 0 .. MaxQueues
               /\ s \in Threads /\ pc[s] = "reserve" /\ TypeOK /\ pc[s] \notin Deleting
               /\ Covered /\ Fits(s, "reserve", q, using[s])
  BY HereFacts, Ranges DEF Reserve, Threads, Deleting, IInv, TInv
<1>0. /\ depth[q] \in Nat /\ waiting[q] \in Nat /\ MaxDepth \in Nat
      /\ depth[q] <= MaxDepth /\ waiting[q] <= MaxDepth
      /\ Cardinality(Holding(q)) \in Nat /\ Cardinality(Pushing(q)) \in Nat
      /\ depth[q] >= waiting[q] + Cardinality(Holding(q)) + Cardinality(Pushing(q))
  BY <1>1, CountsOf, Numbers
<1>2. UNCHANGED <<settings, registry, created, deleted, users, owner, used, waiting, held,
                  store, tasks, latest>>
  BY DEF Reserve, Usage, Tasks
<1>3. CASE Done(s) /\ UNCHANGED depth
  <2>1. Moves(s, "idle", 0, 0) /\ Allowed(s, "idle", 0, 0)
    BY <1>1, <1>3, IsDone, DoneAllowed
  <2> QED
    BY <1>1, <1>2, <1>3, <2>1, OnlyMoves
<1>4. CASE /\ depth[q] # MaxDepth /\ depth' = [depth EXCEPT ![q] = @ + 1]
           /\ Goto(s, IF Durable THEN "store enqueue" ELSE "push")
           /\ using' = [using EXCEPT ![s] = IF Durable THEN @ ELSE 0]
           /\ UNCHANGED <<at, task>>
  <2>0. PICK l, u : /\ l \in {"store enqueue", "push"} /\ u \in {0, using[s]}
                    /\ l = "store enqueue" => Durable /\ u = using[s]
                    /\ Goto(s, l) /\ using' = [using EXCEPT ![s] = u]
    <3>1. CASE Durable
      <4>1. Goto(s, "store enqueue") /\ using' = [using EXCEPT ![s] = using[s]]
        BY <1>4, <3>1
      <4> QED
        BY <3>1, <4>1
    <3>2. CASE ~Durable
      <4>1. Goto(s, "push") /\ using' = [using EXCEPT ![s] = 0]
        BY <1>4, <3>2
      <4> QED
        BY <4>1
    <3> QED
      BY <3>1, <3>2
  <2>1. Moves(s, l, q, u)
    <3>1. /\ pc' = [pc EXCEPT ![s] = l] /\ at' = [at EXCEPT ![s] = q]
          /\ using' = [using EXCEPT ![s] = u] /\ task' = [task EXCEPT ![s] = task[s]]
      BY <1>1, <1>4, <2>0, Unmoved DEF Goto
    <3>2. l \in PCs /\ u \in 0 .. MaxQueues
      BY <1>1, <1>4, <2>0, Unmoved, Labels, Numbers
    <3> QED
      BY <1>1, <3>1, <3>2, Unmoved, GoesAnywhere
  <2>2. Fits(s, l, q, u)
    BY <1>1, <1>4, <2>0 DEF Fits, Deleting
  <2>3. depth' \in [Queues -> 0 .. MaxDepth] /\ \A x \in Queues \ {q} : depth'[x] = depth[x]
    <3>1. depth \in [Queues -> 0 .. MaxDepth]
      BY <1>1 DEF TypeOK
    <3>2. depth[q] + 1 \in 0 .. MaxDepth
      <4>1. depth[q] # MaxDepth
        BY <1>4, <2>0
      <4> QED
        BY <1>0, <4>1
    <3>3. depth' = [depth EXCEPT ![q] = depth[q] + 1]
      BY <1>4, <2>0
    <3> QED
      BY <1>1, <3>1, <3>2, <3>3, Replacing
  <2>4. depth'[q] = depth[q] + 1
    BY <1>1, <1>4, <2>0 DEF TypeOK
  <2>5. TypeOK'
    BY <1>1, <1>2, <2>1, <2>3 DEF TypeOK, Moves, ThreadTypes
  <2>6. \A x : Holding(x)' = Holding(x)
    BY <1>2 DEF Holding
  <2>7. \A x \in Queues \ {q} : Pushing(x)' = Pushing(x)
    BY <1>1, <1>4, <2>0, <2>1 DEF Pushing, Moves, Threads
  <2>8. Pushing(q)' = Pushing(q) \cup {s} /\ s \notin Pushing(q)
    BY <1>1, <1>4, <2>0, <2>1 DEF Pushing, Moves, Threads
  <2>9. Covered'
    <3>1. Cardinality(Pushing(q)') = Cardinality(Pushing(q)) + 1
      BY <2>8, CountedSets, OneMoreOrLess
    <3>2. waiting' = waiting /\ Holding(q)' = Holding(q)
      BY <1>2, <2>6
    <3>3. depth'[q] >= waiting'[q] + Cardinality(Holding(q)') + Cardinality(Pushing(q)')
      BY <1>0, <2>4, <3>1, <3>2
    <3> QED
      BY <1>1, <2>3, <2>6, <2>7, <3>2, <3>3, OneQueueChanges
  <2>10. Dequeuing'
    BY <1>2, <1>4, <2>0, <2>1 DEF IInv, TInv, Dequeuing, Moves, Threads
  <2>11. l # "idle" /\ l \notin Deleting /\ l # "store destroy"
    BY <1>4, <2>0 DEF Deleting
  <2> QED
    BY <1>1, <1>2, <1>4, <2>0, <2>1, <2>2, <2>5, <2>9, <2>10, <2>11, MessageStep DEF IInv, TInv, Known
<1> QED
  BY <1>1, <1>3, <1>4 DEF Reserve

\* The store takes the message, or refuses it and the depth is given back.
LEMMA StoreEnqueueKeeps ==
    ASSUME IInv, NEW s \in Sessions, StoreEnqueue(s)
    PROVE  IInv'
<1>1. PICK q : /\ q = at[s] /\ q \in Queues /\ q \in 1 .. created
               /\ s \in Threads /\ pc[s] = "store enqueue" /\ TypeOK /\ pc[s] \notin Deleting
               /\ Covered /\ Fits(s, "store enqueue", q, using[s])
  BY HereFacts DEF StoreEnqueue, Threads, Deleting, IInv, TInv
<1>2. UNCHANGED <<settings, registry, created, deleted, users, owner, used, waiting, held,
                  store, tasks, latest>>
  BY DEF StoreEnqueue, Usage, Tasks
<1>3. CASE Goto(s, "push") /\ using' = [using EXCEPT ![s] = 0] /\ UNCHANGED <<depth, at, task>>
  <2>1. /\ pc' = [pc EXCEPT ![s] = "push"] /\ at' = [at EXCEPT ![s] = q]
        /\ using' = [using EXCEPT ![s] = 0] /\ task' = [task EXCEPT ![s] = task[s]]
    BY <1>1, <1>3, Unmoved DEF Goto
  <2>2. Moves(s, "push", q, 0)
    BY <1>1, <2>1, Unmoved, Labels, Numbers, GoesAnywhere
  <2>3. Allowed(s, "push", q, 0)
    BY <1>1 DEF Allowed, Fits, Deleting
  <2> QED
    BY <1>1, <1>2, <1>3, <2>2, <2>3, OnlyMoves
<1>4. CASE Done(s) /\ depth' = [depth EXCEPT ![q] = @ - 1]
  <2>1. Moves(s, "idle", 0, 0) /\ Fits(s, "idle", 0, 0)
    BY <1>1, <1>4, IsDone DEF Fits, Deleting
  <2>2. \A x : Holding(x)' = Holding(x)
    BY <1>2 DEF Holding
  <2>3. \A x \in Queues \ {q} : Pushing(x)' = Pushing(x)
    BY <1>1, <2>1 DEF Pushing, Moves, Threads
  <2>4. Pushing(q)' = Pushing(q) \ {s} /\ s \in Pushing(q)
    BY <1>1, <2>1 DEF Pushing, Moves, Threads
  <2>5. /\ Cardinality(Pushing(q)') = Cardinality(Pushing(q)) - 1
        /\ Cardinality(Pushing(q)) >= 1
    BY <2>4, CountedSets, OneMoreOrLess
  <2>6. /\ depth[q] \in Nat /\ waiting[q] \in Nat /\ depth[q] <= MaxDepth /\ MaxDepth \in Nat
        /\ Cardinality(Holding(q)) \in Nat /\ Cardinality(Pushing(q)) \in Nat
        /\ depth[q] >= waiting[q] + Cardinality(Holding(q)) + Cardinality(Pushing(q))
    BY <1>1, CountsOf, Numbers
  <2>7. depth[q] - 1 \in 0 .. MaxDepth
    BY <2>5, <2>6
  <2>8. /\ depth' \in [Queues -> 0 .. MaxDepth]
        /\ \A x \in Queues : depth'[x] = IF x = q THEN depth[q] - 1 ELSE depth[x]
    <3>1. depth \in [Queues -> 0 .. MaxDepth] /\ depth' = [depth EXCEPT ![q] = depth[q] - 1]
      BY <1>1, <1>4 DEF TypeOK
    <3> QED
      BY <1>1, <2>7, <3>1, Replacing
  <2>9. Covered'
    <3>1. waiting' = waiting /\ Holding(q)' = Holding(q) /\ depth'[q] = depth[q] - 1
      BY <1>1, <1>2, <2>2, <2>8
    <3>2. depth'[q] >= waiting'[q] + Cardinality(Holding(q)') + Cardinality(Pushing(q)')
      BY <2>5, <2>6, <3>1
    <3> QED
      BY <1>1, <2>2, <2>3, <2>8, <3>1, <3>2, OneQueueChanges
  <2>10. TypeOK'
    BY <1>1, <1>2, <2>1, <2>8 DEF TypeOK, Moves, ThreadTypes
  <2>11. Dequeuing'
    BY <1>2, <2>1 DEF IInv, TInv, Dequeuing, Moves, Threads
  <2>12. "idle" \notin Deleting /\ "idle" # "store destroy"
    BY DEF Deleting
  <2> QED
    BY <1>1, <1>2, <2>1, <2>9, <2>10, <2>11, <2>12, MessageStep DEF IInv, TInv, Known
<1> QED
  BY <1>1, <1>3, <1>4 DEF StoreEnqueue

\* The message was counted when its depth was reserved.
LEMMA PushKeeps ==
    ASSUME IInv, NEW s \in Sessions, Push(s)
    PROVE  IInv'
<1>1. PICK q : /\ q = at[s] /\ q \in Queues /\ q \in 1 .. created
               /\ s \in Threads /\ pc[s] = "push" /\ TypeOK /\ pc[s] \notin Deleting /\ Covered
  BY HereFacts DEF Push, Threads, Deleting, IInv, TInv
<1>2. UNCHANGED <<settings, registry, created, deleted, users, owner, used, depth, held,
                  store, tasks, latest>>
  BY DEF Push, Usage, Tasks
<1>3. Moves(s, "idle", 0, 0) /\ Fits(s, "idle", 0, 0)
  BY <1>1, IsDone DEF Push, Fits, Deleting
<1>4. \A x : Holding(x)' = Holding(x)
  BY <1>2 DEF Holding
<1>5. \A x \in Queues \ {q} : Pushing(x)' = Pushing(x)
  BY <1>1, <1>3 DEF Pushing, Moves, Threads
<1>6. Pushing(q)' = Pushing(q) \ {s} /\ s \in Pushing(q)
  BY <1>1, <1>3 DEF Pushing, Moves, Threads
<1>7. Cardinality(Pushing(q)') = Cardinality(Pushing(q)) - 1 /\ Cardinality(Pushing(q)) >= 1
  BY <1>6, CountedSets, OneMoreOrLess
<1>8. /\ depth[q] \in Nat /\ waiting[q] \in Nat /\ depth[q] <= MaxDepth /\ MaxDepth \in Nat
      /\ Cardinality(Holding(q)) \in Nat /\ Cardinality(Pushing(q)) \in Nat
      /\ depth[q] >= waiting[q] + Cardinality(Holding(q)) + Cardinality(Pushing(q))
  BY <1>1, CountsOf, Numbers
<1>9. waiting[q] + 1 \in 0 .. MaxDepth
  BY <1>7, <1>8
<1>10. /\ waiting' \in [Queues -> 0 .. MaxDepth]
       /\ \A x \in Queues : waiting'[x] = IF x = q THEN waiting[q] + 1 ELSE waiting[x]
  <2>1. waiting \in [Queues -> 0 .. MaxDepth] /\ waiting' = [waiting EXCEPT ![q] = waiting[q] + 1]
    BY <1>1 DEF TypeOK, Push
  <2> QED
    BY <1>1, <1>9, <2>1, Replacing
<1>11. Covered'
  <2>1. depth' = depth /\ Holding(q)' = Holding(q) /\ waiting'[q] = waiting[q] + 1
    BY <1>1, <1>2, <1>4, <1>10
  <2>2. depth'[q] >= waiting'[q] + Cardinality(Holding(q)') + Cardinality(Pushing(q)')
    BY <1>7, <1>8, <2>1
  <2> QED
    BY <1>1, <1>4, <1>5, <1>10, <2>1, <2>2, OneQueueChanges
<1>12. TypeOK'
  BY <1>1, <1>2, <1>3, <1>10 DEF TypeOK, Moves, ThreadTypes
<1>13. Dequeuing'
  BY <1>2, <1>3 DEF IInv, TInv, Dequeuing, Moves, Threads
<1>14. "idle" \notin Deleting /\ "idle" # "store destroy"
  BY DEF Deleting
<1> QED
  BY <1>1, <1>2, <1>3, <1>11, <1>12, <1>13, <1>14, MessageStep DEF IInv, TInv, Known

\* A message that is acquired stays in the depth.
LEMMA GetKeeps ==
    ASSUME IInv, NEW s \in Sessions, NEW q \in Queues, Get(s, q)
    PROVE  IInv'
<1>1. /\ s \in Threads /\ pc[s] = "idle" /\ TypeOK /\ Covered /\ "idle" \notin Deleting
      /\ q <= created /\ q \in 0 .. MaxQueues /\ Fits(s, pc[s], at[s], using[s])
      /\ held[s] = 0 /\ q # 0
  BY HereFacts, Ranges DEF Get, Threads, Deleting, IInv, TInv, Known
<1>2. UNCHANGED <<settings, registry, created, deleted, users, owner, used, depth,
                  store, tasks, latest, pc, at, using, task>>
  BY DEF Get, Usage, Tasks
<1>3. Moves(s, pc[s], at[s], using[s])
  BY <1>1, <1>2 DEF Moves, TypeOK, ThreadTypes
<1>4. /\ held' \in [Sessions -> 0 .. MaxQueues]
      /\ \A x \in Sessions : held'[x] = IF x = s THEN q ELSE held[x]
  BY <1>1, Replacing DEF TypeOK, Get
<1>5. \A x : Pushing(x)' = Pushing(x)
  BY <1>2 DEF Pushing
<1>6. \A x \in Queues \ {q} : Holding(x)' \subseteq Holding(x)
  BY <1>4 DEF Holding
<1>7. Holding(q)' = Holding(q) \cup {s} /\ s \notin Holding(q)
  BY <1>1, <1>4 DEF Holding
<1>8. Cardinality(Holding(q)') = Cardinality(Holding(q)) + 1
  BY <1>7, CountedSets, OneMoreOrLess
<1>9. /\ depth[q] \in Nat /\ waiting[q] \in Nat /\ waiting[q] <= MaxDepth /\ MaxDepth \in Nat
      /\ Cardinality(Holding(q)) \in Nat /\ Cardinality(Pushing(q)) \in Nat
      /\ depth[q] >= waiting[q] + Cardinality(Holding(q)) + Cardinality(Pushing(q))
  BY <1>1, CountsOf, Numbers
<1>10. waiting[q] - 1 \in 0 .. MaxDepth
  <2>1. waiting[q] > 0
    BY DEF Get
  <2> QED
    BY <1>9, <2>1
<1>11. /\ waiting' \in [Queues -> 0 .. MaxDepth]
       /\ \A x \in Queues : waiting'[x] = IF x = q THEN waiting[q] - 1 ELSE waiting[x]
  <2>1. waiting \in [Queues -> 0 .. MaxDepth] /\ waiting' = [waiting EXCEPT ![q] = waiting[q] - 1]
    BY <1>1 DEF TypeOK, Get
  <2> QED
    BY <1>10, <2>1, Replacing
<1>12. Covered'
  <2>1. depth' = depth /\ Pushing(q)' = Pushing(q) /\ waiting'[q] = waiting[q] - 1
    BY <1>2, <1>5, <1>11
  <2>2. depth'[q] >= waiting'[q] + Cardinality(Holding(q)') + Cardinality(Pushing(q)')
    BY <1>8, <1>9, <2>1
  <2> QED
    BY <1>1, <1>5, <1>6, <1>11, <2>1, <2>2, OneQueueChanges
<1>13. TypeOK'
  BY <1>1, <1>2, <1>4, <1>11 DEF TypeOK
<1>14. Dequeuing'
  BY <1>1, <1>2, <1>4 DEF IInv, TInv, Dequeuing
<1>15. \A x \in Sessions : held'[x] <= created
  BY <1>1, <1>4 DEF IInv, TInv, Known
<1>16. pc[s] # "store destroy" /\ pc[s] \notin Deleting
  BY <1>1 DEF Deleting
<1> QED
  BY <1>1, <1>2, <1>3, <1>12, <1>13, <1>14, <1>15, <1>16, MessageStep

\* A message is accepted under a use of its queue, or lost with it.
LEMMA AcceptKeeps ==
    ASSUME IInv, NEW s \in Sessions, Accept(s)
    PROVE  IInv'
<1>1. PICK q : /\ q = held[s] /\ q \in Queues /\ q \in 1 .. created
               /\ s \in Threads /\ pc[s] = "idle" /\ TypeOK /\ pc[s] \notin Deleting
               /\ Covered /\ StoreOK
  <2>1. /\ s \in Threads /\ pc[s] = "idle" /\ TypeOK /\ pc[s] \notin Deleting
        /\ Covered /\ StoreOK /\ held[s] # 0 /\ held[s] <= created
    BY DEF Accept, Threads, Deleting, IInv, TInv, DInv, Known
  <2>2. held[s] \in 0 .. MaxQueues
    BY <2>1 DEF TypeOK
  <2>3. held[s] \in 1 .. created
    BY <2>1, <2>2, Ranges, Numbers
  <2> QED
    BY <2>1, <2>3, Ranges
<1>2. UNCHANGED <<settings, registry, created, deleted, users, owner, used, waiting, depth,
                  store, tasks, latest>>
  BY DEF Accept, Usage, Tasks
<1>3. held' \in [Sessions -> 0 .. MaxQueues] /\ \A x \in Sessions : held'[x] \in {0, held[x]}
  BY <1>1, Numbers DEF TypeOK, Accept
<1>4. PICK l, u : /\ IF deleted[q] THEN l = "idle" /\ u = 0 ELSE l = "dequeue" /\ u = q
                  /\ Moves(s, l, u, u)
  BY <1>1, Labels, Uses DEF Accept
<1>5. l \notin Deleting /\ l \notin {"store destroy", "store enqueue", "push"}
  BY <1>4 DEF Deleting
<1>6. Fits(s, l, u, u)
  BY <1>1, <1>4 DEF Fits, Deleting, StoreOK
<1>7. Covered'
  <2>1. \A x \in Queues : Holding(x)' \subseteq Holding(x)
    BY <1>3, Ranges, <1>1 DEF Holding
  <2>2. \A x \in Queues : Pushing(x)' \subseteq Pushing(x)
    BY <1>1, <1>4, <1>5 DEF Pushing, Moves, Threads
  <2> QED
    BY <1>1, <1>2, <2>1, <2>2, FewerMessages
<1>8. TypeOK'
  BY <1>1, <1>2, <1>3, <1>4 DEF TypeOK, Moves, ThreadTypes
<1>9. Dequeuing'
  <2>1. l = "dequeue" => held' = held
    BY <1>1, <1>4 DEF Accept
  <2> QED
    BY <1>1, <1>3, <1>4, <2>1 DEF IInv, TInv, Dequeuing, Moves, Threads
<1>10. \A x \in Sessions : held'[x] <= created
  BY <1>1, <1>3, Ranges DEF IInv, TInv, Known
<1> QED
  BY <1>1, <1>2, <1>4, <1>5, <1>6, <1>7, <1>8, <1>9, <1>10, MessageStep

\* The depth of an accepted message is given back, unless destroyed() has done so.
LEMMA DequeueKeeps ==
    ASSUME IInv, NEW s \in Sessions, Dequeue(s)
    PROVE  IInv'
<1>1. PICK q : /\ q = at[s] /\ q \in Queues /\ q \in 1 .. created /\ q # 0
               /\ s \in Threads /\ pc[s] = "dequeue" /\ TypeOK /\ pc[s] \notin Deleting
               /\ Covered /\ Fits(s, "dequeue", q, using[s]) /\ held[s] \in {0, q}
  BY HereFacts, Ranges DEF Dequeue, Threads, Deleting, IInv, TInv, Dequeuing
<1>2. UNCHANGED <<settings, registry, created, deleted, users, owner, used, waiting,
                  store, tasks, latest>>
  BY DEF Dequeue, Usage, Tasks
<1>3. /\ held' \in [Sessions -> 0 .. MaxQueues]
      /\ \A x \in Sessions : held'[x] = IF x = s THEN 0 ELSE held[x]
  BY <1>1, Numbers, Replacing DEF TypeOK, Dequeue
<1>4. CASE held[s] = 0
  <2>1. Moves(s, "idle", 0, 0) /\ Allowed(s, "idle", 0, 0) /\ depth' = depth
    BY <1>1, <1>4, IsDone, DoneAllowed DEF Dequeue
  <2>2. held' = held
    BY <1>1, <1>3, <1>4 DEF TypeOK
  <2> QED
    BY <1>1, <1>2, <2>1, <2>2, OnlyMoves
<1>5. CASE held[s] = q
  <2>1. depth' = [depth EXCEPT ![q] = depth[q] - 1]
    BY <1>1, <1>5 DEF Dequeue
  <2> DEFINE Goes(l, a, u) ==
          /\ Moves(s, l, a, u) /\ u \in {0, using[s]} /\ a \in {0, q}
          /\ l \in {"idle", "schedule", "store dequeue", "store dequeue last"}
          /\ l = "idle" => u = 0
          /\ l # "idle" => a = q /\ u = using[s]
          /\ l \in {"schedule", "store dequeue last"} => Autodelete
          /\ l \in {"store dequeue", "store dequeue last"} => Durable
  <2>2. PICK l, a, u : Goes(l, a, u)
    <3>1. ASSUME NEW l \in {"schedule", "store dequeue", "store dequeue last"},
                 Goto(s, l) /\ Here(s)
          PROVE  Moves(s, l, q, using[s])
      BY <1>1, <3>1, Labels, GoesTo
    <3>2. Done(s) => Moves(s, "idle", 0, 0)
      BY <1>1, IsDone
    <3> DEFINE eligible == Autodelete /\ depth[q] = 1 /\ isUnused(q)
    <3>3. IF Durable
          THEN Goto(s, IF eligible THEN "store dequeue last" ELSE "store dequeue") /\ Here(s)
          ELSE AfterDequeue(s, eligible)
      BY <1>1, <1>5 DEF Dequeue
    <3>4. eligible => Autodelete
      OBVIOUS
    <3> HIDE DEF eligible
    <3>5. CASE Durable /\ eligible
      <4>1. Moves(s, "store dequeue last", q, using[s])
        BY <3>1, <3>3, <3>5
      <4>2. Goes("store dequeue last", q, using[s])
        BY <3>4, <3>5, <4>1
      <4> HIDE DEF Goes
      <4> QED
        BY <4>2
    <3>6. CASE Durable /\ ~eligible
      <4>1. Moves(s, "store dequeue", q, using[s])
        BY <3>1, <3>3, <3>6
      <4>2. Goes("store dequeue", q, using[s])
        BY <3>6, <4>1
      <4> HIDE DEF Goes
      <4> QED
        BY <4>2
    <3>7. CASE ~Durable /\ eligible
      <4>1. Moves(s, "schedule", q, using[s])
        BY <3>1, <3>3, <3>7 DEF AfterDequeue
      <4>2. Goes("schedule", q, using[s])
        BY <3>4, <3>7, <4>1
      <4> HIDE DEF Goes
      <4> QED
        BY <4>2
    <3>8. CASE ~Durable /\ ~eligible
      <4>1. Moves(s, "idle", 0, 0)
        BY <3>2, <3>3, <3>8 DEF AfterDequeue
      <4>2. Goes("idle", 0, 0)
        BY <4>1
      <4> HIDE DEF Goes
      <4> QED
        BY <4>2
    <3> QED
      BY <3>5, <3>6, <3>7, <3>8
  <2>3. Fits(s, l, a, u) /\ l \notin Deleting /\ l # "store destroy"
    BY <1>1, <2>2 DEF Fits, Deleting
  <2>4. \A x : Pushing(x)' = Pushing(x)
    BY <1>1, <2>2 DEF Pushing, Moves, Threads
  <2>5. \A x \in Queues \ {q} : Holding(x)' \subseteq Holding(x)
    BY <1>3, Ranges, <1>1 DEF Holding
  <2>6. Holding(q)' = Holding(q) \ {s} /\ s \in Holding(q)
    BY <1>1, <1>3, <1>5 DEF Holding
  <2>7. /\ Cardinality(Holding(q)') = Cardinality(Holding(q)) - 1
        /\ Cardinality(Holding(q)) >= 1
    BY <2>6, CountedSets, OneMoreOrLess
  <2>8. /\ depth[q] \in Nat /\ waiting[q] \in Nat /\ depth[q] <= MaxDepth /\ MaxDepth \in Nat
        /\ Cardinality(Holding(q)) \in Nat /\ Cardinality(Pushing(q)) \in Nat
        /\ depth[q] >= waiting[q] + Cardinality(Holding(q)) + Cardinality(Pushing(q))
    BY <1>1, CountsOf, Numbers
  <2>9. depth[q] - 1 \in 0 .. MaxDepth
    BY <2>7, <2>8
  <2>10. /\ depth' \in [Queues -> 0 .. MaxDepth]
         /\ \A x \in Queues : depth'[x] = IF x = q THEN depth[q] - 1 ELSE depth[x]
    <3>1. depth \in [Queues -> 0 .. MaxDepth]
      BY <1>1 DEF TypeOK
    <3> QED
      BY <1>1, <2>1, <2>9, <3>1, Replacing
  <2>11. Covered'
    <3>1. waiting' = waiting /\ Pushing(q)' = Pushing(q) /\ depth'[q] = depth[q] - 1
      BY <1>1, <1>2, <2>4, <2>10
    <3>2. depth'[q] >= waiting'[q] + Cardinality(Holding(q)') + Cardinality(Pushing(q)')
      BY <2>7, <2>8, <3>1
    <3> QED
      BY <1>1, <2>4, <2>5, <2>10, <3>1, <3>2, OneQueueChanges
  <2>12. TypeOK'
    BY <1>1, <1>2, <1>3, <2>2, <2>10 DEF TypeOK, Moves, ThreadTypes
  <2>13. Dequeuing'
    BY <1>3, <2>2 DEF IInv, TInv, Dequeuing, Moves, Threads
  <2>14. \A x \in Sessions : held'[x] <= created
    BY <1>1, <1>3, Ranges DEF IInv, TInv, Known
  <2> QED
    BY <1>1, <1>2, <2>2, <2>3, <2>11, <2>12, <2>13, <2>14, MessageStep
<1> QED
  BY <1>1, <1>4, <1>5

\* destroyed() gives back the depth of all that waits or is held, and leaves that of
\* what is about to be pushed.
LEMMA AbandonKeeps ==
    ASSUME IInv, NEW t \in Threads, Abandon(t)
    PROVE  IInv'
<1>1. PICK q : /\ q = at[t] /\ q \in Queues /\ q \in 1 .. created /\ q # 0
               /\ pc[t] = "abandon" /\ TypeOK /\ pc[t] \in Deleting
               /\ Covered /\ Fits(t, "abandon", q, using[t])
  BY HereFacts, Ranges DEF Abandon, Deleting, IInv, TInv
<1>2. UNCHANGED <<settings, registry, created, deleted, users, owner, used, store, tasks, latest>>
  BY DEF Abandon, Usage, Tasks
<1>3. Holding(q) = {s \in Sessions : held[s] = q}
  BY DEF Holding
<1>4. /\ waiting' = [waiting EXCEPT ![q] = 0]
      /\ held' = [s \in Sessions |-> IF held[s] = q THEN 0 ELSE held[s]]
      /\ depth' = [depth EXCEPT ![q] = depth[q] - waiting[q] - Cardinality(Holding(q))]
  BY <1>1, <1>3 DEF Abandon
<1>5. PICK l : /\ l \in {"drain", "barrier", "notify"} /\ Moves(t, l, q, using[t])
               /\ l = "drain" => Durable
               /\ l = "barrier" => store[q]
  <2>1. ASSUME NEW l \in {"drain", "barrier", "notify"}, Goto(t, l), Here(t)
        PROVE  Moves(t, l, q, using[t])
    BY <1>1, <2>1, Labels, GoesTo DEF Deleting
  <2> DEFINE some == waiting[q] + Cardinality(Holding(q)) > 0
  <2>2. Goto(t, IF Durable /\ some THEN "drain" ELSE IF store[q] THEN "barrier" ELSE "notify")
    BY <1>1, <1>3 DEF Abandon
  <2>3. Here(t)
    BY DEF Abandon
  <2> HIDE DEF some
  <2>4. CASE Durable /\ some
    BY <2>1, <2>2, <2>3, <2>4
  <2>5. CASE ~(Durable /\ some) /\ store[q]
    BY <2>1, <2>2, <2>3, <2>5
  <2>6. CASE ~(Durable /\ some) /\ ~store[q]
    BY <2>1, <2>2, <2>3, <2>6
  <2> QED
    BY <2>4, <2>5, <2>6
<1>6. Fits(t, l, q, using[t]) /\ l \in Deleting /\ l # "store destroy"
  BY <1>1, <1>5 DEF Fits, Deleting
<1>7. /\ held' \in [Sessions -> 0 .. MaxQueues]
      /\ \A x \in Sessions : held'[x] = IF held[x] = q THEN 0 ELSE held[x]
  BY <1>1, <1>4, Numbers DEF TypeOK
<1>8. \A x \in Queues \ {q} : Holding(x)' \subseteq Holding(x)
  BY <1>1, <1>7, Ranges DEF Holding
<1>9. Holding(q)' = {} /\ Cardinality({}) = 0
  BY <1>1, <1>7, FS_EmptySet DEF Holding
<1>10. \A x : Pushing(x)' = Pushing(x)
  BY <1>1, <1>5 DEF Pushing, Moves, Threads
<1>11. /\ depth[q] \in Nat /\ waiting[q] \in Nat /\ depth[q] <= MaxDepth /\ MaxDepth \in Nat
       /\ Cardinality(Holding(q)) \in Nat /\ Cardinality(Pushing(q)) \in Nat
       /\ depth[q] >= waiting[q] + Cardinality(Holding(q)) + Cardinality(Pushing(q))
  BY <1>1, CountsOf, Numbers
<1>12. PICK d : d = depth[q] - waiting[q] - Cardinality(Holding(q))
  OBVIOUS
<1>13. d \in 0 .. MaxDepth /\ 0 \in 0 .. MaxDepth /\ d >= Cardinality(Pushing(q))
  BY <1>11, <1>12
<1>14. /\ depth' \in [Queues -> 0 .. MaxDepth] /\ waiting' \in [Queues -> 0 .. MaxDepth]
       /\ \A x \in Queues : depth'[x] = IF x = q THEN d ELSE depth[x]
       /\ \A x \in Queues : waiting'[x] = IF x = q THEN 0 ELSE waiting[x]
  <2>1. depth \in [Queues -> 0 .. MaxDepth] /\ waiting \in [Queues -> 0 .. MaxDepth]
    BY <1>1 DEF TypeOK
  <2>2. depth' = [depth EXCEPT ![q] = d]
    BY <1>4, <1>12
  <2> QED
    BY <1>1, <1>4, <1>13, <2>1, <2>2, Replacing
<1>15. Covered'
  <2>1. waiting'[q] = 0 /\ depth'[q] = d /\ Pushing(q)' = Pushing(q) /\ Cardinality(Holding(q)') = 0
    BY <1>1, <1>9, <1>10, <1>14
  <2>2. depth'[q] >= waiting'[q] + Cardinality(Holding(q)') + Cardinality(Pushing(q)')
    BY <1>11, <1>13, <2>1
  <2> QED
    BY <1>1, <1>8, <1>10, <1>14, <2>2, OneQueueChanges
<1>16. TypeOK'
  BY <1>1, <1>2, <1>5, <1>7, <1>14 DEF TypeOK, Moves, ThreadTypes
<1>17. Dequeuing'
  BY <1>5, <1>7 DEF IInv, TInv, Dequeuing, Moves, Threads
<1>18. \A x \in Sessions : held'[x] <= created
  BY <1>1, <1>7, Ranges DEF IInv, TInv, Known
<1> QED
  BY <1>1, <1>2, <1>5, <1>6, <1>15, <1>16, <1>17, <1>18, MessageStep

----------------------------------------------------------------------------
(* Deleting: steps that change the queue, the registry or the store        *)

\* The queue is marked deleted by the thread that deletes it.
LEMMA MarkKeeps ==
    ASSUME IInv, NEW t \in Threads, NEW l \in Deleting, Moves(t, l, at[t], using[t]),
           at[t] \in 1 .. created, deleted' = [deleted EXCEPT ![at[t]] = TRUE],
           UNCHANGED <<settings, registry, created, users, owner, used, waiting, depth, held,
                       store, tasks, latest>>,
           Fits(t, l, at[t], using[t])', l # "store destroy",
           pc[t] \in Deleting \/ \A x \in Threads : ~IsDeleting(x, at[t])
    PROVE  IInv'
<1>1. TypeOK /\ at[t] \in Queues
  BY Ranges DEF IInv, TInv
<1>2. deleted' \in [Queues -> BOOLEAN] /\ \A q \in Queues : deleted[q] => deleted'[q]
  BY <1>1 DEF TypeOK
<1>3. TypeOK'
  BY <1>1, <1>2 DEF TypeOK, Moves, ThreadTypes
<1>4. l \notin {"idle", "dequeue", "store enqueue", "push"}
  BY DEF Deleting
<1>5. TInv'
  BY <1>3, <1>4, MessagesKept DEF IInv, TInv, Known
<1>6. DInv'
  <2>1. \A q \in Queues : tasks'[q] # << >> => Autodelete
    BY DEF IInv, DInv, TasksOK
  <2>2. /\ l \in Deleting => \/ pc[t] \in Deleting /\ at[t] = at[t]
                            \/ \A x \in Threads : ~IsDeleting(x, at[t])
        /\ pc[t] \in Deleting => (l \in Deleting /\ at[t] = at[t]) \/ deleted[at[t]]
        /\ using[t] \in {0, using[t]} \/ ~deleted[using[t]]
        /\ l = "store destroy" => \A x \in Threads : using'[x] # at[t]
    OBVIOUS
  <2>3. at'[t] = at[t] /\ using'[t] = using[t]
    BY DEF Moves
  <2> QED
    BY <1>2, <2>1, <2>2, <2>3, DeletionKept
<1> QED
  BY <1>5, <1>6 DEF IInv

\* Queue::tryAutoDelete marks a queue that still has its name and that no thread
\* deletes.
LEMMA TryAutoDeleteKeeps ==
    ASSUME IInv, NEW t \in Threads, TryAutoDelete(t)
    PROVE  IInv'
<1>1. /\ pc[t] = "try" /\ TypeOK /\ pc[t] \notin Deleting /\ "unregister" \in Deleting
      /\ at[t] \in Queues /\ at[t] \in 1 .. created /\ Fits(t, "try", at[t], using[t])
  BY HereFacts DEF TryAutoDelete, Deleting
<1>2. UNCHANGED <<settings, registry, created, users, owner, used, waiting, depth, held,
                  store, tasks, latest>>
  BY DEF TryAutoDelete, Usage, Messages, Tasks
<1>3. CASE Done(t) /\ UNCHANGED deleted
  <2>1. Moves(t, "idle", 0, 0) /\ Allowed(t, "idle", 0, 0)
    BY <1>1, <1>3, IsDone, DoneAllowed
  <2> QED
    BY <1>2, <1>3, <2>1, OnlyMoves
<1>4. CASE /\ ~deleted[at[t]] /\ Goto(t, "unregister") /\ Here(t)
           /\ deleted' = [deleted EXCEPT ![at[t]] = TRUE]
  <2>1. Moves(t, "unregister", at[t], using[t])
    BY <1>1, <1>4, Labels, GoesTo
  <2>2. Autodelete
    BY <1>1 DEF Fits
  <2>3. \A x \in Threads : ~IsDeleting(x, at[t])
    BY <1>4, <2>2 DEF IInv, DInv, ThreadOK, Fits, IsDeleting
  <2>4. registry = at[t]
    BY <1>1, <1>4, <2>3 DEF IInv, DInv, Registered
  <2>5. deleted'[at[t]]
    BY <1>1, <1>4 DEF TypeOK
  <2>6. Fits(t, "unregister", at[t], using[t])'
    <3>1. /\ at'[t] = at[t] /\ using'[t] = using[t] /\ Durable' = Durable
          /\ Autodelete' = Autodelete /\ store' = store /\ registry' = registry
      BY <1>2, <2>1 DEF Moves, Durable, Autodelete
    <3> QED
      BY <1>1, <2>2, <2>4, <2>5, <3>1 DEF Fits, Deleting
  <2>7. "unregister" # "store destroy"
    OBVIOUS
  <2> QED
    BY <1>1, <1>2, <1>4, <2>1, <2>3, <2>6, <2>7, MarkKeeps
<1> QED
  BY <1>3, <1>4 DEF TryAutoDelete

\* UsageBarrier::destroy marks the queue.
LEMMA BarrierDestroyKeeps ==
    ASSUME IInv, NEW t \in Threads, BarrierDestroy(t)
    PROVE  IInv'
<1>1. /\ pc[t] = "barrier" /\ TypeOK /\ pc[t] \in Deleting /\ "wait" \in Deleting
      /\ at[t] \in Queues /\ at[t] \in 1 .. created /\ Fits(t, "barrier", at[t], using[t])
  BY HereFacts DEF BarrierDestroy, Deleting
<1>2. /\ deleted' = [deleted EXCEPT ![at[t]] = TRUE]
      /\ UNCHANGED <<settings, registry, created, users, owner, used, waiting, depth, held,
                     store, tasks, latest>>
  BY DEF BarrierDestroy, Usage, Messages, Tasks
<1>3. Moves(t, "wait", at[t], using[t])
  BY <1>1, Labels, GoesTo DEF BarrierDestroy
<1>4. Fits(t, "wait", at[t], using[t])'
  <2>1. /\ at'[t] = at[t] /\ using'[t] = using[t] /\ Durable' = Durable /\ Deleters' = Deleters
        /\ Autodelete' = Autodelete /\ store' = store /\ registry' = registry
    BY <1>2, <1>3 DEF Moves, Durable, Autodelete, Deleters
  <2>2. deleted'[at[t]]
    BY <1>1, <1>2 DEF TypeOK
  <2> QED
    BY <1>1, <2>1, <2>2 DEF Fits, Deleting
<1> QED
  BY <1>1, <1>2, <1>3, <1>4, MarkKeeps

\* Queue::notifyDeleted marks the queue.
LEMMA NotifyDeletedKeeps ==
    ASSUME IInv, NEW t \in Threads, NotifyDeleted(t)
    PROVE  IInv'
<1>1. /\ pc[t] = "notify" /\ TypeOK /\ pc[t] \in Deleting /\ "reset" \in Deleting
      /\ at[t] \in Queues /\ at[t] \in 1 .. created /\ Fits(t, "notify", at[t], using[t])
  BY HereFacts DEF NotifyDeleted, Deleting
<1>2. /\ deleted' = [deleted EXCEPT ![at[t]] = TRUE]
      /\ UNCHANGED <<settings, registry, created, users, owner, used, waiting, depth, held,
                     store, tasks, latest>>
  BY DEF NotifyDeleted, Usage, Messages, Tasks
<1>3. Moves(t, "reset", at[t], using[t])
  BY <1>1, Labels, GoesTo DEF NotifyDeleted
<1>4. Fits(t, "reset", at[t], using[t])'
  <2>1. /\ at'[t] = at[t] /\ using'[t] = using[t] /\ Durable' = Durable /\ Deleters' = Deleters
        /\ Autodelete' = Autodelete /\ store' = store /\ registry' = registry
    BY <1>2, <1>3 DEF Moves, Durable, Autodelete, Deleters
  <2>2. deleted'[at[t]]
    BY <1>1, <1>2 DEF TypeOK
  <2> QED
    BY <1>1, <2>1, <2>2 DEF Fits, Deleting
<1> QED
  BY <1>1, <1>2, <1>3, <1>4, MarkKeeps

\* What does not change for the threads that do not move.
LEMMA OthersStay ==
    ASSUME IInv, NEW t \in Threads, NEW l, NEW a, NEW u, Moves(t, l, a, u),
           UNCHANGED <<settings, deleted>>,
           NEW x \in Threads \ {t},
           registry' = registry \/ (pc[x] # "unregister"
                                    /\ ~(pc[x] = "found" /\ ~Autodelete /\ x \in Deleters)),
           \A q \in {at[x], using[x]} \ {0} : store'[q] = store[q]
    PROVE  ThreadOK(x)'
<1>1. Fits(x, pc[x], at[x], using[x]) /\ (at[x] = 0 => pc[x] = "idle")
  BY HereFacts, Ranges
<1>2. /\ pc'[x] = pc[x] /\ at'[x] = at[x] /\ using'[x] = using[x] /\ Durable' = Durable
      /\ Autodelete' = Autodelete /\ Deleters' = Deleters /\ deleted' = deleted
  BY DEF Moves, Durable, Autodelete, Deleters
<1> QED
  BY <1>1, <1>2 DEF ThreadOK, Fits, Deleting

\* A queue is created only when no queue has the name.
LEMMA DeclareKeeps ==
    ASSUME IInv, NEW s \in Sessions, Declare(s)
    PROVE  IInv'
<1>1. /\ s \in Threads /\ pc[s] = "idle" /\ pc[s] \notin Deleting /\ TypeOK /\ using[s] = 0
      /\ registry = 0 /\ "found" \notin Deleting
  BY HereFacts DEF Declare, Threads, Deleting, IInv, TInv
<1>2. UNCHANGED <<settings, deleted, users, owner, used, waiting, depth, held, store, tasks, latest>>
  BY DEF Declare, Usage, Messages, Tasks
<1>3. PICK q : /\ q = created + 1 /\ created' = q /\ registry' = q
               /\ at' = [at EXCEPT ![s] = q]
  BY DEF Declare
<1>4. q \in Queues /\ q \in 0 .. MaxQueues /\ q # 0 /\ created \in Nat
  <2>1. settings.times \in 0 .. MaxQueues
    BY <1>1, LifecycleAssumption DEF TypeOK, QueueSettings
  <2>2. created < settings.times
    BY DEF Declare
  <2>3. created \in Nat /\ MaxQueues \in Nat
    BY <1>1, Ranges, Numbers
  <2> QED
    BY <1>3, <2>1, <2>2, <2>3 DEF Queues
<1>5. Moves(s, "found", q, 0)
  <2>1. /\ pc' = [pc EXCEPT ![s] = "found"] /\ using' = [using EXCEPT ![s] = 0]
        /\ task' = [task EXCEPT ![s] = task[s]]
    BY <1>1, Unmoved DEF Declare, Goto
  <2> QED
    BY <1>1, <1>3, <1>4, <2>1, Unmoved, Labels, Numbers, GoesAnywhere
<1>6. TypeOK'
  <2>1. registry' \in 0 .. created' /\ created' \in 0 .. MaxQueues
    BY <1>3, <1>4
  <2> QED
    BY <1>1, <1>2, <1>5, <2>1 DEF TypeOK, Moves, ThreadTypes
<1>7. TInv'
  <2>1. \A x \in Queues : Holding(x)' \subseteq Holding(x) /\ Pushing(x)' \subseteq Pushing(x)
    BY <1>1, <1>2, <1>5 DEF Holding, Pushing, Moves, Threads
  <2>2. Covered'
    BY <1>1, <1>2, <2>1, FewerMessages DEF IInv, TInv
  <2>3. Dequeuing'
    BY <1>1, <1>2, <1>5 DEF IInv, TInv, Dequeuing, Moves, Threads
  <2>4. \A n \in Nat : n <= created => n <= created'
    BY <1>3, <1>4
  <2>5. \A t \in Threads : pc'[t] # "idle" => at'[t] \in 1 .. created'
    <3>1. 1 .. created \subseteq 1 .. created' /\ q \in 1 .. created'
      BY <1>3, <1>4
    <3> QED
      BY <1>5, <3>1 DEF IInv, TInv, Known, Moves
  <2>6. \A x \in Sessions : held'[x] <= created'
    <3>1. \A x \in Sessions : held[x] \in Nat /\ held[x] <= created
      BY <1>1, Numbers DEF IInv, TInv, Known, TypeOK
    <3> QED
      BY <1>2, <2>4, <3>1
  <2>7. \A x \in Queues : users'[x] # {} \/ owner'[x] # {} \/ tasks'[x] # << >> => x <= created'
    <3>1. \A x \in Queues : x \in Nat
      BY <1>1, Ranges
    <3> QED
      BY <1>2, <2>4, <3>1 DEF IInv, TInv, Known
  <2> QED
    BY <1>6, <2>2, <2>3, <2>5, <2>6, <2>7 DEF TInv, Known
<1>8. \A x \in Threads : pc[x] # "idle" => at[x] \in 1 .. created /\ at[x] # registry
  BY <1>1, <1>4 DEF IInv, TInv, Known
<1>9. \A x \in Threads : ThreadOK(x)'
  <2>1. ASSUME NEW x \in Threads \ {s} PROVE ThreadOK(x)'
    <3>1. Fits(x, pc[x], at[x], using[x])
      BY DEF IInv, DInv, ThreadOK
    <3>2. pc[x] # "unregister" /\ ~(pc[x] = "found" /\ ~Autodelete /\ x \in Deleters)
      BY <1>8, <3>1 DEF Fits
    <3> QED
      BY <1>1, <1>2, <1>5, <3>2, OthersStay
  <2>2. ThreadOK(s)'
    <3>1. pc'[s] = "found" /\ at'[s] = q /\ using'[s] = 0 /\ registry' = q
      BY <1>3, <1>5 DEF Moves
    <3> QED
      BY <1>1, <3>1 DEF ThreadOK, Fits, Deleting
  <2> QED
    BY <2>1, <2>2
<1>10. /\ pc'[s] = "found"
       /\ \A x \in Threads \ {s} : pc'[x] = pc[x] /\ at'[x] = at[x] /\ using'[x] = using[x]
       /\ using'[s] = using[s]
  BY <1>1, <1>5 DEF Moves
<1>11. StoreOK' /\ TasksOK'
  BY <1>2 DEF IInv, DInv, StoreOK, TasksOK, Durable, Autodelete
<1>12. Unused'
  BY <1>1, <1>10 DEF IInv, DInv, Unused
<1>13. OneDeletes'
  BY <1>1, <1>10 DEF IInv, DInv, OneDeletes, IsDeleting
<1>14. Registered'
  <2> SUFFICES ASSUME NEW x \in 1 .. created', registry' # x
               PROVE  deleted'[x] \/ \E t \in Threads : IsDeleting(t, x)'
    BY DEF Registered
  <2>1. x \in 1 .. created /\ registry # x
    BY <1>1, <1>3, <1>4
  <2>2. deleted[x] \/ \E t \in Threads : IsDeleting(t, x)
    BY <2>1 DEF IInv, DInv, Registered
  <2> QED
    BY <1>1, <1>2, <1>10, <2>2 DEF IsDeleting
<1> QED
  BY <1>7, <1>9, <1>11, <1>12, <1>13, <1>14 DEF IInv, DInv

\* The name is taken from the queue that is deleted, and no other thread was
\* about to take it.
LEMMA UnregisterKeeps ==
    ASSUME SoleDeleter, IInv, NEW t \in Threads, Unregister(t)
    PROVE  IInv'
<1>1. /\ pc[t] = "unregister" /\ pc[t] \in Deleting /\ TypeOK /\ at[t] \in 1 .. created
      /\ Fits(t, "unregister", at[t], using[t]) /\ "abandon" \in Deleting
  BY HereFacts DEF Unregister, Deleting, IInv, TInv
<1>2. /\ registry' = 0
      /\ UNCHANGED <<settings, created, deleted, users, owner, used, waiting, depth, held, store,
                     tasks, latest>>
  BY DEF Unregister, Usage, Messages, Tasks
<1>3. Moves(t, "abandon", at[t], using[t])
  BY <1>1, Labels, GoesTo DEF Unregister
<1>4. 0 \in 0 .. created
  BY <1>1, Ranges
<1>5. TypeOK'
  BY <1>1, <1>2, <1>3, <1>4 DEF TypeOK, Moves, ThreadTypes
<1>6. TInv'
  BY <1>1, <1>2, <1>3, <1>5, MessagesKept DEF IInv, TInv, Known
<1>7. registry = at[t] /\ IF Autodelete THEN deleted[at[t]] ELSE t \in Deleters
  BY <1>1 DEF Fits
<1>8. \A x \in Threads : ThreadOK(x)'
  <2>1. ASSUME NEW x \in Threads \ {t} PROVE ThreadOK(x)'
    <3>1. Fits(x, pc[x], at[x], using[x])
      BY DEF IInv, DInv, ThreadOK
    <3>2. pc[x] # "unregister"
      BY <1>1, <1>7, <3>1 DEF Fits, IInv, DInv, OneDeletes, IsDeleting, Deleting
    <3>3. ~(pc[x] = "found" /\ ~Autodelete /\ x \in Deleters)
      BY <1>1, <1>7, SoleFacts
    <3> QED
      BY <1>1, <1>2, <1>3, <3>2, <3>3, OthersStay
  <2>2. ThreadOK(t)'
    <3>1. /\ pc'[t] = "abandon" /\ at'[t] = at[t] /\ using'[t] = using[t] /\ Durable' = Durable
          /\ Autodelete' = Autodelete /\ Deleters' = Deleters /\ deleted' = deleted /\ store' = store
      BY <1>2, <1>3 DEF Moves, Durable, Autodelete, Deleters
    <3> QED
      BY <1>1, <1>7, <3>1 DEF ThreadOK, Fits, Deleting
  <2> QED
    BY <2>1, <2>2
<1>9. /\ pc'[t] = "abandon" /\ at'[t] = at[t] /\ using'[t] = using[t]
      /\ \A x \in Threads \ {t} : pc'[x] = pc[x] /\ at'[x] = at[x] /\ using'[x] = using[x]
  BY <1>3 DEF Moves
<1>10. StoreOK' /\ TasksOK'
  BY <1>2 DEF IInv, DInv, StoreOK, TasksOK, Durable, Autodelete
<1>11. Unused'
  BY <1>1, <1>9 DEF IInv, DInv, Unused
<1>12. OneDeletes'
  BY <1>1, <1>9 DEF IInv, DInv, OneDeletes, IsDeleting
<1>13. Registered'
  BY <1>1, <1>2, <1>7, <1>9 DEF IInv, DInv, Registered, IsDeleting
<1> QED
  BY <1>6, <1>8, <1>10, <1>11, <1>12, <1>13 DEF IInv, DInv

\* When the record in the store goes, nobody uses the queue.
LEMMA StoreDestroyKeeps ==
    ASSUME IInv, NEW t \in Threads, StoreDestroy(t)
    PROVE  IInv'
<1>1. /\ pc[t] = "store destroy" /\ pc[t] \in Deleting /\ TypeOK /\ at[t] \in 1 .. created
      /\ Fits(t, "store destroy", at[t], using[t]) /\ "notify" \in Deleting /\ at[t] \in Queues
  BY HereFacts DEF StoreDestroy, Deleting, IInv, TInv
<1>2. /\ store' = [store EXCEPT ![at[t]] = FALSE]
      /\ UNCHANGED <<settings, registry, created, deleted, users, owner, used, waiting, depth, held,
                     tasks, latest>>
  BY DEF StoreDestroy, Usage, Messages, Tasks
<1>3. Moves(t, "notify", at[t], using[t])
  BY <1>1, Labels, GoesTo DEF StoreDestroy
<1>4. /\ store' \in [Queues -> BOOLEAN]
      /\ \A q \in Queues : q # at[t] => store'[q] = store[q]
  BY <1>1, <1>2 DEF TypeOK
<1>5. TypeOK'
  BY <1>1, <1>2, <1>3, <1>4 DEF TypeOK, Moves, ThreadTypes
<1>6. TInv'
  BY <1>1, <1>2, <1>3, <1>5, MessagesKept DEF IInv, TInv, Known
<1>7. \A x \in Threads : using[x] # at[t]
  BY <1>1 DEF IInv, DInv, Unused
<1>8. \A x \in Threads : ThreadOK(x)'
  <2>1. ASSUME NEW x \in Threads \ {t} PROVE ThreadOK(x)'
    <3>1. Fits(x, pc[x], at[x], using[x])
      BY DEF IInv, DInv, ThreadOK
    <3>2. /\ using[x] # 0 => store'[using[x]] = store[using[x]]
          /\ at[x] \notin {0, at[t]} => store'[at[x]] = store[at[x]]
      <4>1. using[x] \in 0 .. MaxQueues /\ at[x] \in 0 .. MaxQueues
        BY <1>1, Unmoved
      <4>2. (using[x] # 0 => using[x] \in Queues) /\ (at[x] # 0 => at[x] \in Queues)
        BY <4>1, Numbers DEF Queues
      <4> QED
        BY <1>4, <1>7, <4>2
    <3>3. CASE at[x] # at[t]
      BY <1>1, <1>2, <1>3, <1>4, <3>2, <3>3, OthersStay
    <3>4. CASE at[x] = at[t]
      <4>1. pc[x] \notin Deleting
        BY <1>1, <3>4 DEF IInv, DInv, OneDeletes, IsDeleting
      <4>2. /\ pc'[x] = pc[x] /\ at'[x] = at[x] /\ using'[x] = using[x] /\ Durable' = Durable
            /\ Autodelete' = Autodelete /\ Deleters' = Deleters /\ deleted' = deleted
            /\ registry' = registry
        BY <1>2, <1>3 DEF Moves, Durable, Autodelete, Deleters
      <4> QED
        BY <3>1, <3>2, <4>1, <4>2 DEF ThreadOK, Fits, Deleting
    <3> QED
      BY <3>3, <3>4
  <2>2. ThreadOK(t)'
    <3>1. /\ pc'[t] = "notify" /\ at'[t] = at[t] /\ using'[t] = using[t] /\ Durable' = Durable
          /\ Autodelete' = Autodelete /\ Deleters' = Deleters /\ deleted' = deleted
      BY <1>2, <1>3 DEF Moves, Durable, Autodelete, Deleters
    <3>2. using[t] = 0
      BY <1>1, <1>7 DEF Fits
    <3> QED
      BY <1>1, <3>1, <3>2 DEF ThreadOK, Fits, Deleting
  <2> QED
    BY <2>1, <2>2
<1>9. /\ pc'[t] = "notify" /\ at'[t] = at[t] /\ using'[t] = using[t]
      /\ \A x \in Threads \ {t} : pc'[x] = pc[x] /\ at'[x] = at[x] /\ using'[x] = using[x]
  BY <1>3 DEF Moves
<1>10. StoreOK' /\ TasksOK'
  <2>1. deleted[at[t]] /\ ~store'[at[t]]
    BY <1>1, <1>2 DEF Fits, TypeOK
  <2> QED
    BY <1>2, <1>4, <2>1 DEF IInv, DInv, StoreOK, TasksOK, Durable, Autodelete
<1>11. Unused'
  BY <1>1, <1>9 DEF IInv, DInv, Unused
<1>12. OneDeletes'
  BY <1>1, <1>9 DEF IInv, DInv, OneDeletes, IsDeleting
<1>13. Registered'
  <2> SUFFICES ASSUME NEW x \in 1 .. created, registry # x, ~deleted[x]
               PROVE  \E y \in Threads : IsDeleting(y, x)'
    BY <1>2 DEF Registered
  <2>1. PICK y \in Threads : IsDeleting(y, x)
    BY DEF IInv, DInv, Registered
  <2>2. IsDeleting(y, x)'
    BY <1>1, <1>9, <2>1 DEF IsDeleting
  <2> QED
    BY <2>2
<1> QED
  BY <1>6, <1>8, <1>10, <1>11, <1>12, <1>13 DEF IInv, DInv

----------------------------------------------------------------------------
(* The theorems                                                            *)

\* A queue object has nothing on it, no users and no tasks before it is created.
LEMMA StartsInvariant == Init => IInv
<1> SUFFICES ASSUME Init PROVE IInv
  OBVIOUS
<1>1. /\ settings \in Settings /\ registry = 0 /\ created = 0
      /\ deleted = [q \in Queues |-> FALSE]
      /\ users = [q \in Queues |-> {}] /\ owner = [q \in Queues |-> {}]
      /\ waiting = [q \in Queues |-> 0] /\ depth = [q \in Queues |-> 0]
      /\ held = [s \in Sessions |-> 0]
      /\ store = [q \in Queues |-> Durable]
      /\ tasks = [q \in Queues |-> << >>] /\ latest = [q \in Queues |-> 0]
      /\ used = [q \in Queues |-> FALSE]
      /\ pc = [t \in Threads |-> "idle"]
      /\ at = [t \in Threads |-> 0] /\ using = [t \in Threads |-> 0]
      /\ task = [t \in Threads |-> 0]
  BY DEF Init
<1>2. "idle" \in PCs /\ "idle" \notin Deleting /\ Durable \in BOOLEAN
  BY <1>1, LifecycleAssumption DEF PCs, Deleting, Durable, QueueSettings
<1>3. Cardinality({}) = 0
  BY FS_EmptySet
<1>4. << >> \in Seq(1 .. MaxTasks)
  BY EmptySeq
<1>5. TypeOK
  BY <1>1, <1>2, <1>3, <1>4, Numbers DEF TypeOK
<1>6. Covered
  <2>1. \A q \in Queues : Holding(q) = {} /\ Pushing(q) = {}
    BY <1>1, <1>5, Ranges DEF Holding, Pushing, Threads
  <2>2. \A q \in Queues : depth[q] = 0 /\ waiting[q] = 0
    BY <1>1
  <2> QED
    BY <1>3, <2>1, <2>2 DEF Covered
<1>7. Dequeuing
  BY <1>1 DEF Dequeuing, Threads
<1>8. Known
  BY <1>1 DEF Known
<1>9. \A t \in Threads : ThreadOK(t)
  BY <1>1, <1>2 DEF ThreadOK, Fits, Deleting
<1>10. StoreOK
  BY <1>1 DEF StoreOK
<1>11. Unused /\ OneDeletes /\ TasksOK
  BY <1>1, <1>2 DEF Unused, OneDeletes, TasksOK
<1>12. Registered
  BY <1>1 DEF Registered
<1> QED
  BY <1>5, <1>6, <1>7, <1>8, <1>9, <1>10, <1>11, <1>12 DEF IInv, TInv, DInv

\* A stuttering step changes nothing.
LEMMA StuttersKeep ==
    ASSUME IInv, UNCHANGED vars
    PROVE  IInv'
<1>1. /\ settings' = settings /\ registry' = registry /\ created' = created /\ deleted' = deleted
      /\ users' = users /\ owner' = owner /\ waiting' = waiting /\ depth' = depth /\ held' = held
      /\ store' = store /\ tasks' = tasks /\ latest' = latest /\ used' = used
      /\ pc' = pc /\ at' = at /\ using' = using /\ task' = task
  BY DEF vars
<1>2. TypeOK'
  BY <1>1 DEF IInv, TInv, TypeOK
<1>3. Covered'
  <2>1. \A q : Holding(q)' = Holding(q) /\ Pushing(q)' = Pushing(q)
    BY <1>1 DEF Holding, Pushing
  <2> QED
    BY <1>1, <2>1, FewerMessages DEF IInv, TInv
<1>4. Dequeuing' /\ Known'
  BY <1>1 DEF IInv, TInv, Dequeuing, Known
<1>5. \A t \in Threads : ThreadOK(t)'
  BY <1>1 DEF IInv, DInv, ThreadOK, Fits, Durable, Autodelete, Deleters
<1>6. StoreOK' /\ Unused' /\ TasksOK'
  BY <1>1 DEF IInv, DInv, StoreOK, Unused, TasksOK, Durable, Autodelete
<1>7. OneDeletes' /\ Registered'
  BY <1>1 DEF IInv, DInv, OneDeletes, Registered, IsDeleting
<1> QED
  BY <1>2, <1>3, <1>4, <1>5, <1>6, <1>7 DEF IInv, TInv, DInv

\* What a client chooses to do keeps the invariant.
LEMMA ClientKeeps ==
    ASSUME SoleDeleter, IInv, NEW s \in Sessions, Client(s)
    PROVE  IInv'
<1>1. CASE Declare(s)
  BY <1>1, DeclareKeeps
<1>2. CASE Find(s)
  BY <1>2, FindKeeps
<1>3. CASE Subscribe(s)
  BY <1>3, SubscribeKeeps
<1>4. CASE OwnBegin(s)
  BY <1>4, OwnBeginKeeps
<1>5. CASE Enqueue(s)
  BY <1>5, EnqueueKeeps
<1>6. CASE Accept(s)
  BY <1>6, AcceptKeeps
<1>7. CASE \E ifUnused, ifEmpty \in BOOLEAN : CheckDelete(s, ifUnused, ifEmpty)
  BY <1>7, CheckDeleteKeeps
<1>8. ASSUME NEW q \in Queues, Cancel(s, q) \/ Disown(s, q) \/ Get(s, q)
      PROVE  IInv'
  BY <1>8, CancelKeeps, DisownKeeps, GetKeeps
<1> QED
  BY <1>1, <1>2, <1>3, <1>4, <1>5, <1>6, <1>7, <1>8 DEF Client

\* So does what its thread then goes through.
LEMMA CommandKeeps ==
    ASSUME IInv, NEW s \in Sessions, Command(s)
    PROVE  IInv'
<1>1. CASE Consume(s)
  BY <1>1, ConsumeKeeps
<1>2. CASE CancelTask(s)
  BY <1>2, CancelTaskKeeps
<1>3. CASE Own(s)
  BY <1>3, OwnKeeps
<1>4. CASE Reserve(s)
  BY <1>4, ReserveKeeps
<1>5. CASE StoreEnqueue(s)
  BY <1>5, StoreEnqueueKeeps
<1>6. CASE Push(s)
  BY <1>6, PushKeeps
<1>7. CASE Dequeue(s)
  BY <1>7, DequeueKeeps
<1>8. CASE StoreDequeue(s)
  BY <1>8, StoreDequeueKeeps
<1>9. CASE Schedule(s)
  BY <1>9, ScheduleKeeps
<1>10. CASE Arm(s)
  BY <1>10, ArmKeeps
<1> QED
  BY <1>1, <1>2, <1>3, <1>4, <1>5, <1>6, <1>7, <1>8, <1>9, <1>10 DEF Command

\* And so does the deletion of a queue.
LEMMA DeleteKeeps ==
    ASSUME SoleDeleter, IInv, NEW t \in Threads, Delete(t)
    PROVE  IInv'
<1>1. CASE TryAutoDelete(t)
  BY <1>1, TryAutoDeleteKeeps
<1>2. CASE Unregister(t)
  BY <1>2, UnregisterKeeps
<1>3. CASE Abandon(t)
  BY <1>3, AbandonKeeps
<1>4. CASE Drain(t)
  BY <1>4, DrainKeeps
<1>5. CASE StoreDrain(t)
  BY <1>5, StoreDrainKeeps
<1>6. CASE BarrierDestroy(t)
  BY <1>6, BarrierDestroyKeeps
<1>7. CASE BarrierWait(t)
  BY <1>7, BarrierWaitKeeps
<1>8. CASE StoreDestroy(t)
  BY <1>8, StoreDestroyKeeps
<1>9. CASE NotifyDeleted(t)
  BY <1>9, NotifyDeletedKeeps
<1>10. CASE ResetTask(t)
  BY <1>10, ResetTaskKeeps
<1> QED
  BY <1>1, <1>2, <1>3, <1>4, <1>5, <1>6, <1>7, <1>8, <1>9, <1>10 DEF Delete

\* Every step keeps the invariant.
LEMMA StepKeeps ==
    ASSUME SoleDeleter, IInv, [Next]_vars
    PROVE  IInv'
<1>1. ASSUME NEW s \in Sessions, Client(s) \/ Command(s) PROVE IInv'
  BY <1>1, ClientKeeps, CommandKeeps
<1>2. ASSUME NEW t \in Threads, Delete(t) PROVE IInv'
  BY <1>2, DeleteKeeps
<1>3. ASSUME NEW q \in Queues, Fire(q) PROVE IInv'
  BY <1>3, FireKeeps
<1> QED
  BY <1>1, <1>2, <1>3, StuttersKeep DEF Next

\* The inductive invariant: which use each thread holds and what its step says
\* of its queue, one thread that deletes a queue, a depth that covers what is
\* on it.
THEOREM Inductive ==
    ASSUME SoleDeleter
    PROVE  Spec => []IInv
<1>1. Init => IInv
  BY StartsInvariant
<1>2. IInv /\ [Next]_vars => IInv'
  BY StepKeeps
<1> QED
  BY <1>1, <1>2, PTL DEF Spec

\* NoLateStoreCall holds of any number of sessions and queues: no thread calls
\* the store for a queue whose record destroyed() has removed (Queue::store is
\* a null pointer then), because UsageBarrier::destroy has waited for every
\* ScopedUse, and the steps that call the store hold one.
THEOREM NoLateCall ==
    ASSUME SoleDeleter
    PROVE  Spec => []NoLateStoreCall
<1>1. IInv => NoLateStoreCall
  <2> SUFFICES ASSUME IInv, NEW t \in Threads,
                      pc[t] \in {"store enqueue", "store dequeue", "store dequeue last",
                                 "store drain", "store destroy"}
               PROVE  store[at[t]]
    BY DEF NoLateStoreCall
  <2>1. Fits(t, pc[t], at[t], using[t]) /\ at[t] \in Queues
    BY HereFacts
  <2>2. at[t] # 0
    BY <2>1, Ranges DEF IInv, TInv
  <2> QED
    BY <2>1, <2>2 DEF Fits
<1> QED
  BY <1>1, Inductive, PTL

\* LiveIsRegistered holds of any number of sessions and queues: when
\* QueueRegistry::destroy forgets a name, the queue that had it is the one
\* being deleted, never a new queue declared under the same name.
THEOREM NamesAreKept ==
    ASSUME SoleDeleter
    PROVE  Spec => []LiveIsRegistered
<1>1. IInv => LiveIsRegistered
  BY DEF IInv, TInv, DInv, Registered, LiveIsRegistered, IsDeleting
<1> QED
  BY <1>1, Inductive, PTL
=============================================================================
