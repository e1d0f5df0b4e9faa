---------------------------- MODULE QueueLifecycle ----------------------------
(***************************************************************************)
(* The life of the queues of one name: QueueRegistry, Broker::createQueue  *)
(* and deleteQueue, auto-deletion with and without a delay, the            *)
(* UsageBarrier that guards the store, and Queue::destroyed.  A queue that *)
(* is deleted and declared again is another Queue object, so the state is  *)
(* kept per object; threads hold shared_ptrs to objects that the registry  *)
(* has forgotten.                                                          *)
(*                                                                         *)
(* Each action is one critical section (of the registry's lock, of         *)
(* messageLock or of usageLock) or one call of the store.  Messages are    *)
(* counted, not numbered: MessageQueue models them.  The subscriptions are *)
(* acquiring ones with explicit accept; a session acquires at most one     *)
(* message at a time.                                                      *)
(***************************************************************************)
EXTENDS Integers, FiniteSets, SequencesExt

CONSTANTS
    Sessions,    \* client sessions, one thread each
    Settings,    \* the settings a queue may be declared with
    MaxQueues,   \* bound: queues created under the name
    MaxDepth,    \* settings.maxDepth, enforced by a policy that refuses
    MaxTasks     \* bound: auto-delete tasks of a queue at one time

\* The QueueSettings of the queues, what store they have and who deletes them.
QueueSettings ==
    [autodelete : BOOLEAN,
     lifetime : {"unused", "unused and empty"},
     delay : BOOLEAN,              \* is there an autoDeleteDelay?
     durable : BOOLEAN,            \* has the queue a store?
     failing : BOOLEAN,            \* may the store refuse an enqueue?
     deleters : SUBSET Sessions,   \* the sessions whose clients send queue.delete
     times : 0 .. MaxQueues]       \* bound: how often such a queue is declared anew

ASSUME LifecycleAssumption ==
    /\ IsFiniteSet(Sessions) /\ "timer" \notin Sessions
    /\ Settings \subseteq QueueSettings
    /\ {MaxQueues, MaxDepth, MaxTasks} \subseteq Nat

VARIABLES
    settings,   \* Queue::settings, the same for every queue of the name
    registry,   \* the queue QueueRegistry::queues holds under the name, 0 if none
    created,    \* how many queues have been created
    deleted,    \* Queue::deleted
    users,      \* the sessions subscribed to each queue (QueueUsers::consumers)
    owner,      \* Queue::owner: the set of at most one owner
    waiting,    \* messages on the queue nobody has acquired
    depth,      \* Queue::current
    held,       \* the queue of the message each session has acquired, 0 if none
    store,      \* is the store still open for the queue?
    tasks,      \* the auto-delete tasks of the queue in the Timer, oldest first
    latest,     \* Queue::autoDeleteTask, 0 if none
    used,       \* history: has the queue ever had a user?
    pc,         \* what each thread does next
    at,         \* the queue it does it to
    using,      \* the queue it holds a ScopedUse of, 0 if none
    task        \* the task it cancels, or the Timer runs

vars == <<settings, registry, created, deleted, users, owner, waiting, depth, held, store,
          tasks, latest, used, pc, at, using, task>>

Autodelete == settings.autodelete
Lifetime == settings.lifetime
Delay == settings.delay
Durable == settings.durable
Failing == settings.failing
Deleters == settings.deleters

Queues == 1 .. MaxQueues
Threads == Sessions \cup {"timer"}

\* The steps of destroyed() and of what comes before it.
Deleting == {"unregister", "abandon", "drain", "store drain", "barrier", "wait",
             "store destroy", "notify", "reset"}

PCs == Deleting \cup {"idle", "found", "consume", "cancel task", "own", "reserve", "store enqueue",
                      "push", "dequeue", "store dequeue", "store dequeue last", "schedule", "arm",
                      "try"}

TypeOK ==
    /\ settings \in Settings
    /\ registry \in 0 .. created /\ created \in 0 .. MaxQueues
    /\ deleted \in [Queues -> BOOLEAN]
    /\ users \in [Queues -> SUBSET Sessions]
    /\ owner \in [Queues -> SUBSET Sessions] /\ \A q \in Queues : Cardinality(owner[q]) <= 1
    /\ waiting \in [Queues -> 0 .. MaxDepth] /\ depth \in [Queues -> 0 .. MaxDepth]
    /\ held \in [Sessions -> 0 .. MaxQueues]
    /\ store \in [Queues -> BOOLEAN]
    /\ tasks \in [Queues -> Seq(1 .. MaxTasks)]
    /\ latest \in [Queues -> 0 .. MaxTasks]
    /\ used \in [Queues -> BOOLEAN]
    /\ pc \in [Threads -> PCs]
    /\ at \in [Threads -> 0 .. MaxQueues] /\ using \in [Threads -> 0 .. MaxQueues]
    /\ task \in [Threads -> 0 .. MaxTasks]

Init ==
    /\ settings \in Settings
    /\ registry = 0 /\ created = 0
    /\ deleted = [q \in Queues |-> FALSE]
    /\ users = [q \in Queues |-> {}] /\ owner = [q \in Queues |-> {}]
    /\ waiting = [q \in Queues |-> 0] /\ depth = [q \in Queues |-> 0]
    /\ held = [s \in Sessions |-> 0]
    /\ store = [q \in Queues |-> Durable]
    /\ tasks = [q \in Queues |-> << >>] /\ latest = [q \in Queues |-> 0]
    /\ used = [q \in Queues |-> FALSE]
    /\ pc = [t \in Threads |-> "idle"]
    /\ at = [t \in Threads |-> 0] /\ using = [t \in Threads |-> 0]
    /\ task = [t \in Threads |-> 0]

Goto(t, l) == pc' = [pc EXCEPT ![t] = l]

\* The thread is done: its ScopedUse, if it has one, goes out of scope, and a
\* Timer callback returns.
Done(t) ==
    /\ Goto(t, "idle")
    /\ at' = [at EXCEPT ![t] = 0]
    /\ using' = [using EXCEPT ![t] = 0]
    /\ task' = [task EXCEPT ![t] = 0]

Here(t) == UNCHANGED <<at, using, task>>

Messages == <<waiting, depth, held>>
Usage == <<users, owner, used>>
Tasks == <<tasks, latest>>

----------------------------------------------------------------------------
(* Conditions, as the code evaluates them under messageLock                *)

isUnused(q) == owner[q] = {} /\ users[q] = {}

isEmpty(q) == depth[q] = 0

checkAutoDelete(q) == Autodelete /\ isUnused(q) /\ (Lifetime = "unused" \/ isEmpty(q))

----------------------------------------------------------------------------
(* Finding the queue                                                       *)

\* QueueRegistry::declare of a new queue, which creates its record in the store.
Declare(s) ==
    /\ pc[s] = "idle" /\ registry = 0 /\ created < settings.times
    /\ created' = created + 1
    /\ registry' = created + 1
    /\ at' = [at EXCEPT ![s] = created + 1]
    /\ Goto(s, "found")
    /\ UNCHANGED <<settings, deleted, Usage, Messages, store, Tasks, using, task>>

\* QueueRegistry::find, or declare of a queue that exists.
Find(s) ==
    /\ pc[s] = "idle" /\ registry # 0
    /\ at' = [at EXCEPT ![s] = registry]
    /\ Goto(s, "found")
    /\ UNCHANGED <<settings, registry, created, deleted, Usage, Messages, store, Tasks, using, task>>

----------------------------------------------------------------------------
(* Using and leaving the queue                                             *)

\* message.subscribe is refused when the queue is exclusive to another session ...
Subscribe(s) ==
    /\ pc[s] = "found" /\ \A q \in Queues : s \notin users[q]
    /\ IF owner[at[s]] \subseteq {s} THEN Goto(s, "consume") /\ Here(s) ELSE Done(s)
    /\ UNCHANGED <<settings, registry, created, deleted, Usage, Messages, store, Tasks>>

\* ... and then Queue::consume does not ask again, nor whether the queue has been
\* deleted.  The delayed task is cancelled after messageLock is released.
Consume(s) ==
    /\ pc[s] = "consume"
    /\ users' = [users EXCEPT ![at[s]] = @ \cup {s}]
    /\ used' = [used EXCEPT ![at[s]] = TRUE]
    /\ IF latest[at[s]] # 0
       THEN Goto(s, "cancel task") /\ task' = [task EXCEPT ![s] = latest[at[s]]]
            /\ UNCHANGED <<at, using>>
       ELSE Done(s)
    /\ UNCHANGED <<settings, registry, created, deleted, owner, Messages, store, Tasks>>

\* TimerTask::cancel waits for a callback that is running.
NotFiring(q, n) == ~(at["timer"] = q /\ task["timer"] = n)

\* The tasks s without task n, if it is still among them.
cancelled(s, n) ==
    IF n \in Range(s) THEN RemoveAt(s, CHOOSE i \in DOMAIN s : s[i] = n) ELSE s

CancelTask(s) ==
    /\ pc[s] = "cancel task" /\ NotFiring(at[s], task[s])
    /\ tasks' = [tasks EXCEPT ![at[s]] = cancelled(@, task[s])]
    /\ Done(s)
    /\ UNCHANGED <<settings, registry, created, deleted, Usage, Messages, store, latest>>

\* Queue::setExclusiveOwner cancels the task before it takes the lock ...
OwnBegin(s) ==
    /\ pc[s] = "found" /\ NotFiring(at[s], latest[at[s]])
    /\ tasks' = [tasks EXCEPT ![at[s]] = cancelled(@, latest[at[s]])]
    /\ Goto(s, "own") /\ Here(s)
    /\ UNCHANGED <<settings, registry, created, deleted, Usage, Messages, store, latest>>

\* ... and refuses when the queue is owned or has consumers.
Own(s) ==
    /\ pc[s] = "own"
    /\ IF isUnused(at[s])
       THEN /\ owner' = [owner EXCEPT ![at[s]] = {s}]
            /\ used' = [used EXCEPT ![at[s]] = TRUE]
       ELSE UNCHANGED <<owner, used>>
    /\ Done(s)
    /\ UNCHANGED <<settings, registry, created, deleted, users, Messages, store, Tasks>>

\* Task numbers the queue has free.
Idle(q) == (1 .. MaxTasks) \ ({latest[q]} \cup Range(tasks[q])
                               \cup {task[t] : t \in {u \in Threads : at[u] = q}})

\* Bound: a client takes no step that may end in Arm unless there is a task
\* number for it, so that Arm never waits for one.
Room(q) ==
    Delay => Cardinality(Idle(q)) >
                 Cardinality({s \in Sessions : at[s] = q /\ pc[s] \in {"dequeue", "store dequeue",
                                                  "store dequeue last", "schedule", "arm"}})

\* The end of Queue::cancel and of releaseExclusiveOwnership.
Leave(s, q, nobody) ==
    IF nobody /\ Autodelete
    THEN Goto(s, "schedule") /\ at' = [at EXCEPT ![s] = q] /\ UNCHANGED <<using, task>>
    ELSE UNCHANGED <<pc, at, using, task>>

Cancel(s, q) ==
    /\ pc[s] = "idle" /\ s \in users[q] /\ Room(q)
    /\ users' = [users EXCEPT ![q] = @ \ {s}]
    /\ Leave(s, q, users[q] = {s})
    /\ UNCHANGED <<settings, registry, created, deleted, owner, used, Messages, store, Tasks>>

Disown(s, q) ==
    /\ pc[s] = "idle" /\ s \in owner[q] /\ Room(q)
    /\ owner' = [owner EXCEPT ![q] = {}]
    /\ Leave(s, q, users[q] = {})
    /\ UNCHANGED <<settings, registry, created, deleted, users, used, Messages, store, Tasks>>

----------------------------------------------------------------------------
(* Messages                                                                *)

\* ScopedUse: UsageBarrier::acquire fails once the queue is marked deleted.
Use(t, q, l) ==
    IF deleted[q] THEN Done(t)
    ELSE /\ using' = [using EXCEPT ![t] = q]
         /\ at' = [at EXCEPT ![t] = q]
         /\ Goto(t, l) /\ UNCHANGED task

\* Queue::enqueue ...
Enqueue(s) ==
    /\ pc[s] = "found"
    /\ Use(s, at[s], "reserve")
    /\ UNCHANGED <<settings, registry, created, deleted, Usage, Messages, store, Tasks>>

\* ... reserves the depth if the queue is not full, and releases the use when
\* there is no store ...
Reserve(s) ==
    /\ pc[s] = "reserve"
    /\ IF depth[at[s]] = MaxDepth
       THEN Done(s) /\ UNCHANGED depth
       ELSE /\ depth' = [depth EXCEPT ![at[s]] = @ + 1]
            /\ Goto(s, IF Durable THEN "store enqueue" ELSE "push")
            /\ using' = [using EXCEPT ![s] = IF Durable THEN @ ELSE 0]
            /\ UNCHANGED <<at, task>>
    /\ UNCHANGED <<settings, registry, created, deleted, Usage, waiting, held, store, Tasks>>

\* ... or after store->enqueue(), which may throw ...
StoreEnqueue(s) ==
    /\ pc[s] = "store enqueue"
    /\ \/ /\ Goto(s, "push")
          /\ using' = [using EXCEPT ![s] = 0]
          /\ UNCHANGED <<depth, at, task>>
       \/ /\ Failing
          /\ depth' = [depth EXCEPT ![at[s]] = @ - 1]
          /\ Done(s)
    /\ UNCHANGED <<settings, registry, created, deleted, Usage, waiting, held, store, Tasks>>

\* ... and Queue::push puts the message on the queue without a use of it.
Push(s) ==
    /\ pc[s] = "push"
    /\ waiting' = [waiting EXCEPT ![at[s]] = @ + 1]
    /\ Done(s)
    /\ UNCHANGED <<settings, registry, created, deleted, Usage, depth, held, store, Tasks>>

\* Queue::getNextMessage gives a subscription a message of a queue that is not
\* deleted.
Get(s, q) ==
    /\ pc[s] = "idle" /\ s \in users[q] /\ held[s] = 0
    /\ ~deleted[q] /\ waiting[q] > 0
    /\ waiting' = [waiting EXCEPT ![q] = @ - 1]
    /\ held' = [held EXCEPT ![s] = q]
    /\ UNCHANGED <<settings, registry, created, deleted, Usage, depth, store, Tasks, pc, at, using, task>>

\* Queue::dequeue, of a message that may outlive its subscription ...
Accept(s) ==
    /\ pc[s] = "idle" /\ held[s] # 0 /\ Room(held[s])
    /\ Use(s, held[s], "dequeue")
    /\ held' = IF deleted[held[s]] THEN [held EXCEPT ![s] = 0] ELSE held
    /\ UNCHANGED <<settings, registry, created, deleted, Usage, waiting, depth, store, Tasks>>

\* ... finds nothing if destroyed() has removed the message; observeDequeue
\* decides whether the queue may now go ...
AfterDequeue(s, eligible) ==
    IF eligible THEN Goto(s, "schedule") /\ Here(s) ELSE Done(s)

Dequeue(s) ==
    /\ pc[s] = "dequeue"
    /\ held' = [held EXCEPT ![s] = 0]
    /\ IF held[s] = 0
       THEN Done(s) /\ UNCHANGED depth
       ELSE /\ depth' = [depth EXCEPT ![at[s]] = @ - 1]
            /\ LET eligible == Autodelete /\ depth[at[s]] = 1 /\ isUnused(at[s])
               IN  IF Durable
                   THEN Goto(s, IF eligible THEN "store dequeue last" ELSE "store dequeue") /\ Here(s)
                   ELSE AfterDequeue(s, eligible)
    /\ UNCHANGED <<settings, registry, created, deleted, Usage, waiting, store, Tasks>>

\* ... and the ScopedAutoDelete is destroyed before the ScopedUse.
StoreDequeue(s) ==
    /\ pc[s] \in {"store dequeue", "store dequeue last"}
    /\ AfterDequeue(s, pc[s] = "store dequeue last")
    /\ UNCHANGED <<settings, registry, created, deleted, Usage, Messages, store, Tasks>>

----------------------------------------------------------------------------
(* Auto-deletion                                                           *)

\* Mutant: no second task is made.
ScheduleOnce(t) ==
    /\ pc[t] = "schedule"
    /\ IF ~deleted[at[t]] /\ checkAutoDelete(at[t]) /\ latest[at[t]] = 0
       THEN Goto(t, IF Delay THEN "arm" ELSE "try") /\ Here(t)
       ELSE Done(t)
    /\ UNCHANGED <<settings, registry, created, deleted, Usage, Messages, store, Tasks>>

\* Queue::scheduleAutoDelete: canAutoDelete() ...
Schedule(t) ==
    /\ pc[t] = "schedule"
    /\ IF ~deleted[at[t]] /\ checkAutoDelete(at[t])
       THEN Goto(t, IF Delay THEN "arm" ELSE "try") /\ Here(t)
       ELSE Done(t)
    /\ UNCHANGED <<settings, registry, created, deleted, Usage, Messages, store, Tasks>>

\* ... then a new task for the Timer, in place of the one before: n is the least
\* number free.
Arm(t) ==
    /\ pc[t] = "arm"
    /\ \E n \in Idle(at[t]) :
         /\ \A k \in Idle(at[t]) : n <= k
         /\ latest' = [latest EXCEPT ![at[t]] = n]
         /\ tasks' = [tasks EXCEPT ![at[t]] = Append(@, n)]
    /\ Done(t)
    /\ UNCHANGED <<settings, registry, created, deleted, Usage, Messages, store>>

\* The Timer runs the oldest task: AutoDeleteTask::fire.
Fire(q) ==
    /\ pc["timer"] = "idle" /\ tasks[q] # << >>
    /\ tasks' = [tasks EXCEPT ![q] = Tail(@)]
    /\ task' = [task EXCEPT !["timer"] = Head(tasks[q])]
    /\ at' = [at EXCEPT !["timer"] = q]
    /\ Goto("timer", "try")
    /\ UNCHANGED <<settings, registry, created, deleted, Usage, Messages, store, latest, using>>

\* Mutant: a queue that is being deleted is deleted once more.
TryAutoDeleteAgain(t) ==
    /\ pc[t] = "try"
    /\ IF checkAutoDelete(at[t])
       THEN /\ deleted' = [deleted EXCEPT ![at[t]] = TRUE]
            /\ Goto(t, "unregister") /\ Here(t)
       ELSE Done(t) /\ UNCHANGED deleted
    /\ UNCHANGED <<settings, registry, created, Usage, Messages, store, Tasks>>

\* Queue::tryAutoDelete.
TryAutoDelete(t) ==
    /\ pc[t] = "try"
    /\ IF ~deleted[at[t]] /\ checkAutoDelete(at[t])
       THEN /\ deleted' = [deleted EXCEPT ![at[t]] = TRUE]
            /\ Goto(t, "unregister") /\ Here(t)
       ELSE Done(t) /\ UNCHANGED deleted
    /\ UNCHANGED <<settings, registry, created, Usage, Messages, store, Tasks>>

----------------------------------------------------------------------------
(* Deletion                                                                *)

\* Broker::deleteQueue: the checks, made on the queue that was found.
CheckDelete(s, ifUnused, ifEmpty) ==
    /\ s \in Deleters /\ pc[s] = "found"
    /\ IF \/ owner[at[s]] \notin {{}, {s}}
          \/ ifUnused /\ users[at[s]] # {}
          \/ ifEmpty /\ waiting[at[s]] > 0
       THEN Done(s)
       ELSE Goto(s, "unregister") /\ Here(s)
    /\ UNCHANGED <<settings, registry, created, deleted, Usage, Messages, store, Tasks>>

\* QueueRegistry::destroy(name) forgets the queue that has the name now; both
\* Broker::deleteQueue and tryAutoDelete call it before destroyed().
Unregister(t) ==
    /\ pc[t] = "unregister"
    /\ registry' = 0
    /\ Goto(t, "abandon") /\ Here(t)
    /\ UNCHANGED <<settings, created, deleted, Usage, Messages, store, Tasks>>

\* Queue::destroyed: every message on the queue is removed, acquired or not.
Abandon(t) ==
    LET q == at[t]
        acquired == {s \in Sessions : held[s] = q}
    IN  /\ pc[t] = "abandon"
        /\ waiting' = [waiting EXCEPT ![q] = 0]
        /\ held' = [s \in Sessions |-> IF s \in acquired THEN 0 ELSE held[s]]
        /\ depth' = [depth EXCEPT ![q] = @ - waiting[q] - Cardinality(acquired)]
        /\ Goto(t, IF Durable /\ waiting[q] + Cardinality(acquired) > 0 THEN "drain"
                   ELSE IF store[q] THEN "barrier" ELSE "notify")
        /\ Here(t)
        /\ UNCHANGED <<settings, registry, created, deleted, Usage, store, Tasks>>

\* dequeueFromStore for what was removed, under a use of its own.  The
\* ScopedUse that a thread may already hold stays as it is.
Drain(t) ==
    /\ pc[t] = "drain"
    /\ Goto(t, IF ~deleted[at[t]] THEN "store drain"
               ELSE IF store[at[t]] THEN "barrier" ELSE "notify")
    /\ using' = [using EXCEPT ![t] = IF deleted[at[t]] THEN @ ELSE at[t]]
    /\ UNCHANGED <<settings, registry, created, deleted, Usage, Messages, store, Tasks, at, task>>

StoreDrain(t) ==
    /\ pc[t] = "store drain"
    /\ using' = [using EXCEPT ![t] = 0]
    /\ Goto(t, IF store[at[t]] THEN "barrier" ELSE "notify")
    /\ UNCHANGED <<settings, registry, created, deleted, Usage, Messages, store, Tasks, at, task>>

\* UsageBarrier::destroy marks the queue ...
BarrierDestroy(t) ==
    /\ pc[t] = "barrier"
    /\ deleted' = [deleted EXCEPT ![at[t]] = TRUE]
    /\ Goto(t, "wait") /\ Here(t)
    /\ UNCHANGED <<settings, registry, created, Usage, Messages, store, Tasks>>

\* Mutant: the store is closed while it is in use.
BarrierWaitNot(t) ==
    /\ pc[t] = "wait"
    /\ Goto(t, "store destroy") /\ Here(t)
    /\ UNCHANGED <<settings, registry, created, deleted, Usage, Messages, store, Tasks>>

\* ... and waits until nobody uses it.
BarrierWait(t) ==
    /\ pc[t] = "wait" /\ \A u \in Threads : using[u] # at[t]
    /\ Goto(t, "store destroy") /\ Here(t)
    /\ UNCHANGED <<settings, registry, created, deleted, Usage, Messages, store, Tasks>>

StoreDestroy(t) ==
    /\ pc[t] = "store destroy"
    /\ store' = [store EXCEPT ![at[t]] = FALSE]
    /\ Goto(t, "notify") /\ Here(t)
    /\ UNCHANGED <<settings, registry, created, deleted, Usage, Messages, Tasks>>

NotifyDeleted(t) ==
    /\ pc[t] = "notify"
    /\ deleted' = [deleted EXCEPT ![at[t]] = TRUE]
    /\ Goto(t, "reset") /\ Here(t)
    /\ UNCHANGED <<settings, registry, created, Usage, Messages, store, Tasks>>

ResetTask(t) ==
    /\ pc[t] = "reset"
    /\ latest' = [latest EXCEPT ![at[t]] = 0]
    /\ Done(t)
    /\ UNCHANGED <<settings, registry, created, deleted, Usage, Messages, store, tasks>>

----------------------------------------------------------------------------
\* What a client chooses to do ...
Client(s) ==
    \/ Declare(s) \/ Find(s) \/ Subscribe(s) \/ OwnBegin(s) \/ Enqueue(s) \/ Accept(s)
    \/ \E ifUnused, ifEmpty \in BOOLEAN : CheckDelete(s, ifUnused, ifEmpty)
    \/ \E q \in Queues : Cancel(s, q) \/ Disown(s, q) \/ Get(s, q)

\* ... what its thread then goes through ...
Command(s) ==
    \/ Consume(s) \/ CancelTask(s) \/ Own(s) \/ Reserve(s) \/ StoreEnqueue(s) \/ Push(s)
    \/ Dequeue(s) \/ StoreDequeue(s) \/ Schedule(s) \/ Arm(s)

\* ... and what any thread does that deletes a queue.
Delete(t) ==
    \/ TryAutoDelete(t) \/ Unregister(t) \/ Abandon(t) \/ Drain(t) \/ StoreDrain(t)
    \/ BarrierDestroy(t) \/ BarrierWait(t) \/ StoreDestroy(t) \/ NotifyDeleted(t) \/ ResetTask(t)

Next ==
    \/ \E s \in Sessions : Client(s) \/ Command(s)
    \/ \E t \in Threads : Delete(t)
    \/ \E q \in Queues : Fire(q)

\* A thread finishes the command it is in and the Timer runs its tasks;
\* clients promise nothing.
Fairness ==
    /\ \A s \in Sessions : WF_vars(Command(s))
    /\ \A t \in Threads : WF_vars(Delete(t))
    /\ \A q \in Queues : WF_vars(Fire(q))

Spec == Init /\ [][Next]_vars /\ Fairness

----------------------------------------------------------------------------
(* Properties                                                              *)

\* No call of the store for a queue whose record in it has been destroyed
\* (the null pointer of Queue::store): the barrier lets destroyed() proceed
\* only when nobody is about to make one.
NoLateStoreCall ==
    \A t \in Threads :
        pc[t] \in {"store enqueue", "store dequeue", "store dequeue last", "store drain",
                  "store destroy"} => store[at[t]]

\* The registry forgets a queue only because that queue is being deleted, and
\* never the next queue of the same name (stated with the domains of the
\* variables).
LiveIsRegistered ==
    /\ TypeOK
    /\ \A q \in 1 .. created :
          registry = q \/ deleted[q] \/ \E t \in Threads : at[t] = q /\ pc[t] \in Deleting

\* destroyed() has run to its end.
Finished(q) == deleted[q] /\ ~store[q] /\ ~\E t \in Threads : at[t] = q /\ pc[t] \in Deleting

\* An auto-delete queue that its last user has left does not stay behind: it
\* is destroyed, unless somebody uses it again.
EligibleIsDeleted ==
    \A q \in Queues : used[q] /\ checkAutoDelete(q) ~> Finished(q) \/ ~checkAutoDelete(q)
===============================================================================
