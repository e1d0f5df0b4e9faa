# TLA+ models of the Qpid C++ broker

This directory holds a formal model of the core of the broker: the queue, who is told about its messages, what a session knows of the messages
it was given, the life and death of queues, distributed transactions, completions, message groups (`qpid/cpp/src/qpid/broker`), replication and failover
(`qpid/ha`), the I/O threads (`qpid/sys`) and the journal of the linear store (`qpid/linearstore`). TLC checks every module on small instances; TLAPS proves,
for every instance, the safety properties of the queue with its refinement, of dispatch, sessions, queue lifecycle, transactions, completions, groups, replication and I/O threads. `PROJECT.json` lists runs, hazards, theorems and, definition by definition, the source lines modelled.

    tlc -config MessageQueue.cfg MCMessageQueue     # model-check one run
    tlapm MessageQueue_proofs.tla                   # check the proofs of one module

## 1. Inventory

The broker is a multi-threaded server. Each connection is served by at most one I/O thread at a time, which runs the commands of
the connection's sessions and its output tasks. Timers and the store's callbacks have threads of their own. All of them meet in
`Queue`, whose state is guarded by `messageLock`. Much of the difficulty comes from code that leaves that lock and takes it again.

| Component | State | Operations | Interacts with | What makes it correct |
|---|---|---|---|---|
| Message container: `IndexedDeque`, `MessageDeque`, `QueueCursor` | deque of messages with a state each, `version`; a cursor per subscription | publish, next, find, deleted/clean, release | called by `Queue` under `messageLock` | an offset computed from a sequence number is that message's; a cursor hides nothing |
| `Queue`, `LossyQueue`, `QueueDepth` | `sequence`, `current` depth | deliver = enqueue + push, getNextMessage, dequeue, release, acquire, remove/purge/move, seek, setPosition, dequeueMessageAt | sessions, store, replicators | FIFO per selector, one owner per acquired message, exact depth, no message comes back |
| `QueueListeners`, `AggregateOutput`, `SemanticStateConsumerImpl` | list of idle subscriptions, notification sets, output tasks, `blocked`, `notifyEnabled` | addListener, populate, notify, doOutput, flow, stop, cancel, close | publishers' threads wake consumers' threads | no wake-up is lost |
| `SemanticState`, `DeliveryRecord`, `Credit` | delivery records, credit balance and window | accept, reject, release, acquire, complete, flow, stop, cancel, close | one thread per session; any order of commands | what is acquired can be settled exactly once; the window is exact |
| `QueueRegistry`, `Broker`, auto-delete, `UsageBarrier`, `Timer` | registry by name, users, owner, `deleted`, `store`, tasks | declare, find, subscribe, cancel, own, delete, timer | sessions, timer, store | a queue that is due for deletion goes, no other does, and the store is left alone afterwards |
| `DtxManager`, `DtxWorkRecord`, `DtxBuffer`, `DtxTimeout` | the branch with its buffers, `prepared`, `completed`, `rolledback`, `expired`; the store's prepared list | start, join, end, suspend, resume, prepare, commit, rollback, timeout, recovery | sessions, timer, store | all or nothing across sessions, timeouts and crashes |
| `AsyncCompletion`, `SessionState`, `QueueFlowLimit` | counter and callback per message; incomplete commands, pending syncs, scheduled completions; index of messages held back | begin, end, finishCompleter, execution.sync, enqueued, dequeued | store and consumer threads, the connection's I/O thread | a command completes when its message is safe, and it does |
| `MessageGroupManager` | owner, acquired count and members per group, the free groups | enqueued, acquire, acquired, requeued, dequeued | `Queue`, under `messageLock` | one consumer per group; no group is forgotten |
| `Primary`, `RemoteBackup`, `QueueGuard`, `ReplicatingSubscription`, `QueueReplicator`, `Membership` | guards and delayed messages, dequeues to send, ids, roles | guard, send, acknowledge, promote, time out | queues, connections between brokers, cluster manager | a publisher is answered when every ready backup has the message, and is answered |
| `EpollPoller`, `DispatchHandle`, `AsynchIO`, `AsynchIOHandler` | kernel entry and state of a handle, callbacks, buffers, close flags | monitor, interrupt, wait, rewatch, processEvent, readable, writeable, notifyPendingWrite, abort | I/O threads, timer, other connections | one thread per connection, nothing used after deletion, no output forgotten |
| `wmgr`, `LinearFileController`, `EmptyFilePool`, `RecoveryManager` | page cache, tokens, files and counts, enqueue and transaction maps | enqueue, dequeue, commit, abort, flush, get_events, recover | libaio, the list of prepared transactions | what was confirmed survives a crash, what was removed does not come back |
| Local transactions, other containers, exchanges, federation, session resume, other stores, AMQP 1.0, clients, management | | | | see `PROJECT.json` |

Hard behaviours, with their lines, are the `hazards` of `PROJECT.json`: locks dropped in the middle of an operation (ring purge, enqueue
before push), cached cursors, wake-ups handed to one waiter, unsigned credit, timer tasks against users, a barrier waited for by its own user, names that change hands,
brokers that fail between two steps of a replication or a two-phase commit, handles deleted under a thread that was just given their event, recycled files that still hold old records.

## 2. Plan

Done: 1 `IndexedDeque` and `MessageQueue` with `FifoQueue` as the abstract specification, and the proofs of its inductive invariant; 2 `QueueDispatch`,
which composes `MessageQueue` with the listeners; 3 `SemanticState`; 4 `QueueLifecycle`; 5 `DtxBranch`; 6 `IngressCompletion` (completion, session and flow limit composed);
7 `MessageGroups` over `IndexedDeque`; 8 `QueueReplication`; 9 `EpollPoller` and `AsynchIO`; 10 `LinearJournal`.

Then the proofs: the ownership, depth and refinement of plain queues, and the safety properties of 2 to 9.

Next, in this order: the journal's `CountsExact`, whose invariant has to relate the files to what recovery finds in them; the other containers as implementations of `FifoQueue`'s contract or its variants; local transactions; topic matching and sequence sets as pure algorithms; federation; the list of prepared transactions.

## 3. Modules

Every action is one critical section or one call of the store, so the interleaving of actions is the interleaving of the broker's threads. A definition keeps
the name of the code it models. A definition whose comment starts with *Mutant* is a deliberately wrong variant of the next
one; no specification uses it, and it documents which mistake a property would catch.

**`IndexedDeque`** – the container as pure operators over a sequence of messages, `version` and a cursor. `head` is left out (both assignments leave it 0).
`CleanLimit` is the 10 of `clean()`; the runs use 1 so that deleted records survive in short queues as well.

**`MessageQueue`** – `messages`, `version`, `sequence`, `current`, a cursor and the open delivery records per subscription, a program counter per publisher.

| Code | Actions |
|---|---|
| `Queue::deliverTo` = `enqueue`, `push` | `CheckDepth`, `EnqueueAborted`, `Push` |
| `LossyQueue::checkDepth` | `CheckDepth`, `RingPurge`, `RingGiveUp` |
| one turn of the loop of `getNextMessage` | `GetExpired`, `GetUnwanted`, `GetMessage`, `GetWithoutCredit`, `GetNothing` |
| `dequeue`, `reject`, `release`, `acquire` | `Dequeue`, `Release`, `AcquireShown` |
| `remove` (purge, move, expiry sweep), `seek` | `RemoveOne`, `Seek` |
| `dequeueMessageAt`, `setPosition` (backup broker) | `DequeueMessageAt`, `SetPosition` |

Messages are told apart by a *kind* (what selectors and TTLs see). Simplifications: depth is in messages; `remove` takes one message per step, where the code holds the lock over several;
`SetPosition` has its caller's obligation as a guard (everything after the new position has been dequeued) and, like `DequeueMessageAt`, happens before anybody subscribes;
`Seek` is for a subscription with nothing outstanding; sequence numbers do not wrap; automatic accepts are `Dequeue` steps; a persistent message's store call is the choice between `Push` and `EnqueueAborted`.

**`FifoQueue`** – what a queue promises, without cursors, indexes or versions: a set of waiting and a set of taken messages; a consumer is given the oldest waiting message its selector passes. `MessageQueue!Fifo` is the refinement mapping.

**`QueueDispatch`** – extends `MessageQueue` with the listener list, the notification set each thread collects under the lock and works off after it, the connections' output tasks,
byte credit, `blocked` and `notifyEnabled`. A push, a ring that makes room (`MakeRoom`), a failed enqueue (`Abort`) and a removal by management (`Remove`) change the queue under it, of which only the push tells anybody. Each subscription has a session and connection of its own. Two history variables record how the code loses a wake-up: `stopped`, that `message.stop` has silenced a waiting subscription, and `overwritten`, who was put in a notification set and replaced there before being told. `message.acquire`, a browser's seek and what a backup does with its queue, `flush()`, `message.release` outside a close and sessions that detach are left out (no client can resume one: `broker/SessionState.cpp:347`, `client/SessionImpl.cpp:127`).

**`SemanticState`** – one subscription of one session; the client (its modes, the credit it grants, the commands it uses) is chosen at the start from `Clients`. State: records with all their flags, both flow modes, 32-bit credit as arithmetic modulo `Word`, the queue reduced to a state per message, competitors to a state `OTHER`. Commands are atomic, as the session's thread makes them; requeue order at close is arbitrary. The history variable `stranded` names the messages that were acquired through a record that had ended.

**`QueueLifecycle`** – all `Queue` objects that ever bear one name; their settings are chosen at the start from `Settings`. Threads keep references to objects the registry has forgotten. `declare`, `find`, subscribe (check, then `consume`), exclusive ownership, enqueue, dequeue, cancel, `scheduleAutoDelete`, timer tasks in order of age,
`tryAutoDelete`, `queue.delete` and the steps of `destroyed()`. One subscription and one held message per session; the store dequeues of the messages `destroyed()` removes are one call; what `destroyed()` removes is removed in one critical section, as `remove()` does; the session's list of exclusive queues is left out.

**`DtxBranch`** – one xid: `DtxManager`'s record, a `DtxBuffer` per session that works on the branch, the timeout and the store. The store and a transaction manager that obeys XA are external: one command on the xid at a time, a two-phase commit only after a successful prepare, the same decision again after a crash, a rollback if the broker died before it answered a prepare. `CommitStore` and `CommitWork`, `Prepare` and `Answer` are separate steps because the broker may die between them, `Join` and `AddJoin` because the branch may expire or complete between them: a session whose join was refused keeps its buffer and goes on enlisting there (outcome `outside`). `dtx.start` is one step, since nobody joins before it is answered. `Crash` loses everything but the store, and recovery rebuilds the record from it.

**`IngressCompletion`** – the transfers and syncs of one publisher. `AsyncCompletion`'s counter is one atomic step per operation (`Begin`, `EndNow`, or `EndClone` and `EndDecrement`, `finishCompleter`); the store and the flow limit are completers on other threads; the last one runs the callback, which on a foreign thread only schedules the completion (`InvokeCallback`) for the connection's thread (`CompleteCommands`). The queue is reduced to what `QueueFlowLimit` counts and indexes. `Detach` ends the session.

**`MessageGroups`** – extends `IndexedDeque`; the kind of a message is its group. The books of `MessageGroupManager` (members, acquired count, owner, free groups) change inside the queue's critical sections: `Publish`, the turns of `getNextMessage` (`GetExpired`, `GetMessage`, `GetBlocked`, `GetShown`, `GetNothing`), `Dequeue`, `Release`, `AcquireShown`, `Remove`. The cache of the last group is left out; the module's header says why that changes nothing.

**`QueueReplication`** – one queue that exists on every broker; a broker's queue is the set of its messages, which their sequence numbers order. On the primary: `Record` and `Push` of a publisher, `Dequeue` of a consumer; for each backup `Opened`, the steps of setting up guard and subscription (`TakeGuard`, `StartGuard`, `SetFirst`, `Snapshot`, `Initialize`), `Fetch` and `Deliver`, the backup's `Receive`, the primary's `Acknowledged`; `Closed`, `Crash`, `Restart`, `Promote`, `TimeoutExpectedBackups`. Membership updates reach connected backups at once, a lost connection is noticed on both sides at once, and the list of dequeues is never cleared, as in the code. The cluster manager that promotes a backup is external.

**`EpollPoller`** and **`AsynchIO`** – the kernel's one-shot entry, state and interrupt of each handle, the I/O threads between `epoll_wait` and their callbacks, deferred deletion; above it `DispatchHandle`'s states, `AsynchIO`'s read and write callbacks with the window between the test of `writePending` and the removal of the watch, and `AsynchIOHandler`'s close and abort. A step is one section under a handle's lock or one callback's step; `Poller::interrupt` lets go of the handle's lock before it takes the interrupt handle's, and a handle in between is `pending` (`DispatchHandle::call` holds the state lock all that time). Sockets are always writable, buffers are counted, partially decoded buffers, poller shutdown, `PollableCondition` and `AsynchConnector` are left out.

**`LinearJournal`** – the journal of one queue. Records of one or more blocks are encoded into the current page (`Enqueue`, `Dequeue`, `Complete`, and `Continue` for the rest of a record that does not fit), full pages are submitted, `Flush` submits a partial one, `GetEvents` learns of a completed write, runs its tokens, counts, gives files back to the pool and goes on to the next file. The pool hands out files with the contents of their earlier life. `Crash(n, k)` loses all but `n` writes and `k` sblks of the next; `Recover` reads the files as `RecoveryManager` does (`Scan`) and rebuilds maps, counts, files and position (`Rebuilt`). The list of prepared transactions is external (`Prepare`, `Decide`, `Forget`). `told`, `asked`, `ended` and `voted` are history variables. Recovery and the purge loop are atomic: they run under the journal's lock, or alone.

## 4. Runs

Every run passes; bounds are in the `.cfg` files. States are distinct states.

| Run | Instance | States | Shows |
|---|---|---|---|
| `fifo` | a backup's queue that is promoted, then 2 consumers, one choosy; 4 numbers, 2 kinds, one perishable; depth 3; 1 release | 133,471 | `Contiguous`, `InSequence`: index arithmetic is right. `AcquiredIsOwned`, `DepthExact`, `NoResurrection`. `ImplementsFifo`: refinement |
| `ring` | ring of depth 2; 2 publishers, a consumer and a replicating subscription that may acquire; 3 numbers | 215,412 | `NextByPosition`, `NoSkipped`: the container finds messages and hides none although held messages are purged |
| `dispatch` | a ring of depth 2; 2 consumers, one choosy, message sizes 1 and 2, one perishable, credit up to 2; stop, cancel, close, failing enqueues, removals | 266,086 | `QuietMeansServed`, and under fairness `EventuallyServed` |
| `session` | 5 kinds of client (`MCSemanticState`), one of which releases and acquires within its window; 3 messages, 4 deliveries, words of 8 | 820,876 | `AcquiredHasOneOwner`, `WindowExact` |
| `lifecycle` | three settings: durable with delayed auto-delete and a failing store, transient auto-delete, durable and deleted by a client; 2 sessions, the timer, 2 queues of the name, 3 tasks | 323,266 | `NoLateStoreCall`, `LiveIsRegistered`, `EligibleIsDeleted` |
| `replication` | 3 brokers, 2 messages, 1 fault | 1,258,493 | `ReadyIsSafe`, `GhostsAreListed`, `SameOrder` |
| `recovery` | 3 brokers, 1 message, 2 faults | 179,749 | under fairness `PublishersAreAnswered`, `RecoveryEnds` |
| `dtx` | 3 sessions, 2 operations each, 2 crashes | 397,802 | `AllOrNothing`, `OutcomeIsAsTold`, `NothingForgotten` |
| `ingress` | 3 commands; flow stops at 1 and resumes at 1 | 53,041 | `CompletedWhenSafe`, `SyncIsBarrier`, and under fairness `EventuallyCompleted` |
| `groups` | 2 consumers and a browser; 3 messages of 2 groups, one perishable; cursors reset once | 142,774 | `OneConsumerPerGroup`, `BooksAreExact`, `NoGroupSkipped` |
| `io` | 1 connection, 2 I/O threads, 2 outside events of end of file, reset, abort, data and output | 97,145 | `OneAtATime`, `NoUseAfterFree`, and under fairness `EventuallyWritten`, `EventuallyDeleted` |
| `journal` | 2 messages, 1 transaction; enqueue records of 2 blocks, pages and files of 4, sblks of 2, 2 pages of cache, purge at every decrement; 2 crashes | 196,040 | `CountsExact`, `JournalIsMemory`, `ConfirmedSurvives` |

*Why the bounds are enough.* Four sequence numbers give a queue with a deleted prefix, a hole, a held and an available message at once; a replica can be
padded and stripped. A release makes the other consumer's version stale. Two publishers and depth 2 give a ring whose last place is reserved and not filled.
Two consumers and two sizes give every pairing of willing, unwilling and blocked; the ring's purges and the aborted enqueues fall between the notifications. The constraint `Unstopped` of that run does not go on from a state in which `message.stop` has silenced a willing subscription: `stopped` stays true from there and both properties hold by it (`DispatchTypeOK` is proved for those states too). In a word of 8 the values 6 (largest limited) and 7 (unlimited) are reached. Two queues under
one name give every reuse of the name that two sessions can race on; three tasks give a task that fires, one that is pending and one being armed.
Three brokers give a failover with a backup that was ready and one that was not, and two faults the failure of the new primary or of the backup it waits for. Three sessions on a branch
give one that is ended, one suspended and one that fails; two crashes a crash during recovery's repetition of the decision. Three commands give a sync with pending transfers before and after it.
Two outside events are an abort or an end of file against announced output. In the journal a record may cross a page, a file and the sblk at which a write is torn, two crashes give a file recycled after a recovery that is recovered again, and
`PurgeInterval` is 1 where the code has 100, so that files are given back as early as the code ever could.

Larger and other instances were checked as well and hold: replication with 3 brokers, 1 message and 3 faults, with 2 brokers, 3 messages and 3 faults, and with 2 brokers, 2 messages and 3 faults with liveness;
`io` with 3 events (664,000 states), with 3 units of data (118,000), with 2 buffers (91,000) and with two connections that share the interrupt handle (safety, 50,000); `dispatch` without its constraint (1.04 million); `dispatch` on a plain queue with `message.release` (1.2 million), with one consumer and a browser, and with three consumers of a plain queue of two messages (stopped after the first 8.3 million states; an overwritten notification is among them);
`groups` with two resets (588,000);
the journal with records of 3 blocks (671,000, and with pages of 2 blocks 289,000), 3 messages without transactions (240,000), records of 5 blocks in files of 6 (107,000) and a cache of 4 pages (766,000).

`CHECK_DEADLOCK FALSE` is set everywhere because the bounds stop publishers, clients and faults; in `dtx` also because the code can deadlock (below).

*Limits.* The code allows the following; the instances leave it out, or the property excepts it in so many words:

- a ring queue without priorities drops the newest message while its last places are reserved and not yet filled (`LossyQueue.cpp:79`), and a message the ring policy purged comes back when its holder releases it (`IndexedDeque.h:116`): `NoResurrection` is checked for plain queues;
- a second `populate` on one `NotificationSet` (two refused messages in one `getNextMessage`, `Queue.cpp:473`) overwrites what the first took off the list (`QueueListeners.cpp:54`): the browsers and, with three consumers or more, the first consumer taken, which is then neither listed nor told. `populate` in `QueueDispatch` overwrites as the code does, and `Willing` excepts by name the consumers it happened to (`overwritten`). `dispatch` has two consumers, with which it cannot happen; browsers are not spoken of as those to be served;
- `message.stop` leaves a subscription without credit on the listener list, where it uses up a notification (`SemanticState.cpp:673`): what follows such a stop is excepted;
- completions received under unlimited credit are not counted (`Credit.cpp:51`): `WindowExact` is for clients that keep to one flow mode and limited credit (`Steady`);
- `message.acquire` on a record that was released and is kept for its window acquires for nobody (`DeliveryRecord.cpp:127`): the run `session` reaches it, and `AcquiredHasOneOwner` excepts the messages it happened to (`stranded`);
- two clients that delete one durable queue both call the store (`Queue.cpp:1148`), and a late delete by name removes the next queue of that name (`QueueRegistry.cpp:91`): `lifecycle` has one deleting client;
- `dequeue` on a durable queue of lifetime unused-and-empty waits on the barrier for its own use (`Queue.cpp:986`), and a failed enqueue that empties such a queue does not trigger its deletion (`Queue.cpp:920`): the instances combine durable with the lifetime unused;
- an older timer task may delete the queue before a later one (`Queue.cpp:1300`), and a message may be pushed after the queue was destroyed (`Queue.cpp:303`);
- a backup is ready one message too early (`ha/ReplicatingSubscription.cpp:191`, against `ha/README.h:139`), a disconnected backup keeps believing it is ready (`ha/Primary.cpp:344`), a promoted backup gives out ids another may hold (`ha/QueueReplicator.cpp:401`), and the list of dequeues is sent again from its beginning (`ha/ReplicatingSubscription.cpp:271`): `ReadyIsSafe` excepts the message before the first guarded one and reused ids. A reused id is worse than a second name: the backup that holds it skips the promoted broker's message as one it already has (`ha/ReplicatingSubscription.cpp:149`, `203`), so from four messages on two brokers may hold the same two ids in different orders, and `SameOrder` excepts reused ids as well;
- a timeout aborts a prepared branch; removing a record whose timeout is firing deadlocks (`DtxManager.cpp:149`); an operation enlisted after the buffer expired, or in the buffer of a join that was refused because the branch had expired (`SemanticState.cpp:226-231`), is never decided (`NothingForgotten` excepts both); a record destroyed between `getWork` and `add` is used after it is freed (`DtxManager.cpp:84`), which is not followed;
- completions that arrive while a session is detached are dropped (`SessionState.cpp:468`): `EventuallyCompleted` is claimed while it is attached;
- a dequeue that frees a group notifies no listener (`MessageGroupManager.cpp:209`); the delivery tag under which a browser acquires is unique in its session only (`DeliveryRecord.cpp:128`), the run gives every browser a name of its own; a dequeue of a recovered distributed transaction on a grouped queue (`Queue.cpp:941`) is left out;
- a connection that is reset while its callbacks run, with unsent data, ends with both directions unwatched and is not reported (`EpollPoller.cpp:373`, against the comment at `posix/AsynchIO.cpp:554`); the private part of a deleted handle is freed only when every I/O thread has woken once;
- the journal: writes are taken to land and to be reported in the order of submission, which libaio does not promise; a record that finds the cache full half-way is resumed with a new checksum (`wmgr.cpp:140-166`, against `jcntl.h:242-246`) and is excluded by `Writable`; a record that fills a whole file gets `fro` 0 (`wmgr.cpp:605-626`) and is excluded by `SizeAssumption`; a local abort prepares first (`linearstore/MessageStoreImpl.cpp:1370`), so that a crash before its decision is recovered as a commit; an xid is not used again after its transaction ended or was dropped; a file without a header stays in the directory unused.

*Fairness.* `QueueDispatch!Fairness` is weak fairness of the threads' own work: a thread finishes the notifications it has collected (a plain loop after the unlock), the poller
calls `doOutput` for a connection that has tasks, and the loop of `getNextMessage` and the steps of a close run to their end. `QueueLifecycle!Fairness`: a thread finishes a command it has begun, and the Timer runs its tasks.
`QueueReplication!Fairness`: the primary's connection threads, the network while a connection lasts, and the recovery timer; nothing of clients, the cluster manager or faults. `IngressCompletion!Fairness`: the I/O thread, the store, a thread in a callback, and consumers that take what is on the queue, without whom flow control rightly holds a publisher for ever.
`AsynchIO!Fairness`: I/O threads go on, epoll returns a handle that stays ready, and a thread that has begun to announce output or to abort finishes; nothing of the peers. Clients otherwise
owe nothing: no fairness on publishing, credit, accepts or cancels. The liveness properties are of the form "while a willing consumer is there", "unless somebody uses it again", which a client can make vacuous but not false.

## 5. Proofs

Each theorem is about every value of the constants; the run that checks its property is about one. A proof module extends the module it is about, starts with the inductive invariant and has one lemma per action (or one for a group of actions with the same effect), which `Inductive` combines.
`IndexedDeque_proofs` has the lemmas about the container's operators that the queue and the groups share: where each record of the result of `publish`, `deleted`, `release`, `acquire`, `next` comes from, and that sequence numbers stay consecutive.

| Module | Theorem | Property | Besides the assumptions on constants |
|---|---|---|---|
| `MessageQueue_proofs` | `TypeCorrect` | `TypeOK` | |
| | `DequeContiguous` | `Contiguous` | |
| | `NeverOutOfSequence` | `InSequence` | |
| | `NextKeepsItsPromise` | `NextByPosition` | |
| | `NothingSkipped` | `NoSkipped` | |
| | `OneOwner` | `AcquiredIsOwned` | `Plain` |
| | `DepthIsExact` | `DepthExact` | `Plain` |
| | `NeverComesBack` | `NoResurrection` (action property) | `Plain` |
| | `ImplementsFifoQueue` | `ImplementsFifo` (refinement) | `Plain` |
| | `DispatchTypeCorrect` | `DispatchTypeOK` | |
| | `QuietIsServed` | `QuietMeansServed` | |
| `Session_proofs` | `TypeCorrect` | `SemanticTypeOK` | |
| | `WindowIsExact` | `WindowExact` | |
| | `OneOwner` | `AcquiredHasOneOwner` | |
| | `CompletionIsSafe` | `CompletedWhenSafe` | |
| | `SyncIsBarrierHolds` | `SyncIsBarrier` (action property) | |
| `QueueLifecycle_proofs` | `NoLateCall` | `NoLateStoreCall` | `SoleDeleter` |
| | `NamesAreKept` | `LiveIsRegistered` | `SoleDeleter` |
| `DtxBranch_proofs` | `AtomicOutcome` | `AllOrNothing` | |
| | `AnswerIsTrue` | `OutcomeIsAsTold` | |
| | `NothingLeftBehind` | `NothingForgotten` | |
| `MessageGroups_proofs` | `OneConsumer` | `OneConsumerPerGroup` | `Named` |
| | `ExactBooks` | `BooksAreExact` | `Named` |
| | `GroupsNotSkipped` | `NoGroupSkipped` | `Named` |
| `AsynchIO_proofs` | `NeverTwice` | `OneAtATime` | |
| | `DeletionIsSafe` | `NoUseAfterFree` | |
| `QueueReplication_proofs` | `ReadyBackupsAreSafe` | `ReadyIsSafe` | |
| | `GhostsOnTheList` | `GhostsAreListed` | |
| | `OrderIsTheSame` | `SameOrder` | |

*Assumptions.* Those on the constants (`SubscriptionAssumption`, `DepthAssumption`, `BoundAssumption`, `CleanLimitAssumption`, `ThreadAssumption`, `CreditAssumption`, `SessionAssumption`, `LifecycleAssumption`, `DtxAssumption`, `FlowAssumption`, `GroupAssumption`, `NoneAssumption`, `IOAssumption`, `ReplicationAssumption`) give their types, say that what stands for nobody is nobody, that a publisher is not a subscription's I/O thread, that `CleanLimit` is not 0, that a flow limit resumes at or below where it stops, and that there are finitely many sessions (a use count is the number of threads in a call). Three more are hypotheses of single theorems, because the code does not keep the property without them:

- `Plain`: no ring policy, and no perishable messages if a replicating subscription reads the queue. A ring purges messages that a consumer holds, and a replicating subscription that finds one expired removes it; the holder's release then brings it back. TLC finds `AcquiredIsOwned` violated on either kind of queue.
- `SoleDeleter`: a queue that the broker deletes is deleted by no client, any other by one client at most. With two clients that delete one queue, or a client that deletes an auto-delete queue, TLC finds both properties violated (`Queue.cpp:1148`, `QueueRegistry.cpp:91`). The three settings of the run `lifecycle` satisfy it.
- `Named`: no subscription acquires under the empty name, which `GroupState::owned()` reads as "no owner". The name of a consumer is never empty, the session's id is part of it (`SemanticState.cpp:133`); but a browser's `message.acquire` passes the tag of the record, which is the destination of the subscription (`DeliveryRecord.cpp:128`), and only subscriptions with a destination are checked for duplicates (`SessionAdapter.cpp:400`). A browser without a destination is outside the theorem.

*Arguments.*

- **The queue.** None of the properties is inductive alone. `IInv == Sound /\ NoSkipped`, where `Sound` joins `TypeOK`, `DequeOK` (the deque is contiguous and no live message is numbered above the counter; a deleted one may be, after `SetPosition` moves back),
`RecordsBehind` (a record that is not ended lies at or before the counter) and `CursorsBehind` (so does a valid consumer's cursor). `publish` needs the second half of `DequeOK`: after stripping, what is left at the tail is live or below the new number, so padding closes the gap exactly and the result is contiguous.
`NoSkipped` needs contiguity, because `next` computes where to scan from; it needs `CursorsBehind` for `Push`, since a new message must lie beyond every cursor; and for `Release` the bumped version makes the cursor restart. `SetPosition` moves the counter only while nobody is subscribed.
- **The plain queue.** Ownership, depth and refinement do not need the layout any more but the *content*, the set of live records. Every step has one of eight effects on content, owners and depth (`Effect`, `NextEffect`): a place is reserved, given back or filled, a message is acquired, given back, finished or discarded, or nothing happens. `Exact` (record and acquired message belong to each other one to one; depth is what is on the queue plus what is reserved) is preserved by each of the eight, and each is a step of `FifoQueue` or a stutter. That a consumer is given the *oldest* message it wants is where `NoSkipped` is used.
- **Dispatch.** `DispatchInv` adds to `IInv` an account of who is on the way to the queue. `Tokens`: a consumer is at one place at most, on the listener list, in one notification set, scheduled or at the queue. `SeenInOrder`: whoever is behind on the list has looked at the queue later, so the first on the list has the most messages it has not seen; by `NoSkipped` every message it wants is among them.
`Served` is the heart. A *carrier* is a consumer with credit that is going to look at the queue, or to tell another one: told, scheduled, in its loop or closing. While somebody is on the list, there is a set of carriers that is `Enough`: for each message that the first on the list has not seen and that somebody on the list or among the carriers could want, it has as many carriers as there are such messages up to that one, each of which has not seen it, or stands for somebody it has told who has not. One carrier for the queue would not do, since a carrier that takes a message leaves the others to whoever is told next; nor would as many carriers as messages, since a carrier finds only what it has not seen.
A carrier that takes a message is paid for by that message; one that finds nothing has seen everything, so nothing it stood for is left to it, and it goes to the end of the list; a push, a release or a `removeListener` brings the next one from the head of the list together with what it has to carry. When nothing is on its way there is no carrier, hence no such message. `NobodyForgotten` extends this to consumers that are not listed: one whose last look did not end for want of credit is on the list, told, scheduled, at the queue, cancelled or overwritten. Purges, aborted enqueues and removals only take messages away, of which `Served` then asks less. `CreditOK` (whoever is on the list or told has credit) is what `message.stop` breaks, hence `stopped`.
- **Sessions.** The window's count is exact only because no counter wraps; so `WindowOK` bounds the credit word by word, together with the identity of records (`IdsOK`) and, for clients that keep to one flow mode, the mode of each record (`OneMode`). `OwnersOK` (acquired messages that are not `stranded` and owning records, one to one; what is stranded stays acquired, so that no record comes to own it) joins for `OneOwner`.
- **Lifecycle.** `TInv` is about types and counts: the depth covers what is on a queue and what is being enqueued. `DInv` says what the step of each thread implies about the queue it is at and the use it holds (`ThreadOK`), that a queue has its store record until its one deleter destroys it (`StoreOK`), after the barrier has seen the last use end (`Unused`), and that every queue ever created is registered, marked as deleted, or being deleted (`Registered`).
- **Transactions.** The invariant goes by the state of the transaction in the store. Before the store has it, an undecided operation is in a buffer of a live record, and a session whose part was rolled back has a failed buffer, which `check()` sees, unless the branch does not have that buffer (`Stray`: a session that never joined, is joining, or was refused because the branch had expired); while it is prepared, nothing is decided and everything enlisted is in it; once it is committed, the command that did it is the only one left.
- **Completions.** `CountIsExact`: the counter is what the routing thread, the store and the flow limit still hold. A count of one in the I/O thread, or one that a completer takes to zero, then means that nothing is outstanding; `SafeIsFinal` keeps what became safe safe until the publisher is told, although a write for the alternate exchange may raise the count again.
- **Groups.** `Books` (members, count and free index against the content), `Held` (records against the content, the owner's name against the records) and `NoGroupSkipped` need each other: a group that is freed resets the cursors, and it is freed exactly when the count, which `Books` keeps, reaches zero. Steps again go by their effect on the content.
- **I/O threads.** `Exclusive`: a handle is active in the poller, or in the interrupt queue or about to be put there (`pending`), or held by one thread, from the return of `Poller::wait` until that thread's next call of it, so that `lastReturnedHandle` counts as held. `ThreadOK` says what the place of a thread means for its handle, `HandleOK` how the states of `PollerHandlePrivate`, `DispatchHandle` and the kernel belong together. A thread that came back from `epoll_wait` with a handle others have since interrupted, served or deleted holds nothing; only the deletion manager's list of users (`Kept`) protects what it looks at. Most steps move none of these tokens and are dealt with once (`Quiet`).
- **Replication.** `IInv` has a half for the cluster and one for each backup. The backup's half is about where a message of the primary's queue can be: from the guard's first position on, the guard delays it unless the backup has it (`GuardOK`); before that position, the subscription's cursor is behind it, or the backup has it, or the message is on its way or among those whose answer `ready` waits for (`CursorOK`, `InTransit`, `StoppedOK`, `ReadyOK`); an acknowledgement or an id to be skipped is only ever of a message the backup has (`AnswersOK`). `ReadyIsSafe` follows. For `GhostsAreListed` the same accounts are kept of what is gone from the primary: `SnapshotOK` holds because the observer is attached before the snapshot is taken, `DequeuesOK` because an id on the list never comes back. `SameOrder` needs most, since the broker promoted next may be any backup and its queue becomes the one to compare with: `SameHistory` says of any *two* brokers that whatever lies before a message on one lies before it on the other, if that has the message. It survives the arrival of a message at a backup only because what the backup lacks and the primary's queue still has before that message was sent earlier (`InTransit`), and because what only the backup has is listed in the dequeue event that comes before any message (`GhostsFirst`). The cluster's half keeps ids and positions apart (`Numbering`, `Naming`, `Queues`) and says that no backup knows an id whose message is not pushed yet (`Unpushed`).

*Only model-checked.* The liveness properties (`EventuallyServed`, `EligibleIsDeleted`, `PublishersAreAnswered`, `RecoveryEnds`, `EventuallyCompleted`, `EventuallyWritten`, `EventuallyDeleted`): fairness and `ENABLED` are outside the proof system's reach here. The safety properties of `LinearJournal` (`TypeOK`, `CountsExact`, `JournalIsMemory`, `ConfirmedSurvives`): what `Scan` computes from the files by recursion would need induction over data, which the provers cannot do here.

## 6. Not modelled

Contents of messages, headers, routing and formatting; management and statistics; ACL and security layers; byte limits of queues and flow control; paging, priority and last-value containers; redirected queues; the lifetimes delete-on-close and delete-if-empty; local transactions apart from the buffer
`DtxBranch` uses; `dtx.set-timeout` and the list of `dtx.recover`; resuming a detached session, which no client of this repository can do (`broker/SessionState.cpp:347`, `client/SessionImpl.cpp:127`); replication of queue, exchange and binding definitions (`BrokerReplicator`), `ConnectionObserver`, `FailoverExchange`; federation; shutting the poller down, `PollableCondition`, `AsynchConnector` and pollers other than epoll;
the stores other than the linear journal, its list of prepared transactions, and transactions over several queues; the AMQP 1.0 front end, driven by an engine that is not part of the repository; the client libraries; and the rest of what `PROJECT.json` lists as `not_modelled`.
