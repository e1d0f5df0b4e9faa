--------------------------- MODULE QueueReplication ---------------------------
(***************************************************************************)
(* High availability: one queue replicated from a primary broker to its    *)
(* backups.  A QueueGuard delays the answer to the publisher until every   *)
(* backup has the message, a ReplicatingSubscription browses the queue and *)
(* sends messages and dequeues to the QueueReplicator of its backup, and   *)
(* Primary and Membership keep who is a ready backup.  Brokers fail, lose  *)
(* their connection and come back empty; a cluster manager (external)      *)
(* promotes a backup when there is no primary.                             *)
(*                                                                         *)
(* Threads of the primary: publishers (Record, Push), consumers (Dequeue), *)
(* one connection thread for each backup (Opened to Acknowledged) and the  *)
(* timer.  An action is one critical section of the queue's messageLock or *)
(* of the subscription's lock.  The queue exists on every broker that is   *)
(* up; a membership update reaches the connected backups at once; a lost   *)
(* connection is noticed on both sides at once.  An IdEvent and the        *)
(* message it announces leave together: one thread sends both.             *)
(***************************************************************************)
EXTENDS Integers, Sequences, FiniteSets, SequencesExt

CONSTANTS
    Brokers,
    NoBroker,     \* not a broker: there is no primary
    MaxMessages,  \* bound: messages published
    MaxFaults,    \* bound: crashes, restarts and lost connections
    MaxInFlight   \* bound: from it on a subscription does not dispatch

ASSUME ReplicationAssumption ==
    /\ NoBroker \notin Brokers
    /\ MaxMessages \in Nat /\ MaxFaults \in Nat /\ MaxInFlight \in Nat \ {0}

VARIABLES
    primary,     \* the broker whose role is Primary
    view,        \* Membership::brokers of each broker: the status it knows of each
    queue,       \* the messages on the queue of each broker, in the order of seq
    sequence,    \* Queue::sequence on each broker
    maxId,       \* QueueReplicator::maxId of each backup
    nextId,      \* IdSetter::nextId of the primary
    pending,     \* messages with a replication id that are not on the queue yet
    assigned,    \* history: the id every published message was given
    incomplete,  \* messages on the primary whose publisher has no answer yet
    acked,       \* messages whose publisher got its answer
    consumed,    \* history: messages taken off a primary's queue
    guard,       \* the QueueGuard the primary has for each backup
    sub,         \* the ReplicatingSubscription of each backup
    backups,     \* Primary::backups
    connected,   \* RemoteBackup::connection is set
    catchup,     \* the queue is in RemoteBackup::catchupQueues
    reported,    \* RemoteBackup::reportedReady
    expected,    \* Primary::expectedBackups
    timer,       \* the ExpectedBackupTimerTask has yet to fire
    chan,        \* events and messages on the way to each backup
    acks,        \* acknowledgements on the way back
    faults       \* faults so far

queueVars == <<queue, sequence, maxId, nextId, pending, assigned>>
answerVars == <<incomplete, acked, consumed>>
memberVars == <<primary, view, backups, connected, catchup, reported, expected, timer>>
linkVars == <<chan, acks>>
vars == <<queueVars, answerVars, memberVars, linkVars, guard, sub, faults>>

Messages == 1..MaxMessages
Ids == 1..(MaxMessages + 1)
Status == {"none", "down", "joining", "catchup", "ready", "recovering", "active"}
Entry == [id : Ids, msg : Messages, seq : Nat]
NoEntry == [id |-> 0, msg |-> 0, seq |-> 0]

NoGuard == [on |-> FALSE, first |-> 0, delayed |-> {}]

NoSub == [pc |-> "none", primaryIds |-> {}, hand |-> NoEntry, cursor |-> 0,
          position |-> 0, wasStopped |-> FALSE, ready |-> FALSE,
          notified |-> FALSE,
          dequeues |-> {}, skipEnqueue |-> {}, unready |-> {}]

\* The ids on a queue: what QueueSnapshot maintains.
IdsOf(q) == {e.id : e \in q}

\* The message a consumer of q comes to first.
First(q) == CHOOSE e \in q : \A f \in q : e.seq <= f.seq

\* The state of a guard, of a subscription, and what goes over a link.
Guard == [on : BOOLEAN, first : Nat, delayed : SUBSET Ids]
Subscription ==
    [pc : {"none", "guard", "attached", "snapshot", "idle", "fetched"},
     primaryIds : SUBSET Ids, hand : Entry \cup {NoEntry}, cursor : Nat,
     position : Nat, wasStopped : BOOLEAN, ready : BOOLEAN, notified : BOOLEAN,
     dequeues : SUBSET Ids, skipEnqueue : SUBSET Ids, unready : SUBSET Ids]
Transfer == [type : {"message"}, entry : Entry] \cup [type : {"dequeue"}, ids : SUBSET Ids]

TypeOK ==
    /\ primary \in Brokers \cup {NoBroker}
    /\ view \in [Brokers -> [Brokers -> Status]]
    /\ queue \in [Brokers -> SUBSET Entry] /\ sequence \in [Brokers -> Nat]
    /\ maxId \in [Brokers -> 0..MaxMessages]
    /\ nextId \in 0..(MaxMessages + 1)
    /\ pending \subseteq [id : Ids, msg : Messages]
    /\ assigned \in Seq(Ids) /\ Len(assigned) <= MaxMessages
    /\ incomplete \subseteq [id : Ids, msg : Messages]
    /\ acked \subseteq Messages /\ consumed \subseteq Messages
    /\ guard \in [Brokers -> Guard] /\ sub \in [Brokers -> Subscription]
    /\ connected \subseteq backups /\ backups \subseteq Brokers
    /\ catchup \subseteq backups /\ reported \subseteq backups /\ expected \subseteq backups
    /\ timer \in BOOLEAN
    /\ chan \in [Brokers -> Seq(Transfer)] /\ acks \in [Brokers -> Seq(Ids)]
    /\ faults \in 0..MaxFaults

---------------------------------------------------------------------------

\* The primary accepts clients from the end of its constructor on.
Serving == primary \in Brokers

\* A message is complete when no guard delays it: its publisher is answered.
Settle(guards, waiting) ==
    LET done == {m \in waiting : \A b \in Brokers : m.id \notin guards[b].delayed}
    IN  /\ incomplete' = waiting \ done
        /\ acked' = acked \cup {m.msg : m \in done}

Complete(g, id) == [g EXCEPT !.delayed = @ \ {id}]

\* Membership::update raises an event that the connected backups assign: they
\* keep their own entry when the primary's list does not have them.
Broadcast(members) ==
    view' = [b \in Brokers |-> [c \in Brokers |->
               IF b # primary /\ (b \notin connected' \/ (b = c /\ members[c] = "none"))
               THEN view[b][c] ELSE members[c]]]

\* Mutant: looks at the expected backups before the ones that left are removed.
ActivatedStale(members) ==
    [b \in Brokers |-> IF members[b] = "recovering" /\ expected = {}
                       THEN "active" ELSE members[b]]

\* Primary::checkReady()
Activated(members) ==
    [b \in Brokers |-> IF members[b] = "recovering" /\ expected' = {}
                       THEN "active" ELSE members[b]]

\* Mutant: guarded one position too early.
IsGuardedEarly(s, g) == s.wasStopped \/ s.position + 2 >= g.first

\* ReplicatingSubscription::isGuarded
IsGuarded(s, g) == s.wasStopped \/ s.position + 1 >= g.first

BecomesReady(s, g) == ~s.ready /\ IsGuarded(s, g) /\ s.unready = {}

\* ReplicatingSubscription::checkReady, Primary::readyReplica and checkReady(backup)
CheckReady(b, s, g) ==
    /\ sub' = [sub EXCEPT ![b] = [s EXCEPT !.ready = @ \/ BecomesReady(s, g)]]
    /\ UNCHANGED <<primary, backups, connected, timer>>
    /\ IF BecomesReady(s, g)
       THEN /\ catchup' = catchup \ {b}
            /\ reported' = reported \cup {b}
            /\ IF b \in reported
               THEN UNCHANGED <<expected, view>>
               ELSE /\ expected' = expected \ {b}
                    /\ Broadcast(Activated([view[primary] EXCEPT ![b] = "ready"]))
       ELSE UNCHANGED <<catchup, reported, expected, view>>

---------------------------------------------------------------------------
(***************************************************************************)
(* Publishers and consumers at the primary.                                *)
(***************************************************************************)

\* Queue::deliver: the interceptor sets the id before the message is enqueued.
Record ==
    /\ Serving /\ Len(assigned) < MaxMessages
    /\ assigned' = Append(assigned, nextId)
    /\ nextId' = nextId + 1
    /\ pending' = pending \cup {[id |-> nextId, msg |-> Len(assigned) + 1]}
    /\ UNCHANGED <<queue, sequence, maxId, answerVars, memberVars, linkVars, guard, sub, faults>>

\* Queue::push: under messageLock every guard delays the message.
Push ==
    /\ Serving
    /\ \E m \in pending :
         LET g == [b \in Brokers |-> IF guard[b].on
                                     THEN [guard[b] EXCEPT !.delayed = @ \cup {m.id}]
                                     ELSE guard[b]]
         IN  /\ pending' = pending \ {m}
             /\ sequence' = [sequence EXCEPT ![primary] = @ + 1]
             /\ queue' = [queue EXCEPT ![primary] =
                            @ \cup {[id |-> m.id, msg |-> m.msg, seq |-> sequence[primary] + 1]}]
             /\ guard' = g
             /\ Settle(g, incomplete \cup {m})
    /\ UNCHANGED <<consumed, maxId, nextId, assigned, memberVars, linkVars, sub, faults>>

\* Mutant: the subscription observes the queue after it took its snapshot.
ObservesLate(s) == s.pc \in {"idle", "fetched"}

\* The subscription observes the queue from before its snapshot on.
Observes(s) == s.pc \notin {"none", "guard"}

\* Mutant: a message that leaves the queue stays delayed.
GuardDequeuedNot(g, id) == g

\* QueueGuard::dequeued
GuardDequeued(g, id) == Complete(g, id)

\* Queue::dequeue by a consumer, with QueueGuard::dequeued and
\* ReplicatingSubscription::dequeued called under messageLock.
Dequeue ==
    /\ Serving
    /\ \E e \in queue[primary] :
         LET g == [b \in Brokers |-> GuardDequeued(guard[b], e.id)]
         IN  /\ queue' = [queue EXCEPT ![primary] = @ \ {e}]
             /\ guard' = g
             /\ Settle(g, incomplete)
             /\ consumed' = consumed \cup {e.msg}
             /\ sub' = [b \in Brokers |-> IF Observes(sub[b])
                                          THEN [sub[b] EXCEPT !.dequeues = @ \cup {e.id}, !.notified = TRUE]
                                          ELSE sub[b]]
    /\ UNCHANGED <<sequence, maxId, nextId, pending, assigned, memberVars, linkVars, faults>>

---------------------------------------------------------------------------
(***************************************************************************)
(* The connection of backup b.                                             *)
(***************************************************************************)

IsUp(b) == view[b][b] # "down"

\* Primary::opened for a new backup, or for one that the new primary expects.
Opened(b) ==
    /\ Serving /\ b # primary /\ IsUp(b) /\ b \notin connected
    /\ connected' = connected \cup {b}
    /\ backups' = backups \cup {b}
    /\ catchup' = catchup \cup {b}
    /\ UNCHANGED expected
    /\ Broadcast(IF view[b][b] = "joining" THEN [view[primary] EXCEPT ![b] = "catchup"]
                                           ELSE view[primary])
    /\ UNCHANGED <<primary, reported, timer, queueVars, answerVars, linkVars, guard, sub, faults>>

\* initialize, first part, in failover: the guard is there already.
TakeGuard(b) ==
    /\ b \in connected /\ sub[b].pc = "none" /\ guard[b].on
    /\ sub' = [sub EXCEPT ![b].pc = "attached"]
    /\ UNCHANGED <<queueVars, answerVars, memberVars, linkVars, guard, faults>>

\* initialize, first part, for a new backup: the QueueGuard observes the queue ...
StartGuard(b) ==
    /\ b \in connected /\ sub[b].pc = "none" /\ ~guard[b].on
    /\ guard' = [guard EXCEPT ![b].on = TRUE]
    /\ sub' = [sub EXCEPT ![b].pc = "guard"]
    /\ UNCHANGED <<queueVars, answerVars, memberVars, linkVars, faults>>

\* ... then reads the position it guards from; then the subscription observes.
SetFirst(b) ==
    /\ sub[b].pc = "guard"
    /\ guard' = [guard EXCEPT ![b].first = sequence[primary] + 1]
    /\ sub' = [sub EXCEPT ![b].pc = "attached"]
    /\ UNCHANGED <<queueVars, answerVars, memberVars, linkVars, faults>>

\* initialize: the snapshot of the ids on the primary.
Snapshot(b) ==
    /\ sub[b].pc = "attached"
    /\ sub' = [sub EXCEPT ![b].pc = "snapshot", ![b].primaryIds = IdsOf(queue[primary])]
    /\ UNCHANGED <<queueVars, answerVars, memberVars, linkVars, guard, faults>>

DequeueEvent(s) == IF s.dequeues = {} THEN <<>>
                   ELSE <<[type |-> "dequeue", ids |-> s.dequeues]>>

\* initialize, last part.  The backup sent the ids on its queue when it
\* connected, and its queue changes only by what it receives.
Initialize(b) ==
    LET backupIds == IdsOf(queue[b])
        front == IF queue[primary] = {} THEN sequence[primary] + 1 ELSE First(queue[primary]).seq
        s == [sub[b] EXCEPT
                !.pc = "idle", !.primaryIds = {}, !.notified = TRUE,
                !.dequeues = @ \cup (backupIds \ sub[b].primaryIds),
                !.skipEnqueue = backupIds \cap sub[b].primaryIds,
                !.position = front]
    IN  /\ sub[b].pc = "snapshot"
        /\ chan' = [chan EXCEPT ![b] = @ \o DequeueEvent(s)]
        /\ CheckReady(b, s, guard[b])
        /\ UNCHANGED <<queueVars, answerVars, acks, guard, faults>>

\* doDispatch: the dequeues so far, then the next message of the queue, or
\* stopped() when there is none.  It runs while there are messages, and
\* once more after a notification.
Fetch(b) ==
    LET next == {e \in queue[primary] : e.seq > sub[b].cursor}
    IN  /\ sub[b].pc = "idle" /\ Len(chan[b]) < MaxInFlight
        /\ next # {} \/ sub[b].notified
        /\ chan' = [chan EXCEPT ![b] = @ \o DequeueEvent(sub[b])]
        /\ IF next # {}
           THEN /\ sub' = [sub EXCEPT ![b].pc = "fetched", ![b].hand = First(next),
                                      ![b].cursor = First(next).seq]
                /\ UNCHANGED memberVars
           ELSE CheckReady(b, [sub[b] EXCEPT !.wasStopped = TRUE, !.notified = FALSE], guard[b])
        /\ UNCHANGED <<queueVars, answerVars, acks, guard, faults>>

\* deliver: outside messageLock, so the message may be gone from the queue.
Deliver(b) ==
    LET e == sub[b].hand
        s == [sub[b] EXCEPT !.pc = "idle", !.hand = NoEntry, !.position = e.seq]
    IN  /\ sub[b].pc = "fetched"
        /\ IF e.id \in s.skipEnqueue
           THEN /\ guard' = [guard EXCEPT ![b] = Complete(@, e.id)]
                /\ Settle(guard', incomplete)
                /\ CheckReady(b, [s EXCEPT !.skipEnqueue = @ \ {e.id}], guard[b])
                /\ UNCHANGED chan
           ELSE /\ chan' = [chan EXCEPT ![b] = Append(@, [type |-> "message", entry |-> e])]
                /\ CheckReady(b, IF ~s.ready /\ ~IsGuarded(s, guard[b])
                                 THEN [s EXCEPT !.unready = @ \cup {e.id}] ELSE s, guard[b])
                /\ UNCHANGED <<guard, incomplete, acked>>
        /\ UNCHANGED <<queueVars, consumed, acks, faults>>

\* Mutant: the message is put in the place its id asks for.
EnqueueById(q, e, n) == q \cup {[e EXCEPT !.seq = e.id]}

\* QueueReplicator::deliver: the backup's queue numbers the message itself.
EnqueueReplica(q, e, n) == q \cup {[e EXCEPT !.seq = n]}

\* QueueReplicator::route at the backup.
Receive(b) ==
    /\ chan[b] # <<>>
    /\ chan' = [chan EXCEPT ![b] = Tail(@)]
    /\ LET event == Head(chan[b])
       IN  \/ /\ event.type = "dequeue"
              /\ queue' = [queue EXCEPT ![b] = {e \in @ : e.id \notin event.ids}]
              /\ UNCHANGED <<sequence, maxId, acks>>
           \/ /\ event.type = "message"
              /\ acks' = [acks EXCEPT ![b] = Append(@, event.entry.id)]
              /\ IF event.entry.id \in IdsOf(queue[b])
                 THEN UNCHANGED <<queue, sequence, maxId>>
                 ELSE /\ sequence' = [sequence EXCEPT ![b] = @ + 1]
                      /\ queue' = [queue EXCEPT ![b] =
                                     EnqueueReplica(@, event.entry, sequence[b] + 1)]
                      /\ maxId' = [maxId EXCEPT ![b] = IF @ > event.entry.id THEN @ ELSE event.entry.id]
    /\ UNCHANGED <<nextId, pending, assigned, answerVars, memberVars, guard, sub, faults>>

\* ReplicatingSubscription::acknowledged at the primary.
Acknowledged(b) ==
    /\ acks[b] # <<>>
    /\ acks' = [acks EXCEPT ![b] = Tail(@)]
    /\ guard' = [guard EXCEPT ![b] = Complete(@, Head(acks[b]))]
    /\ Settle(guard', incomplete)
    /\ CheckReady(b, [sub[b] EXCEPT !.unready = @ \ {Head(acks[b])}], guard[b])
    /\ UNCHANGED <<queueVars, consumed, chan, faults>>

---------------------------------------------------------------------------
(***************************************************************************)
(* Faults and recovery.                                                    *)
(***************************************************************************)

\* Primary::backupDisconnect for every backup in gone, with the end of their
\* subscriptions: the guards are cancelled and complete what they delayed.
BackupDisconnect(gone) ==
    /\ guard' = [b \in Brokers |-> IF b \in gone THEN NoGuard ELSE guard[b]]
    /\ Settle(guard', incomplete)
    /\ sub' = [b \in Brokers |-> IF b \in gone THEN NoSub ELSE sub[b]]
    /\ chan' = [b \in Brokers |-> IF b \in gone THEN <<>> ELSE chan[b]]
    /\ acks' = [b \in Brokers |-> IF b \in gone THEN <<>> ELSE acks[b]]
    /\ backups' = backups \ gone /\ connected' = connected \ gone
    /\ catchup' = catchup \ gone /\ reported' = reported \ gone
    /\ expected' = expected \ gone

Without(members, gone, status) ==
    [b \in Brokers |-> IF b \in gone THEN status ELSE members[b]]

\* Primary::closed: the connection of a backup is lost.
Closed(b) ==
    /\ b \in connected /\ faults < MaxFaults
    /\ faults' = faults + 1
    /\ BackupDisconnect({b})
    /\ Broadcast(Activated(Without(view[primary], {b}, "none")))
    /\ UNCHANGED <<primary, timer, queueVars, consumed>>

\* Primary::timeoutExpectedBackups
TimeoutExpectedBackups ==
    LET gone == expected \ connected
    IN  /\ Serving /\ timer
        /\ timer' = FALSE
        /\ IF view[primary][primary] = "active"
           THEN UNCHANGED <<incomplete, acked, linkVars, guard, sub, view, backups, connected,
                            catchup, reported, expected>>
           ELSE /\ BackupDisconnect(gone)
                /\ Broadcast(Activated(Without(view[primary], gone, "catchup")))
        /\ UNCHANGED <<primary, queueVars, consumed, faults>>

Forget(b) == [c \in Brokers |-> IF c = b THEN "down" ELSE "none"]

\* The primary fails: what it held is gone.
Crash ==
    /\ Serving /\ faults < MaxFaults
    /\ faults' = faults + 1
    /\ primary' = NoBroker
    /\ view' = [view EXCEPT ![primary] = Forget(primary)]
    /\ queue' = [queue EXCEPT ![primary] = {}]
    /\ sequence' = [sequence EXCEPT ![primary] = 0]
    /\ maxId' = [maxId EXCEPT ![primary] = 0]
    /\ nextId' = 0 /\ pending' = {} /\ incomplete' = {}
    /\ guard' = [b \in Brokers |-> NoGuard]
    /\ sub' = [b \in Brokers |-> NoSub]
    /\ chan' = [b \in Brokers |-> <<>>] /\ acks' = [b \in Brokers |-> <<>>]
    /\ backups' = {} /\ connected' = {} /\ catchup' = {} /\ reported' = {} /\ expected' = {}
    /\ timer' = FALSE
    /\ UNCHANGED <<assigned, acked, consumed>>

\* A broker that is down, or a backup that is not connected, starts again.
Restart(b) ==
    /\ b # primary /\ b \notin connected /\ view[b][b] # "joining"
    /\ faults < MaxFaults
    /\ faults' = faults + 1
    /\ view' = [view EXCEPT ![b] = [Forget(b) EXCEPT ![b] = "joining"]]
    /\ queue' = [queue EXCEPT ![b] = {}]
    /\ sequence' = [sequence EXCEPT ![b] = 0]
    /\ maxId' = [maxId EXCEPT ![b] = 0]
    /\ UNCHANGED <<nextId, pending, assigned, answerVars, primary, backups, connected,
                   catchup, reported, expected, timer, linkVars, guard, sub>>

\* Backup::promote: a ready backup, or a broker of a cluster that only joins.
CanPromote(b) ==
    \/ view[b][b] = "ready"
    \/ view[b][b] = "joining" /\ \A c \in Brokers : view[c][c] \in {"joining", "down"}

\* Backup::recover, QueueReplicator::promoted and the constructor of Primary
Promote(b) ==
    LET expect == {c \in Brokers \ {b} : view[b][c] = "ready"}
    IN  /\ primary = NoBroker /\ CanPromote(b)
        /\ primary' = b
        /\ view' = [view EXCEPT ![b] = [c \in Brokers |->
                      IF c # b THEN "none" ELSE IF expect = {} THEN "active" ELSE "recovering"]]
        /\ nextId' = maxId[b] + 1
        /\ guard' = [c \in Brokers |->
                       IF c \in expect
                       THEN [on |-> TRUE, first |-> sequence[b] + 1, delayed |-> {}]
                       ELSE NoGuard]
        /\ backups' = expect /\ catchup' = expect /\ expected' = expect
        /\ timer' = (expect # {})
        /\ UNCHANGED <<connected, reported, queue, sequence, maxId, pending, assigned,
                       answerVars, linkVars, sub, faults>>

---------------------------------------------------------------------------

\* A cluster that has just started: one broker was promoted, all are empty.
Init ==
    /\ primary \in Brokers
    /\ view = [b \in Brokers |-> [c \in Brokers |->
                 IF b # c THEN "none" ELSE IF b = primary THEN "active" ELSE "joining"]]
    /\ queue = [b \in Brokers |-> {}]
    /\ sequence = [b \in Brokers |-> 0]
    /\ maxId = [b \in Brokers |-> 0]
    /\ nextId = 1 /\ pending = {} /\ assigned = <<>>
    /\ incomplete = {} /\ acked = {} /\ consumed = {}
    /\ guard = [b \in Brokers |-> NoGuard]
    /\ sub = [b \in Brokers |-> NoSub]
    /\ backups = {} /\ connected = {} /\ catchup = {} /\ reported = {} /\ expected = {}
    /\ timer = FALSE
    /\ chan = [b \in Brokers |-> <<>>] /\ acks = [b \in Brokers |-> <<>>]
    /\ faults = 0

\* What the thread of b's connection does by itself.
Replicate(b) ==
    \/ TakeGuard(b) \/ StartGuard(b) \/ SetFirst(b) \/ Snapshot(b) \/ Initialize(b)
    \/ Fetch(b) \/ Deliver(b)

Next ==
    \/ Record \/ Push \/ Dequeue
    \/ \E b \in Brokers : Opened(b) \/ Replicate(b) \/ Receive(b) \/ Acknowledged(b)
    \/ \E b \in Brokers : Closed(b) \/ Restart(b) \/ Promote(b)
    \/ TimeoutExpectedBackups \/ Crash

\* Threads that can run do run, and the network delivers while a connection
\* lasts.  Nothing is assumed of clients, of the manager or of faults.
Fairness ==
    /\ \A b \in Brokers : /\ WF_vars(Replicate(b))
                          /\ WF_vars(Receive(b))
                          /\ WF_vars(Acknowledged(b))
    /\ WF_vars(TimeoutExpectedBackups)

Spec == Init /\ [][Next]_vars /\ Fairness

---------------------------------------------------------------------------
(***************************************************************************)
(* Properties.                                                             *)
(***************************************************************************)

\* An id that more than one message was given: a promoted backup starts at
\* its own maxId + 1, which another backup may already hold for a message
\* that only it received.
Reused(id) == \E m, n \in DOMAIN assigned : m # n /\ assigned[m] = id /\ assigned[n] = id

Covered(b, e) == e.id \in IdsOf(queue[b]) \/ e.id \in guard[b].delayed

\* A backup that reported ready has, or holds back the answer for, every
\* message on the primary's queue, except the one just before the first
\* guarded position, for which isGuarded is too early: QueueGuard and
\* ReplicatingSubscription together, whatever is enqueued, dequeued, sent or
\* acknowledged while the subscription is set up (stated with the domains of
\* the variables).
ReadyIsSafe ==
    /\ TypeOK
    /\ \A b \in connected : sub[b].ready =>
          \A e \in queue[primary] : e.seq + 1 = guard[b].first \/ Reused(e.id) \/ Covered(b, e)

\* A message of the backup that is gone from the primary is on the list of
\* dequeues the subscription sends, once it has started: no message the
\* consumers had is left on a backup for good (the observer is attached
\* before the snapshot is taken).
GhostsAreListed ==
    \A b \in connected : sub[b].pc \in {"idle", "fetched"} =>
        IdsOf(queue[b]) \subseteq IdsOf(queue[primary]) \cup sub[b].dequeues

\* Messages that the primary and a subscribed backup both have are in the
\* same order on both, also after a failover.  (A message a consumer had
\* already taken can come back after a failover, and then out of order; and
\* with an id that was given twice they may be two messages.)
SameOrder ==
    \A b \in connected : \A e, f \in queue[b] : \A g, h \in queue[primary] :
        (/\ e.seq < f.seq
         /\ e.msg \notin consumed /\ f.msg \notin consumed
         /\ ~Reused(e.id) /\ ~Reused(f.id)
         /\ g.id = e.id /\ h.id = f.id) => g.seq < h.seq

\* Every message on the primary's queue is answered for, unless the primary
\* fails first: backups that lag, disconnect, already have the message or
\* never come back do not delay a publisher for ever.
PublishersAreAnswered ==
    \A m \in Messages : (\E e \in incomplete : e.msg = m) ~> ~\E e \in incomplete : e.msg = m

\* A promoted primary does not recover for ever: the timer drops the backups
\* that stay away and the others become ready or are lost.
RecoveryEnds ==
    \A b \in Brokers : (primary = b /\ view[b][b] = "recovering")
                         ~> ~(primary = b /\ view[b][b] = "recovering")

=============================================================================
