---------------------------- MODULE MessageQueue ----------------------------
(***************************************************************************)
(* The messages of one broker::Queue: its container, its sequence counter, *)
(* its depth, the cursors of its subscriptions and the delivery records    *)
(* their sessions hold.  Every action is one critical section of           *)
(* Queue::messageLock, so their interleaving is that of the broker's       *)
(* connection threads.  Waking idle subscriptions up is left to            *)
(* QueueDispatch, which composes this module with the listener list.       *)
(*                                                                         *)
(* Ring = TRUE is LossyQueue (policy type ring), FALSE is the plain Queue  *)
(* that rejects a message when it is full.                                 *)
(***************************************************************************)
EXTENDS IndexedDeque

CONSTANTS
    Subscriptions,  \* the subscriptions of the queue
    TypeOf,         \* their SubscriptionType
    Selector,       \* the kinds of message the selector of each one passes
    Perishable,     \* the kinds of message published with a TTL
    Publishers,     \* threads that enqueue messages
    MaxDepth,       \* settings.maxDepth, in messages
    Ring,           \* is this a LossyQueue?
    Replicated,     \* does the queue start out on a backup broker?
    MaxSequence,    \* bound: sequence numbers handed out
    MaxVersion      \* bound: releases

ASSUME SubscriptionAssumption ==
    /\ TypeOf \in [Subscriptions -> SubscriptionTypes \ {"PURGE"}]
    /\ Selector \in [Subscriptions -> SUBSET Kinds]
    /\ Perishable \subseteq Kinds

ASSUME DepthAssumption == MaxDepth \in Nat \ {0} /\ {Ring, Replicated} \subseteq BOOLEAN

ASSUME BoundAssumption == MaxSequence \in Nat /\ MaxVersion \in Nat

VARIABLES
    messages,   \* IndexedDeque::messages
    version,    \* IndexedDeque::version
    sequence,   \* Queue::sequence
    cursor,     \* the QueueCursor of each subscription
    unacked,    \* its delivery records that are not ended: [position, acquired]
    current,    \* Queue::current, in messages
    pc          \* where each publisher is in Queue::deliverTo

vars == <<messages, version, sequence, cursor, unacked, current, pc>>

DeliveryRecord == [position : Nat, acquired : BOOLEAN]

TypeOK ==
    /\ messages \in Seq(Message)
    /\ version \in 0 .. MaxVersion
    /\ sequence \in 0 .. MaxSequence
    /\ cursor \in [Subscriptions -> QueueCursor]
    /\ \A c \in Subscriptions : cursor[c].type = TypeOf[c]
    /\ unacked \in [Subscriptions -> SUBSET DeliveryRecord]
    /\ current \in Int
    /\ pc \in [Publishers -> {"idle", "check", "purge", "give up", "push"}]

Init ==
    /\ messages = << >>
    /\ version = 0
    /\ sequence = 0
    /\ cursor = [c \in Subscriptions |-> NewCursor(TypeOf[c])]
    /\ unacked = [c \in Subscriptions |-> {}]
    /\ current = 0
    /\ pc = [p \in Publishers |-> "idle"]

preAcquires(c) == TypeOf[c] = "CONSUMER"

\* The depths are unsigned in the code: the difference would wrap if current
\* passed MaxDepth, which only recovery, not modelled here, could bring about.
Full == MaxDepth - current < 1

----------------------------------------------------------------------------
(* Publishing: Queue::deliverTo = enqueue() then push()                    *)

\* The depth check that opens enqueue(): a plain queue throws when it is
\* full, which changes nothing; a ring queue goes on to purge.
CheckDepth(p) ==
    /\ pc[p] \in {"idle", "check"}
    /\ \/ /\ ~Full
          /\ current' = current + 1
          /\ pc' = [pc EXCEPT ![p] = "push"]
       \/ /\ Full /\ Ring
          /\ pc' = [pc EXCEPT ![p] = "purge"]
          /\ UNCHANGED current
    /\ UNCHANGED <<messages, version, sequence, cursor, unacked>>

\* LossyQueue::checkDepth, lock released: remove(1, ..., PURGE).  The
\* message removed is the oldest one, acquired or not.
RingPurge(p) ==
    LET oldest == next(messages, version, NewCursor("PURGE"))
    IN  /\ pc[p] = "purge"
        /\ \/ /\ oldest # 0
              /\ messages' = deleted(messages, messages[oldest].sequence)
              /\ current' = current - 1
              /\ pc' = [pc EXCEPT ![p] = "check"]
           \/ /\ oldest = 0
              /\ pc' = [pc EXCEPT ![p] = "give up"]
              /\ UNCHANGED <<messages, current>>
        /\ UNCHANGED <<version, sequence, cursor, unacked>>

\* Nothing could be purged: the message is dropped if there still is no room.
RingGiveUp(p) ==
    /\ pc[p] = "give up"
    /\ \/ /\ Full
          /\ pc' = [pc EXCEPT ![p] = "idle"]
          /\ UNCHANGED current
       \/ /\ ~Full
          /\ current' = current + 1
          /\ pc' = [pc EXCEPT ![p] = "push"]
    /\ UNCHANGED <<messages, version, sequence, cursor, unacked>>

\* Mutant: the reserved depth is not given back.
EnqueueAbortedKeeping(p) ==
    /\ pc[p] = "push"
    /\ pc' = [pc EXCEPT ![p] = "idle"]
    /\ UNCHANGED <<messages, version, sequence, cursor, unacked, current>>

\* store->enqueue() throws: enqueueAborted() gives the reserved depth back.
EnqueueAborted(p) ==
    /\ pc[p] = "push"
    /\ current' = current - 1
    /\ pc' = [pc EXCEPT ![p] = "idle"]
    /\ UNCHANGED <<messages, version, sequence, cursor, unacked>>

\* push() of a message of kind k.
Push(p, k) ==
    /\ pc[p] = "push"
    /\ sequence < MaxSequence
    /\ sequence' = sequence + 1
    /\ messages' = publish(messages, sequence + 1, k)
    /\ pc' = [pc EXCEPT ![p] = "idle"]
    /\ UNCHANGED <<version, cursor, unacked, current>>

----------------------------------------------------------------------------
(* Dispatch: one iteration of the loop of Queue::getNextMessage for c.     *)
(* The lock is released between two iterations.                            *)

NextFor(c) == next(messages, version, cursor[c])

Record(c, acquired) ==
    [position |-> messages[NextFor(c)].sequence, acquired |-> acquired]

\* messages->next() leaves the cursor of c where it now is.
Advance(c) == cursor' = [cursor EXCEPT ![c] = nextCursor(messages, version, @)]

\* The message has expired: it is dequeued on the spot.  Reading the clock is
\* the choice between this and the actions below.
GetExpired(c) ==
    /\ NextFor(c) # 0
    /\ messages[NextFor(c)].kind \in Perishable
    /\ Advance(c)
    /\ messages' = deleted(messages, messages[NextFor(c)].sequence)
    /\ current' = current - 1
    /\ UNCHANGED <<version, sequence, unacked, pc>>

\* The selector of c does not pass the message: try another one.
GetUnwanted(c) ==
    /\ NextFor(c) # 0
    /\ messages[NextFor(c)].kind \notin Selector[c]
    /\ Advance(c)
    /\ UNCHANGED <<messages, version, sequence, unacked, current, pc>>

\* c takes the message: acquired for a CONSUMER, only shown to the others.
GetMessage(c) ==
    /\ NextFor(c) # 0
    /\ messages[NextFor(c)].kind \in Selector[c]
    /\ Advance(c)
    /\ messages' = IF preAcquires(c) THEN acquire(messages, NextFor(c)) ELSE messages
    /\ unacked' = [unacked EXCEPT ![c] = @ \cup {Record(c, preAcquires(c))}]
    /\ UNCHANGED <<version, sequence, current, pc>>

\* c wants the message and lacks credit: its cursor is put back.
GetWithoutCredit(c) ==
    /\ NextFor(c) # 0
    /\ messages[NextFor(c)].kind \in Selector[c]
    /\ UNCHANGED vars

\* Nothing for c; the cursor may still have moved.
GetNothing(c) ==
    /\ NextFor(c) = 0
    /\ Advance(c)
    /\ UNCHANGED <<messages, version, sequence, unacked, current, pc>>

----------------------------------------------------------------------------
(* What a session does with a delivery record r of subscription c          *)

EndRecord(c, r) == unacked' = [unacked EXCEPT ![c] = @ \ {r}]

\* Mutant: the record is not ended.
DequeueKeeping(c, r) ==
    /\ r \in unacked[c] /\ r.acquired /\ find(messages, r.position)
    /\ messages' = deleted(messages, r.position)
    /\ current' = current - 1
    /\ UNCHANGED <<version, sequence, cursor, unacked, pc>>

\* DeliveryRecord::accept and reject: Queue::dequeue / Queue::reject, which
\* look the message up again and leave a queue without it alone.
Dequeue(c, r) ==
    /\ r \in unacked[c]
    /\ EndRecord(c, r)
    /\ \/ /\ r.acquired /\ find(messages, r.position)
          /\ messages' = deleted(messages, r.position)
          /\ current' = current - 1
       \/ /\ ~(r.acquired /\ find(messages, r.position))
          /\ UNCHANGED <<messages, current>>
    /\ UNCHANGED <<version, sequence, cursor, pc>>

\* Mutant: the version is not bumped.
ReleaseQuietly(c, r) ==
    /\ r \in unacked[c] /\ r.acquired
    /\ EndRecord(c, r)
    /\ messages' = release(messages, r.position)
    /\ UNCHANGED <<version, sequence, cursor, current, pc>>

\* DeliveryRecord::release and requeue: Queue::release.
Release(c, r) ==
    /\ r \in unacked[c] /\ r.acquired
    /\ EndRecord(c, r)
    /\ messages' = release(messages, r.position)
    /\ \/ found(messages, r.position) /\ version < MaxVersion /\ version' = version + 1
       \/ ~found(messages, r.position) /\ UNCHANGED version
    /\ UNCHANGED <<sequence, cursor, current, pc>>

\* DeliveryRecord::acquire (the message.acquire command): Queue::acquire, for
\* a message that was only shown.
AcquireShown(c, r) ==
    /\ r \in unacked[c] /\ ~r.acquired
    /\ find(messages, r.position)
    /\ messages[offset(messages, r.position) + 1].state = "AVAILABLE"
    /\ messages' = acquire(messages, offset(messages, r.position) + 1)
    /\ unacked' = [unacked EXCEPT ![c] = (@ \ {r}) \cup {[r EXCEPT !.acquired = TRUE]}]
    /\ UNCHANGED <<version, sequence, cursor, current, pc>>

----------------------------------------------------------------------------
(* Management and replication                                              *)

\* Queue::remove(1, kind in K, ..., CONSUMER): purge, move and purgeExpired of
\* the oldest matching message.
RemoveOne(K) ==
    LET matching == {i \in available(messages) : messages[i].kind \in K}
    IN  /\ matching # {}
        /\ messages' = deleted(messages, messages[Min(matching)].sequence)
        /\ current' = current - 1
        /\ UNCHANGED <<version, sequence, cursor, unacked, pc>>

\* Queue::seek(cursor, start) for a subscription that does not acquire and
\* picks where it starts to read.
Seek(c, start) ==
    /\ ~preAcquires(c)
    /\ unacked[c] = {}
    /\ cursor' = [cursor EXCEPT ![c] = findCursor(messages, version, @, start)]
    /\ UNCHANGED <<messages, version, sequence, unacked, current, pc>>

\* The queue of a backup broker, until it is promoted: nobody has subscribed.
Backup == Replicated /\ \A c \in Subscriptions : ~cursor[c].valid /\ unacked[c] = {}

\* Queue::dequeueMessageAt, as QueueReplicator calls it.
DequeueMessageAt(n) ==
    /\ Backup
    /\ find(messages, n)
    /\ messages' = deleted(messages, n)
    /\ current' = current - 1
    /\ UNCHANGED <<version, sequence, cursor, unacked, pc>>

\* Queue::setPosition.  The caller must have dequeued everything after n, so
\* the remove() it starts with finds nothing.
SetPosition(n) ==
    /\ Backup
    /\ \A i \in Live(messages) : messages[i].sequence <= n
    /\ sequence' = n
    /\ UNCHANGED <<messages, version, cursor, unacked, current, pc>>

----------------------------------------------------------------------------
Publish ==
    \E p \in Publishers :
        \/ CheckDepth(p) \/ RingPurge(p) \/ RingGiveUp(p) \/ EnqueueAborted(p)
        \/ \E k \in Kinds : Push(p, k)

Get == \E c \in Subscriptions :
    \/ GetExpired(c) \/ GetUnwanted(c) \/ GetMessage(c)
    \/ GetWithoutCredit(c) \/ GetNothing(c)

Settle == \E c \in Subscriptions : \E r \in unacked[c] :
    Dequeue(c, r) \/ Release(c, r) \/ AcquireShown(c, r)

Manage ==
    \/ \E K \in {Kinds, Perishable} : RemoveOne(K)
    \/ \E c \in Subscriptions, n \in 0 .. MaxSequence : Seek(c, n)
    \/ \E n \in 0 .. MaxSequence : DequeueMessageAt(n) \/ SetPosition(n)

Next == Publish \/ Get \/ Settle \/ Manage

Spec == Init /\ [][Next]_vars

----------------------------------------------------------------------------
(* Properties                                                              *)

\* index() computes a message's place from its sequence number, "assuming a
\* monotonic sequence, with no messages removed except from the ends": the
\* numbers in the deque are consecutive, through every mix of publishing,
\* cleaning, tail stripping and padding.
Contiguous ==
    \A i \in DOMAIN messages : messages[i].sequence = front(messages) + i - 1

\* publish() can never throw "Index out of sequence!": no message still on
\* the queue is numbered after Queue::sequence.
InSequence == inSequence(messages, sequence + 1)

\* next() agrees with its promise in Messages.h, stated without indexes: what
\* a cursor that need not restart is shown are the messages numbered after
\* its position.
NextByPosition ==
    \A c \in Subscriptions :
        candidates(messages, version, cursor[c]) =
            {i \in DOMAIN messages :
                /\ check(cursor[c], messages[i])
                /\ reset(cursor[c], version) \/ messages[i].sequence > cursor[c].position}

\* Nothing a consumer could take is left behind its cursor: a consumer whose
\* cursor is up to date has passed only messages its selector refuses.  This
\* is what release() bumps the version for.
NoSkipped ==
    \A c \in Subscriptions :
        preAcquires(c) /\ ~reset(cursor[c], version) =>
            \A i \in available(messages) :
                messages[i].sequence <= cursor[c].position =>
                    messages[i].kind \notin Selector[c]

Holders(n) ==
    {c \in Subscriptions : [position |-> n, acquired |-> TRUE] \in unacked[c]}

\* A message is acquired exactly while one delivery record owns it: no two
\* subscriptions hold the same message, and no acquired message is orphaned.
AcquiredIsOwned ==
    /\ \A c \in Subscriptions : \A r \in unacked[c] :
           r.acquired => /\ find(messages, r.position)
                         /\ messages[offset(messages, r.position) + 1].state = "ACQUIRED"
    /\ \A i \in DOMAIN messages :
           messages[i].state = "ACQUIRED" =>
               \E c \in Subscriptions : Holders(messages[i].sequence) = {c}

\* Queue::current counts the messages on the queue and the ones whose enqueue
\* has reserved their place, whatever path each of them leaves by.
DepthExact ==
    current = Cardinality(Live(messages)) + Cardinality({p \in Publishers : pc[p] = "push"})

\* The numbers of the messages on the queue.
OnQueue == {messages[i].sequence : i \in Live(messages)}

\* A message that has left the queue never comes back: a number appears on
\* the queue only by being handed out to a published message.
NoResurrectionStep == OnQueue' \subseteq OnQueue \cup (IF sequence' > sequence THEN {sequence'} ELSE {})

NoResurrection == [][NoResurrectionStep]_vars

----------------------------------------------------------------------------
(* Refinement                                                              *)

InState(s) ==
    {[sequence |-> messages[i].sequence, kind |-> messages[i].kind] :
        i \in {j \in DOMAIN messages : messages[j].state = s}}

Fifo == INSTANCE FifoQueue WITH
    Numbers <- 1 .. MaxSequence,
    Consumers <- {c \in Subscriptions : preAcquires(c)},
    waiting <- InState("AVAILABLE"),
    taken <- InState("ACQUIRED"),
    owns <- [c \in Subscriptions |->
                {r.position : r \in {x \in unacked[c] : x.acquired}}]

\* A plain queue is a FIFO queue: in particular a consumer is always given the
\* oldest available message that its selector passes, although it only looks
\* at what lies beyond its cursor and other threads release, expire, purge and
\* acquire messages between two looks.
ImplementsFifo == Fifo!FifoSpec
=============================================================================
