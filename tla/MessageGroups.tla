--------------------------- MODULE MessageGroups ---------------------------
(***************************************************************************)
(* A queue whose messages are grouped: MessageGroupManager is both its     *)
(* distributor, which lets a consumer acquire a message only if the group  *)
(* is free or its own, and an observer that keeps the books.  Every action *)
(* is one critical section of Queue::messageLock.  The container is that   *)
(* of IndexedDeque; the kind of a message is its group.                    *)
(*                                                                         *)
(* findGroup caches the group it looked up last.  Every observer calls it  *)
(* first, so the group dequeued() erases is always the cached one and the  *)
(* cache is cleared with it: the lookup is left out.                       *)
(***************************************************************************)
EXTENDS IndexedDeque, FiniteSets

CONSTANTS
    Subscriptions,
    TypeOf,       \* their SubscriptionType: CONSUMER or BROWSER
    AcquiresAs,   \* the name Queue passes to MessageGroupManager::acquire for
                  \* each one: Consumer::getName for a consumer, the tag of the
                  \* delivery record for a browser that sends message.acquire
    Perishable,   \* the groups whose messages have a TTL
    MaxSequence,  \* bound: messages published
    MaxVersion    \* bound: times the cursors are reset

ASSUME GroupAssumption ==
    /\ TypeOf \in [Subscriptions -> {"CONSUMER", "BROWSER"}]
    /\ DOMAIN AcquiresAs = Subscriptions
    /\ Perishable \subseteq Kinds
    /\ MaxSequence \in Nat /\ MaxVersion \in Nat

VARIABLES
    messages,       \* IndexedDeque::messages
    version,        \* IndexedDeque::version
    sequence,       \* Queue::sequence
    cursor,         \* the QueueCursor of each subscription
    unacked,        \* its delivery records: [position, acquired]
    messageGroups,  \* the GroupState of each group
    freeGroups      \* pairs <<position of the first member, group>>

queueVars == <<messages, version, sequence, cursor, unacked>>
vars == <<queueVars, messageGroups, freeGroups>>

Nobody == "nobody"

\* A group the manager does not know, or has erased.
NoGroup == [owner |-> Nobody, acquired |-> 0, members |-> {}, held |-> {}]

\* members and held are the positions in the deque `members' and those of them
\* marked acquired; the deque is in the order of its positions.
GroupState ==
    [owner : {AcquiresAs[c] : c \in Subscriptions} \cup {Nobody}, acquired : Nat,
     members : SUBSET (1 .. MaxSequence), held : SUBSET (1 .. MaxSequence)]

TypeOK ==
    /\ messages \in Seq(Message)
    /\ version \in 0 .. MaxVersion /\ sequence \in 0 .. MaxSequence
    /\ cursor \in [Subscriptions -> QueueCursor]
    /\ unacked \in [Subscriptions -> SUBSET [position : 1 .. MaxSequence, acquired : BOOLEAN]]
    /\ messageGroups \in [Kinds -> GroupState]
    /\ freeGroups \subseteq (1 .. MaxSequence) \X Kinds

Init ==
    /\ messages = << >> /\ version = 0 /\ sequence = 0
    /\ cursor = [c \in Subscriptions |-> NewCursor(TypeOf[c])]
    /\ unacked = [c \in Subscriptions |-> {}]
    /\ messageGroups = [g \in Kinds |-> NoGroup]
    /\ freeGroups = {}

----------------------------------------------------------------------------
(* MessageGroupManager, on a GroupState g                                  *)

owned(g) == g.owner # Nobody

first(g) == Min(g.members)

\* Mutant: the entry stays.
unFreeNot(fg, k, g) == fg

\* freeGroups without and with the entry of group k, whose state is g.
unFree(fg, k, g) == fg \ {<<first(g), k>>}

reFree(fg, k, g) == fg \cup {<<first(g), k>>}

\* May this name acquire messages of the group?
mayOwn(g, name) == owned(g) => g.owner = name

\* acquired()
marked(g, p) == [g EXCEPT !.held = @ \cup {p}, !.acquired = @ + 1]

\* The books without message p.
without(g, p) ==
    [g EXCEPT !.members = @ \ {p}, !.held = @ \ {p},
              !.acquired = IF p \in g.held THEN @ - 1 ELSE @]

\* Its owner holds no message of the group any more.
released(g) == owned(g) /\ g.acquired = 0

disowned(g) == IF released(g) THEN [g EXCEPT !.owner = Nobody] ELSE g

\* enqueued()
Enqueued(k, p) ==
    LET g == [messageGroups[k] EXCEPT !.members = @ \cup {p}]
    IN  /\ messageGroups' = [messageGroups EXCEPT ![k] = g]
        /\ freeGroups' = IF Cardinality(g.members) = 1 THEN reFree(freeGroups, k, g) ELSE freeGroups

\* Mutant: the owner is not checked again, the last one to ask owns the group.
AcquiredByAnyone(k, p, name) ==
    LET g == messageGroups[k]
    IN  /\ messageGroups' = [messageGroups EXCEPT ![k] = [marked(g, p) EXCEPT !.owner = name]]
        /\ freeGroups' = unFree(freeGroups, k, g)

\* acquire() and the acquired() that Queue calls next.
Acquired(k, p, name) ==
    LET g == messageGroups[k]
    IN  /\ mayOwn(g, name)
        /\ messageGroups' = [messageGroups EXCEPT ![k] = [marked(g, p) EXCEPT !.owner = name]]
        /\ freeGroups' = IF owned(g) THEN freeGroups ELSE unFree(freeGroups, k, g)

\* requeued()
Requeued(k, p) ==
    LET g == [messageGroups[k] EXCEPT !.held = @ \ {p}, !.acquired = @ - 1]
    IN  /\ messageGroups' = [messageGroups EXCEPT ![k] = disowned(g)]
        /\ freeGroups' = IF released(g) THEN reFree(freeGroups, k, g) ELSE freeGroups

\* dequeued() for the message at p of the group in state g0; a group that
\* loses its first member moves in freeGroups.
Dequeued(k, g0, p) ==
    LET g == without(g0, p)
        rest == IF ~owned(g0) /\ p = first(g0) THEN unFree(freeGroups, k, g0) ELSE freeGroups
    IN  /\ messageGroups' = [messageGroups EXCEPT ![k] = IF g.members = {} THEN NoGroup ELSE disowned(g)]
        /\ freeGroups' = IF g.members # {} /\ (released(g) \/ rest # freeGroups)
                         THEN reFree(rest, k, g) ELSE rest

\* Mutant: nobody looks again at the messages of a group that is set free.
CursorsKept(g) == UNCHANGED version

\* dequeued() resets the cursors when it sets a group free that still has
\* messages; g is the group without the message.
ResetCursors(g) ==
    IF g.members # {} /\ released(g)
    THEN version < MaxVersion /\ version' = version + 1
    ELSE UNCHANGED version

----------------------------------------------------------------------------
(* Queue                                                                   *)

\* deliverTo: push().
Publish(k) ==
    /\ sequence < MaxSequence
    /\ sequence' = sequence + 1
    /\ messages' = publish(messages, sequence + 1, k)
    /\ Enqueued(k, sequence + 1)
    /\ UNCHANGED <<version, cursor, unacked>>

\* One iteration of the loop of getNextMessage.
NextFor(c) == next(messages, version, cursor[c])

Advance(c) == cursor' = [cursor EXCEPT ![c] = nextCursor(messages, version, @)]

GetExpired(c) ==
    LET m == messages[NextFor(c)]
    IN  /\ NextFor(c) # 0 /\ m.kind \in Perishable
        /\ Advance(c)
        /\ Dequeued(m.kind, messageGroups[m.kind], m.sequence)
        /\ ResetCursors(without(messageGroups[m.kind], m.sequence))
        /\ messages' = deleted(messages, m.sequence)
        /\ UNCHANGED <<sequence, unacked>>

GetMessage(c) ==
    LET m == messages[NextFor(c)]
    IN  /\ NextFor(c) # 0 /\ TypeOf[c] = "CONSUMER"
        /\ Acquired(m.kind, m.sequence, AcquiresAs[c])
        /\ Advance(c)
        /\ messages' = acquire(messages, NextFor(c))
        /\ unacked' = [unacked EXCEPT ![c] = @ \cup {[position |-> m.sequence, acquired |-> TRUE]}]
        /\ UNCHANGED <<version, sequence>>

\* The group belongs to another consumer: try another message.
GetBlocked(c) ==
    /\ NextFor(c) # 0 /\ TypeOf[c] = "CONSUMER"
    /\ ~mayOwn(messageGroups[messages[NextFor(c)].kind], AcquiresAs[c])
    /\ Advance(c)
    /\ UNCHANGED <<messages, version, sequence, unacked, messageGroups, freeGroups>>

\* A browser is shown the message, whoever owns the group.
GetShown(c) ==
    /\ NextFor(c) # 0 /\ TypeOf[c] = "BROWSER"
    /\ Advance(c)
    /\ unacked' = [unacked EXCEPT ![c] =
                     @ \cup {[position |-> messages[NextFor(c)].sequence, acquired |-> FALSE]}]
    /\ UNCHANGED <<messages, version, sequence, messageGroups, freeGroups>>

GetNothing(c) ==
    /\ NextFor(c) = 0
    /\ Advance(c)
    /\ UNCHANGED <<messages, version, sequence, unacked, messageGroups, freeGroups>>

At(p) == messages[offset(messages, p) + 1]

EndRecord(c, r) == unacked' = [unacked EXCEPT ![c] = @ \ {r}]

\* message.accept and message.reject.
Dequeue(c, r) ==
    LET g == messageGroups[At(r.position).kind]
    IN  /\ EndRecord(c, r)
        /\ IF r.acquired /\ find(messages, r.position)
           THEN /\ Dequeued(At(r.position).kind, g, r.position)
                /\ ResetCursors(without(g, r.position))
                /\ messages' = deleted(messages, r.position)
           ELSE UNCHANGED <<messages, version, messageGroups, freeGroups>>
        /\ UNCHANGED <<sequence, cursor>>

\* message.release, requeue: messages->release() resets the cursors.
Release(c, r) ==
    /\ r.acquired /\ found(messages, r.position)
    /\ EndRecord(c, r)
    /\ messages' = release(messages, r.position)
    /\ version < MaxVersion /\ version' = version + 1
    /\ Requeued(At(r.position).kind, r.position)
    /\ UNCHANGED <<sequence, cursor>>

\* message.acquire for a message that was shown.
AcquireShown(c, r) ==
    /\ ~r.acquired /\ find(messages, r.position)
    /\ At(r.position).state = "AVAILABLE"
    /\ Acquired(At(r.position).kind, r.position, AcquiresAs[c])
    /\ messages' = acquire(messages, offset(messages, r.position) + 1)
    /\ unacked' = [unacked EXCEPT ![c] = (@ \ {r}) \cup {[r EXCEPT !.acquired = TRUE]}]
    /\ UNCHANGED <<version, sequence, cursor>>

\* Queue::remove (purge, move) of an available message: it behaves as if the
\* message was acquired first, but for the owner.
Remove(i) ==
    LET m == messages[i]
        g == marked(messageGroups[m.kind], m.sequence)
    IN  /\ Dequeued(m.kind, g, m.sequence)
        /\ ResetCursors(without(g, m.sequence))
        /\ messages' = deleted(messages, m.sequence)
        /\ UNCHANGED <<sequence, cursor, unacked>>

Next ==
    \/ \E k \in Kinds : Publish(k)
    \/ \E c \in Subscriptions :
         \/ GetExpired(c) \/ GetMessage(c) \/ GetBlocked(c) \/ GetShown(c) \/ GetNothing(c)
         \/ \E r \in unacked[c] : Dequeue(c, r) \/ Release(c, r) \/ AcquireShown(c, r)
    \/ \E i \in available(messages) : Remove(i)

Spec == Init /\ [][Next]_vars

----------------------------------------------------------------------------
(* Properties                                                              *)

Positions(k) == {messages[i].sequence : i \in {j \in Live(messages) : messages[j].kind = k}}

Holds(c, k) == {r.position : r \in {s \in unacked[c] : s.acquired}} \cap Positions(k)

\* "The broker will not allow outstanding unacknowledged messages to more than
\* one consumer for a given group": the messages of a group that are acquired
\* are all held under the name of its owner, and a group has an owner exactly
\* while such messages exist, however the others are expired, purged, moved,
\* released or settled around them (stated with the domains of the variables).
OneConsumerPerGroup ==
    /\ TypeOK
    /\ \A k \in Kinds :
          LET holders == {c \in Subscriptions : Holds(c, k) # {}}
          IN  /\ \A c \in holders : AcquiresAs[c] = messageGroups[k].owner
              /\ owned(messageGroups[k]) <=> holders # {}

\* The books agree with the queue, which the manager's assertions rely on: the
\* members of each group are its messages on the queue, and freeGroups lists
\* each group without an owner, at its first message.
BooksAreExact ==
    /\ \A k \in Kinds :
         /\ messageGroups[k].members = Positions(k)
         /\ messageGroups[k].held = {messages[i].sequence : i \in
                {j \in Live(messages) : messages[j].kind = k /\ messages[j].state = "ACQUIRED"}}
         /\ messageGroups[k].acquired = Cardinality(messageGroups[k].held)
    /\ freeGroups = {<<first(messageGroups[k]), k>> : k \in
           {j \in Kinds : Positions(j) # {} /\ ~owned(messageGroups[j])}}

\* A consumer passes the messages of a group that is not its own: once the
\* group is free, or its own, none of them is left behind the cursor, so the
\* messages of a group are taken in order.
NoGroupSkipped ==
    \A c \in Subscriptions :
        TypeOf[c] = "CONSUMER" /\ ~reset(cursor[c], version) =>
            \A i \in available(messages) :
                messages[i].sequence <= cursor[c].position =>
                    ~mayOwn(messageGroups[messages[i].kind], AcquiresAs[c])
=============================================================================
