---------------------------- MODULE QueueDispatch ----------------------------
(***************************************************************************)
(* Who is told that a message is available.  MessageQueue composed with    *)
(* the queue's list of idle subscriptions (QueueListeners), the output     *)
(* tasks of their connections (AggregateOutput) and the subscriptions'     *)
(* credit (SemanticStateConsumerImpl).                                     *)
(*                                                                         *)
(* Every subscription has a session and a connection of its own, served by *)
(* one I/O thread at a time: that thread runs the connection's output      *)
(* tasks and the session's commands, one after the other.  A publisher is  *)
(* another thread.  Each action is one critical section: of messageLock    *)
(* (the ones that contain an action of MessageQueue), of the consumer's    *)
(* lock or of the connection's task lock.  Notifications are collected     *)
(* under messageLock and sent after it is released.                        *)
(*                                                                         *)
(* Of the actions of MessageQueue those are left out that this module      *)
(* gives no thread: message.acquire, a browser's choice of where to start, *)
(* and what a backup does with its queue.                                  *)
(***************************************************************************)
EXTENDS MessageQueue

CONSTANTS
    Size,        \* the byte credit a message of each kind needs
    Grants,      \* byte credit one message.flow command can add
    MaxCredit    \* bound: credit of a subscription

\* A publisher is a thread of its own, not a subscription's.
ASSUME ThreadAssumption == Publishers \cap Subscriptions = {}

ASSUME CreditAssumption ==
    /\ Size \in [Kinds -> Nat \ {0}]
    /\ Grants \subseteq Nat \ {0}
    /\ MaxCredit \in Nat

VARIABLES
    listeners,   \* QueueListeners::consumers, first to be told first
    browsers,    \* QueueListeners::browsers
    notifying,   \* the NotificationSet each thread still has to notify
    scheduled,   \* subscriptions in their connection's AggregateOutput::tasks
    thread,      \* what the I/O thread of each connection is in the middle of
    credit,      \* byte credit (message credit is unlimited)
    blocked,     \* SemanticStateConsumerImpl::blocked
    enabled,     \* SemanticStateConsumerImpl::notifyEnabled
    subscribed,  \* is the subscription in SemanticState::consumers?
    stopped,     \* history: has message.stop taken the credit of a subscription
                 \* that was not waiting for credit?
    overwritten  \* history: consumers that were put in a set to be notified
                 \* and replaced there before they were told

dispatchVars == <<listeners, browsers, notifying, scheduled, thread,
                  credit, blocked, enabled, subscribed, stopped, overwritten>>

allVars == <<messages, version, sequence, cursor, unacked, current, pc,
             listeners, browsers, notifying, scheduled, thread,
             credit, blocked, enabled, subscribed, stopped, overwritten>>

Threads == Publishers \cup Subscriptions

NotificationSet == [consumer : SUBSET Subscriptions, browsers : SUBSET Subscriptions]

NoNotification == [consumer |-> {}, browsers |-> {}]

DispatchTypeOK ==
    /\ TypeOK
    /\ listeners \in Seq(Subscriptions)
    /\ browsers \subseteq Subscriptions
    /\ notifying \in [Threads -> NotificationSet]
    /\ scheduled \subseteq Subscriptions
    /\ thread \in [Subscriptions -> {"idle", "loop", "found", "cancel", "close"}]
    /\ credit \in [Subscriptions -> 0 .. MaxCredit]
    /\ blocked \in [Subscriptions -> BOOLEAN]
    /\ enabled \in [Subscriptions -> BOOLEAN]
    /\ subscribed \in [Subscriptions -> BOOLEAN]
    /\ stopped \in BOOLEAN
    /\ overwritten \subseteq Subscriptions

DispatchInit ==
    /\ Init
    /\ listeners = << >>
    /\ browsers = {}
    /\ notifying = [t \in Threads |-> NoNotification]
    /\ scheduled = {}
    /\ thread = [c \in Subscriptions |-> "idle"]
    /\ credit = [c \in Subscriptions |-> 0]
    /\ blocked = [c \in Subscriptions |-> TRUE]
    /\ enabled = [c \in Subscriptions |-> TRUE]
    /\ subscribed = [c \in Subscriptions |-> TRUE]
    /\ stopped = FALSE
    /\ overwritten = {}

----------------------------------------------------------------------------
(* QueueListeners                                                          *)

inListeners(c) == c \in browsers \/ \E i \in DOMAIN listeners : listeners[i] = c

addListener(c) ==
    /\ listeners' = IF preAcquires(c) /\ ~inListeners(c) THEN Append(listeners, c) ELSE listeners
    /\ browsers' = IF preAcquires(c) THEN browsers ELSE browsers \cup {c}

\* What populate() makes of a set: at most one consumer and every browser are
\* taken off the lists, over whatever the set held before.
Populated(set) ==
    [consumer |-> IF listeners = << >> THEN set.consumer ELSE {Head(listeners)},
     browsers |-> browsers]

populate(t) ==
    /\ notifying' = [notifying EXCEPT ![t] = Populated(@)]
    /\ listeners' = IF listeners = << >> THEN listeners ELSE Tail(listeners)
    /\ browsers' = {}
    /\ overwritten' = overwritten \cup
           (IF listeners = << >> THEN {} ELSE notifying[t].consumer \ {Head(listeners)})

\* QueueListeners::remove: c is taken off the list, if it is on it.
erased(c) ==
    IF \E i \in DOMAIN listeners : listeners[i] = c
    THEN LET n == CHOOSE i \in DOMAIN listeners : listeners[i] = c
         IN  [i \in 1 .. Len(listeners) - 1 |-> listeners[IF i < n THEN i ELSE i + 1]]
    ELSE listeners

\* Mutant: nobody else is told.
removeListenerOnly(c, t) ==
    /\ listeners' = erased(c)
    /\ browsers' = browsers \ {c}
    /\ UNCHANGED notifying

\* removeListener(c) followed by populate(): the two in Queue::removeListener.
removeListener(c, t) ==
    LET others == erased(c)
        shown == browsers \ {c}
    IN  IF available(messages) = {}
        THEN listeners' = others /\ browsers' = shown /\ UNCHANGED notifying
        ELSE /\ notifying' = [notifying EXCEPT ![t] =
                    [consumer |-> IF others = << >> THEN @.consumer ELSE {Head(others)},
                     browsers |-> shown]]
             /\ listeners' = IF others = << >> THEN others ELSE Tail(others)
             /\ browsers' = {}

Targets(t) == IF notifying[t].consumer # {} THEN notifying[t].consumer ELSE notifying[t].browsers

\* NotificationSet::notify: the consumer, then the browsers, one call of
\* Consumer::notify at a time.
Notify(t, c) ==
    /\ c \in Targets(t)
    /\ t \in Subscriptions => thread[t] # "loop"
    /\ notifying' = [notifying EXCEPT ![t].consumer = @ \ {c}, ![t].browsers = @ \ {c}]
    /\ scheduled' = IF enabled[c] THEN scheduled \cup {c} ELSE scheduled
    /\ UNCHANGED <<vars, listeners, browsers, thread, credit, blocked, enabled, subscribed,
                   stopped, overwritten>>

Free(t) == notifying[t] = NoNotification

\* The session of c is open and its thread is between two pieces of work.
Ready(c) == thread[c] = "idle" /\ Free(c) /\ (enabled[c] \/ ~subscribed[c])

----------------------------------------------------------------------------
(* Publishers                                                              *)

Reserve(p) == Free(p) /\ CheckDepth(p) /\ UNCHANGED dispatchVars

Deliver(p, k) ==
    /\ Push(p, k)
    /\ populate(p)
    /\ UNCHANGED <<scheduled, thread, credit, blocked, enabled, subscribed, stopped>>

\* A ring makes room, the store fails, management removes a message: no
\* listener is told of any of them.
MakeRoom(p) == Free(p) /\ (RingPurge(p) \/ RingGiveUp(p)) /\ UNCHANGED dispatchVars

Abort(p) == Free(p) /\ EnqueueAborted(p) /\ UNCHANGED dispatchVars

Remove(K) == RemoveOne(K) /\ UNCHANGED dispatchVars

----------------------------------------------------------------------------
(* Output: AggregateOutput::doOutput runs the task of c                    *)

haveCredit(c) == credit[c] >= 1

DoOutput(c) ==
    /\ Ready(c) /\ c \in scheduled
    /\ scheduled' = scheduled \ {c}
    /\ \/ /\ haveCredit(c)
          /\ thread' = [thread EXCEPT ![c] = "loop"]
          /\ UNCHANGED blocked
       \/ /\ ~haveCredit(c)
          /\ blocked' = [blocked EXCEPT ![c] = TRUE]
          /\ UNCHANGED thread
    /\ UNCHANGED <<vars, listeners, browsers, notifying, credit, enabled, subscribed,
                   stopped, overwritten>>

\* Mutant: any credit will do.
HasCreditForSome(c) == haveCredit(c)

\* SemanticStateConsumerImpl::accept: is there credit for the next message?
HasCreditForNext(c) == credit[c] >= Size[messages[NextFor(c)].kind]

\* The iterations of Queue::getNextMessage.
LoopExpired(c) ==
    /\ thread[c] = "loop"
    /\ GetExpired(c)
    /\ UNCHANGED dispatchVars

\* Mutant: nobody else is asked to take the message.
LoopUnwantedSilent(c) ==
    /\ thread[c] = "loop"
    /\ GetUnwanted(c)
    /\ UNCHANGED dispatchVars

LoopUnwanted(c) ==
    /\ thread[c] = "loop"
    /\ GetUnwanted(c)
    /\ IF preAcquires(c) THEN populate(c)
       ELSE UNCHANGED <<notifying, listeners, browsers, overwritten>>
    /\ UNCHANGED <<scheduled, thread, credit, blocked, enabled, subscribed, stopped>>

\* A message for c: delivered, and its credit used, once the notifications
\* are out (LoopFound).
LoopMessage(c) ==
    /\ thread[c] = "loop"
    /\ NextFor(c) # 0 /\ HasCreditForNext(c)
    /\ GetMessage(c)
    /\ credit' = [credit EXCEPT ![c] = @ - Size[messages[NextFor(c)].kind]]
    /\ blocked' = [blocked EXCEPT ![c] = FALSE]
    /\ thread' = [thread EXCEPT ![c] = "found"]
    /\ UNCHANGED <<listeners, browsers, notifying, scheduled, enabled, subscribed,
                   stopped, overwritten>>

LoopWithoutCredit(c) ==
    /\ thread[c] = "loop"
    /\ NextFor(c) # 0 /\ ~HasCreditForNext(c)
    /\ GetWithoutCredit(c)
    /\ blocked' = [blocked EXCEPT ![c] = TRUE]
    /\ thread' = [thread EXCEPT ![c] = "idle"]
    /\ IF preAcquires(c) THEN populate(c)
       ELSE UNCHANGED <<notifying, listeners, browsers, overwritten>>
    /\ UNCHANGED <<scheduled, credit, enabled, subscribed, stopped>>

LoopNothing(c) ==
    /\ thread[c] = "loop"
    /\ GetNothing(c)
    /\ addListener(c)
    /\ thread' = [thread EXCEPT ![c] = "idle"]
    /\ UNCHANGED <<notifying, scheduled, credit, blocked, enabled, subscribed,
                   stopped, overwritten>>

\* doOutput() did something: the task goes to the back of the line again.
LoopFound(c) ==
    /\ thread[c] = "found" /\ Free(c)
    /\ thread' = [thread EXCEPT ![c] = "idle"]
    /\ scheduled' = scheduled \cup {c}
    /\ UNCHANGED <<vars, listeners, browsers, notifying, credit, blocked, enabled, subscribed,
                   stopped, overwritten>>

Loop(c) ==
    \/ LoopExpired(c) \/ LoopUnwanted(c) \/ LoopMessage(c)
    \/ LoopWithoutCredit(c) \/ LoopNothing(c) \/ LoopFound(c)

----------------------------------------------------------------------------
(* Session commands                                                        *)

\* message.flow: addByteCredit() then requestDispatch().
Flow(c, n) ==
    /\ Ready(c) /\ subscribed[c]
    /\ credit[c] + n <= MaxCredit
    /\ credit' = [credit EXCEPT ![c] = @ + n]
    /\ blocked' = [blocked EXCEPT ![c] = FALSE]
    /\ scheduled' = IF blocked[c] THEN scheduled \cup {c} ELSE scheduled
    /\ UNCHANGED <<vars, listeners, browsers, notifying, thread, enabled, subscribed,
                   stopped, overwritten>>

\* session.completed ends with requestDispatch(); the completions themselves
\* move no credit outside window mode.
Completed(c) ==
    /\ Ready(c) /\ subscribed[c] /\ blocked[c]
    /\ scheduled' = scheduled \cup {c}
    /\ blocked' = [blocked EXCEPT ![c] = FALSE]
    /\ UNCHANGED <<vars, listeners, browsers, notifying, thread, credit, enabled, subscribed,
                   stopped, overwritten>>

\* message.stop: credit.cancel().
Stop(c) ==
    /\ Ready(c) /\ subscribed[c]
    /\ credit' = [credit EXCEPT ![c] = 0]
    /\ stopped' = (stopped \/ ~blocked[c])
    /\ UNCHANGED <<vars, listeners, browsers, notifying, scheduled, thread,
                   blocked, enabled, subscribed, overwritten>>

\* message.accept and message.reject.
Accept(c, r) == Ready(c) /\ Dequeue(c, r) /\ UNCHANGED dispatchVars

\* Queue::release tells a listener when the message was still there.
ReleaseAndTell(c, r) ==
    /\ Release(c, r)
    /\ IF found(messages, r.position)
       THEN populate(c)
       ELSE UNCHANGED <<notifying, listeners, browsers, overwritten>>
    /\ UNCHANGED <<scheduled, thread, credit, blocked, enabled, subscribed, stopped>>

\* SemanticState::disable, which opens a cancel and a session's close.  A
\* session whose connection is lost is closed too: it cannot be resumed.
Disable(c, why) ==
    /\ Ready(c) /\ subscribed[c]
    /\ enabled' = [enabled EXCEPT ![c] = FALSE]
    /\ scheduled' = scheduled \ {c}
    /\ thread' = [thread EXCEPT ![c] = why]
    /\ UNCHANGED <<vars, listeners, browsers, notifying, credit, blocked, subscribed,
                   stopped, overwritten>>

\* A closing session first requeues what it has not settled; message.release
\* takes the same path in a session that goes on.
Requeue(c, r) == thread[c] = "close" /\ Free(c) /\ ReleaseAndTell(c, r)

\* Queue::cancel.
Cancel(c) ==
    /\ thread[c] \in {"cancel", "close"} /\ Free(c)
    /\ thread[c] = "close" => \A r \in unacked[c] : ~r.acquired
    /\ removeListener(c, c)
    /\ subscribed' = [subscribed EXCEPT ![c] = FALSE]
    /\ thread' = [thread EXCEPT ![c] = "idle"]
    /\ UNCHANGED <<vars, scheduled, credit, blocked, enabled, stopped, overwritten>>

Session(c) ==
    \/ \E n \in Grants : Flow(c, n)
    \/ Completed(c) \/ Stop(c) \/ Cancel(c)
    \/ \E why \in {"cancel", "close"} : Disable(c, why)
    \/ \E r \in unacked[c] : Accept(c, r) \/ Requeue(c, r)

----------------------------------------------------------------------------
DispatchNext ==
    \/ \E p \in Publishers :
           Reserve(p) \/ MakeRoom(p) \/ Abort(p) \/ \E k \in Kinds : Deliver(p, k)
    \/ \E K \in {Kinds, Perishable} : Remove(K)
    \/ \E t \in Threads, c \in Subscriptions : Notify(t, c)
    \/ \E c \in Subscriptions : DoOutput(c) \/ Loop(c) \/ Session(c)

\* A thread that has work in hand carries on with it: it finishes the
\* notifications it owes, runs the output tasks of its connection, and
\* completes a close.  Clients promise nothing.
Fairness ==
    /\ \A t \in Threads, c \in Subscriptions : WF_allVars(Notify(t, c))
    /\ \A c \in Subscriptions :
           /\ WF_allVars(DoOutput(c)) /\ WF_allVars(Loop(c)) /\ WF_allVars(Cancel(c))
           /\ WF_allVars(\E r \in unacked[c] : Requeue(c, r))

DispatchSpec == DispatchInit /\ [][DispatchNext]_allVars /\ Fairness

----------------------------------------------------------------------------
(* Properties                                                              *)

\* Is something on its way to c: a notification, its task, its own thread?
OnTheWay(c) ==
    \/ c \in scheduled
    \/ thread[c] # "idle"
    \/ \E t \in Threads : c \in notifying[t].consumer \cup notifying[t].browsers

\* c is able to take message i now: it is a consumer that no command disables,
\* its last look at the queue did not end for want of credit (blocked, until the
\* client's next grant or completion), and the notification meant for it, if
\* any, was not overwritten by a second populate() of its set.
Willing(c, i) ==
    /\ preAcquires(c) /\ enabled[c] /\ ~blocked[c] /\ c \notin overwritten
    /\ messages[i].state = "AVAILABLE"
    /\ messages[i].kind \in Selector[c]
    /\ Size[messages[i].kind] <= credit[c]

\* When nothing is in motion, no available message is left with a consumer that
\* is able to take it: no wake-up is lost between the listener list, the
\* notifications, the output tasks and the threads, but for the two ways in
\* which the code loses one.  A consumer whose place in a notification set is
\* overwritten is forgotten (Willing excepts it; this takes three consumers),
\* and message.stop leaves a subscription on the listener list that can no
\* longer take a message and uses up the notification meant for another one.
QuietMeansServed ==
    ~stopped /\ (\A c \in Subscriptions : ~OnTheWay(c)) =>
        \A c \in Subscriptions, i \in DOMAIN messages : ~Willing(c, i)

Number(n) == {i \in DOMAIN messages : messages[i].sequence = n}

\* A message that some idle consumer is able to take does not stay available
\* for ever while there is such a consumer, whatever the others do (short of
\* message.stop, as above).
EventuallyServed ==
    \A n \in 1 .. MaxSequence :
        []<>(stopped \/ \A c \in Subscriptions, i \in Number(n) : ~Willing(c, i))
=============================================================================
