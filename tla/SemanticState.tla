---------------------------- MODULE SemanticState ----------------------------
(***************************************************************************)
(* One session's view of one subscription: its delivery records            *)
(* (SemanticState::unacked), its flow-control state (Credit) and what the  *)
(* client's commands do to them.  The commands run on the session's one    *)
(* thread, so each is one step; what makes them hard is their order.  The  *)
(* queue is reduced to the state of each message, and other subscribers to *)
(* the state "OTHER" of a message one of them has acquired.                *)
(*                                                                         *)
(* Credit is in messages; byte credit is a second copy of the same         *)
(* arithmetic.  Credit counters are unsigned words that wrap at Word       *)
(* (2^32 in the code) and whose largest value means unlimited.             *)
(***************************************************************************)
EXTENDS Integers, FiniteSets

CONSTANTS
    N,              \* bound: messages
    MaxDeliveries,  \* bound: delivery ids handed out
    Word,           \* the unsigned counters count modulo Word
    Clients         \* the subscriptions clients make, and what they then do

\* A client chooses the modes of its subscription and the flow mode it starts
\* with (TRUE is window); grants are the values of its message.flow commands,
\* and commands what it uses besides flow, accept and complete.
Client ==
    [ackExpected : BOOLEAN,    \* accept-mode explicit?
     acquires : BOOLEAN,       \* acquire-mode pre-acquired?
     window : BOOLEAN,
     grants : SUBSET (0 .. Word - 1),
     commands : SUBSET {"reject", "release", "acquire", "stop", "mode", "cancel", "close"}]

ASSUME SessionAssumption ==
    /\ N \in Nat /\ MaxDeliveries \in Nat /\ Word \in Nat \ {0, 1}
    /\ Clients \subseteq Client

VARIABLES
    client,      \* the client, chosen at the start
    state,       \* of each message on the queue
    position,    \* the cursor of a subscription that does not acquire
    unacked,     \* the delivery records
    nextId,      \* the next DeliveryId
    windowing,   \* Credit::windowing
    balance,     \* Credit::balance.messages
    window,      \* Credit::window.messages: balance and used
    consuming,   \* is the subscription in SemanticState::consumers?
    stranded     \* history: messages acquired through a record that had ended

semanticVars ==
    <<client, state, position, unacked, nextId, windowing, balance, window, consuming, stranded>>

Msgs == 1 .. N

AckExpected == client.ackExpected
Acquires == client.acquires
ClientCommands == client.commands

DeliveryRecord ==
    [id : 1 .. MaxDeliveries, msg : Msgs, acquired : BOOLEAN, cancelled : BOOLEAN,
     completed : BOOLEAN, ended : BOOLEAN, windowing : BOOLEAN]

SemanticTypeOK ==
    /\ client \in Clients
    /\ state \in [Msgs -> {"AVAILABLE", "ACQUIRED", "OTHER", "GONE"}]
    /\ position \in 0 .. N
    /\ unacked \subseteq DeliveryRecord
    /\ nextId \in 1 .. MaxDeliveries + 1
    /\ windowing \in BOOLEAN
    /\ balance \in 0 .. Word - 1
    /\ window \in [balance : 0 .. Word - 1, used : 0 .. Word - 1]
    /\ consuming \in BOOLEAN
    /\ stranded \subseteq Msgs

SemanticInit ==
    /\ client \in Clients
    /\ state = [m \in Msgs |-> "AVAILABLE"]
    /\ position = 0
    /\ unacked = {}
    /\ nextId = 1
    /\ windowing = client.window
    /\ balance = 0
    /\ window = [balance |-> 0, used |-> 0]
    /\ consuming = TRUE
    /\ stranded = {}

----------------------------------------------------------------------------
(* Credit                                                                  *)

INFINITE_CREDIT == Word - 1

\* Mutant: grants add up without a limit.
grantedMore(b, v) == b + v

\* CreditBalance::grant: adds up to the largest limited value.
granted(b, v) ==
    IF b = INFINITE_CREDIT \/ v = INFINITE_CREDIT THEN INFINITE_CREDIT
    ELSE IF INFINITE_CREDIT - b > v THEN b + v ELSE INFINITE_CREDIT - 1

unlimited(b) == b = INFINITE_CREDIT

\* Credit::check(1): CreditWindow::check or CreditBalance::check.
check == IF windowing THEN window.balance >= (window.used + 1) % Word ELSE balance >= 1

\* Credit::consume(1).
consume ==
    IF windowing
    THEN /\ window' = [window EXCEPT !.used =
                           IF unlimited(window.balance) THEN @ ELSE (@ + 1) % Word]
         /\ UNCHANGED balance
    ELSE /\ balance' = IF unlimited(balance) THEN balance ELSE balance - 1
         /\ UNCHANGED window

\* CreditWindow::move(1).
moved(w) == IF unlimited(w.balance) THEN w ELSE [w EXCEPT !.used = (@ - 1) % Word]

----------------------------------------------------------------------------
(* Delivery records                                                        *)

Owned(r) == r.acquired /\ ~r.ended

isRedundant(r) == r.ended /\ (~r.windowing \/ r.completed \/ r.cancelled)

\* The records after r has become r2, redundant ones of the range erased.
Updated(r, r2) == (unacked \ {r}) \cup (IF isRedundant(r2) THEN {} ELSE {r2})

\* SemanticStateConsumerImpl::deliver of the next message on the queue.
Deliverable ==
    {m \in Msgs : state[m] = "AVAILABLE" /\ (Acquires \/ m > position)}

Deliver(m) ==
    /\ consuming /\ check /\ nextId <= MaxDeliveries
    /\ m \in Deliverable /\ \A n \in Deliverable : m <= n
    /\ position' = m
    /\ nextId' = nextId + 1
    /\ consume
    /\ state' = IF ~Acquires THEN state
                ELSE [state EXCEPT ![m] = IF AckExpected THEN "ACQUIRED" ELSE "GONE"]
    /\ unacked' = IF ~(windowing \/ AckExpected \/ ~Acquires) THEN unacked
                  ELSE unacked \cup {[id |-> nextId, msg |-> m, acquired |-> Acquires,
                                      cancelled |-> FALSE, completed |-> FALSE,
                                      ended |-> ~AckExpected /\ Acquires,
                                      windowing |-> windowing]}
    /\ UNCHANGED <<client, windowing, consuming, stranded>>

Dequeued(r) == [state EXCEPT ![r.msg] = "GONE"]

\* message.accept: accepted() / DeliveryRecord::accept outside a transaction.
Accept(r) ==
    /\ state' = IF Owned(r) THEN Dequeued(r) ELSE state
    /\ unacked' = Updated(r, [r EXCEPT !.ended = TRUE])
    /\ UNCHANGED <<client, position, nextId, windowing, balance, window, consuming, stranded>>

\* message.reject, which ignores what the record does not own.
Reject(r) ==
    /\ "reject" \in ClientCommands
    /\ state' = IF Owned(r) THEN Dequeued(r) ELSE state
    /\ unacked' = Updated(r, IF Owned(r) THEN [r EXCEPT !.ended = TRUE] ELSE r)
    /\ UNCHANGED <<client, position, nextId, windowing, balance, window, consuming, stranded>>

\* Mutant: the record is not ended.
ReleaseKeeping(r) ==
    /\ "release" \in ClientCommands /\ Owned(r)
    /\ state' = [state EXCEPT ![r.msg] = "AVAILABLE"]
    /\ UNCHANGED <<client, position, unacked, nextId, windowing, balance, window, consuming, stranded>>

\* message.release, likewise.
Release(r) ==
    /\ "release" \in ClientCommands
    /\ state' = IF Owned(r) THEN [state EXCEPT ![r.msg] = "AVAILABLE"] ELSE state
    /\ unacked' = Updated(r, IF Owned(r) THEN [r EXCEPT !.acquired = FALSE, !.ended = TRUE] ELSE r)
    /\ UNCHANGED <<client, position, nextId, windowing, balance, window, consuming, stranded>>

\* message.acquire: DeliveryRecord::acquire, which looks at the queue only.
\* Without accepts to wait for, the message is dequeued at once.  A record that
\* has ended (released, or accepted without being acquired) and is kept for its
\* window acquires as well, but can never settle what it then holds.
Acquire(r) ==
    /\ "acquire" \in ClientCommands
    /\ state[r.msg] = "AVAILABLE"
    /\ \/ /\ AckExpected \/ r.ended
          /\ state' = [state EXCEPT ![r.msg] = "ACQUIRED"]
          /\ unacked' = (unacked \ {r}) \cup {[r EXCEPT !.acquired = TRUE]}
       \/ /\ ~AckExpected /\ ~r.ended
          /\ state' = Dequeued(r)
          /\ unacked' = (unacked \ {r}) \cup {[r EXCEPT !.acquired = TRUE, !.ended = TRUE]}
    /\ stranded' = IF r.ended THEN stranded \cup {r.msg} ELSE stranded
    /\ UNCHANGED <<client, position, nextId, windowing, balance, window, consuming>>

\* Mutant: a record can be completed twice.
CompleteAgain(r) ==
    /\ window' = IF consuming /\ windowing THEN moved(window) ELSE window
    /\ unacked' = Updated(r, [r EXCEPT !.completed = @ \/ consuming])
    /\ UNCHANGED <<client, state, position, nextId, windowing, balance, consuming, stranded>>

\* session.completed: completed() / complete(), which reopens the window.
Complete(r) ==
    /\ window' = IF consuming /\ ~r.completed /\ windowing THEN moved(window) ELSE window
    /\ unacked' = Updated(r, [r EXCEPT !.completed = @ \/ consuming])
    /\ UNCHANGED <<client, state, position, nextId, windowing, balance, consuming, stranded>>

----------------------------------------------------------------------------
(* Flow control and the end of the subscription                            *)

\* message.flow.
Flow(v) ==
    /\ consuming
    /\ window' = IF windowing THEN [window EXCEPT !.balance = granted(@, v)] ELSE window
    /\ balance' = IF windowing THEN balance ELSE granted(balance, v)
    /\ UNCHANGED <<client, state, position, unacked, nextId, windowing, consuming, stranded>>

\* message.stop (and the end of message.flush): Credit::cancel.
Stop ==
    /\ "stop" \in ClientCommands /\ consuming
    /\ window' = IF windowing THEN [window EXCEPT !.balance = 0] ELSE window
    /\ balance' = IF windowing THEN balance ELSE 0
    /\ UNCHANGED <<client, state, position, unacked, nextId, windowing, consuming, stranded>>

\* message.set-flow-mode.
SetFlowMode(mode) ==
    /\ "mode" \in ClientCommands /\ consuming
    /\ windowing' = mode
    /\ UNCHANGED <<client, state, position, unacked, nextId, balance, window, consuming, stranded>>

\* message.cancel: the records are marked, the redundant ones erased.
Cancel ==
    /\ "cancel" \in ClientCommands /\ consuming
    /\ consuming' = FALSE
    /\ unacked' = {r \in {[x EXCEPT !.cancelled = TRUE] : x \in unacked} : ~isRedundant(r)}
    /\ UNCHANGED <<client, state, position, nextId, windowing, balance, window, stranded>>

\* The session is closed: requeue() then the subscription is cancelled.
Close ==
    /\ "close" \in ClientCommands
    /\ state' = [m \in Msgs |->
                    IF \E r \in unacked : r.msg = m /\ Owned(r)
                    THEN "AVAILABLE" ELSE state[m]]
    /\ unacked' = {}
    /\ consuming' = FALSE
    /\ UNCHANGED <<client, position, nextId, windowing, balance, window, stranded>>

\* Another subscriber of the queue takes, returns or settles a message.
Other(m) ==
    /\ \/ state[m] = "AVAILABLE" /\ state' = [state EXCEPT ![m] = "OTHER"]
       \/ state[m] = "OTHER" /\ \E s \in {"AVAILABLE", "GONE"} : state' = [state EXCEPT ![m] = s]
    /\ UNCHANGED <<client, position, unacked, nextId, windowing, balance, window, consuming, stranded>>

SemanticNext ==
    \/ \E m \in Msgs : Deliver(m) \/ Other(m)
    \/ \E r \in unacked : Accept(r) \/ Reject(r) \/ Release(r) \/ Acquire(r) \/ Complete(r)
    \/ \E v \in client.grants : Flow(v)
    \/ \E mode \in BOOLEAN : SetFlowMode(mode)
    \/ Stop \/ Cancel \/ Close

SemanticSpec == SemanticInit /\ [][SemanticNext]_semanticVars

----------------------------------------------------------------------------
(* Properties                                                              *)

Owner(m) == {r \in unacked : r.msg = m /\ Owned(r)}

\* Every message this session has acquired is owned by exactly one delivery
\* record that can still settle it, in every order of accepts, rejects,
\* releases, acquires and completions: none is owned twice, and only one
\* command, message.acquire through a record that has ended but is kept for
\* its window, leaves a message acquired with nobody to accept or release it.
AcquiredHasOneOwner ==
    \A m \in Msgs :
        Cardinality(Owner(m)) = IF state[m] = "ACQUIRED" /\ m \notin stranded THEN 1 ELSE 0

Outstanding == {r \in unacked : r.windowing /\ ~r.completed}

\* The client keeps to one flow mode and to limited credit.
Steady == "mode" \notin ClientCommands /\ INFINITE_CREDIT \notin client.grants

\* The window's `used' is the number of deliveries the client has not
\* completed, so that a grant of new credit is worth what it says.
WindowExact ==
    consuming /\ windowing /\ Steady => window.used = Cardinality(Outstanding)

=============================================================================
