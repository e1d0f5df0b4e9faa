------------------------------ MODULE FifoQueue ------------------------------
(***************************************************************************)
(* What a FIFO queue promises its subscriptions, without deque, cursors,   *)
(* versions or clean-up: a consumer that takes a message takes the oldest  *)
(* available one its selector passes, at that moment; only the owner of an *)
(* acquired message gives it back; what has left the queue is gone.        *)
(***************************************************************************)
EXTENDS Integers

CONSTANTS
    Kinds,          \* what a selector can tell apart
    Numbers,        \* sequence numbers
    Subscriptions,
    Selector,       \* the kinds each subscription wants
    Consumers       \* the subscriptions that acquire what they are given

VARIABLES
    waiting,   \* the available messages, as records [sequence, kind]
    taken,     \* the acquired ones
    owns       \* the numbers of the messages each subscription has acquired

fifoVars == <<waiting, taken, owns>>

FifoInit ==
    /\ waiting = {}
    /\ taken = {}
    /\ owns = [c \in Subscriptions |-> {}]

\* A new message goes behind every message on the queue.
Publish(m) ==
    /\ \A n \in waiting \cup taken : n.sequence < m.sequence
    /\ waiting' = waiting \cup {m}
    /\ UNCHANGED <<taken, owns>>

Acquire(c, m) ==
    /\ m \in waiting
    /\ waiting' = waiting \ {m}
    /\ taken' = taken \cup {m}
    /\ owns' = [owns EXCEPT ![c] = @ \cup {m.sequence}]

\* A consumer is given the oldest message it wants.
Take(c, m) ==
    /\ c \in Consumers
    /\ m.kind \in Selector[c]
    /\ \A n \in waiting : n.kind \in Selector[c] => m.sequence <= n.sequence
    /\ Acquire(c, m)

\* The others may ask for any message they have been shown.
Ask(c, m) == c \in Subscriptions \ Consumers /\ Acquire(c, m)

\* A message that nobody has acquired is removed: expired, purged, moved.
Discard(m) ==
    /\ m \in waiting
    /\ waiting' = waiting \ {m}
    /\ UNCHANGED <<taken, owns>>

GiveUp(c, m) ==
    /\ m \in taken
    /\ m.sequence \in owns[c]
    /\ taken' = taken \ {m}
    /\ owns' = [owns EXCEPT ![c] = @ \ {m.sequence}]

\* The owner accepts or rejects a message ...
Finish(c, m) == GiveUp(c, m) /\ UNCHANGED waiting

\* ... or gives it back, to its old place.
GiveBack(c, m) == GiveUp(c, m) /\ waiting' = waiting \cup {m}

FifoNext ==
    \/ \E n \in Numbers, k \in Kinds : Publish([sequence |-> n, kind |-> k])
    \/ \E c \in Subscriptions, m \in waiting : Take(c, m) \/ Ask(c, m)
    \/ \E m \in waiting : Discard(m)
    \/ \E c \in Subscriptions, m \in taken : Finish(c, m) \/ GiveBack(c, m)

FifoSpec == FifoInit /\ [][FifoNext]_fifoVars
=============================================================================
