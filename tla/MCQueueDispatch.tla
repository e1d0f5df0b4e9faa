--------------------------- MODULE MCQueueDispatch ---------------------------
(* Small instances of QueueDispatch for TLC.                               *)
EXTENDS QueueDispatch

\* Two consumers, a small and a large kind of message.
TypeOfTwo == [c1 |-> "CONSUMER", c2 |-> "CONSUMER"]
SizeTwo == [s |-> 1, l |-> 2]

\* A consumer with a selector and one without.
SelectorChoosy == [c1 |-> {"s"}, c2 |-> {"s", "l"}]

\* State constraint: after a message.stop that takes the credit of a willing
\* subscription, stopped stays true and both properties say nothing.
Unstopped == ~stopped
==============================================================================
