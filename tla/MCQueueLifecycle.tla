--------------------------- MODULE MCQueueLifecycle ---------------------------
(* Queue settings for TLC, for sessions "s1" and "s2".                     *)
EXTENDS QueueLifecycle

\* Durable, deleted some time after its last user has gone.
Delayed ==
    [autodelete |-> TRUE, lifetime |-> "unused", delay |-> TRUE, durable |-> TRUE,
     failing |-> TRUE, deleters |-> {}, times |-> 1]

\* Transient, deleted as soon as it is unused and empty.
Memory ==
    [autodelete |-> TRUE, lifetime |-> "unused and empty", delay |-> FALSE,
     durable |-> FALSE, failing |-> FALSE, deleters |-> {}, times |-> 2]

\* Durable, deleted by one of its clients.
Permanent ==
    [autodelete |-> FALSE, lifetime |-> "unused", delay |-> FALSE, durable |-> TRUE,
     failing |-> TRUE, deleters |-> {"s1"}, times |-> 2]

AllSettings == {Delayed, Memory, Permanent}
===============================================================================
