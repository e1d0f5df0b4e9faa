--------------------------- MODULE MCMessageQueue ---------------------------
(* Small instances of MessageQueue for TLC.                                *)
EXTENDS MessageQueue

\* A consumer with a selector and one without.
TypeOfConsumers == [choosy |-> "CONSUMER", any |-> "CONSUMER"]
SelectorConsumers == [choosy |-> {"a"}, any |-> {"a", "b"}]

\* A consumer and the subscription of a backup broker.
TypeOfReplica == [any |-> "CONSUMER", replica |-> "REPLICATOR"]
SelectorReplica == [any |-> {"a"}, replica |-> {"a"}]
=============================================================================
