--------------------------- MODULE MCSemanticState ---------------------------
(* Clients of a session for TLC.                                           *)
EXTENDS SemanticState

\* Consumes in window mode and settles every message.
Consumer ==
    [ackExpected |-> TRUE, acquires |-> TRUE, window |-> TRUE, grants |-> {1, 2},
     commands |-> {"reject", "release", "stop", "cancel", "close"}]

\* Browses and acquires some of what it sees.
Browser ==
    [ackExpected |-> TRUE, acquires |-> FALSE, window |-> FALSE, grants |-> {1, 7},
     commands |-> {"reject", "release", "acquire", "cancel", "close"}]

\* Consumes without accepts and changes its flow mode.
Careless ==
    [ackExpected |-> FALSE, acquires |-> TRUE, window |-> TRUE, grants |-> {1, 7},
     commands |-> {"mode", "stop", "cancel", "close"}]

\* Browses without accepts and acquires.
Picker ==
    [ackExpected |-> FALSE, acquires |-> FALSE, window |-> FALSE, grants |-> {1, 7},
     commands |-> {"release", "acquire", "cancel", "close"}]

\* Consumes in window mode, gives messages back and acquires them again: a
\* released record is kept until it is completed, and acquires although ended.
Returner ==
    [ackExpected |-> TRUE, acquires |-> TRUE, window |-> TRUE, grants |-> {2},
     commands |-> {"release", "acquire", "cancel", "close"}]

AllClients == {Consumer, Browser, Careless, Picker, Returner}
==============================================================================
