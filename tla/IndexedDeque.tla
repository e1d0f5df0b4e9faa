---------------------------- MODULE IndexedDeque ----------------------------
(***************************************************************************)
(* The message container behind a FIFO queue: IndexedDeque<Message>, which *)
(* MessageDeque forwards to, and the QueueCursor a subscription walks it   *)
(* with.  These are the container's operations as pure operators on the    *)
(* deque ms (a sequence of messages, front first), its release counter     *)
(* `version' and a cursor; the modules that hold a queue's state apply     *)
(* them under messageLock.                                                 *)
(*                                                                         *)
(* The member `head' of the C++ class is left out: it starts at 0 and both *)
(* places that assign it leave it at 0, so a scan from head is a scan from *)
(* the front.  Offsets are 0-based in the code and 1-based here.           *)
(***************************************************************************)
EXTENDS Integers, Sequences, FiniteSetsExt

CONSTANTS
    Kinds,       \* what a selector can tell apart about a message's content
    CleanLimit   \* DELETED records one call of clean() may drop (10 in the code)

ASSUME CleanLimitAssumption == CleanLimit \in Nat \ {0}

MessageStates == {"AVAILABLE", "ACQUIRED", "DELETED"}

SubscriptionTypes == {"CONSUMER", "BROWSER", "PURGE", "REPLICATOR"}

Message == [sequence : Nat, state : MessageStates, kind : Kinds \cup {"none"}]

QueueCursor == [type : SubscriptionTypes, position : Int, version : Nat, valid : BOOLEAN]

----------------------------------------------------------------------------
(* QueueCursor                                                             *)

\* Mutant: the constructor forgets its argument.
NewCursorBrowser(type) == [type |-> "BROWSER", position |-> 0, version |-> 0, valid |-> FALSE]

NewCursor(type) == [type |-> type, position |-> 0, version |-> 0, valid |-> FALSE]

setPosition(c, p, v) == [type |-> c.type, position |-> p, version |-> v, valid |-> TRUE]

\* Mutant: a message somebody has acquired is shown to everybody.
checkAny(c, m) == m.state # "DELETED"

\* Whether a subscription of this type is shown a message in this state.
check(c, m) ==
    \/ m.state = "AVAILABLE"
    \/ c.type \in {"REPLICATOR", "PURGE"} /\ m.state = "ACQUIRED"

----------------------------------------------------------------------------
(* Indexing by sequence number                                             *)

front(ms) == ms[1].sequence

back(ms) == ms[Len(ms)].sequence

\* index(position, i): the offset computed for position, and whether there
\* is a record at it.
offset(ms, p) == IF ms = << >> \/ p < front(ms) THEN 0 ELSE p - front(ms)

found(ms, p) == ms # << >> /\ p >= front(ms) /\ p - front(ms) < Len(ms)

Live(ms) == {i \in DOMAIN ms : ms[i].state # "DELETED"}

----------------------------------------------------------------------------
(* Reading: reset, next, find, size                                        *)

\* Must a scan restart from the front?  A CONSUMER restarts whenever a
\* message has been released since its cursor was last moved.
reset(c, version) == ~c.valid \/ (c.type = "CONSUMER" /\ c.version # version)

\* Mutant: the scan starts at the cursor, not after it.
scanFromCursor(ms, version, c) ==
    IF reset(c, version) THEN 1 ELSE 1 + offset(ms, c.position)

scanFrom(ms, version, c) ==
    IF reset(c, version) THEN 1 ELSE 1 + offset(ms, c.position + 1)

candidates(ms, version, c) ==
    {i \in scanFrom(ms, version, c) .. Len(ms) : check(c, ms[i])}

visited(ms, version, c) ==
    {i \in scanFrom(ms, version, c) .. Len(ms) : ms[i].state # "DELETED"}

\* Mutant: the newest message is returned.
nextNewest(ms, version, c) ==
    IF candidates(ms, version, c) = {} THEN 0 ELSE Max(candidates(ms, version, c))

\* next(cursor): the index of the message returned, 0 for none ...
next(ms, version, c) ==
    IF candidates(ms, version, c) = {} THEN 0 ELSE Min(candidates(ms, version, c))

\* ... and the cursor afterwards, which moves over every record that is not
\* DELETED, the ones it may not return included.
nextCursor(ms, version, c) ==
    IF candidates(ms, version, c) # {}
    THEN setPosition(c, ms[next(ms, version, c)].sequence, version)
    ELSE IF visited(ms, version, c) # {}
    THEN setPosition(c, ms[Max(visited(ms, version, c))].sequence, version)
    ELSE c

\* find(position, 0): is there a message that is still on the queue there?
find(ms, p) == found(ms, p) /\ ms[offset(ms, p) + 1].state # "DELETED"

\* find(position, &cursor): the cursor afterwards.
findCursor(ms, version, c, p) ==
    IF found(ms, p) \/ offset(ms, p) >= Len(ms)
    THEN setPosition(c, p, version)
    ELSE [c EXCEPT !.valid = FALSE]

available(ms) == {i \in DOMAIN ms : ms[i].state = "AVAILABLE"}

----------------------------------------------------------------------------
(* Writing: clean, deleted, release, publish                               *)

setState(ms, i, s) == [ms EXCEPT ![i].state = s]

deletedPrefix(ms) == IF Live(ms) = {} THEN Len(ms) ELSE Min(Live(ms)) - 1

cleaned(ms) == IF deletedPrefix(ms) < CleanLimit THEN deletedPrefix(ms) ELSE CleanLimit

clean(ms) == SubSeq(ms, cleaned(ms) + 1, Len(ms))

deleted(ms, p) ==
    IF found(ms, p) THEN clean(setState(ms, offset(ms, p) + 1, "DELETED")) ELSE ms

\* release() puts the record back to AVAILABLE whatever its state is.
release(ms, p) ==
    IF found(ms, p) THEN setState(ms, offset(ms, p) + 1, "AVAILABLE") ELSE ms

\* FifoDistributor::acquire
acquire(ms, i) == setState(ms, i, "ACQUIRED")

\* Mutant: nothing is stripped from the tail.
strippedNot(ms, s) == ms

\* The DELETED records at the tail that a number <= s would collide with.
stripped(ms, s) ==
    LET kept == {i \in DOMAIN ms : ms[i].sequence < s \/ ms[i].state # "DELETED"}
    IN  SubSeq(ms, 1, IF kept = {} THEN 0 ELSE Max(kept))

padding(n) == [sequence |-> n, state |-> "DELETED", kind |-> "none"]

\* Mutant: gaps are not padded.
paddedNot(ms, s) == ms

padded(ms, s) ==
    IF ms = << >> THEN ms
    ELSE ms \o [i \in 1 .. (s - back(ms) - 1) |-> padding(back(ms) + i)]

\* publish() throws "Index out of sequence!" when this is false.
inSequence(ms, s) ==
    LET rest == stripped(clean(ms), s) IN rest = << >> \/ back(rest) < s

publish(ms, s, k) ==
    Append(padded(stripped(clean(ms), s), s),
           [sequence |-> s, state |-> "AVAILABLE", kind |-> k])
=============================================================================
