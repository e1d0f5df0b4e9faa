------------------------- MODULE MessageQueue_proofs -------------------------
(***************************************************************************)
(* Theorems about MessageQueue, and QueueDispatch on top of it, for any    *)
(* number of subscriptions, publishers and kinds of message, any depth     *)
(* limit, ring or plain, backup or not.                                    *)
(*                                                                         *)
(* The inductive invariant is IInv.  Its first half, Sound, says that the  *)
(* deque is well formed and that Queue::sequence is never behind: no live  *)
(* message, no delivery record and no consumer's cursor carries a later    *)
(* number, which is what makes publish() safe.  NoSkipped joins it because *)
(* a message published behind a cursor, or released with a version some    *)
(* cursor already carries, would be skipped for ever.                      *)
(*                                                                         *)
(* The theorems about the plain queue (Plain, below) add Exact: what is on *)
(* the queue, who owns it and its depth agree.  They do not follow steps   *)
(* through the deque but through its content, the set of its live records: *)
(* every step has one of eight effects on it (NextEffect), and each        *)
(* theorem is about those.                                                 *)
(*                                                                         *)
(* The last part is about QueueDispatch: a step of the queue is followed   *)
(* through what it does to the messages that each consumer has not seen,   *)
(* and DispatchInv gives an account of who is on the way to the queue.     *)
(***************************************************************************)
EXTENDS QueueDispatch, IndexedDeque_proofs

\* Neither the delivery records nor the cursors of consumers are ahead of the
\* deque, whose live messages are numbered at most sequence.
RecordsBehind == \A c \in Subscriptions : \A r \in unacked[c] : r.position <= sequence

CursorsBehind ==
    \A c \in Subscriptions :
        preAcquires(c) /\ cursor[c].valid =>
            cursor[c].position <= sequence /\ cursor[c].version <= version

Sound == TypeOK /\ DequeOK(messages, sequence) /\ RecordsBehind /\ CursorsBehind

IInv == Sound /\ NoSkipped

----------------------------------------------------------------------------
(* Sound is an invariant                                                   *)

\* What Sound says of the numbers.
LEMMA SoundFacts ==
    ASSUME Sound
    PROVE  /\ DequeOK(messages, sequence) /\ messages \in Seq(Message) /\ Consecutive(messages)
           /\ sequence \in Nat /\ version \in Nat
           /\ sequence <= MaxSequence /\ version <= MaxVersion
           /\ \A i \in DOMAIN messages : messages[i].sequence \in Nat
           /\ \A c \in Subscriptions : cursor[c] \in QueueCursor /\ cursor[c].type = TypeOf[c]
           /\ \A c \in Subscriptions : \A r \in unacked[c] : r \in DeliveryRecord /\ r.position \in Nat
<1>1. sequence \in 0 .. MaxSequence /\ version \in 0 .. MaxVersion
  BY DEF Sound, TypeOK
<1>2. \A i \in DOMAIN messages : messages[i].sequence \in Nat
  BY DequeProperties DEF Sound, TypeOK
<1>3. \A c \in Subscriptions : \A r \in unacked[c] : r \in DeliveryRecord /\ r.position \in Nat
  <2>1. unacked \in [Subscriptions -> SUBSET DeliveryRecord]
    BY DEF Sound, TypeOK
  <2>2. \A r \in DeliveryRecord : r.position \in Nat
    BY DEF DeliveryRecord
  <2> QED
    BY <2>1, <2>2
<1>4. \A c \in Subscriptions : cursor[c] \in QueueCursor /\ cursor[c].type = TypeOf[c]
  BY DEF Sound, TypeOK
<1>5. DequeOK(messages, sequence) /\ messages \in Seq(Message) /\ Consecutive(messages)
  BY DEF Sound, DequeOK
<1>6. /\ sequence \in Nat /\ version \in Nat
      /\ sequence <= MaxSequence /\ version <= MaxVersion
  BY <1>1, BoundAssumption
<1> QED
  BY <1>2, <1>3, <1>4, <1>5, <1>6

\* The message getNextMessage looks at is on the queue; a consumer's is free.
LEMMA NextForFacts ==
    ASSUME Sound, NEW c \in Subscriptions, NextFor(c) # 0
    PROVE  /\ NextFor(c) \in Live(messages) /\ NextFor(c) \in DOMAIN messages
           /\ messages[NextFor(c)].sequence \in Nat
           /\ messages[NextFor(c)].sequence <= sequence
           /\ preAcquires(c) => messages[NextFor(c)].state = "AVAILABLE"
<1>1. NextFor(c) \in DOMAIN messages /\ check(cursor[c], messages[NextFor(c)])
  BY SoundFacts, NextProperties DEF NextFor
<1>2. NextFor(c) \in Live(messages)
  BY <1>1 DEF check, Live
<1>3. preAcquires(c) => messages[NextFor(c)].state = "AVAILABLE"
  BY <1>1, SoundFacts DEF check, preAcquires
<1> QED
  BY <1>1, <1>2, <1>3, SoundFacts DEF DequeOK

\* Moving a cursor over the queue leaves it a cursor, at a message that exists.
LEMMA AdvanceOK ==
    ASSUME Sound, NEW c \in Subscriptions, Advance(c), UNCHANGED <<sequence, version>>
    PROVE  /\ cursor' \in [Subscriptions -> QueueCursor]
           /\ \A d \in Subscriptions : cursor'[d].type = TypeOf[d]
           /\ CursorsBehind'
<1> DEFINE cur == nextCursor(messages, version, cursor[c])
<1>1. /\ cur \in QueueCursor
      /\ cur.type = TypeOf[c]
      /\ \/ cur = cursor[c]
         \/ cur.version = version /\ \E i \in Live(messages) : cur.position = messages[i].sequence
  BY SoundFacts, NextCursorType
<1>2. cursor' = [cursor EXCEPT ![c] = cur] /\ cursor \in [Subscriptions -> QueueCursor]
  BY DEF Advance, Sound, TypeOK
<1> HIDE DEF cur
<1>3. /\ cursor' \in [Subscriptions -> QueueCursor]
      /\ \A d \in Subscriptions : cursor'[d] = IF d = c THEN cur ELSE cursor[d]
  BY <1>1, <1>2
<1>4. \A d \in Subscriptions : cursor'[d].type = TypeOf[d]
  BY <1>1, <1>3, SoundFacts
<1>5. cur.version = version /\ (\E i \in Live(messages) : cur.position = messages[i].sequence)
        => cur.position <= sequence /\ cur.version <= version
  BY SoundFacts DEF DequeOK
<1>6. CursorsBehind'
  <2> SUFFICES ASSUME NEW d \in Subscriptions, preAcquires(d), cursor'[d].valid
               PROVE  cursor'[d].position <= sequence /\ cursor'[d].version <= version
    BY DEF CursorsBehind, preAcquires
  <2>1. CASE cursor'[d] = cursor[d]
    BY <2>1 DEF Sound, CursorsBehind
  <2>2. CASE cursor'[d] # cursor[d]
    BY <1>1, <1>3, <1>5, <2>2
  <2> QED
    BY <2>1, <2>2
<1> QED
  BY <1>3, <1>4, <1>6

\* Initially nothing has been numbered.
LEMMA InitSound == Init => Sound
<1> SUFFICES ASSUME Init PROVE Sound
  OBVIOUS
<1>1. messages \in Seq(Message) /\ DOMAIN messages = {}
  BY EmptySeq DEF Init
<1>2. DequeOK(messages, sequence)
  BY <1>1 DEF DequeOK, Consecutive, Live
<1>3. \A c \in Subscriptions : NewCursor(TypeOf[c]) \in QueueCursor
  BY SubscriptionAssumption DEF NewCursor, QueueCursor
<1>4. TypeOK
  <2>1. version \in 0 .. MaxVersion /\ sequence \in 0 .. MaxSequence /\ current \in Int
    BY BoundAssumption DEF Init
  <2>2. cursor \in [Subscriptions -> QueueCursor]
    BY <1>3 DEF Init
  <2>3. \A c \in Subscriptions : cursor[c].type = TypeOf[c]
    BY DEF Init, NewCursor
  <2>4. unacked \in [Subscriptions -> SUBSET DeliveryRecord]
    BY DEF Init
  <2>5. pc \in [Publishers -> {"idle", "check", "purge", "give up", "push"}]
    BY DEF Init
  <2> QED
    BY <1>1, <2>1, <2>2, <2>3, <2>4, <2>5 DEF TypeOK
<1>5. RecordsBehind
  BY DEF Init, RecordsBehind
<1>6. CursorsBehind
  BY DEF Init, CursorsBehind, NewCursor
<1> QED
  BY <1>2, <1>4, <1>5, <1>6 DEF Sound

PCs == {"idle", "check", "purge", "give up", "push"}

\* A step that leaves numbers, cursors and records alone keeps Sound if it
\* keeps the deque well formed.
LEMMA QuietStep ==
    ASSUME Sound, UNCHANGED <<version, sequence, cursor, unacked>>,
           DequeOK(messages', sequence), current' \in Int, pc' \in [Publishers -> PCs]
    PROVE  Sound'
<1>1. TypeOK'
  BY DEF Sound, TypeOK, DequeOK, PCs
<1>2. RecordsBehind' /\ CursorsBehind'
  BY DEF Sound, RecordsBehind, CursorsBehind, preAcquires
<1>3. DequeOK(messages, sequence)'
  OBVIOUS
<1> QED
  BY <1>1, <1>2, <1>3 DEF Sound

\* A step of c that moves its cursor over the queue and may take a message.
LEMMA GetStep ==
    ASSUME Sound, NEW c \in Subscriptions, Advance(c), UNCHANGED <<version, sequence, pc>>,
           DequeOK(messages', sequence), current' \in Int,
           unacked' \in [Subscriptions -> SUBSET DeliveryRecord], RecordsBehind'
    PROVE  Sound'
<1>1. /\ cursor' \in [Subscriptions -> QueueCursor]
      /\ \A d \in Subscriptions : cursor'[d].type = TypeOf[d]
      /\ CursorsBehind'
  BY AdvanceOK
<1>2. TypeOK'
  BY <1>1 DEF Sound, TypeOK, DequeOK
<1>3. DequeOK(messages, sequence)'
  OBVIOUS
<1> QED
  BY <1>1, <1>2, <1>3 DEF Sound

\* A step that only settles records of c.
LEMMA SettleStep ==
    ASSUME Sound, NEW c \in Subscriptions, UNCHANGED <<sequence, cursor, pc>>,
           DequeOK(messages', sequence), current' \in Int,
           version' \in 0 .. MaxVersion, version <= version',
           NEW R \in SUBSET DeliveryRecord, unacked' = [unacked EXCEPT ![c] = R],
           \A r \in R : r.position <= sequence
    PROVE  Sound'
<1>1. unacked \in [Subscriptions -> SUBSET DeliveryRecord]
  BY DEF Sound, TypeOK
<1>2. /\ unacked' \in [Subscriptions -> SUBSET DeliveryRecord]
      /\ \A d \in Subscriptions : unacked'[d] = IF d = c THEN R ELSE unacked[d]
  BY <1>1
<1>3. TypeOK'
  BY <1>2 DEF Sound, TypeOK, DequeOK
<1>4. RecordsBehind'
  BY <1>2 DEF Sound, RecordsBehind
<1>5. CursorsBehind'
  <2> SUFFICES ASSUME NEW d \in Subscriptions, preAcquires(d), cursor[d].valid
               PROVE  cursor[d].position <= sequence /\ cursor[d].version <= version'
    BY DEF CursorsBehind, preAcquires
  <2>1. cursor[d].position <= sequence /\ cursor[d].version <= version
    BY DEF Sound, CursorsBehind
  <2>2. cursor[d].version \in Nat /\ version \in Nat /\ version' \in Nat
    BY SoundFacts, BoundAssumption DEF QueueCursor
  <2> QED
    BY <2>1, <2>2
<1>6. DequeOK(messages, sequence)'
  OBVIOUS
<1> QED
  BY <1>3, <1>4, <1>5, <1>6 DEF Sound

\* deleted() as the actions use it.
LEMMA DeletedStep ==
    ASSUME Sound, NEW p \in Int
    PROVE  DequeOK(deleted(messages, p), sequence) /\ current - 1 \in Int /\ current \in Int
<1>1. DequeOK(deleted(messages, p), sequence)
  BY SoundFacts, DeletedOK
<1>2. current \in Int
  BY DEF Sound, TypeOK
<1> QED
  BY <1>1, <1>2

\* Publishing keeps Sound.
LEMMA PublishSound ==
    ASSUME Sound, Publish
    PROVE  Sound'
<1> PICK p \in Publishers :
        \/ CheckDepth(p) \/ RingPurge(p) \/ RingGiveUp(p) \/ EnqueueAborted(p)
        \/ \E k \in Kinds : Push(p, k)
  BY DEF Publish
<1>1. pc \in [Publishers -> PCs] /\ current \in Int
  BY DEF Sound, TypeOK, PCs
<1>2. CASE CheckDepth(p)
  <2>1. pc' \in [Publishers -> PCs]
    BY <1>1, <1>2 DEF CheckDepth, PCs
  <2>2. current' \in Int
    BY <1>1, <1>2 DEF CheckDepth
  <2> QED
    BY <1>2, <2>1, <2>2, QuietStep, SoundFacts DEF CheckDepth
<1>3. CASE RingPurge(p)
  <2> DEFINE oldest == next(messages, version, NewCursor("PURGE"))
  <2>1. oldest # 0 => messages[oldest].sequence \in Int
    <3>1. NewCursor("PURGE") \in QueueCursor
      BY DEF NewCursor, QueueCursor, SubscriptionTypes
    <3>2. oldest # 0 => oldest \in DOMAIN messages
      BY <3>1, SoundFacts, NextProperties
    <3> QED
      BY <3>2, SoundFacts
  <2>2. \/ oldest # 0 /\ messages' = deleted(messages, messages[oldest].sequence) /\ current' = current - 1
        \/ messages' = messages /\ current' = current
    BY <1>3 DEF RingPurge
  <2> HIDE DEF oldest
  <2>3. DequeOK(messages', sequence) /\ current' \in Int
    BY <1>1, <2>1, <2>2, DeletedStep, SoundFacts
  <2>4. pc' \in [Publishers -> PCs]
    BY <1>1, <1>3 DEF RingPurge, PCs
  <2> QED
    BY <1>3, <2>3, <2>4, QuietStep DEF RingPurge
<1>4. CASE RingGiveUp(p)
  <2>1. pc' \in [Publishers -> PCs]
    BY <1>1, <1>4 DEF RingGiveUp, PCs
  <2>2. current' \in Int
    <3>1. current' = current \/ current' = current + 1
      BY <1>4 DEF RingGiveUp
    <3> QED
      BY <1>1, <3>1
  <2> QED
    BY <1>4, <2>1, <2>2, QuietStep, SoundFacts DEF RingGiveUp
<1>5. CASE EnqueueAborted(p)
  <2>1. pc' \in [Publishers -> PCs]
    BY <1>1, <1>5 DEF EnqueueAborted, PCs
  <2>2. current' \in Int
    BY <1>1, <1>5 DEF EnqueueAborted
  <2> QED
    BY <1>5, <2>1, <2>2, QuietStep, SoundFacts DEF EnqueueAborted
<1>6. ASSUME NEW k \in Kinds, Push(p, k) PROVE Sound'
  <2>1. DequeOK(messages', sequence')
    BY <1>6, SoundFacts, PublishOK DEF Push
  <2>2. sequence' \in 0 .. MaxSequence /\ sequence' = sequence + 1
    BY <1>6, SoundFacts, BoundAssumption DEF Push
  <2>3. pc' \in [Publishers -> PCs]
    BY <1>1, <1>6 DEF Push, PCs
  <2>4. TypeOK'
    BY <1>6, <2>1, <2>2, <2>3 DEF Push, Sound, TypeOK, DequeOK, PCs
  <2>5. RecordsBehind'
    <3> SUFFICES ASSUME NEW c \in Subscriptions, NEW r \in unacked[c]
                 PROVE  r.position <= sequence + 1
      BY <1>6, <2>2 DEF Push, RecordsBehind
    <3>1. r.position \in Nat /\ sequence \in Nat /\ r.position <= sequence
      BY SoundFacts DEF Sound, RecordsBehind
    <3> QED
      BY <3>1
  <2>6. CursorsBehind'
    <3> SUFFICES ASSUME NEW c \in Subscriptions, preAcquires(c), cursor[c].valid
                 PROVE  cursor[c].position <= sequence + 1 /\ cursor[c].version <= version
      BY <1>6, <2>2 DEF Push, CursorsBehind, preAcquires
    <3>1. cursor[c].position <= sequence /\ cursor[c].version <= version
      BY DEF Sound, CursorsBehind
    <3>2. cursor[c].position \in Int /\ sequence \in Nat
      BY SoundFacts DEF QueueCursor
    <3> QED
      BY <3>1, <3>2
  <2> QED
    BY <2>1, <2>4, <2>5, <2>6 DEF Sound
<1> QED
  BY <1>2, <1>3, <1>4, <1>5, <1>6

\* Dispatch keeps Sound.
LEMMA GetSound ==
    ASSUME Sound, Get
    PROVE  Sound'
<1> PICK c \in Subscriptions :
        \/ GetExpired(c) \/ GetUnwanted(c) \/ GetMessage(c)
        \/ GetWithoutCredit(c) \/ GetNothing(c)
  BY DEF Get
<1>1. /\ unacked \in [Subscriptions -> SUBSET DeliveryRecord] /\ current \in Int
      /\ DequeOK(messages, sequence) /\ RecordsBehind
  BY DEF Sound, TypeOK
<1>2. CASE GetExpired(c)
  <2>1. messages[NextFor(c)].sequence \in Int
    BY <1>2, NextForFacts DEF GetExpired
  <2>2. DequeOK(messages', sequence) /\ current' \in Int
    BY <1>2, <2>1, DeletedStep DEF GetExpired
  <2>3. unacked' \in [Subscriptions -> SUBSET DeliveryRecord] /\ RecordsBehind'
    BY <1>1, <1>2 DEF GetExpired, RecordsBehind
  <2> QED
    BY <1>2, <2>2, <2>3, GetStep DEF GetExpired
<1>3. CASE GetUnwanted(c) \/ GetNothing(c)
  <2>1. unacked' \in [Subscriptions -> SUBSET DeliveryRecord] /\ RecordsBehind'
    BY <1>1, <1>3 DEF GetUnwanted, GetNothing, RecordsBehind
  <2>2. Advance(c) /\ UNCHANGED <<messages, version, sequence, current, pc>>
    BY <1>3 DEF GetUnwanted, GetNothing
  <2> QED
    BY <1>1, <2>1, <2>2, GetStep
<1>4. CASE GetMessage(c)
  <2> DEFINE r == Record(c, preAcquires(c))
  <2>1. DequeOK(messages', sequence) /\ current' \in Int
    BY <1>1, <1>4, NextForFacts, AcquireOK, SoundFacts DEF GetMessage
  <2>2. r \in DeliveryRecord /\ r.position <= sequence
    <3>1. messages[NextFor(c)].sequence \in Nat /\ messages[NextFor(c)].sequence <= sequence
      BY <1>4, NextForFacts DEF GetMessage
    <3>2. preAcquires(c) \in BOOLEAN
      BY DEF preAcquires
    <3> QED
      BY <3>1, <3>2 DEF Record, DeliveryRecord
  <2>3. unacked' = [unacked EXCEPT ![c] = @ \cup {r}] /\ UNCHANGED sequence
    BY <1>4 DEF GetMessage
  <2> HIDE DEF r
  <2>4. /\ unacked' \in [Subscriptions -> SUBSET DeliveryRecord]
        /\ \A d \in Subscriptions : \A x \in unacked'[d] : x \in unacked[d] \/ x = r
    BY <1>1, <2>2, <2>3
  <2>5. RecordsBehind'
    BY <1>1, <2>2, <2>3, <2>4 DEF RecordsBehind
  <2> QED
    BY <1>4, <2>1, <2>4, <2>5, GetStep DEF GetMessage
<1>5. CASE GetWithoutCredit(c)
  BY <1>5, QuietStep, <1>1 DEF GetWithoutCredit, vars, Sound, TypeOK, PCs
<1> QED
  BY <1>2, <1>3, <1>4, <1>5

\* What sessions do with their records keeps Sound.
LEMMA SettleSound ==
    ASSUME Sound, Settle
    PROVE  Sound'
<1> PICK c \in Subscriptions :
        \E r \in unacked[c] : Dequeue(c, r) \/ Release(c, r) \/ AcquireShown(c, r)
  BY DEF Settle
<1> PICK r \in unacked[c] : Dequeue(c, r) \/ Release(c, r) \/ AcquireShown(c, r)
  OBVIOUS
<1>1. /\ unacked[c] \in SUBSET DeliveryRecord /\ current \in Int /\ version \in 0 .. MaxVersion
      /\ version \in Nat /\ \A x \in unacked[c] : x.position <= sequence
  BY SoundFacts DEF Sound, TypeOK, RecordsBehind
<1>2. r \in DeliveryRecord /\ r.position \in Int /\ r.position <= sequence
  BY <1>1, SoundFacts
<1>3. /\ unacked[c] \ {r} \in SUBSET DeliveryRecord
      /\ \A x \in unacked[c] \ {r} : x.position <= sequence
  BY <1>1
<1>4. CASE Dequeue(c, r)
  <2>1. DequeOK(messages', sequence) /\ current' \in Int
    BY <1>1, <1>2, <1>4, DeletedStep, SoundFacts DEF Dequeue
  <2>2. unacked' = [unacked EXCEPT ![c] = unacked[c] \ {r}]
    BY <1>4 DEF Dequeue, EndRecord
  <2>3. UNCHANGED <<sequence, cursor, pc>> /\ version' \in 0 .. MaxVersion /\ version <= version'
    BY <1>1, <1>4 DEF Dequeue
  <2> QED
    BY <1>3, <2>1, <2>2, <2>3, SettleStep
<1>5. CASE Release(c, r)
  <2>1. DequeOK(messages', sequence) /\ current' \in Int
    BY <1>1, <1>2, <1>5, ReleaseOK, SoundFacts DEF Release
  <2>2. unacked' = [unacked EXCEPT ![c] = unacked[c] \ {r}]
    BY <1>5 DEF Release, EndRecord
  <2>3. version' \in 0 .. MaxVersion /\ version <= version'
    BY <1>1, <1>5, BoundAssumption DEF Release
  <2> QED
    BY <1>1, <1>3, <1>5, <2>1, <2>2, <2>3, SettleStep DEF Release
<1>6. CASE AcquireShown(c, r)
  <2> DEFINE k == offset(messages, r.position) + 1
             a == [r EXCEPT !.acquired = TRUE]
  <2>1. k \in Live(messages)
    <3>1. k \in DOMAIN messages
      BY <1>2, <1>6, SoundFacts, IndexProperties, DequeProperties DEF AcquireShown, find
    <3> QED
      BY <1>6, <3>1 DEF AcquireShown, Live
  <2>2. DequeOK(messages', sequence) /\ current' \in Int
    BY <1>1, <1>6, <2>1, AcquireOK, SoundFacts DEF AcquireShown
  <2>3. a \in DeliveryRecord /\ a.position = r.position
    BY <1>2 DEF DeliveryRecord
  <2>4. unacked' = [unacked EXCEPT ![c] = (unacked[c] \ {r}) \cup {a}]
    BY <1>6 DEF AcquireShown
  <2> HIDE DEF a
  <2>5. /\ (unacked[c] \ {r}) \cup {a} \in SUBSET DeliveryRecord
        /\ \A x \in (unacked[c] \ {r}) \cup {a} : x.position <= sequence
    BY <1>2, <1>3, <2>3
  <2>6. UNCHANGED <<sequence, cursor, pc>> /\ version' \in 0 .. MaxVersion /\ version <= version'
    BY <1>1, <1>6 DEF AcquireShown
  <2> QED
    BY <2>2, <2>4, <2>5, <2>6, SettleStep
<1> QED
  BY <1>4, <1>5, <1>6

\* Management and replication keep Sound.
LEMMA ManageSound ==
    ASSUME Sound, Manage
    PROVE  Sound'
<1>1. current \in Int /\ pc \in [Publishers -> PCs] /\ DequeOK(messages, sequence)
  BY DEF Sound, TypeOK, PCs
<1>2. ASSUME NEW K, RemoveOne(K) PROVE Sound'
  <2> DEFINE matching == {i \in available(messages) : messages[i].kind \in K}
  <2>1. matching \subseteq DOMAIN messages /\ DOMAIN messages \subseteq Nat
    BY SoundFacts, DequeProperties DEF available
  <2>2. matching # {} /\ messages' = deleted(messages, messages[Min(matching)].sequence)
    BY <1>2 DEF RemoveOne
  <2> HIDE DEF matching
  <2>3. messages[Min(matching)].sequence \in Int
    BY <2>1, <2>2, MinOfNats, SoundFacts
  <2>4. DequeOK(messages', sequence) /\ current' \in Int
    BY <1>2, <2>2, <2>3, DeletedStep DEF RemoveOne
  <2> QED
    BY <1>1, <1>2, <2>4, QuietStep DEF RemoveOne
<1>3. ASSUME NEW c \in Subscriptions, NEW n \in 0 .. MaxSequence, Seek(c, n) PROVE Sound'
  <2> DEFINE cur == findCursor(messages, version, cursor[c], n)
  <2>1. cur \in QueueCursor /\ cur.type = TypeOf[c]
    <3>1. cursor[c] \in QueueCursor /\ cursor[c].type = TypeOf[c] /\ version \in Nat /\ n \in Int
      BY SoundFacts
    <3>2. [cursor[c] EXCEPT !.valid = FALSE] \in QueueCursor
      BY <3>1 DEF QueueCursor
    <3>3. [cursor[c] EXCEPT !.valid = FALSE].type = TypeOf[c]
      BY <3>1 DEF QueueCursor
    <3> QED
      BY <3>1, <3>2, <3>3, SetPositionType DEF findCursor
  <2>2. cursor' = [cursor EXCEPT ![c] = cur] /\ ~preAcquires(c)
    BY <1>3 DEF Seek
  <2> HIDE DEF cur
  <2>3. /\ cursor' \in [Subscriptions -> QueueCursor]
        /\ \A d \in Subscriptions : cursor'[d] = IF d = c THEN cur ELSE cursor[d]
    BY <2>1, <2>2 DEF Sound, TypeOK
  <2>4. TypeOK'
    BY <1>3, <2>1, <2>3 DEF Seek, Sound, TypeOK
  <2>5. CursorsBehind'
    BY <1>3, <2>2, <2>3 DEF Seek, Sound, CursorsBehind, preAcquires
  <2>6. RecordsBehind' /\ DequeOK(messages, sequence)'
    BY <1>1, <1>3 DEF Seek, Sound, RecordsBehind
  <2> QED
    BY <2>4, <2>5, <2>6 DEF Sound
<1>4. ASSUME NEW n \in 0 .. MaxSequence, DequeueMessageAt(n) PROVE Sound'
  <2>1. DequeOK(messages', sequence) /\ current' \in Int
    BY <1>4, DeletedStep DEF DequeueMessageAt
  <2> QED
    BY <1>1, <1>4, <2>1, QuietStep DEF DequeueMessageAt
<1>5. ASSUME NEW n \in 0 .. MaxSequence, SetPosition(n) PROVE Sound'
  <2>1. \A c \in Subscriptions : ~cursor[c].valid /\ unacked[c] = {}
    BY <1>5 DEF SetPosition, Backup
  <2>2. DequeOK(messages, sequence)'
    BY <1>1, <1>5 DEF SetPosition, DequeOK
  <2>3. TypeOK'
    BY <1>5 DEF SetPosition, Sound, TypeOK
  <2>4. RecordsBehind' /\ CursorsBehind'
    BY <1>5, <2>1 DEF SetPosition, RecordsBehind, CursorsBehind
  <2> QED
    BY <2>2, <2>3, <2>4 DEF Sound
<1> QED
  BY <1>2, <1>3, <1>4, <1>5 DEF Manage

----------------------------------------------------------------------------
(* NoSkipped is an invariant                                               *)

\* NoSkipped for one subscription.
Passed(c, cur, v, ms) ==
    preAcquires(c) /\ ~reset(cur, v) =>
        \A i \in available(ms) : ms[i].sequence <= cur.position => ms[i].kind \notin Selector[c]

\* Taking messages away leaves no new one behind.
LEMMA PassedFewer ==
    ASSUME NEW c, NEW cur, NEW v, NEW ms, NEW d, AvailableFrom(d, ms), Passed(c, cur, v, ms)
    PROVE  Passed(c, cur, v, d)
BY DEF Passed, AvailableFrom, SameMessage

\* A step that moves no cursor, releases nothing and publishes nothing.
LEMMA FewerStep ==
    ASSUME IInv, UNCHANGED <<version, cursor>>, AvailableFrom(messages', messages)
    PROVE  NoSkipped'
<1> SUFFICES ASSUME NEW c \in Subscriptions PROVE Passed(c, cursor[c], version, messages')
  BY DEF NoSkipped, Passed, preAcquires
<1>1. Passed(c, cursor[c], version, messages)
  BY DEF IInv, NoSkipped, Passed
<1> QED
  BY <1>1, PassedFewer

\* When next() has moved the cursor of a consumer, the message it returned is
\* the only one behind the cursor that the consumer could want.
LEMMA AdvancePassed ==
    ASSUME IInv, NEW c \in Subscriptions, preAcquires(c), Advance(c)
    PROVE  \A i \in available(messages) :
               messages[i].sequence <= cursor'[c].position /\ i # NextFor(c) =>
                   messages[i].kind \notin Selector[c]
<1> DEFINE cur == cursor[c]
           n == next(messages, version, cur)
<1>1. /\ messages \in Seq(Message) /\ Consecutive(messages) /\ version \in Nat
      /\ cur \in QueueCursor /\ cur.type = "CONSUMER"
  BY SoundFacts DEF IInv, preAcquires
<1>2. cursor'[c] = nextCursor(messages, version, cur)
  BY DEF Advance, IInv, Sound, TypeOK
<1>3. candidates(messages, version, cur) =
          {i \in DOMAIN messages :
              check(cur, messages[i]) /\ (reset(cur, version) \/ messages[i].sequence > cur.position)}
  BY <1>1, CandidatesByPosition
<1>4. Passed(c, cur, version, messages)
  BY DEF IInv, NoSkipped, Passed
<1> SUFFICES ASSUME NEW i \in available(messages),
                    messages[i].sequence <= cursor'[c].position, i # NextFor(c)
             PROVE  messages[i].kind \notin Selector[c]
  OBVIOUS
<1>5. i \in DOMAIN messages /\ check(cur, messages[i]) /\ messages[i].sequence \in Nat /\ cur.position \in Int
  BY <1>1, DequeProperties DEF available, check, QueueCursor
<1>6. i \notin candidates(messages, version, cur) => messages[i].kind \notin Selector[c]
  BY <1>3, <1>4, <1>5 DEF Passed
<1>7. CASE n = 0
  BY <1>1, <1>6, <1>7, NextProperties
<1>8. CASE n # 0
  <2>1. /\ n \in DOMAIN messages
        /\ \A j \in candidates(messages, version, cur) : n <= j
        /\ cursor'[c] = setPosition(cur, messages[n].sequence, version)
    BY <1>1, <1>2, <1>8, NextProperties
  <2>2. messages[i].sequence <= messages[n].sequence
    BY <2>1 DEF setPosition
  <2>3. i <= n /\ i # n
    <3>1. DOMAIN messages = 1 .. Len(messages) /\ Len(messages) \in Nat /\ front(messages) \in Nat
      BY <1>1, <1>5, DequeProperties DEF front
    <3>2. messages[i].sequence = front(messages) + i - 1 /\ messages[n].sequence = front(messages) + n - 1
      BY <1>1, <1>5, <2>1 DEF Consecutive
    <3> QED
      BY <1>5, <2>1, <2>2, <3>1, <3>2 DEF NextFor
  <2>4. i \notin candidates(messages, version, cur)
    <3>1. i \in Int /\ n \in Int
      BY <1>1, <1>5, <2>1, DequeProperties
    <3> QED
      BY <2>1, <2>3, <3>1
  <2> QED
    BY <1>6, <2>4
<1> QED
  BY <1>7, <1>8

\* A step of c that moves its cursor and disposes of the message it was shown:
\* takes it, removes it, or has no use for it.
LEMMA GetSkipsNothing ==
    ASSUME IInv, NEW c \in Subscriptions, Advance(c), UNCHANGED version,
           AvailableFrom(messages', messages),
           preAcquires(c) /\ NextFor(c) # 0 =>
               \/ messages[NextFor(c)].kind \notin Selector[c]
               \/ \A i \in available(messages') :
                      messages'[i].sequence # messages[NextFor(c)].sequence
    PROVE  NoSkipped'
<1> SUFFICES ASSUME NEW d \in Subscriptions, preAcquires(d), ~reset(cursor'[d], version),
                    NEW i \in available(messages'), messages'[i].sequence <= cursor'[d].position
             PROVE  messages'[i].kind \notin Selector[d]
  BY DEF NoSkipped, preAcquires
<1>1. PICK j \in available(messages) : SameMessage(messages'[i], messages[j])
  BY DEF AvailableFrom
<1>2. CASE d # c
  <2>1. cursor'[d] = cursor[d]
    BY <1>2 DEF Advance, IInv, Sound, TypeOK
  <2> QED
    BY <1>1, <2>1 DEF IInv, NoSkipped, SameMessage
<1>3. CASE d = c
  <2>1. CASE j = NextFor(c)
    <3>1. j # 0
      BY <1>1, SoundFacts, DequeProperties DEF IInv, available
    <3> QED
      BY <1>1, <1>3, <2>1, <3>1 DEF SameMessage
  <2>2. CASE j # NextFor(c)
    BY <1>1, <1>3, <2>2, AdvancePassed DEF SameMessage
  <2> QED
    BY <2>1, <2>2
<1> QED
  BY <1>2, <1>3

\* An unchanged deque has no new messages.
LEMMA SameFewer == AvailableFrom(messages, messages)
BY DEF AvailableFrom, SameMessage

\* A new message goes in front of every cursor that is up to date.
LEMMA PushSkipsNothing ==
    ASSUME IInv, NEW p \in Publishers, NEW k \in Kinds, Push(p, k)
    PROVE  NoSkipped'
<1> DEFINE m == [sequence |-> sequence + 1, state |-> "AVAILABLE", kind |-> k]
<1>1. \A i \in available(messages') :
          messages'[i] = m \/ \E j \in available(messages) : messages'[i] = messages[j]
  <2>1. \A i \in Live(messages) : messages[i].sequence < sequence + 1
    <3> TAKE i \in Live(messages)
    <3>1. messages[i].sequence \in Nat /\ messages[i].sequence <= sequence /\ sequence \in Nat
      BY SoundFacts DEF IInv, DequeOK, Live
    <3> QED
      BY <3>1
  <2>2. sequence + 1 \in Nat /\ messages \in Seq(Message) /\ Consecutive(messages)
    BY SoundFacts DEF IInv
  <2>3. messages' = publish(messages, sequence + 1, k)
    BY DEF Push
  <2>4. \A i \in DOMAIN messages' :
            \/ messages'[i].state = "DELETED"
            \/ messages'[i] = m
            \/ \E j \in DOMAIN messages : messages'[i] = messages[j]
    BY <2>1, <2>2, <2>3, PublishProperties
  <2> QED
    BY <2>4 DEF available
<1> SUFFICES ASSUME NEW c \in Subscriptions, preAcquires(c), ~reset(cursor[c], version),
                    NEW i \in available(messages'), messages'[i].sequence <= cursor[c].position
             PROVE  messages'[i].kind \notin Selector[c]
  BY DEF NoSkipped, preAcquires, Push
<1>2. cursor[c].position \in Int /\ sequence \in Nat /\ cursor[c].position <= sequence
  BY SoundFacts DEF IInv, Sound, CursorsBehind, reset, QueueCursor
<1>3. messages'[i] # m
  BY <1>2
<1> QED
  BY <1>1, <1>3 DEF IInv, NoSkipped

\* A release makes every consumer start over.
LEMMA ReleaseSkipsNothing ==
    ASSUME IInv, NEW c \in Subscriptions, NEW r \in unacked[c], Release(c, r)
    PROVE  NoSkipped'
<1>1. CASE ~found(messages, r.position)
  <2>1. messages' = messages /\ version' = version /\ cursor' = cursor
    BY <1>1 DEF Release, release
  <2> QED
    BY <2>1, SameFewer, FewerStep
<1>2. CASE found(messages, r.position)
  <2>1. version' = version + 1 /\ cursor' = cursor
    BY <1>2 DEF Release
  <2> SUFFICES ASSUME NEW d \in Subscriptions, preAcquires(d) PROVE reset(cursor[d], version')
    BY <2>1 DEF NoSkipped, preAcquires
  <2>2. cursor[d].type = "CONSUMER" /\ cursor[d].version \in Nat /\ version \in Nat
    BY SoundFacts DEF IInv, preAcquires, QueueCursor
  <2>3. cursor[d].valid => cursor[d].version <= version
    BY DEF IInv, Sound, CursorsBehind
  <2> QED
    BY <2>1, <2>2, <2>3 DEF reset
<1> QED
  BY <1>1, <1>2

\* No step leaves a wanted message behind the cursor of a consumer.
LEMMA NoSkippedStep ==
    ASSUME IInv, Next
    PROVE  NoSkipped'
<1>1. messages \in Seq(Message) /\ Consecutive(messages) /\ Sound
  BY SoundFacts DEF IInv
<1>2. ASSUME NEW p \in Publishers,
             \/ CheckDepth(p) \/ RingPurge(p) \/ RingGiveUp(p) \/ EnqueueAborted(p)
             \/ \E k \in Kinds : Push(p, k)
      PROVE  NoSkipped'
  <2>1. CASE CheckDepth(p) \/ RingGiveUp(p) \/ EnqueueAborted(p)
    <3>1. UNCHANGED <<messages, version, cursor>>
      BY <2>1 DEF CheckDepth, RingGiveUp, EnqueueAborted
    <3> QED
      BY <3>1, SameFewer, FewerStep
  <2>2. CASE RingPurge(p)
    <3> DEFINE oldest == next(messages, version, NewCursor("PURGE"))
    <3>1. oldest # 0 => messages[oldest].sequence \in Int
      <4>1. NewCursor("PURGE") \in QueueCursor
        BY DEF NewCursor, QueueCursor, SubscriptionTypes
      <4>2. oldest # 0 => oldest \in DOMAIN messages
        BY <1>1, <4>1, SoundFacts, NextProperties
      <4> QED
        BY <1>1, <4>2, SoundFacts
    <3>2. /\ UNCHANGED <<version, cursor>>
          /\ \/ oldest # 0 /\ messages' = deleted(messages, messages[oldest].sequence)
             \/ messages' = messages
      BY <2>2 DEF RingPurge
    <3> HIDE DEF oldest
    <3>3. AvailableFrom(messages', messages)
      BY <1>1, <3>1, <3>2, DeletedFewer, SameFewer
    <3> QED
      BY <3>2, <3>3, FewerStep
  <2>3. CASE \E k \in Kinds : Push(p, k)
    BY <2>3, PushSkipsNothing
  <2> QED
    BY <1>2, <2>1, <2>2, <2>3
<1>3. ASSUME NEW c \in Subscriptions,
             \/ GetExpired(c) \/ GetUnwanted(c) \/ GetMessage(c)
             \/ GetWithoutCredit(c) \/ GetNothing(c)
      PROVE  NoSkipped'
  <2> DEFINE n == messages[NextFor(c)].sequence
  <2>1. CASE GetExpired(c)
    <3>1. n \in Int
      BY <1>1, <2>1, NextForFacts DEF GetExpired
    <3>2. messages' = deleted(messages, n) /\ Advance(c) /\ UNCHANGED version
      BY <2>1 DEF GetExpired
    <3>3. AvailableFrom(messages', messages)
      BY <1>1, <3>1, <3>2, DeletedFewer
    <3>4. \A i \in DOMAIN messages' : \E j \in DOMAIN messages :
              /\ SameMessage(messages'[i], messages[j])
              /\ messages'[i].state = "DELETED" \/ messages[j].sequence # n
      BY <1>1, <3>1, <3>2, DeletedProperties
    <3>5. \A i \in available(messages') : messages'[i].sequence # n
      BY <3>4 DEF available, SameMessage
    <3> QED
      BY <3>2, <3>3, <3>5, GetSkipsNothing
  <2>2. CASE GetUnwanted(c) \/ GetNothing(c)
    <3>1. Advance(c) /\ UNCHANGED <<messages, version>>
      BY <2>2 DEF GetUnwanted, GetNothing
    <3>2. NextFor(c) # 0 => messages[NextFor(c)].kind \notin Selector[c]
      BY <2>2 DEF GetUnwanted, GetNothing
    <3> QED
      BY <3>1, <3>2, SameFewer, GetSkipsNothing
  <2>3. CASE GetMessage(c)
    <3>1. Advance(c) /\ UNCHANGED version /\ NextFor(c) # 0
      BY <2>3 DEF GetMessage
    <3>2. NextFor(c) \in DOMAIN messages
      BY <1>1, <3>1, NextForFacts
    <3>3. CASE ~preAcquires(c)
      <4>1. messages' = messages
        BY <2>3, <3>3 DEF GetMessage
      <4> QED
        BY <3>1, <3>3, <4>1, SameFewer, GetSkipsNothing
    <3>4. CASE preAcquires(c)
      <4>1. messages' = acquire(messages, NextFor(c))
        BY <2>3, <3>4 DEF GetMessage
      <4>2. AvailableFrom(messages', messages)
        BY <1>1, <3>2, <4>1, AcquireFewer
      <4>3. /\ DOMAIN messages' = DOMAIN messages
            /\ \A i \in DOMAIN messages :
                   /\ SameMessage(messages'[i], messages[i])
                   /\ messages'[i].state = IF i = NextFor(c) THEN "ACQUIRED" ELSE messages[i].state
        BY <1>1, <3>2, <4>1, AcquireProperties
      <4>4. \A i \in DOMAIN messages : messages[i].sequence = n => i = NextFor(c)
        <5>1. /\ DOMAIN messages = 1 .. Len(messages) /\ Len(messages) \in Nat
              /\ front(messages) \in Nat
          BY <1>1, <3>2, DequeProperties DEF front
        <5>2. \A i \in DOMAIN messages : messages[i].sequence = front(messages) + i - 1
          BY <1>1 DEF Consecutive
        <5> QED
          BY <3>2, <5>1, <5>2
      <4>5. \A i \in available(messages') : messages'[i].sequence # n
        BY <4>3, <4>4 DEF available, SameMessage
      <4> QED
        BY <3>1, <4>2, <4>5, GetSkipsNothing
    <3> QED
      BY <3>3, <3>4
  <2>4. CASE GetWithoutCredit(c)
    <3>1. UNCHANGED <<messages, version, cursor>>
      BY <2>4 DEF GetWithoutCredit, vars
    <3> QED
      BY <3>1, SameFewer, FewerStep
  <2> QED
    BY <1>3, <2>1, <2>2, <2>3, <2>4
<1>4. ASSUME NEW c \in Subscriptions, NEW r \in unacked[c],
             Dequeue(c, r) \/ Release(c, r) \/ AcquireShown(c, r)
      PROVE  NoSkipped'
  <2>1. r.position \in Int
    BY <1>1, SoundFacts
  <2>2. CASE Dequeue(c, r)
    <3>1. /\ UNCHANGED <<version, cursor>>
          /\ messages' = deleted(messages, r.position) \/ messages' = messages
      BY <2>2 DEF Dequeue
    <3>2. AvailableFrom(messages', messages)
      BY <1>1, <2>1, <3>1, DeletedFewer, SameFewer
    <3> QED
      BY <3>1, <3>2, FewerStep
  <2>3. CASE AcquireShown(c, r)
    <3> DEFINE k == offset(messages, r.position) + 1
    <3>1. UNCHANGED <<version, cursor>> /\ messages' = acquire(messages, k)
      BY <2>3 DEF AcquireShown
    <3>2. k \in DOMAIN messages
      BY <1>1, <2>1, <2>3, IndexProperties, DequeProperties DEF AcquireShown, find
    <3>3. AvailableFrom(messages', messages)
      BY <1>1, <3>1, <3>2, AcquireFewer
    <3> QED
      BY <3>1, <3>3, FewerStep
  <2> QED
    BY <1>4, <2>2, <2>3, ReleaseSkipsNothing
<1>5. ASSUME NEW K, RemoveOne(K) PROVE NoSkipped'
  <2> DEFINE matching == {i \in available(messages) : messages[i].kind \in K}
  <2>1. matching \subseteq DOMAIN messages /\ DOMAIN messages \subseteq Nat
    BY <1>1, DequeProperties DEF available
  <2>2. /\ matching # {} /\ messages' = deleted(messages, messages[Min(matching)].sequence)
        /\ UNCHANGED <<version, cursor>>
    BY <1>5 DEF RemoveOne
  <2> HIDE DEF matching
  <2>3. messages[Min(matching)].sequence \in Int
    BY <1>1, <2>1, <2>2, MinOfNats, SoundFacts
  <2>4. AvailableFrom(messages', messages)
    BY <1>1, <2>2, <2>3, DeletedFewer
  <2> QED
    BY <2>2, <2>4, FewerStep
<1>6. ASSUME NEW c \in Subscriptions, NEW n \in 0 .. MaxSequence, Seek(c, n) PROVE NoSkipped'
  <2>1. \A d \in Subscriptions : preAcquires(d) => cursor'[d] = cursor[d]
    BY <1>6, SoundFacts DEF Seek, IInv, Sound, TypeOK
  <2>2. UNCHANGED <<messages, version>>
    BY <1>6 DEF Seek
  <2> QED
    BY <2>1, <2>2 DEF IInv, NoSkipped, preAcquires
<1>7. ASSUME NEW n \in 0 .. MaxSequence, DequeueMessageAt(n) PROVE NoSkipped'
  <2>1. messages' = deleted(messages, n) /\ UNCHANGED <<version, cursor>> /\ n \in Int
    BY <1>7 DEF DequeueMessageAt
  <2> QED
    BY <1>1, <2>1, DeletedFewer, FewerStep
<1>8. ASSUME NEW n \in 0 .. MaxSequence, SetPosition(n) PROVE NoSkipped'
  <2>1. UNCHANGED <<messages, version, cursor>>
    BY <1>8 DEF SetPosition
  <2> QED
    BY <2>1, SameFewer, FewerStep
<1> QED
  BY <1>2, <1>3, <1>4, <1>5, <1>6, <1>7, <1>8 DEF Next, Publish, Get, Settle, Manage

----------------------------------------------------------------------------
(* The plain queue                                                         *)
(*                                                                         *)
(* A ring queue purges messages that consumers have acquired, and a        *)
(* replicating subscription that finds an acquired message expired removes *)
(* it: the record of the consumer is then about a message that has gone,   *)
(* and releasing it can bring the message back.  TLC finds AcquiredIsOwned *)
(* violated on either.  Without the two, what a queue contains and who     *)
(* owns it is this.                                                        *)

Plain ==
    /\ ~Ring
    /\ Perishable = {} \/ \A c \in Subscriptions : TypeOf[c] # "REPLICATOR"

\* The positions of the acquired messages among delivery records R.
Positions(R) == {r.position : r \in {x \in R : x.acquired}}

\* What each subscription owns.
owners == [c \in Subscriptions |-> Positions(unacked[c])]

Contents == Content(messages)

Pushing == {p \in Publishers : pc[p] = "push"}

\* deliverTo() is one critical section for the depth and one for the push.
PlainPc == \A p \in Publishers : pc[p] \in {"idle", "push"}

\* A consumer acquires whatever it is given.
TakersOwn == \A c \in Subscriptions : preAcquires(c) => \A r \in unacked[c] : r.acquired

\* Every message a record says is acquired is on the queue, acquired ...
RecordsHeld ==
    \A c \in Subscriptions : \A n \in owners[c] :
        \E m \in Contents : m.sequence = n /\ m.state = "ACQUIRED"

\* ... and every acquired message has one owner.
HeldOnce ==
    \A m \in Contents : m.state = "ACQUIRED" =>
        \E c \in Subscriptions : \A d \in Subscriptions : m.sequence \in owners[d] <=> d = c

DepthOK ==
    /\ IsFiniteSet(Pushing)
    /\ current = Cardinality(Contents) + Cardinality(Pushing)

Exact == PlainPc /\ TakersOwn /\ RecordsHeld /\ HeldOnce /\ DepthOK

PInv == IInv /\ Exact

----------------------------------------------------------------------------
(* The eight things a step of a plain queue can do to its content          *)

\* A publisher reserves depth ...
Reserved == \E p \in Publishers :
    /\ pc[p] = "idle" /\ pc' = [pc EXCEPT ![p] = "push"]
    /\ current' = current + 1
    /\ Contents' = Contents /\ owners' = owners

\* ... and gives it back, ...
Aborted == \E p \in Publishers :
    /\ pc[p] = "push" /\ pc' = [pc EXCEPT ![p] = "idle"]
    /\ current' = current - 1
    /\ Contents' = Contents /\ owners' = owners

\* ... or pushes its message.
Pushed(m) == \E p \in Publishers :
    /\ pc[p] = "push" /\ pc' = [pc EXCEPT ![p] = "idle"]
    /\ m \in Message /\ m.state = "AVAILABLE" /\ m.kind \in Kinds
    /\ m.sequence = sequence' /\ sequence' = sequence + 1 /\ sequence' \in 1 .. MaxSequence
    /\ \A n \in Contents : n.sequence < m.sequence
    /\ Contents' = Contents \cup {m}
    /\ current' = current /\ owners' = owners

\* A message nobody has acquired goes.
Discarded(m) ==
    /\ m \in Contents /\ m.state = "AVAILABLE"
    /\ Contents' = Without(Contents, m.sequence)
    /\ current' = current - 1
    /\ pc' = pc /\ owners' = owners

\* Subscription c acquires a message: a consumer the oldest one it wants.
Acquired(c, m) ==
    /\ m \in Contents /\ m.state = "AVAILABLE"
    /\ preAcquires(c) =>
           /\ m.kind \in Selector[c]
           /\ \A n \in Contents :
                  n.state = "AVAILABLE" /\ n.kind \in Selector[c] => m.sequence <= n.sequence
    /\ Contents' = Without(Contents, m.sequence) \cup {InStateOf(m, "ACQUIRED")}
    /\ owners' = [owners EXCEPT ![c] = @ \cup {m.sequence}]
    /\ pc' = pc /\ current' = current

\* Subscription c is done with a message it owns ...
Finished(c, m) ==
    /\ m \in Contents /\ m.state = "ACQUIRED" /\ m.sequence \in owners[c]
    /\ Contents' = Without(Contents, m.sequence)
    /\ owners' = [owners EXCEPT ![c] = @ \ {m.sequence}]
    /\ pc' = pc /\ current' = current - 1

\* ... or gives it back.
GivenBack(c, m) ==
    /\ m \in Contents /\ m.state = "ACQUIRED" /\ m.sequence \in owners[c]
    /\ Contents' = Without(Contents, m.sequence) \cup {InStateOf(m, "AVAILABLE")}
    /\ owners' = [owners EXCEPT ![c] = @ \ {m.sequence}]
    /\ pc' = pc /\ current' = current

Still == Contents' = Contents /\ owners' = owners /\ pc' = pc /\ current' = current

Effect ==
    \/ Reserved \/ Aborted \/ Still
    \/ \E m : Pushed(m) \/ Discarded(m)
    \/ \E c \in Subscriptions : \E m : Acquired(c, m) \/ Finished(c, m) \/ GivenBack(c, m)

\* Ending a record gives up the message it owns, and no other.
LEMMA PositionsEnd ==
    ASSUME NEW R \in SUBSET DeliveryRecord, NEW r \in R
    PROVE  Positions(R \ {r}) =
               IF r.acquired THEN Positions(R) \ {r.position} ELSE Positions(R)
<1>1. \A x \in R : x.acquired \in BOOLEAN /\ (x.acquired = r.acquired /\ x.position = r.position => x = r)
  BY DEF DeliveryRecord
<1>2. CASE r.acquired
  BY <1>1, <1>2 DEF Positions
<1>3. CASE ~r.acquired
  BY <1>1, <1>3 DEF Positions
<1> QED
  BY <1>2, <1>3

\* A new record adds the message it owns.
LEMMA PositionsAdd ==
    ASSUME NEW R, NEW r
    PROVE  Positions(R \cup {r}) =
               IF r.acquired THEN Positions(R) \cup {r.position} ELSE Positions(R)
<1>1. CASE r.acquired
  BY <1>1 DEF Positions
<1>2. CASE ~r.acquired
  BY <1>2 DEF Positions
<1> QED
  BY <1>1, <1>2

\* The facts about the content that the steps below start from.
LEMMA ContentsFacts ==
    ASSUME Sound
    PROVE  /\ \A m \in Contents :
                  /\ m \in Message /\ m.sequence \in Nat /\ m.sequence <= sequence
                  /\ m.state \in {"AVAILABLE", "ACQUIRED"}
           /\ \A m, n \in Contents : m.sequence = n.sequence => m = n
           /\ \A i \in Live(messages) : messages[i] \in Contents
           /\ \A m \in Contents : \E i \in Live(messages) : i \in DOMAIN messages /\ m = messages[i]
<1>1. DequeOK(messages, sequence)
  BY SoundFacts
<1>2. /\ messages \in Seq(Message) /\ Consecutive(messages)
      /\ \A i \in Live(messages) : messages[i].sequence <= sequence
  BY <1>1 DEF DequeOK
<1>3. \A i \in Live(messages) : messages[i] \in Contents
  BY DEF Contents, Content
<1> QED
  BY <1>2, <1>3, ContentFacts DEF Contents

\* A record of an owner, as a message of the queue.
LEMMA OwnersFacts ==
    ASSUME Sound
    PROVE  \A c \in Subscriptions :
               /\ unacked[c] \in SUBSET DeliveryRecord
               /\ owners[c] = Positions(unacked[c])
               /\ owners[c] \subseteq Nat
               /\ \A r \in unacked[c] : r.acquired => r.position \in owners[c]
<1> TAKE c \in Subscriptions
<1>1. unacked[c] \in SUBSET DeliveryRecord /\ owners[c] = Positions(unacked[c])
  BY DEF owners, Sound, TypeOK
<1>2. \A r \in unacked[c] : r.position \in Nat
  BY <1>1 DEF DeliveryRecord
<1> QED
  BY <1>1, <1>2 DEF Positions

\* Publishing on a plain queue.
LEMMA PublishEffect ==
    ASSUME PInv, Plain, Publish
    PROVE  Effect
<1> PICK p \in Publishers :
        \/ CheckDepth(p) \/ RingPurge(p) \/ RingGiveUp(p) \/ EnqueueAborted(p)
        \/ \E k \in Kinds : Push(p, k)
  BY DEF Publish
<1>1. Sound /\ pc[p] \in {"idle", "push"} /\ ~Ring
  BY DEF PInv, IInv, Exact, PlainPc, Plain
<1>2. CASE CheckDepth(p)
  <2>1. Contents' = Contents /\ owners' = owners
    BY <1>2 DEF CheckDepth, Contents, owners
  <2>2. pc[p] = "idle" /\ pc' = [pc EXCEPT ![p] = "push"] /\ current' = current + 1
    BY <1>1, <1>2 DEF CheckDepth
  <2> QED
    BY <2>1, <2>2 DEF Effect, Reserved
<1>3. CASE RingPurge(p) \/ RingGiveUp(p)
  BY <1>1, <1>3 DEF RingPurge, RingGiveUp
<1>4. CASE EnqueueAborted(p)
  <2>1. Contents' = Contents /\ owners' = owners
    BY <1>4 DEF EnqueueAborted, Contents, owners
  <2>2. pc[p] = "push" /\ pc' = [pc EXCEPT ![p] = "idle"] /\ current' = current - 1
    BY <1>4 DEF EnqueueAborted
  <2> QED
    BY <2>1, <2>2 DEF Effect, Aborted
<1>5. ASSUME NEW k \in Kinds, Push(p, k) PROVE Effect
  <2> DEFINE m == [sequence |-> sequence + 1, state |-> "AVAILABLE", kind |-> k]
  <2>1. /\ sequence \in Nat /\ sequence < MaxSequence
        /\ messages \in Seq(Message) /\ Consecutive(messages)
        /\ messages' = publish(messages, sequence + 1, k)
    BY <1>1, <1>5, SoundFacts DEF Push
  <2>2. \A n \in Contents : n.sequence < sequence + 1
    BY <1>1, <2>1, ContentsFacts
  <2>3. \A i \in Live(messages) : messages[i].sequence < sequence + 1
    BY <2>2 DEF Contents, Content
  <2>4. Contents' = Contents \cup {m}
    <3>1. sequence + 1 \in Nat
      BY <2>1
    <3>2. Content(publish(messages, sequence + 1, k)) = Content(messages) \cup {m}
      BY <2>1, <2>3, <3>1, PublishContent
    <3> QED
      BY <2>1, <3>2 DEF Contents
  <2>5. /\ m \in Message /\ m.state = "AVAILABLE" /\ m.kind \in Kinds
        /\ m.sequence = sequence + 1
    BY <2>1 DEF Message, MessageStates
  <2>6. sequence' = sequence + 1 /\ sequence' \in 1 .. MaxSequence
    BY <1>5, <2>1, BoundAssumption DEF Push
  <2>7. pc[p] = "push" /\ pc' = [pc EXCEPT ![p] = "idle"] /\ current' = current /\ owners' = owners
    BY <1>5 DEF Push, owners
  <2> HIDE DEF m
  <2>8. Pushed(m)
    BY <2>2, <2>4, <2>5, <2>6, <2>7 DEF Pushed
  <2> QED
    BY <2>8 DEF Effect
<1> QED
  BY <1>2, <1>3, <1>4, <1>5

\* What next() shows a consumer is the oldest available message it wants.
LEMMA NextForIsOldest ==
    ASSUME PInv, NEW c \in Subscriptions, preAcquires(c), NextFor(c) # 0,
           NEW n \in Contents, n.state = "AVAILABLE", n.kind \in Selector[c]
    PROVE  messages[NextFor(c)].sequence <= n.sequence
<1> DEFINE cur == cursor[c]
           k == next(messages, version, cur)
<1>1. /\ messages \in Seq(Message) /\ Consecutive(messages) /\ version \in Nat
      /\ cur \in QueueCursor /\ Sound
  BY SoundFacts DEF PInv, IInv
<1>2. PICK i \in Live(messages) : i \in DOMAIN messages /\ n = messages[i]
  BY <1>1, ContentsFacts
<1>3. i \in available(messages)
  BY <1>2 DEF available
<1>4. reset(cur, version) \/ ~(messages[i].sequence <= cur.position)
  BY <1>2, <1>3 DEF PInv, IInv, NoSkipped
<1>5. messages[i].sequence \in Nat /\ cur.position \in Int
  BY <1>1, <1>2, DequeProperties DEF QueueCursor
<1>6. reset(cur, version) \/ messages[i].sequence > cur.position
  BY <1>4, <1>5
<1>7. check(cur, messages[i])
  BY <1>2 DEF check
<1>8. i \in candidates(messages, version, cur)
  BY <1>1, <1>2, <1>6, <1>7, CandidatesByPosition
<1>9. k # 0 /\ k \in DOMAIN messages /\ k <= i
  BY <1>1, <1>8, NextProperties DEF NextFor
<1> HIDE DEF k
<1>10. /\ DOMAIN messages = 1 .. Len(messages) /\ Len(messages) \in Nat /\ front(messages) \in Nat
  <2>1. messages # << >>
    BY <1>1, <1>2, DequeProperties
  <2> QED
    BY <1>1, <2>1, DequeProperties DEF front
<1>11. /\ messages[k].sequence = front(messages) + k - 1
       /\ messages[i].sequence = front(messages) + i - 1
  BY <1>1, <1>2, <1>9 DEF Consecutive
<1>12. k \in Int /\ i \in Int
  BY <1>2, <1>9, <1>10
<1>13. messages[k].sequence <= messages[i].sequence
  BY <1>9, <1>10, <1>11, <1>12
<1> QED
  BY <1>2, <1>13 DEF k, NextFor

\* A message that is not acquired has no owner.
LEMMA FreeHasNoOwner ==
    ASSUME PInv, NEW m \in Contents, m.state = "AVAILABLE", NEW c \in Subscriptions
    PROVE  m.sequence \notin owners[c]
BY ContentsFacts DEF PInv, IInv, Exact, RecordsHeld

\* Dispatch on a plain queue.
LEMMA GetEffect ==
    ASSUME PInv, Plain, Get
    PROVE  Effect
<1> PICK c \in Subscriptions :
        \/ GetExpired(c) \/ GetUnwanted(c) \/ GetMessage(c)
        \/ GetWithoutCredit(c) \/ GetNothing(c)
  BY DEF Get
<1> DEFINE m == messages[NextFor(c)]
<1>1. Sound /\ messages \in Seq(Message) /\ Consecutive(messages)
  BY SoundFacts DEF PInv, IInv
<1>2. NextFor(c) # 0 => /\ NextFor(c) \in Live(messages) /\ NextFor(c) \in DOMAIN messages
                        /\ m.sequence \in Nat /\ m \in Contents
                        /\ preAcquires(c) => m.state = "AVAILABLE"
  BY <1>1, NextForFacts, ContentsFacts
<1>3. CASE GetExpired(c)
  <2>1. NextFor(c) # 0 /\ m.kind \in Perishable
    BY <1>3 DEF GetExpired
  <2>2. TypeOf[c] \notin {"REPLICATOR", "PURGE"}
    BY <2>1, SubscriptionAssumption DEF Plain
  <2>3. m.state = "AVAILABLE"
    <3>1. check(cursor[c], m) /\ cursor[c].type = TypeOf[c]
      BY <1>1, <2>1, SoundFacts, NextProperties DEF NextFor
    <3> QED
      BY <2>2, <3>1 DEF check
  <2>4. messages' = deleted(messages, m.sequence)
    BY <1>3 DEF GetExpired
  <2>5. m.sequence \in Int /\ m \in Contents
    BY <1>2, <2>1
  <2>6. pc' = pc /\ owners' = owners /\ current' = current - 1
    BY <1>3 DEF GetExpired, owners
  <2> HIDE DEF m
  <2>7. Content(deleted(messages, m.sequence)) = Without(Content(messages), m.sequence)
    BY <1>1, <2>5, DeletedContent
  <2>8. Contents' = Without(Contents, m.sequence)
    BY <2>4, <2>7 DEF Contents
  <2>9. Discarded(m)
    BY <2>3, <2>5, <2>6, <2>8 DEF Discarded
  <2> QED
    BY <2>9 DEF Effect
<1>4. CASE GetUnwanted(c) \/ GetWithoutCredit(c) \/ GetNothing(c)
  BY <1>4 DEF GetUnwanted, GetWithoutCredit, GetNothing, vars, Effect, Still, Contents, owners
<1>5. CASE GetMessage(c)
  <2> DEFINE r == Record(c, preAcquires(c))
  <2>1. NextFor(c) # 0 /\ m.kind \in Selector[c]
    BY <1>5 DEF GetMessage
  <2>2. unacked' = [unacked EXCEPT ![c] = @ \cup {r}] /\ pc' = pc /\ current' = current
    BY <1>5 DEF GetMessage
  <2>3. r.position = m.sequence /\ r.acquired = preAcquires(c)
    BY DEF Record
  <2>4. messages' = IF preAcquires(c) THEN acquire(messages, NextFor(c)) ELSE messages
    BY <1>5 DEF GetMessage
  <2> HIDE DEF r
  <2>5. unacked \in [Subscriptions -> SUBSET DeliveryRecord]
    BY <1>1 DEF Sound, TypeOK
  <2>6. unacked' = [d \in Subscriptions |-> IF d = c THEN unacked[c] \cup {r} ELSE unacked[d]]
    BY <2>2, <2>5
  <2>7. Positions(unacked[c] \cup {r}) =
            IF preAcquires(c) THEN Positions(unacked[c]) \cup {m.sequence} ELSE Positions(unacked[c])
    BY <2>3, PositionsAdd
  <2>8. owners' = [d \in Subscriptions |->
                       IF d = c /\ preAcquires(c) THEN owners[c] \cup {m.sequence} ELSE owners[d]]
    <3>1. \A d \in Subscriptions : Positions(unacked'[d]) =
              IF d = c /\ preAcquires(c) THEN owners[c] \cup {m.sequence} ELSE owners[d]
      BY <2>6, <2>7 DEF owners
    <3>2. owners' = [d \in Subscriptions |-> Positions(unacked'[d])]
      BY DEF owners
    <3> QED
      BY <3>1, <3>2
  <2>9. CASE ~preAcquires(c)
    <3>1. Contents' = Contents
      BY <2>4, <2>9 DEF Contents
    <3>2. owners' = owners
      BY <2>8, <2>9 DEF owners
    <3> QED
      BY <2>2, <3>1, <3>2 DEF Effect, Still
  <2>10. CASE preAcquires(c)
    <3>1. Content(acquire(messages, NextFor(c))) =
              Without(Content(messages), m.sequence) \cup {InStateOf(m, "ACQUIRED")}
      BY <1>1, <1>2, <2>1, AcquireContent
    <3>2. Contents' = Without(Contents, m.sequence) \cup {InStateOf(m, "ACQUIRED")}
      BY <2>4, <2>10, <3>1 DEF Contents
    <3>3. owners' = [owners EXCEPT ![c] = @ \cup {m.sequence}]
      BY <2>8, <2>10 DEF owners
    <3>4. m \in Contents /\ m.state = "AVAILABLE"
      BY <1>2, <2>1, <2>10
    <3>5. \A n \in Contents :
              n.state = "AVAILABLE" /\ n.kind \in Selector[c] => m.sequence <= n.sequence
      BY <2>1, <2>10, NextForIsOldest
    <3> HIDE DEF m
    <3>6. Acquired(c, m)
      BY <2>1, <2>2, <3>2, <3>3, <3>4, <3>5 DEF Acquired
    <3> QED
      BY <3>6 DEF Effect
  <2> QED
    BY <2>9, <2>10
<1> QED
  BY <1>3, <1>4, <1>5

\* A settled record takes what it owned from its subscription's positions.
LEMMA EndRecordOwners ==
    ASSUME Sound, NEW c \in Subscriptions, NEW r \in unacked[c], EndRecord(c, r)
    PROVE  owners' = IF r.acquired THEN [owners EXCEPT ![c] = @ \ {r.position}] ELSE owners
<1>1. unacked \in [Subscriptions -> SUBSET DeliveryRecord]
  BY DEF Sound, TypeOK
<1>2. unacked' = [d \in Subscriptions |-> IF d = c THEN unacked[c] \ {r} ELSE unacked[d]]
  BY <1>1 DEF EndRecord
<1>3. Positions(unacked[c] \ {r}) =
          IF r.acquired THEN Positions(unacked[c]) \ {r.position} ELSE Positions(unacked[c])
  BY <1>1, PositionsEnd
<1>4. owners' = [d \in Subscriptions |-> Positions(unacked'[d])]
  BY DEF owners
<1>5. \A d \in Subscriptions : Positions(unacked'[d]) =
          IF d = c /\ r.acquired THEN owners[c] \ {r.position} ELSE owners[d]
  BY <1>2, <1>3 DEF owners
<1>6. owners' = [d \in Subscriptions |->
                    IF d = c /\ r.acquired THEN owners[c] \ {r.position} ELSE owners[d]]
  BY <1>4, <1>5
<1> QED
  BY <1>6 DEF owners

\* What sessions do with their records on a plain queue.
LEMMA SettleEffect ==
    ASSUME PInv, Plain, Settle
    PROVE  Effect
<1> PICK c \in Subscriptions :
        \E r \in unacked[c] : Dequeue(c, r) \/ Release(c, r) \/ AcquireShown(c, r)
  BY DEF Settle
<1> PICK r \in unacked[c] : Dequeue(c, r) \/ Release(c, r) \/ AcquireShown(c, r)
  OBVIOUS
<1>1. Sound /\ messages \in Seq(Message) /\ Consecutive(messages)
  BY SoundFacts DEF PInv, IInv
<1>2. r \in DeliveryRecord /\ r.position \in Nat /\ (r.acquired => r.position \in owners[c])
  BY <1>1, SoundFacts, OwnersFacts
<1>3. r.acquired => \E m \in Contents : m.sequence = r.position /\ m.state = "ACQUIRED"
  BY <1>2 DEF PInv, Exact, RecordsHeld
<1>4. find(messages, r.position) <=> \E m \in Contents : m.sequence = r.position
  BY <1>1, <1>2, FindContent DEF Contents
<1>5. CASE Dequeue(c, r)
  <2>1. EndRecord(c, r) /\ pc' = pc
    BY <1>5 DEF Dequeue
  <2>2. owners' = IF r.acquired THEN [owners EXCEPT ![c] = @ \ {r.position}] ELSE owners
    BY <1>1, <2>1, EndRecordOwners
  <2>3. CASE ~r.acquired
    <3>1. messages' = messages /\ current' = current
      BY <1>5, <2>3 DEF Dequeue
    <3> QED
      BY <2>1, <2>2, <2>3, <3>1 DEF Effect, Still, Contents
  <2>4. CASE r.acquired
    <3>1. PICK m \in Contents : m.sequence = r.position /\ m.state = "ACQUIRED"
      BY <1>3, <2>4
    <3>2. messages' = deleted(messages, r.position) /\ current' = current - 1
      BY <1>4, <1>5, <2>4, <3>1 DEF Dequeue
    <3>3. Content(deleted(messages, r.position)) = Without(Content(messages), r.position)
      BY <1>1, <1>2, DeletedContent
    <3>4. Contents' = Without(Contents, m.sequence)
      BY <3>1, <3>2, <3>3 DEF Contents
    <3>5. Finished(c, m)
      BY <1>2, <2>1, <2>2, <2>4, <3>1, <3>2, <3>4 DEF Finished
    <3> QED
      BY <3>5 DEF Effect
  <2> QED
    BY <2>3, <2>4
<1>6. CASE Release(c, r)
  <2>1. /\ EndRecord(c, r) /\ pc' = pc /\ current' = current /\ r.acquired
        /\ messages' = release(messages, r.position)
    BY <1>6 DEF Release
  <2>2. owners' = [owners EXCEPT ![c] = @ \ {r.position}]
    BY <1>1, <2>1, EndRecordOwners
  <2>3. PICK m \in Contents : m.sequence = r.position /\ m.state = "ACQUIRED"
    BY <1>3, <2>1
  <2>4. Content(release(messages, m.sequence)) =
            Without(Content(messages), m.sequence) \cup {InStateOf(m, "AVAILABLE")}
    BY <1>1, ReleaseContent DEF Contents
  <2>5. Contents' = Without(Contents, m.sequence) \cup {InStateOf(m, "AVAILABLE")}
    BY <2>1, <2>3, <2>4 DEF Contents
  <2>6. GivenBack(c, m)
    BY <1>2, <2>1, <2>2, <2>3, <2>5 DEF GivenBack
  <2> QED
    BY <2>6 DEF Effect
<1>7. CASE AcquireShown(c, r)
  <2> DEFINE k == offset(messages, r.position) + 1
             a == [r EXCEPT !.acquired = TRUE]
             m == messages[k]
  <2>1. /\ ~r.acquired /\ find(messages, r.position) /\ m.state = "AVAILABLE"
        /\ messages' = acquire(messages, k)
        /\ unacked' = [unacked EXCEPT ![c] = (unacked[c] \ {r}) \cup {a}]
        /\ pc' = pc /\ current' = current
    BY <1>7 DEF AcquireShown
  <2>2. k \in Live(messages) /\ k \in DOMAIN messages /\ m.sequence = r.position
    BY <1>1, <1>2, <2>1, FindContent DEF Live
  <2>3. m \in Contents
    BY <1>1, <2>2, ContentsFacts
  <2>4. a.acquired = TRUE /\ a.position = r.position
    BY <1>2 DEF DeliveryRecord
  <2>5. Content(acquire(messages, k)) =
            Without(Content(messages), m.sequence) \cup {InStateOf(m, "ACQUIRED")}
    BY <1>1, <2>2, AcquireContent
  <2>6. Contents' = Without(Contents, m.sequence) \cup {InStateOf(m, "ACQUIRED")}
    BY <2>1, <2>5 DEF Contents
  <2>7. ~preAcquires(c)
    BY <2>1 DEF PInv, Exact, TakersOwn
  <2> HIDE DEF k, a, m
  <2>8. unacked \in [Subscriptions -> SUBSET DeliveryRecord]
    BY <1>1 DEF Sound, TypeOK
  <2>9. Positions((unacked[c] \ {r}) \cup {a}) = owners[c] \cup {m.sequence}
    <3>1. Positions(unacked[c] \ {r}) = Positions(unacked[c])
      BY <2>1, <2>8, PositionsEnd
    <3> QED
      BY <2>2, <2>4, <3>1, PositionsAdd DEF owners
  <2>10. owners' = [owners EXCEPT ![c] = @ \cup {m.sequence}]
    <3>1. owners' = [d \in Subscriptions |-> Positions(unacked'[d])]
      BY DEF owners
    <3>2. \A d \in Subscriptions : Positions(unacked'[d]) =
              IF d = c THEN owners[c] \cup {m.sequence} ELSE owners[d]
      BY <2>1, <2>8, <2>9 DEF owners
    <3>3. owners' = [d \in Subscriptions |->
                         IF d = c THEN owners[c] \cup {m.sequence} ELSE owners[d]]
      BY <3>1, <3>2
    <3> QED
      BY <3>3 DEF owners
  <2>11. Acquired(c, m)
    BY <2>1, <2>3, <2>6, <2>7, <2>10 DEF Acquired
  <2> QED
    BY <2>11 DEF Effect
<1> QED
  BY <1>5, <1>6, <1>7

\* Management and replication on a plain queue.
LEMMA ManageEffect ==
    ASSUME PInv, Plain, Manage
    PROVE  Effect
<1>1. Sound /\ messages \in Seq(Message) /\ Consecutive(messages)
  BY SoundFacts DEF PInv, IInv
<1>2. ASSUME NEW K, RemoveOne(K) PROVE Effect
  <2> DEFINE matching == {i \in available(messages) : messages[i].kind \in K}
             m == messages[Min(matching)]
  <2>1. matching \subseteq DOMAIN messages /\ DOMAIN messages \subseteq Nat
    BY <1>1, DequeProperties DEF available
  <2>2. /\ matching # {} /\ messages' = deleted(messages, m.sequence)
        /\ current' = current - 1 /\ pc' = pc /\ owners' = owners
    BY <1>2 DEF RemoveOne, owners
  <2>3. Min(matching) \in matching
    <3> HIDE DEF matching
    <3> QED
      BY <2>1, <2>2, MinOfNats
  <2>4. Min(matching) \in Live(messages) /\ m.state = "AVAILABLE"
    BY <2>3 DEF available, Live
  <2>5. m \in Contents
    BY <1>1, <2>4, ContentsFacts
  <2>6. m.sequence \in Int
    BY <1>1, <2>5, ContentsFacts
  <2> HIDE DEF m
  <2>7. Content(deleted(messages, m.sequence)) = Without(Content(messages), m.sequence)
    BY <1>1, <2>6, DeletedContent
  <2>8. Contents' = Without(Contents, m.sequence)
    BY <2>2, <2>7 DEF Contents
  <2>9. Discarded(m)
    BY <2>2, <2>4, <2>5, <2>8 DEF Discarded
  <2> QED
    BY <2>9 DEF Effect
<1>3. ASSUME NEW c \in Subscriptions, NEW n \in 0 .. MaxSequence, Seek(c, n) PROVE Effect
  BY <1>3 DEF Seek, Effect, Still, Contents, owners
<1>4. ASSUME NEW n \in 0 .. MaxSequence, DequeueMessageAt(n) PROVE Effect
  <2>1. /\ Backup /\ find(messages, n) /\ messages' = deleted(messages, n)
        /\ current' = current - 1 /\ pc' = pc /\ owners' = owners
    BY <1>4 DEF DequeueMessageAt, owners
  <2>2. PICK m \in Contents : m.sequence = n
    BY <1>1, <2>1, FindContent DEF Contents
  <2>3. \A c \in Subscriptions : owners[c] = {}
    BY <2>1 DEF Backup, owners, Positions
  <2>4. m.state = "AVAILABLE"
    BY <1>1, <2>2, <2>3, ContentsFacts DEF PInv, Exact, HeldOnce
  <2>5. Contents' = Without(Contents, m.sequence)
    BY <1>1, <2>1, <2>2, DeletedContent DEF Contents
  <2>6. Discarded(m)
    BY <2>1, <2>2, <2>4, <2>5 DEF Discarded
  <2> QED
    BY <2>6 DEF Effect
<1>5. ASSUME NEW n \in 0 .. MaxSequence, SetPosition(n) PROVE Effect
  BY <1>5 DEF SetPosition, Effect, Still, Contents, owners
<1> QED
  BY <1>2, <1>3, <1>4, <1>5 DEF Manage

\* Every step of a plain queue has one of the eight effects.
LEMMA NextEffect ==
    ASSUME PInv, Plain, [Next]_vars
    PROVE  Effect
<1>1. CASE Next
  BY <1>1, PublishEffect, GetEffect, SettleEffect, ManageEffect DEF Next
<1>2. CASE UNCHANGED vars
  BY <1>2 DEF vars, Effect, Still, Contents, owners
<1> QED
  BY <1>1, <1>2

----------------------------------------------------------------------------
(* What a plain queue contains is exact                                    *)

\* A consumer never holds a record of a message it has not acquired.
LEMMA TakersOwnStep ==
    ASSUME PInv, Plain, [Next]_vars
    PROVE  TakersOwn'
<1>1. unacked \in [Subscriptions -> SUBSET DeliveryRecord] /\ TakersOwn
  BY DEF PInv, IInv, Sound, TypeOK, Exact
<1> SUFFICES ASSUME NEW d \in Subscriptions, preAcquires(d), NEW x \in unacked'[d]
             PROVE  x.acquired
  BY DEF TakersOwn, preAcquires
<1>2. CASE unacked' = unacked
  BY <1>1, <1>2 DEF TakersOwn
<1>3. ASSUME NEW c \in Subscriptions, GetMessage(c) PROVE x.acquired
  <2>1. x \in unacked[d] \/ (d = c /\ x = Record(c, preAcquires(c)))
    BY <1>1, <1>3 DEF GetMessage
  <2> QED
    BY <1>1, <2>1 DEF TakersOwn, Record
<1>4. ASSUME NEW c \in Subscriptions, NEW r \in unacked[c],
             Dequeue(c, r) \/ Release(c, r)
      PROVE  x.acquired
  <2>1. x \in unacked[d]
    BY <1>1, <1>4 DEF Dequeue, Release, EndRecord
  <2> QED
    BY <1>1, <2>1 DEF TakersOwn
<1>5. ASSUME NEW c \in Subscriptions, NEW r \in unacked[c], AcquireShown(c, r)
      PROVE  x.acquired
  <2>1. ~preAcquires(c)
    BY <1>1, <1>5 DEF AcquireShown, TakersOwn
  <2>2. x \in unacked[d]
    BY <1>1, <1>5, <2>1 DEF AcquireShown
  <2> QED
    BY <1>1, <2>2 DEF TakersOwn
<1>6. CASE Publish
  <2>1. unacked' = unacked
    BY <1>6 DEF Publish, CheckDepth, RingPurge, RingGiveUp, EnqueueAborted, Push
  <2> QED
    BY <1>2, <2>1
<1>7. CASE Get
  <2>1. unacked' = unacked \/ \E c \in Subscriptions : GetMessage(c)
    BY <1>7 DEF Get, GetExpired, GetUnwanted, GetWithoutCredit, GetNothing, vars
  <2> QED
    BY <1>2, <1>3, <2>1
<1>8. CASE Manage
  <2>1. unacked' = unacked
    BY <1>8 DEF Manage, RemoveOne, Seek, DequeueMessageAt, SetPosition
  <2> QED
    BY <1>2, <2>1
<1> QED
  BY <1>2, <1>4, <1>5, <1>6, <1>7, <1>8 DEF Next, Settle, vars

\* Messages in two states, by their numbers: what the effects below need.
LEMMA ExactFacts ==
    ASSUME PInv
    PROVE  /\ \A m \in Contents : /\ m \in Message /\ m.sequence \in Nat
                                  /\ m.state \in {"AVAILABLE", "ACQUIRED"}
           /\ \A m, n \in Contents : m.sequence = n.sequence => m = n
           /\ \A m \in Contents, s \in {"AVAILABLE", "ACQUIRED"} :
                  InStateOf(m, s).sequence = m.sequence /\ InStateOf(m, s).state = s
           /\ IsFiniteSet(Contents) /\ Cardinality(Contents) \in Nat
           /\ IsFiniteSet(Pushing) /\ Cardinality(Pushing) \in Nat
           /\ pc \in [Publishers -> PCs]
           /\ owners = [c \in Subscriptions |-> owners[c]]
<1>1. Sound /\ messages \in Seq(Message) /\ Consecutive(messages)
  BY SoundFacts DEF PInv, IInv
<1>2. /\ \A m \in Contents : /\ m \in Message /\ m.sequence \in Nat
                             /\ m.state \in {"AVAILABLE", "ACQUIRED"}
      /\ \A m, n \in Contents : m.sequence = n.sequence => m = n
  BY <1>1, ContentsFacts
<1>3. \A m \in Contents, s \in {"AVAILABLE", "ACQUIRED"} :
          InStateOf(m, s).sequence = m.sequence /\ InStateOf(m, s).state = s
  BY <1>2 DEF Message, InStateOf
<1>4. IsFiniteSet(Contents) /\ IsFiniteSet(Pushing)
  BY <1>1, ContentCardinality DEF Contents, PInv, Exact, DepthOK
<1>5. Cardinality(Contents) \in Nat /\ Cardinality(Pushing) \in Nat
  BY <1>4, FS_CardinalityType
<1>6. pc \in [Publishers -> PCs] /\ owners = [c \in Subscriptions |-> owners[c]]
  BY <1>1 DEF Sound, TypeOK, PCs, owners
<1> QED
  BY <1>2, <1>3, <1>4, <1>5, <1>6

\* Without the message numbered as m, and with m in another state instead.
LEMMA ContentsChange ==
    ASSUME PInv, NEW m \in Contents, NEW s \in {"AVAILABLE", "ACQUIRED"}
    PROVE  /\ Without(Contents, m.sequence) = Contents \ {m}
           /\ IsFiniteSet(Contents \ {m})
           /\ Cardinality(Contents \ {m}) = Cardinality(Contents) - 1
           /\ Cardinality((Contents \ {m}) \cup {InStateOf(m, s)}) = Cardinality(Contents)
<1>1. Without(Contents, m.sequence) = Contents \ {m}
  BY ExactFacts DEF Without
<1>2. IsFiniteSet(Contents \ {m}) /\ Cardinality(Contents \ {m}) = Cardinality(Contents) - 1
  BY ExactFacts, FS_RemoveElement
<1>3. InStateOf(m, s) \notin Contents \ {m}
  BY ExactFacts
<1>4. Cardinality((Contents \ {m}) \cup {InStateOf(m, s)}) = Cardinality(Contents \ {m}) + 1
  BY <1>2, <1>3, FS_AddElement
<1>5. Cardinality(Contents) \in Nat
  BY ExactFacts
<1> QED
  BY <1>1, <1>2, <1>4, <1>5

\* The effects on the program counters keep them and count them.
LEMMA PushingStep ==
    ASSUME PInv, Effect
    PROVE  /\ PlainPc'
           /\ IsFiniteSet(Pushing')
           /\ Reserved => Cardinality(Pushing') = Cardinality(Pushing) + 1
           /\ Aborted \/ (\E m : Pushed(m)) => Cardinality(Pushing') = Cardinality(Pushing) - 1
           /\ pc' = pc => Cardinality(Pushing') = Cardinality(Pushing)
<1>1. /\ pc \in [Publishers -> PCs] /\ IsFiniteSet(Pushing) /\ Cardinality(Pushing) \in Nat
      /\ \A p \in Publishers : pc[p] \in {"idle", "push"}
  BY ExactFacts DEF PInv, Exact, PlainPc
<1>2. ASSUME NEW p \in Publishers, pc[p] = "idle", pc' = [pc EXCEPT ![p] = "push"]
      PROVE  /\ PlainPc' /\ Pushing' = Pushing \cup {p} /\ p \notin Pushing
  BY <1>1, <1>2 DEF PlainPc, Pushing
<1>3. ASSUME NEW p \in Publishers, pc[p] = "push", pc' = [pc EXCEPT ![p] = "idle"]
      PROVE  /\ PlainPc' /\ Pushing' = Pushing \ {p} /\ p \in Pushing
  BY <1>1, <1>3 DEF PlainPc, Pushing
<1>4. CASE Reserved
  <2>1. PICK p \in Publishers : pc[p] = "idle" /\ pc' = [pc EXCEPT ![p] = "push"]
    BY <1>4 DEF Reserved
  <2>2. PlainPc' /\ Pushing' = Pushing \cup {p} /\ p \notin Pushing /\ p \in Pushing'
    BY <1>2, <2>1
  <2>3. IsFiniteSet(Pushing') /\ Cardinality(Pushing') = Cardinality(Pushing) + 1
    BY <1>1, <2>2, FS_AddElement
  <2>4. ~(Aborted \/ \E m : Pushed(m)) /\ pc' # pc
    <3>1. pc' # pc
      BY <2>2 DEF Pushing
    <3>2. ASSUME NEW q \in Publishers, pc[q] = "push", pc' = [pc EXCEPT ![q] = "idle"]
          PROVE  FALSE
      BY <1>3, <2>2, <3>2
    <3> QED
      BY <3>1, <3>2 DEF Aborted, Pushed
  <2> QED
    BY <2>2, <2>3, <2>4
<1>5. CASE Aborted \/ \E m : Pushed(m)
  <2>1. PICK p \in Publishers : pc[p] = "push" /\ pc' = [pc EXCEPT ![p] = "idle"]
    BY <1>5 DEF Aborted, Pushed
  <2>2. PlainPc' /\ Pushing' = Pushing \ {p} /\ p \in Pushing /\ p \notin Pushing'
    BY <1>3, <2>1
  <2>3. IsFiniteSet(Pushing') /\ Cardinality(Pushing') = Cardinality(Pushing) - 1
    BY <1>1, <2>2, FS_RemoveElement
  <2>4. ~Reserved /\ pc' # pc
    <3>1. pc' # pc
      BY <2>2 DEF Pushing
    <3>2. ASSUME NEW q \in Publishers, pc[q] = "idle", pc' = [pc EXCEPT ![q] = "push"]
          PROVE  FALSE
      BY <1>2, <2>2, <3>2
    <3> QED
      BY <3>1, <3>2 DEF Reserved
  <2> QED
    BY <2>2, <2>3, <2>4
<1>6. CASE pc' = pc
  <2>1. PlainPc' /\ Pushing' = Pushing
    BY <1>1, <1>6 DEF PlainPc, Pushing
  <2>2. ~Reserved /\ ~(Aborted \/ \E m : Pushed(m))
    BY <1>2, <1>3, <1>6, <2>1 DEF Reserved, Aborted, Pushed
  <2> QED
    BY <1>1, <2>1, <2>2
<1>7. \/ Reserved \/ Aborted \/ \E m : Pushed(m)
      \/ pc' = pc
  BY DEF Effect, Still, Discarded, Acquired, Finished, GivenBack
<1> QED
  BY <1>4, <1>5, <1>6, <1>7

\* The depth follows the content, whatever the step does.
LEMMA DepthStep ==
    ASSUME PInv, Effect
    PROVE  DepthOK'
<1> DEFINE n == Cardinality(Contents)
           k == Cardinality(Pushing)
<1>1. /\ n \in Nat /\ k \in Nat /\ current = n + k
      /\ IsFiniteSet(Contents)
  BY ExactFacts DEF PInv, Exact, DepthOK
<1>2. IsFiniteSet(Pushing')
  BY PushingStep
<1>3. CASE Reserved
  <2>1. current' = current + 1 /\ Contents' = Contents
    BY <1>3 DEF Reserved
  <2>2. Cardinality(Contents') = n /\ Cardinality(Pushing') = k + 1
    BY <1>3, <2>1, PushingStep
  <2> HIDE DEF n, k
  <2> QED
    BY <1>1, <1>2, <2>1, <2>2 DEF DepthOK
<1>4. CASE Aborted
  <2>1. current' = current - 1 /\ Contents' = Contents
    BY <1>4 DEF Aborted
  <2>2. Cardinality(Contents') = n /\ Cardinality(Pushing') = k - 1
    BY <1>4, <2>1, PushingStep
  <2> HIDE DEF n, k
  <2> QED
    BY <1>1, <1>2, <2>1, <2>2 DEF DepthOK
<1>5. ASSUME NEW m, Pushed(m) PROVE DepthOK'
  <2>1. /\ current' = current /\ Contents' = Contents \cup {m}
        /\ \A x \in Contents : x.sequence < m.sequence
        /\ m \in Message
    BY <1>5 DEF Pushed
  <2>2. m \notin Contents
    BY <2>1 DEF Message
  <2>3. Cardinality(Contents') = n + 1 /\ Cardinality(Pushing') = k - 1
    BY <1>1, <1>5, <2>1, <2>2, PushingStep, FS_AddElement
  <2> HIDE DEF n, k
  <2> QED
    BY <1>1, <1>2, <2>1, <2>3 DEF DepthOK
<1>6. ASSUME NEW m, Discarded(m) \/ \E c \in Subscriptions : Finished(c, m) PROVE DepthOK'
  <2>1. /\ m \in Contents /\ current' = current - 1 /\ pc' = pc
        /\ Contents' = Without(Contents, m.sequence)
    BY <1>6 DEF Discarded, Finished
  <2>2. Cardinality(Contents') = n - 1 /\ Cardinality(Pushing') = k
    BY <2>1, PushingStep, ContentsChange
  <2> HIDE DEF n, k
  <2> QED
    BY <1>1, <1>2, <2>1, <2>2 DEF DepthOK
<1>7. ASSUME NEW m, \E c \in Subscriptions : Acquired(c, m) \/ GivenBack(c, m) PROVE DepthOK'
  <2>1. PICK s \in {"AVAILABLE", "ACQUIRED"} :
            /\ m \in Contents /\ current' = current /\ pc' = pc
            /\ Contents' = Without(Contents, m.sequence) \cup {InStateOf(m, s)}
    BY <1>7 DEF Acquired, GivenBack
  <2>2. Cardinality(Contents') = n /\ Cardinality(Pushing') = k
    BY <2>1, PushingStep, ContentsChange
  <2> HIDE DEF n, k
  <2> QED
    BY <1>1, <1>2, <2>1, <2>2 DEF DepthOK
<1>8. CASE Still
  <2>1. current' = current /\ Contents' = Contents /\ pc' = pc
    BY <1>8 DEF Still
  <2>2. Cardinality(Contents') = n /\ Cardinality(Pushing') = k
    BY <2>1, PushingStep
  <2> HIDE DEF n, k
  <2> QED
    BY <1>1, <1>2, <2>1, <2>2 DEF DepthOK
<1> QED
  BY <1>3, <1>4, <1>5, <1>6, <1>7, <1>8 DEF Effect

\* The records and the acquired messages stay in step, whatever the step does.
LEMMA OwnersStep ==
    ASSUME PInv, Effect
    PROVE  RecordsHeld' /\ HeldOnce'
<1>1. RecordsHeld /\ HeldOnce
  BY DEF PInv, Exact
<1>2. CASE Contents' = Contents /\ owners' = owners
  BY <1>1, <1>2 DEF RecordsHeld, HeldOnce
<1>3. ASSUME NEW m, Pushed(m) PROVE RecordsHeld' /\ HeldOnce'
  <2>1. owners' = owners /\ Contents' = Contents \cup {m} /\ m.state = "AVAILABLE"
    BY <1>3 DEF Pushed
  <2> QED
    BY <1>1, <2>1 DEF RecordsHeld, HeldOnce
<1>4. ASSUME NEW m, Discarded(m) PROVE RecordsHeld' /\ HeldOnce'
  <2>1. /\ owners' = owners /\ m \in Contents /\ m.state = "AVAILABLE"
        /\ Contents' = Contents \ {m}
    BY <1>4, ContentsChange DEF Discarded
  <2> QED
    BY <1>1, <2>1, FreeHasNoOwner DEF RecordsHeld, HeldOnce
<1>5. ASSUME NEW c \in Subscriptions, NEW m, Acquired(c, m) PROVE RecordsHeld' /\ HeldOnce'
  <2> DEFINE a == InStateOf(m, "ACQUIRED")
  <2>1. /\ m \in Contents /\ m.state = "AVAILABLE"
        /\ Contents' = (Contents \ {m}) \cup {a}
        /\ owners' = [owners EXCEPT ![c] = @ \cup {m.sequence}]
    BY <1>5, ContentsChange DEF Acquired
  <2>2. a.sequence = m.sequence /\ a.state = "ACQUIRED"
    BY <2>1, ExactFacts
  <2> HIDE DEF a
  <2>3. \A d \in Subscriptions :
            owners'[d] = IF d = c THEN owners[c] \cup {m.sequence} ELSE owners[d]
    BY <2>1 DEF owners
  <2>4. \A d \in Subscriptions : m.sequence \notin owners[d]
    BY <2>1, FreeHasNoOwner
  <2>5. RecordsHeld'
    BY <1>1, <2>1, <2>2, <2>3, <2>4 DEF RecordsHeld
  <2>6. HeldOnce'
    <3> SUFFICES ASSUME NEW n \in Contents', n.state = "ACQUIRED"
                 PROVE  \E e \in Subscriptions : \A d \in Subscriptions :
                            n.sequence \in owners'[d] <=> d = e
      BY DEF HeldOnce
    <3>1. CASE n = a
      BY <2>2, <2>3, <2>4, <3>1
    <3>2. CASE n # a
      <4>1. n \in Contents /\ n.sequence # m.sequence
        BY <2>1, <3>2, ExactFacts
      <4> QED
        BY <1>1, <2>3, <4>1 DEF HeldOnce
    <3> QED
      BY <3>1, <3>2
  <2> QED
    BY <2>5, <2>6
<1>6. ASSUME NEW c \in Subscriptions, NEW m, Finished(c, m) \/ GivenBack(c, m)
      PROVE  RecordsHeld' /\ HeldOnce'
  <2>1. /\ m \in Contents /\ m.state = "ACQUIRED" /\ m.sequence \in owners[c]
        /\ owners' = [owners EXCEPT ![c] = @ \ {m.sequence}]
    BY <1>6 DEF Finished, GivenBack
  <2>2. /\ Contents \ {m} \subseteq Contents'
        /\ \A n \in Contents' : n.state = "ACQUIRED" => n \in Contents \ {m}
    <3>1. InStateOf(m, "AVAILABLE").state = "AVAILABLE"
      BY <2>1, ExactFacts
    <3>2. Without(Contents, m.sequence) = Contents \ {m}
      BY <2>1, ContentsChange
    <3> QED
      BY <1>6, <3>1, <3>2 DEF Finished, GivenBack
  <2>3. \A d \in Subscriptions :
            owners'[d] = IF d = c THEN owners[c] \ {m.sequence} ELSE owners[d]
    BY <2>1 DEF owners
  <2>4. \A d \in Subscriptions : m.sequence \in owners[d] => d = c
    BY <1>1, <2>1 DEF HeldOnce
  <2>5. \A d \in Subscriptions : m.sequence \notin owners'[d] /\ owners'[d] \subseteq owners[d]
    BY <2>3, <2>4
  <2>6. RecordsHeld'
    BY <1>1, <2>2, <2>5 DEF RecordsHeld
  <2>7. HeldOnce'
    <3> SUFFICES ASSUME NEW n \in Contents', n.state = "ACQUIRED"
                 PROVE  \E e \in Subscriptions : \A d \in Subscriptions :
                            n.sequence \in owners'[d] <=> d = e
      BY DEF HeldOnce
    <3>1. n \in Contents /\ n.sequence # m.sequence
      BY <2>1, <2>2, ExactFacts
    <3> QED
      BY <1>1, <2>3, <3>1 DEF HeldOnce
  <2> QED
    BY <2>6, <2>7
<1>7. \/ Contents' = Contents /\ owners' = owners
      \/ \E m : Pushed(m) \/ Discarded(m)
      \/ \E c \in Subscriptions : \E m : Acquired(c, m) \/ Finished(c, m) \/ GivenBack(c, m)
  BY DEF Effect, Reserved, Aborted, Still
<1> QED
  BY <1>2, <1>3, <1>4, <1>5, <1>6, <1>7

\* The initial queue is empty.
LEMMA InitExact == Init => Exact
<1> SUFFICES ASSUME Init PROVE Exact
  OBVIOUS
<1>1. Contents = {} /\ Pushing = {}
  BY DEF Init, Contents, Content, Live, Pushing
<1>2. \A c \in Subscriptions : owners[c] = {}
  BY DEF Init, owners, Positions
<1>3. DepthOK
  BY <1>1, FS_EmptySet DEF Init, DepthOK
<1>4. PlainPc /\ TakersOwn /\ RecordsHeld /\ HeldOnce
  BY <1>1, <1>2 DEF Init, PlainPc, TakersOwn, RecordsHeld, HeldOnce
<1> QED
  BY <1>3, <1>4 DEF Exact

----------------------------------------------------------------------------
(* Theorems                                                                *)

\* The invariant is inductive.
LEMMA InvInit == ASSUME Init PROVE IInv
<1>1. NoSkipped
  BY DEF Init, NoSkipped, reset, NewCursor
<1> QED
  BY <1>1, InitSound DEF IInv

LEMMA InvStep == ASSUME IInv, [Next]_vars PROVE IInv'
<1>1. CASE Next
  <2>1. Sound'
    BY <1>1, PublishSound, GetSound, SettleSound, ManageSound DEF IInv, Next
  <2> QED
    BY <1>1, <2>1, NoSkippedStep DEF IInv
<1>2. CASE UNCHANGED vars
  <2>1. Sound'
    BY <1>2 DEF vars, IInv, Sound, TypeOK, RecordsBehind, CursorsBehind, preAcquires
  <2>2. NoSkipped'
    BY <1>2, SameFewer, FewerStep DEF vars
  <2> QED
    BY <2>1, <2>2 DEF IInv
<1> QED
  BY <1>1, <1>2

LEMMA Inductive == Spec => []IInv
<1>1. Init => IInv
  BY InvInit
<1>2. IInv /\ [Next]_vars => IInv'
  BY InvStep
<1> QED
  BY <1>1, <1>2, PTL DEF Spec

\* Type correctness: the container operations, the cursor moves and the
\* settlement of delivery records keep every field within its type.
THEOREM TypeCorrect == Spec => []TypeOK
<1>1. IInv => TypeOK
  BY DEF IInv, Sound
<1> QED
  BY <1>1, Inductive, PTL

\* The sequence numbers in the deque are consecutive: what index() assumes
\* holds after any mix of publish(), deleted(), clean() and setPosition().
THEOREM DequeContiguous == Spec => []Contiguous
<1>1. IInv => Contiguous
  BY DEF IInv, Sound, DequeOK, Consecutive, Contiguous
<1> QED
  BY <1>1, Inductive, PTL

\* publish() never throws "Index out of sequence!".
THEOREM NeverOutOfSequence == Spec => []InSequence
<1>1. IInv => InSequence
  <2> SUFFICES ASSUME IInv PROVE InSequence
    OBVIOUS
  <2>1. \A i \in Live(messages) : messages[i].sequence < sequence + 1
    <3> TAKE i \in Live(messages)
    <3>1. messages[i].sequence \in Nat /\ messages[i].sequence <= sequence /\ sequence \in Nat
      BY SoundFacts DEF IInv, DequeOK, Live
    <3> QED
      BY <3>1
  <2>2. clean(messages) \in Seq(Message) /\ Consecutive(clean(messages))
        /\ \A i \in DOMAIN clean(messages) : \E j \in DOMAIN messages : clean(messages)[i] = messages[j]
    BY SoundFacts, CleanConsecutive DEF IInv
  <2>3. \A i \in Live(clean(messages)) : clean(messages)[i].sequence < sequence + 1
    BY <2>1, <2>2 DEF Live
  <2>4. sequence + 1 \in Nat
    BY SoundFacts DEF IInv
  <2> QED
    BY <2>2, <2>3, <2>4, StrippedProperties DEF InSequence, inSequence
<1> QED
  BY <1>1, Inductive, PTL

\* Messages::next() shows a subscription the messages numbered after its
\* cursor, or all of them when it must restart, on every reachable queue.
THEOREM NextKeepsItsPromise == Spec => []NextByPosition
<1>1. IInv => NextByPosition
  BY SoundFacts, CandidatesByPosition DEF IInv, NextByPosition
<1> QED
  BY <1>1, Inductive, PTL

\* No available message that a consumer wants is ever behind its cursor, so
\* none is skipped for ever: the version counter of release() is enough, for
\* any number of consumers, on plain and ring queues alike.
THEOREM NothingSkipped == Spec => []NoSkipped
<1>1. IInv => NoSkipped
  BY DEF IInv
<1> QED
  BY <1>1, Inductive, PTL

----------------------------------------------------------------------------
(* Theorems about the plain queue                                          *)

\* On a plain queue what is on it, who owns it and how deep it is agree.
LEMMA PlainInductive == ASSUME Plain PROVE Spec => []PInv
<1>1. Init => Exact
  BY InitExact
<1>2. IInv /\ Exact /\ [Next]_vars => Exact'
  <2> SUFFICES ASSUME PInv, [Next]_vars PROVE Exact'
    BY DEF PInv
  <2>1. Effect
    BY NextEffect
  <2> QED
    BY <2>1, TakersOwnStep, PushingStep, DepthStep, OwnersStep DEF Exact
<1>3. IInv /\ Exact => PInv
  BY DEF PInv
<1> QED
  BY <1>1, <1>2, <1>3, Inductive, PTL DEF Spec

\* A message of a plain queue is acquired exactly while one delivery record
\* owns it: whatever mix of accepts, releases, expiries, purges and
\* acquisitions the threads bring about, no two subscriptions hold the same
\* message, none is orphaned, and accept() finds what it is to dequeue.
THEOREM OneOwner == ASSUME Plain PROVE Spec => []AcquiredIsOwned
<1>1. PInv => AcquiredIsOwned
  <2> SUFFICES ASSUME PInv PROVE AcquiredIsOwned
    OBVIOUS
  <2>1. Sound /\ messages \in Seq(Message) /\ Consecutive(messages)
    BY SoundFacts DEF PInv, IInv
  <2>2. ASSUME NEW c \in Subscriptions, NEW r \in unacked[c], r.acquired
        PROVE  /\ find(messages, r.position)
               /\ messages[offset(messages, r.position) + 1].state = "ACQUIRED"
    <3>1. r.position \in Nat /\ r.position \in owners[c]
      BY <2>1, <2>2, SoundFacts, OwnersFacts
    <3>2. PICK m \in Contents : m.sequence = r.position /\ m.state = "ACQUIRED"
      BY <3>1 DEF PInv, Exact, RecordsHeld
    <3>3. /\ find(messages, r.position)
          /\ offset(messages, r.position) + 1 \in Live(messages)
          /\ messages[offset(messages, r.position) + 1].sequence = r.position
      BY <2>1, <3>1, <3>2, FindContent DEF Contents
    <3>4. messages[offset(messages, r.position) + 1] = m
      BY <2>1, <3>2, <3>3, ContentsFacts
    <3> QED
      BY <3>2, <3>3, <3>4
  <2>3. ASSUME NEW i \in DOMAIN messages, messages[i].state = "ACQUIRED"
        PROVE  \E c \in Subscriptions : Holders(messages[i].sequence) = {c}
    <3> DEFINE n == messages[i].sequence
    <3>1. messages[i] \in Contents
      BY <2>1, <2>3, ContentsFacts DEF Live
    <3>2. PICK c \in Subscriptions : \A d \in Subscriptions : n \in owners[d] <=> d = c
      BY <2>3, <3>1 DEF PInv, Exact, HeldOnce
    <3>3. \A d \in Subscriptions :
              n \in owners[d] <=> [position |-> n, acquired |-> TRUE] \in unacked[d]
      <4> TAKE d \in Subscriptions
      <4> DEFINE x == [position |-> n, acquired |-> TRUE]
      <4>1. unacked[d] \in SUBSET DeliveryRecord /\ owners[d] = Positions(unacked[d])
        BY <2>1, OwnersFacts
      <4>2. \A r \in unacked[d] : r.acquired /\ r.position = n => r = x
        BY <4>1 DEF DeliveryRecord
      <4>3. x.acquired = TRUE /\ x.position = n
        OBVIOUS
      <4>4. n \in owners[d] => x \in unacked[d]
        BY <4>1, <4>2 DEF Positions
      <4>5. x \in unacked[d] => n \in owners[d]
        <5> HIDE DEF x
        <5> QED
          BY <4>1, <4>3 DEF Positions
      <4> QED
        BY <4>4, <4>5
    <3> QED
      BY <3>2, <3>3 DEF Holders
  <2> QED
    BY <2>2, <2>3 DEF AcquiredIsOwned
<1> QED
  BY <1>1, PlainInductive, PTL

\* Queue::current of a plain queue is the number of messages on it and of
\* publishers between enqueue() and push(), whichever way messages leave.
THEOREM DepthIsExact == ASSUME Plain PROVE Spec => []DepthExact
<1>1. PInv => DepthExact
  <2> SUFFICES ASSUME PInv PROVE DepthExact
    OBVIOUS
  <2>1. Cardinality(Content(messages)) = Cardinality(Live(messages))
    BY SoundFacts, ContentCardinality DEF PInv, IInv
  <2> QED
    BY <2>1 DEF PInv, Exact, DepthOK, DepthExact, Contents, Pushing
<1> QED
  BY <1>1, PlainInductive, PTL

\* No step of a plain queue brings a message back that has left it.
THEOREM NeverComesBack == ASSUME Plain PROVE Spec => NoResurrection
<1>1. PInv /\ [Next]_vars => [NoResurrectionStep]_vars
  <2> SUFFICES ASSUME PInv, [Next]_vars PROVE NoResurrectionStep
    OBVIOUS
  <2>1. OnQueue = {m.sequence : m \in Contents}
    BY DEF OnQueue, Contents, Content
  <2>2. OnQueue' = {m.sequence : m \in Contents'}
    BY DEF OnQueue, Contents, Content
  <2>3. Effect
    BY NextEffect
  <2>4. CASE \E m : Pushed(m)
    <3>1. PICK m : Pushed(m)
      BY <2>4
    <3>2. Contents' = Contents \cup {m} /\ m.sequence = sequence' /\ sequence' = sequence + 1
      BY <3>1 DEF Pushed
    <3>3. sequence \in Nat
      BY SoundFacts DEF PInv, IInv
    <3>4. sequence' > sequence
      BY <3>2, <3>3
    <3>5. OnQueue' = OnQueue \cup {sequence'}
      BY <2>1, <2>2, <3>2
    <3> QED
      BY <3>4, <3>5 DEF NoResurrectionStep
  <2>5. CASE ~\E m : Pushed(m)
    <3>1. \A m \in Contents' : \E x \in Contents : m.sequence = x.sequence
      <4>1. CASE Contents' = Contents
        BY <4>1
      <4>2. CASE Contents' # Contents
        <5>1. PICK x \in Contents, s \in {"AVAILABLE", "ACQUIRED"} :
                  \/ Contents' = Without(Contents, x.sequence)
                  \/ Contents' = Without(Contents, x.sequence) \cup {InStateOf(x, s)}
          BY <2>3, <2>5, <4>2
             DEF Effect, Reserved, Aborted, Still, Discarded, Acquired, Finished, GivenBack
        <5>2. InStateOf(x, s).sequence = x.sequence
          BY ExactFacts
        <5> QED
          BY <5>1, <5>2 DEF Without
      <4> QED
        BY <4>1, <4>2
    <3>2. OnQueue' \subseteq OnQueue
      BY <2>1, <2>2, <3>1
    <3> QED
      BY <3>2 DEF NoResurrectionStep
  <2> QED
    BY <2>4, <2>5
<1>2. [][NoResurrectionStep]_vars => NoResurrection
  BY DEF NoResurrection
<1> QED
  BY <1>1, <1>2, PlainInductive, PTL DEF Spec

\* A message as the FIFO queue sees it.
Bare(m) == [sequence |-> m.sequence, kind |-> m.kind]

\* The messages in a state, from the content.
LEMMA InStateFacts ==
    ASSUME NEW s \in {"AVAILABLE", "ACQUIRED"}
    PROVE  InState(s) = {Bare(m) : m \in {x \in Contents : x.state = s}}
BY DEF InState, Contents, Content, Live, Bare

\* The same of the next state.
LEMMA InStateFactsNext ==
    ASSUME NEW s \in {"AVAILABLE", "ACQUIRED"}
    PROVE  InState(s)' = {Bare(m) : m \in {x \in Contents' : x.state = s}}
BY DEF InState, Contents, Content, Live, Bare

\* A FIFO queue sees different messages as different ones.
LEMMA BareFacts ==
    ASSUME PInv
    PROVE  /\ \A m, n \in Contents : Bare(m) = Bare(n) => m = n
           /\ \A m : Bare(m).sequence = m.sequence /\ Bare(m).kind = m.kind
           /\ \A m \in Contents, s \in {"AVAILABLE", "ACQUIRED"} : Bare(InStateOf(m, s)) = Bare(m)
<1>1. \A m : Bare(m).sequence = m.sequence /\ Bare(m).kind = m.kind
  BY DEF Bare
<1>2. \A m, n \in Contents : Bare(m) = Bare(n) => m = n
  BY <1>1, ExactFacts
<1>3. \A m \in Contents, s \in {"AVAILABLE", "ACQUIRED"} : Bare(InStateOf(m, s)) = Bare(m)
  BY ExactFacts DEF Bare, InStateOf, Message
<1> QED
  BY <1>1, <1>2, <1>3

\* The plain queue in the terms of FifoQueue.
waitingNow == InState("AVAILABLE")

takenNow == InState("ACQUIRED")

\* What each effect does to the messages in the two states.
LEMMA EffectInStates ==
    ASSUME PInv
    PROVE  /\ Contents' = Contents => waitingNow' = waitingNow /\ takenNow' = takenNow
           /\ \A m : Pushed(m) =>
                  waitingNow' = waitingNow \cup {Bare(m)} /\ takenNow' = takenNow
           /\ \A m : Discarded(m) =>
                  /\ Bare(m) \in waitingNow
                  /\ waitingNow' = waitingNow \ {Bare(m)} /\ takenNow' = takenNow
           /\ \A c \in Subscriptions : \A m : Acquired(c, m) =>
                  /\ Bare(m) \in waitingNow
                  /\ waitingNow' = waitingNow \ {Bare(m)} /\ takenNow' = takenNow \cup {Bare(m)}
           /\ \A c \in Subscriptions : \A m : Finished(c, m) =>
                  /\ Bare(m) \in takenNow
                  /\ waitingNow' = waitingNow /\ takenNow' = takenNow \ {Bare(m)}
           /\ \A c \in Subscriptions : \A m : GivenBack(c, m) =>
                  /\ Bare(m) \in takenNow
                  /\ waitingNow' = waitingNow \cup {Bare(m)} /\ takenNow' = takenNow \ {Bare(m)}
<1>1. /\ waitingNow = {Bare(m) : m \in {x \in Contents : x.state = "AVAILABLE"}}
      /\ takenNow = {Bare(m) : m \in {x \in Contents : x.state = "ACQUIRED"}}
      /\ waitingNow' = {Bare(m) : m \in {x \in Contents' : x.state = "AVAILABLE"}}
      /\ takenNow' = {Bare(m) : m \in {x \in Contents' : x.state = "ACQUIRED"}}
  BY InStateFacts, InStateFactsNext DEF waitingNow, takenNow
<1>2. /\ \A m, n \in Contents : Bare(m) = Bare(n) => m = n
      /\ \A m \in Contents, s \in {"AVAILABLE", "ACQUIRED"} :
             Bare(InStateOf(m, s)) = Bare(m) /\ InStateOf(m, s).state = s
  BY BareFacts, ExactFacts
<1>3. \A m \in Contents : Without(Contents, m.sequence) = Contents \ {m}
  BY ContentsChange
<1>4. Contents' = Contents => waitingNow' = waitingNow /\ takenNow' = takenNow
  BY <1>1
<1>5. ASSUME NEW m, Pushed(m)
      PROVE  waitingNow' = waitingNow \cup {Bare(m)} /\ takenNow' = takenNow
  <2>1. m.state = "AVAILABLE" /\ Contents' = Contents \cup {m}
    BY <1>5 DEF Pushed
  <2> QED
    BY <1>1, <2>1
<1>6. ASSUME NEW m, Discarded(m)
      PROVE  /\ Bare(m) \in waitingNow
             /\ waitingNow' = waitingNow \ {Bare(m)} /\ takenNow' = takenNow
  <2>1. m \in Contents /\ m.state = "AVAILABLE" /\ Contents' = Contents \ {m}
    BY <1>3, <1>6 DEF Discarded
  <2> QED
    BY <1>1, <1>2, <2>1
<1>7. ASSUME NEW c \in Subscriptions, NEW m, Acquired(c, m)
      PROVE  /\ Bare(m) \in waitingNow
             /\ waitingNow' = waitingNow \ {Bare(m)} /\ takenNow' = takenNow \cup {Bare(m)}
  <2> DEFINE a == InStateOf(m, "ACQUIRED")
  <2>1. m \in Contents /\ m.state = "AVAILABLE" /\ Contents' = (Contents \ {m}) \cup {a}
    BY <1>3, <1>7 DEF Acquired
  <2>2. Bare(a) = Bare(m) /\ a.state = "ACQUIRED"
    BY <1>2, <2>1
  <2> HIDE DEF a
  <2>3. waitingNow' = waitingNow \ {Bare(m)}
    BY <1>1, <1>2, <2>1, <2>2
  <2>4. takenNow' = takenNow \cup {Bare(m)}
    BY <1>1, <2>1, <2>2
  <2> QED
    BY <1>1, <2>1, <2>3, <2>4
<1>8. ASSUME NEW c \in Subscriptions, NEW m, Finished(c, m)
      PROVE  /\ Bare(m) \in takenNow
             /\ waitingNow' = waitingNow /\ takenNow' = takenNow \ {Bare(m)}
  <2>1. m \in Contents /\ m.state = "ACQUIRED" /\ Contents' = Contents \ {m}
    BY <1>3, <1>8 DEF Finished
  <2> QED
    BY <1>1, <1>2, <2>1
<1>9. ASSUME NEW c \in Subscriptions, NEW m, GivenBack(c, m)
      PROVE  /\ Bare(m) \in takenNow
             /\ waitingNow' = waitingNow \cup {Bare(m)} /\ takenNow' = takenNow \ {Bare(m)}
  <2> DEFINE a == InStateOf(m, "AVAILABLE")
  <2>1. m \in Contents /\ m.state = "ACQUIRED" /\ Contents' = (Contents \ {m}) \cup {a}
    BY <1>3, <1>9 DEF GivenBack
  <2>2. Bare(a) = Bare(m) /\ a.state = "AVAILABLE"
    BY <1>2, <2>1
  <2> HIDE DEF a
  <2>3. waitingNow' = waitingNow \cup {Bare(m)}
    BY <1>1, <2>1, <2>2
  <2>4. takenNow' = takenNow \ {Bare(m)}
    BY <1>1, <1>2, <2>1, <2>2
  <2> QED
    BY <1>1, <2>1, <2>3, <2>4
<1> QED
  BY <1>4, <1>5, <1>6, <1>7, <1>8, <1>9

\* A step of a plain queue is a step of the FIFO queue, or changes nothing.
LEMMA FifoStep ==
    ASSUME PInv, Plain, [Next]_vars
    PROVE  [Fifo!FifoNext]_(Fifo!fifoVars)
<1>1. Effect
  BY NextEffect
<1>2. /\ waitingNow = {Bare(m) : m \in {x \in Contents : x.state = "AVAILABLE"}}
      /\ takenNow = {Bare(m) : m \in {x \in Contents : x.state = "ACQUIRED"}}
  BY InStateFacts DEF waitingNow, takenNow
<1>3. \A m : Bare(m).sequence = m.sequence /\ Bare(m).kind = m.kind
  BY BareFacts
<1>4. CASE Contents' = Contents /\ owners' = owners
  <2>1. waitingNow' = waitingNow /\ takenNow' = takenNow /\ owners' = owners
    BY <1>4, EffectInStates
  <2> QED
    BY <2>1 DEF Fifo!fifoVars, waitingNow, takenNow, owners, Positions
<1>5. ASSUME NEW m, Pushed(m) PROVE Fifo!FifoNext
  <2>1. /\ waitingNow' = waitingNow \cup {Bare(m)} /\ takenNow' = takenNow /\ owners' = owners
        /\ m.sequence \in 1 .. MaxSequence /\ m.kind \in Kinds
        /\ \A n \in Contents : n.sequence < m.sequence
    BY <1>5, EffectInStates DEF Pushed
  <2>2. \A n \in waitingNow \cup takenNow : n.sequence < Bare(m).sequence
    BY <1>2, <1>3, <2>1
  <2>3. Fifo!Publish(Bare(m))
    BY <2>1, <2>2 DEF Fifo!Publish, waitingNow, takenNow, owners, Positions
  <2>4. Bare(m) = [sequence |-> m.sequence, kind |-> m.kind]
    BY DEF Bare
  <2> QED
    BY <2>1, <2>3, <2>4 DEF Fifo!FifoNext
<1>6. ASSUME NEW m, Discarded(m) PROVE Fifo!FifoNext
  <2>1. /\ Bare(m) \in waitingNow
        /\ waitingNow' = waitingNow \ {Bare(m)} /\ takenNow' = takenNow /\ owners' = owners
    BY <1>6, EffectInStates DEF Discarded
  <2>2. Fifo!Discard(Bare(m)) /\ Bare(m) \in InState("AVAILABLE")
    BY <2>1 DEF Fifo!Discard, waitingNow, takenNow, owners, Positions
  <2> QED
    BY <2>2 DEF Fifo!FifoNext
<1>7. ASSUME NEW c \in Subscriptions, NEW m, Acquired(c, m) PROVE Fifo!FifoNext
  <2>1. /\ Bare(m) \in waitingNow
        /\ waitingNow' = waitingNow \ {Bare(m)} /\ takenNow' = takenNow \cup {Bare(m)}
        /\ owners' = [owners EXCEPT ![c] = @ \cup {Bare(m).sequence}]
        /\ preAcquires(c) =>
               /\ m.kind \in Selector[c]
               /\ \A n \in Contents :
                      n.state = "AVAILABLE" /\ n.kind \in Selector[c] => m.sequence <= n.sequence
    BY <1>3, <1>7, EffectInStates DEF Acquired
  <2>2. preAcquires(c) =>
            /\ Bare(m).kind \in Selector[c]
            /\ \A n \in waitingNow : n.kind \in Selector[c] => Bare(m).sequence <= n.sequence
    BY <1>2, <1>3, <2>1
  <2>3. Fifo!Acquire(c, Bare(m))
    BY <2>1 DEF Fifo!Acquire, waitingNow, takenNow, owners, Positions
  <2>4. CASE preAcquires(c)
    <3>1. Fifo!Take(c, Bare(m)) /\ Bare(m) \in InState("AVAILABLE")
      BY <2>1, <2>2, <2>3, <2>4 DEF Fifo!Take, waitingNow
    <3> QED
      BY <3>1 DEF Fifo!FifoNext
  <2>5. CASE ~preAcquires(c)
    <3>1. Fifo!Ask(c, Bare(m)) /\ Bare(m) \in InState("AVAILABLE")
      BY <2>1, <2>3, <2>5 DEF Fifo!Ask, waitingNow
    <3> QED
      BY <3>1 DEF Fifo!FifoNext
  <2> QED
    BY <2>4, <2>5
<1>8. ASSUME NEW c \in Subscriptions, NEW m, Finished(c, m) \/ GivenBack(c, m)
      PROVE  Fifo!FifoNext
  <2>1. /\ Bare(m) \in takenNow /\ Bare(m).sequence \in owners[c]
        /\ waitingNow' = waitingNow \/ waitingNow' = waitingNow \cup {Bare(m)}
        /\ takenNow' = takenNow \ {Bare(m)}
        /\ owners' = [owners EXCEPT ![c] = @ \ {Bare(m).sequence}]
    BY <1>3, <1>8, EffectInStates DEF Finished, GivenBack
  <2>2. Fifo!GiveUp(c, Bare(m)) /\ Bare(m) \in InState("ACQUIRED")
    BY <2>1 DEF Fifo!GiveUp, takenNow, owners, Positions
  <2>3. Fifo!Finish(c, Bare(m)) \/ Fifo!GiveBack(c, Bare(m))
    BY <2>1, <2>2 DEF Fifo!Finish, Fifo!GiveBack, waitingNow
  <2> QED
    BY <2>2, <2>3 DEF Fifo!FifoNext
<1>9. \/ Contents' = Contents /\ owners' = owners
      \/ \E m : Pushed(m) \/ Discarded(m)
      \/ \E c \in Subscriptions : \E m : Acquired(c, m) \/ Finished(c, m) \/ GivenBack(c, m)
  BY <1>1 DEF Effect, Reserved, Aborted, Still
<1> QED
  BY <1>4, <1>5, <1>6, <1>7, <1>8, <1>9

\* A plain queue implements FifoQueue, for any subscriptions, selectors and
\* number of threads: a consumer is always given the oldest message it wants
\* of those on the queue at that moment, whatever its cursor has passed.
THEOREM ImplementsFifoQueue == ASSUME Plain PROVE Spec => ImplementsFifo
<1>1. Init => Fifo!FifoInit
  <2> SUFFICES ASSUME Init PROVE Fifo!FifoInit
    OBVIOUS
  <2>1. InState("AVAILABLE") = {} /\ InState("ACQUIRED") = {}
    BY DEF Init, InState
  <2>2. \A c \in Subscriptions : {r.position : r \in {x \in unacked[c] : x.acquired}} = {}
    BY DEF Init
  <2> QED
    BY <2>1, <2>2 DEF Fifo!FifoInit
<1>2. PInv /\ [Next]_vars => [Fifo!FifoNext]_(Fifo!fifoVars)
  BY FifoStep
<1>3. Fifo!FifoInit /\ [][Fifo!FifoNext]_(Fifo!fifoVars) => ImplementsFifo
  BY PTL DEF ImplementsFifo, Fifo!FifoSpec
<1> QED
  BY <1>1, <1>2, <1>3, PlainInductive, PTL DEF Spec

----------------------------------------------------------------------------
(* Dispatch: no wake-up is lost                                            *)
(*                                                                         *)
(* The invariant of MessageQueue goes on to hold, since every step of      *)
(* QueueDispatch is one of MessageQueue or leaves the queue alone.  What   *)
(* joins it is an account of who is on the way to the queue: as long as    *)
(* subscriptions wait on the listener list, there are enough consumers on  *)
(* the way (Carrier) for the messages that the ones on the list, or those  *)
(* on the way, could want (Enough).                                        *)

Consumers == {c \in Subscriptions : preAcquires(c)}

Listed == {listeners[i] : i \in DOMAIN listeners}

Told(t) == notifying[t].consumer

IsTold(c) == \E t \in Threads : c \in Told(t)

Looping(c) == thread[c] = "loop"

\* The messages nobody has taken, those of them that consumer c could want, and
\* those that its cursor has not passed.
Waiting == {m \in Contents : m.state = "AVAILABLE"}

Wanted(c) == {m \in Waiting : m.kind \in Selector[c]}

Unseen(c) == {m \in Waiting : reset(cursor[c], version) \/ m.sequence > cursor[c].position}

\* A subscription takes notifications until it is disabled.
EnabledOK == \A c \in Subscriptions :
    /\ enabled[c] <=> subscribed[c] /\ thread[c] \notin {"cancel", "close"}
    /\ thread[c] # "idle" => subscribed[c]
    /\ c \in scheduled => enabled[c]

\* The consumers are on one list, the others on the other.
ListOK ==
    /\ \A i, j \in DOMAIN listeners : listeners[i] = listeners[j] => i = j
    /\ \A c \in Listed : c \in Consumers /\ subscribed[c]
    /\ browsers \cap Consumers = {}

\* A set names at most one consumer, and nobody is named by two.
ToldOK ==
    /\ \A t \in Threads : /\ Told(t) \subseteq Consumers
                          /\ notifying[t].browsers \cap Consumers = {}
                          /\ \A c, d \in Told(t) : c = d
    /\ \A t, u \in Threads : \A c \in Told(t) : c \in Told(u) => t = u
    /\ \A p \in Publishers : pc[p] = "push" => Free(p)

\* A consumer is at one place: on the list, told, scheduled or at the queue;
\* and at none of them while it is blocked.
OnePlace == \A c \in Consumers :
    /\ c \in Listed => ~IsTold(c) /\ c \notin scheduled
    /\ c \in scheduled => thread[c] = "idle" /\ ~IsTold(c)
    /\ thread[c] \in {"loop", "found"} => c \notin Listed /\ ~IsTold(c)
    /\ blocked[c] =>
          c \notin Listed \cup scheduled /\ thread[c] \notin {"loop", "found"} /\ ~IsTold(c)

\* Whoever is behind on the list has looked at the queue later.
SeenInOrder == \A i, j \in DOMAIN listeners :
    i < j => Unseen(listeners[j]) \subseteq Unseen(listeners[i])

CreditOK == \A c \in Consumers : c \in Listed \/ Looping(c) \/ IsTold(c) => credit[c] >= 1

\* Whom y looks at the queue for: itself and, until its loop ends, whom it has
\* told already; they cannot be relied on before, since the set may be
\* overwritten.
Cover(y) == {y} \cup {a \in Told(y) : Looping(y) /\ subscribed[a]}

Carried(y) == UNION {Unseen(x) : x \in Cover(y)}

\* Consumer y is going to look at the queue, or to tell another one.
Carrier(y) ==
    /\ y \in Consumers /\ y \notin Listed /\ subscribed[y] /\ credit[y] >= 1
    /\ y \in scheduled \/ thread[y] \in {"loop", "cancel", "close"} \/ IsTold(y)
    /\ \A x \in Subscriptions : y \in Told(x) => ~Looping(x)

Interested(Y) == Listed \cup UNION {Cover(y) : y \in Y}

Pending(Y) == UNION {Wanted(c) : c \in Interested(Y)}

First == Unseen(Head(listeners))

UpTo(M, n) == {m \in M : m.sequence <= n.sequence}

Carrying(Y, m) == {y \in Y : m \in Carried(y)}

\* For every message that the first on the list has not seen there is a carrier
\* of its own and one for every message before it.
Enough(Y) == \A m \in Pending(Y) \cap First :
    Cardinality(Carrying(Y, m)) >= Cardinality(UpTo(Pending(Y), m))

Served == listeners # << >> => \E Y \in SUBSET Subscriptions :
    IsFiniteSet(Y) /\ (\A y \in Y : Carrier(y)) /\ Enough(Y)

Tokens == EnabledOK /\ ListOK /\ ToldOK /\ OnePlace

Account == Tokens /\ SeenInOrder /\ (~stopped => CreditOK /\ Served)

DispatchInv == IInv /\ DispatchTypeOK /\ Account

----------------------------------------------------------------------------
(* What a step does to the messages consumers have not seen                *)

\* The waiting messages, by number.
LEMMA WaitingFacts ==
    ASSUME IInv
    PROVE  /\ IsFiniteSet(Waiting)
           /\ \A m \in Waiting : m \in Message /\ m.sequence \in Nat /\ m.sequence <= sequence
           /\ \A m, n \in Waiting : m.sequence = n.sequence => m = n
           /\ sequence \in Nat
           /\ \A c \in Consumers : /\ c \in Subscriptions
                                   /\ cursor[c] \in QueueCursor /\ cursor[c].type = "CONSUMER"
                                   /\ cursor[c].position \in Int
<1>1. Sound
  BY DEF IInv
<1>2. IsFiniteSet(Waiting)
  <2>1. IsFiniteSet(Contents)
    BY <1>1, SoundFacts, ContentCardinality DEF Contents
  <2>2. Waiting \in SUBSET Contents
    BY DEF Waiting
  <2> QED
    BY <2>1, <2>2, FS_Subset
<1>3. \A c \in Consumers : /\ c \in Subscriptions
                           /\ cursor[c] \in QueueCursor /\ cursor[c].type = "CONSUMER"
                           /\ cursor[c].position \in Int
  BY <1>1, SoundFacts DEF Consumers, preAcquires, QueueCursor
<1> QED
  BY <1>1, <1>2, <1>3, ContentsFacts, SoundFacts DEF Waiting

\* What a consumer has seen and could want, it has got; and what it has not
\* seen is at the end of the queue.
LEMMA UnseenFacts ==
    ASSUME IInv, NEW c \in Consumers
    PROVE  /\ Unseen(c) \subseteq Waiting /\ Wanted(c) \subseteq Unseen(c)
           /\ \A m \in Unseen(c), n \in Waiting : m.sequence <= n.sequence => n \in Unseen(c)
<1>1. c \in Subscriptions /\ preAcquires(c) /\ Sound /\ cursor[c].position \in Int
  BY WaitingFacts DEF Consumers, IInv
<1>2. \A m \in Waiting : m.sequence \in Nat /\ \E i \in available(messages) : m = messages[i]
  <2> TAKE m \in Waiting
  <2>1. m \in Contents /\ m.state = "AVAILABLE"
    BY DEF Waiting
  <2>2. PICK i \in Live(messages) : i \in DOMAIN messages /\ m = messages[i]
    BY <1>1, <2>1, ContentsFacts
  <2>3. i \in available(messages)
    BY <2>1, <2>2 DEF available
  <2> QED
    BY <2>2, <2>3, WaitingFacts
<1>3. Wanted(c) \subseteq Unseen(c)
  <2> SUFFICES ASSUME NEW m \in Waiting, m.kind \in Selector[c] PROVE m \in Unseen(c)
    BY DEF Wanted
  <2>1. reset(cursor[c], version) \/ ~(m.sequence <= cursor[c].position)
    BY <1>1, <1>2 DEF IInv, NoSkipped
  <2>2. m.sequence \in Int
    BY <1>2
  <2> QED
    BY <1>1, <2>1, <2>2 DEF Unseen
<1>4. \A m \in Unseen(c), n \in Waiting : m.sequence <= n.sequence => n \in Unseen(c)
  <2> SUFFICES ASSUME NEW m \in Unseen(c), NEW n \in Waiting, m.sequence <= n.sequence
               PROVE  n \in Unseen(c)
    OBVIOUS
  <2>1. m \in Waiting /\ m.sequence \in Nat /\ n.sequence \in Nat
    BY <1>2 DEF Unseen
  <2>2. reset(cursor[c], version) \/ m.sequence > cursor[c].position
    BY DEF Unseen
  <2> QED
    BY <1>1, <2>1, <2>2 DEF Unseen
<1> QED
  BY <1>3, <1>4 DEF Unseen

\* No message is added and no cursor of D moves.
Fewer(D) ==
    /\ Waiting' \subseteq Waiting
    /\ \A c \in D : Unseen(c)' = Unseen(c) \cap Waiting'

\* A step that adds no message and leaves the cursors of D alone.
LEMMA FewerWaiting ==
    ASSUME NEW D, Waiting' \subseteq Waiting, version' = version,
           \A c \in D : cursor'[c] = cursor[c]
    PROVE  Fewer(D)
BY DEF Fewer, Unseen

\* A step that leaves the queue alone.
LEMMA SameWaiting ==
    ASSUME UNCHANGED vars
    PROVE  /\ Waiting' = Waiting
           /\ \A c : Unseen(c)' = Unseen(c) /\ Wanted(c)' = Wanted(c)
BY DEF vars, Waiting, Contents, Unseen, Wanted

\* With a message removed.
LEMMA DeletedWaiting ==
    ASSUME IInv, NEW n \in Int, messages' = deleted(messages, n)
    PROVE  Waiting' = Without(Waiting, n)
<1>1. Contents' = Without(Contents, n)
  BY SoundFacts, DeletedContent DEF IInv, Contents
<1> QED
  BY <1>1 DEF Waiting, Without

\* With a message taken.
LEMMA AcquiredWaiting ==
    ASSUME IInv, NEW k \in DOMAIN messages, messages' = acquire(messages, k)
    PROVE  Waiting' = Without(Waiting, messages[k].sequence)
<1>1. Contents' = Without(Contents, messages[k].sequence) \cup {InStateOf(messages[k], "ACQUIRED")}
  BY SoundFacts, AcquireContent DEF IInv, Contents
<1>2. InStateOf(messages[k], "ACQUIRED").state = "ACQUIRED"
  BY SoundFacts, DequeProperties DEF IInv, InStateOf, Message
<1> QED
  BY <1>1, <1>2 DEF Waiting, Without

\* push(): the new message is the last, and nobody has seen it.
LEMMA PushWaiting ==
    ASSUME IInv, NEW p \in Publishers, NEW k \in Kinds, Push(p, k)
    PROVE  \E m : /\ m \notin Waiting /\ Waiting' = Waiting \cup {m}
                  /\ m.sequence \in Nat
                  /\ \A n \in Waiting : n.sequence < m.sequence
                  /\ \A c \in Consumers : Unseen(c)' = Unseen(c) \cup {m}
<1> DEFINE m == [sequence |-> sequence + 1, state |-> "AVAILABLE", kind |-> k]
<1>1. Sound /\ sequence \in Nat /\ messages \in Seq(Message) /\ Consecutive(messages)
      /\ DequeOK(messages, sequence)
  BY SoundFacts DEF IInv
<1>2. \A i \in Live(messages) : messages[i].sequence < sequence + 1
  <2> TAKE i \in Live(messages)
  <2>1. messages[i].sequence \in Nat /\ messages[i].sequence <= sequence
    BY <1>1, SoundFacts DEF DequeOK, Live
  <2> QED
    BY <1>1, <2>1
<1>3. Contents' = Contents \cup {m}
  <2>1. messages' = publish(messages, sequence + 1, k) /\ sequence + 1 \in Nat
    BY <1>1 DEF Push
  <2> QED
    BY <1>1, <1>2, <2>1, PublishContent DEF Contents
<1>4. m.state = "AVAILABLE" /\ m.sequence = sequence + 1
  OBVIOUS
<1> HIDE DEF m
<1>5. Waiting' = Waiting \cup {m}
  BY <1>3, <1>4 DEF Waiting
<1>6. \A n \in Waiting : n.sequence < m.sequence
  <2> TAKE n \in Waiting
  <2>1. n.sequence \in Nat /\ n.sequence <= sequence
    BY WaitingFacts
  <2> QED
    BY <1>1, <1>4, <2>1
<1>7. m \notin Waiting
  <2>1. \A n \in Waiting : n.sequence \in Nat
    BY WaitingFacts
  <2> QED
    BY <1>6, <2>1
<1>8. ASSUME NEW c \in Consumers PROVE Unseen(c)' = Unseen(c) \cup {m}
  <2>1. cursor' = cursor /\ version' = version
    BY DEF Push
  <2>2. c \in Subscriptions /\ preAcquires(c) /\ cursor[c].position \in Int
    BY WaitingFacts DEF Consumers
  <2>3. reset(cursor[c], version) \/ m.sequence > cursor[c].position
    <3>1. ~reset(cursor[c], version) => cursor[c].position <= sequence
      BY <1>1, <2>2 DEF Sound, CursorsBehind, reset
    <3> QED
      BY <1>1, <1>4, <2>2, <3>1
  <2> QED
    BY <1>5, <2>1, <2>3 DEF Unseen
<1> QED
  BY <1>1, <1>4, <1>5, <1>6, <1>7, <1>8

\* release() makes every consumer start over, and puts back one message.
LEMMA ReleaseWaiting ==
    ASSUME IInv, NEW c \in Subscriptions, NEW r \in unacked[c], Release(c, r),
           found(messages, r.position)
    PROVE  /\ \A d \in Consumers : Unseen(d)' = Waiting'
           /\ \E m : Waiting' \subseteq Waiting \cup {m}
<1>1. /\ Sound /\ messages \in Seq(Message) /\ Consecutive(messages) /\ r.position \in Nat
      /\ version \in Nat
  BY SoundFacts DEF IInv
<1>2. messages' = release(messages, r.position) /\ version' = version + 1 /\ cursor' = cursor
  BY DEF Release
<1>3. ASSUME NEW d \in Consumers PROVE Unseen(d)' = Waiting'
  <2>1. d \in Subscriptions /\ preAcquires(d) /\ cursor[d] \in QueueCursor /\ cursor[d].type = "CONSUMER"
    BY WaitingFacts DEF Consumers
  <2>2. cursor[d].version \in Nat /\ (cursor[d].valid => cursor[d].version <= version)
    BY <1>1, <2>1 DEF Sound, CursorsBehind, QueueCursor
  <2>3. reset(cursor[d], version + 1)
    BY <1>1, <2>1, <2>2 DEF reset
  <2> QED
    BY <1>2, <2>3 DEF Unseen
<1> DEFINE k == offset(messages, r.position) + 1
           m == messages'[k]
<1>4. /\ DOMAIN messages' = DOMAIN messages
      /\ \A i \in DOMAIN messages :
             /\ SameMessage(messages'[i], messages[i])
             /\ messages'[i].state = messages[i].state \/ messages[i].sequence = r.position
      /\ messages' \in Seq(Message) /\ Consecutive(messages')
  <2> DEFINE d == release(messages, r.position)
  <2>1. /\ d \in Seq(Message) /\ Consecutive(d) /\ DOMAIN d = DOMAIN messages
        /\ \A i \in DOMAIN messages :
               /\ SameMessage(d[i], messages[i])
               /\ d[i].state = messages[i].state
                    \/ (found(messages, r.position) /\ messages[i].sequence = r.position)
    <3>1. r.position \in Int
      BY <1>1
    <3> QED
      BY <1>1, <3>1, ReleaseProperties
  <2>2. messages' = d
    BY <1>2
  <2> HIDE DEF d
  <2> QED
    BY <2>1, <2>2
<1>5. \A i \in DOMAIN messages : messages[i].sequence = r.position => i = k
  <2>1. r.position \in Int
    BY <1>1
  <2>2. DOMAIN messages = 1 .. Len(messages)
    BY <1>1, DequeProperties
  <2>3. \A i \in 1 .. Len(messages) : messages[i].sequence = r.position => i = offset(messages, r.position) + 1
    BY <1>1, <2>1, IndexProperties
  <2> QED
    BY <2>2, <2>3
<1> HIDE DEF k
<1>6. ASSUME NEW n \in Waiting' PROVE n \in Waiting \cup {m}
  <2>1. PICK i \in DOMAIN messages' : n = messages'[i] /\ messages'[i].state = "AVAILABLE"
    BY DEF Waiting, Contents, Content, Live
  <2>2. CASE messages'[i].state = messages[i].state
    <3>1. messages'[i] = messages[i]
      <4>1. messages'[i] \in Message /\ messages[i] \in Message
        BY <1>1, <1>4, <2>1, DequeProperties
      <4>2. SameMessage(messages'[i], messages[i])
        BY <1>4, <2>1
      <4> QED
        BY <4>1, <4>2, <2>2 DEF Message, SameMessage
    <3>2. i \in Live(messages)
      BY <1>4, <2>1, <3>1 DEF Live
    <3> QED
      BY <2>1, <3>1, <3>2 DEF Waiting, Contents, Content
  <2>3. CASE messages[i].sequence = r.position
    BY <1>4, <1>5, <2>1, <2>3
  <2> QED
    BY <1>4, <2>1, <2>2, <2>3
<1> QED
  BY <1>3, <1>6

\* Among the consumers only c looks at the queue.  It is shown the oldest message
\* it has not seen, and has then seen that one and no other.
LEMMA LookWaiting ==
    ASSUME IInv, NEW c \in Consumers, Advance(c), version' = version, Waiting' \subseteq Waiting
    PROVE  /\ Fewer(Consumers \ {c})
           /\ NextFor(c) # 0 =>
                /\ messages[NextFor(c)] \in Unseen(c)
                /\ \A n \in Unseen(c) : messages[NextFor(c)].sequence <= n.sequence
                /\ Unseen(c)' = (Unseen(c) \ {messages[NextFor(c)]}) \cap Waiting'
           /\ NextFor(c) = 0 => Unseen(c) = {} /\ Unseen(c)' = {}
<1> DEFINE cur == cursor[c]
           k == NextFor(c)
<1>1. /\ Sound /\ messages \in Seq(Message) /\ Consecutive(messages) /\ version \in Nat
      /\ c \in Subscriptions /\ preAcquires(c)
      /\ cur \in QueueCursor /\ cur.type = "CONSUMER" /\ cur.position \in Int
  BY SoundFacts, WaitingFacts DEF IInv, Consumers
<1>2. cursor'[c] = nextCursor(messages, version, cur) /\ \A d \in Consumers \ {c} : cursor'[d] = cursor[d]
  BY <1>1 DEF Advance, Sound, TypeOK, Consumers
<1>3. Fewer(Consumers \ {c})
  BY <1>2, FewerWaiting
<1>4. candidates(messages, version, cur) =
          {i \in available(messages) : reset(cur, version) \/ messages[i].sequence > cur.position}
  <2>1. candidates(messages, version, cur) =
            {i \in DOMAIN messages :
                check(cur, messages[i]) /\ (reset(cur, version) \/ messages[i].sequence > cur.position)}
    BY <1>1, CandidatesByPosition
  <2>2. \A i \in DOMAIN messages : check(cur, messages[i]) <=> messages[i].state = "AVAILABLE"
    BY <1>1 DEF check
  <2> QED
    BY <2>1, <2>2 DEF available
<1>5. \A m \in Waiting : \E i \in available(messages) : m = messages[i]
  BY <1>1, ContentsFacts DEF Waiting, available
<1>6. \A i \in available(messages) : messages[i] \in Waiting
  BY DEF Waiting, Contents, Content, available, Live
<1>7. /\ \A m \in Unseen(c) : \E i \in candidates(messages, version, cur) : m = messages[i]
      /\ \A i \in candidates(messages, version, cur) : messages[i] \in Unseen(c)
  BY <1>4, <1>5, <1>6 DEF Unseen
<1>8. \A m \in Waiting : m.sequence \in Nat
  BY WaitingFacts
<1>9. ASSUME k # 0
      PROVE  /\ messages[k] \in Unseen(c)
             /\ \A n \in Unseen(c) : messages[k].sequence <= n.sequence
             /\ Unseen(c)' = (Unseen(c) \ {messages[k]}) \cap Waiting'
  <2>1. /\ k \in DOMAIN messages /\ k \in candidates(messages, version, cur)
        /\ \A i \in candidates(messages, version, cur) : k <= i
        /\ cursor'[c] = setPosition(cur, messages[k].sequence, version)
    <3>1. /\ k \in DOMAIN messages /\ check(cur, messages[k])
          /\ \A i \in candidates(messages, version, cur) : k <= i
          /\ cursor'[c] = setPosition(cur, messages[k].sequence, version)
      BY <1>1, <1>2, <1>9, NextProperties DEF NextFor
    <3>2. k \in candidates(messages, version, cur)
      <4>1. candidates(messages, version, cur) # {}
        BY <1>1, <1>9, NextProperties DEF NextFor
      <4>2. candidates(messages, version, cur) \subseteq Nat
        <5>1. available(messages) \subseteq Nat
          BY <1>1, DequeProperties DEF available
        <5> QED
          BY <1>4, <5>1
      <4>3. k = Min(candidates(messages, version, cur))
        BY <4>1 DEF NextFor, next
      <4> QED
        BY <4>1, <4>2, <4>3, MinOfNats
    <3> QED
      BY <3>1, <3>2
  <2> HIDE DEF k
  <2>2. messages[k] \in Unseen(c)
    BY <1>7, <2>1
  <2>3. ASSUME NEW n \in Unseen(c) PROVE messages[k].sequence <= n.sequence
    <3>1. PICK i \in candidates(messages, version, cur) : n = messages[i]
      BY <1>7
    <3>2. i \in DOMAIN messages /\ k <= i
      BY <1>4, <2>1, <3>1 DEF available
    <3>3. /\ DOMAIN messages = 1 .. Len(messages) /\ Len(messages) \in Nat /\ front(messages) \in Nat
      <4>1. messages # << >>
        BY <1>1, <3>2, DequeProperties
      <4> QED
        BY <1>1, <4>1, DequeProperties DEF front
    <3>4. /\ messages[k].sequence = front(messages) + k - 1
          /\ messages[i].sequence = front(messages) + i - 1
      BY <1>1, <2>1, <3>2 DEF Consecutive
    <3>5. k \in Int /\ i \in Int
      BY <2>1, <3>2, <3>3
    <3> QED
      BY <3>1, <3>2, <3>3, <3>4, <3>5
  <2>4. /\ cursor'[c].valid /\ cursor'[c].version = version
        /\ cursor'[c].position = messages[k].sequence
    BY <2>1 DEF setPosition
  <2>5. Unseen(c)' = {m \in Waiting' : m.sequence > messages[k].sequence}
    BY <2>4 DEF Unseen, reset
  <2>6. messages[k] \in Waiting /\ messages[k].sequence \in Nat
    BY <1>8, <2>2 DEF Unseen
  <2>7. ASSUME NEW m \in Waiting'
        PROVE  m.sequence > messages[k].sequence <=> m \in Unseen(c) \ {messages[k]}
    <3>1. m \in Waiting /\ m.sequence \in Nat
      BY <1>8
    <3>2. ASSUME m.sequence > messages[k].sequence PROVE m \in Unseen(c) \ {messages[k]}
      <4>1. m # messages[k]
        BY <2>6, <3>1, <3>2
      <4>2. messages[k].sequence <= m.sequence
        BY <2>6, <3>1, <3>2
      <4> QED
        BY <2>2, <3>1, <4>1, <4>2, UnseenFacts
    <3>3. ASSUME m \in Unseen(c) \ {messages[k]} PROVE m.sequence > messages[k].sequence
      <4>1. messages[k].sequence <= m.sequence
        BY <2>3, <3>3
      <4>2. m.sequence # messages[k].sequence
        BY <2>6, <3>1, <3>3, WaitingFacts
      <4> QED
        BY <2>6, <3>1, <4>1, <4>2
    <3> QED
      BY <3>2, <3>3
  <2> QED
    BY <2>2, <2>3, <2>5, <2>7
<1>10. ASSUME k = 0 PROVE Unseen(c) = {} /\ Unseen(c)' = {}
  <2>1. candidates(messages, version, cur) = {}
    BY <1>1, <1>10, NextProperties DEF NextFor
  <2>2. Unseen(c) = {}
    BY <1>7, <2>1
  <2>3. nextCursor(messages, version, cur) =
            IF visited(messages, version, cur) # {}
            THEN setPosition(cur, messages[Max(visited(messages, version, cur))].sequence, version)
            ELSE cur
    BY <2>1 DEF nextCursor
  <2>4. CASE visited(messages, version, cur) = {}
    <3>1. cursor'[c] = cur
      BY <1>2, <2>3, <2>4
    <3> QED
      BY <2>2, <3>1 DEF Unseen
  <2>5. CASE visited(messages, version, cur) # {}
    <3> DEFINE j == Max(visited(messages, version, cur))
    <3>1. j \in visited(messages, version, cur)
      <4>1. scanFrom(messages, version, cur) \in Nat
        <5>1. offset(messages, cur.position + 1) \in Nat
          <6>1. messages # << >> => front(messages) \in Nat
            BY <1>1, DequeProperties DEF front
          <6> QED
            BY <1>1, <6>1 DEF offset
        <5> QED
          BY <5>1 DEF scanFrom
      <4>2. Len(messages) \in Nat
        BY <1>1, DequeProperties
      <4>3. visited(messages, version, cur) \subseteq 0 .. Len(messages)
        BY <4>1, <4>2 DEF visited
      <4> QED
        BY <2>5, <4>2, <4>3, MaxOfNats
    <3>2. cursor'[c] = setPosition(cur, messages[j].sequence, version)
      BY <1>2, <2>3, <2>5
    <3> HIDE DEF j
    <3>3. ~reset(cur, version) => messages[j].sequence > cur.position
      <4> SUFFICES ASSUME ~reset(cur, version) PROVE messages[j].sequence > cur.position
        OBVIOUS
      <4>1. j >= 1 + offset(messages, cur.position + 1) /\ j <= Len(messages) /\ j \in Int
        <5>1. offset(messages, cur.position + 1) \in Int
          <6>1. messages # << >> => front(messages) \in Nat
            BY <1>1, DequeProperties DEF front
          <6> QED
            BY <1>1, <6>1 DEF offset
        <5> QED
          BY <3>1, <5>1, <1>1, DequeProperties DEF visited, scanFrom
      <4>2. j \in DOMAIN messages /\ messages # << >> /\ front(messages) \in Nat
        <5>1. /\ Len(messages) \in Nat /\ DOMAIN messages = 1 .. Len(messages)
              /\ (messages # << >> => front(messages) \in Nat)
          BY <1>1, DequeProperties DEF front
        <5>2. offset(messages, cur.position + 1) >= 0
          BY <1>1, <5>1 DEF offset
        <5>3. offset(messages, cur.position + 1) \in Int
          BY <1>1, <5>1 DEF offset
        <5>4. j \in 1 .. Len(messages)
          BY <4>1, <5>1, <5>2, <5>3
        <5> QED
          BY <1>1, <5>1, <5>4, DequeProperties
      <4>3. messages[j].sequence = front(messages) + j - 1
        BY <1>1, <4>2 DEF Consecutive
      <4> QED
        BY <1>1, <4>1, <4>2, <4>3 DEF offset
    <3>4. Unseen(c)' = {m \in Waiting' : m.sequence > messages[j].sequence}
      BY <3>2 DEF Unseen, reset, setPosition
    <3>5. ASSUME NEW m \in Waiting', m.sequence > messages[j].sequence PROVE FALSE
      <4>1. m \in Waiting /\ m.sequence \in Nat /\ m \notin Unseen(c)
        BY <1>8, <2>2
      <4>2. ~reset(cur, version) /\ ~(m.sequence > cur.position)
        BY <4>1 DEF Unseen
      <4>3. messages[j].sequence \in Nat
        <5>1. j \in DOMAIN messages
          <6>1. messages[j].sequence > cur.position
            BY <3>3, <4>2
          <6>2. scanFrom(messages, version, cur) >= 1 /\ scanFrom(messages, version, cur) \in Int
            <7>1. (messages # << >> => front(messages) \in Nat)
              BY <1>1, DequeProperties DEF front
            <7> QED
              BY <1>1, <7>1 DEF offset, scanFrom
          <6> QED
            BY <1>1, <3>1, <6>2, DequeProperties DEF visited
        <5> QED
          BY <1>1, <5>1, DequeProperties
      <4> QED
        BY <1>1, <3>3, <3>5, <4>1, <4>2, <4>3
    <3> QED
      BY <2>2, <3>4, <3>5
  <2> QED
    BY <2>4, <2>5
<1> QED
  BY <1>3, <1>9, <1>10

----------------------------------------------------------------------------
(* Counting                                                                *)

\* A set that lost c, and has got somebody in its place, is not smaller.
LEMMA Swap ==
    ASSUME NEW A, NEW B, IsFiniteSet(A), IsFiniteSet(B), NEW c, A \ {c} \subseteq B,
           c \in A => \E z \in B : z \notin A \ {c}
    PROVE  Cardinality(B) >= Cardinality(A) /\ Cardinality(A) \in Nat /\ Cardinality(B) \in Nat
<1>1. Cardinality(A) \in Nat /\ Cardinality(B) \in Nat
  BY FS_CardinalityType
<1>2. CASE c \notin A
  <2>1. A \in SUBSET B
    BY <1>2
  <2> QED
    BY <1>1, <2>1, FS_Subset
<1>3. CASE c \in A
  <2>1. PICK z \in B : z \notin A \ {c}
    BY <1>3
  <2>2. IsFiniteSet(A \ {c}) /\ Cardinality(A \ {c}) = Cardinality(A) - 1
    BY <1>3, FS_RemoveElement
  <2>3. /\ IsFiniteSet((A \ {c}) \cup {z})
        /\ Cardinality((A \ {c}) \cup {z}) = Cardinality(A \ {c}) + 1
    BY <2>1, <2>2, FS_AddElement
  <2>4. (A \ {c}) \cup {z} \in SUBSET B
    BY <2>1
  <2>5. Cardinality((A \ {c}) \cup {z}) <= Cardinality(B)
    BY <2>4, FS_Subset
  <2> QED
    BY <1>1, <2>2, <2>3, <2>5
<1> QED
  BY <1>2, <1>3

\* Two sets of which the larger one has one more.
LEMMA OneMore ==
    ASSUME NEW A, NEW B, IsFiniteSet(A), IsFiniteSet(B), NEW z \in B, z \notin A, A \subseteq B
    PROVE  Cardinality(B) >= Cardinality(A) + 1
<1>1. IsFiniteSet(A \cup {z}) /\ Cardinality(A \cup {z}) = Cardinality(A) + 1
  BY FS_AddElement
<1>2. A \cup {z} \in SUBSET B
  OBVIOUS
<1>3. Cardinality(A \cup {z}) <= Cardinality(B)
  BY <1>2, FS_Subset
<1> QED
  BY <1>1, <1>3, FS_CardinalityType

----------------------------------------------------------------------------
(* The listener list                                                       *)

\* The list without its n-th member.
WithoutMember(l, n) == [i \in 1 .. Len(l) - 1 |-> l[IF i < n THEN i ELSE i + 1]]

RangeOf(l) == {l[i] : i \in DOMAIN l}

Distinct(l) == \A i, j \in DOMAIN l : l[i] = l[j] => i = j

\* What is left of a list keeps its order.
LEMMA WithoutMemberFacts ==
    ASSUME NEW l \in Seq(Subscriptions), Distinct(l), NEW n \in DOMAIN l
    PROVE  /\ WithoutMember(l, n) \in Seq(Subscriptions)
           /\ Distinct(WithoutMember(l, n))
           /\ RangeOf(WithoutMember(l, n)) = RangeOf(l) \ {l[n]}
           /\ \A i, j \in DOMAIN WithoutMember(l, n) : i < j =>
                  \E x, y \in DOMAIN l : /\ x < y
                                         /\ WithoutMember(l, n)[i] = l[x]
                                         /\ WithoutMember(l, n)[j] = l[y]
<1> DEFINE d == WithoutMember(l, n)
           f(i) == IF i < n THEN i ELSE i + 1
<1>1. Len(l) \in Nat /\ DOMAIN l = 1 .. Len(l) /\ n \in 1 .. Len(l) /\ \A i \in 1 .. Len(l) : l[i] \in Subscriptions
  OBVIOUS
<1>2. \A i \in 1 .. Len(l) - 1 : f(i) \in 1 .. Len(l) /\ f(i) # n /\ d[i] = l[f(i)]
  BY <1>1 DEF WithoutMember
<1>3. d \in Seq(Subscriptions) /\ DOMAIN d = 1 .. Len(l) - 1
  <2>1. Len(l) - 1 \in Nat
    BY <1>1
  <2>2. d = [i \in 1 .. Len(l) - 1 |-> l[f(i)]]
    BY DEF WithoutMember
  <2>3. d \in [1 .. Len(l) - 1 -> Subscriptions]
    BY <1>1, <1>2, <2>2
  <2> QED
    BY <2>1, <2>3, SeqDef
<1> HIDE DEF d
<1>4. \A i, j \in 1 .. Len(l) - 1 : i < j => f(i) < f(j)
  BY <1>1
<1>5. Distinct(d)
  <2> SUFFICES ASSUME NEW i \in 1 .. Len(l) - 1, NEW j \in 1 .. Len(l) - 1, d[i] = d[j]
               PROVE  i = j
    BY <1>3 DEF Distinct
  <2>1. f(i) = f(j)
    BY <1>1, <1>2 DEF Distinct
  <2> QED
    BY <1>1, <2>1
<1>6. RangeOf(d) = RangeOf(l) \ {l[n]}
  <2>1. ASSUME NEW c \in RangeOf(d) PROVE c \in RangeOf(l) \ {l[n]}
    <3>1. PICK i \in 1 .. Len(l) - 1 : c = d[i]
      BY <1>3 DEF RangeOf
    <3>2. c = l[f(i)] /\ f(i) \in 1 .. Len(l) /\ f(i) # n
      BY <1>2, <3>1
    <3> HIDE DEF f
    <3> QED
      BY <1>1, <3>2 DEF RangeOf, Distinct
  <2>2. ASSUME NEW c \in RangeOf(l) \ {l[n]} PROVE c \in RangeOf(d)
    <3>1. PICK x \in 1 .. Len(l) : c = l[x] /\ x # n
      BY <1>1 DEF RangeOf
    <3> DEFINE i == IF x < n THEN x ELSE x - 1
    <3>2. i \in 1 .. Len(l) - 1 /\ f(i) = x
      BY <1>1, <3>1
    <3>3. d[i] = c
      BY <1>2, <3>1, <3>2
    <3> QED
      BY <1>3, <3>2, <3>3 DEF RangeOf
  <2> QED
    BY <2>1, <2>2
<1>7. \A i, j \in DOMAIN d : i < j => \E x, y \in DOMAIN l : x < y /\ d[i] = l[x] /\ d[j] = l[y]
  <2> SUFFICES ASSUME NEW i \in 1 .. Len(l) - 1, NEW j \in 1 .. Len(l) - 1, i < j
               PROVE  \E x, y \in DOMAIN l : x < y /\ d[i] = l[x] /\ d[j] = l[y]
    BY <1>3
  <2> WITNESS f(i) \in DOMAIN l, f(j) \in DOMAIN l
  <2> QED
    BY <1>1, <1>2, <1>4
<1> QED
  BY <1>3, <1>5, <1>6, <1>7 DEF d

\* Taking the first one off.
LEMMA TailFacts ==
    ASSUME NEW l \in Seq(Subscriptions), Distinct(l), l # << >>
    PROVE  /\ Head(l) = l[1] /\ 1 \in DOMAIN l /\ Tail(l) = WithoutMember(l, 1)
<1>1. Len(l) \in Nat /\ DOMAIN l = 1 .. Len(l) /\ Len(l) # 0
  BY EmptySeq
<1>2. 1 \in DOMAIN l
  BY <1>1
<1>3. Head(l) = l[1]
  BY DEF Head
<1>4. /\ Tail(l) \in Seq(Subscriptions) /\ Len(Tail(l)) = Len(l) - 1
      /\ \A i \in 1 .. Len(Tail(l)) : Tail(l)[i] = l[i + 1]
  BY HeadTailProperties
<1>5. Tail(l) = [i \in 1 .. Len(l) - 1 |-> Tail(l)[i]]
  <2> DEFINE d == Tail(l)
  <2>1. d \in Seq(Subscriptions) /\ Len(d) = Len(l) - 1
    BY <1>4
  <2> HIDE DEF d
  <2>2. d \in [1 .. Len(d) -> Subscriptions]
    BY <2>1
  <2>3. d = [i \in 1 .. Len(d) |-> d[i]]
    BY <2>2
  <2> QED
    BY <2>1, <2>3 DEF d
<1>6. WithoutMember(l, 1) = [i \in 1 .. Len(l) - 1 |-> l[i + 1]]
  BY <1>1 DEF WithoutMember
<1>7. \A i \in 1 .. Len(l) - 1 : Tail(l)[i] = l[i + 1]
  BY <1>4
<1>8. [i \in 1 .. Len(l) - 1 |-> Tail(l)[i]] = [i \in 1 .. Len(l) - 1 |-> l[i + 1]]
  BY <1>7
<1> QED
  BY <1>2, <1>3, <1>5, <1>6, <1>8

\* Putting one at the end.
LEMMA AppendFacts ==
    ASSUME NEW l \in Seq(Subscriptions), Distinct(l), NEW c \in Subscriptions, c \notin RangeOf(l)
    PROVE  /\ Append(l, c) \in Seq(Subscriptions) /\ Append(l, c) # << >>
           /\ Distinct(Append(l, c))
           /\ RangeOf(Append(l, c)) = RangeOf(l) \cup {c}
           /\ Head(Append(l, c)) = IF l = << >> THEN c ELSE Head(l)
           /\ \A i, j \in DOMAIN Append(l, c) : i < j =>
                  /\ i \in DOMAIN l /\ Append(l, c)[i] = l[i]
                  /\ Append(l, c)[j] = c \/ (j \in DOMAIN l /\ Append(l, c)[j] = l[j])
<1> DEFINE d == Append(l, c)
<1>1. Len(l) \in Nat /\ DOMAIN l = 1 .. Len(l)
  OBVIOUS
<1>2. /\ d \in Seq(Subscriptions) /\ Len(d) = Len(l) + 1 /\ DOMAIN d = 1 .. Len(l) + 1
      /\ d[Len(l) + 1] = c /\ \A i \in 1 .. Len(l) : d[i] = l[i]
  OBVIOUS
<1>3. d # << >>
  BY <1>1, <1>2
<1> HIDE DEF d
<1>4. \A i \in 1 .. Len(l) + 1 : i = Len(l) + 1 \/ i \in 1 .. Len(l)
  BY <1>1
<1>5. \A i \in 1 .. Len(l) : l[i] # c
  BY <1>1 DEF RangeOf
<1>6. Distinct(d)
  BY <1>1, <1>2, <1>4, <1>5 DEF Distinct
<1>7. RangeOf(d) = RangeOf(l) \cup {c}
  <2>1. RangeOf(d) \subseteq RangeOf(l) \cup {c}
    BY <1>1, <1>2, <1>4 DEF RangeOf
  <2>2. Len(l) + 1 \in 1 .. Len(l) + 1 /\ 1 .. Len(l) \subseteq 1 .. Len(l) + 1
    BY <1>1
  <2>3. RangeOf(l) \cup {c} \subseteq RangeOf(d)
    BY <1>1, <1>2, <2>2 DEF RangeOf
  <2> QED
    BY <2>1, <2>3
<1>8. Head(d) = IF l = << >> THEN c ELSE Head(l)
  <2>1. Head(d) = d[1]
    BY DEF Head
  <2>2. CASE l = << >>
    BY <1>2, <2>1, <2>2
  <2>3. CASE l # << >>
    <3>1. 1 \in 1 .. Len(l) /\ Head(l) = l[1]
      BY <1>1, <2>3, EmptySeq DEF Head
    <3> QED
      BY <1>2, <2>1, <2>3, <3>1
  <2> QED
    BY <2>2, <2>3
<1>9. \A i, j \in DOMAIN d : i < j =>
          /\ i \in DOMAIN l /\ d[i] = l[i]
          /\ d[j] = c \/ (j \in DOMAIN l /\ d[j] = l[j])
  BY <1>1, <1>2, <1>4
<1> QED
  BY <1>2, <1>3, <1>6, <1>7, <1>8, <1>9 DEF d

\* Taking c off, wherever it is.
LEMMA ErasedFacts ==
    ASSUME NEW c, listeners \in Seq(Subscriptions), Distinct(listeners)
    PROVE  \/ c \notin Listed /\ erased(c) = listeners
           \/ c \in Listed /\ \E n \in DOMAIN listeners :
                 listeners[n] = c /\ erased(c) = WithoutMember(listeners, n)
<1>1. CASE \E i \in DOMAIN listeners : listeners[i] = c
  <2> DEFINE n == CHOOSE i \in DOMAIN listeners : listeners[i] = c
  <2>1. n \in DOMAIN listeners /\ listeners[n] = c
    BY <1>1
  <2>2. erased(c) = WithoutMember(listeners, n)
    BY <1>1 DEF erased, WithoutMember
  <2> HIDE DEF n
  <2> QED
    BY <2>1, <2>2 DEF Listed
<1>2. CASE ~\E i \in DOMAIN listeners : listeners[i] = c
  BY <1>2 DEF erased, Listed
<1> QED
  BY <1>1, <1>2

\* The list has lost R and keeps its order.
Shrunk(R) ==
    /\ listeners' \in Seq(Subscriptions) /\ Distinct(listeners') /\ Listed' = Listed \ R
    /\ \A i, j \in DOMAIN listeners' : i < j =>
          \E x, y \in DOMAIN listeners :
              x < y /\ listeners'[i] = listeners[x] /\ listeners'[j] = listeners[y]

\* The types of the variables that the list is read with.
LEMMA ListFacts ==
    ASSUME DispatchTypeOK, ListOK
    PROVE  /\ listeners \in Seq(Subscriptions) /\ Distinct(listeners) /\ Listed = RangeOf(listeners)
           /\ Listed \subseteq Consumers /\ Consumers \subseteq Subscriptions
           /\ Subscriptions \subseteq Threads /\ Publishers \subseteq Threads
           /\ (listeners = << >> <=> Listed = {})
<1>1. /\ listeners \in Seq(Subscriptions) /\ Distinct(listeners) /\ Listed = RangeOf(listeners)
      /\ Listed \subseteq Consumers /\ Consumers \subseteq Subscriptions
      /\ Subscriptions \subseteq Threads /\ Publishers \subseteq Threads
  BY DEF DispatchTypeOK, ListOK, Distinct, RangeOf, Listed, Consumers, Threads
<1>2. listeners = << >> <=> Listed = {}
  <2>1. CASE listeners = << >>
    BY <2>1 DEF Listed
  <2>2. CASE listeners # << >>
    BY <1>1, <2>2, TailFacts DEF Listed
  <2> QED
    BY <2>1, <2>2
<1> QED
  BY <1>1, <1>2

\* Nobody comes off the list.
LEMMA ShrunkSame ==
    ASSUME DispatchTypeOK, ListOK, listeners' = listeners
    PROVE  Shrunk({})
<1>1. /\ listeners' \in Seq(Subscriptions) /\ Distinct(listeners') /\ Listed' = Listed \ {}
  BY ListFacts DEF Listed, Distinct
<1>2. \A i, j \in DOMAIN listeners' : i < j =>
          \E x, y \in DOMAIN listeners :
              x < y /\ listeners'[i] = listeners[x] /\ listeners'[j] = listeners[y]
  OBVIOUS
<1> QED
  BY <1>1, <1>2 DEF Shrunk

\* The first one has been told.
LEMMA ShrunkTail ==
    ASSUME DispatchTypeOK, ListOK, listeners # << >>, listeners' = Tail(listeners)
    PROVE  Shrunk({Head(listeners)}) /\ Head(listeners) \in Listed
<1>1. Head(listeners) = listeners[1] /\ 1 \in DOMAIN listeners /\ Tail(listeners) = WithoutMember(listeners, 1)
  BY ListFacts, TailFacts
<1>2. Listed' = RangeOf(listeners')
  BY DEF Listed, RangeOf
<1>3. listeners' = WithoutMember(listeners, 1)
  BY <1>1
<1>4. /\ WithoutMember(listeners, 1) \in Seq(Subscriptions)
      /\ Distinct(WithoutMember(listeners, 1))
      /\ RangeOf(WithoutMember(listeners, 1)) = RangeOf(listeners) \ {listeners[1]}
      /\ \A i, j \in DOMAIN WithoutMember(listeners, 1) : i < j =>
             \E x, y \in DOMAIN listeners : /\ x < y
                                            /\ WithoutMember(listeners, 1)[i] = listeners[x]
                                            /\ WithoutMember(listeners, 1)[j] = listeners[y]
  BY <1>1, ListFacts, WithoutMemberFacts
<1>5. Head(listeners) \in Listed
  BY <1>1 DEF Listed
<1>6. Listed' = Listed \ {Head(listeners)}
  BY <1>1, <1>2, <1>3, <1>4, ListFacts
<1> DEFINE d == WithoutMember(listeners, 1)
<1>7. listeners' = d
  BY <1>3
<1> HIDE DEF d
<1>8. listeners' \in Seq(Subscriptions) /\ Distinct(listeners')
  BY <1>4, <1>7 DEF d
<1>9. \A i, j \in DOMAIN d : i < j =>
          \E x, y \in DOMAIN listeners : x < y /\ d[i] = listeners[x] /\ d[j] = listeners[y]
  BY <1>4 DEF d
<1>10. \A i, j \in DOMAIN listeners' : i < j =>
          \E x, y \in DOMAIN listeners :
              x < y /\ listeners'[i] = listeners[x] /\ listeners'[j] = listeners[y]
  BY <1>7, <1>9
<1> QED
  BY <1>5, <1>6, <1>8, <1>10 DEF Shrunk

\* c is off the list.
LEMMA ShrunkErased ==
    ASSUME DispatchTypeOK, ListOK, NEW c, listeners' = erased(c)
    PROVE  Shrunk({c})
<1>1. Listed' = RangeOf(listeners')
  BY DEF Listed, RangeOf
<1>2. CASE c \notin Listed /\ erased(c) = listeners
  <2>1. Shrunk({})
    BY <1>2, ShrunkSame
  <2> QED
    BY <1>2, <2>1 DEF Shrunk
<1>3. CASE c \in Listed /\ \E n \in DOMAIN listeners :
               listeners[n] = c /\ erased(c) = WithoutMember(listeners, n)
  BY <1>1, <1>3, ListFacts, WithoutMemberFacts DEF Shrunk
<1> QED
  BY <1>2, <1>3, ListFacts, ErasedFacts

\* c is off the list, and so is the first one of the others, who has been told.
LEMMA ShrunkBoth ==
    ASSUME DispatchTypeOK, ListOK, NEW c, erased(c) # << >>, listeners' = Tail(erased(c))
    PROVE  /\ Head(erased(c)) \in Listed \ {c}
           /\ Shrunk({c, Head(erased(c))})
<1> DEFINE l == erased(c)
<1>1. /\ l \in Seq(Subscriptions) /\ Distinct(l) /\ RangeOf(l) = Listed \ {c}
      /\ \A i, j \in DOMAIN l : i < j =>
            \E x, y \in DOMAIN listeners : x < y /\ l[i] = listeners[x] /\ l[j] = listeners[y]
  <2>1. CASE c \notin Listed /\ erased(c) = listeners
    BY <2>1, ListFacts
  <2>2. CASE c \in Listed /\ \E n \in DOMAIN listeners :
                 listeners[n] = c /\ erased(c) = WithoutMember(listeners, n)
    BY <2>2, ListFacts, WithoutMemberFacts
  <2> QED
    BY <2>1, <2>2, ListFacts, ErasedFacts
<1>2. l # << >> /\ listeners' = Tail(l)
  OBVIOUS
<1> HIDE DEF l
<1>3. Head(l) = l[1] /\ 1 \in DOMAIN l /\ Tail(l) = WithoutMember(l, 1)
  BY <1>1, <1>2, TailFacts
<1>4. /\ listeners' \in Seq(Subscriptions) /\ Distinct(listeners')
      /\ RangeOf(listeners') = RangeOf(l) \ {Head(l)}
      /\ \A i, j \in DOMAIN listeners' : i < j =>
            \E x, y \in DOMAIN l : x < y /\ listeners'[i] = l[x] /\ listeners'[j] = l[y]
  <2> DEFINE d == WithoutMember(l, 1)
  <2>1. /\ d \in Seq(Subscriptions) /\ Distinct(d) /\ RangeOf(d) = RangeOf(l) \ {l[1]}
        /\ \A i, j \in DOMAIN d : i < j =>
              \E x, y \in DOMAIN l : x < y /\ d[i] = l[x] /\ d[j] = l[y]
    BY <1>1, <1>3, WithoutMemberFacts
  <2>2. listeners' = d
    BY <1>2, <1>3
  <2> HIDE DEF d
  <2>3. listeners' \in Seq(Subscriptions)
    BY <2>1, <2>2
  <2>4. Distinct(listeners')
    BY <2>1, <2>2
  <2>5. RangeOf(listeners') = RangeOf(l) \ {Head(l)}
    BY <1>3, <2>1, <2>2
  <2>6. \A i, j \in DOMAIN listeners' : i < j =>
            \E x, y \in DOMAIN l : x < y /\ listeners'[i] = l[x] /\ listeners'[j] = l[y]
    BY <2>1, <2>2
  <2> QED
    BY <2>3, <2>4, <2>5, <2>6
<1>5. Head(l) \in Listed \ {c}
  BY <1>1, <1>3 DEF RangeOf
<1>6. Listed' = Listed \ {c, Head(l)}
  <2>1. Listed' = RangeOf(listeners')
    BY DEF Listed, RangeOf
  <2> QED
    BY <1>1, <1>4, <2>1
<1>7. \A i, j \in DOMAIN listeners' : i < j =>
          \E x, y \in DOMAIN listeners :
              x < y /\ listeners'[i] = listeners[x] /\ listeners'[j] = listeners[y]
  <2> SUFFICES ASSUME NEW i \in DOMAIN listeners', NEW j \in DOMAIN listeners', i < j
               PROVE  \E x, y \in DOMAIN listeners :
                          x < y /\ listeners'[i] = listeners[x] /\ listeners'[j] = listeners[y]
    OBVIOUS
  <2>1. PICK x, y \in DOMAIN l : x < y /\ listeners'[i] = l[x] /\ listeners'[j] = l[y]
    BY <1>4
  <2>2. PICK v, w \in DOMAIN listeners : v < w /\ l[x] = listeners[v] /\ l[y] = listeners[w]
    BY <1>1, <2>1
  <2> QED
    BY <2>1, <2>2
<1> QED
  BY <1>4, <1>5, <1>6, <1>7 DEF Shrunk, l

\* The first on the list has seen least.
LEMMA FirstFacts ==
    ASSUME DispatchTypeOK, ListOK, SeenInOrder, listeners # << >>
    PROVE  /\ Head(listeners) \in Listed
           /\ \A c \in Listed : Unseen(c) \subseteq First
<1>1. Head(listeners) = listeners[1] /\ 1 \in DOMAIN listeners
  BY ListFacts, TailFacts
<1>2. Head(listeners) \in Listed
  BY <1>1 DEF Listed
<1>3. ASSUME NEW c \in Listed PROVE Unseen(c) \subseteq First
  <2>1. PICK i \in DOMAIN listeners : c = listeners[i]
    BY DEF Listed
  <2>2. i = 1 \/ 1 < i
    BY ListFacts
  <2> QED
    BY <1>1, <2>1, <2>2 DEF SeenInOrder, First
<1> QED
  BY <1>2, <1>3

\* A list that got shorter is still in order.
LEMMA OrderKept ==
    ASSUME SeenInOrder, NEW R, Shrunk(R),
           \A c, d \in Listed : Unseen(d) \subseteq Unseen(c) => Unseen(d)' \subseteq Unseen(c)'
    PROVE  SeenInOrder'
<1> SUFFICES ASSUME NEW i \in DOMAIN listeners', NEW j \in DOMAIN listeners', i < j
             PROVE  Unseen(listeners[j])' \subseteq Unseen(listeners[i])'
  BY DEF SeenInOrder
<1>1. PICK x, y \in DOMAIN listeners :
          x < y /\ listeners'[i] = listeners[x] /\ listeners'[j] = listeners[y]
  BY DEF Shrunk
<1> DEFINE c == listeners'[i]
           d == listeners'[j]
<1>2. c \in Listed /\ d \in Listed /\ Unseen(d) \subseteq Unseen(c)
  BY <1>1 DEF SeenInOrder, Listed
<1>3. PICK a, b \in Listed : a = listeners'[i] /\ b = listeners'[j] /\ Unseen(b) \subseteq Unseen(a)
  BY <1>2
<1>4. Unseen(b)' \subseteq Unseen(a)'
  BY <1>3
<1> QED
  BY <1>3, <1>4 DEF Unseen

\* Whoever is first then has seen at least as much as the one who was.
LEMMA FirstShrunk ==
    ASSUME DispatchTypeOK, ListOK, SeenInOrder, NEW R, Shrunk(R), listeners' # << >>
    PROVE  /\ listeners # << >> /\ Head(listeners)' \in Listed \ R
           /\ Fewer(Listed) => First' \subseteq First /\ SeenInOrder'
<1>1. Head(listeners)' = listeners'[1] /\ 1 \in DOMAIN listeners'
  BY TailFacts DEF Shrunk
<1>2. listeners'[1] \in Listed'
  BY <1>1 DEF Listed
<1>3. listeners'[1] \in Listed \ R
  BY <1>2 DEF Shrunk
<1>4. listeners # << >>
  BY <1>3, ListFacts
<1>5. ASSUME Fewer(Listed) PROVE First' \subseteq First /\ SeenInOrder'
  <2>1. SeenInOrder'
    BY <1>5, OrderKept DEF Fewer
  <2>2. PICK h \in Listed : h = listeners'[1]
    BY <1>3
  <2>3. Unseen(h)' \subseteq Unseen(h)
    BY <1>5 DEF Fewer
  <2>4. First' = Unseen(h)'
    BY <1>1, <2>2 DEF First, Unseen
  <2> QED
    BY <1>4, <2>1, <2>2, <2>3, <2>4, FirstFacts
<1> QED
  BY <1>1, <1>3, <1>4, <1>5

----------------------------------------------------------------------------
(* Carriers in the place of carriers                                       *)

\* Whom a carrier looks for are consumers.
LEMMA CoverFacts ==
    ASSUME DispatchTypeOK, ToldOK, NEW y \in Consumers
    PROVE  y \in Cover(y) /\ Cover(y) \subseteq Consumers
BY ListFacts DEF Cover, ToldOK, Threads, Consumers

\* What somebody of a set could want is waiting.
LEMMA PendingFacts ==
    ASSUME IInv, NEW Y
    PROVE  /\ Pending(Y) \subseteq Waiting /\ IsFiniteSet(Pending(Y))
           /\ \A m : IsFiniteSet(UpTo(Pending(Y), m))
<1>1. Pending(Y) \subseteq Waiting
  BY DEF Pending, Wanted
<1>2. IsFiniteSet(Waiting)
  BY WaitingFacts
<1>3. IsFiniteSet(Pending(Y))
  BY <1>1, <1>2, FS_Subset
<1>4. \A m : UpTo(Pending(Y), m) \in SUBSET Pending(Y)
  BY DEF UpTo
<1>5. \A m : IsFiniteSet(UpTo(Pending(Y), m))
  BY <1>3, <1>4, FS_Subset
<1> QED
  BY <1>1, <1>3, <1>5

\* A step after which the carriers Y but for c, and somebody in the place of c
\* if it was one, carry what is pending then.
LEMMA Trade ==
    ASSUME IInv, NEW Y, NEW Z \in SUBSET Subscriptions, NEW c,
           IsFiniteSet(Y), IsFiniteSet(Z), Enough(Y),
           \A z \in Z : Carrier(z)',
           Waiting' \subseteq Waiting, First' \subseteq First,
           \A x \in Interested(Z)' : x \in Interested(Y) \/ Wanted(x)' = {},
           Y \ {c} \subseteq Z,
           \A y \in Y \ {c} : Carried(y) \cap First' \subseteq Carried(y)',
           c \in Y => \A m \in Carried(c) \cap First' :
                          \E z \in Z : z \notin Y \ {c} /\ m \in Carried(z)'
    PROVE  Served'
<1>1. Pending(Z)' \subseteq Pending(Y)
  <2> SUFFICES ASSUME NEW m \in Pending(Z)' PROVE m \in Pending(Y)
    OBVIOUS
  <2>1. PICK x \in Interested(Z)' : m \in Wanted(x)'
    BY DEF Pending
  <2>2. m \in Wanted(x) /\ x \in Interested(Y)
    BY <2>1 DEF Wanted
  <2> QED
    BY <2>2 DEF Pending
<1>2. ASSUME NEW m \in Pending(Z)' \cap First'
      PROVE  Cardinality(Carrying(Z, m)') >= Cardinality(UpTo(Pending(Z), m)')
  <2> DEFINE A == Carrying(Y, m)
             D == Carrying(Z, m)'
             P == UpTo(Pending(Y), m)
             R == UpTo(Pending(Z), m)'
  <2>1. m \in Pending(Y) \cap First
    BY <1>1
  <2>2. Cardinality(A) >= Cardinality(P)
    BY <2>1 DEF Enough
  <2>3. A \in SUBSET Y /\ D \in SUBSET Z
    BY DEF Carrying
  <2>4. IsFiniteSet(A) /\ IsFiniteSet(D)
    BY <2>3, FS_Subset
  <2>5. R \in SUBSET P
    BY <1>1 DEF UpTo
  <2>6. IsFiniteSet(P)
    BY PendingFacts
  <2>7. Cardinality(R) <= Cardinality(P) /\ Cardinality(R) \in Nat /\ Cardinality(P) \in Nat
    <3>1. Cardinality(R) <= Cardinality(P) /\ IsFiniteSet(R)
      BY <2>5, <2>6, FS_Subset
    <3> QED
      BY <2>6, <3>1, FS_CardinalityType
  <2>8. A \ {c} \subseteq D
    <3> SUFFICES ASSUME NEW y \in A, y # c PROVE y \in D
      OBVIOUS
    <3>1. y \in Y \ {c} /\ m \in Carried(y)
      BY DEF Carrying
    <3>2. m \in Carried(y)' /\ y \in Z
      BY <3>1
    <3> QED
      BY <3>2 DEF Carrying
  <2>9. c \in A => \E z \in D : z \notin A \ {c}
    <3> SUFFICES ASSUME c \in A PROVE \E z \in D : z \notin A \ {c}
      OBVIOUS
    <3>1. c \in Y /\ m \in Carried(c) \cap First'
      BY DEF Carrying
    <3>2. PICK z \in Z : z \notin Y \ {c} /\ m \in Carried(z)'
      BY <3>1
    <3>3. z \in D
      BY <3>1, <3>2 DEF Carrying
    <3> QED
      BY <2>3, <3>2, <3>3
  <2> HIDE DEF A, D, P, R
  <2>10. Cardinality(D) >= Cardinality(A) /\ Cardinality(A) \in Nat /\ Cardinality(D) \in Nat
    BY <2>4, <2>8, <2>9, Swap
  <2>11. Cardinality(D) >= Cardinality(R)
    BY <2>2, <2>7, <2>10
  <2> QED
    BY <2>11 DEF D, R
<1>3. Enough(Z)'
  BY <1>2 DEF Enough
<1> QED
  BY <1>3 DEF Served

\* A step that keeps every carrier what it is.
LEMMA Kept ==
    ASSUME IInv, DispatchTypeOK, ListOK, ToldOK, SeenInOrder, Served,
           listeners' = listeners, Fewer(Consumers),
           \A y \in Consumers : Carrier(y) => Carrier(y)' /\ Cover(y)' = Cover(y)
    PROVE  Served'
<1> SUFFICES ASSUME listeners # << >> PROVE Served'
  BY DEF Served
<1>1. PICK Y \in SUBSET Subscriptions : IsFiniteSet(Y) /\ (\A y \in Y : Carrier(y)) /\ Enough(Y)
  BY DEF Served
<1>2. \A y \in Y : y \in Consumers /\ Carrier(y)' /\ Cover(y)' = Cover(y)
  BY <1>1 DEF Carrier
<1>3. Waiting' \subseteq Waiting /\ First' \subseteq First /\ First' \subseteq Waiting'
  <2>1. PICK h \in Listed : h = Head(listeners)
    BY FirstFacts
  <2>2. Unseen(h)' = Unseen(h) \cap Waiting'
    BY <2>1, ListFacts DEF Fewer
  <2>3. First = Unseen(h) /\ First' = Unseen(h)'
    BY <2>1 DEF First, Unseen
  <2> QED
    BY <2>2, <2>3 DEF Fewer
<1>4. Interested(Y)' = Interested(Y)
  <2>1. Listed' = Listed
    BY DEF Listed
  <2> QED
    BY <1>2, <2>1 DEF Interested
<1>5. \A y \in Y : Carried(y) \cap First' \subseteq Carried(y)'
  <2> SUFFICES ASSUME NEW y \in Y, NEW m \in Carried(y) \cap First' PROVE m \in Carried(y)'
    OBVIOUS
  <2>1. PICK x \in Cover(y) : m \in Unseen(x)
    BY DEF Carried
  <2>2. x \in Consumers /\ x \in Cover(y)'
    BY <1>2, <2>1, CoverFacts
  <2>3. m \in Unseen(x)'
    BY <1>3, <2>1, <2>2 DEF Fewer
  <2> QED
    BY <2>2, <2>3 DEF Carried
<1>6. \A y \in Y : y \notin Y \ {y}
  OBVIOUS
<1> PICK c : TRUE
  OBVIOUS
<1>7. c \in Y => \A m \in Carried(c) \cap First' : \E z \in Y : z \notin Y \ {c} /\ m \in Carried(z)'
  BY <1>5
<1> HIDE DEF Served
<1> QED
  BY <1>1, <1>2, <1>3, <1>4, <1>5, <1>7, Trade

\* Carriers enough are as many as all that is pending.
LEMMA Normal ==
    ASSUME IInv, DispatchTypeOK, ListOK, SeenInOrder, Served, listeners # << >>
    PROVE  \E Y \in SUBSET Subscriptions :
               /\ IsFiniteSet(Y) /\ (\A y \in Y : Carrier(y)) /\ Enough(Y)
               /\ Cardinality(Y) >= Cardinality(Pending(Y))
<1>1. PICK Y \in SUBSET Subscriptions : IsFiniteSet(Y) /\ (\A y \in Y : Carrier(y)) /\ Enough(Y)
  BY DEF Served
<1>2. PICK h \in Consumers : h = Head(listeners) /\ First = Unseen(h)
  BY FirstFacts, ListFacts DEF First
<1>3. CASE Pending(Y) \cap First = {}
  <2>1. Interested({}) = Listed
    BY DEF Interested
  <2>2. \A c \in Listed : Wanted(c) \subseteq First
    BY FirstFacts, UnseenFacts, ListFacts
  <2>3. Pending({}) \subseteq First /\ Pending({}) \subseteq Pending(Y)
    BY <2>1, <2>2 DEF Pending, Interested
  <2>4. Pending({}) = {}
    BY <1>3, <2>3
  <2>5. Enough({})
    BY <2>4 DEF Enough
  <2>6. Cardinality({}) = 0 /\ IsFiniteSet({})
    BY FS_EmptySet
  <2>7. Cardinality({}) >= Cardinality(Pending({}))
    <3>1. Cardinality(Pending({})) = 0
      BY <2>4, PendingFacts, FS_EmptySet
    <3> QED
      BY <2>6, <3>1
  <2> WITNESS {} \in SUBSET Subscriptions
  <2> QED
    BY <2>5, <2>6, <2>7
<1>4. CASE Pending(Y) \cap First # {}
  <2> DEFINE N == {m.sequence : m \in Pending(Y) \cap First}
  <2>1. \A m \in Waiting : m.sequence \in Nat /\ m.sequence <= sequence /\ sequence \in Nat
    BY WaitingFacts
  <2>2. N \subseteq 0 .. sequence /\ N # {} /\ sequence \in Nat
    BY <1>4, <2>1, PendingFacts, WaitingFacts
  <2>3. Max(N) \in N /\ \A n \in N : Max(N) >= n
    BY <2>2, MaxOfNats
  <2>4. PICK m \in Pending(Y) \cap First : m.sequence = Max(N)
    BY <2>3
  <2>5. \A n \in Pending(Y) : n.sequence <= m.sequence
    <3> SUFFICES ASSUME NEW n \in Pending(Y), ~(n.sequence <= m.sequence) PROVE FALSE
      OBVIOUS
    <3>1. m.sequence \in Nat /\ n.sequence \in Nat /\ n \in Waiting /\ m \in Unseen(h)
      BY <1>2, <2>1, PendingFacts
    <3>2. m.sequence <= n.sequence
      BY <3>1
    <3>3. n \in First
      BY <1>2, <3>1, <3>2, UnseenFacts
    <3>4. n.sequence \in N
      BY <3>3
    <3> QED
      BY <2>3, <2>4, <3>1, <3>4
  <2>6. UpTo(Pending(Y), m) = Pending(Y)
    BY <2>5 DEF UpTo
  <2>7. Cardinality(Carrying(Y, m)) >= Cardinality(Pending(Y))
    BY <1>1, <2>6 DEF Enough
  <2>8. Carrying(Y, m) \in SUBSET Y
    BY DEF Carrying
  <2>9. Cardinality(Carrying(Y, m)) <= Cardinality(Y) /\ IsFiniteSet(Carrying(Y, m))
    BY <1>1, <2>8, FS_Subset
  <2>10. /\ Cardinality(Carrying(Y, m)) \in Nat /\ Cardinality(Y) \in Nat
         /\ Cardinality(Pending(Y)) \in Nat
    BY <1>1, <2>9, PendingFacts, FS_CardinalityType
  <2>11. Cardinality(Y) >= Cardinality(Pending(Y))
    BY <2>7, <2>9, <2>10
  <2> QED
    BY <1>1, <2>11
<1> QED
  BY <1>3, <1>4

----------------------------------------------------------------------------
(* The steps                                                               *)

\* What populate() does.
LEMMA PopulateFacts ==
    ASSUME DispatchTypeOK, ListOK, NEW t \in Threads, populate(t)
    PROVE  /\ notifying' \in [Threads -> NotificationSet]
           /\ \A x \in Threads : x # t => notifying'[x] = notifying[x]
           /\ notifying'[t].browsers = browsers /\ browsers' = {}
           /\ listeners = << >> => listeners' = listeners /\ notifying'[t].consumer = Told(t)
           /\ listeners # << >> => /\ notifying'[t].consumer = {Head(listeners)}
                                   /\ listeners' = Tail(listeners)
                                   /\ Head(listeners) \in Listed /\ Shrunk({Head(listeners)})
           /\ overwritten \subseteq overwritten'
           /\ overwritten' \subseteq overwritten \cup Told(t)
           /\ Told(t) \subseteq overwritten' \cup notifying'[t].consumer
<1> DEFINE n == Populated(notifying[t])
<1>1. notifying \in [Threads -> NotificationSet] /\ browsers \subseteq Subscriptions
  BY DEF DispatchTypeOK
<1>2. notifying' = [notifying EXCEPT ![t] = n] /\ browsers' = {}
  BY DEF populate
<1>3. listeners = << >> => listeners' = listeners /\ n = [consumer |-> Told(t), browsers |-> browsers]
  BY DEF populate, Populated, Told
<1>4. listeners # << >> => /\ n = [consumer |-> {Head(listeners)}, browsers |-> browsers]
                           /\ listeners' = Tail(listeners)
                           /\ Head(listeners) \in Listed /\ Shrunk({Head(listeners)})
  BY ShrunkTail DEF populate, Populated
<1>5. n \in NotificationSet /\ n.browsers = browsers
  <2>1. CASE listeners = << >>
    <3>1. notifying[t] \in NotificationSet
      BY <1>1
    <3> QED
      BY <1>1, <1>3, <2>1, <3>1 DEF NotificationSet, Told
  <2>2. CASE listeners # << >>
    <3>1. Head(listeners) \in Subscriptions
      BY <1>4, <2>2, ListFacts
    <3> QED
      BY <1>1, <1>4, <2>2, <3>1 DEF NotificationSet
  <2> QED
    BY <2>1, <2>2
<1>6. notifying'[t] = n /\ \A x \in Threads : x # t => notifying'[x] = notifying[x]
  BY <1>1, <1>2
<1>7. notifying' \in [Threads -> NotificationSet]
  BY <1>1, <1>2, <1>5
<1> HIDE DEF n
<1>8. listeners = << >> => n.consumer = Told(t)
  BY <1>3
<1>9. listeners # << >> => n.consumer = {Head(listeners)}
  BY <1>4
<1>10. /\ overwritten \subseteq overwritten'
       /\ overwritten' \subseteq overwritten \cup Told(t)
       /\ Told(t) \subseteq overwritten' \cup n.consumer
  <2>1. overwritten' = overwritten \cup
            (IF listeners = << >> THEN {} ELSE Told(t) \ {Head(listeners)})
    BY DEF populate, Told
  <2> QED
    BY <1>8, <1>9, <2>1
<1> QED
  BY <1>2, <1>3, <1>4, <1>5, <1>6, <1>7, <1>8, <1>9, <1>10

\* What removing c from the listeners does.
LEMMA RemoveFacts ==
    ASSUME DispatchTypeOK, ListOK, NEW c \in Subscriptions, removeListener(c, c)
    PROVE  /\ notifying' \in [Threads -> NotificationSet]
           /\ \A x \in Threads : x # c => notifying'[x] = notifying[x]
           /\ browsers' \subseteq browsers /\ listeners' \in Seq(Subscriptions)
           /\ notifying'[c].browsers = notifying[c].browsers \/ notifying'[c].browsers \subseteq browsers
           /\ \/ available(messages) = {} /\ Shrunk({c}) /\ notifying'[c].consumer = Told(c)
              \/ listeners' = << >> /\ Listed' = {} /\ Shrunk({c})
                   /\ notifying'[c].consumer = Told(c)
              \/ \E h \in Listed \ {c} : /\ Shrunk({c, h}) /\ notifying'[c].consumer = {h}
                                          /\ erased(c) # << >> /\ h = Head(erased(c))
<1>1. /\ notifying \in [Threads -> NotificationSet] /\ browsers \subseteq Subscriptions
      /\ listeners \in Seq(Subscriptions) /\ c \in Threads
  BY ListFacts DEF DispatchTypeOK
<1>2. notifying[c] \in NotificationSet
  BY <1>1
<1>3. CASE available(messages) = {}
  <2>1. listeners' = erased(c) /\ browsers' = browsers \ {c} /\ notifying' = notifying
    BY <1>3 DEF removeListener
  <2>2. Shrunk({c})
    BY <2>1, ShrunkErased
  <2> QED
    BY <1>1, <1>3, <2>1, <2>2 DEF Shrunk, Told
<1>4. CASE available(messages) # {} /\ erased(c) = << >>
  <2> DEFINE n == [consumer |-> notifying[c].consumer, browsers |-> browsers \ {c}]
  <2>1. listeners' = erased(c) /\ browsers' = {} /\ notifying' = [notifying EXCEPT ![c] = n]
    BY <1>4 DEF removeListener
  <2>2. n \in NotificationSet /\ n.consumer = Told(c) /\ n.browsers \subseteq browsers
    BY <1>1, <1>2 DEF NotificationSet, Told
  <2> HIDE DEF n
  <2>3. /\ notifying' \in [Threads -> NotificationSet] /\ notifying'[c] = n
        /\ \A x \in Threads : x # c => notifying'[x] = notifying[x]
    BY <1>1, <2>1, <2>2
  <2>4. Shrunk({c})
    BY <2>1, ShrunkErased
  <2>5. listeners' = << >> /\ Listed' = {}
    BY <1>4, <2>1 DEF Listed
  <2> QED
    BY <2>1, <2>2, <2>3, <2>4, <2>5 DEF Shrunk
<1>5. CASE available(messages) # {} /\ erased(c) # << >>
  <2> DEFINE h == Head(erased(c))
             n == [consumer |-> {h}, browsers |-> browsers \ {c}]
  <2>1. /\ listeners' = Tail(erased(c)) /\ browsers' = {}
        /\ notifying' = [notifying EXCEPT ![c] = n]
    BY <1>5 DEF removeListener
  <2>2. h \in Listed \ {c} /\ Shrunk({c, h}) /\ h = Head(erased(c))
    BY <1>5, <2>1, ShrunkBoth
  <2> HIDE DEF h
  <2>3. n \in NotificationSet /\ n.consumer = {h} /\ n.browsers \subseteq browsers
    BY <1>1, <2>2, ListFacts DEF NotificationSet
  <2> HIDE DEF n
  <2>4. /\ notifying' \in [Threads -> NotificationSet] /\ notifying'[c] = n
        /\ \A x \in Threads : x # c => notifying'[x] = notifying[x]
    BY <1>1, <2>1, <2>3
  <2> QED
    BY <1>5, <2>1, <2>2, <2>3, <2>4 DEF Shrunk
<1> QED
  BY <1>3, <1>4, <1>5

\* Every step is one of the queue, or leaves it alone.
LEMMA DispatchIsNext ==
    ASSUME DispatchNext
    PROVE  [Next]_vars
<1>1. ASSUME NEW p \in Publishers, Reserve(p) PROVE [Next]_vars
  BY <1>1 DEF Reserve, Next, Publish
<1>2. ASSUME NEW p \in Publishers, NEW k \in Kinds, Deliver(p, k) PROVE [Next]_vars
  BY <1>2 DEF Deliver, Next, Publish
<1>3. ASSUME NEW t \in Threads, NEW c \in Subscriptions, Notify(t, c) PROVE [Next]_vars
  BY <1>3 DEF Notify
<1>4. ASSUME NEW c \in Subscriptions, DoOutput(c) PROVE [Next]_vars
  BY <1>4 DEF DoOutput
<1>5. ASSUME NEW c \in Subscriptions, Loop(c) PROVE [Next]_vars
  <2>1. GetExpired(c) \/ GetUnwanted(c) \/ GetMessage(c) \/ GetWithoutCredit(c) \/ GetNothing(c)
          \/ UNCHANGED vars
    BY <1>5 DEF Loop, LoopExpired, LoopUnwanted, LoopMessage, LoopWithoutCredit, LoopNothing, LoopFound
  <2> QED
    BY <2>1 DEF Next, Get
<1>6. ASSUME NEW c \in Subscriptions, Session(c) PROVE [Next]_vars
  <2>1. (\E r \in unacked[c] : Dequeue(c, r) \/ Release(c, r)) \/ UNCHANGED vars
    BY <1>6 DEF Session, Flow, Completed, Stop, Cancel, Disable, Accept, Requeue, ReleaseAndTell
  <2> QED
    BY <2>1 DEF Next, Settle
<1>7. ASSUME NEW p \in Publishers, MakeRoom(p) \/ Abort(p) PROVE [Next]_vars
  BY <1>7 DEF MakeRoom, Abort, Next, Publish
<1>8. ASSUME NEW K \in {Kinds, Perishable}, Remove(K) PROVE [Next]_vars
  BY <1>8 DEF Remove, Next, Manage
<1> QED
  BY <1>1, <1>2, <1>3, <1>4, <1>5, <1>6, <1>7, <1>8 DEF DispatchNext

\* The variables of QueueDispatch keep their types.
OwnTypes ==
    /\ listeners \in Seq(Subscriptions) /\ browsers \subseteq Subscriptions
    /\ notifying \in [Threads -> NotificationSet] /\ scheduled \subseteq Subscriptions
    /\ thread \in [Subscriptions -> {"idle", "loop", "found", "cancel", "close"}]
    /\ credit \in [Subscriptions -> 0 .. MaxCredit]
    /\ blocked \in [Subscriptions -> BOOLEAN] /\ enabled \in [Subscriptions -> BOOLEAN]
    /\ subscribed \in [Subscriptions -> BOOLEAN] /\ stopped \in BOOLEAN
    /\ overwritten \subseteq Subscriptions

\* DispatchTypeOK is the type of the queue and of what QueueDispatch adds.
LEMMA TypesOf == DispatchTypeOK <=> TypeOK /\ OwnTypes
BY DEF DispatchTypeOK, OwnTypes

\* Every step keeps the types of what QueueDispatch adds.
LEMMA OwnTypesStep ==
    ASSUME IInv, DispatchTypeOK, ListOK, DispatchNext
    PROVE  OwnTypes'
<1>0. /\ OwnTypes /\ Subscriptions \subseteq Threads /\ Publishers \subseteq Threads
      /\ \A t \in Threads : Told(t) \subseteq Subscriptions
  BY ListFacts, TypesOf DEF OwnTypes, NotificationSet, Told
<1>1. ASSUME UNCHANGED dispatchVars PROVE OwnTypes'
  BY <1>0, <1>1 DEF dispatchVars, OwnTypes
<1>2. ASSUME NEW p \in Publishers, NEW k \in Kinds, Deliver(p, k) PROVE OwnTypes'
  <2>1. p \in Threads /\ populate(p)
    BY <1>0, <1>2 DEF Deliver
  <2>2. listeners' \in Seq(Subscriptions) /\ browsers' \subseteq Subscriptions
          /\ notifying' \in [Threads -> NotificationSet] /\ overwritten' \subseteq Subscriptions
    BY <1>0, <2>1, PopulateFacts DEF Shrunk, OwnTypes
  <2> QED
    BY <1>0, <1>2, <2>2 DEF Deliver, OwnTypes
<1>3. ASSUME NEW t \in Threads, NEW c \in Subscriptions, Notify(t, c) PROVE OwnTypes'
  <2>1. notifying' = [notifying EXCEPT ![t].consumer = @ \ {c}, ![t].browsers = @ \ {c}]
    BY <1>3 DEF Notify
  <2>2. notifying' \in [Threads -> NotificationSet]
    BY <1>0, <2>1 DEF OwnTypes, NotificationSet
  <2>3. scheduled' \subseteq Subscriptions
    BY <1>0, <1>3 DEF Notify, OwnTypes
  <2> QED
    BY <1>0, <1>3, <2>2, <2>3 DEF Notify, OwnTypes
<1>4. ASSUME NEW c \in Subscriptions, DoOutput(c) PROVE OwnTypes'
  <2>1. /\ thread' \in [Subscriptions -> {"idle", "loop", "found", "cancel", "close"}]
        /\ blocked' \in [Subscriptions -> BOOLEAN] /\ scheduled' \subseteq Subscriptions
    BY <1>0, <1>4 DEF DoOutput, OwnTypes
  <2> QED
    BY <1>0, <1>4, <2>1 DEF DoOutput, OwnTypes
<1>5. ASSUME NEW c \in Subscriptions, Loop(c) PROVE OwnTypes'
  <2>0. c \in Threads
    BY <1>0
  <2>1. CASE LoopExpired(c)
    BY <1>1, <2>1 DEF LoopExpired
  <2>2. CASE LoopUnwanted(c)
    <3>1. listeners' \in Seq(Subscriptions) /\ browsers' \subseteq Subscriptions
            /\ notifying' \in [Threads -> NotificationSet] /\ overwritten' \subseteq Subscriptions
      BY <1>0, <2>0, <2>2, PopulateFacts DEF LoopUnwanted, Shrunk, OwnTypes
    <3> QED
      BY <1>0, <2>2, <3>1 DEF LoopUnwanted, OwnTypes
  <2>3. CASE LoopMessage(c)
    <3> DEFINE s == Size[messages[NextFor(c)].kind]
    <3>1. /\ thread' \in [Subscriptions -> {"idle", "loop", "found", "cancel", "close"}]
          /\ blocked' \in [Subscriptions -> BOOLEAN]
      BY <1>0, <2>3 DEF LoopMessage, OwnTypes
    <3>2. s \in Nat \ {0}
      <4>1. NextFor(c) \in DOMAIN messages /\ preAcquires(c) \in BOOLEAN
              /\ messages[NextFor(c)].kind \in Selector[c]
        BY <2>3, NextForFacts DEF IInv, LoopMessage, GetMessage, preAcquires
      <4> QED
        BY <4>1, SubscriptionAssumption, CreditAssumption
    <3>3. credit[c] >= s /\ credit' = [credit EXCEPT ![c] = credit[c] - s]
      BY <2>3 DEF LoopMessage, HasCreditForNext
    <3> HIDE DEF s
    <3>4. credit[c] - s \in 0 .. MaxCredit
      <4>1. credit[c] \in 0 .. MaxCredit /\ MaxCredit \in Nat
        BY <1>0, CreditAssumption DEF OwnTypes
      <4> QED
        BY <3>2, <3>3, <4>1
    <3>5. credit' \in [Subscriptions -> 0 .. MaxCredit]
      BY <1>0, <3>3, <3>4 DEF OwnTypes
    <3> QED
      BY <1>0, <2>3, <3>1, <3>5 DEF LoopMessage, OwnTypes
  <2>4. CASE LoopWithoutCredit(c)
    <3>1. listeners' \in Seq(Subscriptions) /\ browsers' \subseteq Subscriptions
            /\ notifying' \in [Threads -> NotificationSet] /\ overwritten' \subseteq Subscriptions
      BY <1>0, <2>0, <2>4, PopulateFacts DEF LoopWithoutCredit, Shrunk, OwnTypes
    <3>2. /\ thread' \in [Subscriptions -> {"idle", "loop", "found", "cancel", "close"}]
          /\ blocked' \in [Subscriptions -> BOOLEAN]
      BY <1>0, <2>4 DEF LoopWithoutCredit, OwnTypes
    <3> QED
      BY <1>0, <2>4, <3>1, <3>2 DEF LoopWithoutCredit, OwnTypes
  <2>5. CASE LoopNothing(c)
    <3>1. listeners' \in Seq(Subscriptions) /\ browsers' \subseteq Subscriptions
      BY <1>0, <2>5 DEF LoopNothing, addListener, OwnTypes
    <3>2. thread' \in [Subscriptions -> {"idle", "loop", "found", "cancel", "close"}]
      BY <1>0, <2>5 DEF LoopNothing, OwnTypes
    <3> QED
      BY <1>0, <2>5, <3>1, <3>2 DEF LoopNothing, OwnTypes
  <2>6. CASE LoopFound(c)
    <3>2. /\ thread' \in [Subscriptions -> {"idle", "loop", "found", "cancel", "close"}]
          /\ scheduled' \subseteq Subscriptions
      BY <1>0, <2>6 DEF LoopFound, OwnTypes
    <3> QED
      BY <1>0, <2>6, <3>2 DEF LoopFound, OwnTypes
  <2> QED
    BY <1>5, <2>1, <2>2, <2>3, <2>4, <2>5, <2>6 DEF Loop
<1>6. ASSUME NEW c \in Subscriptions, Session(c) PROVE OwnTypes'
  <2>0. c \in Threads /\ credit[c] \in 0 .. MaxCredit /\ MaxCredit \in Nat
    BY <1>0, CreditAssumption DEF OwnTypes
  <2>1. ASSUME NEW n \in Grants, Flow(c, n) PROVE OwnTypes'
    <3>1. credit[c] + n \in 0 .. MaxCredit
      BY <2>0, <2>1, CreditAssumption DEF Flow
    <3>2. /\ credit' \in [Subscriptions -> 0 .. MaxCredit]
          /\ blocked' \in [Subscriptions -> BOOLEAN] /\ scheduled' \subseteq Subscriptions
      BY <1>0, <2>1, <3>1 DEF Flow, OwnTypes
    <3> QED
      BY <1>0, <2>1, <3>2 DEF Flow, OwnTypes
  <2>2. CASE Completed(c)
    BY <1>0, <2>2 DEF Completed, OwnTypes
  <2>3. CASE Stop(c)
    <3>1. credit' \in [Subscriptions -> 0 .. MaxCredit]
      BY <1>0, <2>0, <2>3 DEF Stop, OwnTypes
    <3>2. stopped' \in BOOLEAN
      BY <1>0, <2>3 DEF Stop, OwnTypes
    <3> QED
      BY <1>0, <2>3, <3>1, <3>2 DEF Stop, OwnTypes
  <2>4. CASE Cancel(c)
    <3>1. listeners' \in Seq(Subscriptions) /\ browsers' \subseteq Subscriptions
            /\ notifying' \in [Threads -> NotificationSet]
      BY <1>0, <2>4, RemoveFacts DEF Cancel, OwnTypes
    <3>2. /\ thread' \in [Subscriptions -> {"idle", "loop", "found", "cancel", "close"}]
          /\ subscribed' \in [Subscriptions -> BOOLEAN]
      BY <1>0, <2>4 DEF Cancel, OwnTypes
    <3> QED
      BY <1>0, <2>4, <3>1, <3>2 DEF Cancel, OwnTypes
  <2>5. ASSUME NEW why \in {"cancel", "close"}, Disable(c, why) PROVE OwnTypes'
    <3>1. /\ thread' \in [Subscriptions -> {"idle", "loop", "found", "cancel", "close"}]
          /\ enabled' \in [Subscriptions -> BOOLEAN] /\ scheduled' \subseteq Subscriptions
      BY <1>0, <2>5 DEF Disable, OwnTypes
    <3> QED
      BY <1>0, <2>5, <3>1 DEF Disable, OwnTypes
  <2>6. ASSUME NEW r \in unacked[c], Accept(c, r) PROVE OwnTypes'
    BY <1>1, <2>6 DEF Accept
  <2>7. ASSUME NEW r \in unacked[c], Requeue(c, r) PROVE OwnTypes'
    <3>1. listeners' \in Seq(Subscriptions) /\ browsers' \subseteq Subscriptions
            /\ notifying' \in [Threads -> NotificationSet] /\ overwritten' \subseteq Subscriptions
      BY <1>0, <2>0, <2>7, PopulateFacts DEF Requeue, ReleaseAndTell, Shrunk, OwnTypes
    <3> QED
      BY <1>0, <2>7, <3>1 DEF Requeue, ReleaseAndTell, OwnTypes
  <2> QED
    BY <1>6, <2>1, <2>2, <2>3, <2>4, <2>5, <2>6, <2>7 DEF Session
<1> QED
  BY <1>1, <1>2, <1>3, <1>4, <1>5, <1>6 DEF DispatchNext, Reserve, MakeRoom, Abort, Remove

----------------------------------------------------------------------------
(* Where the subscriptions are after a step                                *)

\* What EnabledOK and OnePlace say of one subscription.
Place(c) ==
    /\ enabled[c] <=> subscribed[c] /\ thread[c] \notin {"cancel", "close"}
    /\ thread[c] # "idle" => subscribed[c]
    /\ c \in scheduled => enabled[c]
    /\ c \in Consumers =>
          /\ c \in Listed => ~IsTold(c) /\ c \notin scheduled
          /\ c \in scheduled => thread[c] = "idle" /\ ~IsTold(c)
          /\ thread[c] \in {"loop", "found"} => c \notin Listed /\ ~IsTold(c)
          /\ blocked[c] => /\ c \notin Listed \cup scheduled
                           /\ thread[c] \notin {"loop", "found"} /\ ~IsTold(c)

Funded(c) == c \in Listed \/ Looping(c) \/ IsTold(c) => credit[c] >= 1

\* What a step does not touch of x.
Alone(x) ==
    /\ thread'[x] = thread[x] /\ credit'[x] = credit[x] /\ blocked'[x] = blocked[x]
    /\ enabled'[x] = enabled[x] /\ subscribed'[x] = subscribed[x]
    /\ x \in scheduled' <=> x \in scheduled

\* Tokens and credit, subscription by subscription.
LEMMA PlaceFacts ==
    /\ \A c \in Consumers : c \in Subscriptions
    /\ EnabledOK /\ OnePlace <=> \A c \in Subscriptions : Place(c)
    /\ CreditOK <=> \A c \in Consumers : Funded(c)
BY DEF Consumers, EnabledOK, OnePlace, Place, CreditOK, Funded

\* Thread t leaves notifications out, or names the consumer it takes off the list.
LEMMA ListStep ==
    ASSUME DispatchTypeOK, Tokens, NEW R, Shrunk(R), NEW t,
           notifying' \in [Threads -> NotificationSet],
           \A u \in Threads : u # t => notifying'[u] = notifying[u],
           t \in Threads => /\ notifying'[t].browsers \cap Consumers = {}
                            /\ \/ notifying'[t].consumer \subseteq Told(t)
                               \/ \E h \in Listed \cap R : notifying'[t].consumer = {h},
           browsers' \cap Consumers = {},
           \A p \in Publishers : pc'[p] = "push" => notifying'[p] = NoNotification,
           \A x \in Listed \ R : subscribed'[x]
    PROVE  /\ ListOK' /\ ToldOK' /\ Listed' = Listed \ R
           /\ \A x : IsTold(x)' => IsTold(x) \/ x \in Listed \cap R
<1>1. ListOK /\ ToldOK /\ OnePlace
  BY DEF Tokens
<1>2. Listed' = Listed \ R /\ Distinct(listeners')
  BY DEF Shrunk
<1>3. ListOK'
  BY <1>1, <1>2 DEF ListOK, Distinct, Consumers
<1>4. \A u \in Threads : u # t => Told(u)' = Told(u)
  BY DEF Told
<1>5. t \in Threads => Told(t)' \subseteq Told(t) \/ \E h \in Listed \cap R : Told(t)' = {h}
  BY DEF Told
<1>6. \A u \in Threads : Told(u)' \subseteq Consumers /\ \A c, d \in Told(u)' : c = d
  BY <1>1, <1>4, <1>5, ListFacts DEF ToldOK
<1>7. \A u \in Threads : notifying'[u].browsers \cap Consumers = {}
  BY <1>1 DEF ToldOK
<1>8. ASSUME NEW x \in Threads, NEW u \in Threads, NEW c \in Told(x)', c \in Told(u)'
      PROVE  x = u
  <2>1. \A y \in Threads : c \in Told(y) => c \notin Listed
    BY <1>1 DEF OnePlace, IsTold, ToldOK
  <2>2. \A y, z \in Threads : c \in Told(y) /\ c \in Told(z) => y = z
    BY <1>1 DEF ToldOK
  <2> QED
    BY <1>4, <1>5, <1>8, <2>1, <2>2
<1>9. ToldOK'
  BY <1>6, <1>7, <1>8 DEF ToldOK, Free, Consumers, Threads
<1>10. \A x : IsTold(x)' => IsTold(x) \/ x \in Listed \cap R
  BY <1>4, <1>5 DEF IsTold
<1> QED
  BY <1>2, <1>3, <1>9, <1>10

\* The subscriptions that a step leaves alone are where they were.
LEMMA PlaceStep ==
    ASSUME DispatchTypeOK, Tokens, NEW R, NEW c, ListOK', ToldOK', Listed' = Listed \ R,
           \A x : IsTold(x)' => IsTold(x) \/ x \in Listed \cap R,
           \A x \in Subscriptions : x # c => Alone(x),
           c \in Subscriptions => Place(c)'
    PROVE  /\ Tokens'
           /\ CreditOK /\ (c \in Consumers => Funded(c)') => CreditOK'
<1>1. \A x \in Subscriptions : Place(x)
  BY PlaceFacts DEF Tokens
<1>2. ASSUME NEW x \in Subscriptions, x # c PROVE Place(x)'
  BY <1>1, <1>2 DEF Place, Alone, Consumers, preAcquires
<1>3. EnabledOK' /\ OnePlace'
  <2>1. \A x \in Subscriptions : Place(x)'
    BY <1>2
  <2> QED
    BY <2>1 DEF EnabledOK, OnePlace, Place, Consumers
<1>4. ASSUME CreditOK, c \in Consumers => Funded(c)' PROVE CreditOK'
  <2>1. ASSUME NEW x \in Consumers, x # c PROVE Funded(x)'
    <3>1. Funded(x) /\ Alone(x)
      BY <1>4, <2>1, PlaceFacts
    <3> QED
      BY <3>1 DEF Funded, Alone, Looping
  <2>2. \A x \in Consumers : Funded(x)'
    BY <1>4, <2>1
  <2> QED
    BY <2>2 DEF CreditOK, Funded, Consumers
<1> QED
  BY <1>3, <1>4 DEF Tokens

----------------------------------------------------------------------------
(* Steps that neither tell anybody nor change the list                     *)

\* c goes on with what it has in hand; nobody it has told gets out of sight.
LEMMA KeptStep ==
    ASSUME DispatchInv, NEW c,
           listeners' = listeners, notifying' = notifying, browsers' \cap Consumers = {},
           \A p \in Publishers : pc'[p] = "push" => Free(p),
           Fewer(Consumers), stopped => stopped',
           \A x \in Subscriptions : x # c => Alone(x),
           c \in Subscriptions => /\ subscribed'[c] = subscribed[c] /\ Place(c)'
                                  /\ Looping(c)' => Looping(c) \/ Told(c) = {},
           c \in Consumers =>
               /\ Looping(c) => Looping(c)' \/ Told(c) = {}
               /\ ~stopped' /\ Carrier(c) =>
                     /\ credit'[c] >= 1
                     /\ c \in scheduled' \/ thread'[c] \in {"loop", "cancel", "close"} \/ IsTold(c)
               /\ ~stopped' /\ Funded(c) => Funded(c)'
    PROVE  Account'
<1>1. DispatchTypeOK /\ IInv /\ Tokens /\ SeenInOrder /\ ListOK /\ ToldOK
  BY DEF DispatchInv, Account, Tokens
<1>2. Shrunk({})
  BY <1>1, ShrunkSame
<1>3. \A t \in Threads : notifying[t].browsers \cap Consumers = {}
  BY <1>1 DEF ToldOK
<1>4. /\ ListOK' /\ ToldOK' /\ Listed' = Listed
      /\ \A x : IsTold(x)' <=> IsTold(x)
  <2>1. \A x \in Listed : subscribed'[x]
    <3> TAKE x \in Listed
    <3>1. subscribed[x] /\ x \in Subscriptions
      BY <1>1, ListFacts DEF ListOK
    <3> QED
      BY <3>1 DEF Alone
  <2>2. ListOK' /\ ToldOK'
    <3>1. ListOK'
      BY <1>1, <2>1 DEF ListOK, Listed, Consumers
    <3>2. ToldOK'
      BY <1>1 DEF ToldOK, Told, Free, Consumers, Threads
    <3> QED
      BY <3>1, <3>2
  <2> QED
    BY <2>2 DEF Listed, IsTold, Told
<1>5. Tokens' /\ (CreditOK /\ (c \in Consumers => Funded(c)') => CreditOK')
  <2>1. Listed' = Listed \ {} /\ \A x : IsTold(x)' => IsTold(x) \/ x \in Listed \cap {}
    BY <1>4
  <2> HIDE DEF Tokens
  <2> QED
    BY <1>1, <1>4, <2>1, PlaceStep
<1>6. SeenInOrder'
  <2>1. listeners' = << >> => SeenInOrder'
    BY DEF SeenInOrder
  <2>2. Fewer(Listed)
    BY <1>1, ListFacts DEF Fewer
  <2> QED
    BY <1>1, <1>2, <2>1, <2>2, FirstShrunk
<1>7. ASSUME ~stopped' PROVE CreditOK' /\ Served'
  <2>1. ~stopped /\ CreditOK /\ Served
    BY <1>7 DEF DispatchInv, Account
  <2>2. CreditOK'
    BY <1>5, <1>7, <2>1, PlaceFacts
  <2>3. ASSUME NEW y \in Consumers, Carrier(y) PROVE Carrier(y)' /\ Cover(y)' = Cover(y)
    <3>1. \A t \in Threads : Told(t)' = Told(t)
      BY DEF Told
    <3>2. \A x \in Subscriptions : subscribed'[x] = subscribed[x]
      BY DEF Alone
    <3>3. y \in Subscriptions /\ y \in Threads
      BY <1>1, ListFacts
    <3>4. \A x \in Subscriptions : Looping(x)' => Looping(x) \/ Told(x) = {}
      BY DEF Alone, Looping
    <3>5. Looping(y) => Looping(y)' \/ Told(y) = {}
      BY <3>3 DEF Alone, Looping
    <3>6. /\ credit'[y] >= 1
          /\ y \in scheduled' \/ thread'[y] \in {"loop", "cancel", "close"} \/ IsTold(y)
      <4>1. CASE y = c
        BY <1>7, <2>3, <4>1
      <4>2. CASE y # c
        BY <2>3, <3>3, <4>2 DEF Alone, Carrier
      <4> QED
        BY <4>1, <4>2
    <3>7. Carrier(y)'
      <4>1. y \in Consumers /\ y \notin Listed /\ subscribed[y]
            /\ \A x \in Subscriptions : y \in Told(x) => ~Looping(x)
        BY <2>3 DEF Carrier
      <4>2. Consumers' = Consumers
        BY DEF Consumers, preAcquires
      <4>3. \A x \in Subscriptions : y \in Told(x)' => ~Looping(x)'
        BY <3>1, <3>4, <4>1 DEF Threads
      <4> QED
        BY <1>4, <3>2, <3>3, <3>6, <4>1, <4>2, <4>3 DEF Carrier
    <3>8. Cover(y)' = Cover(y)
      <4>1. \A a \in Told(y) : a \in Subscriptions
        BY <1>1, <3>3 DEF ToldOK, Consumers
      <4>2. Told(y)' = Told(y)
        BY <3>1, <3>3
      <4>3. {a \in Told(y) : Looping(y)' /\ subscribed'[a]} = {a \in Told(y) : Looping(y) /\ subscribed[a]}
        BY <3>2, <3>3, <3>4, <3>5, <4>1
      <4> QED
        BY <4>2, <4>3 DEF Cover
    <3> QED
      BY <3>7, <3>8
  <2>4. Served'
    BY <1>1, <2>1, <2>3, Kept
  <2> QED
    BY <2>2, <2>4
<1> QED
  BY <1>5, <1>6, <1>7 DEF Account

\* What the steps of subscription c start from.
LEMMA StartFacts ==
    ASSUME DispatchInv
    PROVE  /\ IInv /\ DispatchTypeOK /\ Tokens /\ SeenInOrder /\ ListOK /\ ToldOK
           /\ ~stopped => CreditOK /\ Served
           /\ \A c \in Subscriptions : Place(c) /\ c \in Threads
           /\ \A t \in Threads : Told(t) \subseteq Consumers /\ (Free(t) => Told(t) = {})
           /\ \A p \in Publishers : pc[p] = "push" => Free(p)
           /\ browsers \cap Consumers = {}
BY PlaceFacts, ListFacts DEF DispatchInv, Account, Tokens, ToldOK, ListOK, Free, Told, NoNotification

\* A step of the queue that is none of the cursors.
LEMMA CursorsStay ==
    ASSUME Waiting' \subseteq Waiting, version' = version, cursor' = cursor
    PROVE  Fewer(Consumers)
BY FewerWaiting

\* A step of the queue that tells nobody, adds no message and moves no cursor
\* but for what it shows.
LEMMA QueueOnlyStep ==
    ASSUME DispatchInv, UNCHANGED dispatchVars, Fewer(Consumers),
           \A p \in Publishers : pc'[p] = "push" => Free(p)
    PROVE  Account'
<1>1. /\ listeners' = listeners /\ browsers' = browsers /\ notifying' = notifying
      /\ stopped' = stopped /\ enabled' = enabled /\ scheduled' = scheduled
      /\ thread' = thread /\ subscribed' = subscribed /\ blocked' = blocked
      /\ credit' = credit
  BY DEF dispatchVars
<1>2. \A x \in Subscriptions : Alone(x)
  BY <1>1 DEF Alone
<1> PICK c : TRUE
  OBVIOUS
<1>3. Listed' = Listed /\ IsTold(c)' = IsTold(c) /\ Consumers' = Consumers
  BY <1>1 DEF Listed, IsTold, Told, Consumers, preAcquires
<1>4. /\ c \in Subscriptions => Place(c)'
      /\ Funded(c) => Funded(c)'
      /\ c \in Consumers /\ Carrier(c) =>
           /\ credit'[c] >= 1
           /\ c \in scheduled' \/ thread'[c] \in {"loop", "cancel", "close"} \/ IsTold(c)
      /\ Looping(c)' <=> Looping(c)
  BY <1>1, <1>3, StartFacts DEF Place, Funded, Looping, Carrier
<1> QED
  BY <1>1, <1>2, <1>4, StartFacts, KeptStep

\* Nobody else's place in pc is touched by a step of publisher p.
LEMMA StillFree ==
    ASSUME DispatchInv, NEW p \in Publishers, Free(p), NEW v, pc' = [pc EXCEPT ![p] = v]
    PROVE  \A q \in Publishers : pc'[q] = "push" => Free(q)
<1>1. pc \in [Publishers -> {"idle", "check", "purge", "give up", "push"}]
  BY StartFacts DEF DispatchTypeOK, TypeOK
<1> QED
  BY <1>1, StartFacts

\* A publisher reserves room, or gives it back.
LEMMA ReserveStep ==
    ASSUME DispatchInv, NEW p \in Publishers, Reserve(p) \/ Abort(p)
    PROVE  Account'
<1>1. /\ UNCHANGED dispatchVars /\ Free(p) /\ UNCHANGED <<messages, version, cursor>>
      /\ \E v : pc' = [pc EXCEPT ![p] = v]
  BY DEF Reserve, CheckDepth, Abort, EnqueueAborted
<1>2. Fewer(Consumers)
  <2>1. Waiting' = Waiting
    BY <1>1 DEF Waiting, Contents
  <2> QED
    BY <1>1, <2>1, CursorsStay
<1> QED
  BY <1>1, <1>2, StillFree, QueueOnlyStep

\* A ring purges its oldest message, or gives up.
LEMMA MakeRoomStep ==
    ASSUME DispatchInv, NEW p \in Publishers, MakeRoom(p)
    PROVE  Account'
<1>1. /\ UNCHANGED dispatchVars /\ Free(p) /\ version' = version /\ cursor' = cursor
      /\ \E v : pc' = [pc EXCEPT ![p] = v]
  BY DEF MakeRoom, RingPurge, RingGiveUp
<1>2. Waiting' \subseteq Waiting
  <2> DEFINE k == next(messages, version, NewCursor("PURGE"))
  <2>1. \/ messages' = messages
        \/ k # 0 /\ messages' = deleted(messages, messages[k].sequence)
    BY DEF MakeRoom, RingPurge, RingGiveUp
  <2>2. CASE messages' = messages
    BY <2>2 DEF Waiting, Contents
  <2>3. CASE k # 0 /\ messages' = deleted(messages, messages[k].sequence)
    <3>1. NewCursor("PURGE") \in QueueCursor
      BY DEF NewCursor, QueueCursor, SubscriptionTypes
    <3>2. k \in DOMAIN messages
      BY <2>3, <3>1, StartFacts, SoundFacts, NextProperties DEF IInv
    <3>3. messages[k].sequence \in Int
      BY <3>2, StartFacts, SoundFacts DEF IInv
    <3> QED
      BY <2>3, <3>3, StartFacts, DeletedWaiting DEF Without
  <2> QED
    BY <2>1, <2>2, <2>3
<1>3. Fewer(Consumers)
  BY <1>1, <1>2, CursorsStay
<1> QED
  BY <1>1, <1>3, StillFree, QueueOnlyStep

\* Management removes a message.
LEMMA RemoveStep ==
    ASSUME DispatchInv, NEW K \in {Kinds, Perishable}, Remove(K)
    PROVE  Account'
<1> DEFINE matching == {i \in available(messages) : messages[i].kind \in K}
<1>1. /\ UNCHANGED dispatchVars /\ version' = version /\ cursor' = cursor /\ pc' = pc
      /\ matching # {} /\ messages' = deleted(messages, messages[Min(matching)].sequence)
  BY DEF Remove, RemoveOne
<1>2. messages[Min(matching)].sequence \in Int
  <2>1. matching \subseteq DOMAIN messages /\ DOMAIN messages \subseteq Nat
    BY StartFacts, SoundFacts, DequeProperties DEF IInv, available
  <2> HIDE DEF matching
  <2> QED
    BY <1>1, <2>1, MinOfNats, StartFacts, SoundFacts DEF IInv
<1> HIDE DEF matching
<1>3. Waiting' \subseteq Waiting
  BY <1>1, <1>2, StartFacts, DeletedWaiting DEF Without
<1>4. Fewer(Consumers)
  BY <1>1, <1>3, CursorsStay
<1>5. \A p \in Publishers : pc'[p] = "push" => Free(p)
  BY <1>1, StartFacts
<1> QED
  BY <1>1, <1>4, <1>5, QueueOnlyStep

\* A step of c that leaves the queue alone and touches nobody else.
LEMMA OwnStep ==
    ASSUME DispatchInv, NEW c \in Subscriptions, UNCHANGED vars,
           listeners' = listeners, browsers' = browsers, notifying' = notifying,
           stopped => stopped', \A x \in Subscriptions : x # c => Alone(x),
           subscribed'[c] = subscribed[c], Place(c)',
           Looping(c)' => Looping(c) \/ Told(c) = {},
           c \in Consumers =>
               /\ Looping(c) => Looping(c)' \/ Told(c) = {}
               /\ ~stopped' /\ Carrier(c) =>
                     /\ credit'[c] >= 1
                     /\ c \in scheduled' \/ thread'[c] \in {"loop", "cancel", "close"} \/ IsTold(c)
               /\ ~stopped' /\ Funded(c) => Funded(c)'
    PROVE  Account'
<1>1. Fewer(Consumers)
  BY SameWaiting, CursorsStay DEF vars
<1>2. \A p \in Publishers : pc'[p] = "push" => Free(p)
  BY StartFacts DEF vars
<1>3. browsers' \cap Consumers = {}
  BY StartFacts
<1> QED
  BY <1>1, <1>2, <1>3, KeptStep

\* The output task of c runs: it goes to the queue, or waits for credit.
LEMMA DoOutputStep ==
    ASSUME DispatchInv, NEW c \in Subscriptions, DoOutput(c)
    PROVE  Account'
<1>1. /\ listeners' = listeners /\ browsers' = browsers /\ notifying' = notifying
      /\ UNCHANGED vars /\ stopped' = stopped /\ enabled' = enabled
      /\ credit' = credit /\ subscribed' = subscribed
      /\ scheduled' = scheduled \ {c} /\ c \in scheduled /\ thread[c] = "idle" /\ Free(c)
  BY DEF DoOutput, Ready
<1>2. /\ \/ credit[c] >= 1 /\ thread'[c] = "loop" /\ blocked'[c] = blocked[c]
         \/ ~(credit[c] >= 1) /\ thread'[c] = "idle" /\ blocked'[c] = TRUE
      /\ \A x \in Subscriptions : x # c => Alone(x)
  BY <1>1, StartFacts DEF DispatchTypeOK, DoOutput, haveCredit, Alone
<1>3. Place(c) /\ enabled[c] /\ subscribed[c] /\ Told(c) = {}
  BY <1>1, StartFacts DEF Place
<1>4. Listed' = Listed /\ IsTold(c)' = IsTold(c) /\ Consumers' = Consumers
  BY <1>1 DEF Listed, IsTold, Told, Consumers, preAcquires
<1>5. Place(c)'
  BY <1>1, <1>2, <1>3, <1>4 DEF Place
<1>6. c \in Consumers => /\ Carrier(c) => credit'[c] >= 1 /\ thread'[c] = "loop"
                         /\ Funded(c)'
  BY <1>1, <1>2, <1>3, <1>4 DEF Place, Funded, Carrier, Looping
<1> QED
  BY <1>1, <1>2, <1>3, <1>5, <1>6, OwnStep DEF Looping

\* c goes to the back of the line of output tasks.
LEMMA LoopFoundStep ==
    ASSUME DispatchInv, NEW c \in Subscriptions, LoopFound(c)
    PROVE  Account'
<1>1. /\ listeners' = listeners /\ browsers' = browsers /\ notifying' = notifying
      /\ UNCHANGED vars /\ stopped' = stopped /\ enabled' = enabled
      /\ credit' = credit /\ subscribed' = subscribed /\ blocked' = blocked
      /\ scheduled' = scheduled \cup {c} /\ thread[c] = "found" /\ Free(c)
  BY DEF LoopFound
<1>2. thread'[c] = "idle" /\ \A x \in Subscriptions : x # c => Alone(x)
  BY <1>1, StartFacts DEF DispatchTypeOK, LoopFound, Alone
<1>3. Place(c) /\ enabled[c] /\ subscribed[c] /\ Told(c) = {}
  BY <1>1, StartFacts DEF Place
<1>4. Listed' = Listed /\ IsTold(c)' = IsTold(c) /\ Consumers' = Consumers
  BY <1>1 DEF Listed, IsTold, Told, Consumers, preAcquires
<1>5. Place(c)'
  BY <1>1, <1>2, <1>3, <1>4 DEF Place
<1>6. c \in Consumers => /\ Carrier(c) => credit'[c] >= 1 /\ c \in scheduled'
                         /\ Funded(c)'
  BY <1>1, <1>2, <1>3, <1>4 DEF Place, Funded, Carrier, Looping
<1> QED
  BY <1>1, <1>2, <1>3, <1>5, <1>6, OwnStep DEF Looping

\* c is granted credit: it has some, and what was blocked is scheduled.
LEMMA FlowStep ==
    ASSUME DispatchInv, NEW c \in Subscriptions, NEW n \in Grants, Flow(c, n)
    PROVE  Account'
<1>1. /\ listeners' = listeners /\ browsers' = browsers /\ notifying' = notifying
      /\ UNCHANGED vars /\ stopped' = stopped /\ enabled' = enabled
      /\ thread' = thread /\ subscribed' = subscribed
      /\ thread[c] = "idle" /\ Free(c) /\ subscribed[c]
      /\ scheduled' = IF blocked[c] THEN scheduled \cup {c} ELSE scheduled
  BY DEF Flow, Ready
<1>2. /\ blocked'[c] = FALSE /\ credit'[c] >= 1
      /\ \A x \in Subscriptions : x # c => Alone(x)
  <2>1. credit[c] \in Nat /\ n \in Nat /\ n >= 1
    BY StartFacts, CreditAssumption DEF DispatchTypeOK
  <2> QED
    BY <1>1, <2>1, StartFacts DEF DispatchTypeOK, Flow, Alone
<1>3. Place(c) /\ enabled[c] /\ Told(c) = {}
  BY <1>1, StartFacts DEF Place
<1>4. Listed' = Listed /\ IsTold(c)' = IsTold(c) /\ Consumers' = Consumers
  BY <1>1 DEF Listed, IsTold, Told, Consumers, preAcquires
<1>5. Place(c)'
  BY <1>1, <1>2, <1>3, <1>4 DEF Place
<1>6. c \in Consumers =>
         /\ (Carrier(c) =>
                /\ credit'[c] >= 1
                /\ c \in scheduled' \/ thread'[c] \in {"loop", "cancel", "close"} \/ IsTold(c))
         /\ Funded(c)'
  BY <1>1, <1>2, <1>3, <1>4 DEF Place, Funded, Carrier, Looping
<1> QED
  BY <1>1, <1>2, <1>3, <1>5, <1>6, OwnStep DEF Looping

\* c is scheduled again after a completion.
LEMMA CompletedStep ==
    ASSUME DispatchInv, NEW c \in Subscriptions, Completed(c)
    PROVE  Account'
<1>1. /\ listeners' = listeners /\ browsers' = browsers /\ notifying' = notifying
      /\ UNCHANGED vars /\ stopped' = stopped /\ enabled' = enabled
      /\ thread' = thread /\ subscribed' = subscribed /\ credit' = credit
      /\ thread[c] = "idle" /\ Free(c) /\ subscribed[c] /\ blocked[c]
      /\ scheduled' = scheduled \cup {c}
  BY DEF Completed, Ready
<1>2. /\ blocked'[c] = FALSE
      /\ \A x \in Subscriptions : x # c => Alone(x)
  BY <1>1, StartFacts DEF DispatchTypeOK, Completed, Alone
<1>3. Place(c) /\ enabled[c] /\ Told(c) = {}
  BY <1>1, StartFacts DEF Place
<1>4. Listed' = Listed /\ IsTold(c)' = IsTold(c) /\ Consumers' = Consumers
  BY <1>1 DEF Listed, IsTold, Told, Consumers, preAcquires
<1>5. Place(c)'
  BY <1>1, <1>2, <1>3, <1>4 DEF Place
<1>6. c \in Consumers => /\ Carrier(c) => credit'[c] >= 1 /\ c \in scheduled'
                         /\ Funded(c)'
  BY <1>1, <1>2, <1>3, <1>4 DEF Place, Funded, Carrier, Looping
<1> QED
  BY <1>1, <1>2, <1>3, <1>5, <1>6, OwnStep DEF Looping

\* message.stop leaves c without credit, which matters only if c was not waiting
\* for credit; and then stopped says so.
LEMMA StopStep ==
    ASSUME DispatchInv, NEW c \in Subscriptions, Stop(c)
    PROVE  Account'
<1>1. /\ listeners' = listeners /\ browsers' = browsers /\ notifying' = notifying
      /\ UNCHANGED vars /\ (stopped' <=> stopped \/ ~blocked[c]) /\ enabled' = enabled
      /\ thread' = thread /\ subscribed' = subscribed /\ blocked' = blocked
      /\ thread[c] = "idle" /\ Free(c) /\ subscribed[c] /\ scheduled' = scheduled
  BY DEF Stop, Ready
<1>2. \A x \in Subscriptions : x # c => Alone(x)
  BY <1>1, StartFacts DEF DispatchTypeOK, Stop, Alone
<1>3. Place(c) /\ Told(c) = {}
  BY <1>1, StartFacts
<1>4. Listed' = Listed /\ IsTold(c)' = IsTold(c) /\ Consumers' = Consumers
  BY <1>1 DEF Listed, IsTold, Told, Consumers, preAcquires
<1>5. Place(c)'
  BY <1>1, <1>3, <1>4 DEF Place
<1>6. c \in Consumers /\ ~stopped' => ~Carrier(c) /\ Funded(c)'
  BY <1>1, <1>3, <1>4 DEF Place, Funded, Carrier, Looping
<1> QED
  BY <1>1, <1>2, <1>3, <1>5, <1>6, OwnStep DEF Looping

\* c takes no notifications any more, and has yet to leave the list.
LEMMA DisableStep ==
    ASSUME DispatchInv, NEW c \in Subscriptions, NEW why \in {"cancel", "close"}, Disable(c, why)
    PROVE  Account'
<1>1. /\ listeners' = listeners /\ browsers' = browsers /\ notifying' = notifying
      /\ UNCHANGED vars /\ stopped' = stopped /\ scheduled' = scheduled \ {c}
      /\ credit' = credit /\ subscribed' = subscribed /\ blocked' = blocked
      /\ thread[c] = "idle" /\ Free(c) /\ subscribed[c]
  BY DEF Disable, Ready
<1>2. /\ thread'[c] = why /\ enabled'[c] = FALSE
      /\ \A x \in Subscriptions : x # c => Alone(x)
  BY <1>1, StartFacts DEF DispatchTypeOK, Disable, Alone
<1>3. Place(c) /\ Told(c) = {}
  BY <1>1, StartFacts
<1>4. Listed' = Listed /\ IsTold(c)' = IsTold(c) /\ Consumers' = Consumers
  BY <1>1 DEF Listed, IsTold, Told, Consumers, preAcquires
<1>5. Place(c)'
  BY <1>1, <1>2, <1>3, <1>4 DEF Place
<1>6. c \in Consumers => /\ Carrier(c) => credit'[c] >= 1 /\ thread'[c] \in {"loop", "cancel", "close"}
                         /\ Funded(c) => Funded(c)'
  BY <1>1, <1>2, <1>3, <1>4 DEF Place, Funded, Carrier, Looping
<1> QED
  BY <1>1, <1>2, <1>3, <1>5, <1>6, OwnStep DEF Looping

\* A record of c is settled; its message may be off the queue.
LEMMA AcceptStep ==
    ASSUME DispatchInv, NEW c \in Subscriptions, NEW r \in unacked[c], Accept(c, r)
    PROVE  Account'
<1>1. Dequeue(c, r) /\ UNCHANGED dispatchVars
  BY DEF Accept
<1>2. Fewer(Consumers)
  <2>1. Waiting' \subseteq Waiting
    <3>1. CASE messages' = deleted(messages, r.position)
      <4>1. r.position \in Int
        <5>1. r.position \in Nat
          BY StartFacts, SoundFacts DEF IInv
        <5> QED
          BY <5>1
      <4> QED
        BY <3>1, <4>1, StartFacts, DeletedWaiting DEF Without
    <3>2. CASE messages' = messages
      BY <3>2 DEF Waiting, Contents
    <3> QED
      BY <1>1, <3>1, <3>2 DEF Dequeue
  <2>2. version' = version /\ cursor' = cursor
    BY <1>1 DEF Dequeue
  <2> QED
    BY <2>1, <2>2, CursorsStay
<1>3. \A p \in Publishers : pc'[p] = "push" => Free(p)
  BY <1>1, StartFacts DEF Dequeue
<1> QED
  BY <1>1, <1>2, <1>3, QueueOnlyStep

\* The message c is shown has expired.
LEMMA LoopExpiredStep ==
    ASSUME DispatchInv, NEW c \in Subscriptions, LoopExpired(c)
    PROVE  Account'
<1>1. GetExpired(c) /\ UNCHANGED dispatchVars
  BY DEF LoopExpired
<1>2. Fewer(Consumers)
  <2> DEFINE m == messages[NextFor(c)]
  <2>1. messages' = deleted(messages, m.sequence) /\ Advance(c) /\ version' = version /\ NextFor(c) # 0
    BY <1>1 DEF GetExpired
  <2>2. m.sequence \in Int
    <3>1. /\ messages \in Seq(Message) /\ Consecutive(messages) /\ version \in Nat
          /\ cursor[c] \in QueueCursor /\ \A i \in DOMAIN messages : messages[i].sequence \in Nat
      BY StartFacts, SoundFacts DEF IInv
    <3>2. NextFor(c) \in DOMAIN messages
      BY <2>1, <3>1, NextProperties DEF NextFor
    <3>3. m.sequence \in Nat
      BY <3>1, <3>2
    <3> QED
      BY <3>3
  <2>3. Waiting' = Without(Waiting, m.sequence)
    BY <2>1, <2>2, StartFacts, DeletedWaiting
  <2>4. Waiting' \subseteq Waiting /\ m \notin Waiting'
    BY <2>3 DEF Without
  <2>5. CASE c \in Consumers
    <3>1. Fewer(Consumers \ {c})
      BY <2>1, <2>4, <2>5, StartFacts, LookWaiting
    <3>2. Unseen(c)' = (Unseen(c) \ {m}) \cap Waiting'
      BY <2>1, <2>4, <2>5, StartFacts, LookWaiting
    <3> QED
      BY <2>4, <3>1, <3>2 DEF Fewer
  <2>6. CASE c \notin Consumers
    <3>1. cursor \in [Subscriptions -> QueueCursor]
      BY StartFacts DEF DispatchTypeOK, TypeOK
    <3>2. \A d \in Consumers : cursor'[d] = cursor[d]
      BY <2>1, <2>6, <3>1 DEF Advance, Consumers
    <3> QED
      BY <2>1, <2>4, <3>2, FewerWaiting
  <2> QED
    BY <2>5, <2>6
<1>3. \A p \in Publishers : pc'[p] = "push" => Free(p)
  BY <1>1, StartFacts DEF GetExpired
<1> QED
  BY <1>1, <1>2, <1>3, QueueOnlyStep

\* A subscription that does not acquire looks at the queue.
LEMMA BrowserStep ==
    ASSUME DispatchInv, NEW c \in Subscriptions, c \notin Consumers, Looping(c),
           messages' = messages, version' = version, pc' = pc,
           \A d \in Consumers : cursor'[d] = cursor[d],
           listeners' = listeners, notifying' = notifying, browsers' \subseteq browsers \cup {c},
           stopped' = stopped, scheduled' = scheduled, enabled' = enabled, subscribed' = subscribed,
           thread'[c] \in {"idle", "loop", "found"},
           \A x \in Subscriptions : x # c =>
               thread'[x] = thread[x] /\ credit'[x] = credit[x] /\ blocked'[x] = blocked[x]
    PROVE  Account'
<1>1. Waiting' = Waiting
  BY DEF Waiting, Contents
<1>2. Fewer(Consumers)
  BY <1>1, FewerWaiting
<1>3. \A x \in Subscriptions : x # c => Alone(x)
  BY DEF Alone
<1>4. Place(c)'
  <2>1. Place(c) /\ Consumers' = Consumers
    BY StartFacts DEF Consumers, preAcquires
  <2> QED
    BY <2>1 DEF Place, Looping
<1> QED
  BY <1>2, <1>3, <1>4, StartFacts, KeptStep

\* The iterations of a subscription that does not acquire.
LEMMA BrowserLoops ==
    ASSUME DispatchInv, NEW c \in Subscriptions, c \notin Consumers,
           LoopUnwanted(c) \/ LoopMessage(c) \/ LoopWithoutCredit(c) \/ LoopNothing(c)
    PROVE  Account'
<1>1. ~preAcquires(c)
  BY DEF Consumers
<1>2. /\ Looping(c) /\ messages' = messages /\ version' = version /\ pc' = pc
      /\ listeners' = listeners /\ notifying' = notifying /\ browsers' \subseteq browsers \cup {c}
      /\ stopped' = stopped /\ scheduled' = scheduled /\ enabled' = enabled /\ subscribed' = subscribed
  BY <1>1 DEF LoopUnwanted, LoopMessage, LoopWithoutCredit, LoopNothing, GetUnwanted, GetMessage,
              GetWithoutCredit, GetNothing, vars, addListener, Looping
<1>3. \A d \in Consumers : cursor'[d] = cursor[d]
  <2>1. cursor' = cursor \/ Advance(c)
    BY DEF LoopUnwanted, LoopMessage, LoopWithoutCredit, LoopNothing, GetUnwanted, GetMessage,
           GetWithoutCredit, GetNothing, vars
  <2>2. cursor \in [Subscriptions -> QueueCursor]
    BY StartFacts DEF DispatchTypeOK, TypeOK
  <2> QED
    BY <2>1, <2>2 DEF Advance, Consumers
<1>4. /\ thread'[c] \in {"idle", "loop", "found"}
      /\ \A x \in Subscriptions : x # c =>
             thread'[x] = thread[x] /\ credit'[x] = credit[x] /\ blocked'[x] = blocked[x]
  <2>1. /\ thread \in [Subscriptions -> {"idle", "loop", "found", "cancel", "close"}]
        /\ credit \in [Subscriptions -> 0 .. MaxCredit] /\ blocked \in [Subscriptions -> BOOLEAN]
    BY StartFacts DEF DispatchTypeOK
  <2> QED
    BY <1>2, <2>1 DEF LoopUnwanted, LoopMessage, LoopWithoutCredit, LoopNothing, Looping
<1> QED
  BY <1>2, <1>3, <1>4, BrowserStep

----------------------------------------------------------------------------
(* Steps that tell somebody                                                *)

\* Thread t tells d: d is scheduled, unless it is on its way out.
LEMMA NotifyStep ==
    ASSUME DispatchInv, NEW t \in Threads, NEW d \in Subscriptions, Notify(t, d)
    PROVE  Account'
<1>1. /\ UNCHANGED vars /\ listeners' = listeners /\ browsers' = browsers /\ stopped' = stopped
      /\ thread' = thread /\ credit' = credit /\ blocked' = blocked
      /\ enabled' = enabled /\ subscribed' = subscribed
      /\ scheduled' = IF enabled[d] THEN scheduled \cup {d} ELSE scheduled
      /\ d \in Targets(t) /\ (t \in Subscriptions => ~Looping(t))
  BY DEF Notify, Looping
<1>2. /\ DispatchTypeOK /\ IInv /\ Tokens /\ SeenInOrder /\ ListOK /\ ToldOK
      /\ notifying \in [Threads -> NotificationSet] /\ Consumers' = Consumers /\ Place(d)
  BY StartFacts DEF DispatchTypeOK, Consumers, preAcquires
<1>3. /\ notifying' \in [Threads -> NotificationSet]
      /\ \A u \in Threads : u # t => notifying'[u] = notifying[u]
      /\ notifying'[t].consumer = Told(t) \ {d}
      /\ notifying'[t].browsers \subseteq notifying[t].browsers
  <2>1. notifying' = [notifying EXCEPT ![t].consumer = @ \ {d}, ![t].browsers = @ \ {d}]
    BY DEF Notify
  <2>2. notifying[t] \in NotificationSet
    BY <1>2
  <2>3. notifying' \in [Threads -> NotificationSet]
    BY <1>2, <2>1 DEF NotificationSet
  <2>4. \A u \in Threads : u # t => notifying'[u] = notifying[u]
    BY <1>2, <2>1
  <2>5. /\ notifying'[t].consumer = notifying[t].consumer \ {d}
        /\ notifying'[t].browsers = notifying[t].browsers \ {d}
    BY <1>2, <2>1, <2>2 DEF NotificationSet
  <2> QED
    BY <2>3, <2>4, <2>5 DEF Told
<1>4. \A p \in Publishers : pc'[p] = "push" => notifying'[p] = NoNotification
  <2>1. t \in Publishers => ~Free(t)
    BY <1>1 DEF Targets, Free, NoNotification
  <2> QED
    BY <1>1, <1>3, <2>1, StartFacts, ListFacts DEF vars, Free
<1>5. /\ ListOK' /\ ToldOK' /\ Listed' = Listed
      /\ \A x : IsTold(x)' => IsTold(x)
  <2>1. Shrunk({})
    BY <1>1, <1>2, ShrunkSame
  <2>2. notifying'[t].browsers \cap Consumers = {}
    BY <1>2, <1>3 DEF ToldOK
  <2>3. browsers' \cap Consumers = {} /\ \A x \in Listed \ {} : subscribed'[x]
    BY <1>1, <1>2 DEF ListOK
  <2>4. notifying'[t].consumer \subseteq Told(t)
    BY <1>3
  <2>5. /\ ListOK' /\ ToldOK' /\ Listed' = Listed \ {}
        /\ \A x : IsTold(x)' => IsTold(x) \/ x \in Listed \cap {}
    BY <1>2, <1>3, <1>4, <2>1, <2>2, <2>3, <2>4, ListStep
  <2> QED
    BY <2>5
<1>6. d \in Consumers => IsTold(d) /\ ~IsTold(d)'
  <2> SUFFICES ASSUME d \in Consumers PROVE IsTold(d) /\ ~IsTold(d)'
    OBVIOUS
  <2>1. d \in Told(t)
    BY <1>1, <1>2 DEF Targets, ToldOK, Told
  <2>2. \A u \in Threads : d \in Told(u) => u = t
    BY <1>2, <2>1 DEF ToldOK
  <2> QED
    BY <1>3, <2>1, <2>2 DEF IsTold, Told
<1>7. Tokens' /\ (CreditOK => CreditOK')
  <2>1. \A x \in Subscriptions : x # d => Alone(x)
    BY <1>1 DEF Alone
  <2>2. Place(d)'
    <3>1. thread[d] \in {"idle", "loop", "found", "cancel", "close"}
      BY <1>2 DEF DispatchTypeOK
    <3> QED
      BY <1>1, <1>2, <1>5, <1>6, <3>1 DEF Place
  <2>3. d \in Consumers => Funded(d)'
    BY <1>1, <1>2, <1>5, <1>6 DEF Place, Funded, Looping
  <2>4. Listed' = Listed \ {} /\ \A x : IsTold(x)' => IsTold(x) \/ x \in Listed \cap {}
    BY <1>5
  <2> QED
    BY <1>2, <1>5, <2>1, <2>2, <2>3, <2>4, PlaceStep
<1>8. SeenInOrder' /\ Fewer(Consumers)
  <2>1. Fewer(Consumers) /\ \A x : Unseen(x)' = Unseen(x)
    BY <1>1, SameWaiting, CursorsStay DEF vars
  <2> QED
    BY <1>1, <1>2, <2>1 DEF SeenInOrder
<1>9. ASSUME NEW y \in Consumers, Carrier(y) PROVE Carrier(y)' /\ Cover(y)' = Cover(y)
  <2>1. y \in Subscriptions /\ y \in Threads
    BY <1>2, ListFacts
  <2>2. Carrier(y)'
    <3>1. y \in scheduled' \/ thread'[y] \in {"loop", "cancel", "close"} \/ IsTold(y)'
      <4>1. CASE y = d
        BY <1>1, <1>2, <1>9, <4>1 DEF Carrier, Place
      <4>2. CASE y # d /\ IsTold(y)
        <5>1. PICK u \in Threads : y \in Told(u)
          BY <4>2 DEF IsTold
        <5>2. y \in Told(u)'
          BY <1>3, <4>2, <5>1 DEF Told
        <5> QED
          BY <5>2 DEF IsTold
      <4>3. CASE y # d /\ ~IsTold(y)
        BY <1>1, <1>9, <4>3 DEF Carrier
      <4> QED
        BY <4>1, <4>2, <4>3
    <3>2. \A x \in Subscriptions : y \in Told(x)' => y \in Told(x)
      BY <1>3 DEF Told, Threads
    <3> QED
      BY <1>1, <1>2, <1>5, <1>9, <3>1, <3>2 DEF Carrier, Looping
  <2>3. Cover(y)' = Cover(y)
    <3>1. CASE y = t
      BY <1>1, <2>1, <3>1 DEF Cover, Looping
    <3>2. CASE y # t
      BY <1>1, <1>3, <2>1, <3>2 DEF Cover, Looping, Told
    <3> QED
      BY <3>1, <3>2
  <2> QED
    BY <2>2, <2>3
<1>10. ~stopped' => CreditOK' /\ Served'
  BY <1>1, <1>2, <1>7, <1>8, <1>9, StartFacts, Kept
<1> QED
  BY <1>7, <1>8, <1>10 DEF Account

\* The first of the others has seen least of them.
LEMMA FirstOfOthers ==
    ASSUME DispatchTypeOK, ListOK, SeenInOrder, NEW c, erased(c) # << >>, NEW d \in Listed \ {c}
    PROVE  Unseen(d) \subseteq Unseen(Head(erased(c)))
<1> DEFINE l == erased(c)
<1>1. listeners \in Seq(Subscriptions) /\ Distinct(listeners)
  BY ListFacts
<1>2. CASE c \notin Listed /\ erased(c) = listeners
  BY <1>2, FirstFacts DEF First
<1>3. CASE c \in Listed /\ \E n \in DOMAIN listeners : listeners[n] = c /\ l = WithoutMember(listeners, n)
  <2>1. PICK n \in DOMAIN listeners : listeners[n] = c /\ l = WithoutMember(listeners, n)
    BY <1>3
  <2>2. /\ l \in Seq(Subscriptions) /\ RangeOf(l) = RangeOf(listeners) \ {c}
        /\ \A i, j \in DOMAIN l : i < j =>
              \E x, y \in DOMAIN listeners : x < y /\ l[i] = listeners[x] /\ l[j] = listeners[y]
    BY <1>1, <2>1, WithoutMemberFacts
  <2> HIDE DEF l
  <2>3. 1 \in DOMAIN l /\ Head(l) = l[1]
    BY <2>2 DEF l
  <2>4. PICK j \in DOMAIN l : l[j] = d
    <3>1. d \in RangeOf(l)
      BY <2>2, ListFacts
    <3> QED
      BY <3>1 DEF RangeOf
  <2>5. CASE j = 1
    BY <2>3, <2>4, <2>5 DEF l
  <2>6. CASE j # 1
    <3>1. 1 < j
      BY <2>2, <2>4, <2>6
    <3>2. PICK x, y \in DOMAIN listeners : x < y /\ l[1] = listeners[x] /\ l[j] = listeners[y]
      BY <2>2, <2>3, <2>4, <3>1
    <3>3. Unseen(listeners[y]) \subseteq Unseen(listeners[x])
      BY <3>2 DEF SeenInOrder
    <3> QED
      BY <2>3, <2>4, <3>2, <3>3 DEF l
  <2> QED
    BY <2>5, <2>6
<1> QED
  BY <1>1, <1>2, <1>3, ErasedFacts

----------------------------------------------------------------------------
(* Who carries after somebody was told                                     *)

\* y was a carrier, and no notification for it got lost.
LEMMA StillCarrier ==
    ASSUME NEW y \in Consumers, Carrier(y), Alone(y), y \notin Listed',
           \A u \in Threads : y \in Told(u)' <=> y \in Told(u),
           \A x \in Subscriptions : Looping(x)' => Looping(x)
    PROVE  Carrier(y)'
<1>1. IsTold(y)' <=> IsTold(y)
  BY DEF IsTold, Threads
<1>2. y \in Consumers'
  BY DEF Consumers, preAcquires
<1>3. \A x \in Subscriptions : y \in Told(x)' => ~Looping(x)'
  BY DEF Carrier, Threads
<1> QED
  BY <1>1, <1>2, <1>3 DEF Carrier, Alone

\* h has been told by a thread that is not at the queue.
LEMMA NewCarrier ==
    ASSUME ToldOK', NEW t \in Threads, NEW h \in Consumers, h \in Told(t)', h \notin Listed',
           subscribed[h], credit[h] >= 1, ~Looping(h), Alone(h),
           t \in Subscriptions => ~Looping(t)'
    PROVE  Carrier(h)' /\ Cover(h)' = {h}
<1>1. IsTold(h)'
  BY DEF IsTold, Threads
<1>2. \A x \in Subscriptions : h \in Told(x)' => ~Looping(x)'
  <2>1. \A x \in Threads : h \in Told(x)' => x = t
    BY DEF ToldOK, Threads
  <2> QED
    BY <2>1 DEF Threads
<1>3. h \in Consumers'
  BY DEF Consumers, preAcquires
<1>4. ~Looping(h)'
  BY DEF Looping, Alone
<1> QED
  BY <1>1, <1>2, <1>3, <1>4 DEF Carrier, Cover, Alone

\* y looks for the ones it looked for.
LEMMA CoverStays ==
    ASSUME NEW y, Told(y)' = Told(y), Looping(y)' <=> Looping(y),
           \A a \in Told(y) : subscribed'[a] = subscribed[a]
    PROVE  Cover(y)' = Cover(y)
<1>1. {a \in Told(y) : Looping(y)' /\ subscribed'[a]} = {a \in Told(y) : Looping(y) /\ subscribed[a]}
  OBVIOUS
<1> QED
  BY <1>1 DEF Cover

\* What populate() makes of the lists, when t is not about to push.
LEMMA PopulateStep ==
    ASSUME DispatchInv, NEW t \in Threads, populate(t), subscribed' = subscribed,
           \A p \in Publishers : pc'[p] = "push" => pc[p] = "push" /\ p # t
    PROVE  /\ ListOK' /\ ToldOK' /\ Consumers' = Consumers
           /\ \A u \in Threads : u # t => Told(u)' = Told(u)
           /\ \/ /\ listeners = << >> /\ listeners' = << >> /\ Told(t)' = Told(t)
                 /\ Listed = {} /\ Listed' = {} /\ \A x : IsTold(x)' => IsTold(x)
              \/ /\ listeners # << >>
                 /\ \E h \in Listed : /\ h = Head(listeners) /\ Shrunk({h}) /\ Listed' = Listed \ {h}
                                      /\ Told(t)' = {h}
                                      /\ \A x : IsTold(x)' => IsTold(x) \/ x = h
<1>1. DispatchTypeOK /\ Tokens /\ ListOK /\ browsers \cap Consumers = {}
  BY StartFacts
<1>2. /\ notifying' \in [Threads -> NotificationSet]
      /\ \A x \in Threads : x # t => notifying'[x] = notifying[x]
      /\ notifying'[t].browsers = browsers /\ browsers' = {}
      /\ listeners = << >> => listeners' = listeners /\ notifying'[t].consumer = Told(t)
      /\ listeners # << >> => /\ notifying'[t].consumer = {Head(listeners)}
                              /\ Head(listeners) \in Listed /\ Shrunk({Head(listeners)})
  BY <1>1, PopulateFacts
<1>3. \A p \in Publishers : pc'[p] = "push" => notifying'[p] = NoNotification
  BY <1>2, StartFacts DEF Free, Threads
<1>4. \A x \in Listed : subscribed'[x]
  BY <1>1 DEF ListOK
<1>5. \A u \in Threads : u # t => Told(u)' = Told(u)
  BY <1>2 DEF Told
<1>6. Consumers' = Consumers
  BY DEF Consumers, preAcquires
<1>7. CASE listeners = << >>
  <2>1. Shrunk({})
    BY <1>1, <1>2, <1>7, ShrunkSame
  <2>2. Listed = {}
    BY <1>7 DEF Listed
  <2>3. notifying'[t].consumer \subseteq Told(t) /\ notifying'[t].browsers \cap Consumers = {}
        /\ browsers' \cap Consumers = {}
    BY <1>1, <1>2, <1>7
  <2>4. /\ ListOK' /\ ToldOK' /\ Listed' = Listed \ {}
        /\ \A x : IsTold(x)' => IsTold(x) \/ x \in Listed \cap {}
    BY <1>1, <1>2, <1>3, <1>4, <2>1, <2>3, ListStep
  <2> QED
    BY <1>2, <1>5, <1>6, <1>7, <2>2, <2>4 DEF Told
<1>8. CASE listeners # << >>
  <2>1. PICK h \in Listed : h = Head(listeners)
    BY <1>2, <1>8
  <2>2. Shrunk({h}) /\ notifying'[t].consumer = {h}
    BY <1>2, <1>8, <2>1
  <2>3. (\E x \in Listed \cap {h} : notifying'[t].consumer = {x})
        /\ notifying'[t].browsers \cap Consumers = {} /\ browsers' \cap Consumers = {}
    BY <1>1, <1>2, <2>2
  <2>4. /\ ListOK' /\ ToldOK' /\ Listed' = Listed \ {h}
        /\ \A x : IsTold(x)' => IsTold(x) \/ x \in Listed \cap {h}
    BY <1>1, <1>2, <1>3, <1>4, <2>2, <2>3, ListStep
  <2>5. \A x : IsTold(x)' => IsTold(x) \/ x = h
    BY <2>4
  <2> QED
    BY <1>5, <1>6, <1>8, <2>1, <2>2, <2>4, <2>5 DEF Told
<1> QED
  BY <1>7, <1>8

----------------------------------------------------------------------------
(* A consumer at the queue                                                 *)

\* c's selector does not pass the message: the first on the list is told, for
\* whom c looks from now on.
LEMMA LoopUnwantedStep ==
    ASSUME DispatchInv, NEW c \in Consumers, LoopUnwanted(c)
    PROVE  Account'
<1>1. /\ c \in Subscriptions /\ c \in Threads /\ Looping(c) /\ GetUnwanted(c) /\ populate(c)
      /\ scheduled' = scheduled /\ thread' = thread /\ credit' = credit /\ blocked' = blocked
      /\ enabled' = enabled /\ subscribed' = subscribed /\ stopped' = stopped
  BY ListFacts, StartFacts DEF LoopUnwanted, Consumers, Looping
<1>2. /\ DispatchTypeOK /\ IInv /\ Tokens /\ SeenInOrder /\ ListOK /\ ToldOK
      /\ Place(c) /\ c \notin Listed /\ ~IsTold(c)
  BY <1>1, StartFacts DEF Place, Looping
<1>3. /\ \A x \in Subscriptions : Alone(x)
      /\ \A x : Looping(x)' <=> Looping(x)
  BY <1>1 DEF Alone, Looping
<1>4. \A p \in Publishers : pc'[p] = "push" => pc[p] = "push" /\ p # c
  BY <1>1, ThreadAssumption DEF GetUnwanted
<1>5. /\ ListOK' /\ ToldOK' /\ Consumers' = Consumers
      /\ \A u \in Threads : u # c => Told(u)' = Told(u)
      /\ \/ /\ listeners = << >> /\ listeners' = << >> /\ Told(c)' = Told(c)
            /\ Listed = {} /\ Listed' = {} /\ \A x : IsTold(x)' => IsTold(x)
         \/ /\ listeners # << >>
            /\ \E h \in Listed : /\ h = Head(listeners) /\ Shrunk({h}) /\ Listed' = Listed \ {h}
                                 /\ Told(c)' = {h}
                                 /\ \A x : IsTold(x)' => IsTold(x) \/ x = h
  BY <1>1, <1>4, PopulateStep
<1>6. /\ Waiting' = Waiting /\ Fewer(Consumers \ {c}) /\ Fewer(Listed)
  <2>1. Waiting' = Waiting /\ version' = version /\ Advance(c)
    BY <1>1 DEF GetUnwanted, Waiting, Contents
  <2>2. Fewer(Consumers \ {c})
    BY <1>2, <2>1, LookWaiting
  <2>3. Listed \subseteq Consumers \ {c}
    BY <1>2, ListFacts
  <2> QED
    BY <2>1, <2>2, <2>3 DEF Fewer
<1>7. \A d \in Consumers \ {c} : Unseen(d)' = Unseen(d)
  BY <1>6 DEF Fewer, Unseen
<1>8. CASE listeners = << >>
  <2>1. Tokens' /\ (CreditOK => CreditOK')
    <3>1. Listed' = Listed \ {} /\ \A x : IsTold(x)' => IsTold(x) \/ x \in Listed \cap {}
      BY <1>5, <1>8
    <3>2. Place(c)'
      BY <1>1, <1>2, <1>5, <1>8 DEF Place
    <3>3. CreditOK => Funded(c)'
      BY <1>1, <1>2, <1>5, <1>8 DEF CreditOK, Funded, Looping
    <3> QED
      BY <1>2, <1>3, <1>5, <3>1, <3>2, <3>3, PlaceStep
  <2>2. SeenInOrder' /\ Served'
    BY <1>5, <1>8 DEF SeenInOrder, Served
  <2> QED
    BY <1>1, <2>1, <2>2, StartFacts DEF Account
<1>9. CASE listeners # << >>
  <2>1. PICK h \in Listed : /\ h = Head(listeners) /\ Shrunk({h}) /\ Listed' = Listed \ {h}
                            /\ Told(c)' = {h}
                            /\ \A x : IsTold(x)' => IsTold(x) \/ x = h
    BY <1>5, <1>9
  <2>2. h \in Consumers /\ h # c /\ First = Unseen(h)
    BY <1>2, <2>1, ListFacts DEF First
  <2>3. Tokens' /\ (CreditOK => CreditOK')
    <3>1. \A x : IsTold(x)' => IsTold(x) \/ x \in Listed \cap {h}
      BY <2>1
    <3>2. ~IsTold(c)' /\ c \notin Listed'
      BY <1>2, <2>1, <2>2
    <3>3. Place(c)'
      BY <1>1, <1>2, <1>5, <3>2 DEF Place
    <3>4. CreditOK => Funded(c)'
      BY <1>1, <1>2, <3>2 DEF CreditOK, Funded, Looping
    <3> QED
      BY <1>2, <1>3, <1>5, <2>1, <3>1, <3>3, <3>4, PlaceStep
  <2>4. SeenInOrder'
    <3>1. listeners' = << >> => SeenInOrder'
      BY DEF SeenInOrder
    <3> QED
      BY <1>2, <1>6, <2>1, <3>1, FirstShrunk
  <2>5. ASSUME ~stopped, listeners' # << >> PROVE Served'
    <3>1. PICK Y \in SUBSET Subscriptions : IsFiniteSet(Y) /\ (\A y \in Y : Carrier(y)) /\ Enough(Y)
      BY <1>9, <2>5, StartFacts DEF Served
    <3>2. First' \subseteq First
      BY <1>2, <1>6, <2>1, <2>5, FirstShrunk
    <3>3. ASSUME NEW y \in Y
          PROVE  /\ y \in Consumers /\ y \in Threads /\ y \notin Listed /\ y \notin Told(c)
                 /\ Carrier(y)'
      <4>1. Carrier(y) /\ y \in Consumers /\ y \in Subscriptions /\ y \notin Listed /\ y \notin Told(c)
        BY <1>1, <3>1 DEF Carrier, Consumers
      <4>2. \A u \in Threads : y \in Told(u)' <=> y \in Told(u)
        BY <1>5, <2>1, <4>1
      <4>3. y \notin Listed' /\ Alone(y)
        BY <1>3, <2>1, <4>1
      <4> QED
        BY <1>3, <4>1, <4>2, <4>3, StillCarrier DEF Threads
    <3>4. ASSUME NEW y \in Y, y # c PROVE Cover(y)' = Cover(y) /\ c \notin Cover(y)
      <4>1. Told(y)' = Told(y)
        BY <1>5, <3>3, <3>4
      <4>2. Cover(y)' = Cover(y)
        BY <1>1, <1>3, <4>1, CoverStays
      <4>3. c \notin Told(y)
        BY <1>2, <3>3 DEF IsTold
      <4> QED
        BY <3>4, <4>2, <4>3 DEF Cover
    <3>5. Cover(c)' \subseteq {c, h} /\ h \in Cover(c)'
      <4>1. subscribed'[h]
        BY <1>1, <1>2, <2>1 DEF ListOK
      <4>2. Looping(c)'
        BY <1>1, <1>3
      <4> QED
        BY <2>1, <4>1, <4>2 DEF Cover
    <3>6. \A x \in Interested(Y)' : x \in Interested(Y) \/ Wanted(x)' = {}
      <4> SUFFICES ASSUME NEW x \in Interested(Y)' PROVE x \in Interested(Y)
        OBVIOUS
      <4>1. x \in Listed' \/ \E y \in Y : x \in Cover(y)'
        BY DEF Interested
      <4>2. CASE x \in Listed'
        BY <2>1, <4>2 DEF Interested
      <4>3. CASE \E y \in Y : y # c /\ x \in Cover(y)'
        BY <3>4, <4>3 DEF Interested
      <4>4. CASE c \in Y /\ x \in Cover(c)'
        <5>1. c \in Cover(c)
          BY DEF Cover
        <5> QED
          BY <2>1, <3>5, <4>4, <5>1 DEF Interested
      <4> QED
        BY <4>1, <4>2, <4>3, <4>4
    <3>7. \A y \in Y \ {c} : Carried(y) \cap First' \subseteq Carried(y)'
      <4> SUFFICES ASSUME NEW y \in Y, y # c, NEW m \in Carried(y) PROVE m \in Carried(y)'
        OBVIOUS
      <4>1. PICK x \in Cover(y) : m \in Unseen(x)
        BY DEF Carried
      <4>2. x \in Consumers /\ x # c
        BY <1>2, <3>3, <3>4, <4>1, CoverFacts
      <4>3. m \in Unseen(x)' /\ x \in Cover(y)'
        BY <1>7, <3>4, <4>1, <4>2
      <4> QED
        BY <4>3 DEF Carried
    <3>8. c \in Y => \A m \in Carried(c) \cap First' :
                         \E z \in Y : z \notin Y \ {c} /\ m \in Carried(z)'
      <4> SUFFICES ASSUME c \in Y, NEW m \in First' PROVE m \in Carried(c)'
        OBVIOUS
      <4>1. m \in Unseen(h)'
        BY <1>7, <2>2, <3>2
      <4> QED
        BY <3>5, <4>1 DEF Carried
    <3>9. Waiting' \subseteq Waiting /\ Y \ {c} \subseteq Y /\ \A y \in Y : Carrier(y)'
      BY <1>6, <3>3
    <3> HIDE DEF Served
    <3> QED
      BY <1>2, <3>1, <3>2, <3>6, <3>7, <3>8, <3>9, Trade
  <2>6. listeners' = << >> => Served'
    BY DEF Served
  <2> QED
    BY <1>1, <2>3, <2>4, <2>5, <2>6, StartFacts DEF Account
<1> QED
  BY <1>8, <1>9

\* c lacks the credit for the message: it stays off until it has got some, and
\* the first on the list comes in its place.
LEMMA LoopWithoutCreditStep ==
    ASSUME DispatchInv, NEW c \in Consumers, LoopWithoutCredit(c)
    PROVE  Account'
<1>1. /\ c \in Subscriptions /\ c \in Threads /\ Looping(c) /\ UNCHANGED vars /\ populate(c)
      /\ scheduled' = scheduled /\ credit' = credit
      /\ enabled' = enabled /\ subscribed' = subscribed /\ stopped' = stopped
  BY ListFacts, StartFacts DEF LoopWithoutCredit, GetWithoutCredit, Consumers, Looping
<1>2. /\ DispatchTypeOK /\ IInv /\ Tokens /\ SeenInOrder /\ ListOK /\ ToldOK
      /\ Place(c) /\ c \notin Listed /\ ~IsTold(c) /\ c \notin scheduled
  BY <1>1, StartFacts DEF Place, Looping
<1>3. /\ thread'[c] = "idle" /\ blocked'[c] = TRUE
      /\ \A x \in Subscriptions : x # c => Alone(x)
  BY <1>1, <1>2 DEF DispatchTypeOK, LoopWithoutCredit, Alone
<1>4. \A p \in Publishers : pc'[p] = "push" => pc[p] = "push" /\ p # c
  BY <1>1, ThreadAssumption DEF vars
<1>5. /\ ListOK' /\ ToldOK' /\ Consumers' = Consumers
      /\ \A u \in Threads : u # c => Told(u)' = Told(u)
      /\ \/ /\ listeners = << >> /\ listeners' = << >> /\ Told(c)' = Told(c)
            /\ Listed = {} /\ Listed' = {} /\ \A x : IsTold(x)' => IsTold(x)
         \/ /\ listeners # << >>
            /\ \E h \in Listed : /\ h = Head(listeners) /\ Shrunk({h}) /\ Listed' = Listed \ {h}
                                 /\ Told(c)' = {h}
                                 /\ \A x : IsTold(x)' => IsTold(x) \/ x = h
  BY <1>1, <1>4, PopulateStep
<1>6. /\ Waiting' = Waiting /\ (\A x : Unseen(x)' = Unseen(x)) /\ Fewer(Listed)
  <2>1. Waiting' = Waiting /\ (\A x : Unseen(x)' = Unseen(x)) /\ version' = version /\ cursor' = cursor
    BY <1>1, SameWaiting DEF vars
  <2> QED
    BY <2>1, FewerWaiting
<1>7. CASE listeners = << >>
  <2>1. Tokens' /\ (CreditOK => CreditOK')
    <3>1. Listed' = Listed \ {} /\ \A x : IsTold(x)' => IsTold(x) \/ x \in Listed \cap {}
      BY <1>5, <1>7
    <3>2. Place(c)'
      BY <1>1, <1>2, <1>3, <1>5, <1>7 DEF Place, Looping
    <3>3. Funded(c)'
      BY <1>2, <1>3, <1>5, <1>7 DEF Funded, Looping
    <3> QED
      BY <1>2, <1>3, <1>5, <3>1, <3>2, <3>3, PlaceStep
  <2>2. SeenInOrder' /\ Served'
    BY <1>5, <1>7 DEF SeenInOrder, Served
  <2> QED
    BY <1>1, <2>1, <2>2, StartFacts DEF Account
<1>8. CASE listeners # << >>
  <2>1. PICK h \in Listed : /\ h = Head(listeners) /\ Shrunk({h}) /\ Listed' = Listed \ {h}
                            /\ Told(c)' = {h}
                            /\ \A x : IsTold(x)' => IsTold(x) \/ x = h
    BY <1>5, <1>8
  <2>2. h \in Consumers /\ h \in Subscriptions /\ h # c /\ First = Unseen(h) /\ subscribed[h] /\ ~Looping(h)
    <3>1. h \in Consumers /\ h \in Subscriptions /\ h # c /\ First = Unseen(h) /\ subscribed[h]
      BY <1>2, <2>1, ListFacts DEF First, ListOK
    <3>2. Place(h)
      BY <3>1, StartFacts
    <3> QED
      BY <2>1, <3>1, <3>2 DEF Place, Looping
  <2>3. Tokens' /\ (CreditOK => CreditOK')
    <3>1. \A x : IsTold(x)' => IsTold(x) \/ x \in Listed \cap {h}
      BY <2>1
    <3>2. ~IsTold(c)' /\ c \notin Listed'
      BY <1>2, <2>1, <2>2
    <3>3. Place(c)'
      BY <1>1, <1>2, <1>3, <1>5, <3>2 DEF Place, Looping
    <3>4. Funded(c)'
      BY <1>3, <3>2 DEF Funded, Looping
    <3> QED
      BY <1>2, <1>3, <1>5, <2>1, <3>1, <3>3, <3>4, PlaceStep
  <2>4. SeenInOrder'
    <3>1. listeners' = << >> => SeenInOrder'
      BY DEF SeenInOrder
    <3> QED
      BY <1>2, <1>6, <2>1, <3>1, FirstShrunk
  <2>5. ASSUME ~stopped, listeners' # << >> PROVE Served'
    <3>1. PICK Y \in SUBSET Subscriptions : IsFiniteSet(Y) /\ (\A y \in Y : Carrier(y)) /\ Enough(Y)
      BY <1>8, <2>5, StartFacts DEF Served
    <3> DEFINE Z == (Y \ {c}) \cup {h}
    <3>2. First' \subseteq First
      BY <1>2, <1>6, <2>1, <2>5, FirstShrunk
    <3>3. \A x \in Subscriptions : Looping(x)' => Looping(x)
      BY <1>3 DEF Alone, Looping
    <3>4. ASSUME NEW y \in Y, y # c
          PROVE  /\ y \in Consumers /\ y \notin Listed
                 /\ Carrier(y)' /\ Cover(y)' = Cover(y)
      <4>1. /\ Carrier(y) /\ y \in Consumers /\ y \in Subscriptions /\ y \in Threads
            /\ y \notin Listed /\ y \notin Told(c)
        BY <1>1, <3>1 DEF Carrier, Consumers, Threads
      <4>2. \A u \in Threads : y \in Told(u)' <=> y \in Told(u)
        BY <1>5, <2>1, <4>1
      <4>3. y \notin Listed' /\ Alone(y)
        BY <1>3, <2>1, <3>4, <4>1
      <4>4. Carrier(y)'
        BY <3>3, <4>1, <4>2, <4>3, StillCarrier
      <4>5. Cover(y)' = Cover(y)
        <5>1. Told(y)' = Told(y) /\ (Looping(y)' <=> Looping(y))
          BY <1>5, <3>4, <4>1, <4>3 DEF Alone, Looping
        <5> QED
          BY <1>1, <5>1, CoverStays
      <4> QED
        BY <4>1, <4>4, <4>5
    <3>5. Carrier(h)' /\ Cover(h)' = {h}
      <4>1. credit[h] >= 1
        BY <2>1, <2>2, <2>5, StartFacts DEF CreditOK
      <4>2. h \in Told(c)' /\ h \notin Listed' /\ Alone(h) /\ ~Looping(c)'
        BY <1>3, <2>1, <2>2 DEF Looping
      <4> QED
        BY <1>1, <1>5, <2>2, <4>1, <4>2, NewCarrier
    <3>6. h \notin Y
      BY <2>1, <3>1 DEF Carrier
    <3>7. Z \in SUBSET Subscriptions /\ IsFiniteSet(Z) /\ Y \ {c} \subseteq Z
      <4>1. IsFiniteSet(Y \ {c})
        BY <3>1, FS_Subset
      <4> QED
        BY <2>2, <4>1, FS_AddElement
    <3>8. \A z \in Z : Carrier(z)'
      BY <3>4, <3>5
    <3>9. \A x \in Interested(Z)' : x \in Interested(Y) \/ Wanted(x)' = {}
      <4> SUFFICES ASSUME NEW x \in Interested(Z)' PROVE x \in Interested(Y)
        OBVIOUS
      <4>1. x \in Listed' \/ \E y \in Z : x \in Cover(y)'
        BY DEF Interested
      <4> QED
        BY <2>1, <3>4, <3>5, <4>1 DEF Interested
    <3>10. \A y \in Y \ {c} : Carried(y) \cap First' \subseteq Carried(y)'
      BY <1>6, <3>4 DEF Carried
    <3>11. c \in Y => \A m \in Carried(c) \cap First' :
                         \E z \in Z : z \notin Y \ {c} /\ m \in Carried(z)'
      <4> SUFFICES ASSUME NEW m \in First' PROVE m \in Carried(h)'
        BY <3>6
      <4>1. m \in Unseen(h)'
        BY <1>6, <2>2, <3>2
      <4> QED
        BY <3>5, <4>1 DEF Carried
    <3>12. Waiting' \subseteq Waiting
      BY <1>6
    <3> HIDE DEF Z, Served
    <3> QED
      BY <1>2, <3>1, <3>2, <3>7, <3>8, <3>9, <3>10, <3>11, <3>12, Trade
  <2>6. listeners' = << >> => Served'
    BY DEF Served
  <2> QED
    BY <1>1, <2>3, <2>4, <2>5, <2>6, StartFacts DEF Account
<1> QED
  BY <1>7, <1>8

\* There is nothing for c: it goes to the end of the list, and whom it has told
\* comes on its own account.
LEMMA LoopNothingStep ==
    ASSUME DispatchInv, NEW c \in Consumers, LoopNothing(c)
    PROVE  Account'
<1>1. /\ c \in Subscriptions /\ c \in Threads /\ preAcquires(c)
      /\ Looping(c) /\ GetNothing(c) /\ addListener(c)
      /\ scheduled' = scheduled /\ credit' = credit /\ notifying' = notifying /\ blocked' = blocked
      /\ enabled' = enabled /\ subscribed' = subscribed /\ stopped' = stopped
  BY ListFacts, StartFacts DEF LoopNothing, Consumers, Looping
<1>2. /\ DispatchTypeOK /\ IInv /\ Tokens /\ SeenInOrder /\ ListOK /\ ToldOK
      /\ Place(c) /\ c \notin Listed /\ ~IsTold(c) /\ c \notin scheduled /\ ~blocked[c]
      /\ subscribed[c]
  BY <1>1, StartFacts DEF Place, Looping
<1>3. /\ thread'[c] = "idle" /\ \A x \in Subscriptions : x # c => Alone(x)
  BY <1>1, <1>2 DEF DispatchTypeOK, LoopNothing, Alone
<1>4. /\ listeners' = Append(listeners, c) /\ browsers' = browsers
  <2>1. c \notin browsers
    BY <1>2 DEF ListOK
  <2>2. ~inListeners(c)
    BY <1>2, <2>1 DEF inListeners, Listed
  <2> QED
    BY <1>1, <2>2 DEF addListener
<1>5. /\ listeners \in Seq(Subscriptions) /\ Distinct(listeners) /\ Listed = RangeOf(listeners)
      /\ listeners' # << >> /\ Distinct(listeners')
      /\ Listed' = Listed \cup {c}
      /\ Head(listeners') = IF listeners = << >> THEN c ELSE Head(listeners)
      /\ \A i, j \in DOMAIN listeners' : i < j =>
             /\ i \in DOMAIN listeners /\ listeners'[i] = listeners[i]
             /\ listeners'[j] = c \/ (j \in DOMAIN listeners /\ listeners'[j] = listeners[j])
  <2>1. listeners \in Seq(Subscriptions) /\ Distinct(listeners) /\ Listed = RangeOf(listeners)
    BY <1>2, ListFacts
  <2> DEFINE l == Append(listeners, c)
  <2>2. /\ l # << >> /\ Distinct(l) /\ RangeOf(l) = RangeOf(listeners) \cup {c}
        /\ Head(l) = IF listeners = << >> THEN c ELSE Head(listeners)
        /\ \A i, j \in DOMAIN l : i < j =>
               /\ i \in DOMAIN listeners /\ l[i] = listeners[i]
               /\ l[j] = c \/ (j \in DOMAIN listeners /\ l[j] = listeners[j])
    BY <1>1, <1>2, <2>1, AppendFacts
  <2>3. listeners' = l
    BY <1>4
  <2> HIDE DEF l
  <2>4. Listed' = RangeOf(l)
    BY <2>3 DEF Listed, RangeOf
  <2> QED
    BY <2>1, <2>2, <2>3, <2>4
<1>6. /\ Waiting' = Waiting /\ Unseen(c) = {} /\ Unseen(c)' = {} /\ Wanted(c)' = {}
      /\ \A d \in Consumers : Unseen(d)' = Unseen(d)
  <2>1. Waiting' = Waiting /\ version' = version /\ Advance(c) /\ NextFor(c) = 0
    BY <1>1 DEF GetNothing, Waiting, Contents
  <2>2. Fewer(Consumers \ {c}) /\ Unseen(c) = {} /\ Unseen(c)' = {}
    BY <1>2, <2>1, LookWaiting
  <2>3. Wanted(c) = {}
    BY <1>2, <2>2, UnseenFacts
  <2>4. Wanted(c)' = {}
    BY <2>1, <2>3 DEF Wanted
  <2> QED
    BY <2>1, <2>2, <2>4 DEF Fewer, Unseen
<1>7. /\ \A t \in Threads : Told(t)' = Told(t)
      /\ \A x : IsTold(x)' <=> IsTold(x)
      /\ Consumers' = Consumers
  BY <1>1 DEF Told, IsTold, Consumers, preAcquires
<1>8. ListOK' /\ ToldOK'
  <2>1. ListOK'
    BY <1>1, <1>2, <1>4, <1>5, <1>7 DEF ListOK, Distinct
  <2>2. pc' = pc
    BY <1>1 DEF GetNothing
  <2>3. ToldOK'
    BY <1>1, <1>2, <1>7, <2>2 DEF ToldOK, Free, Told, Threads
  <2> QED
    BY <2>1, <2>3
<1>9. EnabledOK' /\ OnePlace' /\ (CreditOK => CreditOK')
  <2>1. \A x \in Subscriptions : Place(x)
    BY StartFacts
  <2>2. \A x \in Subscriptions : x # c => Place(x)'
    BY <1>3, <1>5, <1>7, <2>1 DEF Place, Alone
  <2>3. Place(c)'
    BY <1>1, <1>2, <1>3, <1>7 DEF Place, Looping
  <2>4. \A x \in Subscriptions : Place(x)'
    BY <2>2, <2>3
  <2>5. CreditOK => CreditOK'
    <3>1. CreditOK => \A x \in Consumers : x # c => Funded(x)'
      BY <1>3, <1>5, <1>7, PlaceFacts DEF Funded, Alone, Looping
    <3>2. CreditOK => credit'[c] >= 1
      BY <1>1 DEF CreditOK
    <3> QED
      BY <1>7, <3>1, <3>2 DEF CreditOK, Funded
  <2> QED
    BY <1>7, <2>4, <2>5 DEF EnabledOK, OnePlace, Place, Consumers
<1>10. SeenInOrder'
  <2> SUFFICES ASSUME NEW i \in DOMAIN listeners', NEW j \in DOMAIN listeners', i < j
               PROVE  Unseen(listeners[j])' \subseteq Unseen(listeners[i])'
    BY DEF SeenInOrder
  <2>1. PICK x, y : x = listeners'[i] /\ y = listeners'[j]
    OBVIOUS
  <2>2. i \in DOMAIN listeners /\ x = listeners[i] /\ x \in Consumers
    <3>1. i \in DOMAIN listeners /\ x = listeners[i]
      BY <1>5, <2>1
    <3> QED
      BY <1>2, <3>1 DEF ListOK, Listed
  <2>3. CASE y = c
    <3>1. Unseen(listeners[j])' = Unseen(c)'
      BY <2>1, <2>3 DEF Unseen
    <3> QED
      BY <1>6, <3>1
  <2>4. CASE y # c
    <3>1. j \in DOMAIN listeners /\ y = listeners[j]
      BY <1>5, <2>1, <2>4
    <3>2. y \in Consumers
      BY <1>2, <3>1 DEF ListOK, Listed
    <3>3. Unseen(y) \subseteq Unseen(x)
      <4>1. Unseen(listeners[j]) \subseteq Unseen(listeners[i])
        BY <1>2, <2>2, <3>1 DEF SeenInOrder
      <4> QED
        BY <2>2, <3>1, <4>1
    <3>4. Unseen(listeners[j])' = Unseen(y)' /\ Unseen(listeners[i])' = Unseen(x)'
      BY <2>1 DEF Unseen
    <3> QED
      BY <1>6, <2>2, <3>2, <3>3, <3>4
  <2> QED
    BY <2>3, <2>4
<1>11. CASE listeners = << >>
  <2>1. First' = {}
    <3>1. Head(listeners') = c
      BY <1>5, <1>11
    <3>2. First' = Unseen(c)'
      BY <3>1 DEF First, Unseen
    <3> QED
      BY <1>6, <3>2
  <2>2. Enough({})'
    BY <2>1 DEF Enough
  <2>3. IsFiniteSet({})
    BY FS_EmptySet
  <2>4. Served'
    BY <2>2, <2>3 DEF Served
  <2> QED
    BY <1>1, <1>8, <1>9, <1>10, <2>4, StartFacts DEF Account, Tokens
<1>12. CASE listeners # << >>
  <2>1. First' = First
    <3>1. PICK h \in Listed : h = Head(listeners)
      BY <1>2, <1>12, FirstFacts
    <3>2. h = Head(listeners') /\ h \in Consumers
      BY <1>2, <1>5, <1>12, <3>1, ListFacts
    <3>3. First = Unseen(h) /\ First' = Unseen(h)'
      BY <3>1, <3>2 DEF First, Unseen
    <3> QED
      BY <1>6, <3>2, <3>3
  <2>2. ASSUME ~stopped PROVE Served'
    <3>1. PICK Y \in SUBSET Subscriptions : IsFiniteSet(Y) /\ (\A y \in Y : Carrier(y)) /\ Enough(Y)
      BY <1>12, <2>2, StartFacts DEF Served
    <3>2. \A x \in Subscriptions : Looping(x)' => Looping(x)
      BY <1>3 DEF Alone, Looping
    <3>3. ASSUME NEW y \in Y, y # c
          PROVE  /\ y \in Consumers /\ y \notin Told(c)
                 /\ Carrier(y)' /\ Cover(y)' = Cover(y)
      <4>1. /\ Carrier(y) /\ y \in Consumers /\ y \in Subscriptions /\ y \in Threads
            /\ y \notin Listed /\ y \notin Told(c)
        BY <1>1, <3>1 DEF Carrier, Consumers, Threads
      <4>2. y \notin Listed' /\ Alone(y)
        BY <1>3, <1>5, <3>3, <4>1
      <4>3. Carrier(y)'
        BY <1>7, <3>2, <4>1, <4>2, StillCarrier
      <4>4. Cover(y)' = Cover(y)
        <5>1. Told(y)' = Told(y) /\ (Looping(y)' <=> Looping(y))
          BY <1>7, <4>1, <4>2 DEF Alone, Looping
        <5> QED
          BY <1>1, <5>1, CoverStays
      <4> QED
        BY <4>1, <4>3, <4>4
    <3>4. ASSUME NEW a \in Told(c), subscribed[a]
          PROVE  /\ a \in Subscriptions /\ a \in Consumers /\ a # c /\ a \in Cover(c)
                 /\ Carrier(a)' /\ Cover(a)' = {a}
      <4>1. a \in Consumers /\ a \in Subscriptions /\ IsTold(a) /\ a # c
        BY <1>1, <1>2 DEF ToldOK, IsTold, Consumers
      <4>2. Place(a) /\ credit[a] >= 1
        BY <2>2, <4>1, StartFacts DEF CreditOK
      <4>3. ~Looping(a) /\ a \notin Listed' /\ a \in Told(c)' /\ Alone(a) /\ ~Looping(c)'
        BY <1>1, <1>3, <1>5, <1>7, <4>1, <4>2 DEF Place, Looping
      <4>4. Carrier(a)' /\ Cover(a)' = {a}
        BY <1>1, <1>8, <3>4, <4>1, <4>2, <4>3, NewCarrier
      <4>5. a \in Cover(c)
        BY <1>1, <3>4 DEF Cover
      <4> QED
        BY <4>1, <4>4, <4>5
    <3> PICK S : S = {a \in Told(c) : c \in Y /\ subscribed[a]}
      OBVIOUS
    <3> DEFINE Z == (Y \ {c}) \cup S
    <3>5. Z \in SUBSET Subscriptions /\ IsFiniteSet(Z) /\ Y \ {c} \subseteq Z
      <4>1. IsFiniteSet(Y \ {c})
        BY <3>1, FS_Subset
      <4>2. CASE S = {}
        <5>1. Z = Y \ {c}
          BY <4>2
        <5> HIDE DEF Z
        <5> QED
          BY <4>1, <5>1
      <4>3. CASE S # {}
        <5>1. PICK a \in Told(c) : subscribed[a] /\ a \in S
          BY <4>3
        <5>2. S = {a}
          BY <1>1, <1>2, <5>1 DEF ToldOK
        <5>3. Z = (Y \ {c}) \cup {a} /\ a \in Subscriptions
          BY <3>4, <5>1, <5>2
        <5> HIDE DEF Z
        <5> QED
          BY <4>1, <5>3, FS_AddElement
      <4> QED
        BY <4>2, <4>3
    <3>6. \A z \in Z : Carrier(z)'
      BY <3>3, <3>4
    <3>7. \A x \in Interested(Z)' : x \in Interested(Y) \/ Wanted(x)' = {}
      <4> SUFFICES ASSUME NEW x \in Interested(Z)', x # c PROVE x \in Interested(Y)
        BY <1>6
      <4>1. x \in Listed \/ \E y \in Z : x \in Cover(y)'
        BY <1>5 DEF Interested
      <4>2. CASE \E y \in Y \ {c} : x \in Cover(y)'
        BY <3>3, <4>2 DEF Interested
      <4>3. CASE \E a \in S : x \in Cover(a)'
        BY <3>4, <4>3 DEF Interested
      <4> QED
        BY <4>1, <4>2, <4>3 DEF Interested
    <3>8. \A y \in Y \ {c} : Carried(y) \cap First' \subseteq Carried(y)'
      <4> SUFFICES ASSUME NEW y \in Y, y # c, NEW m \in Carried(y) PROVE m \in Carried(y)'
        OBVIOUS
      <4>1. PICK x \in Cover(y) : m \in Unseen(x)
        BY DEF Carried
      <4>2. x \in Consumers
        BY <1>2, <3>3, <4>1, CoverFacts
      <4>3. m \in Unseen(x)' /\ x \in Cover(y)'
        BY <1>6, <3>3, <4>1, <4>2
      <4> QED
        BY <4>3 DEF Carried
    <3>9. c \in Y => \A m \in Carried(c) \cap First' :
                         \E z \in Z : z \notin Y \ {c} /\ m \in Carried(z)'
      <4> SUFFICES ASSUME c \in Y, NEW m \in Carried(c)
                   PROVE  \E z \in Z : z \notin Y \ {c} /\ m \in Carried(z)'
        OBVIOUS
      <4>1. PICK x \in Cover(c) : m \in Unseen(x)
        BY DEF Carried
      <4>2. x \in Told(c) /\ subscribed[x]
        BY <1>6, <4>1 DEF Cover
      <4>3. x \in Z /\ x \notin Y \ {c}
        BY <3>3, <4>2
      <4>4. m \in Carried(x)'
        <5>1. m \in Unseen(x)' /\ x \in Cover(x)'
          BY <1>6, <3>4, <4>1, <4>2
        <5> QED
          BY <5>1 DEF Carried
      <4> QED
        BY <4>3, <4>4
    <3>10. Waiting' \subseteq Waiting /\ First' \subseteq First
      BY <1>6, <2>1
    <3> HIDE DEF Z, Served
    <3> QED
      BY <1>2, <3>1, <3>5, <3>6, <3>7, <3>8, <3>9, <3>10, Trade
  <2> QED
    BY <1>1, <1>8, <1>9, <1>10, <2>2, StartFacts DEF Account, Tokens
<1> QED
  BY <1>11, <1>12

\* c takes the message: it does not look further before the notifications it
\* owes are out, and whom it has told comes on its own account.
LEMMA LoopMessageStep ==
    ASSUME DispatchInv, NEW c \in Consumers, LoopMessage(c)
    PROVE  Account'
<1>1. /\ c \in Subscriptions /\ c \in Threads /\ preAcquires(c)
      /\ Looping(c) /\ GetMessage(c) /\ listeners' = listeners /\ browsers' = browsers
      /\ scheduled' = scheduled /\ notifying' = notifying
      /\ enabled' = enabled /\ subscribed' = subscribed /\ stopped' = stopped
  BY ListFacts, StartFacts DEF LoopMessage, Consumers, Looping
<1>2. /\ DispatchTypeOK /\ IInv /\ Tokens /\ SeenInOrder /\ ListOK /\ ToldOK
      /\ Place(c) /\ c \notin Listed /\ ~IsTold(c) /\ c \notin scheduled /\ ~blocked[c]
      /\ subscribed[c]
  BY <1>1, StartFacts DEF Place, Looping
<1>3. /\ thread'[c] = "found" /\ blocked'[c] = FALSE
      /\ \A x \in Subscriptions : x # c => Alone(x)
  BY <1>1, <1>2 DEF DispatchTypeOK, LoopMessage, Alone
<1>4. /\ Listed' = Listed /\ (\A t \in Threads : Told(t)' = Told(t))
      /\ (\A x : IsTold(x)' <=> IsTold(x)) /\ Consumers' = Consumers
  BY <1>1 DEF Listed, Told, IsTold, Consumers, preAcquires
<1>5. PICK m : m = messages[NextFor(c)]
  OBVIOUS
<1>6. /\ m \in Unseen(c) /\ m \in Wanted(c)
      /\ \A n \in Unseen(c) : m.sequence <= n.sequence
      /\ Waiting' = Waiting \ {m}
      /\ \A d \in Consumers : Unseen(d)' = Unseen(d) \ {m}
  <2> DEFINE k == NextFor(c)
  <2>1. /\ k # 0 /\ messages[k].kind \in Selector[c] /\ messages' = acquire(messages, k)
        /\ Advance(c) /\ version' = version
    BY <1>1 DEF GetMessage
  <2>2. k \in DOMAIN messages
    <3>1. /\ messages \in Seq(Message) /\ Consecutive(messages) /\ version \in Nat
          /\ cursor[c] \in QueueCursor
      BY <1>1, <1>2, SoundFacts DEF IInv
    <3> QED
      BY <2>1, <3>1, NextProperties DEF NextFor
  <2> HIDE DEF k
  <2>3. Waiting' = Without(Waiting, m.sequence)
    BY <1>2, <1>5, <2>1, <2>2, AcquiredWaiting DEF k
  <2>4. Waiting' \subseteq Waiting
    BY <2>3 DEF Without
  <2>5. /\ Fewer(Consumers \ {c}) /\ m \in Unseen(c)
        /\ \A n \in Unseen(c) : m.sequence <= n.sequence
        /\ Unseen(c)' = (Unseen(c) \ {m}) \cap Waiting'
    BY <1>2, <1>5, <2>1, <2>4, LookWaiting DEF k
  <2>6. m \in Waiting /\ m \in Wanted(c)
    <3>1. m \in Waiting
      BY <1>2, <2>5, UnseenFacts
    <3> QED
      BY <1>5, <2>1, <3>1 DEF Wanted, k
  <2>7. Waiting' = Waiting \ {m}
    <3>1. \A n \in Waiting : n.sequence = m.sequence => n = m
      BY <1>2, <2>6, WaitingFacts
    <3> QED
      BY <2>3, <2>6, <3>1 DEF Without
  <2>8. \A d \in Consumers : Unseen(d) \subseteq Waiting
    BY <1>2, UnseenFacts
  <2>9. ASSUME NEW d \in Consumers PROVE Unseen(d)' = Unseen(d) \ {m}
    <3>1. CASE d = c
      BY <2>5, <2>7, <2>8, <3>1
    <3>2. CASE d # c
      BY <2>5, <2>7, <2>8, <3>2 DEF Fewer
    <3> QED
      BY <3>1, <3>2
  <2> QED
    BY <2>5, <2>6, <2>7, <2>9
<1>7. ListOK' /\ ToldOK'
  <2>1. ListOK'
    BY <1>1, <1>2, <1>4 DEF ListOK
  <2>2. pc' = pc
    BY <1>1 DEF GetMessage
  <2>3. ToldOK'
    BY <1>1, <1>2, <1>4, <2>2 DEF ToldOK, Free, Told, Threads
  <2> QED
    BY <2>1, <2>3
<1>8. Tokens' /\ (CreditOK => CreditOK')
  <2>1. Listed' = Listed \ {} /\ \A x : IsTold(x)' => IsTold(x) \/ x \in Listed \cap {}
    BY <1>4
  <2>2. Place(c)'
    BY <1>1, <1>2, <1>3, <1>4 DEF Place, Looping
  <2>3. Funded(c)'
    BY <1>2, <1>3, <1>4 DEF Funded, Looping
  <2> QED
    BY <1>2, <1>3, <1>7, <2>1, <2>2, <2>3, PlaceStep
<1>9. SeenInOrder' /\ (listeners # << >> => First' \subseteq First)
  <2>1. Shrunk({})
    BY <1>1, <1>2, ShrunkSame
  <2>2. Fewer(Listed)
    <3>1. \A d \in Listed : d \in Consumers /\ Unseen(d) \subseteq Waiting
      BY <1>2, ListFacts, UnseenFacts
    <3> QED
      BY <1>6, <3>1 DEF Fewer
  <2>3. listeners' = << >> => SeenInOrder'
    BY DEF SeenInOrder
  <2> QED
    BY <1>1, <1>2, <2>1, <2>2, <2>3, FirstShrunk
<1>10. ASSUME ~stopped, listeners # << >> PROVE Served'
  <2>1. PICK Y \in SUBSET Subscriptions : IsFiniteSet(Y) /\ (\A y \in Y : Carrier(y)) /\ Enough(Y)
    BY <1>10, StartFacts DEF Served
  <2>2. \A x \in Subscriptions : Looping(x)' => Looping(x)
    BY <1>3 DEF Alone, Looping
  <2>3. ASSUME NEW y \in Y, y # c
        PROVE  /\ y \in Consumers /\ y \notin Told(c)
               /\ Carrier(y)' /\ Cover(y)' = Cover(y)
    <3>1. /\ Carrier(y) /\ y \in Consumers /\ y \in Subscriptions /\ y \in Threads
          /\ y \notin Listed /\ y \notin Told(c)
      BY <1>1, <2>1 DEF Carrier, Consumers, Threads
    <3>2. y \notin Listed' /\ Alone(y)
      BY <1>3, <1>4, <2>3, <3>1
    <3>3. Carrier(y)'
      BY <1>4, <2>2, <3>1, <3>2, StillCarrier
    <3>4. Cover(y)' = Cover(y)
      <4>1. Told(y)' = Told(y) /\ (Looping(y)' <=> Looping(y))
        BY <1>4, <3>1, <3>2 DEF Alone, Looping
      <4> QED
        BY <1>1, <4>1, CoverStays
    <3> QED
      BY <3>1, <3>3, <3>4
  <2>4. ASSUME NEW a \in Told(c), subscribed[a]
        PROVE  /\ a \in Subscriptions /\ a \in Consumers /\ a # c /\ a \in Cover(c)
               /\ Carrier(a)' /\ Cover(a)' = {a}
    <3>1. a \in Consumers /\ a \in Subscriptions /\ IsTold(a) /\ a # c
      BY <1>1, <1>2 DEF ToldOK, IsTold, Consumers
    <3>2. Place(a) /\ credit[a] >= 1
      BY <1>10, <3>1, StartFacts DEF CreditOK
    <3>3. ~Looping(a) /\ a \notin Listed' /\ a \in Told(c)' /\ Alone(a) /\ ~Looping(c)'
      BY <1>1, <1>3, <1>4, <3>1, <3>2 DEF Place, Looping
    <3>4. Carrier(a)' /\ Cover(a)' = {a}
      BY <1>1, <1>7, <2>4, <3>1, <3>2, <3>3, NewCarrier
    <3>5. a \in Cover(c)
      BY <1>1, <2>4 DEF Cover
    <3> QED
      BY <3>1, <3>4, <3>5
  <2> PICK S : S = {a \in Told(c) : c \in Y /\ subscribed[a]}
    OBVIOUS
  <2> DEFINE Z == (Y \ {c}) \cup S
  <2>5. Z \in SUBSET Subscriptions /\ IsFiniteSet(Z) /\ Y \ {c} \subseteq Z
    <3>1. IsFiniteSet(Y \ {c})
      BY <2>1, FS_Subset
    <3>2. CASE S = {}
      <4>1. Z = Y \ {c}
        BY <3>2
      <4> HIDE DEF Z
      <4> QED
        BY <3>1, <4>1
    <3>3. CASE S # {}
      <4>1. PICK a \in Told(c) : subscribed[a] /\ a \in S
        BY <3>3
      <4>2. S = {a}
        BY <1>1, <1>2, <4>1 DEF ToldOK
      <4>3. Z = (Y \ {c}) \cup {a} /\ a \in Subscriptions
        BY <2>4, <4>1, <4>2
      <4> HIDE DEF Z
      <4> QED
        BY <3>1, <4>3, FS_AddElement
    <3> QED
      BY <3>2, <3>3
  <2>6. \A z \in Z : Carrier(z)'
    BY <2>3, <2>4
  <2>7. Interested(Z)' \subseteq Interested(Y)
    <3> SUFFICES ASSUME NEW x \in Interested(Z)' PROVE x \in Interested(Y)
      OBVIOUS
    <3>1. x \in Listed \/ \E y \in Z : x \in Cover(y)'
      BY <1>4 DEF Interested
    <3>2. CASE \E y \in Y \ {c} : x \in Cover(y)'
      BY <2>3, <3>2 DEF Interested
    <3>3. CASE \E a \in S : x \in Cover(a)'
      BY <2>4, <3>3 DEF Interested
    <3> QED
      BY <3>1, <3>2, <3>3 DEF Interested
  <2>8. Pending(Z)' \subseteq Pending(Y) \ {m}
    <3> SUFFICES ASSUME NEW n \in Pending(Z)' PROVE n \in Pending(Y) \ {m}
      OBVIOUS
    <3>1. PICK x \in Interested(Z)' : n \in Wanted(x)'
      BY DEF Pending
    <3>2. n \in Wanted(x) /\ n # m /\ x \in Interested(Y)
      BY <1>6, <2>7, <3>1 DEF Wanted
    <3> QED
      BY <3>2 DEF Pending
  <2>9. ASSUME NEW n \in Pending(Z)' \cap First'
        PROVE  Cardinality(Carrying(Z, n)') >= Cardinality(UpTo(Pending(Z), n)')
    <3> DEFINE A == Carrying(Y, n)
               D == Carrying(Z, n)'
               P == UpTo(Pending(Y), n)
               Q == UpTo(Pending(Z), n)'
    <3>1. n \in Pending(Y) \cap First /\ n # m
      BY <1>9, <1>10, <2>8
    <3>2. Cardinality(A) >= Cardinality(P)
      BY <2>1, <3>1 DEF Enough
    <3>3. A \in SUBSET Y /\ D \in SUBSET Z
      BY DEF Carrying
    <3>4. IsFiniteSet(A) /\ IsFiniteSet(D) /\ IsFiniteSet(P)
      BY <1>2, <2>1, <2>5, <3>3, FS_Subset, PendingFacts
    <3>5. Q \subseteq P /\ m \notin Q
      BY <2>8 DEF UpTo
    <3>6. IsFiniteSet(Q)
      BY <3>4, <3>5, FS_Subset
    <3>7. A \ {c} \subseteq D
      <4> SUFFICES ASSUME NEW y \in A, y # c PROVE y \in D
        OBVIOUS
      <4>1. y \in Y /\ n \in Carried(y)
        BY DEF Carrying
      <4>2. PICK x \in Cover(y) : n \in Unseen(x)
        BY <4>1 DEF Carried
      <4>3. x \in Consumers
        BY <1>2, <2>3, <4>1, <4>2, CoverFacts
      <4>4. n \in Unseen(x)' /\ x \in Cover(y)'
        BY <1>6, <2>3, <3>1, <4>1, <4>2, <4>3
      <4>5. n \in Carried(y)'
        BY <4>4 DEF Carried
      <4> QED
        BY <4>1, <4>5 DEF Carrying
    <3>8. Cardinality(A) \in Nat /\ Cardinality(D) \in Nat /\ Cardinality(P) \in Nat
            /\ Cardinality(Q) \in Nat /\ Cardinality(Q) <= Cardinality(P)
      BY <3>4, <3>5, <3>6, FS_CardinalityType, FS_Subset
    <3>9. CASE c \in A => \E z \in D : z \notin A \ {c}
      <4> HIDE DEF A, D, P, Q
      <4>1. Cardinality(D) >= Cardinality(A)
        BY <3>4, <3>7, <3>9, Swap
      <4>2. Cardinality(D) >= Cardinality(Q)
        BY <3>2, <3>8, <4>1
      <4> QED
        BY <4>2 DEF D, Q
    <3>10. CASE c \in A /\ n \in Unseen(c)
      <4>1. m \in P
        <5>1. m.sequence <= n.sequence
          BY <1>6, <3>10
        <5>2. c \in Y /\ c \in Cover(c)
          BY <3>10 DEF Carrying, Cover
        <5>3. m \in Pending(Y)
          BY <1>6, <5>2 DEF Pending, Interested
        <5> QED
          BY <5>1, <5>3 DEF UpTo
      <4> HIDE DEF A, D, P, Q
      <4>2. Cardinality(P) >= Cardinality(Q) + 1
        BY <3>4, <3>5, <3>6, <4>1, OneMore
      <4>3. Cardinality(D) + 1 >= Cardinality(A)
        <5>1. Cardinality(A \ {c}) = Cardinality(A) - 1 /\ IsFiniteSet(A \ {c})
          BY <3>4, <3>10, FS_RemoveElement
        <5>2. Cardinality(A \ {c}) <= Cardinality(D)
          BY <3>4, <3>7, FS_Subset
        <5> QED
          BY <3>8, <5>1, <5>2
      <4>4. Cardinality(D) >= Cardinality(Q)
        BY <3>2, <3>8, <4>2, <4>3
      <4> QED
        BY <4>4 DEF D, Q
    <3>11. CASE c \in A /\ n \notin Unseen(c)
      <4>1. c \in Y /\ n \in Carried(c)
        BY <3>11 DEF Carrying
      <4>2. PICK x \in Cover(c) : n \in Unseen(x)
        BY <4>1 DEF Carried
      <4>3. x \in Told(c) /\ subscribed[x]
        BY <3>11, <4>2 DEF Cover
      <4>4. x \in Z /\ x \notin Y \ {c}
        BY <2>3, <4>1, <4>3
      <4>5. n \in Carried(x)'
        <5>1. n \in Unseen(x)' /\ x \in Cover(x)'
          BY <1>6, <2>4, <3>1, <4>2, <4>3
        <5> QED
          BY <5>1 DEF Carried
      <4>6. x \in D /\ x \notin A \ {c}
        BY <3>3, <4>4, <4>5 DEF Carrying
      <4> QED
        BY <3>9, <4>6
    <3> QED
      BY <3>9, <3>10, <3>11
  <2> HIDE DEF Z
  <2>10. Enough(Z)'
    BY <2>9 DEF Enough
  <2> QED
    BY <2>5, <2>6, <2>10 DEF Served
<1>11. listeners = << >> => Served'
  BY <1>1 DEF Served
<1> QED
  BY <1>1, <1>8, <1>9, <1>10, <1>11, StartFacts DEF Account

----------------------------------------------------------------------------
(* A message more                                                          *)

\* h has been told, and with one carrier more than the messages there were, one
\* message more is no more than all the carriers can carry.
LEMMA OneMoreServed ==
    ASSUME IInv, DispatchTypeOK, ListOK, ToldOK, SeenInOrder, Served, listeners # << >>,
           NEW h \in Subscriptions, NEW m, Listed' \subseteq Listed, h \in Listed,
           \A y \in Consumers : Carrier(y) => Carrier(y)' /\ Cover(y)' = Cover(y),
           Carrier(h)', Cover(h)' = {h},
           Waiting' \subseteq Waiting \cup {m},
           \A n \in Waiting' :
              \/ \A d \in Consumers : n \in Unseen(d)'
              \/ /\ n \in Waiting /\ (n \in First' => n \in First)
                 /\ \A d \in Consumers : n \in Unseen(d) => n \in Unseen(d)'
                 /\ m \notin Waiting' \/ ~(m.sequence <= n.sequence)
    PROVE  Served'
<1>1. PICK Y \in SUBSET Subscriptions :
          /\ IsFiniteSet(Y) /\ (\A y \in Y : Carrier(y)) /\ Enough(Y)
          /\ Cardinality(Y) >= Cardinality(Pending(Y))
  BY Normal
<1> DEFINE Z == Y \cup {h}
<1>2. h \notin Y /\ \A y \in Y : y \in Consumers /\ Carrier(y)' /\ Cover(y)' = Cover(y)
  BY <1>1 DEF Carrier
<1>3. /\ Z \in SUBSET Subscriptions /\ IsFiniteSet(Z) /\ Cardinality(Z) = Cardinality(Y) + 1
      /\ Cardinality(Y) \in Nat
  BY <1>1, <1>2, FS_AddElement, FS_CardinalityType
<1>4. \A z \in Z : Carrier(z)'
  BY <1>2
<1>5. Interested(Z)' \subseteq Interested(Y)
  <2> SUFFICES ASSUME NEW x \in Interested(Z)' PROVE x \in Interested(Y)
    OBVIOUS
  <2>1. x \in Listed' \/ \E y \in Z : x \in Cover(y)'
    BY DEF Interested
  <2> QED
    BY <1>2, <2>1 DEF Interested
<1>6. Pending(Z)' \subseteq Pending(Y) \cup {m} /\ Pending(Z)' \subseteq Waiting'
  <2> SUFFICES ASSUME NEW n \in Pending(Z)'
               PROVE  n \in Waiting' /\ n \in Pending(Y) \cup {m}
    OBVIOUS
  <2>1. PICK x \in Interested(Z)' : n \in Wanted(x)'
    BY DEF Pending
  <2>2. n \in Waiting' /\ x \in Interested(Y) /\ (n # m => n \in Wanted(x))
    BY <1>5, <2>1 DEF Wanted
  <2> QED
    BY <2>2 DEF Pending
<1>7. IsFiniteSet(Pending(Y)) /\ \A n : IsFiniteSet(UpTo(Pending(Y), n))
  BY PendingFacts
<1>8. IsFiniteSet(Pending(Y) \cup {m}) /\ Cardinality(Pending(Y) \cup {m}) <= Cardinality(Pending(Y)) + 1
      /\ Cardinality(Pending(Y)) \in Nat /\ Cardinality(Pending(Y) \cup {m}) \in Nat
  <2>1. /\ IsFiniteSet(Pending(Y) \cup {m}) /\ Cardinality(Pending(Y)) \in Nat
        /\ Cardinality(Pending(Y) \cup {m}) = IF m \in Pending(Y) THEN Cardinality(Pending(Y))
                                                                  ELSE Cardinality(Pending(Y)) + 1
    BY <1>7, FS_AddElement, FS_CardinalityType
  <2> QED
    BY <2>1, FS_CardinalityType
<1>9. ASSUME NEW n \in Pending(Z)' \cap First'
      PROVE  Cardinality(Carrying(Z, n)') >= Cardinality(UpTo(Pending(Z), n)')
  <2> DEFINE D == Carrying(Z, n)'
             Q == UpTo(Pending(Z), n)'
  <2>1. \A y \in Z : y \in Cover(y)' /\ y \in Consumers
    BY <1>2, ListFacts DEF Cover
  <2>2. D \in SUBSET Z /\ IsFiniteSet(D)
    <3>1. D \in SUBSET Z
      BY DEF Carrying
    <3> QED
      BY <1>3, <3>1, FS_Subset
  <2>3. CASE \A d \in Consumers : n \in Unseen(d)'
    <3>1. D = Z
      <4>1. \A y \in Z : n \in Carried(y)'
        BY <2>1, <2>3 DEF Carried
      <4> QED
        BY <4>1 DEF Carrying
    <3>2. Q \in SUBSET (Pending(Y) \cup {m})
      BY <1>6 DEF UpTo
    <3>3. Cardinality(Q) <= Cardinality(Pending(Y) \cup {m}) /\ IsFiniteSet(Q)
      BY <1>8, <3>2, FS_Subset
    <3>4. Cardinality(Q) \in Nat
      BY <3>3, FS_CardinalityType
    <3> HIDE DEF D, Q, Z
    <3>5. Cardinality(D) >= Cardinality(Q)
      BY <1>1, <1>3, <1>8, <3>1, <3>3, <3>4
    <3> QED
      BY <3>5 DEF D, Q
  <2>4. CASE /\ n \in Waiting /\ (n \in First' => n \in First)
             /\ \A d \in Consumers : n \in Unseen(d) => n \in Unseen(d)'
             /\ m \notin Waiting' \/ ~(m.sequence <= n.sequence)
    <3> DEFINE A == Carrying(Y, n)
               P == UpTo(Pending(Y), n)
    <3>1. n \in Pending(Y) \cap First
      <4>1. PICK x \in Interested(Z)' : n \in Wanted(x)'
        BY DEF Pending
      <4>2. n \in Wanted(x) /\ x \in Interested(Y)
        BY <1>5, <2>4, <4>1 DEF Wanted
      <4> QED
        BY <2>4, <4>2 DEF Pending
    <3>2. Cardinality(A) >= Cardinality(P)
      BY <1>1, <3>1 DEF Enough
    <3>3. Q \in SUBSET P
      <4> SUFFICES ASSUME NEW x \in Q PROVE x \in P
        OBVIOUS
      <4>1. x \in Pending(Z)' /\ x.sequence <= n.sequence
        BY DEF UpTo
      <4>2. x # m
        BY <1>6, <2>4, <4>1
      <4> QED
        BY <1>6, <4>1, <4>2 DEF UpTo
    <3>4. A \in SUBSET D
      <4> SUFFICES ASSUME NEW y \in A PROVE y \in D
        OBVIOUS
      <4>1. y \in Y /\ n \in Carried(y)
        BY DEF Carrying
      <4>2. PICK x \in Cover(y) : n \in Unseen(x)
        BY <4>1 DEF Carried
      <4>3. x \in Consumers
        BY <1>2, <4>1, <4>2, CoverFacts
      <4>4. n \in Unseen(x)' /\ x \in Cover(y)'
        BY <1>2, <2>4, <4>1, <4>2, <4>3
      <4>5. n \in Carried(y)'
        BY <4>4 DEF Carried
      <4> QED
        BY <4>1, <4>5 DEF Carrying
    <3>5. IsFiniteSet(P)
      BY <1>7
    <3> HIDE DEF D, Q, Z, A, P
    <3>6. /\ Cardinality(Q) <= Cardinality(P) /\ IsFiniteSet(Q)
          /\ Cardinality(A) <= Cardinality(D) /\ IsFiniteSet(A)
      BY <2>2, <3>3, <3>4, <3>5, FS_Subset
    <3>7. Cardinality(Q) \in Nat /\ Cardinality(P) \in Nat /\ Cardinality(A) \in Nat /\ Cardinality(D) \in Nat
      BY <2>2, <3>5, <3>6, FS_CardinalityType
    <3>8. Cardinality(D) >= Cardinality(Q)
      BY <3>2, <3>6, <3>7
    <3> QED
      BY <3>8 DEF D, Q
  <2> QED
    BY <1>6, <2>3, <2>4
<1> HIDE DEF Z
<1>10. Enough(Z)'
  BY <1>9 DEF Enough
<1> QED
  BY <1>3, <1>4, <1>10 DEF Served

\* Thread t has added a message, or put one back, and tells the first on the list.
LEMMA TellMore ==
    ASSUME DispatchInv, NEW t \in Threads, populate(t), Free(t), t \in Subscriptions => ~Looping(t),
           scheduled' = scheduled, thread' = thread, credit' = credit, blocked' = blocked,
           enabled' = enabled, subscribed' = subscribed, stopped' = stopped,
           \A p \in Publishers : pc'[p] = "push" => pc[p] = "push" /\ p # t,
           NEW m, Waiting' \subseteq Waiting \cup {m},
           \A n \in Waiting' :
              \/ \A d \in Consumers : n \in Unseen(d)'
              \/ /\ n \in Waiting
                 /\ \A d \in Consumers : n \in Unseen(d) <=> n \in Unseen(d)'
                 /\ m \notin Waiting' \/ ~(m.sequence <= n.sequence),
           \A c, d \in Consumers : Unseen(d) \subseteq Unseen(c) => Unseen(d)' \subseteq Unseen(c)'
    PROVE  Account'
<1>1. /\ DispatchTypeOK /\ IInv /\ Tokens /\ SeenInOrder /\ ListOK /\ ToldOK /\ Told(t) = {}
  BY StartFacts
<1>2. /\ \A x \in Subscriptions : Alone(x)
      /\ \A x : Looping(x)' <=> Looping(x)
  BY DEF Alone, Looping
<1>3. /\ ListOK' /\ ToldOK' /\ Consumers' = Consumers
      /\ \A u \in Threads : u # t => Told(u)' = Told(u)
      /\ \/ /\ listeners = << >> /\ listeners' = << >> /\ Told(t)' = Told(t)
            /\ Listed = {} /\ Listed' = {} /\ \A x : IsTold(x)' => IsTold(x)
         \/ /\ listeners # << >>
            /\ \E h \in Listed : /\ h = Head(listeners) /\ Shrunk({h}) /\ Listed' = Listed \ {h}
                                 /\ Told(t)' = {h}
                                 /\ \A x : IsTold(x)' => IsTold(x) \/ x = h
  BY PopulateStep
<1>4. \A R : Listed' = Listed \ R /\ (\A x : IsTold(x)' => IsTold(x) \/ x \in Listed \cap R)
          => Tokens' /\ (CreditOK => CreditOK')
  <2> SUFFICES ASSUME NEW R, Listed' = Listed \ R,
                      \A x : IsTold(x)' => IsTold(x) \/ x \in Listed \cap R
               PROVE  Tokens' /\ (CreditOK => CreditOK')
    OBVIOUS
  <2>1. \A x \in Subscriptions : Place(x)'
    <3> TAKE x \in Subscriptions
    <3>1. Place(x)
      BY StartFacts
    <3> QED
      BY <1>3, <3>1 DEF Place
  <2>2. ASSUME NEW x \in Subscriptions PROVE CreditOK /\ x \in Consumers => Funded(x)'
    BY <1>2 DEF CreditOK, Funded, Looping
  <2>3. CASE Subscriptions = {}
    BY <1>3, <2>3 DEF Tokens, EnabledOK, OnePlace, CreditOK, Consumers
  <2>4. CASE Subscriptions # {}
    <3>1. PICK c : c \in Subscriptions
      BY <2>4
    <3> QED
      BY <1>1, <1>2, <1>3, <2>1, <2>2, <3>1, PlaceStep
  <2> QED
    BY <2>3, <2>4
<1>5. CASE listeners = << >>
  <2>1. Tokens' /\ (CreditOK => CreditOK')
    <3>1. Listed' = Listed \ {} /\ \A x : IsTold(x)' => IsTold(x) \/ x \in Listed \cap {}
      BY <1>3, <1>5
    <3> QED
      BY <1>4, <3>1
  <2>2. SeenInOrder' /\ Served'
    BY <1>3, <1>5 DEF SeenInOrder, Served
  <2> QED
    BY <2>1, <2>2, StartFacts DEF Account
<1>6. CASE listeners # << >>
  <2>1. PICK h \in Listed : /\ h = Head(listeners) /\ Shrunk({h}) /\ Listed' = Listed \ {h}
                            /\ Told(t)' = {h}
                            /\ \A x : IsTold(x)' => IsTold(x) \/ x = h
    BY <1>3, <1>6
  <2>2. h \in Consumers /\ h \in Subscriptions /\ subscribed[h] /\ ~Looping(h)
    <3>1. h \in Consumers /\ h \in Subscriptions /\ subscribed[h]
      BY <1>1, <2>1, ListFacts DEF ListOK
    <3>2. Place(h)
      BY <3>1, StartFacts
    <3> QED
      BY <2>1, <3>1, <3>2 DEF Place, Looping
  <2>3. Tokens' /\ (CreditOK => CreditOK')
    <3>1. \A x : IsTold(x)' => IsTold(x) \/ x \in Listed \cap {h}
      BY <2>1
    <3> QED
      BY <1>4, <2>1, <3>1
  <2>4. SeenInOrder'
    <3>1. \A c, d \in Listed : Unseen(d) \subseteq Unseen(c) => Unseen(d)' \subseteq Unseen(c)'
      BY <1>1, ListFacts
    <3> QED
      BY <1>1, <2>1, <3>1, OrderKept
  <2>5. ASSUME ~stopped, listeners' # << >> PROVE Served'
    <3>1. ASSUME NEW y \in Consumers, Carrier(y) PROVE Carrier(y)' /\ Cover(y)' = Cover(y)
      <4>1. /\ y \in Subscriptions /\ y \in Threads /\ y \notin Listed /\ y # h
            /\ y \notin Listed' /\ Alone(y)
        BY <1>2, <2>1, <3>1, ListFacts, StartFacts DEF Carrier, Consumers
      <4>2. \A u \in Threads : y \in Told(u)' <=> y \in Told(u)
        BY <1>1, <1>3, <2>1, <4>1
      <4>3. Carrier(y)'
        BY <1>2, <3>1, <4>1, <4>2, StillCarrier
      <4>4. CASE y = t
        <5>1. ~Looping(y) /\ ~Looping(y)'
          BY <1>2, <4>1, <4>4
        <5> QED
          BY <4>3, <5>1 DEF Cover
      <4>5. CASE y # t
        <5>1. Told(y)' = Told(y) /\ (Looping(y)' <=> Looping(y))
          BY <1>2, <1>3, <4>1, <4>5
        <5> QED
          BY <4>3, <5>1, CoverStays
      <4> QED
        BY <4>4, <4>5
    <3>2. Carrier(h)' /\ Cover(h)' = {h}
      <4>1. credit[h] >= 1
        BY <2>1, <2>2, <2>5, StartFacts DEF CreditOK
      <4>2. h \in Told(t)' /\ h \notin Listed' /\ Alone(h) /\ (t \in Subscriptions => ~Looping(t)')
        BY <1>2, <2>1, <2>2
      <4> QED
        BY <1>3, <2>2, <4>1, <4>2, NewCarrier
    <3>3. ASSUME NEW n \in First', n \in Waiting, \A d \in Consumers : n \in Unseen(d) <=> n \in Unseen(d)'
          PROVE  n \in First
      <4>1. PICK x \in Listed : x = Head(listeners')
        BY <1>1, <2>1, <2>5, FirstShrunk
      <4>2. n \in Unseen(x)' /\ x \in Consumers
        BY <1>1, <4>1, ListFacts DEF First, Unseen
      <4> QED
        BY <1>1, <1>6, <3>3, <4>1, <4>2, FirstFacts
    <3>4. ASSUME NEW n \in Waiting'
          PROVE  \/ \A d \in Consumers : n \in Unseen(d)'
                 \/ /\ n \in Waiting /\ (n \in First' => n \in First)
                    /\ \A d \in Consumers : n \in Unseen(d) => n \in Unseen(d)'
                    /\ m \notin Waiting' \/ ~(m.sequence <= n.sequence)
      BY <3>3
    <3>5. Listed' \subseteq Listed /\ Served
      BY <2>1, <2>5, StartFacts
    <3> HIDE DEF Served
    <3> QED
      BY <1>1, <1>6, <2>1, <2>2, <3>1, <3>2, <3>4, <3>5, OneMoreServed
  <2>6. listeners' = << >> => Served'
    BY DEF Served
  <2> QED
    BY <2>3, <2>4, <2>5, <2>6, StartFacts DEF Account
<1> QED
  BY <1>5, <1>6

\* push() adds a message nobody has seen.
LEMMA DeliverStep ==
    ASSUME DispatchInv, NEW p \in Publishers, NEW k \in Kinds, Deliver(p, k)
    PROVE  Account'
<1>1. /\ Push(p, k) /\ populate(p) /\ scheduled' = scheduled /\ thread' = thread /\ credit' = credit
      /\ blocked' = blocked /\ enabled' = enabled /\ subscribed' = subscribed /\ stopped' = stopped
  BY DEF Deliver
<1>2. p \in Threads /\ p \notin Subscriptions /\ Free(p)
  BY <1>1, ThreadAssumption, StartFacts DEF Push, Threads
<1>3. \A q \in Publishers : pc'[q] = "push" => pc[q] = "push" /\ q # p
  BY <1>1, StartFacts DEF Push, DispatchTypeOK, TypeOK
<1>4. PICK m : /\ m \notin Waiting /\ Waiting' = Waiting \cup {m}
               /\ m.sequence \in Nat
               /\ \A n \in Waiting : n.sequence < m.sequence
               /\ \A c \in Consumers : Unseen(c)' = Unseen(c) \cup {m}
  BY <1>1, StartFacts, PushWaiting
<1>5. ASSUME NEW n \in Waiting'
      PROVE  \/ \A d \in Consumers : n \in Unseen(d)'
             \/ /\ n \in Waiting
                /\ \A d \in Consumers : n \in Unseen(d) <=> n \in Unseen(d)'
                /\ m \notin Waiting' \/ ~(m.sequence <= n.sequence)
  <2>1. CASE n = m
    BY <1>4, <2>1
  <2>2. CASE n # m
    <3>1. n \in Waiting /\ n.sequence \in Nat
      BY <1>4, <2>2, StartFacts, WaitingFacts
    <3>2. ~(m.sequence <= n.sequence)
      BY <1>4, <3>1
    <3> QED
      BY <1>4, <2>2, <3>1, <3>2
  <2> QED
    BY <2>1, <2>2
<1>6. \A c, d \in Consumers : Unseen(d) \subseteq Unseen(c) => Unseen(d)' \subseteq Unseen(c)'
  BY <1>4
<1>7. Waiting' \subseteq Waiting \cup {m}
  BY <1>4
<1> QED
  BY <1>1, <1>2, <1>3, <1>5, <1>6, <1>7, TellMore

\* A closing session gives a message back, if it is still on the queue.
LEMMA RequeueStep ==
    ASSUME DispatchInv, NEW c \in Subscriptions, NEW r \in unacked[c], Requeue(c, r)
    PROVE  Account'
<1>1. /\ Release(c, r) /\ scheduled' = scheduled /\ thread' = thread /\ credit' = credit
      /\ blocked' = blocked /\ enabled' = enabled /\ subscribed' = subscribed /\ stopped' = stopped
      /\ thread[c] = "close" /\ Free(c) /\ c \in Threads /\ ~Looping(c)
      /\ IF found(messages, r.position)
         THEN populate(c)
         ELSE notifying' = notifying /\ listeners' = listeners /\ browsers' = browsers
  BY StartFacts DEF Requeue, ReleaseAndTell, Looping
<1>2. pc' = pc
  BY <1>1 DEF Release
<1>3. CASE found(messages, r.position)
  <2>1. \A q \in Publishers : pc'[q] = "push" => pc[q] = "push" /\ q # c
    BY <1>2, ThreadAssumption
  <2>2. PICK m : Waiting' \subseteq Waiting \cup {m}
    BY <1>1, <1>3, StartFacts, ReleaseWaiting
  <2>3. \A d \in Consumers : Unseen(d)' = Waiting'
    BY <1>1, <1>3, StartFacts, ReleaseWaiting
  <2>4. \A n \in Waiting' : \A d \in Consumers : n \in Unseen(d)'
    BY <2>3
  <2>5. \A a, d \in Consumers : Unseen(d) \subseteq Unseen(a) => Unseen(d)' \subseteq Unseen(a)'
    BY <2>3
  <2> QED
    BY <1>1, <1>3, <2>1, <2>2, <2>4, <2>5, TellMore
<1>4. CASE ~found(messages, r.position)
  <2>1. messages' = messages /\ version' = version /\ cursor' = cursor
    BY <1>1, <1>4 DEF Release, release
  <2>2. Waiting' = Waiting
    BY <2>1 DEF Waiting, Contents
  <2>3. Fewer(Consumers)
    BY <2>1, <2>2, CursorsStay
  <2>4. /\ notifying' = notifying /\ listeners' = listeners /\ browsers' = browsers
        /\ \A x \in Subscriptions : Alone(x)
    BY <1>1, <1>4 DEF Alone
  <2>5. Listed' = Listed /\ IsTold(c)' = IsTold(c) /\ Consumers' = Consumers
    BY <2>4 DEF Listed, IsTold, Told, Consumers, preAcquires
  <2>6. Place(c)' /\ (Funded(c) => Funded(c)')
    BY <1>1, <2>5, StartFacts DEF Place, Funded, Looping
  <2>7. c \in Consumers /\ Carrier(c) =>
           /\ credit'[c] >= 1
           /\ c \in scheduled' \/ thread'[c] \in {"loop", "cancel", "close"} \/ IsTold(c)
    BY <1>1 DEF Carrier
  <2>8. \A p \in Publishers : pc'[p] = "push" => Free(p)
    BY <1>2, StartFacts
  <2>9. Looping(c)' <=> Looping(c)
    BY <1>1 DEF Looping
  <2> QED
    BY <1>1, <2>3, <2>4, <2>6, <2>7, <2>8, <2>9, StartFacts, KeptStep
<1> QED
  BY <1>3, <1>4

----------------------------------------------------------------------------
(* A subscription goes                                                     *)

\* c is off the list, and if there are messages the first of the others is told
\* in its place.
LEMMA CancelStep ==
    ASSUME DispatchInv, NEW c \in Subscriptions, Cancel(c)
    PROVE  Account'
<1>1. /\ c \in Threads /\ thread[c] \in {"cancel", "close"} /\ Free(c) /\ removeListener(c, c)
      /\ UNCHANGED vars /\ scheduled' = scheduled /\ credit' = credit /\ blocked' = blocked
      /\ enabled' = enabled /\ stopped' = stopped /\ ~Looping(c)
  BY StartFacts DEF Cancel, Looping
<1>2. /\ DispatchTypeOK /\ IInv /\ Tokens /\ SeenInOrder /\ ListOK /\ ToldOK
      /\ Place(c) /\ Told(c) = {}
  BY <1>1, StartFacts
<1>3. /\ thread'[c] = "idle" /\ subscribed'[c] = FALSE
      /\ \A x \in Subscriptions : x # c => Alone(x)
  BY <1>1, <1>2 DEF DispatchTypeOK, Cancel, Alone
<1>4. /\ notifying' \in [Threads -> NotificationSet]
      /\ \A x \in Threads : x # c => notifying'[x] = notifying[x]
      /\ browsers' \subseteq browsers
      /\ notifying'[c].browsers = notifying[c].browsers \/ notifying'[c].browsers \subseteq browsers
      /\ \/ available(messages) = {} /\ Shrunk({c}) /\ notifying'[c].consumer = Told(c)
         \/ listeners' = << >> /\ Listed' = {} /\ Shrunk({c})
              /\ notifying'[c].consumer = Told(c)
         \/ \E h \in Listed \ {c} : /\ Shrunk({c, h}) /\ notifying'[c].consumer = {h}
                                    /\ erased(c) # << >> /\ h = Head(erased(c))
  BY <1>1, <1>2, RemoveFacts
<1>5. /\ \A p \in Publishers : pc'[p] = "push" => notifying'[p] = NoNotification
      /\ notifying'[c].browsers \cap Consumers = {} /\ browsers' \cap Consumers = {}
  <2>1. \A p \in Publishers : p # c /\ p \in Threads
    BY <1>1, ThreadAssumption DEF Threads
  <2>2. \A p \in Publishers : pc'[p] = "push" => Free(p)
    BY <1>1, StartFacts DEF vars
  <2>3. notifying[c].browsers \cap Consumers = {} /\ browsers \cap Consumers = {}
    BY <1>1, <1>2 DEF ToldOK, ListOK
  <2> QED
    BY <1>4, <2>1, <2>2, <2>3 DEF Free
<1>6. ASSUME NEW R, Shrunk(R), c \in R,
             notifying'[c].consumer \subseteq Told(c) \/ \E h \in Listed \cap R : notifying'[c].consumer = {h},
             c \notin notifying'[c].consumer
      PROVE  Tokens' /\ (CreditOK => CreditOK')
  <2>1. \A x \in Listed \ R : subscribed'[x]
    <3> TAKE x \in Listed \ R
    <3>1. x \in Subscriptions /\ x # c /\ subscribed[x]
      BY <1>2, <1>6, ListFacts DEF ListOK
    <3> QED
      BY <1>3, <3>1 DEF Alone
  <2>2. /\ ListOK' /\ ToldOK' /\ Listed' = Listed \ R
        /\ \A x : IsTold(x)' => IsTold(x) \/ x \in Listed \cap R
    BY <1>2, <1>4, <1>5, <1>6, <2>1, ListStep
  <2>3. IsTold(c)' => IsTold(c)
    BY <1>4, <1>6 DEF IsTold, Told
  <2>4. c \notin Listed' /\ Consumers' = Consumers
    BY <1>6, <2>2 DEF Consumers, preAcquires
  <2>5. Place(c)'
    BY <1>1, <1>2, <1>3, <2>3, <2>4 DEF Place
  <2>6. CreditOK /\ c \in Consumers => Funded(c)'
    BY <1>1, <1>3, <2>3, <2>4 DEF CreditOK, Funded, Looping
  <2> QED
    BY <1>2, <1>3, <2>2, <2>5, <2>6, PlaceStep
<1>7. /\ Waiting' = Waiting /\ (\A x : Unseen(x)' = Unseen(x)) /\ Fewer(Listed)
  <2>1. Waiting' = Waiting /\ (\A x : Unseen(x)' = Unseen(x)) /\ version' = version /\ cursor' = cursor
    BY <1>1, SameWaiting DEF vars
  <2> QED
    BY <2>1, FewerWaiting
<1>8. \A R : Shrunk(R) => SeenInOrder'
  BY <1>2, <1>7, OrderKept
<1>9. CASE available(messages) = {} /\ Shrunk({c}) /\ notifying'[c].consumer = Told(c)
  <2>1. Tokens' /\ (CreditOK => CreditOK')
    BY <1>2, <1>6, <1>9
  <2>2. Waiting' = {}
    <3>1. Waiting = {}
      BY <1>9 DEF Waiting, Contents, Content, Live, available
    <3> QED
      BY <1>7, <3>1
  <2>3. Served'
    <3>1. Enough({})'
      BY <2>2 DEF Enough, Pending, Wanted
    <3>2. IsFiniteSet({})
      BY FS_EmptySet
    <3> QED
      BY <3>1, <3>2 DEF Served
  <2> QED
    BY <1>1, <1>8, <1>9, <2>1, <2>3, StartFacts DEF Account
<1>10. CASE listeners' = << >> /\ Shrunk({c}) /\ notifying'[c].consumer = Told(c)
  <2>1. Tokens' /\ (CreditOK => CreditOK')
    BY <1>2, <1>6, <1>10
  <2>2. Served'
    BY <1>10 DEF Served
  <2> QED
    BY <1>1, <1>8, <1>10, <2>1, <2>2, StartFacts DEF Account
<1>11. CASE \E h \in Listed \ {c} : /\ Shrunk({c, h}) /\ notifying'[c].consumer = {h}
                                    /\ erased(c) # << >> /\ h = Head(erased(c))
  <2>1. PICK h \in Listed \ {c} : /\ Shrunk({c, h}) /\ notifying'[c].consumer = {h}
                                  /\ erased(c) # << >> /\ h = Head(erased(c))
    BY <1>11
  <2>2. Tokens' /\ (CreditOK => CreditOK')
    BY <1>6, <2>1
  <2>3. /\ Listed' = Listed \ {c, h} /\ Told(c)' = {h}
        /\ \A u \in Threads : u # c => Told(u)' = Told(u)
    BY <1>4, <2>1 DEF Shrunk, Told
  <2>4. h \in Consumers /\ h \in Subscriptions /\ subscribed[h] /\ ~Looping(h)
    <3>1. h \in Consumers /\ h \in Subscriptions /\ subscribed[h]
      BY <1>2, <2>1, ListFacts DEF ListOK
    <3>2. Place(h)
      BY <3>1, StartFacts
    <3> QED
      BY <2>1, <3>1, <3>2 DEF Place, Looping
  <2>5. ASSUME ~stopped, listeners' # << >> PROVE Served'
    <3>0. listeners # << >>
      BY <1>2, <2>1, ListFacts
    <3>1. PICK Y \in SUBSET Subscriptions : IsFiniteSet(Y) /\ (\A y \in Y : Carrier(y)) /\ Enough(Y)
      BY <2>5, <3>0, StartFacts DEF Served
    <3>2. First' \subseteq First /\ First' \subseteq Unseen(h)'
      <4>1. First' \subseteq First /\ Head(listeners)' \in Listed \ {c, h}
        BY <1>2, <1>7, <2>1, <2>5, FirstShrunk
      <4>2. PICK x \in Listed \ {c} : x = Head(listeners)'
        BY <4>1
      <4>3. First' = Unseen(x)'
        BY <4>2 DEF First, Unseen
      <4>4. Unseen(x) \subseteq Unseen(h)
        BY <1>2, <2>1, FirstOfOthers
      <4> QED
        BY <1>7, <4>1, <4>3, <4>4
    <3>3. \A x \in Subscriptions : Looping(x)' <=> Looping(x)
      BY <1>1, <1>3 DEF Alone, Looping
    <3>4. ASSUME NEW y \in Y, y # c
          PROVE  /\ y \in Consumers /\ y \in Subscriptions /\ y \in Threads /\ y \notin Listed
                 /\ Carrier(y)' /\ Told(y)' = Told(y)
      <4>1. /\ Carrier(y) /\ y \in Consumers /\ y \in Subscriptions /\ y \in Threads
            /\ y \notin Listed
        BY <3>1, StartFacts DEF Carrier, Consumers
      <4>2. \A u \in Threads : y \in Told(u)' <=> y \in Told(u)
        BY <1>2, <2>1, <2>3, <4>1
      <4>3. y \notin Listed' /\ Alone(y)
        BY <1>3, <2>3, <3>4, <4>1
      <4>4. Carrier(y)'
        BY <3>3, <4>1, <4>2, <4>3, StillCarrier
      <4> QED
        BY <2>3, <3>4, <4>1, <4>4
    <3>5. ASSUME NEW y \in Y, y # c
          PROVE  /\ Cover(y)' \subseteq Cover(y)
                 /\ c \notin Cover(y) => Cover(y)' = Cover(y)
      <4>1. \A a \in Told(y) : a \in Subscriptions
        BY <1>2, <3>4, <3>5 DEF ToldOK, Consumers
      <4>2. \A a \in Told(y) : subscribed'[a] => subscribed[a]
        BY <1>3, <4>1 DEF Alone
      <4>3. Cover(y)' \subseteq Cover(y)
        BY <3>3, <3>4, <3>5, <4>2 DEF Cover
      <4>4. ASSUME c \notin Cover(y), NEW a \in Told(y), Looping(y), subscribed[a]
            PROVE  subscribed'[a]
        <5>1. a # c
          BY <4>4 DEF Cover
        <5> QED
          BY <1>3, <4>1, <4>4, <5>1 DEF Alone
      <4>5. c \notin Cover(y) => Cover(y) \subseteq Cover(y)'
        BY <3>3, <3>4, <3>5, <4>4 DEF Cover
      <4> QED
        BY <4>3, <4>5
    <3>6. Carrier(h)' /\ Cover(h)' = {h}
      <4>1. credit[h] >= 1
        BY <2>1, <2>4, <2>5, StartFacts DEF CreditOK
      <4>2. h \in Told(c)' /\ h \notin Listed' /\ Alone(h) /\ ~Looping(c)'
        BY <1>1, <1>3, <2>1, <2>3, <2>4, <3>3
      <4>3. ToldOK'
        BY <2>2 DEF Tokens
      <4> QED
        BY <1>1, <2>4, <4>1, <4>2, <4>3, NewCarrier
    <3>7. h \notin Y
      BY <2>1, <3>1 DEF Carrier
    <3> DEFINE Z == (Y \ {c}) \cup {h}
    <3>8. Z \in SUBSET Subscriptions /\ IsFiniteSet(Z)
      <4>1. IsFiniteSet(Y \ {c})
        BY <3>1, FS_Subset
      <4> QED
        BY <2>4, <4>1, FS_AddElement
    <3>9. \A z \in Z : Carrier(z)'
      BY <3>4, <3>6
    <3>10. \A x \in Interested(Z)' : x \in Interested(Y) \/ Wanted(x)' = {}
      <4> SUFFICES ASSUME NEW x \in Interested(Z)' PROVE x \in Interested(Y)
        OBVIOUS
      <4>1. x \in Listed' \/ \E y \in Z : x \in Cover(y)'
        BY DEF Interested
      <4> QED
        BY <2>1, <2>3, <3>5, <3>6, <4>1 DEF Interested
    <3>11. \A m \in First' : m \in Carried(h)'
      BY <3>2, <3>6 DEF Carried
    \* c is a carrier, or one carrier covers it, and not both.
    <3>12. PICK d : /\ Y \ {d} \subseteq Z
                    /\ \A y \in Y \ {d} : y # c /\ c \notin Cover(y)
      <4>1. CASE c \in Y
        <5>1. \A y \in Y \ {c} : c \notin Cover(y)
          BY <1>1, <3>1, <4>1 DEF Cover, Carrier, Consumers
        <5> QED
          BY <5>1
      <4>2. CASE c \notin Y /\ \E y \in Y : c \in Cover(y)
        <5>1. PICK y \in Y : c \in Cover(y)
          BY <4>2
        <5>2. ASSUME NEW z \in Y, c \in Cover(z) PROVE z = y
          <6>1. y # c /\ z # c /\ c \in Told(y) /\ c \in Told(z)
            BY <4>2, <5>1, <5>2 DEF Cover
          <6>2. y \in Threads /\ z \in Threads
            BY <3>4, <6>1
          <6> QED
            BY <1>2, <6>1, <6>2 DEF ToldOK
        <5>3. Y \ {y} \subseteq Z
          BY <4>2
        <5> HIDE DEF Z
        <5> QED
          BY <4>2, <5>2, <5>3
      <4>3. CASE c \notin Y /\ \A y \in Y : c \notin Cover(y)
        BY <4>3
      <4> QED
        BY <4>1, <4>2, <4>3
    <3>13. \A y \in Y \ {d} : Carried(y) \cap First' \subseteq Carried(y)'
      <4> SUFFICES ASSUME NEW y \in Y \ {d} PROVE Carried(y) \subseteq Carried(y)'
        OBVIOUS
      <4>1. Cover(y)' = Cover(y)
        BY <3>5, <3>12
      <4> QED
        BY <1>7, <4>1 DEF Carried
    <3>14. d \in Y => \A m \in Carried(d) \cap First' :
                          \E z \in Z : z \notin Y \ {d} /\ m \in Carried(z)'
      BY <3>7, <3>11
    <3>15. Waiting' \subseteq Waiting /\ Y \ {d} \subseteq Z
      BY <1>7, <3>12
    <3> HIDE DEF Z, Served
    <3> QED
      BY <1>2, <3>1, <3>2, <3>8, <3>9, <3>10, <3>13, <3>14, <3>15, Trade
  <2>6. listeners' = << >> => Served'
    BY DEF Served
  <2> QED
    BY <1>1, <1>8, <2>1, <2>2, <2>5, <2>6, StartFacts DEF Account
<1> QED
  BY <1>4, <1>9, <1>10, <1>11

----------------------------------------------------------------------------
(* The account holds of every state                                        *)

\* Nobody is on the list yet.
LEMMA DispatchInvInit == ASSUME DispatchInit PROVE DispatchInv
<1>1. IInv /\ TypeOK
  BY InvInit DEF DispatchInit, IInv, Sound
<1>2. Publishers \subseteq Threads /\ Subscriptions \subseteq Threads
  BY DEF Threads
<1>3. NoNotification \in NotificationSet /\ NoNotification.consumer = {} /\ NoNotification.browsers = {}
  BY DEF NoNotification, NotificationSet
<1>4. OwnTypes
  <2>1. 0 \in 0 .. MaxCredit
    BY CreditAssumption
  <2>2. << >> \in Seq(Subscriptions)
    OBVIOUS
  <2> QED
    BY <1>3, <2>1, <2>2 DEF DispatchInit, OwnTypes
<1>5. Listed = {} /\ DOMAIN listeners = {}
  BY DEF DispatchInit, Listed
<1>6. \A t \in Threads : Told(t) = {} /\ notifying[t].browsers = {} /\ Free(t)
  BY <1>3 DEF DispatchInit, Told, Free
<1>7. \A c : ~IsTold(c)
  BY <1>6 DEF IsTold
<1>8. ListOK /\ ToldOK
  <2>1. ListOK
    BY <1>5 DEF DispatchInit, ListOK
  <2>2. ToldOK
    BY <1>2, <1>6 DEF ToldOK
  <2> QED
    BY <2>1, <2>2
<1>9. EnabledOK /\ OnePlace
  BY <1>5, <1>7 DEF DispatchInit, EnabledOK, OnePlace, Consumers
<1>10. CreditOK
  BY <1>5, <1>7 DEF DispatchInit, CreditOK, Consumers, Looping
<1>11. SeenInOrder /\ Served
  BY <1>5 DEF SeenInOrder, Served, DispatchInit
<1> QED
  BY <1>1, <1>4, <1>8, <1>9, <1>10, <1>11, TypesOf DEF DispatchInv, Account, Tokens

\* Every step keeps the account.
LEMMA AccountStep ==
    ASSUME DispatchInv, DispatchNext
    PROVE  Account'
<1>1. ASSUME NEW c \in Subscriptions, Loop(c) PROVE Account'
  <2>1. CASE c \in Consumers
    BY <1>1, <2>1, LoopExpiredStep, LoopUnwantedStep, LoopMessageStep, LoopWithoutCreditStep,
       LoopNothingStep, LoopFoundStep DEF Loop
  <2>2. CASE c \notin Consumers
    BY <1>1, <2>2, LoopExpiredStep, LoopFoundStep, BrowserLoops DEF Loop
  <2> QED
    BY <2>1, <2>2
<1>2. ASSUME NEW c \in Subscriptions, Session(c) PROVE Account'
  BY <1>2, FlowStep, CompletedStep, StopStep, CancelStep, DisableStep, AcceptStep, RequeueStep
     DEF Session
<1> QED
  BY <1>1, <1>2, ReserveStep, MakeRoomStep, RemoveStep, DeliverStep, NotifyStep, DoOutputStep
     DEF DispatchNext

\* And so does a step of something else.
LEMMA AccountStutters ==
    ASSUME DispatchInv, UNCHANGED allVars
    PROVE  Account' /\ OwnTypes'
<1>1. UNCHANGED vars /\ UNCHANGED dispatchVars /\ pc' = pc
  BY DEF allVars, vars, dispatchVars
<1>2. Fewer(Consumers)
  BY <1>1, SameWaiting, CursorsStay DEF vars
<1>3. \A p \in Publishers : pc'[p] = "push" => Free(p)
  BY <1>1, StartFacts
<1>4. Account'
  BY <1>1, <1>2, <1>3, QueueOnlyStep
<1>5. OwnTypes'
  BY <1>1, TypesOf, StartFacts DEF OwnTypes, dispatchVars
<1> QED
  BY <1>4, <1>5

\* The invariant is inductive.
LEMMA DispatchInductive == DispatchSpec => []DispatchInv
<1>1. DispatchInit => DispatchInv
  BY DispatchInvInit
<1>2. DispatchInv /\ [DispatchNext]_allVars => DispatchInv'
  <2> SUFFICES ASSUME DispatchInv, [DispatchNext]_allVars PROVE DispatchInv'
    OBVIOUS
  <2>1. IInv'
    <3>1. [Next]_vars
      BY DispatchIsNext DEF allVars, vars
    <3> QED
      BY <3>1, StartFacts, InvStep
  <2>2. Account' /\ OwnTypes'
    BY AccountStep, AccountStutters, OwnTypesStep, StartFacts
  <2>3. DispatchTypeOK'
    <3>1. TypeOK'
      BY <2>1 DEF IInv, Sound
    <3> QED
      BY <2>2, <3>1 DEF DispatchTypeOK, OwnTypes
  <2> QED
    BY <2>1, <2>2, <2>3 DEF DispatchInv
<1> QED
  BY <1>1, <1>2, PTL DEF DispatchSpec

\* Type correctness of the listener list, the notifications, the output tasks
\* and the credit: Queue::getNextMessage, doOutput and the session's commands
\* keep every field within its type, and credit never drops below zero.
THEOREM DispatchTypeCorrect == DispatchSpec => []DispatchTypeOK
<1>1. DispatchInv => DispatchTypeOK
  BY DEF DispatchInv
<1> QED
  BY <1>1, DispatchInductive, PTL

----------------------------------------------------------------------------
(* Nobody is forgotten                                                     *)

\* A consumer that waits for messages and not for credit is to be found
\* somewhere, unless a notification meant for it was overwritten.
Somewhere(c) == enabled[c] /\ ~blocked[c] =>
    c \in Listed \cup scheduled \cup overwritten \/ thread[c] # "idle" \/ IsTold(c)

NobodyForgotten == \A c \in Consumers : Somewhere(c)

\* Who comes off the list is told, and who is told stays so or is overwritten.
Forwarded(x) ==
    /\ x \in Listed => x \in Listed' \/ IsTold(x)'
    /\ IsTold(x) => IsTold(x)' \/ x \in overwritten'
    /\ overwritten \subseteq overwritten'

\* The subscriptions a step leaves alone.
LEMMA AloneSomewhere ==
    ASSUME NEW x, Somewhere(x), Alone(x), Forwarded(x)
    PROVE  Somewhere(x)'
BY DEF Somewhere, Alone, Forwarded

\* Lists and notifications left alone.
LEMMA SameForwarded ==
    ASSUME listeners' = listeners, notifying' = notifying, overwritten' = overwritten, NEW x
    PROVE  Forwarded(x)
BY DEF Forwarded, Listed, IsTold, Told

\* populate() forwards everybody.
LEMMA PopulateForwarded ==
    ASSUME DispatchTypeOK, ListOK, NEW t \in Threads, populate(t), NEW x
    PROVE  Forwarded(x)
<1>1. /\ \A u \in Threads : u # t => Told(u)' = Told(u)
      /\ Told(t) \subseteq overwritten' \cup Told(t)'
      /\ overwritten \subseteq overwritten'
  BY PopulateFacts DEF Told
<1>2. x \in Listed => x \in Listed' \/ IsTold(x)'
  <2>1. CASE listeners = << >>
    BY <2>1, PopulateFacts DEF Listed
  <2>2. CASE listeners # << >>
    <3>1. Listed' = Listed \ {Head(listeners)} /\ Told(t)' = {Head(listeners)}
      BY <2>2, PopulateFacts DEF Shrunk, Told
    <3> QED
      BY <3>1 DEF IsTold
  <2> QED
    BY <2>1, <2>2
<1>3. IsTold(x) => IsTold(x)' \/ x \in overwritten'
  <2> SUFFICES ASSUME NEW u \in Threads, x \in Told(u) PROVE IsTold(x)' \/ x \in overwritten'
    BY DEF IsTold
  <2> QED
    BY <1>1 DEF IsTold
<1> QED
  BY <1>1, <1>2, <1>3 DEF Forwarded

\* Queue::removeListener forwards all but the one it is called for.
LEMMA RemoveForwarded ==
    ASSUME DispatchTypeOK, ListOK, NEW c \in Subscriptions, removeListener(c, c), Told(c) = {},
           overwritten' = overwritten, NEW x, x # c
    PROVE  Forwarded(x)
<1>1. c \in Threads /\ \A u \in Threads : u # c => Told(u)' = Told(u)
  BY ListFacts, RemoveFacts DEF Told
<1>2. IsTold(x) => IsTold(x)'
  <2> SUFFICES ASSUME NEW u \in Threads, x \in Told(u) PROVE IsTold(x)'
    BY DEF IsTold
  <2> QED
    BY <1>1 DEF IsTold
<1>3. x \in Listed => x \in Listed' \/ IsTold(x)'
  <2>1. \/ Shrunk({c})
        \/ \E h : Shrunk({c, h}) /\ Told(c)' = {h}
    BY RemoveFacts DEF Told
  <2>2. CASE Shrunk({c})
    BY <2>2 DEF Shrunk
  <2>3. CASE \E h : Shrunk({c, h}) /\ Told(c)' = {h}
    <3>1. PICK h : Shrunk({c, h}) /\ Told(c)' = {h}
      BY <2>3
    <3>2. Listed' = Listed \ {c, h}
      BY <3>1 DEF Shrunk
    <3>3. x \in Listed /\ x \notin Listed' => x \in Told(c)'
      BY <3>1, <3>2
    <3> QED
      BY <1>1, <3>3 DEF IsTold
  <2> QED
    BY <2>1, <2>2, <2>3
<1> QED
  BY <1>2, <1>3 DEF Forwarded

\* An idle consumer that finds nothing goes on the list.
LEMMA NothingForwarded ==
    ASSUME DispatchInv, NEW c \in Subscriptions, LoopNothing(c)
    PROVE  /\ \A x : Forwarded(x)
           /\ c \in Consumers => c \in Listed'
<1>1. /\ addListener(c) /\ notifying' = notifying /\ overwritten' = overwritten
      /\ DispatchTypeOK /\ ListOK
  BY StartFacts DEF LoopNothing
<1>2. CASE preAcquires(c) /\ ~inListeners(c)
  <2>1. listeners' = Append(listeners, c) /\ c \notin RangeOf(listeners)
    BY <1>1, <1>2 DEF addListener, inListeners, RangeOf
  <2>2. RangeOf(listeners') = RangeOf(listeners) \cup {c}
    <3>1. RangeOf(Append(listeners, c)) = RangeOf(listeners) \cup {c}
      BY <1>1, <2>1, ListFacts, AppendFacts
    <3> QED
      BY <2>1, <3>1
  <2>3. Listed' = Listed \cup {c}
    BY <2>2 DEF Listed, RangeOf
  <2> QED
    BY <1>1, <2>3 DEF Forwarded, IsTold, Told
<1>3. CASE ~(preAcquires(c) /\ ~inListeners(c))
  <2>1. listeners' = listeners
    BY <1>1, <1>3 DEF addListener
  <2>2. c \in Consumers => c \in Listed
    BY <1>1, <1>3 DEF inListeners, ListOK, Listed, Consumers
  <2> QED
    BY <1>1, <2>1, <2>2, SameForwarded DEF Listed
<1> QED
  BY <1>2, <1>3

\* The iterations of the loop of c.
LEMMA LoopSomewhere ==
    ASSUME DispatchInv, NobodyForgotten, NEW c \in Subscriptions, Loop(c)
    PROVE  \A x \in Consumers : Somewhere(x)'
<1>1. /\ DispatchTypeOK /\ ListOK /\ c \in Threads
      /\ \A x \in Consumers : x \in Subscriptions /\ Somewhere(x)
      /\ thread \in [Subscriptions -> {"idle", "loop", "found", "cancel", "close"}]
      /\ blocked \in [Subscriptions -> BOOLEAN]
      /\ credit \in [Subscriptions -> 0 .. MaxCredit]
  BY StartFacts, ListFacts DEF NobodyForgotten, DispatchTypeOK
<1>2. CASE LoopExpired(c)
  BY <1>1, <1>2, SameForwarded, AloneSomewhere DEF LoopExpired, dispatchVars, Alone
<1>3. CASE LoopUnwanted(c)
  <2>1. \A x : Forwarded(x)
    BY <1>1, <1>3, PopulateForwarded, SameForwarded DEF LoopUnwanted
  <2> QED
    BY <1>1, <1>3, <2>1, AloneSomewhere DEF LoopUnwanted, Alone
<1>4. CASE LoopMessage(c)
  <2>1. \A x : Forwarded(x)
    BY <1>4, SameForwarded DEF LoopMessage
  <2>2. thread'[c] = "found"
    BY <1>1, <1>4 DEF LoopMessage
  <2>3. \A x \in Subscriptions : x # c => Alone(x)
    BY <1>1, <1>4 DEF LoopMessage, Alone
  <2>4. Somewhere(c)'
    BY <2>2 DEF Somewhere
  <2> QED
    BY <1>1, <2>1, <2>3, <2>4, AloneSomewhere
<1>5. CASE LoopWithoutCredit(c)
  <2>1. \A x : Forwarded(x)
    BY <1>1, <1>5, PopulateForwarded, SameForwarded DEF LoopWithoutCredit
  <2>2. blocked'[c]
    BY <1>1, <1>5 DEF LoopWithoutCredit
  <2>3. \A x \in Subscriptions : x # c => Alone(x)
    BY <1>1, <1>5 DEF LoopWithoutCredit, Alone
  <2>4. Somewhere(c)'
    BY <2>2 DEF Somewhere
  <2> QED
    BY <1>1, <2>1, <2>3, <2>4, AloneSomewhere
<1>6. CASE LoopNothing(c)
  <2>1. \A x : Forwarded(x)
    BY <1>6, NothingForwarded
  <2>2. \A x \in Subscriptions : x # c => Alone(x)
    BY <1>1, <1>6 DEF LoopNothing, Alone
  <2>3. c \in Consumers => Somewhere(c)'
    BY <1>6, NothingForwarded DEF Somewhere
  <2> QED
    BY <1>1, <2>1, <2>2, <2>3, AloneSomewhere
<1>7. CASE LoopFound(c)
  <2>1. \A x : Forwarded(x)
    BY <1>7, SameForwarded DEF LoopFound
  <2>2. \A x \in Subscriptions : x # c => Alone(x)
    BY <1>1, <1>7 DEF LoopFound, Alone
  <2>3. Somewhere(c)'
    BY <1>7 DEF LoopFound, Somewhere
  <2> QED
    BY <1>1, <2>1, <2>2, <2>3, AloneSomewhere
<1> QED
  BY <1>2, <1>3, <1>4, <1>5, <1>6, <1>7 DEF Loop

\* The commands of the session of c.
LEMMA SessionSomewhere ==
    ASSUME DispatchInv, NobodyForgotten, NEW c \in Subscriptions, Session(c)
    PROVE  \A x \in Consumers : Somewhere(x)'
<1>1. /\ DispatchTypeOK /\ ListOK /\ c \in Threads
      /\ \A x \in Consumers : x \in Subscriptions /\ Somewhere(x)
      /\ thread \in [Subscriptions -> {"idle", "loop", "found", "cancel", "close"}]
      /\ blocked \in [Subscriptions -> BOOLEAN] /\ enabled \in [Subscriptions -> BOOLEAN]
      /\ credit \in [Subscriptions -> 0 .. MaxCredit]
      /\ subscribed \in [Subscriptions -> BOOLEAN]
  BY StartFacts, ListFacts DEF NobodyForgotten, DispatchTypeOK
<1>2. ASSUME \E n \in Grants : Flow(c, n)
      PROVE  \A x \in Consumers : Somewhere(x)'
  <2>1. PICK n \in Grants : Flow(c, n)
    BY <1>2
  <2>2. \A x : Forwarded(x)
    BY <2>1, SameForwarded DEF Flow
  <2>3. \A x \in Subscriptions : x # c => Alone(x)
    BY <1>1, <2>1 DEF Flow, Alone
  <2>4. c \in Consumers => Somewhere(c)'
    <3>1. /\ scheduled' = IF blocked[c] THEN scheduled \cup {c} ELSE scheduled
          /\ thread' = thread /\ enabled' = enabled
      BY <2>1 DEF Flow
    <3> QED
      BY <1>1, <2>2, <3>1 DEF Somewhere, Forwarded
  <2> QED
    BY <1>1, <2>2, <2>3, <2>4, AloneSomewhere
<1>3. CASE Completed(c)
  <2>1. \A x : Forwarded(x)
    BY <1>3, SameForwarded DEF Completed
  <2>2. \A x \in Subscriptions : x # c => Alone(x)
    BY <1>1, <1>3 DEF Completed, Alone
  <2>3. Somewhere(c)'
    BY <1>3 DEF Completed, Somewhere
  <2> QED
    BY <1>1, <2>1, <2>2, <2>3, AloneSomewhere
<1>4. CASE Stop(c)
  <2>1. \A x : Forwarded(x)
    BY <1>4, SameForwarded DEF Stop
  <2>2. /\ thread' = thread /\ blocked' = blocked /\ enabled' = enabled /\ scheduled' = scheduled
    BY <1>4 DEF Stop
  <2>3. \A x \in Consumers : Somewhere(x)'
    BY <1>1, <2>1, <2>2 DEF Somewhere, Forwarded
  <2> QED
    BY <2>3
<1>5. CASE Cancel(c)
  <2>1. /\ removeListener(c, c) /\ Told(c) = {} /\ overwritten' = overwritten
        /\ ~enabled[c] /\ enabled' = enabled
    BY <1>5, StartFacts DEF Cancel, Place
  <2>2. \A x : x # c => Forwarded(x)
    BY <1>1, <2>1, RemoveForwarded
  <2>3. \A x \in Subscriptions : x # c => Alone(x)
    BY <1>1, <1>5 DEF Cancel, Alone
  <2>4. Somewhere(c)'
    BY <2>1 DEF Somewhere
  <2> QED
    BY <1>1, <2>2, <2>3, <2>4, AloneSomewhere
<1>6. ASSUME NEW why \in {"cancel", "close"}, Disable(c, why)
      PROVE  \A x \in Consumers : Somewhere(x)'
  <2>1. \A x : Forwarded(x)
    BY <1>6, SameForwarded DEF Disable
  <2>2. \A x \in Subscriptions : x # c => Alone(x)
    BY <1>1, <1>6 DEF Disable, Alone
  <2>3. ~enabled'[c]
    BY <1>1, <1>6 DEF Disable
  <2>4. Somewhere(c)'
    BY <2>3 DEF Somewhere
  <2> QED
    BY <1>1, <2>1, <2>2, <2>4, AloneSomewhere
<1>7. ASSUME NEW r \in unacked[c], Accept(c, r)
      PROVE  \A x \in Consumers : Somewhere(x)'
  BY <1>1, <1>7, SameForwarded, AloneSomewhere DEF Accept, dispatchVars, Alone
<1>8. ASSUME NEW r \in unacked[c], Requeue(c, r)
      PROVE  \A x \in Consumers : Somewhere(x)'
  <2>1. \A x : Forwarded(x)
    BY <1>1, <1>8, PopulateForwarded, SameForwarded DEF Requeue, ReleaseAndTell
  <2> QED
    BY <1>1, <1>8, <2>1, AloneSomewhere DEF Requeue, ReleaseAndTell, Alone
<1> QED
  BY <1>2, <1>3, <1>4, <1>5, <1>6, <1>7, <1>8 DEF Session

\* Whoever is told and takes notifications is scheduled.
LEMMA NotifySomewhere ==
    ASSUME DispatchInv, NobodyForgotten, NEW t \in Threads, NEW d \in Subscriptions, Notify(t, d)
    PROVE  \A x \in Consumers : Somewhere(x)'
<1>1. /\ \A x \in Consumers : x \in Subscriptions /\ Somewhere(x)
      /\ notifying \in [Threads -> NotificationSet]
  BY StartFacts, ListFacts DEF NobodyForgotten, DispatchTypeOK
<1>2. /\ listeners' = listeners /\ thread' = thread /\ blocked' = blocked /\ enabled' = enabled
      /\ overwritten' = overwritten
      /\ scheduled' = IF enabled[d] THEN scheduled \cup {d} ELSE scheduled
      /\ notifying' = [notifying EXCEPT ![t].consumer = @ \ {d}, ![t].browsers = @ \ {d}]
  BY DEF Notify
<1>3. Listed' = Listed
  BY <1>2 DEF Listed
<1>4. \A x : x # d /\ IsTold(x) => IsTold(x)'
  <2> SUFFICES ASSUME NEW x, x # d, NEW u \in Threads, x \in Told(u) PROVE IsTold(x)'
    BY DEF IsTold
  <2>1. x \in Told(u)'
    BY <1>1, <1>2 DEF Told, NotificationSet
  <2> QED
    BY <2>1 DEF IsTold
<1> QED
  BY <1>1, <1>2, <1>3, <1>4 DEF Somewhere

\* The output task of c runs.
LEMMA DoOutputSomewhere ==
    ASSUME DispatchInv, NobodyForgotten, NEW c \in Subscriptions, DoOutput(c)
    PROVE  \A x \in Consumers : Somewhere(x)'
<1>1. /\ \A x \in Consumers : x \in Subscriptions /\ Somewhere(x)
      /\ thread \in [Subscriptions -> {"idle", "loop", "found", "cancel", "close"}]
      /\ blocked \in [Subscriptions -> BOOLEAN]
  BY StartFacts, ListFacts DEF NobodyForgotten, DispatchTypeOK
<1>2. \A x : Forwarded(x)
  BY SameForwarded DEF DoOutput
<1>3. \A x \in Subscriptions : x # c => Alone(x)
  BY <1>1 DEF DoOutput, Alone
<1>4. thread'[c] # "idle" \/ blocked'[c]
  BY <1>1 DEF DoOutput
<1>5. Somewhere(c)'
  BY <1>4 DEF Somewhere
<1> QED
  BY <1>1, <1>2, <1>3, <1>5, AloneSomewhere

\* Nobody is forgotten in any step.
LEMMA NobodyForgottenStep ==
    ASSUME DispatchInv, NobodyForgotten, [DispatchNext]_allVars
    PROVE  NobodyForgotten'
<1>1. /\ DispatchTypeOK /\ ListOK /\ Publishers \subseteq Threads
      /\ \A x \in Consumers : x \in Subscriptions /\ Somewhere(x)
  BY StartFacts, ListFacts DEF NobodyForgotten
<1>2. SUFFICES \A x \in Consumers : Somewhere(x)'
  BY DEF NobodyForgotten, Consumers, preAcquires
<1>3. CASE UNCHANGED dispatchVars
  BY <1>1, <1>3, SameForwarded, AloneSomewhere DEF dispatchVars, Alone
<1>4. ASSUME NEW p \in Publishers, NEW k \in Kinds, Deliver(p, k)
      PROVE  \A x \in Consumers : Somewhere(x)'
  <2>1. \A x : Forwarded(x)
    BY <1>1, <1>4, PopulateForwarded DEF Deliver
  <2> QED
    BY <1>1, <1>4, <2>1, AloneSomewhere DEF Deliver, Alone
<1>5. UNCHANGED allVars => UNCHANGED dispatchVars
  BY DEF allVars, dispatchVars
<1>6. ASSUME NEW c \in Subscriptions, DoOutput(c) \/ Loop(c) \/ Session(c)
      PROVE  \A x \in Consumers : Somewhere(x)'
  BY <1>6, DoOutputSomewhere, LoopSomewhere, SessionSomewhere
<1> QED
  BY <1>3, <1>4, <1>5, <1>6, NotifySomewhere DEF DispatchNext, Reserve, MakeRoom, Abort, Remove

\* No wake-up is lost but by an overwritten notification or message.stop: when
\* no notification, no output task and no thread is on its way to the queue,
\* no message is left that a consumer is able to take.  The steps are those of
\* DispatchNext, of any number of consumers, browsers and publishers, on plain
\* queues and rings.
THEOREM QuietIsServed == DispatchSpec => []QuietMeansServed
<1>1. DispatchInit => NobodyForgotten
  BY DEF DispatchInit, NobodyForgotten, Somewhere, Consumers
<1>2. DispatchInv /\ NobodyForgotten => QuietMeansServed
  <2> SUFFICES ASSUME DispatchInv, NobodyForgotten, ~stopped,
                      \A c \in Subscriptions : ~OnTheWay(c),
                      NEW c \in Subscriptions, NEW i \in DOMAIN messages, Willing(c, i)
               PROVE  FALSE
    BY DEF QuietMeansServed
  <2>1. IInv /\ DispatchTypeOK /\ ListOK /\ SeenInOrder /\ Served /\ browsers \cap Consumers = {}
    BY StartFacts
  <2>2. c \in Consumers /\ c \in Listed /\ listeners # << >>
    <3>1. c \in Consumers
      BY DEF Willing, Consumers
    <3>2. c \in Listed
      BY <3>1 DEF Willing, NobodyForgotten, Somewhere, OnTheWay, IsTold, Told
    <3> QED
      BY <2>1, <3>1, <3>2, ListFacts
  <2>3. PICK Y \in SUBSET Subscriptions : IsFiniteSet(Y) /\ (\A y \in Y : Carrier(y)) /\ Enough(Y)
    BY <2>1, <2>2 DEF Served
  <2>4. Y = {}
    <3> SUFFICES ASSUME NEW y \in Y PROVE FALSE
      OBVIOUS
    <3>1. Carrier(y) /\ ~OnTheWay(y)
      BY <2>3
    <3> QED
      BY <3>1 DEF Carrier, OnTheWay, IsTold, Told
  <2>5. PICK m : m = messages[i]
    OBVIOUS
  <2>6. m \in Wanted(c) /\ m \in Waiting
    BY <2>5 DEF Willing, Wanted, Waiting, Contents, Content, Live
  <2>7. m \in Pending(Y) \cap First
    <3>1. m \in Pending(Y)
      BY <2>2, <2>6 DEF Pending, Interested
    <3>2. m \in Unseen(c)
      BY <2>1, <2>2, <2>6, UnseenFacts
    <3> QED
      BY <2>1, <2>2, <3>1, <3>2, FirstFacts
  <2>8. Cardinality(Carrying(Y, m)) >= Cardinality(UpTo(Pending(Y), m))
    BY <2>3, <2>7 DEF Enough
  <2>9. Cardinality(Carrying(Y, m)) = 0
    <3>1. Carrying(Y, m) = {}
      BY <2>4 DEF Carrying
    <3> QED
      BY <3>1, FS_EmptySet
  <2>10. m \in UpTo(Pending(Y), m) /\ IsFiniteSet(UpTo(Pending(Y), m))
    <3>1. m.sequence <= m.sequence
      BY <2>1, <2>6, WaitingFacts
    <3> QED
      BY <2>1, <2>7, <3>1, PendingFacts DEF UpTo
  <2>11. Cardinality(UpTo(Pending(Y), m)) \in Nat /\ Cardinality(UpTo(Pending(Y), m)) # 0
    BY <2>10, FS_CardinalityType, FS_EmptySet
  <2> QED
    BY <2>8, <2>9, <2>11
<1> QED
  BY <1>1, <1>2, NobodyForgottenStep, DispatchInductive, PTL DEF DispatchSpec
=============================================================================
