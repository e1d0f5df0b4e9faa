----------------------- MODULE QueueReplication_proofs -----------------------
(***************************************************************************)
(* Theorems about QueueReplication for any number of brokers, of messages  *)
(* and of faults: a backup that reported ready has what the primary's      *)
(* publishers were answered for, no message that a consumer had is left on *)
(* a backup for good, and the queues agree about the order of messages.    *)
(*                                                                         *)
(* The inductive invariant IInv has two halves.                            *)
(*                                                                         *)
(* For the cluster: ids are given in order and name messages (Numbering,   *)
(* Naming), a queue holds an id and a position once (Queues), a message    *)
(* that is not on the queue yet is unknown to every backup (Unpushed),     *)
(* only backups of a primary have guards and subscriptions (Structure),    *)
(* and what was before a message on one broker was before it on every      *)
(* broker that has that message (SameHistory).  The last compares any two  *)
(* brokers, backups among them, since either may be promoted.              *)
(*                                                                         *)
(* For each backup (BackupOK): from the first guarded position on its      *)
(* guard delays what it does not have (GuardOK); before it, the            *)
(* subscription has passed, sent or waits for everything (CursorOK,        *)
(* StoppedOK, ReadyOK); an answer or a dequeue never speaks of a message   *)
(* the backup lacks or the primary still has (AnswersOK, DequeuesOK,       *)
(* SnapshotOK); what is on the way is in order and is the primary's        *)
(* (InTransit); and what only the backup has is listed in a dequeue that   *)
(* comes before any message (Ghosts, GhostsFirst).                         *)
(*                                                                         *)
(* A promoted backup starts to number at its own maxId + 1, so an id can   *)
(* be given twice (Reused).  Nothing is claimed of such ids: the backup    *)
(* that has one already skips the second message of that name.             *)
(***************************************************************************)
EXTENDS QueueReplication, TLAPS, SequenceTheorems, WellFoundedInduction

\* The ids given so far, and what a message is called.
Given == {assigned[i] : i \in DOMAIN assigned}
IsNamed(x) == x.msg \in DOMAIN assigned /\ assigned[x.msg] = x.id

\* The messages in a channel, the ids its dequeue events list, and those of
\* the acknowledgements on the way.
Positions(ch, type) == {i \in 1 .. Len(ch) : ch[i].type = type}
SentIn(ch) == {ch[i].entry : i \in Positions(ch, "message")}
ListedIn(ch) == UNION {ch[i].ids : i \in Positions(ch, "dequeue")}
AcksIn(ak) == {ak[i] : i \in 1 .. Len(ak)}

\* Messages are sent in the order of the queue.
InOrder(ch) == \A i, j \in Positions(ch, "message") :
                   i < j => ch[i].entry.seq < ch[j].entry.seq

\* Is the subscription set up?  What b is about to get, what the dequeue events
\* for it list, and whether b has message e.
Running(b) == sub[b].pc \in {"idle", "fetched"}
InHand(b) == {x \in {sub[b].hand} : sub[b].pc = "fetched"}
Held(b) == SentIn(chan[b]) \cup InHand(b)
Listed(b) == sub[b].dequeues \cup ListedIn(chan[b])
OnB(b, e) == e.id \in IdsOf(queue[b])
Q == queue[primary]

\* The cursor of b's subscription has passed e, and it is not in hand.
Done(b, e) == e.seq < sub[b].cursor \/ (sub[b].pc = "idle" /\ e.seq = sub[b].cursor)

\* Ids are given in order, so none is above the number of messages.
Numbering ==
    /\ \A i \in DOMAIN assigned : assigned[i] <= i
    /\ nextId <= Len(assigned) + 1
    /\ Serving => nextId >= 1
    /\ \A b \in Brokers : maxId[b] <= Len(assigned)

\* What is on a queue or on the way bears the id its message was given.
Naming ==
    /\ \A m \in pending : IsNamed(m)
    /\ \A b \in Brokers : \A e \in queue[b] \cup Held(b) : IsNamed(e)
    /\ \A b \in Brokers : Listed(b) \cup AcksIn(acks[b]) \cup sub[b].skipEnqueue \subseteq Given

\* A queue holds a position and an id once, and below the next one.
Queues ==
    /\ \A b \in Brokers : \A e \in queue[b] :
          1 <= e.seq /\ e.seq <= sequence[b] /\ (b # primary => e.id <= maxId[b])
    /\ \A b \in Brokers : \A e, f \in queue[b] : e.seq = f.seq \/ e.id = f.id => e = f
    /\ Serving => \A e \in Q \cup pending : e.id < nextId
    /\ Serving => \A m \in pending, e \in Q : e.id # m.id
    /\ \A m, n \in pending : m.id = n.id => m = n

\* The ids b's queue, guard and link know of.  A message that is not on the
\* queue yet has none of them.
Seen(b) == IdsOf(queue[b]) \cup IdsOf(Held(b)) \cup Listed(b) \cup AcksIn(acks[b])
             \cup sub[b].skipEnqueue
Unpushed == \A m \in pending : Reused(m.id) \/ \A b \in Brokers : m.id \notin Seen(b)

\* A subscription that is not set up has sent and got nothing.
Unstarted(b) ==
    /\ chan[b] = <<>> /\ acks[b] = <<>>
    /\ sub[b].hand = NoEntry /\ sub[b].cursor = 0 /\ ~sub[b].wasStopped /\ ~sub[b].ready
    /\ sub[b].skipEnqueue = {} /\ sub[b].unready = {}

\* Only connected backups of a primary have a subscription, and it has a guard.
Structure ==
    /\ ~Serving => backups = {} /\ pending = {}
    /\ primary \notin backups
    /\ \A b \in Brokers :
         /\ guard[b].on => b \in backups
         /\ ~guard[b].on => guard[b] = NoGuard
         /\ sub[b].pc # "none" => b \in connected /\ guard[b].on
         /\ sub[b].pc = "none" => sub[b] = NoSub
         /\ ~Running(b) => Unstarted(b)

\* From its first position on, the guard delays what b does not have.
GuardOK(b) == guard[b].on /\ sub[b].pc # "guard" =>
    /\ guard[b].first <= sequence[primary] + 1
    /\ \A e \in Q : ~Reused(e.id) /\ e.seq >= guard[b].first =>
          e.id \in guard[b].delayed \/ (Running(b) /\ OnB(b, e))

\* What changed since the snapshot is on the list of dequeues.
SnapshotOK(b) == sub[b].pc = "snapshot" =>
    /\ sub[b].primaryIds \subseteq IdsOf(Q) \cup sub[b].dequeues
    /\ \A e \in Q : ~Reused(e.id) /\ OnB(b, e) => e.id \in sub[b].primaryIds

\* What b acknowledges, or is known to have, it has.
AnswersOK(b) == Running(b) =>
    \A e \in Q : ~Reused(e.id) /\ e.id \in AcksIn(acks[b]) \cup sub[b].skipEnqueue => OnB(b, e)

\* Dequeues never list a message of the primary.
DequeuesOK(b) == sub[b].pc # "none" =>
    \A e \in Q : ~Reused(e.id) => e.id \notin Listed(b)

\* position() lags behind the cursor and never runs ahead of it.
CursorOK(b) == Running(b) =>
    /\ sub[b].cursor <= sequence[primary]
    /\ sub[b].position <= sequence[primary] + 1
    /\ \A e \in Q : e.seq < sub[b].position => Done(b, e)
    /\ sub[b].pc = "fetched" =>
          /\ sub[b].hand.seq = sub[b].cursor /\ sub[b].position <= sub[b].cursor
          /\ \A e \in Q : e.seq = sub[b].cursor => e = sub[b].hand

\* stopped() was called when the queue had been browsed to its end.
StoppedOK(b) == Running(b) =>
    /\ sub[b].wasStopped => \A e \in Q : e.seq > sub[b].cursor => e.seq >= guard[b].first
    /\ sub[b].wasStopped /\ sub[b].pc = "fetched" => sub[b].cursor >= guard[b].first
    /\ sub[b].ready => sub[b].wasStopped \/ sub[b].position + 1 >= guard[b].first

\* What the subscription passed before the guard is there or awaited.
ReadyOK(b) == Running(b) =>
    \A e \in Q : ~Reused(e.id) /\ e.seq + 1 < guard[b].first =>
        /\ sub[b].ready => OnB(b, e)
        /\ Done(b, e) => OnB(b, e) \/ e.id \in sub[b].unready

\* Messages are sent in order, once, and each is on the primary or its dequeue
\* is about to be sent.
InTransit(b) == Running(b) =>
    /\ InOrder(chan[b])
    /\ \A e \in SentIn(chan[b]) : Done(b, e)
    /\ \A e \in Held(b) : e \in Q \/ (e.msg \in consumed /\ e.id \in sub[b].dequeues)
    /\ \A e \in Q : ~Reused(e.id) /\ Done(b, e) => OnB(b, e) \/ e \in SentIn(chan[b])

\* A message that only b has is on the list of dequeues.
Ghosts(b) == Running(b) => IdsOf(queue[b]) \subseteq IdsOf(Q) \cup sub[b].dequeues

\* A message no consumer had, with an id of its own.
Live(e) == e.msg \notin consumed /\ ~Reused(e.id)

\* ... or in the event b gets next, before any message that was behind it.
GhostsFirst(b) == Running(b) => \A e \in queue[b] : Live(e) =>
    \/ e.id \in IdsOf(Q)
    \/ /\ chan[b] # <<>> /\ Head(chan[b]).type = "dequeue"
       /\ e.id \in Head(chan[b]).ids

BackupOK(b) ==
    /\ GuardOK(b) /\ SnapshotOK(b) /\ AnswersOK(b) /\ DequeuesOK(b) /\ CursorOK(b)
    /\ StoppedOK(b) /\ ReadyOK(b) /\ InTransit(b) /\ Ghosts(b) /\ GhostsFirst(b)

\* Whatever was before a message on one broker was before it on every broker
\* that has that message.
SameHistory == \A b, c \in Brokers : \A e, f \in queue[b], g \in queue[c] :
    Live(e) /\ Live(f) /\ e.seq < f.seq /\ g.id = f.id =>
        \E h \in queue[c] : h.id = e.id /\ h.seq < g.seq

\* The inductive invariant.
IInv ==
    /\ TypeOK /\ Numbering /\ Naming /\ Queues /\ Unpushed /\ Structure
    /\ \A b \in Brokers : BackupOK(b)
    /\ SameHistory

----------------------------------------------------------------------------
(* Queues, channels and acknowledgements                                   *)

\* The order of the naturals, as a relation.
LessThan == {ss \in Nat \X Nat : ss[1] < ss[2]}

\* A queue that is not empty has a message a consumer comes to first.
LEMMA FirstProperties ==
    ASSUME NEW q \in SUBSET Entry, q # {}
    PROVE  First(q) \in q /\ \A f \in q : First(q).seq <= f.seq
<1> DEFINE S == {e.seq : e \in q}
<1>1. S \subseteq Nat /\ S # {}
  BY DEF Entry
<1>2. IsWellFoundedOn(LessThan, Nat)
  <2>1. OpToRel(<, Nat) = LessThan
    BY DEF OpToRel, LessThan
  <2> QED
    BY <2>1, NatLessThanWellFounded
<1>3. PICK n \in S : \A y \in S : ~(<<y, n>> \in LessThan)
  BY <1>1, <1>2, WFMin
<1>4. PICK e \in q : e.seq = n
  BY <1>3
<1>5. \A f \in q : e.seq <= f.seq
  <2> TAKE f \in q
  <2>1. f.seq \in S /\ f.seq \in Nat /\ n \in Nat
    BY <1>1
  <2>2. <<f.seq, n>> \in Nat \X Nat /\ ~(<<f.seq, n>> \in LessThan)
    BY <1>3, <2>1
  <2>3. ~(f.seq < n)
    BY <2>2 DEF LessThan
  <2> QED
    BY <2>1, <2>3, <1>4
<1> QED
  BY <1>5 DEF First

\* An empty channel.
LEMMA EmptyChannel ==
    /\ SentIn(<<>>) = {} /\ ListedIn(<<>>) = {} /\ AcksIn(<<>>) = {} /\ InOrder(<<>>)
  BY DEF SentIn, ListedIn, AcksIn, InOrder, Positions

\* A message is sent after what the channel holds.
LEMMA AppendMessage ==
    ASSUME NEW ch \in Seq(Transfer), NEW e \in Entry, NEW new,
           new = Append(ch, [type |-> "message", entry |-> e])
    PROVE  /\ new \in Seq(Transfer) /\ new # <<>>
           /\ SentIn(new) = SentIn(ch) \cup {e}
           /\ ListedIn(new) = ListedIn(ch)
           /\ InOrder(ch) /\ (\A x \in SentIn(ch) : x.seq < e.seq) => InOrder(new)
           /\ ch # <<>> => Head(new) = Head(ch)
<1> DEFINE m == [type |-> "message", entry |-> e]
<1>1. m \in Transfer
  BY DEF Transfer
<1>2. /\ new \in Seq(Transfer) /\ Len(new) = Len(ch) + 1
      /\ \A i \in 1 .. Len(ch) : new[i] = ch[i]
      /\ new[Len(ch) + 1] = m
  BY <1>1
<1>3. Positions(new, "message") = Positions(ch, "message") \cup {Len(ch) + 1}
  BY <1>2 DEF Positions
<1>4. Positions(new, "dequeue") = Positions(ch, "dequeue")
  BY <1>2 DEF Positions
<1>5. SentIn(new) = SentIn(ch) \cup {e}
  <2>1. \A i \in Positions(ch, "message") : new[i].entry = ch[i].entry
    BY <1>2 DEF Positions
  <2>2. new[Len(ch) + 1].entry = e
    BY <1>2
  <2>3. ASSUME NEW x \in SentIn(new) PROVE x \in SentIn(ch) \cup {e}
    <3>1. PICK i \in Positions(new, "message") : x = new[i].entry
      BY DEF SentIn
    <3> QED
      BY <1>3, <2>1, <2>2, <3>1 DEF SentIn
  <2>4. ASSUME NEW x \in SentIn(ch) PROVE x \in SentIn(new)
    <3>1. PICK i \in Positions(ch, "message") : x = ch[i].entry
      BY DEF SentIn
    <3> QED
      BY <1>3, <2>1, <3>1 DEF SentIn
  <2>5. e \in SentIn(new)
    BY <1>3, <2>2 DEF SentIn
  <2> QED
    BY <2>3, <2>4, <2>5
<1>6. ListedIn(new) = ListedIn(ch)
  <2>1. \A i \in Positions(ch, "dequeue") : new[i].ids = ch[i].ids
    BY <1>2 DEF Positions
  <2> QED
    BY <1>4, <2>1 DEF ListedIn
<1>7. ASSUME InOrder(ch), \A x \in SentIn(ch) : x.seq < e.seq
      PROVE  InOrder(new)
  <2> SUFFICES ASSUME NEW i \in Positions(new, "message"), NEW j \in Positions(new, "message"),
                      i < j
               PROVE  new[i].entry.seq < new[j].entry.seq
    BY DEF InOrder
  <2>1. i \in Positions(ch, "message") /\ new[i] = ch[i]
    BY <1>2, <1>3 DEF Positions
  <2>2. CASE j \in Positions(ch, "message")
    <3>1. new[j] = ch[j]
      BY <2>2, <1>2 DEF Positions
    <3> QED
      BY <2>1, <2>2, <3>1, <1>7 DEF InOrder
  <2>3. CASE j = Len(ch) + 1
    <3>1. new[j].entry = e
      BY <2>3, <1>2
    <3>2. ch[i].entry \in SentIn(ch)
      BY <2>1 DEF SentIn
    <3> QED
      BY <2>1, <3>1, <3>2, <1>7
  <2> QED
    BY <1>3, <2>2, <2>3
<1>8. ch # <<>> => Head(new) = Head(ch)
  BY <1>2
<1>9. new # <<>>
  BY <1>2
<1> QED
  BY <1>2, <1>5, <1>6, <1>7, <1>8, <1>9

\* The dequeues so far are sent after what the channel holds.
LEMMA AppendDequeues ==
    ASSUME NEW ch \in Seq(Transfer), NEW s, s.dequeues \in SUBSET Ids, NEW new,
           new = ch \o DequeueEvent(s)
    PROVE  /\ new \in Seq(Transfer)
           /\ SentIn(new) = SentIn(ch)
           /\ ListedIn(new) = ListedIn(ch) \cup s.dequeues
           /\ InOrder(ch) => InOrder(new)
           /\ ch # <<>> => new # <<>> /\ Head(new) = Head(ch)
           /\ ch = <<>> /\ s.dequeues # {} =>
                 new # <<>> /\ Head(new) = [type |-> "dequeue", ids |-> s.dequeues]
<1>1. CASE s.dequeues = {}
  <2>1. new = ch
    BY <1>1 DEF DequeueEvent
  <2> QED
    BY <1>1, <2>1
<1>2. CASE s.dequeues # {}
  <2> DEFINE d == [type |-> "dequeue", ids |-> s.dequeues]
  <2>1. d \in Transfer
    BY DEF Transfer
  <2>2. new = ch \o <<d>>
    BY <1>2 DEF DequeueEvent
  <2>3. /\ new \in Seq(Transfer) /\ Len(new) = Len(ch) + 1
        /\ \A i \in 1 .. Len(ch) : new[i] = ch[i]
        /\ new[Len(ch) + 1] = d
    BY <2>1, <2>2
  <2>4. Positions(new, "message") = Positions(ch, "message")
    BY <2>3 DEF Positions
  <2>5. Positions(new, "dequeue") = Positions(ch, "dequeue") \cup {Len(ch) + 1}
    BY <2>3 DEF Positions
  <2>6. \A i \in Positions(ch, "message") : new[i] = ch[i]
    BY <2>3 DEF Positions
  <2>7. SentIn(new) = SentIn(ch)
    BY <2>4, <2>6 DEF SentIn
  <2>8. ListedIn(new) = ListedIn(ch) \cup s.dequeues
    <3>1. \A i \in Positions(ch, "dequeue") : new[i].ids = ch[i].ids
      BY <2>3 DEF Positions
    <3>2. new[Len(ch) + 1].ids = s.dequeues
      BY <2>3
    <3>3. ASSUME NEW x \in ListedIn(new) PROVE x \in ListedIn(ch) \cup s.dequeues
      <4>1. PICK i \in Positions(new, "dequeue") : x \in new[i].ids
        BY DEF ListedIn
      <4> QED
        BY <2>5, <3>1, <3>2, <4>1 DEF ListedIn
    <3>4. ASSUME NEW x \in ListedIn(ch) PROVE x \in ListedIn(new)
      <4>1. PICK i \in Positions(ch, "dequeue") : x \in ch[i].ids
        BY DEF ListedIn
      <4> QED
        BY <2>5, <3>1, <4>1 DEF ListedIn
    <3>5. s.dequeues \subseteq ListedIn(new)
      BY <2>5, <3>2 DEF ListedIn
    <3> QED
      BY <3>3, <3>4, <3>5
  <2>9. InOrder(ch) => InOrder(new)
    BY <2>4, <2>6 DEF InOrder
  <2>10. ch # <<>> => new # <<>> /\ Head(new) = Head(ch)
    BY <2>3
  <2>11. ASSUME ch = <<>> PROVE new # <<>> /\ Head(new) = d
    <3>1. Len(ch) = 0
      BY <2>11
    <3>2. new[1] = d /\ Len(new) = 1
      BY <2>3, <3>1
    <3> QED
      BY <2>3, <3>2
  <2> QED
    BY <2>3, <2>7, <2>8, <2>9, <2>10, <2>11
<1> QED
  BY <1>1, <1>2

\* What is left when the front of a channel has been received.
LEMMA TailProperties ==
    ASSUME NEW ch \in Seq(Transfer), ch # <<>>
    PROVE  /\ Tail(ch) \in Seq(Transfer) /\ Head(ch) \in Transfer
           /\ SentIn(Tail(ch)) \subseteq SentIn(ch) /\ ListedIn(Tail(ch)) \subseteq ListedIn(ch)
           /\ InOrder(ch) => InOrder(Tail(ch))
           /\ Head(ch).type = "message" =>
                 /\ SentIn(ch) = SentIn(Tail(ch)) \cup {Head(ch).entry}
                 /\ InOrder(ch) => \A x \in SentIn(Tail(ch)) : Head(ch).entry.seq < x.seq
           /\ Head(ch).type = "dequeue" =>
                 SentIn(Tail(ch)) = SentIn(ch) /\ Head(ch).ids \subseteq ListedIn(ch)
<1> DEFINE t == Tail(ch)
<1>1. /\ t \in Seq(Transfer) /\ Len(ch) \in Nat \ {0} /\ Len(t) = Len(ch) - 1
      /\ \A i \in 1 .. Len(t) : t[i] = ch[i + 1]
      /\ Head(ch) = ch[1] /\ ch[1] \in Transfer
  OBVIOUS
<1> HIDE DEF t
<1>2. \A type : \A i \in Positions(t, type) :
          i + 1 \in Positions(ch, type) /\ t[i] = ch[i + 1]
  BY <1>1 DEF Positions
<1>3. \A type : \A i \in Positions(ch, type) :
          i # 1 => i - 1 \in Positions(t, type) /\ t[i - 1] = ch[i]
  BY <1>1 DEF Positions
<1>4. SentIn(t) \subseteq SentIn(ch)
  BY <1>2 DEF SentIn
<1>5. ListedIn(t) \subseteq ListedIn(ch)
  BY <1>2 DEF ListedIn
<1>6. ASSUME InOrder(ch) PROVE InOrder(t)
  <2> SUFFICES ASSUME NEW i \in Positions(t, "message"), NEW j \in Positions(t, "message"), i < j
               PROVE  t[i].entry.seq < t[j].entry.seq
    BY DEF InOrder
  <2>1. i \in Nat /\ j \in Nat /\ i + 1 < j + 1
    BY DEF Positions
  <2> QED
    BY <2>1, <1>2, <1>6 DEF InOrder
<1>7. ASSUME Head(ch).type = "message"
      PROVE  SentIn(ch) = SentIn(t) \cup {Head(ch).entry}
  <2>1. 1 \in Positions(ch, "message")
    BY <1>1, <1>7 DEF Positions
  <2>2. Head(ch).entry \in SentIn(ch)
    BY <1>1, <2>1 DEF SentIn
  <2>3. \A x \in SentIn(ch) : x \in SentIn(t) \cup {Head(ch).entry}
    <3> TAKE x \in SentIn(ch)
    <3>1. PICK i \in Positions(ch, "message") : x = ch[i].entry
      BY DEF SentIn
    <3>2. CASE i = 1
      BY <3>1, <3>2, <1>1
    <3>3. CASE i # 1
      BY <3>1, <3>3, <1>3 DEF SentIn
    <3> QED
      BY <3>2, <3>3
  <2> QED
    BY <1>4, <2>2, <2>3
<1>8. ASSUME Head(ch).type = "message", InOrder(ch), NEW x \in SentIn(t)
      PROVE  Head(ch).entry.seq < x.seq
  <2>1. 1 \in Positions(ch, "message")
    BY <1>1, <1>8 DEF Positions
  <2>2. PICK i \in Positions(t, "message") : x = t[i].entry
    BY DEF SentIn
  <2>3. i \in Nat /\ 1 < i + 1
    BY DEF Positions
  <2> QED
    BY <2>1, <2>2, <2>3, <1>1, <1>2, <1>8 DEF InOrder
<1>9. ASSUME Head(ch).type = "dequeue"
      PROVE  SentIn(t) = SentIn(ch) /\ Head(ch).ids \subseteq ListedIn(ch)
  <2>1. 1 \in Positions(ch, "dequeue") /\ 1 \notin Positions(ch, "message")
    BY <1>1, <1>9 DEF Positions
  <2>2. SentIn(ch) \subseteq SentIn(t)
    BY <2>1, <1>3 DEF SentIn
  <2> QED
    BY <2>1, <2>2, <1>1, <1>4 DEF ListedIn
<1> QED
  BY <1>1, <1>4, <1>5, <1>6, <1>7, <1>8, <1>9 DEF t

\* Acknowledgements arrive in the order they were sent.
LEMMA AppendAck ==
    ASSUME NEW ak \in Seq(Ids), NEW id \in Ids
    PROVE  /\ Append(ak, id) \in Seq(Ids)
           /\ AcksIn(Append(ak, id)) = AcksIn(ak) \cup {id}
  BY DEF AcksIn

\* The acknowledgement that arrives is one of those on the way.
LEMMA TailAck ==
    ASSUME NEW ak \in Seq(Ids), ak # <<>>
    PROVE  /\ Tail(ak) \in Seq(Ids) /\ Head(ak) \in AcksIn(ak) /\ Head(ak) \in Ids
           /\ AcksIn(Tail(ak)) \subseteq AcksIn(ak)
<1> DEFINE t == Tail(ak)
<1>1. /\ t \in Seq(Ids) /\ Len(ak) \in Nat \ {0} /\ Len(t) = Len(ak) - 1
      /\ \A i \in 1 .. Len(t) : t[i] = ak[i + 1]
      /\ Head(ak) = ak[1] /\ ak[1] \in Ids
  OBVIOUS
<1> HIDE DEF t
<1>2. AcksIn(t) \subseteq AcksIn(ak)
  BY <1>1 DEF AcksIn
<1>3. Head(ak) \in AcksIn(ak)
  BY <1>1 DEF AcksIn
<1> QED
  BY <1>1, <1>2, <1>3 DEF t

----------------------------------------------------------------------------
(* Types                                                                   *)

\* Membership::update keeps the type of the views.
LEMMA BroadcastType ==
    ASSUME TypeOK, NEW members \in [Brokers -> Status], Broadcast(members)
    PROVE  view' \in [Brokers -> [Brokers -> Status]]
  BY DEF TypeOK, Broadcast

\* checkReady() gives every broker a status.
LEMMA ActivatedType ==
    ASSUME NEW members \in [Brokers -> Status]
    PROVE  Activated(members) \in [Brokers -> Status]
<1>1. "active" \in Status
  BY DEF Status
<1> QED
  BY <1>1 DEF Activated

\* Completion of messages.
LEMMA SettleType ==
    ASSUME TypeOK, NEW guards, NEW waiting \in SUBSET [id : Ids, msg : Messages],
           Settle(guards, waiting)
    PROVE  incomplete' \subseteq [id : Ids, msg : Messages] /\ acked' \subseteq Messages
  BY DEF TypeOK, Settle

\* What checkReady() does to the subscription and what it leaves alone.
LEMMA CheckReadyEffect ==
    ASSUME TypeOK, NEW b \in Brokers, NEW s \in Subscription, NEW g, CheckReady(b, s, g)
    PROVE  /\ sub' \in [Brokers -> Subscription]
           /\ \A x \in Brokers : x # b => sub'[x] = sub[x]
           /\ sub'[b].pc = s.pc /\ sub'[b].primaryIds = s.primaryIds
           /\ sub'[b].hand = s.hand /\ sub'[b].cursor = s.cursor
           /\ sub'[b].position = s.position /\ sub'[b].dequeues = s.dequeues
           /\ sub'[b].skipEnqueue = s.skipEnqueue /\ sub'[b].unready = s.unready
           /\ sub'[b].wasStopped <=> s.wasStopped
           /\ sub'[b].ready <=> s.ready \/ BecomesReady(s, g)
           /\ UNCHANGED <<primary, backups, connected, timer>>
<1> DEFINE r == [s EXCEPT !.ready = s.ready \/ BecomesReady(s, g)]
<1>1. (s.ready \/ BecomesReady(s, g)) \in BOOLEAN
  OBVIOUS
<1>2. r \in Subscription
  BY <1>1 DEF Subscription
<1>3. /\ r.pc = s.pc /\ r.primaryIds = s.primaryIds /\ r.hand = s.hand /\ r.cursor = s.cursor
      /\ r.position = s.position /\ r.dequeues = s.dequeues
      /\ r.skipEnqueue = s.skipEnqueue /\ r.unready = s.unready
      /\ r.wasStopped = s.wasStopped
      /\ r.ready = (s.ready \/ BecomesReady(s, g))
  BY DEF Subscription
<1> HIDE DEF r
<1>4. sub' = [sub EXCEPT ![b] = r]
  BY DEF CheckReady, r
<1>5. sub' \in [Brokers -> Subscription] /\ sub'[b] = r
      /\ \A x \in Brokers : x # b => sub'[x] = sub[x]
  BY <1>2, <1>4 DEF TypeOK
<1>6. UNCHANGED <<primary, backups, connected, timer>>
  BY DEF CheckReady
<1> QED
  BY <1>3, <1>5, <1>6

\* checkReady() keeps the type of what the primary knows of its backups.
LEMMA CheckReadyType ==
    ASSUME TypeOK, NEW b \in backups, NEW s, NEW g, CheckReady(b, s, g), Serving
    PROVE  /\ view' \in [Brokers -> [Brokers -> Status]]
           /\ catchup' \subseteq backups /\ reported' \subseteq backups /\ expected' \subseteq backups
<1>1. catchup' \subseteq backups /\ reported' \subseteq backups /\ expected' \subseteq backups
  BY DEF TypeOK, CheckReady
<1>2. view' \in [Brokers -> [Brokers -> Status]]
  <2>1. CASE view' = view
    BY <2>1 DEF TypeOK
  <2>2. CASE Broadcast(Activated([view[primary] EXCEPT ![b] = "ready"]))
    <3>1. [view[primary] EXCEPT ![b] = "ready"] \in [Brokers -> Status]
      BY DEF TypeOK, Serving, Status
    <3> QED
      BY <2>2, <3>1, ActivatedType, BroadcastType
  <2> QED
    BY <2>1, <2>2 DEF CheckReady
<1> QED
  BY <1>1, <1>2

\* The end of the connections of some backups.
LEMMA DisconnectEffect ==
    ASSUME TypeOK, NEW gone, BackupDisconnect(gone)
    PROVE  /\ guard' \in [Brokers -> Guard] /\ sub' \in [Brokers -> Subscription]
           /\ chan' \in [Brokers -> Seq(Transfer)] /\ acks' \in [Brokers -> Seq(Ids)]
           /\ incomplete' \subseteq [id : Ids, msg : Messages] /\ acked' \subseteq Messages
           /\ backups' = backups \ gone /\ connected' = connected \ gone
           /\ catchup' = catchup \ gone /\ reported' = reported \ gone
           /\ expected' = expected \ gone
           /\ \A x \in Brokers : x \in gone =>
                 guard'[x] = NoGuard /\ sub'[x] = NoSub /\ chan'[x] = <<>> /\ acks'[x] = <<>>
           /\ \A x \in Brokers : x \notin gone =>
                 /\ guard'[x] = guard[x] /\ sub'[x] = sub[x]
                 /\ chan'[x] = chan[x] /\ acks'[x] = acks[x]
<1>1. NoGuard \in Guard /\ NoSub \in Subscription
  BY DEF NoGuard, Guard, NoSub, Subscription, NoEntry
<1>2. <<>> \in Seq(Transfer) /\ <<>> \in Seq(Ids)
  OBVIOUS
<1>3. guard' \in [Brokers -> Guard] /\ sub' \in [Brokers -> Subscription]
  BY <1>1 DEF BackupDisconnect, TypeOK
<1>4. chan' \in [Brokers -> Seq(Transfer)] /\ acks' \in [Brokers -> Seq(Ids)]
  BY <1>2 DEF BackupDisconnect, TypeOK
<1>5. incomplete' \subseteq [id : Ids, msg : Messages] /\ acked' \subseteq Messages
  BY SettleType DEF BackupDisconnect, TypeOK
<1> QED
  BY <1>3, <1>4, <1>5 DEF BackupDisconnect

\* A guard that completes a message still is a guard.
LEMMA CompleteEffect ==
    ASSUME NEW g \in Guard, NEW id
    PROVE  /\ Complete(g, id) \in Guard
           /\ Complete(g, id).on = g.on /\ Complete(g, id).first = g.first
           /\ Complete(g, id).delayed = g.delayed \ {id}
  BY DEF Complete, Guard

----------------------------------------------------------------------------
(* Every step keeps the types                                              *)

\* The ids given are bounded by the number of messages.
LEMMA GivenFacts ==
    ASSUME TypeOK, Numbering
    PROVE  \A id \in Given : id \in Ids /\ id <= Len(assigned) /\ id <= MaxMessages
<1> TAKE id \in Given
<1>1. PICK i \in DOMAIN assigned : id = assigned[i]
  BY DEF Given
<1>2. i \in 1 .. Len(assigned) /\ assigned[i] \in Ids
  BY DEF TypeOK
<1> QED
  BY <1>1, <1>2, ReplicationAssumption DEF Numbering, TypeOK, Ids

\* A subscription that works belongs to a connected backup of a primary.
LEMMA SubscribedFacts ==
    ASSUME TypeOK, Structure, NEW b \in Brokers, sub[b].pc # "none"
    PROVE  Serving /\ b \in connected /\ b \in backups /\ b # primary /\ guard[b].on
  BY DEF TypeOK, Structure, Serving

\* Only a subscription that is set up has something on the way.
LEMMA ChannelFacts ==
    ASSUME TypeOK, Structure, NEW b \in Brokers, chan[b] # <<>> \/ acks[b] # <<>>
    PROVE  Running(b) /\ sub[b].pc # "none"
  BY DEF Structure, Unstarted, Running

\* Publishing and consuming keep the types.
LEMMA PublisherTypes ==
    ASSUME TypeOK, Numbering, Structure, Record \/ Push \/ Dequeue
    PROVE  TypeOK'
<1>1. CASE Record
  <2>1. nextId \in Ids /\ nextId + 1 \in 0 .. MaxMessages + 1
    BY <1>1, ReplicationAssumption DEF Record, TypeOK, Numbering, Ids
  <2>2. Append(assigned, nextId) \in Seq(Ids) /\ Len(Append(assigned, nextId)) = Len(assigned) + 1
    BY <2>1 DEF TypeOK
  <2>3. Len(assigned) + 1 \in Messages
    BY <1>1, ReplicationAssumption DEF Record, TypeOK, Messages
  <2>4. pending' \subseteq [id : Ids, msg : Messages]
    BY <1>1, <2>1, <2>3 DEF Record, TypeOK
  <2>5. Len(assigned') <= MaxMessages
    BY <1>1, <2>2, ReplicationAssumption DEF Record, TypeOK
  <2> QED
    BY <1>1, <2>1, <2>2, <2>4, <2>5
    DEF Record, TypeOK, answerVars, memberVars, linkVars
<1>2. CASE Push
  <2>1. PICK m \in pending :
          LET g == [b \in Brokers |-> IF guard[b].on
                                      THEN [guard[b] EXCEPT !.delayed = @ \cup {m.id}]
                                      ELSE guard[b]]
          IN  /\ pending' = pending \ {m}
              /\ sequence' = [sequence EXCEPT ![primary] = @ + 1]
              /\ queue' = [queue EXCEPT ![primary] =
                             @ \cup {[id |-> m.id, msg |-> m.msg, seq |-> sequence[primary] + 1]}]
              /\ guard' = g
              /\ Settle(g, incomplete \cup {m})
    BY <1>2 DEF Push
  <2>2. m \in [id : Ids, msg : Messages] /\ primary \in Brokers
    BY <1>2 DEF TypeOK, Push, Serving
  <2>3. guard' \in [Brokers -> Guard]
    <3>1. \A x \in Brokers : [guard[x] EXCEPT !.delayed = @ \cup {m.id}] \in Guard
      BY <2>2 DEF TypeOK, Guard
    <3> QED
      BY <2>1, <3>1 DEF TypeOK
  <2>4. incomplete' \subseteq [id : Ids, msg : Messages] /\ acked' \subseteq Messages
    BY <2>1, <2>2, SettleType DEF TypeOK
  <2>5. queue' \in [Brokers -> SUBSET Entry] /\ sequence' \in [Brokers -> Nat]
    <3>1. [id |-> m.id, msg |-> m.msg, seq |-> sequence[primary] + 1] \in Entry
      BY <2>2 DEF Entry, TypeOK
    <3> QED
      BY <2>1, <2>2, <3>1 DEF TypeOK
  <2> QED
    BY <1>2, <2>1, <2>3, <2>4, <2>5 DEF Push, TypeOK, memberVars, linkVars
<1>3. CASE Dequeue
  <2>1. PICK e \in queue[primary] :
          LET g == [b \in Brokers |-> GuardDequeued(guard[b], e.id)]
          IN  /\ queue' = [queue EXCEPT ![primary] = @ \ {e}]
              /\ guard' = g
              /\ Settle(g, incomplete)
              /\ consumed' = consumed \cup {e.msg}
              /\ sub' = [b \in Brokers |-> IF Observes(sub[b])
                           THEN [sub[b] EXCEPT !.dequeues = @ \cup {e.id}, !.notified = TRUE]
                           ELSE sub[b]]
    BY <1>3 DEF Dequeue
  <2>2. primary \in Brokers /\ e \in Entry
    BY <1>3 DEF TypeOK, Dequeue, Serving
  <2>3. guard' \in [Brokers -> Guard]
    BY <2>1, CompleteEffect DEF TypeOK, GuardDequeued
  <2>4. incomplete' \subseteq [id : Ids, msg : Messages] /\ acked' \subseteq Messages
    BY <2>1, SettleType DEF TypeOK
  <2>5. queue' \in [Brokers -> SUBSET Entry] /\ consumed' \subseteq Messages
    BY <2>1, <2>2 DEF TypeOK, Entry
  <2>6. sub' \in [Brokers -> Subscription]
    <3>1. ASSUME NEW s \in Subscription
          PROVE  [s EXCEPT !.dequeues = @ \cup {e.id}, !.notified = TRUE] \in Subscription
      BY <2>2 DEF Entry, Subscription
    <3> QED
      BY <2>1, <3>1 DEF TypeOK
  <2> QED
    BY <1>3, <2>3, <2>4, <2>5, <2>6 DEF Dequeue, TypeOK, memberVars, linkVars
<1> QED
  BY <1>1, <1>2, <1>3

\* The steps that set up b's guard and subscription, on the two of them.
LEMMA SubscriptionStep ==
    ASSUME TypeOK, NEW b \in Brokers, NEW r \in Subscription, sub' = [sub EXCEPT ![b] = r]
    PROVE  /\ sub' \in [Brokers -> Subscription] /\ sub'[b] = r
           /\ \A x \in Brokers : x # b => sub'[x] = sub[x]
  BY DEF TypeOK

\* A step that changes b's guard alone.
LEMMA GuardStep ==
    ASSUME TypeOK, NEW b \in Brokers, NEW g \in Guard, guard' = [guard EXCEPT ![b] = g]
    PROVE  /\ guard' \in [Brokers -> Guard] /\ guard'[b] = g
           /\ \A x \in Brokers : x # b => guard'[x] = guard[x]
  BY DEF TypeOK

\* After a failover the subscription takes the guard that waits for it.
LEMMA TakeGuardEffect ==
    ASSUME TypeOK, NEW b \in Brokers, TakeGuard(b)
    PROVE  /\ sub' \in [Brokers -> Subscription]
           /\ \A x \in Brokers : x # b => sub'[x] = sub[x]
           /\ sub'[b] = [sub[b] EXCEPT !.pc = "attached"]
<1>0. sub[b] \in Subscription
  BY DEF TypeOK
<1>1. [sub[b] EXCEPT !.pc = "attached"] \in Subscription
  BY <1>0 DEF Subscription
<1>2. sub' = [sub EXCEPT ![b] = [sub[b] EXCEPT !.pc = "attached"]]
  BY DEF TakeGuard
<1> QED
  BY <1>1, <1>2, SubscriptionStep

\* A new guard observes the queue before it has a first position.
LEMMA StartGuardEffect ==
    ASSUME TypeOK, NEW b \in Brokers, StartGuard(b)
    PROVE  /\ sub' \in [Brokers -> Subscription] /\ guard' \in [Brokers -> Guard]
           /\ \A x \in Brokers : x # b => sub'[x] = sub[x] /\ guard'[x] = guard[x]
           /\ sub'[b] = [sub[b] EXCEPT !.pc = "guard"]
           /\ guard'[b] = [guard[b] EXCEPT !.on = TRUE]
<1>0. sub[b] \in Subscription /\ guard[b] \in Guard
  BY DEF TypeOK
<1>1. [sub[b] EXCEPT !.pc = "guard"] \in Subscription /\ [guard[b] EXCEPT !.on = TRUE] \in Guard
  BY <1>0 DEF Subscription, Guard
<1>2. sub' = [sub EXCEPT ![b] = [sub[b] EXCEPT !.pc = "guard"]]
      /\ guard' = [guard EXCEPT ![b] = [guard[b] EXCEPT !.on = TRUE]]
  BY DEF StartGuard
<1> QED
  BY <1>1, <1>2, SubscriptionStep, GuardStep

\* The guard's first position is behind everything on the queue.
LEMMA SetFirstEffect ==
    ASSUME TypeOK, NEW b \in Brokers, SetFirst(b), Serving
    PROVE  /\ sub' \in [Brokers -> Subscription] /\ guard' \in [Brokers -> Guard]
           /\ \A x \in Brokers : x # b => sub'[x] = sub[x] /\ guard'[x] = guard[x]
           /\ sub'[b] = [sub[b] EXCEPT !.pc = "attached"]
           /\ guard'[b] = [guard[b] EXCEPT !.first = sequence[primary] + 1]
<1>0. sub[b] \in Subscription /\ guard[b] \in Guard /\ sequence[primary] + 1 \in Nat
  BY DEF TypeOK, Serving
<1>1. /\ [sub[b] EXCEPT !.pc = "attached"] \in Subscription
      /\ [guard[b] EXCEPT !.first = sequence[primary] + 1] \in Guard
  BY <1>0 DEF Subscription, Guard
<1>2. sub' = [sub EXCEPT ![b] = [sub[b] EXCEPT !.pc = "attached"]]
      /\ guard' = [guard EXCEPT ![b] = [guard[b] EXCEPT !.first = sequence[primary] + 1]]
  BY DEF SetFirst
<1> QED
  BY <1>1, <1>2, SubscriptionStep, GuardStep

\* The snapshot holds the ids on the primary's queue.
LEMMA SnapshotEffect ==
    ASSUME TypeOK, NEW b \in Brokers, Snapshot(b), Serving
    PROVE  /\ sub' \in [Brokers -> Subscription]
           /\ \A x \in Brokers : x # b => sub'[x] = sub[x]
           /\ sub'[b] = [sub[b] EXCEPT !.pc = "snapshot", !.primaryIds = IdsOf(Q)]
<1>1. IdsOf(Q) \in SUBSET Ids
  BY DEF TypeOK, Serving, IdsOf, Entry, Q
<1>0. sub[b] \in Subscription
  BY DEF TypeOK
<1>2. [sub[b] EXCEPT !.pc = "snapshot", !.primaryIds = IdsOf(Q)] \in Subscription
  BY <1>0, <1>1 DEF Subscription
<1>3. sub' = [sub EXCEPT ![b] = [sub[b] EXCEPT !.pc = "snapshot", !.primaryIds = IdsOf(Q)]]
  BY DEF Snapshot, Q
<1> QED
  BY <1>2, <1>3, SubscriptionStep

\* A backup that connects and sets up keeps the types.
LEMMA SetUpTypes ==
    ASSUME TypeOK, Structure, NEW b \in Brokers,
           Opened(b) \/ TakeGuard(b) \/ StartGuard(b) \/ SetFirst(b) \/ Snapshot(b)
    PROVE  TypeOK'
<1>1. CASE Opened(b)
  <2>1. connected' \subseteq backups' /\ backups' \subseteq Brokers /\ catchup' \subseteq backups'
        /\ expected' \subseteq backups'
    BY <1>1 DEF Opened, TypeOK
  <2>2. view' \in [Brokers -> [Brokers -> Status]]
    <3>1. view[primary] \in [Brokers -> Status] /\ "catchup" \in Status
      BY <1>1 DEF Opened, TypeOK, Serving, Status
    <3>2. [view[primary] EXCEPT ![b] = "catchup"] \in [Brokers -> Status]
      BY <3>1
    <3> QED
      BY <1>1, <3>1, <3>2, BroadcastType DEF Opened
  <2> QED
    BY <1>1, <2>1, <2>2 DEF Opened, TypeOK, queueVars, answerVars, linkVars
<1>2. CASE TakeGuard(b)
  BY <1>2, TakeGuardEffect DEF TakeGuard, TypeOK, queueVars, answerVars, memberVars, linkVars
<1>3. CASE StartGuard(b)
  BY <1>3, StartGuardEffect DEF StartGuard, TypeOK, queueVars, answerVars, memberVars, linkVars
<1>4. CASE SetFirst(b)
  <2>1. Serving
    BY <1>4, SubscribedFacts DEF SetFirst
  <2> QED
    BY <1>4, <2>1, SetFirstEffect
    DEF SetFirst, TypeOK, queueVars, answerVars, memberVars, linkVars
<1>5. CASE Snapshot(b)
  <2>1. Serving
    BY <1>5, SubscribedFacts DEF Snapshot
  <2> QED
    BY <1>5, <2>1, SnapshotEffect
    DEF Snapshot, TypeOK, queueVars, answerVars, memberVars, linkVars
<1> QED
  BY <1>1, <1>2, <1>3, <1>4, <1>5

----------------------------------------------------------------------------
(* What the steps of a running subscription do                             *)

\* b has just become ready, or was ready before.
ReadyFor(b) == sub'[b].ready => sub[b].ready \/
    /\ sub'[b].unready = {}
    /\ sub'[b].wasStopped \/ sub'[b].position + 1 >= guard[b].first

\* Everything of the other backups' links is as it was.
OthersStay(b) == \A x \in Brokers : x # b =>
    guard'[x] = guard[x] /\ sub'[x] = sub[x] /\ chan'[x] = chan[x] /\ acks'[x] = acks[x]

\* The dequeues so far have been sent.
DequeuesSent(b, D) ==
    /\ chan' \in [Brokers -> Seq(Transfer)]
    /\ SentIn(chan'[b]) = SentIn(chan[b])
    /\ ListedIn(chan'[b]) = ListedIn(chan[b]) \cup D
    /\ InOrder(chan[b]) => InOrder(chan'[b])
    /\ chan[b] # <<>> => chan'[b] # <<>> /\ Head(chan'[b]) = Head(chan[b])
    /\ chan[b] = <<>> /\ D # {} =>
          chan'[b] # <<>> /\ Head(chan'[b]) = [type |-> "dequeue", ids |-> D]

\* The dequeue event goes behind what the channel holds.
LEMMA SendDequeues ==
    ASSUME TypeOK, NEW b \in Brokers, NEW s, s.dequeues \in SUBSET Ids,
           chan' = [chan EXCEPT ![b] = @ \o DequeueEvent(s)]
    PROVE  DequeuesSent(b, s.dequeues) /\ \A x \in Brokers : x # b => chan'[x] = chan[x]
<1>1. chan[b] \in Seq(Transfer)
  BY DEF TypeOK
<1>2. chan'[b] = chan[b] \o DequeueEvent(s)
  BY DEF TypeOK
<1>3. chan'[b] \in Seq(Transfer)
  BY <1>1, <1>2, AppendDequeues
<1>4. chan' \in [Brokers -> Seq(Transfer)]
  BY <1>2, <1>3 DEF TypeOK
<1>5. \A x \in Brokers : x # b => chan'[x] = chan[x]
  BY DEF TypeOK
<1> QED
  BY <1>1, <1>2, <1>4, <1>5, AppendDequeues DEF DequeuesSent

\* The end of initialize(): the difference of the two queues is listed.
LEMMA InitializeEffect ==
    ASSUME TypeOK, Structure, NEW b \in Brokers, Initialize(b)
    PROVE  /\ sub' \in [Brokers -> Subscription] /\ OthersStay(b)
           /\ Serving /\ b \in backups /\ b # primary /\ sub[b].pc = "snapshot"
           /\ sub'[b].pc = "idle"
           /\ sub'[b].hand = sub[b].hand /\ sub'[b].cursor = sub[b].cursor
           /\ sub'[b].unready = sub[b].unready
           /\ sub'[b].wasStopped <=> sub[b].wasStopped
           /\ sub'[b].dequeues = sub[b].dequeues \cup (IdsOf(queue[b]) \ sub[b].primaryIds)
           /\ sub'[b].skipEnqueue = IdsOf(queue[b]) \cap sub[b].primaryIds
           /\ Q = {} => sub'[b].position = sequence[primary] + 1
           /\ \A e \in Q : sub'[b].position <= e.seq
           /\ Q # {} => \E e \in Q : sub'[b].position = e.seq
           /\ ReadyFor(b)
           /\ DequeuesSent(b, sub'[b].dequeues)
           /\ UNCHANGED <<guard, acks, primary, backups, connected, timer, queueVars, answerVars, faults>>
           /\ view' \in [Brokers -> [Brokers -> Status]]
           /\ catchup' \subseteq backups /\ reported' \subseteq backups /\ expected' \subseteq backups
<1> DEFINE ids == IdsOf(queue[b])
           front == IF Q = {} THEN sequence[primary] + 1 ELSE First(Q).seq
           s == [sub[b] EXCEPT
                   !.pc = "idle", !.primaryIds = {}, !.notified = TRUE,
                   !.dequeues = @ \cup (ids \ sub[b].primaryIds),
                   !.skipEnqueue = ids \cap sub[b].primaryIds,
                   !.position = front]
<1>1. sub[b].pc = "snapshot" /\ chan' = [chan EXCEPT ![b] = @ \o DequeueEvent(s)]
      /\ CheckReady(b, s, guard[b])
      /\ UNCHANGED <<queueVars, answerVars, acks, guard, faults>>
  BY DEF Initialize, Q
<1>2. Serving /\ b \in backups /\ b # primary /\ primary \in Brokers
  BY <1>1, SubscribedFacts DEF Serving
<1>3. ids \in SUBSET Ids /\ Q \in SUBSET Entry /\ sequence[primary] \in Nat
  BY <1>2 DEF TypeOK, IdsOf, Entry, Q
<1>4. /\ front \in Nat /\ \A e \in Q : front <= e.seq
      /\ Q # {} => \E e \in Q : front = e.seq
      /\ Q = {} => front = sequence[primary] + 1
  BY <1>3, FirstProperties DEF Entry
<1> HIDE DEF front, ids
<1>5. sub[b] \in Subscription
  BY DEF TypeOK
<1>6. s \in Subscription
  BY <1>3, <1>4, <1>5 DEF Subscription
<1>7. /\ s.pc = "idle" /\ s.hand = sub[b].hand /\ s.cursor = sub[b].cursor
      /\ s.unready = sub[b].unready /\ s.wasStopped = sub[b].wasStopped
      /\ s.ready = sub[b].ready
      /\ s.dequeues = sub[b].dequeues \cup (ids \ sub[b].primaryIds)
      /\ s.skipEnqueue = ids \cap sub[b].primaryIds
      /\ s.position = front
  BY <1>5 DEF Subscription
<1>8. s.dequeues \in SUBSET Ids
  BY <1>6 DEF Subscription
<1> HIDE DEF s
<1>9. DequeuesSent(b, s.dequeues) /\ \A x \in Brokers : x # b => chan'[x] = chan[x]
  BY <1>1, <1>8, SendDequeues
<1>10. /\ sub' \in [Brokers -> Subscription]
       /\ \A x \in Brokers : x # b => sub'[x] = sub[x]
       /\ sub'[b].pc = s.pc /\ sub'[b].hand = s.hand /\ sub'[b].cursor = s.cursor
       /\ sub'[b].position = s.position /\ sub'[b].dequeues = s.dequeues
       /\ sub'[b].skipEnqueue = s.skipEnqueue /\ sub'[b].unready = s.unready
       /\ sub'[b].wasStopped <=> s.wasStopped
       /\ sub'[b].ready <=> s.ready \/ BecomesReady(s, guard[b])
       /\ UNCHANGED <<primary, backups, connected, timer>>
  BY <1>1, <1>6, CheckReadyEffect
<1>11. ReadyFor(b)
  BY <1>7, <1>10 DEF ReadyFor, BecomesReady, IsGuarded
<1>12. OthersStay(b)
  BY <1>1, <1>9, <1>10 DEF OthersStay
<1>13. /\ view' \in [Brokers -> [Brokers -> Status]]
       /\ catchup' \subseteq backups /\ reported' \subseteq backups /\ expected' \subseteq backups
  BY <1>1, <1>2, CheckReadyType
<1> QED
  BY <1>1, <1>2, <1>4, <1>7, <1>9, <1>10, <1>11, <1>12, <1>13 DEF ids

\* doDispatch finds a message, or nothing.
FetchesMessage(b) ==
    /\ sub'[b].pc = "fetched" /\ sub'[b].hand \in Q /\ sub'[b].cursor = sub'[b].hand.seq
    /\ sub'[b].cursor > sub[b].cursor
    /\ \A f \in Q : f.seq > sub[b].cursor => sub'[b].cursor <= f.seq
    /\ sub'[b].wasStopped <=> sub[b].wasStopped
    /\ sub'[b].ready <=> sub[b].ready

FetchesNothing(b) ==
    /\ sub'[b].pc = "idle" /\ sub'[b].hand = sub[b].hand /\ sub'[b].cursor = sub[b].cursor
    /\ \A f \in Q : ~(f.seq > sub[b].cursor)
    /\ sub'[b].wasStopped
    /\ ReadyFor(b)

\* doDispatch() fetches the next message or finds none.
LEMMA FetchEffect ==
    ASSUME TypeOK, Structure, NEW b \in Brokers, Fetch(b)
    PROVE  /\ sub' \in [Brokers -> Subscription] /\ OthersStay(b)
           /\ Serving /\ b \in backups /\ b # primary /\ sub[b].pc = "idle"
           /\ sub'[b].position = sub[b].position /\ sub'[b].dequeues = sub[b].dequeues
           /\ sub'[b].skipEnqueue = sub[b].skipEnqueue /\ sub'[b].unready = sub[b].unready
           /\ FetchesMessage(b) \/ FetchesNothing(b)
           /\ DequeuesSent(b, sub[b].dequeues)
           /\ UNCHANGED <<guard, acks, primary, backups, connected, timer, queueVars, answerVars, faults>>
           /\ view' \in [Brokers -> [Brokers -> Status]]
           /\ catchup' \subseteq backups /\ reported' \subseteq backups /\ expected' \subseteq backups
<1> DEFINE next == {e \in Q : e.seq > sub[b].cursor}
<1>1. /\ sub[b].pc = "idle"
      /\ chan' = [chan EXCEPT ![b] = @ \o DequeueEvent(sub[b])]
      /\ UNCHANGED <<queueVars, answerVars, acks, guard, faults>>
  BY DEF Fetch
<1>2. Serving /\ b \in backups /\ b # primary /\ primary \in Brokers
  BY <1>1, SubscribedFacts DEF Serving
<1>3. sub[b] \in Subscription /\ Q \in SUBSET Entry /\ sub[b].cursor \in Nat
      /\ sub[b].dequeues \in SUBSET Ids
  BY <1>2 DEF TypeOK, Subscription, Q
<1>4. DequeuesSent(b, sub[b].dequeues) /\ \A x \in Brokers : x # b => chan'[x] = chan[x]
  BY <1>1, <1>3, SendDequeues
<1>5. CASE next # {}
  <2> DEFINE e == First(next)
             r == [sub[b] EXCEPT !.pc = "fetched", !.hand = e, !.cursor = e.seq]
  <2>1. e \in next /\ \A f \in next : e.seq <= f.seq
    BY <1>3, <1>5, FirstProperties
  <2>2. e \in Entry /\ e \in Q /\ e.seq \in Nat /\ e.seq > sub[b].cursor
    BY <2>1, <1>3 DEF Entry
  <2>3. sub' = [sub EXCEPT ![b] = r] /\ UNCHANGED memberVars
    BY <1>5 DEF Fetch, Q
  <2> HIDE DEF e
  <2>4. r \in Subscription
    BY <1>3, <2>2 DEF Subscription
  <2>5. /\ r.pc = "fetched" /\ r.hand = e /\ r.cursor = e.seq
        /\ r.position = sub[b].position /\ r.dequeues = sub[b].dequeues
        /\ r.skipEnqueue = sub[b].skipEnqueue /\ r.unready = sub[b].unready
        /\ r.wasStopped = sub[b].wasStopped /\ r.ready = sub[b].ready
    BY <1>3 DEF Subscription
  <2> HIDE DEF r
  <2>6. sub' \in [Brokers -> Subscription] /\ sub'[b] = r
        /\ \A x \in Brokers : x # b => sub'[x] = sub[x]
    BY <2>3, <2>4, SubscriptionStep
  <2>7. FetchesMessage(b)
    BY <2>1, <2>2, <2>5, <2>6 DEF FetchesMessage
  <2>8. OthersStay(b)
    BY <1>1, <1>4, <2>6 DEF OthersStay
  <2> QED
    BY <1>1, <1>2, <1>4, <2>3, <2>5, <2>6, <2>7, <2>8 DEF memberVars, TypeOK
<1>6. CASE next = {}
  <2> DEFINE s == [sub[b] EXCEPT !.wasStopped = TRUE, !.notified = FALSE]
  <2>1. CheckReady(b, s, guard[b])
    BY <1>6 DEF Fetch, Q
  <2>2. s \in Subscription
    BY <1>3 DEF Subscription
  <2>3. /\ s.pc = sub[b].pc /\ s.hand = sub[b].hand /\ s.cursor = sub[b].cursor
        /\ s.position = sub[b].position /\ s.dequeues = sub[b].dequeues
        /\ s.skipEnqueue = sub[b].skipEnqueue /\ s.unready = sub[b].unready
        /\ s.wasStopped = TRUE /\ s.ready = sub[b].ready
    BY <1>3 DEF Subscription
  <2> HIDE DEF s
  <2>4. /\ sub' \in [Brokers -> Subscription]
        /\ \A x \in Brokers : x # b => sub'[x] = sub[x]
        /\ sub'[b].pc = s.pc /\ sub'[b].hand = s.hand /\ sub'[b].cursor = s.cursor
        /\ sub'[b].position = s.position /\ sub'[b].dequeues = s.dequeues
        /\ sub'[b].skipEnqueue = s.skipEnqueue /\ sub'[b].unready = s.unready
        /\ sub'[b].wasStopped <=> s.wasStopped
        /\ sub'[b].ready <=> s.ready \/ BecomesReady(s, guard[b])
        /\ UNCHANGED <<primary, backups, connected, timer>>
    BY <2>1, <2>2, CheckReadyEffect
  <2>5. ReadyFor(b)
    BY <2>3, <2>4 DEF ReadyFor, BecomesReady, IsGuarded
  <2>6. \A f \in Q : ~(f.seq > sub[b].cursor)
    BY <1>6
  <2>7. FetchesNothing(b)
    BY <1>1, <2>3, <2>4, <2>5, <2>6 DEF FetchesNothing
  <2>8. OthersStay(b)
    BY <1>1, <1>4, <2>4 DEF OthersStay
  <2>9. /\ view' \in [Brokers -> [Brokers -> Status]]
        /\ catchup' \subseteq backups /\ reported' \subseteq backups /\ expected' \subseteq backups
    BY <1>2, <2>1, CheckReadyType
  <2> QED
    BY <1>1, <1>2, <1>4, <2>3, <2>4, <2>7, <2>8, <2>9
<1> QED
  BY <1>5, <1>6

\* A message has been sent.
MessageSent(b, e) ==
    /\ chan' \in [Brokers -> Seq(Transfer)]
    /\ SentIn(chan'[b]) = SentIn(chan[b]) \cup {e}
    /\ ListedIn(chan'[b]) = ListedIn(chan[b])
    /\ InOrder(chan[b]) /\ (\A x \in SentIn(chan[b]) : x.seq < e.seq) => InOrder(chan'[b])
    /\ chan[b] # <<>> => chan'[b] # <<>> /\ Head(chan'[b]) = Head(chan[b])

\* The guard of b completes message id.
GuardCompletes(b, id) ==
    /\ guard' \in [Brokers -> Guard]
    /\ guard'[b].on = guard[b].on /\ guard'[b].first = guard[b].first
    /\ guard'[b].delayed = guard[b].delayed \ {id}

\* A step in which b's guard completes one message.
LEMMA CompleteStep ==
    ASSUME TypeOK, NEW b \in Brokers, NEW id, guard' = [guard EXCEPT ![b] = Complete(@, id)]
    PROVE  GuardCompletes(b, id) /\ \A x \in Brokers : x # b => guard'[x] = guard[x]
<1>1. guard[b] \in Guard
  BY DEF TypeOK
<1>2. guard' = [guard EXCEPT ![b] = Complete(guard[b], id)]
  OBVIOUS
<1>3. PICK g \in Guard : /\ g = Complete(guard[b], id) /\ g.on = guard[b].on
                         /\ g.first = guard[b].first /\ g.delayed = guard[b].delayed \ {id}
  BY <1>1, CompleteEffect
<1>4. /\ guard' \in [Brokers -> Guard] /\ guard'[b] = g
      /\ \A x \in Brokers : x # b => guard'[x] = guard[x]
  BY <1>2, <1>3, GuardStep
<1> QED
  BY <1>3, <1>4 DEF GuardCompletes

\* The message in hand was on the backup when it connected.
DeliversSkipped(b) ==
    /\ sub[b].hand.id \in sub[b].skipEnqueue
    /\ sub'[b].skipEnqueue = sub[b].skipEnqueue \ {sub[b].hand.id}
    /\ sub'[b].unready = sub[b].unready
    /\ GuardCompletes(b, sub[b].hand.id)
    /\ chan' = chan

\* The message in hand is sent, and waited for if nothing guards it.
DeliversMessage(b) ==
    /\ sub[b].hand.id \notin sub[b].skipEnqueue
    /\ sub'[b].skipEnqueue = sub[b].skipEnqueue
    /\ sub[b].unready \subseteq sub'[b].unready
    /\ ~sub[b].ready /\ ~sub[b].wasStopped /\ sub[b].hand.seq + 1 < guard[b].first =>
          sub[b].hand.id \in sub'[b].unready
    /\ UNCHANGED <<guard, incomplete, acked>>
    /\ MessageSent(b, sub[b].hand)

\* deliver() sends the message or skips one the backup has.
LEMMA DeliverEffect ==
    ASSUME TypeOK, Structure, Naming, NEW b \in Brokers, Deliver(b)
    PROVE  /\ sub' \in [Brokers -> Subscription] /\ OthersStay(b)
           /\ Serving /\ b \in backups /\ b # primary /\ sub[b].pc = "fetched"
           /\ sub[b].hand \in Entry
           /\ sub'[b].pc = "idle" /\ sub'[b].hand = NoEntry /\ sub'[b].cursor = sub[b].cursor
           /\ sub'[b].position = sub[b].hand.seq /\ sub'[b].dequeues = sub[b].dequeues
           /\ sub'[b].wasStopped <=> sub[b].wasStopped
           /\ DeliversSkipped(b) \/ DeliversMessage(b)
           /\ ReadyFor(b)
           /\ guard' \in [Brokers -> Guard] /\ chan' \in [Brokers -> Seq(Transfer)]
           /\ incomplete' \subseteq [id : Ids, msg : Messages] /\ acked' \subseteq Messages
           /\ UNCHANGED <<acks, primary, backups, connected, timer, queueVars, consumed, faults>>
           /\ view' \in [Brokers -> [Brokers -> Status]]
           /\ catchup' \subseteq backups /\ reported' \subseteq backups /\ expected' \subseteq backups
<1> DEFINE e == sub[b].hand
           s == [sub[b] EXCEPT !.pc = "idle", !.hand = NoEntry, !.position = e.seq]
<1>1. sub[b].pc = "fetched" /\ UNCHANGED <<queueVars, consumed, acks, faults>>
  BY DEF Deliver
<1>2. Serving /\ b \in backups /\ b # primary /\ primary \in Brokers
  BY <1>1, SubscribedFacts DEF Serving
<1>3. sub[b] \in Subscription /\ guard[b] \in Guard /\ chan[b] \in Seq(Transfer)
  BY DEF TypeOK
<1>4. e \in Entry
  <2>1. e \in Held(b)
    BY <1>1 DEF Held, InHand
  <2>2. e.msg \in 1 .. Len(assigned)
    BY <2>1 DEF Naming, IsNamed, TypeOK
  <2>3. e \in Entry \cup {NoEntry} /\ NoEntry.msg = 0
    BY <1>3 DEF Subscription, NoEntry
  <2> QED
    BY <2>2, <2>3
<1>5. e.seq \in Nat /\ e.id \in Ids
  BY <1>4 DEF Entry
<1>6. s \in Subscription
  BY <1>3, <1>5 DEF Subscription
<1>7. /\ s.pc = "idle" /\ s.hand = NoEntry /\ s.cursor = sub[b].cursor /\ s.position = e.seq
      /\ s.dequeues = sub[b].dequeues /\ s.skipEnqueue = sub[b].skipEnqueue
      /\ s.unready = sub[b].unready /\ s.wasStopped = sub[b].wasStopped
      /\ s.ready = sub[b].ready
  BY <1>3 DEF Subscription
<1>8. CASE e.id \in s.skipEnqueue
  <2> DEFINE t == [s EXCEPT !.skipEnqueue = @ \ {e.id}]
  <2>1. /\ guard' = [guard EXCEPT ![b] = Complete(@, e.id)]
        /\ Settle(guard', incomplete)
        /\ CheckReady(b, t, guard[b])
        /\ UNCHANGED chan
    BY <1>8 DEF Deliver
  <2>2. t \in Subscription
    BY <1>6 DEF Subscription
  <2>3. /\ t.pc = s.pc /\ t.hand = s.hand /\ t.cursor = s.cursor /\ t.position = s.position
        /\ t.dequeues = s.dequeues /\ t.skipEnqueue = s.skipEnqueue \ {e.id}
        /\ t.unready = s.unready /\ t.wasStopped = s.wasStopped /\ t.ready = s.ready
    BY <1>6 DEF Subscription
  <2> HIDE DEF s, t, e
  <2>4. /\ sub' \in [Brokers -> Subscription]
        /\ \A x \in Brokers : x # b => sub'[x] = sub[x]
        /\ sub'[b].pc = t.pc /\ sub'[b].hand = t.hand /\ sub'[b].cursor = t.cursor
        /\ sub'[b].position = t.position /\ sub'[b].dequeues = t.dequeues
        /\ sub'[b].skipEnqueue = t.skipEnqueue /\ sub'[b].unready = t.unready
        /\ sub'[b].wasStopped <=> t.wasStopped
        /\ sub'[b].ready <=> t.ready \/ BecomesReady(t, guard[b])
        /\ UNCHANGED <<primary, backups, connected, timer>>
    BY <2>1, <2>2, CheckReadyEffect
  <2>5. ReadyFor(b)
    BY <1>7, <2>3, <2>4 DEF ReadyFor, BecomesReady, IsGuarded
  <2>6. GuardCompletes(b, e.id) /\ \A x \in Brokers : x # b => guard'[x] = guard[x]
    BY <2>1, CompleteStep
  <2>7. DeliversSkipped(b)
    BY <1>7, <1>8, <2>1, <2>3, <2>4, <2>6 DEF DeliversSkipped, e
  <2>8. OthersStay(b)
    BY <1>1, <2>1, <2>4, <2>6 DEF OthersStay
  <2>9. incomplete' \subseteq [id : Ids, msg : Messages] /\ acked' \subseteq Messages
    BY <2>1, SettleType DEF TypeOK
  <2>10. /\ view' \in [Brokers -> [Brokers -> Status]]
         /\ catchup' \subseteq backups /\ reported' \subseteq backups /\ expected' \subseteq backups
    BY <1>2, <2>1, CheckReadyType
  <2>11. guard' \in [Brokers -> Guard] /\ chan' \in [Brokers -> Seq(Transfer)]
    BY <2>1, <2>6 DEF GuardCompletes, TypeOK
  <2> QED
    BY <1>1, <1>2, <1>4, <1>7, <2>3, <2>4, <2>5, <2>7, <2>8, <2>9, <2>10, <2>11 DEF e
<1>9. CASE e.id \notin s.skipEnqueue
  <2> DEFINE waits == ~s.ready /\ ~IsGuarded(s, guard[b])
             w == [s EXCEPT !.unready = @ \cup {e.id}]
             t == IF waits THEN w ELSE s
  <2>1. /\ chan' = [chan EXCEPT ![b] = Append(@, [type |-> "message", entry |-> e])]
        /\ CheckReady(b, t, guard[b])
        /\ UNCHANGED <<guard, incomplete, acked>>
    BY <1>9 DEF Deliver
  <2>2. w \in Subscription
    BY <1>5, <1>6 DEF Subscription
  <2>3. /\ w.pc = s.pc /\ w.hand = s.hand /\ w.cursor = s.cursor /\ w.position = s.position
        /\ w.dequeues = s.dequeues /\ w.skipEnqueue = s.skipEnqueue
        /\ w.unready = s.unready \cup {e.id} /\ w.wasStopped = s.wasStopped /\ w.ready = s.ready
    BY <1>6 DEF Subscription
  <2> HIDE DEF w
  <2>4. /\ t \in Subscription
        /\ t.pc = s.pc /\ t.hand = s.hand /\ t.cursor = s.cursor /\ t.position = s.position
        /\ t.dequeues = s.dequeues /\ t.skipEnqueue = s.skipEnqueue
        /\ s.unready \subseteq t.unready /\ t.wasStopped = s.wasStopped /\ t.ready = s.ready
        /\ waits => e.id \in t.unready
    BY <1>6, <2>2, <2>3
  <2>5. waits <=> ~(sub[b].ready \/ sub[b].wasStopped \/ e.seq + 1 >= guard[b].first)
    BY <1>7 DEF IsGuarded
  <2> HIDE DEF s, t, e, waits
  <2>6. /\ sub' \in [Brokers -> Subscription]
        /\ \A x \in Brokers : x # b => sub'[x] = sub[x]
        /\ sub'[b].pc = t.pc /\ sub'[b].hand = t.hand /\ sub'[b].cursor = t.cursor
        /\ sub'[b].position = t.position /\ sub'[b].dequeues = t.dequeues
        /\ sub'[b].skipEnqueue = t.skipEnqueue /\ sub'[b].unready = t.unready
        /\ sub'[b].wasStopped <=> t.wasStopped
        /\ sub'[b].ready <=> t.ready \/ BecomesReady(t, guard[b])
        /\ UNCHANGED <<primary, backups, connected, timer>>
    BY <2>1, <2>4, CheckReadyEffect
  <2>7. ReadyFor(b)
    BY <1>7, <2>4, <2>6 DEF ReadyFor, BecomesReady, IsGuarded
  <2>8. MessageSent(b, e) /\ \A x \in Brokers : x # b => chan'[x] = chan[x]
    <3>1. chan'[b] = Append(chan[b], [type |-> "message", entry |-> e])
          /\ \A x \in Brokers : x # b => chan'[x] = chan[x]
      BY <2>1 DEF TypeOK
    <3>2. chan'[b] \in Seq(Transfer)
      BY <1>3, <1>4, <3>1, AppendMessage
    <3>3. chan' \in [Brokers -> Seq(Transfer)]
      BY <2>1, <3>1, <3>2 DEF TypeOK
    <3> QED
      BY <1>3, <1>4, <3>1, <3>3, AppendMessage DEF MessageSent
  <2>9. sub[b].hand.seq + 1 < guard[b].first => ~(e.seq + 1 >= guard[b].first)
    BY <1>3, <1>5 DEF Guard, e
  <2>10. DeliversMessage(b)
    BY <1>7, <1>9, <2>1, <2>4, <2>5, <2>6, <2>8, <2>9 DEF DeliversMessage, e
  <2>11. OthersStay(b)
    BY <1>1, <2>1, <2>6, <2>8 DEF OthersStay
  <2>12. /\ view' \in [Brokers -> [Brokers -> Status]]
         /\ catchup' \subseteq backups /\ reported' \subseteq backups /\ expected' \subseteq backups
    BY <1>2, <2>1, CheckReadyType
  <2>13. /\ guard' \in [Brokers -> Guard] /\ chan' \in [Brokers -> Seq(Transfer)]
         /\ incomplete' \subseteq [id : Ids, msg : Messages] /\ acked' \subseteq Messages
    BY <2>1, <2>8 DEF MessageSent, TypeOK
  <2> QED
    BY <1>1, <1>2, <1>4, <1>7, <2>4, <2>6, <2>7, <2>10, <2>11, <2>12, <2>13 DEF e
<1> QED
  BY <1>8, <1>9

\* acknowledged() completes the message and no longer waits for it.
LEMMA AcknowledgedEffect ==
    ASSUME TypeOK, Structure, NEW b \in Brokers, Acknowledged(b)
    PROVE  /\ sub' \in [Brokers -> Subscription] /\ OthersStay(b)
           /\ Serving /\ b \in backups /\ b # primary /\ Running(b)
           /\ sub'[b].pc = sub[b].pc /\ sub'[b].hand = sub[b].hand
           /\ sub'[b].cursor = sub[b].cursor
           /\ sub'[b].position = sub[b].position /\ sub'[b].dequeues = sub[b].dequeues
           /\ sub'[b].skipEnqueue = sub[b].skipEnqueue
           /\ sub'[b].wasStopped <=> sub[b].wasStopped
           /\ acks' \in [Brokers -> Seq(Ids)] /\ AcksIn(acks'[b]) \subseteq AcksIn(acks[b])
           /\ \E id \in AcksIn(acks[b]) :
                 /\ sub'[b].unready = sub[b].unready \ {id}
                 /\ GuardCompletes(b, id)
           /\ ReadyFor(b)
           /\ incomplete' \subseteq [id : Ids, msg : Messages] /\ acked' \subseteq Messages
           /\ UNCHANGED <<chan, primary, backups, connected, timer, queueVars, consumed, faults>>
           /\ view' \in [Brokers -> [Brokers -> Status]]
           /\ catchup' \subseteq backups /\ reported' \subseteq backups /\ expected' \subseteq backups
<1> DEFINE id == Head(acks[b])
           s == [sub[b] EXCEPT !.unready = @ \ {id}]
<1>1. /\ acks[b] # <<>> /\ acks' = [acks EXCEPT ![b] = Tail(@)]
      /\ guard' = [guard EXCEPT ![b] = Complete(@, id)]
      /\ Settle(guard', incomplete)
      /\ CheckReady(b, s, guard[b])
      /\ UNCHANGED <<queueVars, consumed, chan, faults>>
  BY DEF Acknowledged
<1>2. Running(b) /\ Serving /\ b \in backups /\ b # primary
  BY <1>1, SubscribedFacts, ChannelFacts
<1>3. sub[b] \in Subscription /\ acks[b] \in Seq(Ids)
  BY DEF TypeOK
<1>4. id \in AcksIn(acks[b]) /\ Tail(acks[b]) \in Seq(Ids)
      /\ AcksIn(Tail(acks[b])) \subseteq AcksIn(acks[b])
  BY <1>1, <1>3, TailAck
<1>5. s \in Subscription
  BY <1>3 DEF Subscription
<1>6. /\ s.pc = sub[b].pc /\ s.hand = sub[b].hand /\ s.cursor = sub[b].cursor
      /\ s.position = sub[b].position /\ s.dequeues = sub[b].dequeues
      /\ s.skipEnqueue = sub[b].skipEnqueue /\ s.unready = sub[b].unready \ {id}
      /\ s.wasStopped = sub[b].wasStopped /\ s.ready = sub[b].ready
  BY <1>3 DEF Subscription
<1> HIDE DEF s, id
<1>7. /\ sub' \in [Brokers -> Subscription]
      /\ \A x \in Brokers : x # b => sub'[x] = sub[x]
      /\ sub'[b].pc = s.pc /\ sub'[b].hand = s.hand /\ sub'[b].cursor = s.cursor
      /\ sub'[b].position = s.position /\ sub'[b].dequeues = s.dequeues
      /\ sub'[b].skipEnqueue = s.skipEnqueue /\ sub'[b].unready = s.unready
      /\ sub'[b].wasStopped <=> s.wasStopped
      /\ sub'[b].ready <=> s.ready \/ BecomesReady(s, guard[b])
      /\ UNCHANGED <<primary, backups, connected, timer>>
  BY <1>1, <1>5, CheckReadyEffect
<1>8. ReadyFor(b)
  BY <1>6, <1>7 DEF ReadyFor, BecomesReady, IsGuarded
<1>9. GuardCompletes(b, id) /\ \A x \in Brokers : x # b => guard'[x] = guard[x]
  BY <1>1, CompleteStep
<1>10. /\ acks' \in [Brokers -> Seq(Ids)] /\ acks'[b] = Tail(acks[b])
       /\ \A x \in Brokers : x # b => acks'[x] = acks[x]
  BY <1>1, <1>4 DEF TypeOK
<1>11. OthersStay(b)
  BY <1>1, <1>7, <1>9, <1>10 DEF OthersStay
<1>12. incomplete' \subseteq [id : Ids, msg : Messages] /\ acked' \subseteq Messages
  BY <1>1, SettleType DEF TypeOK
<1>13. /\ view' \in [Brokers -> [Brokers -> Status]]
       /\ catchup' \subseteq backups /\ reported' \subseteq backups /\ expected' \subseteq backups
  BY <1>1, <1>2, CheckReadyType
<1> QED
  BY <1>1, <1>2, <1>4, <1>6, <1>7, <1>8, <1>9, <1>10, <1>11, <1>12, <1>13

\* A message that b has already is only acknowledged.
ReceivesKnown(b) ==
    /\ Head(chan[b]).entry.id \in IdsOf(queue[b])
    /\ UNCHANGED <<queue, sequence, maxId>>

\* Another one goes to the end of its queue.
ReceivesNew(b) == LET e == Head(chan[b]).entry IN
    /\ e.id \notin IdsOf(queue[b])
    /\ queue' = [queue EXCEPT ![b] =
                   @ \cup {[id |-> e.id, msg |-> e.msg, seq |-> sequence[b] + 1]}]
    /\ sequence' = [sequence EXCEPT ![b] = @ + 1]
    /\ maxId' \in [Brokers -> 0 .. MaxMessages]
    /\ maxId'[b] >= maxId[b] /\ maxId'[b] >= e.id /\ maxId'[b] \in {maxId[b], e.id}
    /\ \A x \in Brokers : x # b => maxId'[x] = maxId[x]

ReceivesMessage(b) ==
    /\ Head(chan[b]).type = "message" /\ Head(chan[b]).entry \in Entry
    /\ AcksIn(acks'[b]) = AcksIn(acks[b]) \cup {Head(chan[b]).entry.id}
    /\ \A x \in Brokers : x # b => acks'[x] = acks[x]
    /\ ReceivesKnown(b) \/ ReceivesNew(b)

ReceivesDequeues(b) ==
    /\ Head(chan[b]).type = "dequeue"
    /\ queue' = [queue EXCEPT ![b] = {e \in @ : e.id \notin Head(chan[b]).ids}]
    /\ UNCHANGED <<sequence, maxId, acks>>

\* QueueReplicator::route() applies dequeues or one message.
LEMMA ReceiveEffect ==
    ASSUME TypeOK, Structure, Numbering, Naming, NEW b \in Brokers, Receive(b)
    PROVE  /\ chan[b] \in Seq(Transfer) /\ chan[b] # <<>> /\ Head(chan[b]) \in Transfer
           /\ chan' \in [Brokers -> Seq(Transfer)] /\ chan'[b] = Tail(chan[b])
           /\ \A x \in Brokers : x # b => chan'[x] = chan[x]
           /\ acks' \in [Brokers -> Seq(Ids)]
           /\ Serving /\ b \in backups /\ b # primary /\ Running(b)
           /\ ReceivesDequeues(b) \/ ReceivesMessage(b)
           /\ queue' \in [Brokers -> SUBSET Entry] /\ sequence' \in [Brokers -> Nat]
           /\ maxId' \in [Brokers -> 0 .. MaxMessages]
           /\ UNCHANGED <<nextId, pending, assigned, answerVars, memberVars, guard, sub, faults>>
<1> DEFINE event == Head(chan[b])
<1>1. chan[b] # <<>> /\ chan' = [chan EXCEPT ![b] = Tail(@)]
      /\ UNCHANGED <<nextId, pending, assigned, answerVars, memberVars, guard, sub, faults>>
  BY DEF Receive
<1>2. Running(b) /\ Serving /\ b \in backups /\ b # primary
  BY <1>1, SubscribedFacts, ChannelFacts
<1>3. chan[b] \in Seq(Transfer) /\ acks[b] \in Seq(Ids)
  BY DEF TypeOK
<1>4. event \in Transfer /\ Tail(chan[b]) \in Seq(Transfer)
  BY <1>1, <1>3, TailProperties
<1>5. chan' \in [Brokers -> Seq(Transfer)] /\ chan'[b] = Tail(chan[b])
      /\ \A x \in Brokers : x # b => chan'[x] = chan[x]
  BY <1>1, <1>4 DEF TypeOK
<1>6. CASE event.type = "dequeue"
  <2>1. ReceivesDequeues(b)
    BY <1>6 DEF Receive, ReceivesDequeues
  <2>2. queue' \in [Brokers -> SUBSET Entry]
    BY <2>1 DEF ReceivesDequeues, TypeOK
  <2> QED
    BY <1>1, <1>2, <1>3, <1>4, <1>5, <2>1, <2>2 DEF ReceivesDequeues, TypeOK
<1>7. CASE event.type = "message"
  <2> DEFINE e == event.entry
             r == [id |-> e.id, msg |-> e.msg, seq |-> sequence[b] + 1]
  <2>1. e \in Entry
    BY <1>4, <1>7 DEF Transfer
  <2>2. e.id \in Ids /\ e.id \in 0 .. MaxMessages
    <3>1. e \in Held(b)
      BY <1>1, <1>3, <1>7, TailProperties DEF Held
    <3>2. IsNamed(e)
      BY <3>1 DEF Naming
    <3>3. e.id \in Given
      BY <3>2 DEF IsNamed, Given
    <3> QED
      BY <3>3, GivenFacts, ReplicationAssumption DEF Ids
  <2>3. acks' = [acks EXCEPT ![b] = Append(@, e.id)]
    BY <1>7 DEF Receive
  <2>4. Append(acks[b], e.id) \in Seq(Ids)
        /\ AcksIn(Append(acks[b], e.id)) = AcksIn(acks[b]) \cup {e.id}
    BY <1>3, <2>2, AppendAck
  <2>5. /\ acks' \in [Brokers -> Seq(Ids)] /\ AcksIn(acks'[b]) = AcksIn(acks[b]) \cup {e.id}
        /\ \A x \in Brokers : x # b => acks'[x] = acks[x]
    BY <2>3, <2>4 DEF TypeOK
  <2>6. CASE e.id \in IdsOf(queue[b])
    <3>1. UNCHANGED <<queue, sequence, maxId>>
      BY <1>7, <2>6 DEF Receive
    <3>2. ReceivesMessage(b)
      BY <1>7, <2>1, <2>5, <2>6, <3>1 DEF ReceivesMessage, ReceivesKnown
    <3> QED
      BY <1>1, <1>2, <1>3, <1>4, <1>5, <2>5, <3>1, <3>2 DEF TypeOK
  <2>7. CASE e.id \notin IdsOf(queue[b])
    <3>1. /\ sequence' = [sequence EXCEPT ![b] = @ + 1]
          /\ queue' = [queue EXCEPT ![b] = EnqueueReplica(@, e, sequence[b] + 1)]
          /\ maxId' = [maxId EXCEPT ![b] = IF @ > e.id THEN @ ELSE e.id]
      BY <1>7, <2>7 DEF Receive
    <3>2. [e EXCEPT !.seq = sequence[b] + 1] = r
      BY <2>1 DEF Entry
    <3>3. r \in Entry /\ sequence[b] + 1 \in Nat
      BY <2>1 DEF Entry, TypeOK
    <3>4. queue' = [queue EXCEPT ![b] = @ \cup {r}]
      BY <3>1, <3>2 DEF EnqueueReplica
    <3>5. queue' \in [Brokers -> SUBSET Entry] /\ sequence' \in [Brokers -> Nat]
      BY <3>1, <3>3, <3>4 DEF TypeOK
    <3>6. maxId[b] \in 0 .. MaxMessages /\ maxId' \in [Brokers -> 0 .. MaxMessages]
          /\ maxId'[b] = (IF maxId[b] > e.id THEN maxId[b] ELSE e.id)
          /\ \A x \in Brokers : x # b => maxId'[x] = maxId[x]
      BY <3>1, <2>2 DEF TypeOK
    <3>7. maxId'[b] >= maxId[b] /\ maxId'[b] >= e.id /\ maxId'[b] \in {maxId[b], e.id}
      BY <3>6, <2>2, ReplicationAssumption
    <3>8. ReceivesNew(b)
      BY <2>7, <3>1, <3>4, <3>6, <3>7 DEF ReceivesNew
    <3>9. ReceivesMessage(b)
      BY <1>7, <2>1, <2>5, <3>8 DEF ReceivesMessage
    <3> QED
      BY <1>1, <1>2, <1>3, <1>4, <1>5, <2>5, <3>5, <3>6, <3>9
  <2> QED
    BY <2>6, <2>7
<1>8. event.type \in {"dequeue", "message"}
  BY <1>4 DEF Transfer
<1> QED
  BY <1>6, <1>7, <1>8

\* The steps of a subscription that is set up keep the types.
LEMMA LinkTypes ==
    ASSUME TypeOK, Numbering, Naming, Structure, NEW b \in Brokers,
           Initialize(b) \/ Fetch(b) \/ Deliver(b) \/ Receive(b) \/ Acknowledged(b)
    PROVE  TypeOK'
<1>1. CASE Initialize(b)
  BY <1>1, InitializeEffect DEF TypeOK, DequeuesSent, queueVars, answerVars
<1>2. CASE Fetch(b)
  BY <1>2, FetchEffect DEF TypeOK, DequeuesSent, queueVars, answerVars
<1>3. CASE Deliver(b)
  BY <1>3, DeliverEffect DEF TypeOK, queueVars
<1>4. CASE Receive(b)
  BY <1>4, ReceiveEffect DEF TypeOK, answerVars, memberVars
<1>5. CASE Acknowledged(b)
  BY <1>5, AcknowledgedEffect DEF TypeOK, GuardCompletes, queueVars
<1> QED
  BY <1>1, <1>2, <1>3, <1>4, <1>5

\* The membership without some brokers is a membership.
LEMMA WithoutType ==
    ASSUME NEW members \in [Brokers -> Status], NEW gone, NEW status \in Status
    PROVE  Without(members, gone, status) \in [Brokers -> Status]
  BY DEF Without

\* The end of connections keeps the types.
LEMMA DisconnectTypes ==
    ASSUME TypeOK, NEW gone, BackupDisconnect(gone),
           UNCHANGED <<primary, queueVars, consumed>>,
           view' \in [Brokers -> [Brokers -> Status]],
           timer' \in BOOLEAN, faults' \in 0 .. MaxFaults
    PROVE  TypeOK'
<1>1. /\ guard' \in [Brokers -> Guard] /\ sub' \in [Brokers -> Subscription]
      /\ chan' \in [Brokers -> Seq(Transfer)] /\ acks' \in [Brokers -> Seq(Ids)]
      /\ incomplete' \subseteq [id : Ids, msg : Messages] /\ acked' \subseteq Messages
  BY DisconnectEffect
<1>2. /\ backups' = backups \ gone /\ connected' = connected \ gone
      /\ catchup' = catchup \ gone /\ reported' = reported \ gone
      /\ expected' = expected \ gone
  BY DEF BackupDisconnect
<1>3. /\ connected' \subseteq backups' /\ backups' \subseteq Brokers
      /\ catchup' \subseteq backups' /\ reported' \subseteq backups' /\ expected' \subseteq backups'
  BY <1>2 DEF TypeOK
<1> QED
  BY <1>1, <1>3 DEF TypeOK, queueVars

\* A lost connection ends one subscription.
LEMMA ClosedEffect ==
    ASSUME TypeOK, Structure, NEW b \in Brokers, Closed(b)
    PROVE  Serving /\ BackupDisconnect({b}) /\ TypeOK'
           /\ UNCHANGED <<primary, timer, queueVars, consumed>>
<1>1. /\ b \in connected /\ faults < MaxFaults /\ faults' = faults + 1
      /\ BackupDisconnect({b})
      /\ Broadcast(Activated(Without(view[primary], {b}, "none")))
      /\ UNCHANGED <<primary, timer, queueVars, consumed>>
  BY DEF Closed
<1>2. Serving /\ primary \in Brokers
  BY <1>1 DEF TypeOK, Structure, Serving
<1>3. view[primary] \in [Brokers -> Status] /\ "none" \in Status
  BY <1>2 DEF TypeOK, Status
<1>4. view' \in [Brokers -> [Brokers -> Status]]
  BY <1>1, <1>3, WithoutType, ActivatedType, BroadcastType
<1>5. faults' \in 0 .. MaxFaults /\ timer' \in BOOLEAN
  BY <1>1, ReplicationAssumption DEF TypeOK
<1>6. TypeOK'
  BY <1>1, <1>4, <1>5, DisconnectTypes
<1> QED
  BY <1>1, <1>2, <1>6

\* The timer drops the expected backups that did not connect, or does nothing.
LEMMA TimeoutEffect ==
    ASSUME TypeOK, TimeoutExpectedBackups
    PROVE  /\ Serving /\ TypeOK'
           /\ UNCHANGED <<primary, queueVars, consumed>>
           /\ \/ UNCHANGED <<linkVars, guard, sub, backups, connected>>
              \/ BackupDisconnect(expected \ connected)
<1> DEFINE gone == expected \ connected
<1>1. /\ Serving /\ timer' = FALSE /\ UNCHANGED <<primary, queueVars, consumed, faults>>
      /\ primary \in Brokers
  BY DEF TimeoutExpectedBackups, Serving
<1>2. CASE view[primary][primary] = "active"
  BY <1>1, <1>2 DEF TimeoutExpectedBackups, TypeOK, queueVars, linkVars
<1>3. CASE view[primary][primary] # "active"
  <2>1. BackupDisconnect(gone) /\ Broadcast(Activated(Without(view[primary], gone, "catchup")))
    BY <1>3 DEF TimeoutExpectedBackups
  <2>2. view[primary] \in [Brokers -> Status] /\ "catchup" \in Status
    BY <1>1 DEF TypeOK, Status
  <2>3. view' \in [Brokers -> [Brokers -> Status]]
    BY <2>1, <2>2, WithoutType, ActivatedType, BroadcastType
  <2>4. timer' \in BOOLEAN /\ faults' \in 0 .. MaxFaults
    BY <1>1 DEF TypeOK
  <2>5. TypeOK'
    BY <1>1, <2>1, <2>3, <2>4, DisconnectTypes
  <2> QED
    BY <1>1, <2>1, <2>5
<1> QED
  BY <1>2, <1>3

\* Crashes, restarts, timeouts and promotion keep the types.
LEMMA FaultTypes ==
    ASSUME TypeOK, Structure,
           \/ Crash \/ TimeoutExpectedBackups
           \/ \E b \in Brokers : Closed(b) \/ Restart(b) \/ Promote(b)
    PROVE  TypeOK'
<1>1. /\ NoGuard \in Guard /\ NoSub \in Subscription
      /\ <<>> \in Seq(Transfer) /\ <<>> \in Seq(Ids)
  <2>1. <<>> \in Seq(Transfer) /\ <<>> \in Seq(Ids)
    OBVIOUS
  <2> QED
    BY <2>1 DEF NoGuard, Guard, NoSub, Subscription, NoEntry
<1>2. ASSUME NEW b \in Brokers PROVE Forget(b) \in [Brokers -> Status]
  BY DEF Forget, Status
<1>3. CASE Crash
  <2>1. primary \in Brokers /\ faults' \in 0 .. MaxFaults
    BY <1>3, ReplicationAssumption DEF Crash, TypeOK, Serving
  <2>2. view' \in [Brokers -> [Brokers -> Status]]
    BY <1>2, <1>3, <2>1 DEF Crash, TypeOK
  <2>0. 0 \in 0 .. MaxMessages /\ 0 \in 0 .. MaxMessages + 1
    BY ReplicationAssumption
  <2>3. queue' \in [Brokers -> SUBSET Entry] /\ sequence' \in [Brokers -> Nat]
        /\ maxId' \in [Brokers -> 0 .. MaxMessages]
    <3>1. queue' \in [Brokers -> SUBSET Entry]
      BY <1>3 DEF Crash, TypeOK
    <3>2. sequence' \in [Brokers -> Nat]
      BY <1>3 DEF Crash, TypeOK
    <3>3. maxId' = [maxId EXCEPT ![primary] = 0] /\ maxId \in [Brokers -> 0 .. MaxMessages]
      BY <1>3 DEF Crash, TypeOK
    <3>4. maxId' \in [Brokers -> 0 .. MaxMessages]
      BY <3>3, <2>0
    <3> QED
      BY <3>1, <3>2, <3>4
  <2>4. /\ guard' \in [Brokers -> Guard] /\ sub' \in [Brokers -> Subscription]
        /\ chan' \in [Brokers -> Seq(Transfer)] /\ acks' \in [Brokers -> Seq(Ids)]
    BY <1>1, <1>3 DEF Crash
  <2>5. /\ primary' = NoBroker /\ nextId' = 0 /\ pending' = {} /\ incomplete' = {}
        /\ backups' = {} /\ connected' = {} /\ catchup' = {} /\ reported' = {} /\ expected' = {}
        /\ timer' = FALSE
        /\ UNCHANGED <<assigned, acked, consumed>>
    BY <1>3 DEF Crash
  <2>6. primary' \in Brokers \cup {NoBroker} /\ nextId' \in 0 .. MaxMessages + 1
        /\ timer' \in BOOLEAN
    BY <2>0, <2>5
  <2>7. pending' \subseteq [id : Ids, msg : Messages] /\ incomplete' \subseteq [id : Ids, msg : Messages]
    BY <2>5
  <2>8. assigned' \in Seq(Ids) /\ Len(assigned') <= MaxMessages
        /\ acked' \subseteq Messages /\ consumed' \subseteq Messages
    BY <2>5 DEF TypeOK
  <2>9. /\ connected' \subseteq backups' /\ backups' \subseteq Brokers
        /\ catchup' \subseteq backups' /\ reported' \subseteq backups' /\ expected' \subseteq backups'
    BY <2>5
  <2> QED
    BY <2>1, <2>2, <2>3, <2>4, <2>6, <2>7, <2>8, <2>9 DEF TypeOK
<1>4. CASE TimeoutExpectedBackups
  BY <1>4, TimeoutEffect
<1>5. ASSUME NEW b \in Brokers, Closed(b)
      PROVE  TypeOK'
  BY <1>5, ClosedEffect
<1>6. ASSUME NEW b \in Brokers, Restart(b)
      PROVE  TypeOK'
  <2>1. faults' \in 0 .. MaxFaults
    BY <1>6, ReplicationAssumption DEF Restart, TypeOK
  <2>2. [Forget(b) EXCEPT ![b] = "joining"] \in [Brokers -> Status]
    <3>1. Forget(b) \in [Brokers -> Status] /\ "joining" \in Status
      BY <1>2 DEF Status
    <3> QED
      BY <3>1
  <2>3. view' \in [Brokers -> [Brokers -> Status]]
    BY <1>6, <2>2 DEF Restart, TypeOK
  <2> QED
    BY <1>6, <2>1, <2>3, ReplicationAssumption
    DEF Restart, TypeOK, answerVars, linkVars
<1>7. ASSUME NEW b \in Brokers, Promote(b)
      PROVE  TypeOK'
  <2> DEFINE expect == {c \in Brokers \ {b} : view[b][c] = "ready"}
  <2>1. /\ primary = NoBroker /\ primary' = b
        /\ view' = [view EXCEPT ![b] = [c \in Brokers |->
                      IF c # b THEN "none" ELSE IF expect = {} THEN "active" ELSE "recovering"]]
        /\ nextId' = maxId[b] + 1
        /\ guard' = [c \in Brokers |->
                       IF c \in expect
                       THEN [on |-> TRUE, first |-> sequence[b] + 1, delayed |-> {}]
                       ELSE NoGuard]
        /\ backups' = expect /\ catchup' = expect /\ expected' = expect
        /\ timer' = (expect # {})
        /\ UNCHANGED <<connected, reported, queue, sequence, maxId, pending, assigned,
                       answerVars, linkVars, sub, faults>>
    BY <1>7 DEF Promote
  <2> HIDE DEF expect
  <2>2. ~Serving /\ backups = {}
    BY <2>1, ReplicationAssumption DEF Serving, Structure
  <2>3. connected' = {} /\ reported' = {}
    BY <2>1, <2>2 DEF TypeOK
  <2>4. expect \subseteq Brokers
    BY DEF expect
  <2>5. nextId' \in 0 .. MaxMessages + 1
    BY <2>1, ReplicationAssumption DEF TypeOK
  <2>6. guard' \in [Brokers -> Guard]
    <3>1. sequence[b] + 1 \in Nat
      BY DEF TypeOK
    <3>2. [on |-> TRUE, first |-> sequence[b] + 1, delayed |-> {}] \in Guard
      BY <3>1 DEF Guard
    <3> QED
      BY <1>1, <2>1, <3>2
  <2>7. view' \in [Brokers -> [Brokers -> Status]]
    <3>1. [c \in Brokers |-> IF c # b THEN "none" ELSE IF expect = {} THEN "active" ELSE "recovering"]
            \in [Brokers -> Status]
      BY DEF Status
    <3> QED
      BY <2>1, <3>1 DEF TypeOK
  <2> QED
    BY <2>1, <2>3, <2>4, <2>5, <2>6, <2>7 DEF TypeOK, answerVars, linkVars
<1> QED
  BY <1>3, <1>4, <1>5, <1>6, <1>7

----------------------------------------------------------------------------
(* What a step leaves alone                                                *)

\* Names: an id that was given once names one message.
LEMMA NameFacts ==
    ASSUME TypeOK, NEW x, NEW y, IsNamed(x), IsNamed(y), x.id = y.id, ~Reused(x.id)
    PROVE  x.msg = y.msg
  BY DEF IsNamed, Reused

\* Ids that were seen have been given.
LEMMA SeenGiven ==
    ASSUME Naming, NEW b \in Brokers
    PROVE  Seen(b) \subseteq Given
<1>1. \A e \in queue[b] \cup Held(b) : e.id \in Given
  BY DEF Naming, IsNamed, Given
<1>2. IdsOf(queue[b]) \subseteq Given /\ IdsOf(Held(b)) \subseteq Given
  BY <1>1 DEF IdsOf
<1> QED
  BY <1>2 DEF Naming, Seen

\* A backup whose guard and link, and the primary's queue, are as they were.
LEMMA FrameKeeps ==
    ASSUME NEW x \in Brokers, BackupOK(x),
           guard'[x] = guard[x], sub'[x] = sub[x], chan'[x] = chan[x], acks'[x] = acks[x],
           queue'[x] = queue[x], Q' = Q, sequence'[primary'] = sequence[primary],
           \A id : Reused(id) => Reused(id)', consumed \subseteq consumed'
    PROVE  BackupOK(x)'
<1>1. \A e : Live(e)' => Live(e)
  BY DEF Live
<1>2. /\ Running(x)' <=> Running(x)
      /\ Listed(x)' = Listed(x) /\ Held(x)' = Held(x)
      /\ \A e : OnB(x, e)' <=> OnB(x, e)
      /\ \A e : Done(x, e)' <=> Done(x, e)
  BY DEF Running, Listed, Held, InHand, OnB, Done
<1>3. GuardOK(x)'
  BY <1>2 DEF BackupOK, GuardOK
<1>4. SnapshotOK(x)'
  BY <1>2 DEF BackupOK, SnapshotOK
<1>5. AnswersOK(x)'
  BY <1>2 DEF BackupOK, AnswersOK
<1>6. DequeuesOK(x)'
  BY <1>2 DEF BackupOK, DequeuesOK
<1>7. CursorOK(x)'
  BY <1>2 DEF BackupOK, CursorOK
<1>8. StoppedOK(x)'
  BY <1>2 DEF BackupOK, StoppedOK
<1>9. ReadyOK(x)'
  BY <1>2 DEF BackupOK, ReadyOK
<1>10. InTransit(x)'
  BY <1>2 DEF BackupOK, InTransit
<1>11. Ghosts(x)'
  BY <1>2 DEF BackupOK, Ghosts
<1>12. GhostsFirst(x)'
  BY <1>1, <1>2 DEF BackupOK, GhostsFirst
<1> QED
  BY <1>3, <1>4, <1>5, <1>6, <1>7, <1>8, <1>9, <1>10, <1>11, <1>12 DEF BackupOK

\* A backup without a subscription: only its guard counts.
LEMMA UnsubscribedOK ==
    ASSUME NEW x, sub'[x].pc = "none", GuardOK(x)'
    PROVE  BackupOK(x)'
  BY DEF BackupOK, Running, SnapshotOK, AnswersOK, DequeuesOK, CursorOK, StoppedOK,
         ReadyOK, InTransit, Ghosts, GhostsFirst

\* A backup that has neither: nothing is claimed of it.
LEMMA UnguardedOK ==
    ASSUME NEW x, sub'[x].pc = "none", ~guard'[x].on
    PROVE  BackupOK(x)'
  BY UnsubscribedOK DEF GuardOK

\* The part of the invariant about what is on the brokers' queues.
LEMMA QueuesKept ==
    ASSUME IInv, UNCHANGED <<queueVars, primary, consumed>>
    PROVE  Numbering' /\ Queues' /\ SameHistory'
<1>1. /\ queue' = queue /\ sequence' = sequence /\ maxId' = maxId /\ nextId' = nextId
      /\ pending' = pending /\ assigned' = assigned /\ primary' = primary
  BY DEF queueVars
<1>2. Numbering'
  BY <1>1 DEF IInv, Numbering, Serving
<1>3. Queues'
  BY <1>1 DEF IInv, Queues, Serving, Q
<1>4. SameHistory'
  <2>1. \A e : Live(e)' <=> Live(e)
    BY <1>1 DEF Live, Reused
  <2> QED
    BY <1>1, <2>1 DEF IInv, SameHistory
<1> QED
  BY <1>2, <1>3, <1>4

\* What goes over b's link and is kept for it is a message of the primary or
\* was there before.
LinkKeeps(b) ==
    /\ Held(b)' \subseteq Held(b) \cup Q
    /\ Listed(b)' \cup AcksIn(acks[b])' \cup sub'[b].skipEnqueue
         \subseteq Listed(b) \cup AcksIn(acks[b]) \cup sub[b].skipEnqueue \cup IdsOf(queue[b])
    /\ guard'[b].on /\ sub'[b].pc # "none"
    /\ ~Running(b)' => Unstarted(b)'

\* A step of b's link leaves the other backups and the queues alone.
LEMMA LinkStep ==
    ASSUME IInv, TypeOK', NEW b \in backups, b \in connected,
           UNCHANGED <<queueVars, primary, consumed, backups, connected>>,
           OthersStay(b), Serving, LinkKeeps(b), BackupOK(b)'
    PROVE  IInv'
<1>0. b \in Brokers /\ primary \in Brokers
  BY DEF IInv, TypeOK, Serving
<1>1. Numbering' /\ Queues' /\ SameHistory'
  BY QueuesKept
<1>2. /\ queue' = queue /\ sequence' = sequence /\ pending' = pending
      /\ assigned' = assigned /\ primary' = primary /\ Q' = Q
      /\ \A e : IsNamed(e)' <=> IsNamed(e)
      /\ Given' = Given /\ \A id : Reused(id)' <=> Reused(id)
  BY DEF queueVars, Q, IsNamed, Given, Reused
<1>3. ASSUME NEW x \in Brokers, x # b
      PROVE  Listed(x)' = Listed(x) /\ Held(x)' = Held(x) /\ AcksIn(acks[x])' = AcksIn(acks[x])
             /\ sub'[x] = sub[x] /\ guard'[x] = guard[x] /\ (Running(x)' <=> Running(x))
             /\ (Unstarted(x)' <=> Unstarted(x))
  BY <1>3 DEF OthersStay, Listed, Held, InHand, Running, Unstarted
<1>4. Naming'
  <2>1. \A e \in Q : IsNamed(e) /\ e.id \in Given
    BY <1>0 DEF IInv, Naming, IsNamed, Given, Q
  <2>2. IdsOf(queue[b]) \subseteq Given
    BY <1>0 DEF IInv, Naming, IsNamed, Given, IdsOf
  <2>3. ASSUME NEW x \in Brokers
        PROVE  /\ \A e \in queue'[x] \cup Held(x)' : IsNamed(e)'
               /\ Listed(x)' \cup AcksIn(acks[x])' \cup sub'[x].skipEnqueue \subseteq Given'
    <3>1. CASE x = b
      BY <1>0, <1>2, <2>1, <2>2, <3>1 DEF IInv, Naming, LinkKeeps
    <3>2. CASE x # b
      BY <1>2, <1>3, <3>2 DEF IInv, Naming
    <3> QED
      BY <3>1, <3>2
  <2>4. \A m \in pending' : IsNamed(m)'
    BY <1>2 DEF IInv, Naming
  <2> QED
    BY <2>3, <2>4 DEF Naming
<1>5. Unpushed'
  <2>1. ASSUME NEW x \in Brokers, NEW m \in pending, m.id \in Seen(x)'
        PROVE  Reused(m.id)
    <3>1. CASE x = b
      <4>1. m.id \notin IdsOf(Q)
        BY DEF IInv, Queues, IdsOf, Serving
      <4>2. IdsOf(Held(b))' \subseteq IdsOf(Held(b)) \cup IdsOf(Q)
        BY DEF LinkKeeps, IdsOf
      <4>3. m.id \in Seen(b) \cup IdsOf(Q)
        BY <1>2, <2>1, <3>1, <4>2 DEF Seen, LinkKeeps
      <4> QED
        BY <1>0, <4>1, <4>3 DEF IInv, Unpushed
    <3>2. CASE x # b
      <4>1. Seen(x)' = Seen(x)
        BY <1>2, <1>3, <3>2 DEF Seen
      <4> QED
        BY <2>1, <4>1 DEF IInv, Unpushed
    <3> QED
      BY <3>1, <3>2
  <2> QED
    BY <1>2, <2>1 DEF Unpushed
<1>6. Structure'
  <2>1. Serving'
    BY <1>2 DEF Serving
  <2>2. primary' \notin backups'
    BY <1>2 DEF IInv, Structure
  <2>3. ASSUME NEW x \in Brokers
        PROVE  /\ guard'[x].on => x \in backups'
               /\ ~guard'[x].on => guard'[x] = NoGuard
               /\ sub'[x].pc # "none" => x \in connected' /\ guard'[x].on
               /\ sub'[x].pc = "none" => sub'[x] = NoSub
               /\ ~Running(x)' => Unstarted(x)'
    <3>1. CASE x = b
      BY <3>1 DEF LinkKeeps
    <3>2. CASE x # b
      BY <1>3, <3>2 DEF IInv, Structure
    <3> QED
      BY <3>1, <3>2
  <2> QED
    BY <2>1, <2>2, <2>3 DEF Structure
<1>7. ASSUME NEW x \in Brokers PROVE BackupOK(x)'
  <2>1. CASE x = b
    BY <2>1
  <2>2. CASE x # b
    <3>1. /\ guard'[x] = guard[x] /\ sub'[x] = sub[x] /\ chan'[x] = chan[x] /\ acks'[x] = acks[x]
          /\ queue'[x] = queue[x] /\ sequence'[primary'] = sequence[primary]
      BY <1>2, <2>2 DEF OthersStay
    <3>2. BackupOK(x) /\ consumed \subseteq consumed'
      BY DEF IInv
    <3> QED
      BY <1>2, <3>1, <3>2, FrameKeeps
  <2> QED
    BY <2>1, <2>2
<1> QED
  BY <1>1, <1>4, <1>5, <1>6, <1>7 DEF IInv

----------------------------------------------------------------------------
(* The connection of a backup                                              *)

\* Once the guarded position or the end of the queue was reached, every
\* message before the guard has been passed.
LEMMA PassedWhenGuarded ==
    ASSUME NEW b \in Brokers, TypeOK', primary' \in Brokers,
           Running(b)', CursorOK(b)', StoppedOK(b)',
           sub'[b].wasStopped \/ sub'[b].position + 1 >= guard'[b].first,
           NEW f \in Q', f.seq + 1 < guard'[b].first
    PROVE  Done(b, f)'
<1>0. sub'[b] \in Subscription /\ guard'[b] \in Guard /\ f \in Entry
  BY DEF TypeOK, Q
<1>1. /\ f.seq \in Nat /\ sub'[b].cursor \in Nat /\ sub'[b].position \in Nat
      /\ guard'[b].first \in Nat
  BY <1>0 DEF Subscription, Guard, Entry
<1>2. CASE sub'[b].position + 1 >= guard'[b].first
  <2>1. f.seq < sub'[b].position
    BY <1>1, <1>2
  <2> QED
    BY <2>1 DEF CursorOK
<1>3. CASE sub'[b].wasStopped
  <2>1. f.seq <= sub'[b].cursor
    BY <1>1, <1>3 DEF StoppedOK
  <2>2. sub'[b].pc = "fetched" => f.seq # sub'[b].cursor
    BY <1>1, <1>3 DEF StoppedOK
  <2>3. sub'[b].pc \in {"idle", "fetched"}
    BY DEF Running
  <2> QED
    BY <1>1, <2>1, <2>2, <2>3 DEF Done
<1> QED
  BY <1>2, <1>3

\* Types of what the invariant compares for one backup.
LEMMA NumbersOf ==
    ASSUME TypeOK, Serving, NEW b \in Brokers
    PROVE  /\ sub[b].cursor \in Nat /\ sub[b].position \in Nat /\ guard[b].first \in Nat
           /\ sequence[primary] \in Nat /\ primary \in Brokers
           /\ \A e \in Q : e \in Entry /\ e.seq \in Nat
           /\ \A e \in queue[b] : e \in Entry /\ e.seq \in Nat
           /\ sequence[b] \in Nat
  BY DEF TypeOK, Serving, Subscription, Guard, Entry, Q

\* The queue of the primary.
LEMMA PrimaryQueue ==
    ASSUME TypeOK, Queues, Serving
    PROVE  /\ \A e \in Q : 1 <= e.seq /\ e.seq <= sequence[primary]
           /\ \A e, f \in Q : e.seq = f.seq \/ e.id = f.id => e = f
  BY DEF TypeOK, Queues, Serving, Q

\* The end of initialize() keeps the invariant: what the backup has and the
\* primary lacks is listed, what both have is skipped.
LEMMA InitializeKeeps ==
    ASSUME IInv, TypeOK', NEW b \in Brokers, Initialize(b)
    PROVE  IInv'
<1>1. TypeOK /\ Structure /\ Queues /\ BackupOK(b)
  BY DEF IInv
<1>2. /\ OthersStay(b) /\ Serving /\ b \in backups /\ b # primary /\ sub[b].pc = "snapshot"
      /\ sub'[b].pc = "idle" /\ sub'[b].cursor = sub[b].cursor
      /\ sub'[b].unready = sub[b].unready
      /\ sub'[b].wasStopped <=> sub[b].wasStopped
      /\ sub'[b].dequeues = sub[b].dequeues \cup (IdsOf(queue[b]) \ sub[b].primaryIds)
      /\ sub'[b].skipEnqueue = IdsOf(queue[b]) \cap sub[b].primaryIds
      /\ Q = {} => sub'[b].position = sequence[primary] + 1
      /\ \A e \in Q : sub'[b].position <= e.seq
      /\ Q # {} => \E e \in Q : sub'[b].position = e.seq
      /\ ReadyFor(b)
      /\ DequeuesSent(b, sub'[b].dequeues)
      /\ guard' = guard /\ acks' = acks
      /\ UNCHANGED <<primary, backups, connected, queueVars, answerVars>>
  BY <1>1, InitializeEffect
<1>3. /\ queue' = queue /\ sequence' = sequence /\ primary' = primary /\ Q' = Q
      /\ assigned' = assigned /\ consumed' = consumed
      /\ \A id : Reused(id)' <=> Reused(id)
      /\ \A e : Live(e)' <=> Live(e)
      /\ \A e : OnB(b, e)' <=> OnB(b, e)
  BY <1>2 DEF queueVars, answerVars, Q, Reused, Live, OnB
<1>4. b \in connected /\ guard[b].on
  BY <1>1, <1>2 DEF Structure
<1>5. /\ chan[b] = <<>> /\ acks[b] = <<>> /\ sub[b].cursor = 0
      /\ ~sub[b].wasStopped /\ ~sub[b].ready /\ ~Running(b)
  BY <1>1, <1>2 DEF Structure, Unstarted, Running
<1>6. /\ SentIn(chan'[b]) = {} /\ ListedIn(chan'[b]) = sub'[b].dequeues
      /\ AcksIn(acks'[b]) = {} /\ InOrder(chan'[b])
      /\ Listed(b)' = sub'[b].dequeues /\ Held(b)' = {}
      /\ sub[b].dequeues \subseteq Listed(b)
  BY <1>2, <1>5, EmptyChannel DEF DequeuesSent, Listed, Held, InHand
<1>7. Running(b)'
  BY <1>2 DEF Running
<1>8. /\ sub'[b].cursor = 0 /\ sub'[b].position \in Nat /\ guard[b].first \in Nat
      /\ sequence[primary] \in Nat /\ primary \in Brokers /\ \A e \in Q : e.seq \in Nat
  BY <1>1, <1>2, <1>5, NumbersOf DEF TypeOK, Subscription
<1>9. \A e \in Q : 1 <= e.seq /\ e.seq <= sequence[primary] /\ ~Done(b, e)'
  BY <1>1, <1>2, <1>8, PrimaryQueue DEF Done
<1>10. GuardOK(b)'
  BY <1>1, <1>2, <1>3, <1>5 DEF BackupOK, GuardOK
<1>11. SnapshotOK(b)'
  BY <1>2 DEF SnapshotOK
<1>12. AnswersOK(b)'
  BY <1>2, <1>3, <1>6 DEF AnswersOK, OnB
<1>13. DequeuesOK(b)'
  <2> SUFFICES ASSUME NEW e \in Q, ~Reused(e.id), e.id \in sub'[b].dequeues
               PROVE  FALSE
    BY <1>3, <1>6 DEF DequeuesOK
  <2>1. e.id \notin sub[b].dequeues
    BY <1>1, <1>2, <1>6 DEF BackupOK, DequeuesOK
  <2>2. e.id \in IdsOf(queue[b]) /\ e.id \notin sub[b].primaryIds
    BY <1>2, <2>1
  <2> QED
    BY <1>1, <1>2, <2>2 DEF BackupOK, SnapshotOK, OnB
<1>14. CursorOK(b)'
  <2>1. sub'[b].position <= sequence[primary] + 1
    BY <1>2, <1>8, <1>9
  <2>2. \A e \in Q : ~(e.seq < sub'[b].position)
    BY <1>2, <1>8
  <2> QED
    BY <1>2, <1>3, <1>8, <2>1, <2>2 DEF CursorOK
<1>15. StoppedOK(b)'
  BY <1>2, <1>5 DEF StoppedOK, ReadyFor
<1>16. ReadyOK(b)'
  <2>1. ASSUME NEW e \in Q, e.seq + 1 < guard[b].first, sub'[b].ready
        PROVE  FALSE
    <3>1. sub'[b].position + 1 >= guard[b].first
      BY <1>2, <1>5, <2>1 DEF ReadyFor
    <3>2. sub'[b].position <= e.seq
      BY <1>2
    <3> QED
      BY <1>8, <2>1, <3>1, <3>2
  <2> QED
    BY <1>2, <1>3, <1>9, <2>1 DEF ReadyOK
<1>17. InTransit(b)'
  BY <1>3, <1>6, <1>9 DEF InTransit
<1>18. Ghosts(b)'
  BY <1>1, <1>2, <1>3 DEF Ghosts, BackupOK, SnapshotOK
<1>19. GhostsFirst(b)'
  <2> SUFFICES ASSUME NEW e \in queue[b], e.id \notin IdsOf(Q)
               PROVE  /\ chan'[b] # <<>> /\ Head(chan'[b]).type = "dequeue"
                      /\ e.id \in Head(chan'[b]).ids
    BY <1>3 DEF GhostsFirst
  <2>1. e.id \in IdsOf(queue[b])
    BY DEF IdsOf
  <2>2. e.id \in sub'[b].dequeues
    BY <1>1, <1>2, <2>1 DEF BackupOK, SnapshotOK
  <2>3. chan'[b] # <<>> /\ Head(chan'[b]) = [type |-> "dequeue", ids |-> sub'[b].dequeues]
    BY <1>2, <1>5, <2>2 DEF DequeuesSent
  <2> QED
    BY <2>2, <2>3
<1>20. LinkKeeps(b)
  BY <1>2, <1>4, <1>6, <1>7 DEF LinkKeeps
<1>21. BackupOK(b)'
  BY <1>10, <1>11, <1>12, <1>13, <1>14, <1>15, <1>16, <1>17, <1>18, <1>19 DEF BackupOK
<1> QED
  BY <1>2, <1>3, <1>4, <1>20, <1>21, LinkStep

\* doDispatch() keeps the invariant: the dequeues so far leave before the next
\* message, and stopped() is called at the end of the queue only.
LEMMA FetchKeeps ==
    ASSUME IInv, TypeOK', NEW b \in Brokers, Fetch(b)
    PROVE  IInv'
<1>1. TypeOK /\ Structure /\ Queues /\ BackupOK(b)
  BY DEF IInv
<1>2. /\ OthersStay(b) /\ Serving /\ b \in backups /\ b # primary /\ sub[b].pc = "idle"
      /\ sub'[b].position = sub[b].position /\ sub'[b].dequeues = sub[b].dequeues
      /\ sub'[b].skipEnqueue = sub[b].skipEnqueue /\ sub'[b].unready = sub[b].unready
      /\ FetchesMessage(b) \/ FetchesNothing(b)
      /\ DequeuesSent(b, sub[b].dequeues)
      /\ guard' = guard /\ acks' = acks
      /\ UNCHANGED <<primary, backups, connected, queueVars, answerVars>>
  BY <1>1, FetchEffect
<1>3. /\ queue' = queue /\ sequence' = sequence /\ primary' = primary /\ Q' = Q
      /\ assigned' = assigned /\ consumed' = consumed
      /\ \A id : Reused(id)' <=> Reused(id)
      /\ \A e : Live(e)' <=> Live(e)
      /\ \A e : OnB(b, e)' <=> OnB(b, e)
  BY <1>2 DEF queueVars, answerVars, Q, Reused, Live, OnB
<1>4. b \in connected /\ guard[b].on
  BY <1>1, <1>2 DEF Structure
<1>5. Running(b) /\ Running(b)'
  BY <1>2 DEF Running, FetchesMessage, FetchesNothing
<1>6. /\ sub[b].cursor \in Nat /\ sub'[b].cursor \in Nat /\ sub[b].position \in Nat
      /\ guard[b].first \in Nat
      /\ sequence[primary] \in Nat /\ primary \in Brokers
      /\ \A e \in Q : e.seq \in Nat
  BY <1>1, <1>2, NumbersOf DEF TypeOK, Subscription
<1>7. /\ SentIn(chan'[b]) = SentIn(chan[b]) /\ AcksIn(acks'[b]) = AcksIn(acks[b])
      /\ Listed(b)' = Listed(b)
      /\ Held(b) = SentIn(chan[b]) /\ Held(b)' \subseteq SentIn(chan[b]) \cup Q
  BY <1>2 DEF DequeuesSent, Listed, Held, InHand, FetchesMessage, FetchesNothing
<1>8. ASSUME NEW e \in Q PROVE Done(b, e)' <=> Done(b, e)
  BY <1>2, <1>6 DEF Done, FetchesMessage, FetchesNothing
<1>9. \A e \in Q : 1 <= e.seq /\ e.seq <= sequence[primary]
  BY <1>1, <1>2, PrimaryQueue
<1>10. GuardOK(b)'
  BY <1>1, <1>2, <1>3, <1>5 DEF BackupOK, GuardOK
<1>11. SnapshotOK(b)'
  BY <1>2 DEF SnapshotOK, FetchesMessage, FetchesNothing
<1>12. AnswersOK(b)'
  BY <1>1, <1>2, <1>3, <1>5, <1>7 DEF BackupOK, AnswersOK
<1>13. DequeuesOK(b)'
  BY <1>1, <1>2, <1>3, <1>7 DEF BackupOK, DequeuesOK
<1>14. CursorOK(b)'
  <2>1. sub'[b].cursor <= sequence[primary] /\ sub'[b].position <= sequence[primary] + 1
    BY <1>1, <1>2, <1>5, <1>6, <1>9 DEF BackupOK, CursorOK, FetchesMessage, FetchesNothing
  <2>2. \A e \in Q : e.seq < sub'[b].position => Done(b, e)'
    BY <1>1, <1>2, <1>5, <1>8 DEF BackupOK, CursorOK
  <2>3. ASSUME sub'[b].pc = "fetched"
        PROVE  /\ sub'[b].hand.seq = sub'[b].cursor /\ sub'[b].position <= sub'[b].cursor
               /\ \A e \in Q : e.seq = sub'[b].cursor => e = sub'[b].hand
    <3>1. FetchesMessage(b)
      BY <1>2, <2>3 DEF FetchesNothing
    <3>2. sub'[b].hand \in Q /\ sub'[b].cursor = sub'[b].hand.seq /\ sub'[b].cursor > sub[b].cursor
      BY <3>1 DEF FetchesMessage
    <3>3. ~Done(b, sub'[b].hand)
      BY <1>2, <1>6, <3>2 DEF Done
    <3>4. ~(sub'[b].hand.seq < sub[b].position)
      BY <1>1, <1>5, <3>2, <3>3 DEF BackupOK, CursorOK
    <3>5. \A e \in Q : e.seq = sub'[b].cursor => e = sub'[b].hand
      BY <1>1, <1>2, <3>2, PrimaryQueue
    <3> QED
      BY <1>2, <1>6, <3>2, <3>4, <3>5
  <2> QED
    BY <1>3, <2>1, <2>2, <2>3 DEF CursorOK
<1>15. StoppedOK(b)'
  <2>1. CASE FetchesMessage(b)
    <3>1. /\ sub'[b].hand \in Q /\ sub'[b].cursor = sub'[b].hand.seq
          /\ sub'[b].cursor > sub[b].cursor
          /\ sub'[b].wasStopped <=> sub[b].wasStopped
          /\ sub'[b].ready <=> sub[b].ready
      BY <2>1 DEF FetchesMessage
    <3>2. /\ sub[b].wasStopped => \A e \in Q : e.seq > sub[b].cursor => e.seq >= guard[b].first
          /\ sub[b].ready => sub[b].wasStopped \/ sub[b].position + 1 >= guard[b].first
      BY <1>1, <1>5 DEF BackupOK, StoppedOK
    <3>3. \A e \in Q : e.seq > sub'[b].cursor => e.seq > sub[b].cursor
      BY <1>6, <3>1
    <3> QED
      BY <1>2, <1>3, <3>1, <3>2, <3>3 DEF StoppedOK
  <2>2. CASE FetchesNothing(b)
    BY <1>3, <2>2 DEF FetchesNothing, StoppedOK
  <2> QED
    BY <1>2, <2>1, <2>2
<1>16. ReadyOK(b)'
  <2> SUFFICES ASSUME NEW e \in Q, ~Reused(e.id), e.seq + 1 < guard[b].first
               PROVE  /\ sub'[b].ready => OnB(b, e)
                      /\ Done(b, e) => OnB(b, e) \/ e.id \in sub[b].unready
    BY <1>2, <1>3, <1>8 DEF ReadyOK
  <2>1. /\ sub[b].ready => OnB(b, e)
        /\ Done(b, e) => OnB(b, e) \/ e.id \in sub[b].unready
    BY <1>1, <1>5 DEF BackupOK, ReadyOK
  <2>2. ASSUME sub'[b].ready, ~sub[b].ready
        PROVE  OnB(b, e)
    <3>1. FetchesNothing(b)
      BY <1>2, <2>2 DEF FetchesMessage
    <3>2. sub[b].unready = {}
      BY <1>2, <2>2, <3>1 DEF FetchesNothing, ReadyFor
    <3>3. ~(e.seq > sub[b].cursor)
      BY <3>1 DEF FetchesNothing
    <3>4. Done(b, e)
      BY <1>2, <1>6, <3>3 DEF Done
    <3> QED
      BY <2>1, <3>2, <3>4
  <2> QED
    BY <2>1, <2>2
<1>17. InTransit(b)'
  <2>1. /\ InOrder(chan[b]) /\ \A e \in SentIn(chan[b]) : Done(b, e)
        /\ \A e \in Held(b) : e \in Q \/ (e.msg \in consumed /\ e.id \in sub[b].dequeues)
        /\ \A e \in Q : ~Reused(e.id) /\ Done(b, e) => OnB(b, e) \/ e \in SentIn(chan[b])
    BY <1>1, <1>5 DEF BackupOK, InTransit
  <2>2. ASSUME NEW e \in SentIn(chan[b])
        PROVE  Done(b, e)'
    <3>1. e \in Entry
      <4>1. chan[b] \in Seq(Transfer)
        BY <1>1 DEF TypeOK
      <4>2. PICK i \in 1 .. Len(chan[b]) : chan[b][i].type = "message" /\ e = chan[b][i].entry
        BY DEF SentIn, Positions
      <4>3. chan[b][i] \in Transfer
        BY <4>1
      <4> QED
        BY <4>2, <4>3 DEF Transfer
    <3>2. e.seq \in Nat /\ Done(b, e)
      BY <2>1, <3>1 DEF Entry
    <3> QED
      BY <1>2, <1>6, <3>2 DEF Done, FetchesMessage, FetchesNothing
  <2>3. InOrder(chan'[b])
    BY <1>2, <2>1 DEF DequeuesSent
  <2> QED
    BY <1>2, <1>3, <1>7, <1>8, <2>1, <2>2, <2>3 DEF InTransit
<1>18. Ghosts(b)'
  BY <1>1, <1>2, <1>3, <1>5 DEF Ghosts, BackupOK
<1>19. GhostsFirst(b)'
  BY <1>1, <1>2, <1>3, <1>5 DEF GhostsFirst, BackupOK, DequeuesSent
<1>20. LinkKeeps(b)
  BY <1>2, <1>4, <1>5, <1>7 DEF LinkKeeps, Running
<1>21. BackupOK(b)'
  BY <1>10, <1>11, <1>12, <1>13, <1>14, <1>15, <1>16, <1>17, <1>18, <1>19 DEF BackupOK
<1> QED
  BY <1>2, <1>3, <1>4, <1>20, <1>21, LinkStep

\* What is on the way to a backup are messages.
LEMMA SentAreEntries ==
    ASSUME TypeOK, NEW b \in Brokers
    PROVE  \A e \in SentIn(chan[b]) : e \in Entry /\ e.seq \in Nat
<1> TAKE e \in SentIn(chan[b])
<1>1. chan[b] \in Seq(Transfer)
  BY DEF TypeOK
<1>2. PICK i \in 1 .. Len(chan[b]) : chan[b][i].type = "message" /\ e = chan[b][i].entry
  BY DEF SentIn, Positions
<1>3. chan[b][i] \in Transfer
  BY <1>1
<1> QED
  BY <1>2, <1>3 DEF Transfer, Entry

\* deliver() keeps the invariant although the message it holds may be gone
\* from the queue: then its dequeue is still to be sent, behind it.
LEMMA DeliverKeeps ==
    ASSUME IInv, TypeOK', NEW b \in Brokers, Deliver(b)
    PROVE  IInv'
<1>0. PICK e : e = sub[b].hand
  OBVIOUS
<1>1. TypeOK /\ Structure /\ Naming /\ Queues /\ BackupOK(b)
  BY DEF IInv
<1>2. /\ OthersStay(b) /\ Serving /\ b \in backups /\ b # primary /\ sub[b].pc = "fetched"
      /\ e \in Entry
      /\ sub'[b].pc = "idle" /\ sub'[b].cursor = sub[b].cursor
      /\ sub'[b].position = e.seq /\ sub'[b].dequeues = sub[b].dequeues
      /\ sub'[b].wasStopped <=> sub[b].wasStopped
      /\ DeliversSkipped(b) \/ DeliversMessage(b)
      /\ ReadyFor(b)
      /\ acks' = acks
      /\ UNCHANGED <<primary, backups, connected, queueVars, consumed>>
  BY <1>0, <1>1, DeliverEffect
<1>3. /\ queue' = queue /\ sequence' = sequence /\ primary' = primary /\ Q' = Q
      /\ assigned' = assigned /\ consumed' = consumed
      /\ \A id : Reused(id)' <=> Reused(id)
      /\ \A f : Live(f)' <=> Live(f)
      /\ \A f : OnB(b, f)' <=> OnB(b, f)
  BY <1>2 DEF queueVars, Q, Reused, Live, OnB
<1>4. b \in connected /\ guard[b].on
  BY <1>1, <1>2 DEF Structure
<1>5. Running(b) /\ Running(b)'
  BY <1>2 DEF Running
<1>6. /\ sub[b].cursor \in Nat /\ sub[b].position \in Nat /\ guard[b].first \in Nat
      /\ sequence[primary] \in Nat /\ primary \in Brokers /\ primary' \in Brokers
      /\ e.seq \in Nat /\ \A f \in Q : f.seq \in Nat
  BY <1>1, <1>2, <1>3, NumbersOf DEF Entry
<1>7. /\ guard'[b].on = guard[b].on /\ guard'[b].first = guard[b].first
      /\ guard'[b].delayed \subseteq guard[b].delayed
      /\ sub'[b].skipEnqueue \subseteq sub[b].skipEnqueue
      /\ sub[b].unready \subseteq sub'[b].unready
      /\ SentIn(chan'[b]) \subseteq SentIn(chan[b]) \cup {e}
      /\ SentIn(chan[b]) \subseteq SentIn(chan'[b])
      /\ ListedIn(chan'[b]) = ListedIn(chan[b])
      /\ chan[b] # <<>> => chan'[b] # <<>> /\ Head(chan'[b]) = Head(chan[b])
  <2>1. CASE DeliversSkipped(b)
    BY <1>0, <2>1 DEF DeliversSkipped, GuardCompletes
  <2>2. CASE DeliversMessage(b)
    BY <1>0, <2>2 DEF DeliversMessage, MessageSent
  <2> QED
    BY <1>2, <2>1, <2>2
<1>8. /\ AcksIn(acks'[b]) = AcksIn(acks[b]) /\ Listed(b)' = Listed(b)
      /\ Held(b) = SentIn(chan[b]) \cup {e} /\ Held(b)' = SentIn(chan'[b])
  BY <1>0, <1>2, <1>7 DEF Listed, Held, InHand
<1>9. /\ e.seq = sub[b].cursor /\ sub[b].position <= sub[b].cursor
      /\ sub[b].cursor <= sequence[primary]
      /\ \A f \in Q : f.seq = sub[b].cursor => f = e
      /\ \A f \in Q : f.seq < sub[b].position => Done(b, f)
  BY <1>0, <1>1, <1>2, <1>5 DEF BackupOK, CursorOK
<1>10. ASSUME NEW f, f \in Q \/ f \in SentIn(chan[b])
       PROVE  /\ Done(b, f) => Done(b, f)'
              /\ f \in Q => (Done(b, f)' <=> Done(b, f) \/ f = e)
  BY <1>1, <1>2, <1>6, <1>9, SentAreEntries DEF Done
<1>11. ASSUME NEW f \in Q, ~Reused(f.id), DeliversSkipped(b), f.id = e.id
       PROVE  OnB(b, f)
  BY <1>0, <1>1, <1>5, <1>11 DEF BackupOK, AnswersOK, DeliversSkipped
<1>12. GuardOK(b)'
  <2>1. ASSUME NEW f \in Q, ~Reused(f.id), f.seq >= guard[b].first
        PROVE  f.id \in guard'[b].delayed \/ OnB(b, f)
    <3>1. f.id \in guard[b].delayed \/ OnB(b, f)
      BY <1>1, <1>2, <1>4, <2>1 DEF BackupOK, GuardOK
    <3>2. CASE DeliversSkipped(b)
      BY <1>0, <1>11, <2>1, <3>1, <3>2 DEF DeliversSkipped, GuardCompletes
    <3>3. CASE DeliversMessage(b)
      BY <1>0, <3>1, <3>3 DEF DeliversMessage
    <3> QED
      BY <1>2, <3>2, <3>3
  <2>2. guard[b].first <= sequence[primary] + 1
    BY <1>1, <1>2, <1>4 DEF BackupOK, GuardOK
  <2> QED
    BY <1>3, <1>5, <1>7, <2>1, <2>2 DEF GuardOK
<1>13. SnapshotOK(b)'
  BY <1>2 DEF SnapshotOK
<1>14. AnswersOK(b)'
  BY <1>1, <1>3, <1>5, <1>7, <1>8 DEF BackupOK, AnswersOK
<1>15. DequeuesOK(b)'
  BY <1>1, <1>2, <1>3, <1>8 DEF BackupOK, DequeuesOK
<1>16. CursorOK(b)'
  <2>1. sub'[b].cursor <= sequence[primary] /\ sub'[b].position <= sequence[primary] + 1
    BY <1>2, <1>6, <1>9
  <2>2. ASSUME NEW f \in Q, f.seq < sub'[b].position PROVE Done(b, f)'
    BY <1>2, <1>9, <2>2 DEF Done
  <2> QED
    BY <1>0, <1>2, <1>3, <2>1, <2>2 DEF CursorOK
<1>17. StoppedOK(b)'
  <2>1. sub[b].wasStopped => \A f \in Q : f.seq > sub[b].cursor => f.seq >= guard[b].first
    BY <1>1, <1>5 DEF BackupOK, StoppedOK
  <2>2. ASSUME sub'[b].ready
        PROVE  sub'[b].wasStopped \/ sub'[b].position + 1 >= guard[b].first
    <3>1. CASE sub[b].ready
      <4>1. sub[b].wasStopped \/ sub[b].position + 1 >= guard[b].first
        BY <1>1, <1>5, <3>1 DEF BackupOK, StoppedOK
      <4> QED
        BY <1>2, <1>6, <1>9, <4>1
    <3>2. CASE ~sub[b].ready
      BY <1>2, <2>2, <3>2 DEF ReadyFor
    <3> QED
      BY <3>1, <3>2
  <2> QED
    BY <1>2, <1>3, <1>7, <2>1, <2>2 DEF StoppedOK
<1>18. ReadyOK(b)'
  <2> SUFFICES ASSUME NEW f \in Q, ~Reused(f.id), f.seq + 1 < guard[b].first
               PROVE  /\ sub'[b].ready => OnB(b, f)
                      /\ Done(b, f)' => OnB(b, f) \/ f.id \in sub'[b].unready
    BY <1>3, <1>7 DEF ReadyOK
  <2>1. /\ sub[b].ready => OnB(b, f)
        /\ Done(b, f) => OnB(b, f) \/ f.id \in sub[b].unready
    BY <1>1, <1>5 DEF BackupOK, ReadyOK
  <2>2. ASSUME f = e PROVE OnB(b, f) \/ f.id \in sub'[b].unready
    <3>1. CASE DeliversSkipped(b)
      BY <1>11, <2>2, <3>1
    <3>2. CASE DeliversMessage(b)
      <4>1. ~sub[b].wasStopped
        <5>1. sub[b].wasStopped => sub[b].cursor >= guard[b].first
          BY <1>1, <1>2, <1>5 DEF BackupOK, StoppedOK
        <5> QED
          BY <1>6, <1>9, <2>2, <5>1
      <4>2. CASE sub[b].ready
        BY <2>1, <4>2
      <4>3. CASE ~sub[b].ready
        BY <1>0, <2>2, <3>2, <4>1, <4>3 DEF DeliversMessage
      <4> QED
        BY <4>2, <4>3
    <3> QED
      BY <1>2, <3>1, <3>2
  <2>3. Done(b, f)' => OnB(b, f) \/ f.id \in sub'[b].unready
    BY <1>7, <1>10, <2>1, <2>2
  <2>4. ASSUME sub'[b].ready, ~sub[b].ready PROVE OnB(b, f)
    <3>1. /\ sub'[b].unready = {}
          /\ sub'[b].wasStopped \/ sub'[b].position + 1 >= guard'[b].first
      BY <1>2, <1>7, <2>4 DEF ReadyFor
    <3>2. f \in Q' /\ f.seq + 1 < guard'[b].first
      BY <1>3, <1>7
    <3>3. Done(b, f)'
      BY <1>5, <1>6, <1>16, <1>17, <3>1, <3>2, PassedWhenGuarded
    <3> QED
      BY <2>3, <3>1, <3>3
  <2> QED
    BY <2>1, <2>3, <2>4
<1>19. InTransit(b)'
  <2>1. /\ InOrder(chan[b]) /\ \A f \in SentIn(chan[b]) : Done(b, f)
        /\ \A f \in Held(b) : f \in Q \/ (f.msg \in consumed /\ f.id \in sub[b].dequeues)
        /\ \A f \in Q : ~Reused(f.id) /\ Done(b, f) => OnB(b, f) \/ f \in SentIn(chan[b])
    BY <1>1, <1>5 DEF BackupOK, InTransit
  <2>2. InOrder(chan'[b])
    <3>1. CASE DeliversSkipped(b)
      BY <1>0, <2>1, <3>1 DEF DeliversSkipped
    <3>2. CASE DeliversMessage(b)
      <4>1. \A f \in SentIn(chan[b]) : f.seq < e.seq
        BY <1>2, <1>9, <2>1 DEF Done
      <4> QED
        BY <1>0, <2>1, <3>2, <4>1 DEF DeliversMessage, MessageSent
    <3> QED
      BY <1>2, <3>1, <3>2
  <2>3. Done(b, e)'
    BY <1>2, <1>9 DEF Done
  <2>4. \A f \in SentIn(chan'[b]) : Done(b, f)'
    BY <1>7, <1>10, <2>1, <2>3
  <2>5. ASSUME NEW f \in Q, ~Reused(f.id), Done(b, f)'
        PROVE  OnB(b, f) \/ f \in SentIn(chan'[b])
    <3>1. CASE Done(b, f)
      BY <1>7, <2>1, <2>5, <3>1
    <3>2. CASE f = e
      <4>1. CASE DeliversSkipped(b)
        BY <1>11, <2>5, <3>2, <4>1
      <4>2. CASE DeliversMessage(b)
        BY <1>0, <3>2, <4>2 DEF DeliversMessage, MessageSent
      <4> QED
        BY <1>2, <4>1, <4>2
    <3> QED
      BY <1>10, <2>5, <3>1, <3>2
  <2> QED
    BY <1>2, <1>3, <1>7, <1>8, <2>1, <2>2, <2>4, <2>5 DEF InTransit
<1>20. Ghosts(b)'
  BY <1>1, <1>2, <1>3, <1>5 DEF Ghosts, BackupOK
<1>21. GhostsFirst(b)'
  BY <1>1, <1>3, <1>5, <1>7 DEF GhostsFirst, BackupOK
<1>22. LinkKeeps(b)
  BY <1>2, <1>4, <1>5, <1>7, <1>8 DEF LinkKeeps
<1>23. BackupOK(b)'
  BY <1>12, <1>13, <1>14, <1>15, <1>16, <1>17, <1>18, <1>19, <1>20, <1>21 DEF BackupOK
<1> QED
  BY <1>2, <1>3, <1>4, <1>22, <1>23, LinkStep

\* acknowledged() keeps the invariant: the backup has what it acknowledges.
LEMMA AcknowledgedKeeps ==
    ASSUME IInv, TypeOK', NEW b \in Brokers, Acknowledged(b)
    PROVE  IInv'
<1>1. TypeOK /\ Structure /\ Queues /\ BackupOK(b)
  BY DEF IInv
<1>2. /\ OthersStay(b) /\ Serving /\ b \in backups /\ b # primary /\ Running(b)
      /\ sub'[b].pc = sub[b].pc /\ sub'[b].hand = sub[b].hand
      /\ sub'[b].cursor = sub[b].cursor
      /\ sub'[b].position = sub[b].position /\ sub'[b].dequeues = sub[b].dequeues
      /\ sub'[b].skipEnqueue = sub[b].skipEnqueue
      /\ sub'[b].wasStopped <=> sub[b].wasStopped
      /\ AcksIn(acks'[b]) \subseteq AcksIn(acks[b])
      /\ \E id \in AcksIn(acks[b]) :
            /\ sub'[b].unready = sub[b].unready \ {id}
            /\ GuardCompletes(b, id)
      /\ ReadyFor(b)
      /\ chan' = chan
      /\ UNCHANGED <<primary, backups, connected, queueVars, consumed>>
  BY <1>1, AcknowledgedEffect
<1>3. /\ queue' = queue /\ sequence' = sequence /\ primary' = primary /\ Q' = Q
      /\ assigned' = assigned /\ consumed' = consumed
      /\ \A id : Reused(id)' <=> Reused(id)
      /\ \A f : Live(f)' <=> Live(f)
      /\ \A f : OnB(b, f)' <=> OnB(b, f)
      /\ \A f : Done(b, f)' <=> Done(b, f)
  BY <1>2 DEF queueVars, Q, Reused, Live, OnB, Done
<1>4. PICK id \in AcksIn(acks[b]) : /\ sub'[b].unready = sub[b].unready \ {id}
                                    /\ GuardCompletes(b, id)
  BY <1>2
<1>5. /\ guard'[b].on = guard[b].on /\ guard'[b].first = guard[b].first
      /\ guard'[b].delayed = guard[b].delayed \ {id}
  BY <1>4 DEF GuardCompletes
<1>6. Running(b)' /\ b \in connected /\ guard[b].on /\ sub[b].pc \in {"idle", "fetched"}
      /\ primary' \in Brokers
  BY <1>1, <1>2, <1>3 DEF Structure, Running, Serving
<1>7. Listed(b)' = Listed(b) /\ Held(b)' = Held(b)
  BY <1>2 DEF Listed, Held, InHand
<1>8. \A f \in Q : ~Reused(f.id) /\ f.id = id => OnB(b, f)
  BY <1>1, <1>2 DEF BackupOK, AnswersOK
<1>9. GuardOK(b)'
  BY <1>1, <1>2, <1>3, <1>5, <1>6, <1>8 DEF BackupOK, GuardOK
<1>10. SnapshotOK(b)'
  BY <1>2, <1>6 DEF SnapshotOK
<1>11. AnswersOK(b)'
  BY <1>1, <1>2, <1>3 DEF BackupOK, AnswersOK
<1>12. DequeuesOK(b)'
  BY <1>1, <1>2, <1>3, <1>7 DEF BackupOK, DequeuesOK
<1>13. CursorOK(b)'
  BY <1>1, <1>2, <1>3 DEF BackupOK, CursorOK
<1>14. StoppedOK(b)'
  BY <1>1, <1>2, <1>3, <1>5 DEF BackupOK, StoppedOK, ReadyFor
<1>15. ReadyOK(b)'
  <2> SUFFICES ASSUME NEW f \in Q, ~Reused(f.id), f.seq + 1 < guard[b].first
               PROVE  /\ sub'[b].ready => OnB(b, f)
                      /\ Done(b, f) => OnB(b, f) \/ f.id \in sub'[b].unready
    BY <1>3, <1>5 DEF ReadyOK
  <2>1. /\ sub[b].ready => OnB(b, f)
        /\ Done(b, f) => OnB(b, f) \/ f.id \in sub'[b].unready
    BY <1>1, <1>2, <1>4, <1>8 DEF BackupOK, ReadyOK
  <2>2. ASSUME sub'[b].ready, ~sub[b].ready PROVE OnB(b, f)
    <3>1. /\ sub'[b].unready = {}
          /\ sub'[b].wasStopped \/ sub'[b].position + 1 >= guard'[b].first
      BY <1>2, <1>5, <2>2 DEF ReadyFor
    <3>2. f \in Q' /\ f.seq + 1 < guard'[b].first
      BY <1>3, <1>5
    <3>3. Done(b, f)'
      BY <1>6, <1>13, <1>14, <3>1, <3>2, PassedWhenGuarded
    <3> QED
      BY <1>3, <2>1, <3>1, <3>3
  <2> QED
    BY <2>1, <2>2
<1>16. InTransit(b)'
  BY <1>1, <1>2, <1>3, <1>7 DEF InTransit, BackupOK
<1>17. Ghosts(b)'
  BY <1>1, <1>2, <1>3 DEF Ghosts, BackupOK
<1>18. GhostsFirst(b)'
  BY <1>1, <1>2, <1>3 DEF GhostsFirst, BackupOK
<1>19. LinkKeeps(b)
  BY <1>2, <1>5, <1>6, <1>7 DEF LinkKeeps
<1>20. BackupOK(b)'
  BY <1>9, <1>10, <1>11, <1>12, <1>13, <1>14, <1>15, <1>16, <1>17, <1>18 DEF BackupOK
<1> QED
  BY <1>2, <1>3, <1>6, <1>19, <1>20, LinkStep

\* A backup connects.
LEMMA OpenedKeeps ==
    ASSUME IInv, TypeOK', NEW b \in Brokers, Opened(b)
    PROVE  IInv'
<1>1. /\ Serving /\ b # primary /\ connected' = connected \cup {b} /\ backups' = backups \cup {b}
      /\ UNCHANGED <<primary, queueVars, consumed, linkVars, guard, sub>>
  BY DEF Opened, answerVars
<1>2. Numbering' /\ Queues' /\ SameHistory'
  BY <1>1, QueuesKept
<1>3. /\ queue' = queue /\ sequence' = sequence /\ pending' = pending /\ assigned' = assigned
      /\ chan' = chan /\ acks' = acks /\ guard' = guard /\ sub' = sub /\ primary' = primary
      /\ Q' = Q /\ \A id : Reused(id)' <=> Reused(id)
      /\ \A x \in Brokers : Seen(x)' = Seen(x)
  BY <1>1 DEF queueVars, linkVars, Q, Reused, Seen, Held, InHand, Listed
<1>4. Naming'
  BY <1>3 DEF IInv, Naming, IsNamed, Given, Held, InHand, Listed
<1>5. Unpushed'
  BY <1>3 DEF IInv, Unpushed
<1>6. Structure'
  BY <1>1, <1>3 DEF IInv, Structure, Serving, Running, Unstarted
<1>7. ASSUME NEW x \in Brokers PROVE BackupOK(x)'
  <2>1. BackupOK(x)
    BY DEF IInv
  <2> QED
    BY <1>1, <1>3, <2>1, FrameKeeps
<1> QED
  BY <1>2, <1>4, <1>5, <1>6, <1>7 DEF IInv

\* The first steps of a subscription, which has neither sent nor got anything.
LEMMA SetUpStep ==
    ASSUME IInv, TypeOK', NEW b \in Brokers,
           UNCHANGED <<queueVars, answerVars, memberVars, linkVars>>,
           b \in connected, guard'[b].on, ~Running(b),
           \A x \in Brokers : x # b => sub'[x] = sub[x] /\ guard'[x] = guard[x],
           sub'[b].pc \in {"guard", "attached", "snapshot"},
           sub'[b].hand = sub[b].hand, sub'[b].cursor = sub[b].cursor,
           sub'[b].wasStopped = sub[b].wasStopped, sub'[b].ready = sub[b].ready,
           sub'[b].skipEnqueue = sub[b].skipEnqueue, sub'[b].unready = sub[b].unready,
           sub'[b].dequeues = sub[b].dequeues,
           GuardOK(b)', SnapshotOK(b)', DequeuesOK(b)'
    PROVE  IInv'
<1>1. /\ UNCHANGED <<primary, consumed, backups, connected, chan, acks>>
  BY DEF answerVars, memberVars, linkVars
<1>2. OthersStay(b)
  BY <1>1 DEF OthersStay
<1>3. b \in backups /\ Serving /\ Unstarted(b)
  BY DEF IInv, TypeOK, Structure
<1>4. Unstarted(b)' /\ ~Running(b)'
  BY <1>1, <1>3 DEF Unstarted, Running
<1>5. /\ Held(b)' = Held(b) /\ Listed(b)' = Listed(b)
      /\ AcksIn(acks[b])' = AcksIn(acks[b])
  <2>1. InHand(b) = {} /\ InHand(b)' = {}
    BY <1>4 DEF InHand, Running
  <2> QED
    BY <1>1, <2>1 DEF Held, Listed
<1>6. LinkKeeps(b)
  BY <1>4, <1>5 DEF LinkKeeps
<1>7. BackupOK(b)'
  BY <1>4 DEF BackupOK, AnswersOK, CursorOK, StoppedOK, ReadyOK, InTransit, Ghosts, GhostsFirst
<1> QED
  BY <1>1, <1>2, <1>3, <1>6, <1>7, LinkStep

\* The first steps of initialize() keep the invariant: the guard observes the
\* queue before its first position is read, the subscription before the snapshot.
LEMMA SetUpKeeps ==
    ASSUME IInv, TypeOK', NEW b \in Brokers,
           TakeGuard(b) \/ StartGuard(b) \/ SetFirst(b) \/ Snapshot(b)
    PROVE  IInv'
<1>1. TypeOK /\ Structure /\ Queues /\ BackupOK(b) /\ sub[b] \in Subscription /\ guard[b] \in Guard
  BY DEF IInv, TypeOK
<1>2. UNCHANGED <<queueVars, answerVars, memberVars, linkVars>>
  BY DEF TakeGuard, StartGuard, SetFirst, Snapshot
<1>3. /\ primary' = primary /\ queue' = queue /\ Q' = Q /\ sequence' = sequence
      /\ assigned' = assigned /\ chan' = chan
      /\ \A id : Reused(id)' <=> Reused(id)
      /\ \A e : OnB(b, e)' <=> OnB(b, e)
  BY <1>2 DEF queueVars, memberVars, linkVars, Q, Reused, OnB
<1>4. ~Running(b) /\ b \in connected /\ Serving /\ chan[b] = <<>>
  <2>1. sub[b].pc \in {"none", "guard", "attached"}
    BY DEF TakeGuard, StartGuard, SetFirst, Snapshot
  <2>2. ~Running(b)
    BY <2>1 DEF Running
  <2>3. b \in connected
    BY <1>1 DEF TakeGuard, StartGuard, SetFirst, Snapshot, Structure
  <2> QED
    BY <1>1, <2>2, <2>3 DEF Structure, Unstarted, TypeOK
<1>5. /\ sequence[primary] \in Nat
      /\ \A e \in Q : e.seq \in Nat /\ e.seq <= sequence[primary]
  BY <1>1, <1>4, NumbersOf, PrimaryQueue
<1>6. sub[b].pc = "none" => sub[b].dequeues = {}
  BY <1>1 DEF Structure, NoSub
<1>7. ListedIn(chan[b]) = {} /\ Listed(b) = sub[b].dequeues
  BY <1>4, EmptyChannel DEF Listed
<1>8. \A e \in Q : ~Reused(e.id) => e.id \notin sub[b].dequeues
  BY <1>1, <1>6, <1>7 DEF BackupOK, DequeuesOK
<1>9. ASSUME sub'[b].dequeues = sub[b].dequeues
      PROVE  DequeuesOK(b)'
  BY <1>3, <1>7, <1>8, <1>9 DEF DequeuesOK, Listed
<1>10. CASE TakeGuard(b)
  <2>1. sub'[b] = [sub[b] EXCEPT !.pc = "attached"]
        /\ \A x \in Brokers : x # b => sub'[x] = sub[x]
    BY <1>1, <1>10, TakeGuardEffect
  <2>2. sub'[b].pc = "attached" /\ sub'[b].hand = sub[b].hand /\ sub'[b].cursor = sub[b].cursor
        /\ sub'[b].wasStopped = sub[b].wasStopped /\ sub'[b].ready = sub[b].ready
        /\ sub'[b].skipEnqueue = sub[b].skipEnqueue /\ sub'[b].unready = sub[b].unready
        /\ sub'[b].dequeues = sub[b].dequeues
    BY <1>1, <2>1 DEF Subscription
  <2>3. guard' = guard /\ guard[b].on /\ sub[b].pc = "none"
    BY <1>10 DEF TakeGuard
  <2>4. GuardOK(b)'
    BY <1>1, <1>3, <1>4, <2>2, <2>3 DEF BackupOK, GuardOK
  <2>5. SnapshotOK(b)'
    BY <2>2 DEF SnapshotOK
  <2> QED
    BY <1>2, <1>4, <1>9, <2>1, <2>2, <2>3, <2>4, <2>5, SetUpStep
<1>11. CASE StartGuard(b)
  <2>1. /\ sub'[b] = [sub[b] EXCEPT !.pc = "guard"] /\ guard'[b] = [guard[b] EXCEPT !.on = TRUE]
        /\ \A x \in Brokers : x # b => sub'[x] = sub[x] /\ guard'[x] = guard[x]
    BY <1>1, <1>11, StartGuardEffect
  <2>2. sub'[b].pc = "guard" /\ sub'[b].hand = sub[b].hand /\ sub'[b].cursor = sub[b].cursor
        /\ sub'[b].wasStopped = sub[b].wasStopped /\ sub'[b].ready = sub[b].ready
        /\ sub'[b].skipEnqueue = sub[b].skipEnqueue /\ sub'[b].unready = sub[b].unready
        /\ sub'[b].dequeues = sub[b].dequeues /\ guard'[b].on
    BY <1>1, <2>1 DEF Subscription, Guard
  <2>3. GuardOK(b)' /\ SnapshotOK(b)'
    BY <2>2 DEF GuardOK, SnapshotOK
  <2> QED
    BY <1>2, <1>4, <1>9, <2>1, <2>2, <2>3, SetUpStep
<1>12. CASE SetFirst(b)
  <2>1. /\ sub'[b] = [sub[b] EXCEPT !.pc = "attached"]
        /\ guard'[b] = [guard[b] EXCEPT !.first = sequence[primary] + 1]
        /\ \A x \in Brokers : x # b => sub'[x] = sub[x] /\ guard'[x] = guard[x]
    BY <1>1, <1>4, <1>12, SetFirstEffect
  <2>2. guard[b].on
    BY <1>1, <1>12 DEF Structure, SetFirst
  <2>3. sub'[b].pc = "attached" /\ sub'[b].hand = sub[b].hand /\ sub'[b].cursor = sub[b].cursor
        /\ sub'[b].wasStopped = sub[b].wasStopped /\ sub'[b].ready = sub[b].ready
        /\ sub'[b].skipEnqueue = sub[b].skipEnqueue /\ sub'[b].unready = sub[b].unready
        /\ sub'[b].dequeues = sub[b].dequeues
        /\ guard'[b].on /\ guard'[b].first = sequence[primary] + 1
    BY <1>1, <2>1, <2>2 DEF Subscription, Guard
  <2>4. GuardOK(b)'
    <3>1. \A e \in Q : ~(e.seq >= sequence[primary] + 1)
      BY <1>5
    <3>2. guard'[b].first <= sequence[primary] + 1
      BY <1>5, <2>3
    <3> QED
      BY <1>3, <2>3, <3>1, <3>2 DEF GuardOK
  <2>5. SnapshotOK(b)'
    BY <2>3 DEF SnapshotOK
  <2> QED
    BY <1>2, <1>4, <1>9, <2>1, <2>3, <2>4, <2>5, SetUpStep
<1>13. CASE Snapshot(b)
  <2>1. sub'[b] = [sub[b] EXCEPT !.pc = "snapshot", !.primaryIds = IdsOf(Q)]
        /\ \A x \in Brokers : x # b => sub'[x] = sub[x]
    BY <1>1, <1>4, <1>13, SnapshotEffect
  <2>2. sub'[b].pc = "snapshot" /\ sub'[b].hand = sub[b].hand /\ sub'[b].cursor = sub[b].cursor
        /\ sub'[b].wasStopped = sub[b].wasStopped /\ sub'[b].ready = sub[b].ready
        /\ sub'[b].skipEnqueue = sub[b].skipEnqueue /\ sub'[b].unready = sub[b].unready
        /\ sub'[b].dequeues = sub[b].dequeues /\ sub'[b].primaryIds = IdsOf(Q)
    BY <1>1, <2>1 DEF Subscription
  <2>3. guard' = guard /\ guard[b].on /\ sub[b].pc = "attached"
    BY <1>1, <1>13 DEF Snapshot, Structure
  <2>4. GuardOK(b)'
    BY <1>1, <1>3, <1>4, <2>2, <2>3 DEF BackupOK, GuardOK
  <2>5. SnapshotOK(b)'
    BY <1>3, <2>2 DEF SnapshotOK, IdsOf
  <2> QED
    BY <1>2, <1>4, <1>9, <2>1, <2>2, <2>3, <2>4, <2>5, SetUpStep
<1> QED
  BY <1>10, <1>11, <1>12, <1>13

\* The backup receives dequeues: what they list is off the primary.
LEMMA DequeuesReceived ==
    ASSUME IInv, TypeOK', NEW b \in Brokers, Receive(b), ReceivesDequeues(b)
    PROVE  /\ BackupOK(b)' /\ SameHistory'
           /\ queue'[b] \subseteq queue[b] /\ \A x \in Brokers : x # b => queue'[x] = queue[x]
<1> DEFINE ids == Head(chan[b]).ids
<1>1. TypeOK /\ Structure /\ Numbering /\ Naming /\ Queues /\ BackupOK(b)
  BY DEF IInv
<1>2. /\ chan[b] \in Seq(Transfer) /\ chan[b] # <<>> /\ chan'[b] = Tail(chan[b])
      /\ Serving /\ b # primary /\ Running(b)
      /\ UNCHANGED <<nextId, pending, assigned, answerVars, memberVars, guard, sub>>
  BY <1>1, ReceiveEffect
<1>3. /\ Head(chan[b]).type = "dequeue"
      /\ queue'[b] = {e \in queue[b] : e.id \notin ids}
      /\ \A x \in Brokers : x # b => queue'[x] = queue[x]
      /\ sequence' = sequence /\ acks' = acks
  BY <1>1 DEF ReceivesDequeues, TypeOK
<1>4. /\ primary \in Brokers /\ primary' = primary /\ Q' = Q /\ consumed' = consumed
      /\ sub' = sub /\ guard' = guard
      /\ \A id : Reused(id)' <=> Reused(id)
      /\ \A f : Live(f)' <=> Live(f)
      /\ \A f : Done(b, f)' <=> Done(b, f)
      /\ Running(b)'
  BY <1>2, <1>3 DEF Serving, memberVars, answerVars, Q, Reused, Live, Done, Running
<1>5. /\ SentIn(chan'[b]) = SentIn(chan[b]) /\ ListedIn(chan'[b]) \subseteq ListedIn(chan[b])
      /\ InOrder(chan[b]) => InOrder(chan'[b])
      /\ ids \subseteq ListedIn(chan[b])
  BY <1>2, <1>3, TailProperties
<1>6. Held(b)' = Held(b) /\ Listed(b)' \subseteq Listed(b) /\ ids \subseteq Listed(b)
  BY <1>4, <1>5 DEF Held, Listed, InHand
<1>7. \A f \in Q : ~Reused(f.id) => f.id \notin Listed(b)
  BY <1>1, <1>2 DEF BackupOK, DequeuesOK, Running
<1>8. ASSUME NEW f \in Q, ~Reused(f.id)
      PROVE  OnB(b, f)' <=> OnB(b, f)
  <2>1. f.id \notin ids
    BY <1>6, <1>7, <1>8
  <2> QED
    BY <1>3, <2>1 DEF OnB, IdsOf
<1> HIDE DEF ids
<1>9. GuardOK(b)'
  BY <1>1, <1>3, <1>4, <1>8 DEF BackupOK, GuardOK, Running
<1>10. SnapshotOK(b)'
  BY <1>2, <1>4 DEF SnapshotOK, Running
<1>11. AnswersOK(b)'
  BY <1>1, <1>2, <1>3, <1>4, <1>8 DEF BackupOK, AnswersOK
<1>12. DequeuesOK(b)'
  BY <1>4, <1>6, <1>7 DEF DequeuesOK
<1>13. CursorOK(b)'
  BY <1>1, <1>2, <1>3, <1>4 DEF BackupOK, CursorOK
<1>14. StoppedOK(b)'
  BY <1>1, <1>2, <1>4 DEF BackupOK, StoppedOK
<1>15. ReadyOK(b)'
  BY <1>1, <1>2, <1>4, <1>8 DEF BackupOK, ReadyOK
<1>16. InTransit(b)'
  BY <1>1, <1>2, <1>4, <1>5, <1>6, <1>8 DEF BackupOK, InTransit
<1>17. Ghosts(b)'
  BY <1>1, <1>2, <1>3, <1>4 DEF BackupOK, Ghosts, IdsOf
<1>18. ASSUME NEW e \in queue'[b], Live(e)
       PROVE  e.id \in IdsOf(Q)
  BY <1>1, <1>2, <1>3, <1>18 DEF BackupOK, GhostsFirst, ids
<1>19. GhostsFirst(b)'
  BY <1>4, <1>18 DEF GhostsFirst
<1>20. SameHistory'
  <2> SUFFICES ASSUME NEW x \in Brokers, NEW y \in Brokers,
                      NEW e \in queue'[x], NEW f \in queue'[x], NEW g \in queue'[y],
                      Live(e), Live(f), e.seq < f.seq, g.id = f.id
               PROVE  \E h \in queue'[y] : h.id = e.id /\ h.seq < g.seq
    BY <1>4 DEF SameHistory
  <2>1. e \in queue[x] /\ f \in queue[x] /\ g \in queue[y]
    BY <1>3
  <2>2. PICK h \in queue[y] : h.id = e.id /\ h.seq < g.seq
    BY <2>1 DEF IInv, SameHistory
  <2>3. CASE y # b
    BY <1>3, <2>2, <2>3
  <2>4. CASE y = b
    <3>1. IsNamed(g) /\ IsNamed(f) /\ ~Reused(f.id) /\ ~Reused(e.id)
      BY <1>1, <2>1 DEF Naming, Live
    <3>2. Live(g)
      BY <1>1, <3>1, NameFacts DEF Live
    <3>3. PICK p \in Q : p.id = f.id
      BY <1>18, <2>4, <3>2 DEF IdsOf
    <3>4. PICK k \in Q : k.id = e.id
      BY <1>4, <2>1, <3>3 DEF IInv, SameHistory, Q
    <3>5. e.id \notin ids
      BY <1>6, <1>7, <3>1, <3>4 DEF ids
    <3> QED
      BY <1>3, <2>2, <2>4, <3>5
  <2> QED
    BY <2>3, <2>4
<1>21. BackupOK(b)'
  BY <1>9, <1>10, <1>11, <1>12, <1>13, <1>14, <1>15, <1>16, <1>17, <1>19 DEF BackupOK
<1> QED
  BY <1>3, <1>20, <1>21

\* What b has received when a message arrives: its own messages are on the
\* primary's queue, and the message it gets is.
LEMMA MessageReceived ==
    ASSUME IInv, TypeOK', NEW b \in Brokers, Receive(b), ReceivesMessage(b)
    PROVE  BackupOK(b)'
<1>0. PICK e : e = Head(chan[b]).entry
  OBVIOUS
<1>1. TypeOK /\ Structure /\ Numbering /\ Naming /\ Queues /\ BackupOK(b)
  BY DEF IInv
<1>2. /\ chan[b] \in Seq(Transfer) /\ chan[b] # <<>> /\ chan'[b] = Tail(chan[b])
      /\ Serving /\ b # primary /\ Running(b)
      /\ UNCHANGED <<nextId, pending, assigned, answerVars, memberVars, guard, sub>>
  BY <1>1, ReceiveEffect
<1>3. /\ Head(chan[b]).type = "message" /\ e \in Entry
      /\ AcksIn(acks'[b]) = AcksIn(acks[b]) \cup {e.id}
      /\ \A x \in Brokers : x # b => queue'[x] = queue[x] /\ sequence'[x] = sequence[x]
      /\ \A f \in queue'[b] : f \in queue[b] \/ (f.id = e.id /\ f.msg = e.msg)
      /\ IdsOf(queue'[b]) = IdsOf(queue[b]) \cup {e.id}
  <2>1. CASE ReceivesKnown(b)
    BY <1>0, <2>1 DEF ReceivesMessage, ReceivesKnown
  <2>2. CASE ReceivesNew(b)
    <3>1. PICK n : n = [id |-> e.id, msg |-> e.msg, seq |-> sequence[b] + 1]
      OBVIOUS
    <3>2. /\ queue'[b] = queue[b] \cup {n} /\ n.id = e.id /\ n.msg = e.msg
          /\ \A x \in Brokers : x # b => queue'[x] = queue[x] /\ sequence'[x] = sequence[x]
      BY <1>0, <1>1, <2>2, <3>1 DEF ReceivesNew, TypeOK
    <3>3. IdsOf(queue'[b]) = IdsOf(queue[b]) \cup {e.id}
      BY <3>2 DEF IdsOf
    <3> QED
      BY <1>0, <3>2, <3>3 DEF ReceivesMessage
  <2> QED
    BY <2>1, <2>2 DEF ReceivesMessage
<1>4. /\ primary \in Brokers /\ primary' = primary /\ Q' = Q /\ consumed' = consumed
      /\ sub' = sub /\ guard' = guard /\ sequence'[primary] = sequence[primary]
      /\ \A id : Reused(id)' <=> Reused(id)
      /\ \A f : Live(f)' <=> Live(f)
      /\ \A f : Done(b, f)' <=> Done(b, f)
      /\ Running(b)'
  BY <1>2, <1>3 DEF Serving, memberVars, answerVars, Q, Reused, Live, Done, Running
<1>5. /\ SentIn(chan[b]) = SentIn(chan'[b]) \cup {e}
      /\ ListedIn(chan'[b]) \subseteq ListedIn(chan[b])
      /\ InOrder(chan[b]) => InOrder(chan'[b])
  BY <1>0, <1>2, <1>3, TailProperties
<1>6. Held(b)' \subseteq Held(b) /\ Listed(b)' \subseteq Listed(b) /\ e \in Held(b)
  BY <1>4, <1>5 DEF Held, Listed, InHand
<1>7. \A f : (OnB(b, f) => OnB(b, f)') /\ (f.id = e.id => OnB(b, f)')
  BY <1>3 DEF OnB
<1>8. e \in Q \/ (e.msg \in consumed /\ e.id \in sub[b].dequeues)
  BY <1>1, <1>2, <1>6 DEF BackupOK, InTransit
<1>9. GuardOK(b)'
  BY <1>1, <1>4, <1>7 DEF BackupOK, GuardOK, Running
<1>10. SnapshotOK(b)'
  BY <1>2, <1>4 DEF SnapshotOK, Running
<1>11. AnswersOK(b)'
  BY <1>1, <1>2, <1>3, <1>4, <1>7 DEF BackupOK, AnswersOK
<1>12. DequeuesOK(b)'
  BY <1>1, <1>4, <1>6 DEF BackupOK, DequeuesOK
<1>13. CursorOK(b)'
  BY <1>1, <1>2, <1>4 DEF BackupOK, CursorOK
<1>14. StoppedOK(b)'
  BY <1>1, <1>2, <1>4 DEF BackupOK, StoppedOK
<1>15. ReadyOK(b)'
  BY <1>1, <1>2, <1>4, <1>7 DEF BackupOK, ReadyOK
<1>16. InTransit(b)'
  BY <1>1, <1>2, <1>4, <1>5, <1>6, <1>7 DEF BackupOK, InTransit
<1>17. Ghosts(b)'
  <2>1. e.id \in IdsOf(Q) \cup sub[b].dequeues
    BY <1>8 DEF IdsOf
  <2> QED
    BY <1>1, <1>2, <1>3, <1>4, <2>1 DEF BackupOK, Ghosts
<1>18. GhostsFirst(b)'
  <2> SUFFICES ASSUME NEW f \in queue'[b], Live(f)
               PROVE  f.id \in IdsOf(Q)
    BY <1>4 DEF GhostsFirst
  <2>1. CASE f \in queue[b]
    BY <1>1, <1>2, <1>3, <2>1 DEF BackupOK, GhostsFirst
  <2>2. CASE f.id = e.id /\ f.msg = e.msg
    <3>1. e \in Q
      BY <1>8, <2>2 DEF Live
    <3> QED
      BY <2>2, <3>1 DEF IdsOf
  <2> QED
    BY <1>3, <2>1, <2>2
<1> QED
  BY <1>9, <1>10, <1>11, <1>12, <1>13, <1>14, <1>15, <1>16, <1>17, <1>18 DEF BackupOK

\* A message that a backup gets goes behind everything that was before it.
LEMMA MessageInOrder ==
    ASSUME IInv, TypeOK', NEW b \in Brokers, Receive(b), ReceivesMessage(b), ReceivesNew(b)
    PROVE  SameHistory'
<1>0. PICK e, n : e = Head(chan[b]).entry
                  /\ n = [id |-> e.id, msg |-> e.msg, seq |-> sequence[b] + 1]
  OBVIOUS
<1>1. TypeOK /\ Structure /\ Numbering /\ Naming /\ Queues /\ BackupOK(b) /\ SameHistory
  BY DEF IInv
<1>2. /\ chan[b] \in Seq(Transfer) /\ chan[b] # <<>>
      /\ Serving /\ b # primary /\ Running(b)
      /\ UNCHANGED <<assigned, answerVars>>
  BY <1>1, ReceiveEffect
<1>3. /\ Head(chan[b]).type = "message" /\ e \in Entry /\ e.id \notin IdsOf(queue[b])
      /\ queue'[b] = queue[b] \cup {n}
      /\ \A x \in Brokers : x # b => queue'[x] = queue[x]
      /\ n.id = e.id /\ n.msg = e.msg /\ n.seq = sequence[b] + 1
  BY <1>0, <1>1 DEF ReceivesMessage, ReceivesNew, TypeOK
<1>4. primary \in Brokers /\ \A f : Live(f)' <=> Live(f)
  BY <1>2 DEF Serving, answerVars, Reused, Live
<1>5. /\ SentIn(chan[b]) = SentIn(Tail(chan[b])) \cup {e}
      /\ InOrder(chan[b]) => \A f \in SentIn(Tail(chan[b])) : e.seq < f.seq
      /\ e \in Held(b) /\ IsNamed(e)
  <2>1. /\ SentIn(chan[b]) = SentIn(Tail(chan[b])) \cup {e}
        /\ InOrder(chan[b]) => \A f \in SentIn(Tail(chan[b])) : e.seq < f.seq
    BY <1>0, <1>2, <1>3, TailProperties
  <2>2. e \in Held(b)
    BY <2>1 DEF Held
  <2> QED
    BY <1>1, <2>1, <2>2 DEF Naming
<1>6. /\ sequence[b] \in Nat /\ sub[b].cursor \in Nat /\ e.seq \in Nat
      /\ \A f \in queue[b] : f.seq \in Nat /\ f.seq <= sequence[b]
      /\ \A f \in Q : f.seq \in Nat
  BY <1>1, <1>2, <1>3, NumbersOf DEF Queues, Entry
<1>7. \A f, g \in Q : f.seq = g.seq => f = g
  BY <1>1, <1>2, PrimaryQueue
\* What is live on b is on the primary, and so is e.
<1>8. \A f \in queue[b] : Live(f) => f.id \in IdsOf(Q)
  BY <1>1, <1>2, <1>3 DEF BackupOK, GhostsFirst
<1>9. e.msg \notin consumed => e \in Q
  BY <1>1, <1>2, <1>5 DEF BackupOK, InTransit
<1>10. ASSUME NEW x \in Brokers, NEW f \in queue[x] PROVE IsNamed(f)
  BY <1>1, <1>10 DEF Naming
\* What was before e on the primary, and is live, has reached b.
<1>11. ASSUME NEW h \in Q, e \in Q, h.seq < e.seq, ~Reused(h.id)
       PROVE  h.id \in IdsOf(queue[b])
  <2>1. /\ InOrder(chan[b]) /\ Done(b, e)
        /\ Done(b, h) => OnB(b, h) \/ h \in SentIn(chan[b])
    BY <1>1, <1>2, <1>5, <1>11 DEF BackupOK, InTransit
  <2>2. Done(b, h)
    BY <1>6, <1>11, <2>1 DEF Done
  <2>3. h \notin SentIn(chan[b])
    <3>1. h # e /\ ~(e.seq < h.seq)
      BY <1>6, <1>11
    <3> QED
      BY <1>5, <2>1, <3>1
  <2> QED
    BY <2>1, <2>2, <2>3 DEF OnB
<1> SUFFICES ASSUME NEW x \in Brokers, NEW y \in Brokers,
                    NEW k \in queue'[x], NEW f \in queue'[x], NEW g \in queue'[y],
                    Live(k), Live(f), k.seq < f.seq, g.id = f.id
             PROVE  \E h \in queue'[y] : h.id = k.id /\ h.seq < g.seq
  BY <1>4 DEF SameHistory
<1>12. \A z \in Brokers : queue[z] \subseteq queue'[z]
  BY <1>3
<1>13. CASE f \in queue[x] /\ k \in queue[x] /\ g \in queue[y]
  BY <1>1, <1>12, <1>13 DEF SameHistory
\* The message before e, on any broker, is on b.
<1>14. CASE f \in queue[x] /\ k \in queue[x] /\ y = b /\ g = n
  <2>1. f.id = e.id /\ IsNamed(f) /\ ~Reused(f.id)
    BY <1>3, <1>10, <1>14 DEF Live
  <2>2. f.msg = e.msg
    BY <1>1, <1>5, <2>1, NameFacts
  <2>3. e \in Q
    BY <1>9, <2>2 DEF Live
  <2>4. PICK h \in Q : h.id = k.id /\ h.seq < e.seq
    BY <1>1, <1>4, <1>14, <2>1, <2>3 DEF SameHistory, Q
  <2>5. h.id \in IdsOf(queue[b])
    BY <1>11, <2>3, <2>4 DEF Live
  <2>6. PICK p \in queue[b] : p.id = k.id
    BY <2>4, <2>5 DEF IdsOf
  <2> QED
    BY <1>3, <1>6, <1>14, <2>6
\* Everything on b is before e on the primary, and so on every broker.
<1>15. CASE x = b /\ f = n
  <2>1. k \in queue[b]
    BY <1>3, <1>6, <1>15
  <2>2. e \in Q /\ ~Reused(e.id) /\ Live(e)
    BY <1>3, <1>9, <1>15 DEF Live
  <2>3. PICK h \in Q : h.id = k.id
    BY <1>8, <2>1 DEF IdsOf
  <2>4. Live(h)
    <3>1. IsNamed(h) /\ IsNamed(k) /\ ~Reused(h.id)
      BY <1>4, <1>10, <2>1, <2>3 DEF Live, Q
    <3> QED
      BY <1>1, <2>3, <3>1, NameFacts DEF Live
  <2>5. h.seq < e.seq
    <3>1. ASSUME e.seq < h.seq PROVE FALSE
      <4>1. \E p \in queue[b] : p.id = e.id
        BY <1>1, <1>4, <2>1, <2>2, <2>3, <2>4, <3>1 DEF SameHistory, Q
      <4> QED
        BY <1>3, <4>1 DEF IdsOf
    <3>2. h.seq # e.seq
      <4>1. h.id \in IdsOf(queue[b])
        BY <2>1, <2>3 DEF IdsOf
      <4> QED
        BY <1>3, <1>7, <2>2, <4>1
    <3> QED
      BY <1>6, <2>2, <3>1, <3>2
  <2>6. CASE y = b
    <3>1. g = n
      BY <1>3, <1>15, <2>6 DEF IdsOf
    <3> QED
      BY <1>3, <1>6, <2>1, <2>6, <3>1
  <2>7. CASE y # b
    <3>1. g \in queue[y] /\ g.id = e.id
      BY <1>3, <1>15, <2>7
    <3>2. \E p \in queue[y] : p.id = h.id /\ p.seq < g.seq
      BY <1>1, <1>4, <2>2, <2>4, <2>5, <3>1 DEF SameHistory, Q
    <3> QED
      BY <1>12, <2>3, <3>2
  <2> QED
    BY <2>6, <2>7
<1>16. k # n \/ x # b
  <2>1. CASE x = b /\ k = n
    BY <1>3, <1>6, <2>1
  <2> QED
    BY <2>1
<1> QED
  BY <1>3, <1>13, <1>14, <1>15, <1>16

\* route() keeps the invariant: the message the backup gets goes behind all
\* that was before it on the primary.
LEMMA ReceiveKeeps ==
    ASSUME IInv, TypeOK', NEW b \in Brokers, Receive(b)
    PROVE  IInv'
<1>1. TypeOK /\ Structure /\ Numbering /\ Naming /\ Queues /\ Unpushed
  BY DEF IInv
<1>2. /\ chan[b] \in Seq(Transfer) /\ chan[b] # <<>> /\ Head(chan[b]) \in Transfer
      /\ chan'[b] = Tail(chan[b])
      /\ \A x \in Brokers : x # b => chan'[x] = chan[x]
      /\ Serving /\ b \in backups /\ b # primary /\ Running(b)
      /\ ReceivesDequeues(b) \/ ReceivesMessage(b)
      /\ UNCHANGED <<nextId, pending, assigned, answerVars, memberVars, guard, sub>>
  BY <1>1, ReceiveEffect
<1>3. PICK e : e = Head(chan[b]).entry
  OBVIOUS
<1>4. /\ primary' = primary /\ consumed' = consumed /\ sub' = sub /\ guard' = guard
      /\ backups' = backups /\ connected' = connected
      /\ pending' = pending /\ assigned' = assigned /\ nextId' = nextId
      /\ \A id : Reused(id)' <=> Reused(id)
      /\ \A f : IsNamed(f)' <=> IsNamed(f)
      /\ Given' = Given /\ primary \in Brokers
  BY <1>2 DEF memberVars, answerVars, Reused, IsNamed, Given, Serving
\* What changes: the queue and the numbers of b, and what is on b's link.
<1>5. /\ \A x \in Brokers : x # b =>
            /\ queue'[x] = queue[x] /\ sequence'[x] = sequence[x] /\ maxId'[x] = maxId[x]
            /\ acks'[x] = acks[x]
      /\ \A f \in queue'[b] : f \in queue[b] \/
            (ReceivesMessage(b) /\ f.id = e.id /\ f.msg = e.msg /\ f.seq = sequence[b] + 1
               /\ f.id \notin IdsOf(queue[b]) /\ sequence'[b] = sequence[b] + 1
               /\ f.id <= maxId'[b])
      /\ sequence[b] \in Nat /\ sequence'[b] \in Nat /\ sequence[b] <= sequence'[b]
      /\ maxId[b] \in Nat /\ maxId'[b] \in Nat /\ maxId[b] <= maxId'[b]
      /\ maxId'[b] = maxId[b] \/ (ReceivesMessage(b) /\ maxId'[b] = e.id)
      /\ AcksIn(acks'[b]) \subseteq AcksIn(acks[b]) \cup {f.id : f \in SentIn(chan[b])}
  <2>0. sequence[b] \in Nat /\ maxId[b] \in Nat
    BY <1>1 DEF TypeOK
  <2>1. CASE ReceivesDequeues(b)
    BY <1>1, <2>0, <2>1 DEF ReceivesDequeues, TypeOK
  <2>2. CASE ReceivesMessage(b)
    <3>1. e \in SentIn(chan[b])
      BY <1>2, <1>3, <2>2, TailProperties DEF ReceivesMessage
    <3>2. AcksIn(acks'[b]) = AcksIn(acks[b]) \cup {e.id}
          /\ \A x \in Brokers : x # b => acks'[x] = acks[x]
      BY <1>3, <2>2 DEF ReceivesMessage
    <3>3. e \in Entry /\ e.id \in Nat
      BY <1>3, <2>2 DEF ReceivesMessage, Entry, Ids
    <3>4. CASE ReceivesKnown(b)
      BY <2>0, <3>1, <3>2, <3>4 DEF ReceivesKnown
    <3>5. CASE ReceivesNew(b)
      <4>1. /\ e.id \notin IdsOf(queue[b])
            /\ queue'[b] = queue[b] \cup {[id |-> e.id, msg |-> e.msg, seq |-> sequence[b] + 1]}
            /\ sequence'[b] = sequence[b] + 1
            /\ \A x \in Brokers : x # b =>
                  queue'[x] = queue[x] /\ sequence'[x] = sequence[x] /\ maxId'[x] = maxId[x]
            /\ maxId'[b] >= maxId[b] /\ maxId'[b] >= e.id /\ maxId'[b] \in {maxId[b], e.id}
        BY <1>1, <1>3, <3>5 DEF ReceivesNew, TypeOK
      <4> QED
        BY <2>0, <2>2, <3>1, <3>2, <3>3, <4>1
    <3> QED
      BY <2>2, <3>4, <3>5 DEF ReceivesMessage
  <2> QED
    BY <1>2, <2>1, <2>2
<1>6. SentIn(chan'[b]) \subseteq SentIn(chan[b]) /\ ListedIn(chan'[b]) \subseteq ListedIn(chan[b])
  BY <1>2, TailProperties
<1>7. ReceivesMessage(b) => e \in SentIn(chan[b])
  BY <1>2, <1>3, TailProperties DEF ReceivesMessage
<1>8. /\ Held(b)' \subseteq Held(b) /\ Listed(b)' \subseteq Listed(b)
      /\ SentIn(chan[b]) \subseteq Held(b)
      /\ \A x \in Brokers : x # b => Held(x)' = Held(x) /\ Listed(x)' = Listed(x)
  BY <1>2, <1>4, <1>6 DEF Held, Listed, InHand
<1>9. ReceivesMessage(b) => IsNamed(e) /\ e.id \in Given /\ e.id <= Len(assigned)
  BY <1>1, <1>7, <1>8, GivenFacts DEF Naming, IsNamed, Given
<1>10. Numbering'
  BY <1>1, <1>4, <1>5, <1>9 DEF Numbering, Serving
<1>11. Naming'
  <2>1. ASSUME NEW x \in Brokers
        PROVE  /\ \A f \in queue'[x] \cup Held(x)' : IsNamed(f)
               /\ Listed(x)' \cup AcksIn(acks[x])' \cup sub'[x].skipEnqueue \subseteq Given
    <3>1. CASE x = b
      <4>1. \A f \in queue'[b] : IsNamed(f)
        BY <1>1, <1>5, <1>9 DEF Naming, IsNamed
      <4>2. {f.id : f \in SentIn(chan[b])} \subseteq Given
        BY <1>1, <1>8 DEF Naming, IsNamed, Given
      <4> QED
        BY <1>1, <1>4, <1>5, <1>8, <3>1, <4>1, <4>2 DEF Naming
    <3>2. CASE x # b
      BY <1>1, <1>4, <1>5, <1>8, <3>2 DEF Naming
    <3> QED
      BY <3>1, <3>2
  <2>2. \A m \in pending : IsNamed(m)
    BY <1>1 DEF Naming
  <2> QED
    BY <1>4, <2>1, <2>2 DEF Naming
<1>12. Q' = Q
  BY <1>2, <1>4, <1>5 DEF Q
<1>13. Queues'
  <2>1. ASSUME NEW x \in Brokers
        PROVE  /\ \A f \in queue'[x] :
                     1 <= f.seq /\ f.seq <= sequence'[x] /\ (x # primary => f.id <= maxId'[x])
               /\ \A f, g \in queue'[x] : f.seq = g.seq \/ f.id = g.id => f = g
    <3>1. CASE x # b
      BY <1>1, <1>5, <3>1 DEF Queues
    <3>2. CASE x = b
      <4>1. \A f \in queue[b] : /\ f.seq \in Nat /\ f.id \in Nat
                                /\ 1 <= f.seq /\ f.seq <= sequence[b] /\ f.id <= maxId[b]
        <5>1. \A f \in queue[b] : f \in Entry
          BY <1>1 DEF TypeOK
        <5>2. \A f \in queue[b] : 1 <= f.seq /\ f.seq <= sequence[b] /\ f.id <= maxId[b]
          BY <1>1, <1>2 DEF Queues
        <5> QED
          BY <5>1, <5>2 DEF Entry, Ids
      <4>2. ASSUME NEW f \in queue'[b]
            PROVE  1 <= f.seq /\ f.seq <= sequence'[b] /\ f.id <= maxId'[b]
        BY <1>5, <4>1
      <4>3. ASSUME NEW f \in queue'[b], NEW g \in queue'[b], f.seq = g.seq \/ f.id = g.id
            PROVE  f = g
        <5>1. CASE f \in queue[b] /\ g \in queue[b]
          BY <1>1, <4>3, <5>1 DEF Queues
        <5>2. CASE f \notin queue[b] /\ g \notin queue[b]
          <6>1. f \in Entry /\ g \in Entry
            BY DEF TypeOK
          <6>2. f.id = g.id /\ f.msg = g.msg /\ f.seq = g.seq
            BY <1>5, <5>2
          <6> QED
            BY <6>1, <6>2 DEF Entry
        <5>3. CASE f \in queue[b] /\ g \notin queue[b]
          BY <1>5, <4>1, <4>3, <5>3 DEF IdsOf
        <5>4. CASE f \notin queue[b] /\ g \in queue[b]
          BY <1>5, <4>1, <4>3, <5>4 DEF IdsOf
        <5> QED
          BY <5>1, <5>2, <5>3, <5>4
      <4> QED
        BY <3>2, <4>2, <4>3
    <3> QED
      BY <3>1, <3>2
  <2>2. /\ Serving => \A f \in Q \cup pending : f.id < nextId
        /\ Serving => \A m \in pending, f \in Q : f.id # m.id
        /\ \A m, n \in pending : m.id = n.id => m = n
    BY <1>1 DEF Queues
  <2> QED
    BY <1>4, <1>12, <2>1, <2>2 DEF Queues, Serving
<1>14. Unpushed'
  <2>1. ASSUME NEW x \in Brokers PROVE Seen(x)' \subseteq Seen(x)
    <3>1. CASE x = b
      <4>1. IdsOf(queue'[b]) \subseteq IdsOf(queue[b]) \cup IdsOf(Held(b))
        BY <1>5, <1>7, <1>8 DEF IdsOf
      <4>2. IdsOf(Held(b)') \subseteq IdsOf(Held(b))
        BY <1>8 DEF IdsOf
      <4>3. {f.id : f \in SentIn(chan[b])} \subseteq IdsOf(Held(b))
        BY <1>8 DEF IdsOf
      <4> QED
        BY <1>4, <1>5, <1>8, <3>1, <4>1, <4>2, <4>3 DEF Seen
    <3>2. CASE x # b
      BY <1>4, <1>5, <1>8, <3>2 DEF Seen
    <3> QED
      BY <3>1, <3>2
  <2> QED
    BY <1>1, <1>4, <2>1 DEF Unpushed
<1>15. Structure'
  <2>1. ASSUME NEW x \in Brokers PROVE ~Running(x)' => Unstarted(x)'
    <3>1. CASE x = b
      BY <1>2, <1>4, <3>1 DEF Running
    <3>2. CASE x # b
      BY <1>1, <1>2, <1>4, <1>5, <3>2 DEF Structure, Running, Unstarted
    <3> QED
      BY <3>1, <3>2
  <2> QED
    BY <1>1, <1>4, <2>1 DEF Structure, Serving
<1>16. ASSUME NEW x \in Brokers PROVE BackupOK(x)'
  <2>1. CASE x = b
    BY <1>2, <2>1, DequeuesReceived, MessageReceived
  <2>2. CASE x # b
    <3>1. BackupOK(x) /\ sequence'[primary'] = sequence[primary]
      BY <1>2, <1>4, <1>5 DEF IInv
    <3> QED
      BY <1>2, <1>4, <1>5, <1>12, <2>2, <3>1, FrameKeeps
  <2> QED
    BY <2>1, <2>2
<1>17. SameHistory'
  <2>1. CASE ReceivesDequeues(b)
    BY <2>1, DequeuesReceived
  <2>2. CASE ReceivesMessage(b) /\ ReceivesKnown(b)
    <3>1. queue' = queue /\ \A f : Live(f)' <=> Live(f)
      BY <1>4, <2>2 DEF ReceivesKnown, Live
    <3> QED
      BY <3>1 DEF IInv, SameHistory
  <2>3. CASE ReceivesMessage(b) /\ ReceivesNew(b)
    BY <2>3, MessageInOrder
  <2> QED
    BY <1>2, <2>1, <2>2, <2>3 DEF ReceivesMessage
<1> QED
  BY <1>10, <1>11, <1>13, <1>14, <1>15, <1>16, <1>17 DEF IInv

----------------------------------------------------------------------------
(* Publishers and consumers                                                *)

\* A message that gets its id keeps the invariant: the id is new to every
\* backup, or given twice.
LEMMA RecordKeeps ==
    ASSUME IInv, TypeOK', Record
    PROVE  IInv'
<1>0. PICK m : m = [id |-> nextId, msg |-> Len(assigned) + 1]
  OBVIOUS
<1>1. TypeOK /\ Structure /\ Numbering /\ Naming /\ Queues /\ Unpushed /\ SameHistory
  BY DEF IInv
<1>2. /\ Serving /\ assigned' = Append(assigned, nextId) /\ nextId' = nextId + 1
      /\ pending' = pending \cup {m}
      /\ queue' = queue /\ sequence' = sequence /\ maxId' = maxId /\ consumed' = consumed
      /\ primary' = primary /\ backups' = backups /\ connected' = connected
      /\ chan' = chan /\ acks' = acks /\ guard' = guard /\ sub' = sub
      /\ m.id = nextId /\ m.msg = Len(assigned) + 1
  BY <1>0 DEF Record, answerVars, memberVars, linkVars
<1>3. nextId \in Nat /\ assigned \in Seq(Ids) /\ Len(assigned) \in Nat /\ nextId <= Len(assigned) + 1
      /\ nextId >= 1 /\ nextId \in Ids
  BY <1>1, <1>2, ReplicationAssumption DEF TypeOK, Numbering, Ids
<1>4. /\ DOMAIN assigned = 1 .. Len(assigned)
      /\ DOMAIN assigned' = 1 .. (Len(assigned) + 1) /\ Len(assigned') = Len(assigned) + 1
      /\ \A i \in DOMAIN assigned : assigned'[i] = assigned[i]
      /\ assigned'[Len(assigned) + 1] = nextId
      /\ \A i \in DOMAIN assigned : assigned[i] \in Nat
  <2>1. PICK a : a = Append(assigned, nextId)
    OBVIOUS
  <2>2. /\ a \in Seq(Ids) /\ Len(a) = Len(assigned) + 1 /\ a[Len(assigned) + 1] = nextId
        /\ \A i \in 1 .. Len(assigned) : a[i] = assigned[i]
    BY <1>3, <2>1
  <2>3. DOMAIN assigned = 1 .. Len(assigned) /\ DOMAIN a = 1 .. Len(a)
    BY <1>3, <2>2
  <2>4. \A i \in DOMAIN assigned : assigned[i] \in Ids
    BY <1>3
  <2> QED
    BY <1>2, <2>1, <2>2, <2>3, <2>4 DEF Ids
<1>5. \A x : IsNamed(x) => IsNamed(x)'
  BY <1>3, <1>4 DEF IsNamed
<1>6. Given \subseteq Given'
  BY <1>3, <1>4 DEF Given
<1>7. \A id : Reused(id) => Reused(id)'
  BY <1>3, <1>4 DEF Reused
<1>8. \A x : Live(x)' => Live(x)
  BY <1>2, <1>7 DEF Live
<1>9. Numbering'
  <2>1. ASSUME NEW i \in DOMAIN assigned' PROVE assigned'[i] <= i
    <3>1. CASE i \in DOMAIN assigned
      BY <1>1, <1>4, <3>1 DEF Numbering
    <3>2. CASE i = Len(assigned) + 1
      BY <1>3, <1>4, <3>2
    <3> QED
      BY <1>3, <1>4, <3>1, <3>2
  <2>2. nextId' <= Len(assigned') + 1 /\ nextId' >= 1
    BY <1>2, <1>3, <1>4
  <2>3. \A b \in Brokers : maxId'[b] <= Len(assigned')
    <3> TAKE b \in Brokers
    <3>1. maxId[b] \in Nat /\ maxId[b] <= Len(assigned)
      BY <1>1 DEF Numbering, TypeOK
    <3> QED
      BY <1>2, <1>3, <1>4, <3>1
  <2> QED
    BY <2>1, <2>2, <2>3 DEF Numbering
<1>10. \A b \in Brokers : Held(b)' = Held(b) /\ Listed(b)' = Listed(b) /\ Seen(b)' = Seen(b)
  BY <1>2 DEF Held, InHand, Listed, Seen
<1>11. Naming'
  <2>1. IsNamed(m)'
    BY <1>2, <1>3, <1>4 DEF IsNamed
  <2>2. \A p \in pending' : IsNamed(p)'
    BY <1>1, <1>2, <1>5, <2>1 DEF Naming
  <2>3. \A b \in Brokers : \A e \in queue'[b] \cup Held(b)' : IsNamed(e)'
    BY <1>1, <1>2, <1>5, <1>10 DEF Naming
  <2>4. \A b \in Brokers : Listed(b)' \cup AcksIn(acks[b])' \cup sub'[b].skipEnqueue \subseteq Given'
    BY <1>1, <1>2, <1>6, <1>10 DEF Naming
  <2> QED
    BY <2>2, <2>3, <2>4 DEF Naming
<1>12. Q' = Q
  BY <1>2 DEF Q
<1>13. Queues'
  <2>1. \A e \in Q \cup pending : e.id < nextId /\ e.id \in Nat
    <3>1. \A e \in Q \cup pending : e.id \in Ids
      BY <1>1, <1>2 DEF TypeOK, Entry, Q, Serving
    <3> QED
      BY <1>1, <1>2, <3>1 DEF Queues, Ids
  <2>2. \A e \in Q' \cup pending' : e.id < nextId'
    BY <1>2, <1>3, <1>12, <2>1
  <2>3. \A p \in pending', e \in Q' : e.id # p.id
    BY <1>1, <1>2, <1>3, <1>12, <2>1 DEF Queues
  <2>4. \A p, n \in pending' : p.id = n.id => p = n
    BY <1>1, <1>2, <1>3, <2>1 DEF Queues
  <2>5. /\ \A b \in Brokers : \A e \in queue'[b] :
              1 <= e.seq /\ e.seq <= sequence'[b] /\ (b # primary' => e.id <= maxId'[b])
        /\ \A b \in Brokers : \A e, f \in queue'[b] : e.seq = f.seq \/ e.id = f.id => e = f
    BY <1>1, <1>2 DEF Queues
  <2> QED
    BY <2>2, <2>3, <2>4, <2>5 DEF Queues
<1>14. Unpushed'
  <2>1. ASSUME NEW b \in Brokers, m.id \in Seen(b) PROVE Reused(m.id)'
    <3>1. m.id \in Given
      BY <1>1, <2>1, SeenGiven
    <3>2. PICK i \in DOMAIN assigned : assigned[i] = m.id
      BY <3>1 DEF Given
    <3>3. PICK j : j = Len(assigned) + 1
      OBVIOUS
    <3>4. i \in DOMAIN assigned' /\ j \in DOMAIN assigned' /\ i # j
          /\ assigned'[i] = m.id /\ assigned'[j] = m.id
      BY <1>2, <1>3, <1>4, <3>2, <3>3
    <3> QED
      BY <3>4 DEF Reused
  <2>2. ASSUME NEW p \in pending' PROVE Reused(p.id)' \/ \A b \in Brokers : p.id \notin Seen(b)
    <3>1. CASE p \in pending
      BY <1>1, <1>7, <3>1 DEF Unpushed
    <3>2. CASE p = m
      BY <1>2, <2>1, <3>2
    <3> QED
      BY <1>2, <3>1, <3>2
  <2> QED
    BY <1>10, <2>2 DEF Unpushed
<1>15. Structure'
  BY <1>1, <1>2 DEF Structure, Serving, Running, Unstarted
<1>16. ASSUME NEW x \in Brokers PROVE BackupOK(x)'
  <2>1. BackupOK(x)
    BY DEF IInv
  <2> QED
    BY <1>2, <1>7, <1>12, <2>1, FrameKeeps
<1>17. SameHistory'
  BY <1>1, <1>2, <1>8 DEF SameHistory
<1> QED
  BY <1>9, <1>11, <1>13, <1>14, <1>15, <1>16, <1>17 DEF IInv

\* The message on the queue and delayed by every guard.
LEMMA PushEffect ==
    ASSUME TypeOK, Structure, Queues, Push
    PROVE  \E m \in pending, n \in Entry :
             /\ n.id = m.id /\ n.msg = m.msg /\ n.seq = sequence[primary] + 1
             /\ Serving /\ pending' = pending \ {m} /\ Q' = Q \cup {n}
             /\ \A x \in Brokers : x # primary => queue'[x] = queue[x] /\ sequence'[x] = sequence[x]
             /\ queue'[primary] = Q \cup {n} /\ sequence'[primary] = sequence[primary] + 1
             /\ \A x \in Brokers :
                   /\ guard'[x].on = guard[x].on /\ guard'[x].first = guard[x].first
                   /\ guard[x].on => guard'[x].delayed = guard[x].delayed \cup {m.id}
                   /\ ~guard[x].on => guard'[x] = guard[x]
             /\ UNCHANGED <<primary, consumed, maxId, nextId, assigned, backups, connected,
                            chan, acks, sub>>
<1>1. PICK m \in pending :
        LET g == [b \in Brokers |-> IF guard[b].on
                                    THEN [guard[b] EXCEPT !.delayed = @ \cup {m.id}]
                                    ELSE guard[b]]
        IN  /\ pending' = pending \ {m}
            /\ sequence' = [sequence EXCEPT ![primary] = @ + 1]
            /\ queue' = [queue EXCEPT ![primary] =
                           @ \cup {[id |-> m.id, msg |-> m.msg, seq |-> sequence[primary] + 1]}]
            /\ guard' = g
            /\ Settle(g, incomplete \cup {m})
  BY DEF Push
<1>2. Serving /\ primary \in Brokers /\ m \in [id : Ids, msg : Messages]
      /\ UNCHANGED <<primary, consumed, maxId, nextId, assigned, backups, connected, chan, acks, sub>>
  BY DEF Push, Serving, TypeOK, memberVars, linkVars
<1>3. PICK n \in Entry : n = [id |-> m.id, msg |-> m.msg, seq |-> sequence[primary] + 1]
  <2>1. sequence[primary] + 1 \in Nat
    BY <1>2 DEF TypeOK
  <2> QED
    BY <1>2, <2>1 DEF Entry
<1>4. /\ queue'[primary] = Q \cup {n} /\ sequence'[primary] = sequence[primary] + 1
      /\ \A x \in Brokers : x # primary => queue'[x] = queue[x] /\ sequence'[x] = sequence[x]
  BY <1>1, <1>2, <1>3 DEF TypeOK, Q
<1>5. ASSUME NEW x \in Brokers
      PROVE  /\ guard'[x].on = guard[x].on /\ guard'[x].first = guard[x].first
             /\ guard[x].on => guard'[x].delayed = guard[x].delayed \cup {m.id}
             /\ ~guard[x].on => guard'[x] = guard[x]
  <2>1. guard[x] \in Guard
    BY DEF TypeOK
  <2>2. guard'[x] = IF guard[x].on THEN [guard[x] EXCEPT !.delayed = @ \cup {m.id}] ELSE guard[x]
    BY <1>1
  <2> QED
    BY <2>1, <2>2 DEF Guard
<1>6. Q' = Q \cup {n}
  BY <1>2, <1>4 DEF Q
<1>7. n.id = m.id /\ n.msg = m.msg /\ n.seq = sequence[primary] + 1
  BY <1>3
<1>8. pending' = pending \ {m}
  BY <1>1
<1> QED
  BY <1>2, <1>4, <1>5, <1>6, <1>7, <1>8

\* A message that is enqueued keeps the invariant: every guard delays it.
LEMMA PushKeeps ==
    ASSUME IInv, TypeOK', Push
    PROVE  IInv'
<1>1. TypeOK /\ Structure /\ Numbering /\ Naming /\ Queues /\ Unpushed /\ SameHistory
  BY DEF IInv
<1>2. PICK m \in pending, n \in Entry :
             /\ n.id = m.id /\ n.msg = m.msg /\ n.seq = sequence[primary] + 1
             /\ Serving /\ pending' = pending \ {m} /\ Q' = Q \cup {n}
             /\ \A x \in Brokers : x # primary => queue'[x] = queue[x] /\ sequence'[x] = sequence[x]
             /\ queue'[primary] = Q \cup {n} /\ sequence'[primary] = sequence[primary] + 1
             /\ \A x \in Brokers :
                   /\ guard'[x].on = guard[x].on /\ guard'[x].first = guard[x].first
                   /\ guard[x].on => guard'[x].delayed = guard[x].delayed \cup {m.id}
                   /\ ~guard[x].on => guard'[x] = guard[x]
             /\ UNCHANGED <<primary, consumed, maxId, nextId, assigned, backups, connected,
                            chan, acks, sub>>
  BY <1>1, PushEffect
<1>3. primary \in Brokers /\ queue[primary] = Q
  BY <1>2 DEF Serving, Q
<1>4. /\ \A id : Reused(id)' <=> Reused(id)
      /\ \A x : (IsNamed(x)' <=> IsNamed(x)) /\ (Live(x)' <=> Live(x))
      /\ Given' = Given
      /\ \A b \in Brokers : Held(b)' = Held(b) /\ Listed(b)' = Listed(b) /\ (Running(b)' <=> Running(b))
  BY <1>2 DEF Reused, IsNamed, Live, Given, Held, InHand, Listed, Running
<1>5. /\ \A b \in Brokers : sequence[b] \in Nat
      /\ \A e \in Q : e.seq \in Nat /\ 1 <= e.seq /\ e.seq <= sequence[primary] /\ e.id # n.id
  <2>1. \A b \in Brokers : sequence[b] \in Nat
    BY <1>1 DEF TypeOK
  <2>2. \A e \in Q : e.seq \in Nat /\ 1 <= e.seq /\ e.seq <= sequence[primary]
    BY <1>1, <1>2, <1>3, NumbersOf, PrimaryQueue
  <2>3. \A e \in Q : e.id # n.id
    BY <1>1, <1>2 DEF Queues
  <2> QED
    BY <2>1, <2>2, <2>3
<1>6. \A x \in Brokers : ~Reused(n.id) => n.id \notin Seen(x)
  BY <1>1, <1>2 DEF Unpushed
<1>7. Numbering'
  BY <1>1, <1>2 DEF Numbering, Serving
<1>8. Naming'
  <2>1. IsNamed(n)
    BY <1>1, <1>2 DEF Naming, IsNamed
  <2>2. \A b \in Brokers : \A e \in queue'[b] : IsNamed(e)
    BY <1>1, <1>2, <1>3, <2>1 DEF Naming
  <2> QED
    BY <1>1, <1>2, <1>4, <2>2 DEF Naming
<1>9. Queues'
  <2>1. ASSUME NEW b \in Brokers, NEW e \in queue'[b]
        PROVE  1 <= e.seq /\ e.seq <= sequence'[b] /\ (b # primary => e.id <= maxId[b])
    <3>1. CASE b = primary
      BY <1>2, <1>5, <1>3, <3>1
    <3>2. CASE b # primary
      BY <1>1, <1>2, <3>2 DEF Queues
    <3> QED
      BY <3>1, <3>2
  <2>2. ASSUME NEW b \in Brokers, NEW e \in queue'[b], NEW f \in queue'[b],
               e.seq = f.seq \/ e.id = f.id
        PROVE  e = f
    <3>1. CASE b = primary
      <4>1. e \in Q \cup {n} /\ f \in Q \cup {n}
        BY <1>2, <3>1
      <4>2. \A g \in Q : g.seq # n.seq /\ g.id # n.id
        BY <1>2, <1>3, <1>5
      <4>3. CASE e \in Q /\ f \in Q
        BY <1>1, <1>3, <2>2, <4>3 DEF Queues
      <4> QED
        BY <2>2, <4>1, <4>2, <4>3
    <3>2. CASE b # primary
      BY <1>1, <1>2, <2>2, <3>2 DEF Queues
    <3> QED
      BY <3>1, <3>2
  <2>3. /\ \A e \in Q' \cup pending' : e.id < nextId
        /\ \A p \in pending', e \in Q' : e.id # p.id
        /\ \A p, q \in pending' : p.id = q.id => p = q
    BY <1>1, <1>2 DEF Queues
  <2> QED
    BY <1>2, <2>1, <2>2, <2>3 DEF Queues
<1>10. Unpushed'
  <2>1. ASSUME NEW p \in pending', NEW x \in Brokers, p.id \in Seen(x)'
        PROVE  Reused(p.id)
    <3>1. p \in pending /\ p.id # n.id
      BY <1>1, <1>2 DEF Queues
    <3>2. IdsOf(queue'[x]) \subseteq IdsOf(queue[x]) \cup {n.id}
      BY <1>2, <1>3 DEF IdsOf
    <3>3. p.id \in Seen(x)
      BY <1>2, <1>4, <2>1, <3>1, <3>2 DEF Seen
    <3> QED
      BY <1>1, <3>1, <3>3 DEF Unpushed
  <2> QED
    BY <1>4, <2>1 DEF Unpushed
<1>11. Structure'
  BY <1>1, <1>2 DEF Structure, Serving, Running, Unstarted
<1>12. ASSUME NEW x \in Brokers PROVE BackupOK(x)'
  <2>1. CASE ~guard[x].on
    BY <1>1, <1>2, <2>1, UnguardedOK DEF Structure
  <2>2. CASE guard[x].on
    <3>1. x # primary /\ BackupOK(x) /\ x \in Brokers
      BY <1>1, <2>2 DEF Structure, IInv
    <3>2. queue'[x] = queue[x] /\ sub'[x] = sub[x] /\ chan'[x] = chan[x] /\ acks'[x] = acks[x]
          /\ guard'[x].on = guard[x].on /\ guard'[x].first = guard[x].first
          /\ guard'[x].delayed = guard[x].delayed \cup {n.id}
          /\ primary' = primary /\ sequence'[primary] = sequence[primary] + 1
      BY <1>2, <2>2, <3>1
    <3>3. /\ \A e : (OnB(x, e)' <=> OnB(x, e)) /\ (Done(x, e)' <=> Done(x, e))
          /\ sub[x].cursor \in Nat /\ sub[x].position \in Nat /\ guard[x].first \in Nat
          /\ sequence[primary] \in Nat
      BY <1>1, <1>2, <3>2, NumbersOf DEF OnB, Done
    <3>4. /\ n.id \in IdsOf(queue[x]) => n.id \in Seen(x)
          /\ \A id : id \in AcksIn(acks[x]) \cup sub[x].skipEnqueue \cup Listed(x) => id \in Seen(x)
      BY DEF Seen
    <3>5. ~Reused(n.id) => ~OnB(x, n) /\ n.id \notin AcksIn(acks[x]) \cup sub[x].skipEnqueue \cup Listed(x)
      BY <1>6, <3>4 DEF OnB
    <3>6. ASSUME Running(x)
          PROVE  /\ sub[x].cursor < n.seq /\ ~Done(x, n) /\ sub[x].position <= n.seq
      BY <1>2, <3>1, <3>3, <3>6 DEF BackupOK, CursorOK, Done
    <3>7. sub[x].pc # "guard" => guard[x].first <= n.seq
      BY <1>2, <2>2, <3>1 DEF BackupOK, GuardOK
    <3>8. GuardOK(x)'
      BY <1>2, <1>4, <2>2, <3>1, <3>2, <3>3, <3>7 DEF BackupOK, GuardOK
    <3>9. SnapshotOK(x)'
      BY <1>2, <1>4, <3>1, <3>2, <3>3, <3>5 DEF BackupOK, SnapshotOK, IdsOf
    <3>10. AnswersOK(x)'
      BY <1>2, <1>4, <3>1, <3>2, <3>3, <3>5 DEF BackupOK, AnswersOK
    <3>11. DequeuesOK(x)'
      BY <1>2, <1>4, <3>1, <3>2, <3>5 DEF BackupOK, DequeuesOK
    <3>12. CursorOK(x)'
      BY <1>2, <1>4, <3>1, <3>2, <3>3, <3>6 DEF BackupOK, CursorOK
    <3>13. StoppedOK(x)'
      BY <1>2, <1>4, <3>1, <3>2, <3>3, <3>7 DEF BackupOK, StoppedOK, Running
    <3>14. ReadyOK(x)'
      BY <1>2, <1>4, <3>1, <3>2, <3>3, <3>6, <3>7 DEF BackupOK, ReadyOK, Running
    <3>15. InTransit(x)'
      BY <1>2, <1>4, <3>1, <3>2, <3>3, <3>6 DEF BackupOK, InTransit
    <3>16. Ghosts(x)'
      BY <1>2, <1>4, <3>1, <3>2 DEF BackupOK, Ghosts, IdsOf
    <3>17. GhostsFirst(x)'
      BY <1>2, <1>4, <3>1, <3>2 DEF BackupOK, GhostsFirst, IdsOf
    <3> QED
      BY <3>8, <3>9, <3>10, <3>11, <3>12, <3>13, <3>14, <3>15, <3>16, <3>17 DEF BackupOK
  <2> QED
    BY <2>1, <2>2
<1>13. SameHistory'
  <2> SUFFICES ASSUME NEW x \in Brokers, NEW y \in Brokers,
                      NEW e \in queue'[x], NEW f \in queue'[x], NEW g \in queue'[y],
                      Live(e), Live(f), e.seq < f.seq, g.id = f.id
               PROVE  \E h \in queue'[y] : h.id = e.id /\ h.seq < g.seq
    BY <1>4 DEF SameHistory
  <2>1. \A z \in Brokers : /\ queue[z] \subseteq queue'[z]
                           /\ \A k \in queue'[z] : k \in queue[z] \/ (z = primary /\ k = n)
    BY <1>2, <1>3
  <2>2. \A z \in Brokers : \A k \in queue[z] : k.id \in Seen(z)
    BY DEF Seen, IdsOf
  <2>3. e \in queue[x]
    <3>1. CASE x = primary /\ e = n
      <4>1. f.seq <= sequence[primary] + 1 /\ f.seq \in Nat
        BY <1>2, <1>5, <3>1
      <4> QED
        BY <1>2, <1>3, <1>5, <3>1, <4>1
    <3> QED
      BY <2>1, <3>1
  <2>4. CASE f \in queue[x] /\ g \in queue[y]
    BY <1>1, <2>1, <2>3, <2>4 DEF SameHistory
  <2>5. CASE f = n /\ g = n /\ x = primary /\ y = primary
    BY <2>1, <2>3, <2>5
  <2>6. CASE f = n /\ g \in queue[y]
    BY <1>6, <2>2, <2>6 DEF Live
  <2>7. CASE f \in queue[x] /\ g = n
    BY <1>6, <2>2, <2>7 DEF Live
  <2> QED
    BY <2>1, <2>4, <2>5, <2>6, <2>7
<1> QED
  BY <1>7, <1>8, <1>9, <1>10, <1>11, <1>12, <1>13 DEF IInv

\* The consumed message, and what the observers do about it.
LEMMA DequeueEffect ==
    ASSUME TypeOK, Structure, Dequeue
    PROVE  \E d \in Q :
             /\ Serving /\ consumed' = consumed \cup {d.msg} /\ Q' = Q \ {d}
             /\ queue'[primary] = Q \ {d}
             /\ \A x \in Brokers : x # primary => queue'[x] = queue[x]
             /\ \A x \in Brokers :
                   /\ guard'[x].on = guard[x].on /\ guard'[x].first = guard[x].first
                   /\ guard'[x].delayed = guard[x].delayed \ {d.id}
                   /\ sub'[x].pc = sub[x].pc /\ sub'[x].hand = sub[x].hand
                   /\ sub'[x].cursor = sub[x].cursor /\ sub'[x].position = sub[x].position
                   /\ sub'[x].wasStopped = sub[x].wasStopped /\ sub'[x].ready = sub[x].ready
                   /\ sub'[x].skipEnqueue = sub[x].skipEnqueue
                   /\ sub'[x].unready = sub[x].unready
                   /\ sub'[x].primaryIds = sub[x].primaryIds
                   /\ sub[x].dequeues \subseteq sub'[x].dequeues
                   /\ sub'[x].dequeues \subseteq sub[x].dequeues \cup {d.id}
                   /\ Observes(sub[x]) => d.id \in sub'[x].dequeues
                   /\ ~Observes(sub[x]) => sub'[x] = sub[x]
                   /\ ~guard[x].on => guard'[x] = guard[x]
             /\ UNCHANGED <<primary, sequence, maxId, nextId, pending, assigned, backups,
                            connected, chan, acks>>
<1>1. PICK d \in Q :
        LET g == [b \in Brokers |-> GuardDequeued(guard[b], d.id)]
        IN  /\ queue' = [queue EXCEPT ![primary] = @ \ {d}]
            /\ guard' = g
            /\ Settle(g, incomplete)
            /\ consumed' = consumed \cup {d.msg}
            /\ sub' = [b \in Brokers |-> IF Observes(sub[b])
                         THEN [sub[b] EXCEPT !.dequeues = @ \cup {d.id}, !.notified = TRUE]
                         ELSE sub[b]]
  BY DEF Dequeue, Q
<1>2. Serving /\ primary \in Brokers
      /\ UNCHANGED <<primary, sequence, maxId, nextId, pending, assigned, backups,
                     connected, chan, acks>>
  BY DEF Dequeue, Serving, memberVars, linkVars
<1>3. queue'[primary] = Q \ {d} /\ \A x \in Brokers : x # primary => queue'[x] = queue[x]
  BY <1>1, <1>2 DEF TypeOK, Q
<1>4. ASSUME NEW x \in Brokers
      PROVE  /\ guard'[x].on = guard[x].on /\ guard'[x].first = guard[x].first
             /\ guard'[x].delayed = guard[x].delayed \ {d.id}
             /\ ~guard[x].on => guard'[x] = guard[x]
  <2>1. guard[x] \in Guard
    BY DEF TypeOK
  <2>2. guard'[x] = Complete(guard[x], d.id)
    BY <1>1 DEF GuardDequeued
  <2>3. /\ guard'[x].on = guard[x].on /\ guard'[x].first = guard[x].first
        /\ guard'[x].delayed = guard[x].delayed \ {d.id} /\ guard'[x] \in Guard
    BY <2>1, <2>2, CompleteEffect
  <2>4. ASSUME ~guard[x].on PROVE guard'[x] = guard[x]
    <3>1. guard[x] = NoGuard
      BY <2>4 DEF Structure
    <3>2. guard'[x].delayed = {} /\ guard[x].delayed = {}
      BY <2>3, <3>1 DEF NoGuard
    <3> QED
      BY <2>1, <2>3, <3>2 DEF Guard
  <2> QED
    BY <2>3, <2>4
<1>5. ASSUME NEW x \in Brokers
      PROVE  /\ sub'[x].pc = sub[x].pc /\ sub'[x].hand = sub[x].hand
             /\ sub'[x].cursor = sub[x].cursor /\ sub'[x].position = sub[x].position
             /\ sub'[x].wasStopped = sub[x].wasStopped /\ sub'[x].ready = sub[x].ready
             /\ sub'[x].skipEnqueue = sub[x].skipEnqueue
             /\ sub'[x].unready = sub[x].unready
             /\ sub'[x].primaryIds = sub[x].primaryIds
             /\ sub[x].dequeues \subseteq sub'[x].dequeues
             /\ sub'[x].dequeues \subseteq sub[x].dequeues \cup {d.id}
             /\ Observes(sub[x]) => d.id \in sub'[x].dequeues
             /\ ~Observes(sub[x]) => sub'[x] = sub[x]
  <2>1. sub[x] \in Subscription
    BY DEF TypeOK
  <2>2. sub'[x] = IF Observes(sub[x])
                  THEN [sub[x] EXCEPT !.dequeues = @ \cup {d.id}, !.notified = TRUE]
                  ELSE sub[x]
    BY <1>1
  <2>3. CASE Observes(sub[x])
    BY <2>1, <2>2, <2>3 DEF Subscription
  <2>4. CASE ~Observes(sub[x])
    BY <2>2, <2>4
  <2> QED
    BY <2>3, <2>4
<1>6. Q' = Q \ {d} /\ consumed' = consumed \cup {d.msg}
  BY <1>1, <1>2, <1>3 DEF Q
<1> QED
  BY <1>2, <1>3, <1>4, <1>5, <1>6

\* A message that is consumed keeps the invariant: every subscription that
\* observes the queue lists it.
LEMMA DequeueKeeps ==
    ASSUME IInv, TypeOK', Dequeue
    PROVE  IInv'
<1>1. TypeOK /\ Structure /\ Numbering /\ Naming /\ Queues /\ Unpushed /\ SameHistory
  BY DEF IInv
<1>2. PICK d \in Q :
             /\ Serving /\ consumed' = consumed \cup {d.msg} /\ Q' = Q \ {d}
             /\ queue'[primary] = Q \ {d}
             /\ \A x \in Brokers : x # primary => queue'[x] = queue[x]
             /\ \A x \in Brokers :
                   /\ guard'[x].on = guard[x].on /\ guard'[x].first = guard[x].first
                   /\ guard'[x].delayed = guard[x].delayed \ {d.id}
                   /\ sub'[x].pc = sub[x].pc /\ sub'[x].hand = sub[x].hand
                   /\ sub'[x].cursor = sub[x].cursor /\ sub'[x].position = sub[x].position
                   /\ sub'[x].wasStopped = sub[x].wasStopped /\ sub'[x].ready = sub[x].ready
                   /\ sub'[x].skipEnqueue = sub[x].skipEnqueue
                   /\ sub'[x].unready = sub[x].unready
                   /\ sub'[x].primaryIds = sub[x].primaryIds
                   /\ sub[x].dequeues \subseteq sub'[x].dequeues
                   /\ sub'[x].dequeues \subseteq sub[x].dequeues \cup {d.id}
                   /\ Observes(sub[x]) => d.id \in sub'[x].dequeues
                   /\ ~Observes(sub[x]) => sub'[x] = sub[x]
                   /\ ~guard[x].on => guard'[x] = guard[x]
             /\ UNCHANGED <<primary, sequence, maxId, nextId, pending, assigned, backups,
                            connected, chan, acks>>
  BY <1>1, DequeueEffect
<1>3. primary \in Brokers /\ queue[primary] = Q /\ IsNamed(d) /\ d.id \in Given
      /\ \A x \in Brokers : queue'[x] \subseteq queue[x]
  BY <1>1, <1>2 DEF Serving, Q, Naming, IsNamed, Given
<1>4. /\ \A id : Reused(id)' <=> Reused(id)
      /\ \A x : (IsNamed(x)' <=> IsNamed(x)) /\ (Live(x)' => Live(x) /\ x.msg # d.msg)
      /\ Given' = Given
      /\ \A b \in Brokers : /\ Held(b)' = Held(b) /\ (Running(b)' <=> Running(b))
                            /\ Listed(b)' \subseteq Listed(b) \cup {d.id}
                            /\ AcksIn(acks[b])' = AcksIn(acks[b])
  BY <1>2 DEF Reused, IsNamed, Live, Given, Held, InHand, Listed, Running
<1>5. \A f \in Q : f # d => f.id # d.id
  BY <1>1, <1>2, PrimaryQueue
<1>6. Numbering'
  BY <1>1, <1>2 DEF Numbering, Serving
<1>7. Naming'
  BY <1>1, <1>2, <1>3, <1>4 DEF Naming
<1>8. Queues'
  BY <1>1, <1>2, <1>3 DEF Queues, Serving
<1>9. Unpushed'
  <2>1. ASSUME NEW p \in pending, NEW x \in Brokers, p.id \in Seen(x)'
        PROVE  Reused(p.id)
    <3>1. p.id # d.id
      BY <1>1, <1>2 DEF Queues
    <3>2. IdsOf(queue'[x]) \subseteq IdsOf(queue[x])
      BY <1>3 DEF IdsOf
    <3>3. p.id \in Seen(x)
      BY <1>2, <1>4, <2>1, <3>1, <3>2 DEF Seen
    <3> QED
      BY <1>1, <3>3 DEF Unpushed
  <2> QED
    BY <1>2, <1>4, <2>1 DEF Unpushed
<1>10. Structure'
  <2>1. ASSUME NEW x \in Brokers
        PROVE  /\ guard'[x].on => x \in backups
               /\ ~guard'[x].on => guard'[x] = NoGuard
               /\ sub'[x].pc # "none" => x \in connected /\ guard'[x].on
               /\ sub'[x].pc = "none" => sub'[x] = NoSub
               /\ ~Running(x)' => Unstarted(x)'
    <3>1. sub[x].pc = "none" => ~Observes(sub[x])
      BY DEF Observes
    <3> QED
      BY <1>1, <1>2, <1>4, <3>1 DEF Structure, Unstarted
  <2> QED
    BY <1>1, <1>2, <2>1 DEF Structure, Serving
<1>11. ASSUME NEW x \in Brokers PROVE BackupOK(x)'
  <2>1. CASE ~guard[x].on
    BY <1>1, <1>2, <2>1, UnguardedOK DEF Structure
  <2>2. CASE guard[x].on
    <3>1. x # primary /\ BackupOK(x)
      BY <1>1, <2>2 DEF Structure, IInv
    <3>2. queue'[x] = queue[x] /\ chan'[x] = chan[x] /\ acks'[x] = acks[x]
          /\ primary' = primary /\ sequence' = sequence
          /\ sub'[x].pc = sub[x].pc
          /\ guard'[x].on = guard[x].on /\ guard'[x].first = guard[x].first
      BY <1>2, <3>1
    <3>3. \A e : (OnB(x, e)' <=> OnB(x, e)) /\ (Done(x, e)' <=> Done(x, e))
      BY <1>2, <3>2 DEF OnB, Done
    <3>4. Running(x) \/ sub[x].pc = "snapshot" => d.id \in sub'[x].dequeues
      BY <1>2 DEF Running, Observes
    <3>5. GuardOK(x)'
      BY <1>2, <1>4, <1>5, <3>1, <3>2, <3>3 DEF BackupOK, GuardOK
    <3>6. SnapshotOK(x)'
      <4> SUFFICES ASSUME sub[x].pc = "snapshot"
                   PROVE  /\ sub[x].primaryIds \subseteq IdsOf(Q') \cup sub'[x].dequeues
                          /\ \A e \in Q' : ~Reused(e.id) /\ OnB(x, e) => e.id \in sub[x].primaryIds
        BY <1>2, <1>4, <3>2, <3>3 DEF SnapshotOK
      <4>1. IdsOf(Q) \subseteq IdsOf(Q') \cup {d.id}
        BY <1>2 DEF IdsOf
      <4>2. /\ sub[x].primaryIds \subseteq IdsOf(Q) \cup sub[x].dequeues
            /\ \A e \in Q : ~Reused(e.id) /\ OnB(x, e) => e.id \in sub[x].primaryIds
        BY <3>1 DEF BackupOK, SnapshotOK
      <4>3. d.id \in sub'[x].dequeues /\ sub[x].dequeues \subseteq sub'[x].dequeues
        BY <1>2, <3>4
      <4>4. sub[x].primaryIds \subseteq IdsOf(Q') \cup sub'[x].dequeues
        BY <4>1, <4>2, <4>3
      <4>5. \A e \in Q' : e \in Q
        BY <1>2
      <4> QED
        BY <4>2, <4>4, <4>5
    <3>7. AnswersOK(x)'
      BY <1>2, <1>4, <3>1, <3>3 DEF BackupOK, AnswersOK
    <3>8. DequeuesOK(x)'
      BY <1>2, <1>4, <1>5, <3>1, <3>2 DEF BackupOK, DequeuesOK
    <3>9. CursorOK(x)'
      BY <1>2, <1>4, <3>1, <3>2, <3>3 DEF BackupOK, CursorOK
    <3>10. StoppedOK(x)'
      BY <1>2, <1>4, <3>1, <3>2 DEF BackupOK, StoppedOK
    <3>11. ReadyOK(x)'
      BY <1>2, <1>4, <3>1, <3>2, <3>3 DEF BackupOK, ReadyOK
    <3>12. InTransit(x)'
      <4>1. ASSUME Running(x), NEW e \in Held(x)
            PROVE  e \in Q' \/ (e.msg \in consumed' /\ e.id \in sub'[x].dequeues)
        BY <1>2, <3>1, <3>4, <4>1 DEF BackupOK, InTransit
      <4> QED
        BY <1>2, <1>4, <3>1, <3>2, <3>3, <4>1 DEF BackupOK, InTransit
    <3>13. Ghosts(x)'
      <4>1. IdsOf(Q) \subseteq IdsOf(Q') \cup {d.id}
        BY <1>2 DEF IdsOf
      <4>2. Running(x) => IdsOf(queue[x]) \subseteq IdsOf(Q) \cup sub[x].dequeues
        BY <3>1 DEF BackupOK, Ghosts
      <4>3. /\ Running(x) => d.id \in sub'[x].dequeues
            /\ sub[x].dequeues \subseteq sub'[x].dequeues
        BY <1>2, <3>4
      <4>4. Running(x) => IdsOf(queue'[x]) \subseteq IdsOf(Q') \cup sub'[x].dequeues
        BY <3>2, <4>1, <4>2, <4>3
      <4> QED
        BY <1>4, <4>4 DEF Ghosts
    <3>14. GhostsFirst(x)'
      <4> SUFFICES ASSUME Running(x), NEW e \in queue[x], Live(e)'
                   PROVE  \/ e.id \in IdsOf(Q')
                          \/ /\ chan[x] # <<>> /\ Head(chan[x]).type = "dequeue"
                             /\ e.id \in Head(chan[x]).ids
        BY <1>4, <3>2 DEF GhostsFirst
      <4>1. Live(e) /\ e.msg # d.msg /\ IsNamed(e)
        BY <1>1, <1>4 DEF Naming
      <4>2. e.id # d.id
        BY <1>1, <1>3, <4>1, NameFacts DEF Live
      <4>3. e.id \in IdsOf(Q) => e.id \in IdsOf(Q')
        BY <1>2, <4>2 DEF IdsOf
      <4> QED
        BY <3>1, <4>1, <4>3 DEF BackupOK, GhostsFirst
    <3> QED
      BY <3>5, <3>6, <3>7, <3>8, <3>9, <3>10, <3>11, <3>12, <3>13, <3>14 DEF BackupOK
  <2> QED
    BY <2>1, <2>2
<1>12. SameHistory'
  <2> SUFFICES ASSUME NEW x \in Brokers, NEW y \in Brokers,
                      NEW e \in queue'[x], NEW f \in queue'[x], NEW g \in queue'[y],
                      Live(e), Live(f), e.msg # d.msg, e.seq < f.seq, g.id = f.id
               PROVE  \E h \in queue'[y] : h.id = e.id /\ h.seq < g.seq
    BY <1>4 DEF SameHistory
  <2>1. e \in queue[x] /\ f \in queue[x] /\ g \in queue[y]
    BY <1>3
  <2>2. PICK h \in queue[y] : h.id = e.id /\ h.seq < g.seq
    BY <1>1, <2>1 DEF SameHistory
  <2>3. IsNamed(e) /\ IsNamed(h)
    BY <1>1, <2>1 DEF Naming
  <2>4. h.msg = e.msg
    BY <1>1, <2>2, <2>3, NameFacts DEF Live
  <2>5. h # d
    BY <2>4
  <2>6. h \in queue'[y]
    BY <1>2, <1>3, <2>5
  <2> QED
    BY <2>2, <2>6
<1> QED
  BY <1>6, <1>7, <1>8, <1>9, <1>10, <1>11, <1>12 DEF IInv

----------------------------------------------------------------------------
(* Faults                                                                  *)

\* Whatever a fault resets, Naming and Unpushed are about less than before.
LEMMA LessIsNamed ==
    ASSUME Naming, Unpushed, assigned' = assigned, pending' \subseteq pending,
           \A b \in Brokers : /\ queue'[b] \subseteq queue[b] /\ Held(b)' \subseteq Held(b)
                              /\ Listed(b)' \subseteq Listed(b)
                              /\ AcksIn(acks[b])' \subseteq AcksIn(acks[b])
                              /\ sub'[b].skipEnqueue \subseteq sub[b].skipEnqueue
    PROVE  Naming' /\ Unpushed'
<1>1. /\ \A id : Reused(id)' <=> Reused(id)
      /\ \A x : IsNamed(x)' <=> IsNamed(x)
      /\ Given' = Given
  BY DEF Reused, IsNamed, Given
<1>2. Naming'
  BY <1>1 DEF Naming
<1>3. ASSUME NEW b \in Brokers PROVE Seen(b)' \subseteq Seen(b)
  <2>1. IdsOf(queue'[b]) \subseteq IdsOf(queue[b]) /\ IdsOf(Held(b)') \subseteq IdsOf(Held(b))
    BY DEF IdsOf
  <2> QED
    BY <2>1 DEF Seen
<1>4. Unpushed'
  BY <1>1, <1>3 DEF Unpushed
<1> QED
  BY <1>2, <1>4

\* A link that was reset.
LEMMA ResetLink ==
    ASSUME NEW b, sub'[b] = NoSub, chan'[b] = <<>>, acks'[b] = <<>>
    PROVE  /\ Held(b)' = {} /\ Listed(b)' = {} /\ AcksIn(acks[b])' = {}
           /\ sub'[b].skipEnqueue = {} /\ sub'[b].pc = "none" /\ Unstarted(b)'
  BY EmptyChannel DEF NoSub, Held, InHand, Listed, Unstarted

\* The end of connections keeps the invariant.
LEMMA DisconnectKeeps ==
    ASSUME IInv, TypeOK', NEW gone, BackupDisconnect(gone), Serving,
           UNCHANGED <<primary, queueVars, consumed>>
    PROVE  IInv'
<1>1. TypeOK /\ Structure /\ Naming /\ Unpushed
  BY DEF IInv
<1>2. /\ backups' = backups \ gone /\ connected' = connected \ gone
      /\ \A x \in Brokers : x \in gone =>
            guard'[x] = NoGuard /\ sub'[x] = NoSub /\ chan'[x] = <<>> /\ acks'[x] = <<>>
      /\ \A x \in Brokers : x \notin gone =>
            /\ guard'[x] = guard[x] /\ sub'[x] = sub[x]
            /\ chan'[x] = chan[x] /\ acks'[x] = acks[x]
  BY <1>1, DisconnectEffect
<1>3. /\ primary' = primary /\ queue' = queue /\ sequence' = sequence /\ Q' = Q
      /\ pending' = pending /\ assigned' = assigned /\ consumed' = consumed
      /\ \A id : Reused(id) => Reused(id)'
  BY DEF queueVars, Q, Reused
<1>4. Numbering' /\ Queues' /\ SameHistory'
  BY QueuesKept
<1>5. ASSUME NEW x \in Brokers, x \in gone
      PROVE  /\ Held(x)' = {} /\ Listed(x)' = {} /\ AcksIn(acks[x])' = {}
             /\ sub'[x].skipEnqueue = {} /\ sub'[x].pc = "none" /\ Unstarted(x)'
             /\ ~guard'[x].on
  BY <1>2, <1>5, ResetLink DEF NoGuard
<1>6. ASSUME NEW x \in Brokers, x \notin gone
      PROVE  /\ Held(x)' = Held(x) /\ Listed(x)' = Listed(x) /\ AcksIn(acks[x])' = AcksIn(acks[x])
             /\ (Running(x)' <=> Running(x)) /\ (Unstarted(x)' <=> Unstarted(x))
  BY <1>2, <1>6 DEF Held, Listed, InHand, Running, Unstarted
<1>7. Naming' /\ Unpushed'
  <2>1. ASSUME NEW x \in Brokers
        PROVE  /\ Held(x)' \subseteq Held(x) /\ Listed(x)' \subseteq Listed(x)
               /\ AcksIn(acks[x])' \subseteq AcksIn(acks[x])
               /\ sub'[x].skipEnqueue \subseteq sub[x].skipEnqueue
    BY <1>2, <1>5, <1>6
  <2> QED
    BY <1>1, <1>3, <2>1, LessIsNamed
<1>8. Structure'
  <2>1. ASSUME NEW x \in Brokers
        PROVE  /\ guard'[x].on => x \in backups'
               /\ ~guard'[x].on => guard'[x] = NoGuard
               /\ sub'[x].pc # "none" => x \in connected' /\ guard'[x].on
               /\ sub'[x].pc = "none" => sub'[x] = NoSub
               /\ ~Running(x)' => Unstarted(x)'
    <3>1. CASE x \in gone
      BY <1>2, <1>5, <3>1
    <3>2. CASE x \notin gone
      BY <1>1, <1>2, <1>6, <3>2 DEF Structure
    <3> QED
      BY <3>1, <3>2
  <2> QED
    BY <1>1, <1>2, <1>3, <2>1 DEF Structure, Serving
<1>9. ASSUME NEW x \in Brokers PROVE BackupOK(x)'
  <2>1. CASE x \in gone
    BY <1>5, <2>1, UnguardedOK
  <2>2. CASE x \notin gone
    <3>1. BackupOK(x)
      BY DEF IInv
    <3> QED
      BY <1>2, <1>3, <2>2, <3>1, FrameKeeps
  <2> QED
    BY <2>1, <2>2
<1> QED
  BY <1>4, <1>7, <1>8, <1>9 DEF IInv

\* The timer of a primary that is active changes nothing.
LEMMA StayKeeps ==
    ASSUME IInv, TypeOK', Serving,
           UNCHANGED <<primary, queueVars, consumed, linkVars, guard, sub, backups, connected>>
    PROVE  IInv'
<1>1. TypeOK /\ Structure /\ Naming /\ Unpushed
  BY DEF IInv
<1>2. /\ primary' = primary /\ queue' = queue /\ sequence' = sequence /\ Q' = Q
      /\ pending' = pending /\ assigned' = assigned /\ consumed' = consumed
      /\ chan' = chan /\ acks' = acks /\ guard' = guard /\ sub' = sub
      /\ backups' = backups /\ connected' = connected
      /\ \A id : Reused(id) => Reused(id)'
  BY DEF queueVars, linkVars, Q, Reused
<1>3. Numbering' /\ Queues' /\ SameHistory'
  BY QueuesKept
<1>4. \A x \in Brokers : /\ Held(x)' = Held(x) /\ Listed(x)' = Listed(x)
                         /\ (Running(x)' <=> Running(x)) /\ (Unstarted(x)' <=> Unstarted(x))
  BY <1>2 DEF Held, Listed, InHand, Running, Unstarted
<1>5. Naming' /\ Unpushed'
  BY <1>1, <1>2, <1>4, LessIsNamed
<1>6. Structure'
  BY <1>1, <1>2, <1>4 DEF Structure, Serving
<1>7. ASSUME NEW x \in Brokers PROVE BackupOK(x)'
  <2>1. BackupOK(x)
    BY DEF IInv
  <2> QED
    BY <1>2, <2>1, FrameKeeps
<1> QED
  BY <1>3, <1>5, <1>6, <1>7 DEF IInv

\* The crash of the primary keeps the invariant: its queue goes with it.
LEMMA CrashKeeps ==
    ASSUME IInv, TypeOK', Crash
    PROVE  IInv'
<1>1. TypeOK /\ Structure /\ Numbering /\ Naming /\ Queues /\ Unpushed /\ SameHistory
  BY DEF IInv
<1>2. /\ Serving /\ primary' = NoBroker /\ primary \in Brokers /\ ~Serving'
      /\ queue'[primary] = {} /\ maxId'[primary] = 0
      /\ \A x \in Brokers : x # primary =>
            queue'[x] = queue[x] /\ sequence'[x] = sequence[x] /\ maxId'[x] = maxId[x]
      /\ nextId' = 0 /\ pending' = {} /\ backups' = {} /\ connected' = {}
      /\ \A x \in Brokers : guard'[x] = NoGuard /\ sub'[x] = NoSub /\ chan'[x] = <<>> /\ acks'[x] = <<>>
      /\ UNCHANGED <<assigned, consumed>>
  BY <1>1, ReplicationAssumption DEF Crash, TypeOK, Serving
<1>3. \A x \in Brokers : queue'[x] \subseteq queue[x]
  BY <1>2
<1>4. ASSUME NEW x \in Brokers
      PROVE  /\ Held(x)' = {} /\ Listed(x)' = {} /\ AcksIn(acks[x])' = {}
             /\ sub'[x].skipEnqueue = {} /\ sub'[x].pc = "none" /\ Unstarted(x)'
             /\ ~guard'[x].on
  BY <1>2, ResetLink DEF NoGuard
<1>5. Numbering'
  <2>1. \A x \in Brokers : maxId'[x] <= Len(assigned)
    <3> TAKE x \in Brokers
    <3>1. Len(assigned) \in Nat /\ maxId[x] <= Len(assigned)
      BY <1>1 DEF TypeOK, Numbering
    <3> QED
      BY <1>2, <3>1
  <2>2. nextId' <= Len(assigned') + 1
    <3>1. Len(assigned) \in Nat
      BY <1>1 DEF TypeOK
    <3> QED
      BY <1>2, <3>1
  <2> QED
    BY <1>1, <1>2, <2>1, <2>2 DEF Numbering
<1>6. Naming' /\ Unpushed'
  BY <1>1, <1>2, <1>3, <1>4, LessIsNamed
<1>7. Queues'
  BY <1>1, <1>2 DEF Queues
<1>8. Structure'
  BY <1>2, <1>4 DEF Structure
<1>9. \A x \in Brokers : BackupOK(x)'
  BY <1>4, UnguardedOK
<1>10. SameHistory'
  <2>1. \A e : Live(e)' <=> Live(e)
    BY <1>2 DEF Live, Reused
  <2> SUFFICES ASSUME NEW x \in Brokers, NEW y \in Brokers,
                      NEW e \in queue'[x], NEW f \in queue'[x], NEW g \in queue'[y],
                      Live(e), Live(f), e.seq < f.seq, g.id = f.id
               PROVE  \E h \in queue'[y] : h.id = e.id /\ h.seq < g.seq
    BY <2>1 DEF SameHistory
  <2>2. y # primary /\ queue'[y] = queue[y]
    BY <1>2
  <2> QED
    BY <1>1, <1>3, <2>2 DEF SameHistory
<1> QED
  BY <1>5, <1>6, <1>7, <1>8, <1>9, <1>10 DEF IInv

\* A broker that starts again is empty and keeps the invariant.
LEMMA RestartKeeps ==
    ASSUME IInv, TypeOK', NEW b \in Brokers, Restart(b)
    PROVE  IInv'
<1>1. TypeOK /\ Structure /\ Numbering /\ Naming /\ Queues /\ Unpushed /\ SameHistory
  BY DEF IInv
<1>2. /\ b # primary /\ b \notin connected
      /\ queue'[b] = {} /\ sequence'[b] = 0 /\ maxId'[b] = 0
      /\ \A x \in Brokers : x # b =>
            queue'[x] = queue[x] /\ sequence'[x] = sequence[x] /\ maxId'[x] = maxId[x]
      /\ primary' = primary /\ nextId' = nextId /\ pending' = pending /\ assigned' = assigned
      /\ consumed' = consumed /\ backups' = backups /\ connected' = connected
      /\ chan' = chan /\ acks' = acks /\ guard' = guard /\ sub' = sub
  BY <1>1 DEF Restart, TypeOK, answerVars, linkVars
<1>3. /\ \A x \in Brokers : queue'[x] \subseteq queue[x]
      /\ \A id : Reused(id)' <=> Reused(id)
      /\ \A e : Live(e)' <=> Live(e)
      /\ \A x \in Brokers : /\ Held(x)' = Held(x) /\ Listed(x)' = Listed(x)
                            /\ AcksIn(acks[x])' = AcksIn(acks[x])
                            /\ (Running(x)' <=> Running(x)) /\ (Unstarted(x)' <=> Unstarted(x))
      /\ Serving' <=> Serving
  BY <1>2 DEF Reused, Live, Held, Listed, InHand, Running, Unstarted, Serving
<1>4. Numbering'
  <2>1. \A x \in Brokers : maxId'[x] <= Len(assigned)
    <3> TAKE x \in Brokers
    <3>1. Len(assigned) \in Nat /\ maxId[x] <= Len(assigned)
      BY <1>1 DEF TypeOK, Numbering
    <3> QED
      BY <1>2, <3>1
  <2> QED
    BY <1>1, <1>2, <1>3, <2>1 DEF Numbering
<1>5. Naming' /\ Unpushed'
  BY <1>1, <1>2, <1>3, LessIsNamed
<1>6. Serving => Q' = Q
  BY <1>2 DEF Serving, Q
<1>7. Queues'
  <2>1. \A x \in Brokers : \A e \in queue'[x] :
          1 <= e.seq /\ e.seq <= sequence'[x] /\ (x # primary' => e.id <= maxId'[x])
    BY <1>1, <1>2 DEF Queues
  <2>2. \A x \in Brokers : \A e, f \in queue'[x] : e.seq = f.seq \/ e.id = f.id => e = f
    BY <1>1, <1>3 DEF Queues
  <2>3. /\ Serving' => \A e \in Q' \cup pending' : e.id < nextId'
        /\ Serving' => \A m \in pending', e \in Q' : e.id # m.id
        /\ \A m, n \in pending' : m.id = n.id => m = n
    BY <1>1, <1>2, <1>3, <1>6 DEF Queues
  <2> QED
    BY <2>1, <2>2, <2>3 DEF Queues
<1>8. Structure'
  BY <1>1, <1>2, <1>3 DEF Structure
<1>9. ASSUME NEW x \in Brokers PROVE BackupOK(x)'
  <2>1. BackupOK(x)
    BY DEF IInv
  <2>2. CASE ~Serving
    <3>1. backups = {} /\ ~guard[x].on /\ sub[x].pc = "none"
      BY <1>1, <2>2 DEF Structure
    <3> QED
      BY <1>2, <3>1, UnguardedOK
  <2>3. CASE Serving /\ x # b
    <3>1. sequence'[primary'] = sequence[primary]
      BY <1>2, <2>3 DEF Serving
    <3> QED
      BY <1>2, <1>3, <1>6, <2>1, <2>3, <3>1, FrameKeeps
  <2>4. CASE Serving /\ x = b
    <3>1. sub[x].pc = "none"
      BY <1>1, <1>2, <2>4 DEF Structure
    <3>2. sequence'[primary'] = sequence[primary] /\ ~Running(x)
      BY <1>2, <2>4, <3>1 DEF Serving, Running
    <3>3. GuardOK(x)'
      BY <1>2, <1>3, <1>6, <2>1, <2>4, <3>1, <3>2 DEF BackupOK, GuardOK
    <3> QED
      BY <1>2, <3>1, <3>3, UnsubscribedOK
  <2> QED
    BY <2>2, <2>3, <2>4
<1>10. SameHistory'
  <2> SUFFICES ASSUME NEW x \in Brokers, NEW y \in Brokers,
                      NEW e \in queue'[x], NEW f \in queue'[x], NEW g \in queue'[y],
                      Live(e), Live(f), e.seq < f.seq, g.id = f.id
               PROVE  \E h \in queue'[y] : h.id = e.id /\ h.seq < g.seq
    BY <1>3 DEF SameHistory
  <2>1. y # b /\ queue'[y] = queue[y]
    BY <1>2
  <2> QED
    BY <1>1, <1>3, <2>1 DEF SameHistory
<1> QED
  BY <1>4, <1>5, <1>7, <1>8, <1>9, <1>10 DEF IInv

\* Promotion keeps the invariant: the guards of the expected backups delay all
\* that is enqueued from now on, and nothing is subscribed.
LEMMA PromoteKeeps ==
    ASSUME IInv, TypeOK', NEW b \in Brokers, Promote(b)
    PROVE  IInv'
<1>0. PICK expect : expect = {c \in Brokers \ {b} : view[b][c] = "ready"}
  OBVIOUS
<1>1. TypeOK /\ Structure /\ Numbering /\ Naming /\ Queues /\ Unpushed /\ SameHistory
  BY DEF IInv
<1>2. /\ primary = NoBroker /\ primary' = b /\ nextId' = maxId[b] + 1
      /\ guard' = [c \in Brokers |->
                     IF c \in expect
                     THEN [on |-> TRUE, first |-> sequence[b] + 1, delayed |-> {}]
                     ELSE NoGuard]
      /\ backups' = expect /\ connected' = connected
      /\ queue' = queue /\ sequence' = sequence /\ maxId' = maxId /\ pending' = pending
      /\ assigned' = assigned /\ consumed' = consumed
      /\ chan' = chan /\ acks' = acks /\ sub' = sub
  BY <1>0 DEF Promote, answerVars, linkVars
<1>3. ~Serving /\ b \notin expect /\ expect \subseteq Brokers
  BY <1>0, <1>2, ReplicationAssumption DEF Serving
<1>4. pending = {} /\ \A x \in Brokers : sub[x] = NoSub /\ sub[x].pc = "none"
  BY <1>1, <1>3 DEF Structure, TypeOK
<1>5. /\ \A x \in Brokers : /\ Held(x)' = Held(x) /\ Listed(x)' = Listed(x)
                            /\ (Running(x)' <=> Running(x)) /\ (Unstarted(x)' <=> Unstarted(x))
      /\ \A e : Live(e)' <=> Live(e)
  BY <1>2 DEF Reused, Live, Held, Listed, InHand, Running, Unstarted
<1>6. sequence[b] \in Nat /\ maxId[b] \in Nat /\ Len(assigned) \in Nat /\ Q' = queue[b]
  BY <1>1, <1>2 DEF TypeOK, Q
<1>7. \A e \in queue[b] : /\ e.seq \in Nat /\ e.id \in Nat /\ e.seq <= sequence[b]
                          /\ e.id <= maxId[b]
  <2>1. \A e \in queue[b] : e \in Entry
    BY <1>1 DEF TypeOK
  <2>2. b # primary
    BY <1>2, ReplicationAssumption
  <2> QED
    BY <1>1, <2>1, <2>2 DEF Queues, Entry, Ids
<1>8. Numbering'
  <2>1. maxId[b] <= Len(assigned)
    BY <1>1 DEF Numbering
  <2>2. nextId' >= 1 /\ nextId' <= Len(assigned) + 1
    BY <1>2, <1>6, <2>1
  <2> QED
    BY <1>1, <1>2, <2>2 DEF Numbering
<1>9. Naming' /\ Unpushed'
  BY <1>1, <1>2, <1>5, LessIsNamed
<1>10. Queues'
  <2>1. \A x \in Brokers : \A e \in queue'[x] :
          1 <= e.seq /\ e.seq <= sequence'[x] /\ (x # primary' => e.id <= maxId'[x])
    BY <1>1, <1>2, ReplicationAssumption DEF Queues
  <2>2. \A x \in Brokers : \A e, f \in queue'[x] : e.seq = f.seq \/ e.id = f.id => e = f
    BY <1>1, <1>2 DEF Queues
  <2>3. \A e \in Q' \cup pending' : e.id < nextId'
    BY <1>2, <1>4, <1>6, <1>7
  <2> QED
    BY <1>2, <1>4, <2>1, <2>2, <2>3 DEF Queues
<1>11. ASSUME NEW x \in Brokers
       PROVE  /\ x \in expect => /\ guard'[x].on /\ guard'[x].first = sequence[b] + 1
              /\ x \notin expect => guard'[x] = NoGuard /\ ~guard'[x].on
  BY <1>2 DEF NoGuard
<1>12. Structure'
  <2>1. ASSUME NEW x \in Brokers
        PROVE  /\ guard'[x].on => x \in backups'
               /\ ~guard'[x].on => guard'[x] = NoGuard
               /\ sub'[x].pc = "none" /\ sub'[x] = NoSub
               /\ ~Running(x)' => Unstarted(x)'
    BY <1>1, <1>2, <1>4, <1>5, <1>11 DEF Structure
  <2>2. Serving' /\ primary' \notin backups'
    BY <1>2, <1>3 DEF Serving
  <2> QED
    BY <2>1, <2>2 DEF Structure
<1>13. ASSUME NEW x \in Brokers PROVE BackupOK(x)'
  <2>1. CASE x \notin expect
    BY <1>2, <1>4, <1>11, <2>1, UnguardedOK
  <2>2. CASE x \in expect
    <3>1. /\ guard'[x].first = sequence[b] + 1
          /\ guard'[x].first <= sequence'[primary'] + 1
      BY <1>2, <1>6, <1>11, <2>2
    <3>2. \A e \in Q' : ~(e.seq >= guard'[x].first)
      BY <1>6, <1>7, <3>1
    <3>3. GuardOK(x)'
      BY <3>1, <3>2 DEF GuardOK
    <3> QED
      BY <1>2, <1>4, <3>3, UnsubscribedOK
  <2> QED
    BY <2>1, <2>2
<1>14. SameHistory'
  BY <1>1, <1>2, <1>5 DEF SameHistory
<1> QED
  BY <1>8, <1>9, <1>10, <1>12, <1>13, <1>14 DEF IInv

----------------------------------------------------------------------------
(* The invariant                                                           *)

\* A cluster that has just started.
LEMMA InitKeeps == Init => IInv
<1> SUFFICES ASSUME Init PROVE IInv
  OBVIOUS
<1>1. /\ primary \in Brokers /\ backups = {} /\ connected = {} /\ pending = {}
      /\ assigned = <<>> /\ nextId = 1
      /\ \A b \in Brokers :
            /\ queue[b] = {} /\ sequence[b] = 0 /\ maxId[b] = 0
            /\ guard[b] = NoGuard /\ sub[b] = NoSub /\ chan[b] = <<>> /\ acks[b] = <<>>
  BY DEF Init
<1>2. TypeOK
  <2>1. /\ NoGuard \in Guard /\ NoSub \in Subscription
        /\ <<>> \in Seq(Transfer) /\ <<>> \in Seq(Ids) /\ Len(<<>>) = 0
    <3>1. <<>> \in Seq(Transfer) /\ <<>> \in Seq(Ids) /\ Len(<<>>) = 0
      OBVIOUS
    <3> QED
      BY <3>1 DEF NoGuard, Guard, NoSub, Subscription, NoEntry
  <2>2. view \in [Brokers -> [Brokers -> Status]]
    BY DEF Init, Status
  <2>3. 0 \in 0 .. MaxMessages /\ 1 \in 0 .. MaxMessages + 1 /\ 0 \in 0 .. MaxFaults
        /\ 0 <= MaxMessages
    BY ReplicationAssumption
  <2>4. /\ queue \in [Brokers -> SUBSET Entry] /\ sequence \in [Brokers -> Nat]
        /\ maxId \in [Brokers -> 0 .. MaxMessages]
    BY <2>3 DEF Init
  <2>5. /\ guard \in [Brokers -> Guard] /\ sub \in [Brokers -> Subscription]
        /\ chan \in [Brokers -> Seq(Transfer)] /\ acks \in [Brokers -> Seq(Ids)]
    BY <2>1 DEF Init
  <2> QED
    BY <2>1, <2>2, <2>3, <2>4, <2>5 DEF Init, TypeOK
<1>3. DOMAIN assigned = {} /\ Len(assigned) = 0
  BY <1>1
<1>4. Numbering
  BY <1>1, <1>3 DEF Numbering
<1>5. ASSUME NEW b \in Brokers
      PROVE  /\ Held(b) = {} /\ Listed(b) = {} /\ AcksIn(acks[b]) = {}
             /\ sub[b].skipEnqueue = {} /\ sub[b].pc = "none" /\ Unstarted(b) /\ ~guard[b].on
  BY <1>1, EmptyChannel DEF NoSub, NoGuard, Held, InHand, Listed, Unstarted
<1>6. Naming /\ Unpushed
  BY <1>1, <1>5 DEF Naming, Unpushed
<1>7. Queues
  BY <1>1 DEF Queues, Q
<1>8. Structure
  BY <1>1, <1>5 DEF Structure, Serving
<1>9. ASSUME NEW b \in Brokers PROVE BackupOK(b)
  BY <1>5 DEF BackupOK, GuardOK, Running, SnapshotOK, AnswersOK, DequeuesOK, CursorOK,
              StoppedOK, ReadyOK, InTransit, Ghosts, GhostsFirst
<1>10. SameHistory
  BY <1>1 DEF SameHistory
<1> QED
  BY <1>2, <1>4, <1>6, <1>7, <1>8, <1>9, <1>10 DEF IInv

\* Every step keeps the types.
LEMMA StepTypes == IInv /\ Next => TypeOK'
<1> SUFFICES ASSUME IInv, Next PROVE TypeOK'
  OBVIOUS
<1>1. TypeOK /\ Structure /\ Numbering /\ Naming
  BY DEF IInv
<1>2. CASE Record \/ Push \/ Dequeue
  BY <1>1, <1>2, PublisherTypes
<1>3. CASE \E b \in Brokers : Opened(b) \/ TakeGuard(b) \/ StartGuard(b) \/ SetFirst(b) \/ Snapshot(b)
  BY <1>1, <1>3, SetUpTypes
<1>4. CASE \E b \in Brokers :
             Initialize(b) \/ Fetch(b) \/ Deliver(b) \/ Receive(b) \/ Acknowledged(b)
  BY <1>1, <1>4, LinkTypes
<1>5. CASE \/ Crash \/ TimeoutExpectedBackups
           \/ \E b \in Brokers : Closed(b) \/ Restart(b) \/ Promote(b)
  BY <1>1, <1>5, FaultTypes
<1> QED
  BY <1>2, <1>3, <1>4, <1>5 DEF Next, Replicate

\* Every step keeps the invariant.
LEMMA NextKeeps == IInv /\ Next => IInv'
<1> SUFFICES ASSUME IInv, Next PROVE IInv'
  OBVIOUS
<1>0. TypeOK' /\ TypeOK /\ Structure
  BY StepTypes DEF IInv
<1>1. CASE Record
  BY <1>0, <1>1, RecordKeeps
<1>2. CASE Push
  BY <1>0, <1>2, PushKeeps
<1>3. CASE Dequeue
  BY <1>0, <1>3, DequeueKeeps
<1>4. CASE \E b \in Brokers : Opened(b) \/ Replicate(b) \/ Receive(b) \/ Acknowledged(b)
  <2>1. PICK b \in Brokers : Opened(b) \/ Replicate(b) \/ Receive(b) \/ Acknowledged(b)
    BY <1>4
  <2>2. CASE Opened(b)
    BY <1>0, <2>2, OpenedKeeps
  <2>3. CASE TakeGuard(b) \/ StartGuard(b) \/ SetFirst(b) \/ Snapshot(b)
    BY <1>0, <2>3, SetUpKeeps
  <2>4. CASE Initialize(b)
    BY <1>0, <2>4, InitializeKeeps
  <2>5. CASE Fetch(b)
    BY <1>0, <2>5, FetchKeeps
  <2>6. CASE Deliver(b)
    BY <1>0, <2>6, DeliverKeeps
  <2>7. CASE Receive(b)
    BY <1>0, <2>7, ReceiveKeeps
  <2>8. CASE Acknowledged(b)
    BY <1>0, <2>8, AcknowledgedKeeps
  <2> QED
    BY <2>1, <2>2, <2>3, <2>4, <2>5, <2>6, <2>7, <2>8 DEF Replicate
<1>5. ASSUME NEW b \in Brokers, Closed(b) PROVE IInv'
  BY <1>0, <1>5, ClosedEffect, DisconnectKeeps
<1>6. ASSUME NEW b \in Brokers, Restart(b) PROVE IInv'
  BY <1>0, <1>6, RestartKeeps
<1>7. ASSUME NEW b \in Brokers, Promote(b) PROVE IInv'
  BY <1>0, <1>7, PromoteKeeps
<1>8. CASE TimeoutExpectedBackups
  BY <1>0, <1>8, TimeoutEffect, StayKeeps, DisconnectKeeps
<1>9. CASE Crash
  BY <1>0, <1>9, CrashKeeps
<1> QED
  BY <1>1, <1>2, <1>3, <1>4, <1>5, <1>6, <1>7, <1>8, <1>9 DEF Next

\* So does a step that changes nothing.
LEMMA StutterKeeps == IInv /\ UNCHANGED vars => IInv'
<1> SUFFICES ASSUME IInv, UNCHANGED vars PROVE IInv'
  OBVIOUS
<1>1. /\ UNCHANGED <<primary, view, queue, sequence, maxId, nextId, pending, assigned, incomplete,
                     acked, consumed, guard, sub, backups, connected, catchup, reported,
                     expected, timer, chan, acks, faults>>
  BY DEF vars, queueVars, answerVars, memberVars, linkVars
<1>2. TypeOK'
  BY <1>1 DEF IInv, TypeOK
<1>3. UNCHANGED <<queueVars, primary, consumed>>
  BY <1>1 DEF queueVars
<1>4. Numbering' /\ Queues' /\ SameHistory'
  BY <1>3, QueuesKept
<1>5. \A x \in Brokers : /\ Held(x)' = Held(x) /\ Listed(x)' = Listed(x)
                         /\ (Running(x)' <=> Running(x)) /\ (Unstarted(x)' <=> Unstarted(x))
  BY <1>1 DEF Held, Listed, InHand, Running, Unstarted
<1>6. Naming' /\ Unpushed'
  BY <1>1, <1>5, LessIsNamed DEF IInv
<1>7. Structure'
  BY <1>1, <1>5 DEF IInv, Structure, Serving
<1>8. ASSUME NEW x \in Brokers PROVE BackupOK(x)'
  <2>1. BackupOK(x) /\ Q' = Q /\ \A id : Reused(id) => Reused(id)'
    BY <1>1 DEF IInv, Q, Reused
  <2> QED
    BY <1>1, <2>1, FrameKeeps
<1> QED
  BY <1>2, <1>4, <1>6, <1>7, <1>8 DEF IInv

\* IInv is an inductive invariant: whatever the order in which publishers,
\* consumers, links, faults and promotions take their steps, what guards,
\* subscriptions and channels hold fits the queues of the brokers.
THEOREM Inductive == Spec => []IInv
<1>1. IInv /\ [Next]_vars => IInv'
  BY NextKeeps, StutterKeeps
<1> QED
  BY InitKeeps, <1>1, PTL DEF Spec

----------------------------------------------------------------------------
(* What follows from it                                                    *)

\* A backup that Primary counts as ready has every message of the primary's
\* queue or its QueueGuard delays the publisher's answer, but for the message
\* just before the first guarded position (isGuarded is one too early).
THEOREM ReadyBackupsAreSafe == Spec => []ReadyIsSafe
<1>1. IInv => ReadyIsSafe
  <2> SUFFICES ASSUME IInv, NEW b \in connected, sub[b].ready, NEW e \in Q,
                      e.seq + 1 # guard[b].first, ~Reused(e.id)
               PROVE  Covered(b, e)
    BY DEF ReadyIsSafe, IInv, Q
  <2>1. TypeOK /\ Structure /\ b \in Brokers /\ BackupOK(b)
    BY DEF IInv, TypeOK
  <2>2. sub[b].pc # "none" /\ Running(b)
    BY <2>1 DEF Structure, NoSub, Unstarted
  <2>3. Serving /\ guard[b].on
    BY <2>1, <2>2, SubscribedFacts
  <2>4. e.seq \in Nat /\ guard[b].first \in Nat
    BY <2>1, <2>3, NumbersOf
  <2>5. CASE e.seq + 1 < guard[b].first
    BY <2>1, <2>2, <2>5 DEF BackupOK, ReadyOK, OnB, Covered
  <2>6. CASE e.seq >= guard[b].first
    <3>1. sub[b].pc # "guard"
      BY <2>2 DEF Running
    <3> QED
      BY <2>1, <2>3, <2>6, <3>1 DEF BackupOK, GuardOK, OnB, Covered
  <2> QED
    BY <2>4, <2>5, <2>6
<1> QED
  BY Inductive, <1>1, PTL

\* A message that left the primary's queue while a ReplicatingSubscription was
\* set up or at work is on its list of dequeues as long as the backup has it.
THEOREM GhostsOnTheList == Spec => []GhostsAreListed
<1>1. IInv => GhostsAreListed
  BY DEF IInv, TypeOK, BackupOK, Ghosts, Running, Q, GhostsAreListed
<1> QED
  BY Inductive, <1>1, PTL

\* Messages no consumer had, with ids given once, are in the same order on the
\* primary and on each subscribed backup, after any sequence of failovers.
THEOREM OrderIsTheSame == Spec => []SameOrder
<1>1. IInv => SameOrder
  <2> SUFFICES ASSUME IInv, NEW b \in connected, NEW e \in queue[b], NEW f \in queue[b],
                      NEW g \in Q, NEW h \in Q, Live(e), Live(f), e.seq < f.seq,
                      g.id = e.id, h.id = f.id
               PROVE  g.seq < h.seq
    BY DEF SameOrder, Q, Live
  <2>1. b \in Brokers /\ Serving /\ primary \in Brokers
    BY DEF IInv, TypeOK, Structure, Serving
  <2>2. PICK k \in Q : k.id = e.id /\ k.seq < h.seq
    BY <2>1 DEF IInv, SameHistory, Q
  <2>3. k = g
    BY <2>1, <2>2 DEF IInv, Queues, Q
  <2> QED
    BY <2>2, <2>3
<1> QED
  BY Inductive, <1>1, PTL

==============================================================================
