------------------------ MODULE MessageGroups_proofs ------------------------
(***************************************************************************)
(* Theorems about MessageGroups for any number of subscriptions, groups    *)
(* and messages, provided that every name a group can be acquired under    *)
(* differs from the empty one (Named).                                     *)
(*                                                                         *)
(* The inductive invariant IInv has four parts.  Sound says that the deque *)
(* is well formed and that no consumer's cursor is ahead of it.  Books     *)
(* says that the manager's books and the content of the queue agree, and   *)
(* that a group is owned exactly while some of it is acquired.  Held says  *)
(* that the records of the sessions and the content agree, and under whose *)
(* name a group is owned.  NoGroupSkipped needs the other three to be      *)
(* inductive.  As for the plain queue, a step is not followed through the  *)
(* deque but through its content, on which it has one of six effects       *)
(* (Effect); the books are then about sets of numbers (EnqueuedBooks to    *)
(* FinishedBooks).                                                         *)
(***************************************************************************)
EXTENDS MessageGroups, IndexedDeque_proofs

\* No subscription acquires under the empty name, which GroupState::owned()
\* reads as "no owner".
Named == \A c \in Subscriptions : AcquiresAs[c] # Nobody

\* The messages on the queue, without their places in the deque.
Contents == Content(messages)

\* The numbers of the messages of group k in a content, and of its acquired ones.
MembersIn(C, k) == {m.sequence : m \in {x \in C : x.kind = k}}

HeldIn(C, k) == {m.sequence : m \in {x \in C : x.kind = k /\ x.state = "ACQUIRED"}}

\* The numbers a subscription has acquired, by its records.
Taken(R) == {r.position : r \in {x \in R : x.acquired}}

\* Who has acquired which numbers.
owners == [c \in Subscriptions |-> Taken(unacked[c])]

\* What freeGroups lists of one group, and of all.
Entry(g, k) == IF g.members # {} /\ ~owned(g) THEN {<<first(g), k>>} ELSE {}

FreeOf(G) == UNION {Entry(G[k], k) : k \in Kinds}

\* Cursors are of their subscription's type; a consumer's is not ahead.
CursorsBehind ==
    \A c \in Subscriptions :
        /\ cursor[c].type = TypeOf[c]
        /\ TypeOf[c] = "CONSUMER" /\ cursor[c].valid =>
               cursor[c].position <= sequence /\ cursor[c].version <= version

ContentTyped == \A m \in Contents : m.sequence \in 1 .. MaxSequence /\ m.kind \in Kinds

Sound == TypeOK /\ DequeOK(messages, sequence) /\ CursorsBehind /\ ContentTyped

\* The state g of group k agrees with a content.
GroupOK(g, C, k) ==
    /\ g.members = MembersIn(C, k) /\ g.held = HeldIn(C, k)
    /\ IsFiniteSet(g.held) /\ g.acquired = Cardinality(g.held)
    /\ owned(g) <=> g.held # {}

\* The books of every group, and freeGroups.
Books ==
    /\ \A k \in Kinds : GroupOK(messageGroups[k], Contents, k)
    /\ freeGroups = FreeOf(messageGroups)

\* What a record says was acquired is on the queue and acquired, under the
\* name that owns its group.
RecordsHeld ==
    \A c \in Subscriptions : \A n \in owners[c] :
        \E m \in Contents : /\ m.sequence = n /\ m.state = "ACQUIRED"
                            /\ messageGroups[m.kind].owner = AcquiresAs[c]

\* An acquired message is in the records of exactly one subscription.
HeldOnce ==
    \A m \in Contents : m.state = "ACQUIRED" =>
        \E c \in Subscriptions : \A d \in Subscriptions : m.sequence \in owners[d] <=> d = c

Held == RecordsHeld /\ HeldOnce

IInv == Sound /\ Books /\ Held /\ NoGroupSkipped

----------------------------------------------------------------------------
(* The numbers of a content, and the entries of freeGroups                 *)

\* The least number of a set is the one that is not above any.
LEMMA MinIs ==
    ASSUME NEW S, S \subseteq Nat, NEW m \in S, \A y \in S : m <= y
    PROVE  Min(S) = m
<1>1. Min(S) \in S /\ Min(S) <= m
  BY MinOfNats
<1>2. Min(S) \in Nat /\ m \in Nat /\ m <= Min(S)
  BY <1>1
<1> QED
  BY <1>1, <1>2

\* enqueued(): a new message joins the numbers of its group, and is not acquired.
LEMMA NumbersAdd ==
    ASSUME NEW C, NEW m, m.state = "AVAILABLE", NEW k, NEW D, D = C \cup {m}
    PROVE  /\ MembersIn(D, k) =
                  IF m.kind = k THEN MembersIn(C, k) \cup {m.sequence} ELSE MembersIn(C, k)
           /\ HeldIn(D, k) = HeldIn(C, k)
<1>1. HeldIn(D, k) = HeldIn(C, k)
  BY DEF HeldIn
<1>2. CASE m.kind = k
  BY <1>1, <1>2 DEF MembersIn
<1>3. CASE m.kind # k
  BY <1>1, <1>3 DEF MembersIn
<1> QED
  BY <1>2, <1>3

\* dequeued(): its number leaves the groups.
LEMMA NumbersWithout ==
    ASSUME NEW C, NEW p, NEW k
    PROVE  /\ MembersIn(Without(C, p), k) = MembersIn(C, k) \ {p}
           /\ HeldIn(Without(C, p), k) = HeldIn(C, k) \ {p}
BY DEF MembersIn, HeldIn, Without

\* acquired() and requeued(): only what is acquired changes.
LEMMA NumbersState ==
    ASSUME NEW C, NEW m \in C, m \in Message, NEW s, NEW k,
           \A n \in C : n.sequence = m.sequence => n = m,
           NEW D, D = Without(C, m.sequence) \cup {InStateOf(m, s)}
    PROVE  /\ MembersIn(D, k) = MembersIn(C, k)
           /\ m.kind = k /\ s = "ACQUIRED" => HeldIn(D, k) = HeldIn(C, k) \cup {m.sequence}
           /\ ~(m.kind = k /\ s = "ACQUIRED") => HeldIn(D, k) = HeldIn(C, k) \ {m.sequence}
<1> DEFINE a == InStateOf(m, s)
<1>1. a.sequence = m.sequence /\ a.kind = m.kind /\ a.state = s
  BY DEF InStateOf, Message
<1>0. D = Without(C, m.sequence) \cup {a}
  OBVIOUS
<1> HIDE DEF a
<1>2. MembersIn(D, k) = MembersIn(C, k)
  <2>1. ASSUME NEW n \in MembersIn(D, k) PROVE n \in MembersIn(C, k)
    BY <1>0, <1>1 DEF MembersIn, Without
  <2>2. ASSUME NEW n \in MembersIn(C, k) PROVE n \in MembersIn(D, k)
    <3> PICK x \in C : x.kind = k /\ n = x.sequence
      BY DEF MembersIn
    <3>1. CASE x.sequence = m.sequence
      <4>1. a \in D /\ a.kind = k /\ n = a.sequence
        BY <1>0, <1>1, <3>1
      <4> QED
        BY <4>1 DEF MembersIn
    <3>2. CASE x.sequence # m.sequence
      BY <1>0, <3>2 DEF MembersIn, Without
    <3> QED
      BY <3>1, <3>2
  <2> QED
    BY <2>1, <2>2
<1>3. HeldIn(D, k) = HeldIn(Without(C, m.sequence), k) \cup HeldIn({a}, k)
  BY <1>0 DEF HeldIn
<1>4. HeldIn({a}, k) = IF m.kind = k /\ s = "ACQUIRED" THEN {m.sequence} ELSE {}
  BY <1>1 DEF HeldIn
<1>5. HeldIn(Without(C, m.sequence), k) = HeldIn(C, k) \ {m.sequence}
  BY NumbersWithout
<1> QED
  BY <1>2, <1>3, <1>4, <1>5

\* Changing one group changes what freeGroups should list of that group only.
LEMMA FreeChange ==
    ASSUME NEW S, NEW G \in [Kinds -> S], NEW k \in Kinds, NEW g
    PROVE  FreeOf([G EXCEPT ![k] = g]) = (FreeOf(G) \ Entry(G[k], k)) \cup Entry(g, k)
<1> DEFINE H == [G EXCEPT ![k] = g]
<1>1. H[k] = g /\ \A j \in Kinds : j # k => H[j] = G[j]
  OBVIOUS
<1> HIDE DEF H
<1>2. \A j \in Kinds : j # k => Entry(G[j], j) \cap Entry(G[k], k) = {}
  BY DEF Entry
<1>3. ASSUME NEW x \in FreeOf(H) PROVE x \in (FreeOf(G) \ Entry(G[k], k)) \cup Entry(g, k)
  <2> PICK j \in Kinds : x \in Entry(H[j], j)
    BY DEF FreeOf
  <2> QED
    BY <1>1, <1>2 DEF FreeOf
<1>4. ASSUME NEW x \in FreeOf(G) \ Entry(G[k], k) PROVE x \in FreeOf(H)
  BY <1>1 DEF FreeOf
<1>5. Entry(g, k) \subseteq FreeOf(H)
  BY <1>1 DEF FreeOf
<1> QED
  BY <1>3, <1>4, <1>5 DEF H

\* What Sound says of numbers, cursors and the content.
LEMMA SoundFacts ==
    ASSUME Sound
    PROVE  /\ DequeOK(messages, sequence) /\ messages \in Seq(Message) /\ Consecutive(messages)
           /\ sequence \in Nat /\ version \in Nat /\ sequence <= MaxSequence
           /\ \A c \in Subscriptions : cursor[c] \in QueueCursor /\ cursor[c].type = TypeOf[c]
           /\ \A m \in Contents : /\ m \in Message /\ m.sequence \in Nat /\ m.sequence <= sequence
                                  /\ m.state \in {"AVAILABLE", "ACQUIRED"} /\ m.kind \in Kinds
           /\ \A m, n \in Contents : m.sequence = n.sequence => m = n
           /\ \A i \in Live(messages) : messages[i] \in Contents
           /\ \A m \in Contents : \E i \in Live(messages) : i \in DOMAIN messages /\ m = messages[i]
<1>1. sequence \in 0 .. MaxSequence /\ version \in 0 .. MaxVersion /\ MaxSequence \in Nat /\ MaxVersion \in Nat
  BY GroupAssumption DEF Sound, TypeOK
<1>2. DequeOK(messages, sequence) /\ messages \in Seq(Message) /\ Consecutive(messages)
  BY DEF Sound, DequeOK
<1>3. \A c \in Subscriptions : cursor[c] \in QueueCursor /\ cursor[c].type = TypeOf[c]
  BY DEF Sound, TypeOK, CursorsBehind
<1>4. /\ \A i \in Live(messages) : messages[i] \in Contents
      /\ \A m \in Contents : \E i \in Live(messages) : i \in DOMAIN messages /\ m = messages[i]
  BY DEF Contents, Content, Live
<1>5. \A m \in Contents : m.sequence <= sequence /\ m.kind \in Kinds
  BY <1>2, <1>4 DEF DequeOK, Sound, ContentTyped
<1>6. /\ \A m \in Contents : m \in Message /\ m.sequence \in Nat /\ m.state \in {"AVAILABLE", "ACQUIRED"}
      /\ \A m, n \in Contents : m.sequence = n.sequence => m = n
  BY <1>2, ContentFacts DEF Contents
<1>7. sequence \in Nat /\ version \in Nat /\ sequence <= MaxSequence
  BY <1>1
<1> QED
  BY <1>2, <1>3, <1>4, <1>5, <1>6, <1>7

\* What Books says of the state of one group.
LEMMA GroupFacts ==
    ASSUME Sound, Books, NEW k \in Kinds
    PROVE  LET g == messageGroups[k]
           IN  /\ g \in GroupState /\ messageGroups \in [Kinds -> GroupState]
               /\ g.members \subseteq 1 .. MaxSequence /\ g.members \subseteq Nat
               /\ g.held \subseteq g.members /\ IsFiniteSet(g.held)
               /\ g.acquired \in Nat /\ g.acquired = Cardinality(g.held)
               /\ g.acquired = 0 <=> g.held = {}
               /\ owned(g) <=> g.held # {}
               /\ g.members = MembersIn(Contents, k) /\ g.held = HeldIn(Contents, k)
<1> DEFINE g == messageGroups[k]
<1>1. g \in GroupState /\ messageGroups \in [Kinds -> GroupState]
  BY DEF Sound, TypeOK
<1>2. GroupOK(g, Contents, k)
  BY DEF Books
<1> HIDE DEF g
<1>3. g.members \subseteq 1 .. MaxSequence /\ 1 .. MaxSequence \subseteq Nat
  BY <1>1, GroupAssumption DEF GroupState
<1>4. g.held \subseteq g.members
  BY <1>2 DEF GroupOK, MembersIn, HeldIn
<1>5. Cardinality(g.held) \in Nat /\ (Cardinality(g.held) = 0 <=> g.held = {})
  BY <1>2, FS_CardinalityType, FS_EmptySet DEF GroupOK
<1> QED
  BY <1>1, <1>2, <1>3, <1>4, <1>5 DEF GroupOK, g

----------------------------------------------------------------------------
(* The six things a step can do to the content, with the manager's part    *)

\* deliverTo: push() and enqueued().
Published(m) ==
    /\ m \in Message /\ m.state = "AVAILABLE" /\ m.kind \in Kinds
    /\ sequence' = sequence + 1 /\ m.sequence = sequence' /\ sequence' \in 1 .. MaxSequence
    /\ \A n \in Contents : n.sequence < m.sequence
    /\ Contents' = Contents \cup {m}
    /\ Enqueued(m.kind, m.sequence)
    /\ owners' = owners /\ version' = version

\* An available message expires, is purged or is moved; g is the state of its
\* group as dequeued() finds it.
Discarded(m) ==
    /\ m \in Contents /\ m.state = "AVAILABLE"
    /\ Contents' = Without(Contents, m.sequence)
    /\ \E g \in {messageGroups[m.kind], marked(messageGroups[m.kind], m.sequence)} :
           Dequeued(m.kind, g, m.sequence) /\ ResetCursors(without(g, m.sequence))
    /\ owners' = owners /\ sequence' = sequence

\* An available message goes to a subscription.
TakenBy(c, m) ==
    /\ m \in Contents /\ m.state = "AVAILABLE"
    /\ Contents' = Without(Contents, m.sequence) \cup {InStateOf(m, "ACQUIRED")}
    /\ Acquired(m.kind, m.sequence, AcquiresAs[c])
    /\ owners' = [owners EXCEPT ![c] = @ \cup {m.sequence}]
    /\ version' = version /\ sequence' = sequence

\* An acquired message leaves the queue for good ...
Finished(c, m) ==
    /\ m \in Contents /\ m.state = "ACQUIRED" /\ m.sequence \in owners[c]
    /\ Contents' = Without(Contents, m.sequence)
    /\ Dequeued(m.kind, messageGroups[m.kind], m.sequence)
    /\ ResetCursors(without(messageGroups[m.kind], m.sequence))
    /\ owners' = [owners EXCEPT ![c] = @ \ {m.sequence}]
    /\ sequence' = sequence

\* ... or is available again.
GivenBack(c, m) ==
    /\ m \in Contents /\ m.state = "ACQUIRED" /\ m.sequence \in owners[c]
    /\ Contents' = Without(Contents, m.sequence) \cup {InStateOf(m, "AVAILABLE")}
    /\ Requeued(m.kind, m.sequence)
    /\ owners' = [owners EXCEPT ![c] = @ \ {m.sequence}]
    /\ version' \in 0 .. MaxVersion /\ version' = version + 1 /\ sequence' = sequence

\* Nothing changes hands.
Still ==
    /\ Contents' = Contents /\ owners' = owners /\ version' = version /\ sequence' = sequence
    /\ messageGroups' = messageGroups /\ freeGroups' = freeGroups

\* The six effects.
Effect ==
    \/ Still
    \/ \E m : Published(m) \/ Discarded(m)
    \/ \E c \in Subscriptions : \E m : TakenBy(c, m) \/ Finished(c, m) \/ GivenBack(c, m)

\* Group k goes from state messageGroups[k] to g, and the books stay exact.
GroupStep(k, g) ==
    /\ g \in GroupState
    /\ messageGroups' = [messageGroups EXCEPT ![k] = g]
    /\ freeGroups' = (freeGroups \ Entry(messageGroups[k], k)) \cup Entry(g, k)
    /\ GroupOK(g, Contents', k)
    /\ \A j \in Kinds : j # k => /\ MembersIn(Contents', j) = MembersIn(Contents, j)
                                 /\ HeldIn(Contents', j) = HeldIn(Contents, j)

\* No owner is replaced; one that goes leaves no message acquired, and either
\* no message at all or every consumer to start over.
OwnerLeaves(g) ==
    /\ g.held = {}
    /\ g.members = {} \/ version' = version + 1
    /\ version' \in 0 .. MaxVersion /\ version <= version'

\* How the numbers of every group change with message m.
LEMMA NumbersChange ==
    ASSUME Sound, NEW m \in Contents, NEW s \in {"AVAILABLE", "ACQUIRED"}, NEW j
    PROVE  /\ Contents' = Without(Contents, m.sequence) =>
                  /\ MembersIn(Contents', j) = MembersIn(Contents, j) \ {m.sequence}
                  /\ HeldIn(Contents', j) = HeldIn(Contents, j) \ {m.sequence}
           /\ Contents' = Without(Contents, m.sequence) \cup {InStateOf(m, s)} =>
                  /\ MembersIn(Contents', j) = MembersIn(Contents, j)
                  /\ m.kind = j /\ s = "ACQUIRED" =>
                         HeldIn(Contents', j) = HeldIn(Contents, j) \cup {m.sequence}
                  /\ ~(m.kind = j /\ s = "ACQUIRED") =>
                         HeldIn(Contents', j) = HeldIn(Contents, j) \ {m.sequence}
<1>1. m \in Message /\ \A n \in Contents : n.sequence = m.sequence => n = m
  BY SoundFacts
<1>2. CASE Contents' = Without(Contents, m.sequence)
  <2>1. /\ MembersIn(Contents', j) = MembersIn(Contents, j) \ {m.sequence}
        /\ HeldIn(Contents', j) = HeldIn(Contents, j) \ {m.sequence}
    BY <1>2, NumbersWithout
  <2>2. ASSUME Contents' = Without(Contents, m.sequence) \cup {InStateOf(m, s)} PROVE FALSE
    <3>1. InStateOf(m, s) \in Contents' /\ InStateOf(m, s).sequence = m.sequence
      BY <1>1, <2>2 DEF InStateOf, Message
    <3> QED
      BY <1>2, <3>1 DEF Without
  <2> QED
    BY <2>1, <2>2
<1>3. ASSUME Contents' = Without(Contents, m.sequence) \cup {InStateOf(m, s)}
      PROVE  /\ MembersIn(Contents', j) = MembersIn(Contents, j)
             /\ m.kind = j /\ s = "ACQUIRED" =>
                    HeldIn(Contents', j) = HeldIn(Contents, j) \cup {m.sequence}
             /\ ~(m.kind = j /\ s = "ACQUIRED") =>
                    HeldIn(Contents', j) = HeldIn(Contents, j) \ {m.sequence}
  BY <1>1, <1>3, NumbersState
<1> QED
  BY <1>2, <1>3

\* The numbers of the other groups do not change with those of m.
LEMMA OtherGroups ==
    ASSUME Sound, NEW m \in Contents, NEW s \in {"AVAILABLE", "ACQUIRED"},
           \/ Contents' = Without(Contents, m.sequence)
           \/ Contents' = Without(Contents, m.sequence) \cup {InStateOf(m, s)}
    PROVE  \A j \in Kinds : j # m.kind => /\ MembersIn(Contents', j) = MembersIn(Contents, j)
                                          /\ HeldIn(Contents', j) = HeldIn(Contents, j)
<1> TAKE j \in Kinds
<1> HAVE j # m.kind
<1>1. m.sequence \notin MembersIn(Contents, j) /\ m.sequence \notin HeldIn(Contents, j)
  BY SoundFacts DEF MembersIn, HeldIn
<1>2. CASE Contents' = Without(Contents, m.sequence)
  <2>1. /\ MembersIn(Contents', j) = MembersIn(Contents, j) \ {m.sequence}
        /\ HeldIn(Contents', j) = HeldIn(Contents, j) \ {m.sequence}
    BY <1>2, NumbersChange
  <2> QED
    BY <1>1, <2>1
<1>3. CASE Contents' = Without(Contents, m.sequence) \cup {InStateOf(m, s)}
  <2>1. /\ MembersIn(Contents', j) = MembersIn(Contents, j)
        /\ HeldIn(Contents', j) = HeldIn(Contents, j) \ {m.sequence}
    BY <1>3, NumbersChange
  <2> QED
    BY <1>1, <2>1
<1> QED
  BY <1>2, <1>3

\* The numbers of the group of m, as its books have them.
LEMMA NumbersOf ==
    ASSUME Sound, Books, NEW m \in Contents, NEW s \in {"AVAILABLE", "ACQUIRED"},
           NEW g, g = messageGroups[m.kind]
    PROVE  /\ m.sequence \in g.members /\ (m.sequence \in g.held <=> m.state = "ACQUIRED")
           /\ Contents' = Without(Contents, m.sequence) =>
                  /\ MembersIn(Contents', m.kind) = g.members \ {m.sequence}
                  /\ HeldIn(Contents', m.kind) = g.held \ {m.sequence}
           /\ Contents' = Without(Contents, m.sequence) \cup {InStateOf(m, s)} =>
                  /\ MembersIn(Contents', m.kind) = g.members
                  /\ s = "ACQUIRED" => HeldIn(Contents', m.kind) = g.held \cup {m.sequence}
                  /\ s = "AVAILABLE" => HeldIn(Contents', m.kind) = g.held \ {m.sequence}
<1>1. m \in Message /\ m.kind \in Kinds /\ \A n \in Contents : n.sequence = m.sequence => n = m
  BY SoundFacts
<1>2. g.members = MembersIn(Contents, m.kind) /\ g.held = HeldIn(Contents, m.kind)
  BY <1>1, GroupFacts
<1>3. m.sequence \in MembersIn(Contents, m.kind)
  BY DEF MembersIn
<1>4. m.sequence \in HeldIn(Contents, m.kind) <=> m.state = "ACQUIRED"
  BY <1>1 DEF HeldIn
<1> QED
  BY <1>2, <1>3, <1>4, NumbersChange

\* enqueued() keeps the books: it lists a group that was empty.
LEMMA EnqueuedBooks ==
    ASSUME Sound, Books, NEW m, Published(m)
    PROVE  \E g : /\ GroupStep(m.kind, g)
                  /\ owned(messageGroups[m.kind]) => g.owner = messageGroups[m.kind].owner
<1> DEFINE k == m.kind
           p == m.sequence
           h == messageGroups[k]
           g == [h EXCEPT !.members = @ \cup {p}]
<1>1. /\ h \in GroupState /\ h.members \subseteq Nat /\ h.held \subseteq h.members
      /\ h.members \subseteq 1 .. MaxSequence
      /\ GroupOK(h, Contents, k) /\ k \in Kinds
  BY GroupFacts DEF Published, Books
<1>2. p \in 1 .. MaxSequence /\ p \in Nat
  BY GroupAssumption DEF Published
<1>3. /\ g.members = h.members \cup {p} /\ g.held = h.held
      /\ g.acquired = h.acquired /\ g.owner = h.owner /\ g \in GroupState
  BY <1>1, <1>2 DEF GroupState
<1>4. /\ messageGroups' = [messageGroups EXCEPT ![k] = g]
      /\ freeGroups' = IF Cardinality(g.members) = 1 THEN reFree(freeGroups, k, g) ELSE freeGroups
  BY DEF Published, Enqueued
<1>5. \A n \in h.members : n < p
  BY <1>1 DEF GroupOK, MembersIn, Published
<1> HIDE DEF g
<1>6. \A j : /\ MembersIn(Contents', j) =
                    IF k = j THEN MembersIn(Contents, j) \cup {p} ELSE MembersIn(Contents, j)
             /\ HeldIn(Contents', j) = HeldIn(Contents, j)
  <2>1. Contents' = Contents \cup {m} /\ m.state = "AVAILABLE"
    BY DEF Published
  <2> TAKE j
  <2> QED
    BY <2>1, NumbersAdd
<1>7. GroupOK(g, Contents', k)
  BY <1>1, <1>3, <1>6 DEF GroupOK, owned
<1>8. freeGroups' = (freeGroups \ Entry(h, k)) \cup Entry(g, k)
  <2>1. CASE h.members = {}
    <3>1. g.members = {p} /\ ~owned(g) /\ Cardinality(g.members) = 1
      BY <1>1, <1>3, <2>1, FS_Singleton DEF GroupOK, owned
    <3> QED
      BY <1>4, <2>1, <3>1 DEF Entry, reFree
  <2>2. CASE h.members # {}
    <3>1. Cardinality(g.members) # 1
      <4>1. PICK n \in h.members : TRUE
        BY <2>2
      <4>2. n # p /\ n \in g.members /\ p \in g.members
        BY <1>1, <1>2, <1>3, <1>5, <4>1
      <4>3. SUFFICES ASSUME Cardinality(g.members) = 1 PROVE FALSE
        OBVIOUS
      <4>4. IsFiniteSet(g.members)
        <5>1. MaxSequence \in Int /\ 1 \in Int
          BY GroupAssumption
        <5>2. IsFiniteSet(1 .. MaxSequence)
          BY <5>1, FS_Interval
        <5>3. g.members \subseteq 1 .. MaxSequence
          BY <1>1, <1>2, <1>3
        <5> QED
          BY <5>2, <5>3, FS_Subset
      <4>5. \E x : g.members = {x}
        BY <4>3, <4>4, FS_Singleton
      <4> QED
        BY <4>2, <4>5
    <3>2. first(g) = first(h)
      <4>1. first(h) \in h.members /\ \A y \in h.members : first(h) <= y
        BY <1>1, <2>2, MinOfNats DEF first
      <4>2. first(h) \in Nat /\ first(h) < p
        BY <1>1, <1>5, <4>1
      <4>3. first(h) \in g.members /\ g.members \subseteq Nat /\ \A y \in g.members : first(h) <= y
        BY <1>1, <1>2, <1>3, <4>1, <4>2
      <4> QED
        BY <4>3, MinIs DEF first
    <3>3. Entry(g, k) = Entry(h, k)
      BY <1>3, <2>2, <3>2 DEF Entry, owned
    <3>4. Entry(h, k) \subseteq freeGroups
      BY <1>1 DEF Books, FreeOf
    <3> QED
      BY <1>4, <3>1, <3>3, <3>4
  <2> QED
    BY <2>1, <2>2
<1>9. GroupStep(k, g)
  BY <1>3, <1>4, <1>6, <1>7, <1>8 DEF GroupStep
<1> QED
  BY <1>3, <1>9

\* Two states with the same fields are the same.
LEMMA SameState ==
    ASSUME NEW g \in GroupState, NEW h \in GroupState,
           g.owner = h.owner, g.acquired = h.acquired, g.members = h.members, g.held = h.held
    PROVE  g = h
BY DEF GroupState

\* acquire() and acquired() keep the books, and replace no owner.
LEMMA AcquiredBooks ==
    ASSUME Named, Sound, Books, NEW c \in Subscriptions, NEW m, TakenBy(c, m)
    PROVE  \E g : /\ GroupStep(m.kind, g) /\ g.owner = AcquiresAs[c]
                  /\ owned(messageGroups[m.kind]) => g.owner = messageGroups[m.kind].owner
<1> PICK h : h = messageGroups[m.kind]
  OBVIOUS
<1> DEFINE k == m.kind
           p == m.sequence
           g == [marked(h, p) EXCEPT !.owner = AcquiresAs[c]]
<1>1. m \in Contents /\ m.state = "AVAILABLE" /\ k \in Kinds
  BY SoundFacts DEF TakenBy
<1>2. Contents' = Without(Contents, m.sequence) \cup {InStateOf(m, "ACQUIRED")}
  BY DEF TakenBy
<1>3. /\ h \in GroupState /\ h.held \subseteq h.members /\ h.members \subseteq 1 .. MaxSequence
      /\ IsFiniteSet(h.held) /\ h.acquired = Cardinality(h.held) /\ h.acquired \in Nat
  BY <1>1, GroupFacts
<1>4. p \in h.members /\ p \notin h.held
  BY <1>1, NumbersOf
<1>5. MembersIn(Contents', k) = h.members /\ HeldIn(Contents', k) = h.held \cup {p}
  BY <1>1, <1>2, NumbersOf
<1>6. /\ mayOwn(h, AcquiresAs[c])
      /\ messageGroups' = [messageGroups EXCEPT ![k] = g]
      /\ freeGroups' = IF owned(h) THEN freeGroups ELSE unFree(freeGroups, k, h)
  BY DEF TakenBy, Acquired
<1>7. /\ g.members = h.members /\ g.held = h.held \cup {p}
      /\ g.acquired = h.acquired + 1 /\ g.owner = AcquiresAs[c] /\ g \in GroupState
  <2>1. AcquiresAs[c] \in {AcquiresAs[d] : d \in Subscriptions}
    OBVIOUS
  <2>2. h.acquired + 1 \in Nat
    BY <1>3
  <2> QED
    BY <1>3, <1>4, <2>1, <2>2 DEF GroupState, marked
<1> HIDE DEF g
<1>8. GroupOK(g, Contents', k)
  <2>1. IsFiniteSet(g.held) /\ Cardinality(g.held) = h.acquired + 1
    BY <1>3, <1>4, <1>7, FS_AddElement
  <2>2. owned(g) /\ g.held # {}
    BY <1>7 DEF owned, Named
  <2> QED
    BY <1>5, <1>7, <2>1, <2>2 DEF GroupOK
<1>9. freeGroups' = (freeGroups \ Entry(h, k)) \cup Entry(g, k)
  <2>1. Entry(g, k) = {}
    BY <1>7 DEF Entry, owned, Named
  <2>2. CASE owned(h)
    BY <1>6, <2>1, <2>2 DEF Entry
  <2>3. CASE ~owned(h)
    <3>1. Entry(h, k) = {<<first(h), k>>}
      BY <1>4, <2>3 DEF Entry
    <3> QED
      BY <1>6, <2>1, <2>3, <3>1 DEF unFree
  <2> QED
    BY <2>2, <2>3
<1>10. GroupStep(k, g)
  BY <1>1, <1>2, <1>6, <1>7, <1>8, <1>9, OtherGroups DEF GroupStep
<1>11. owned(h) => g.owner = h.owner
  BY <1>6, <1>7 DEF mayOwn
<1> QED
  BY <1>7, <1>10, <1>11

\* requeued() keeps the books: it lists the group again when it frees it.
LEMMA RequeuedBooks ==
    ASSUME Sound, Books, NEW c \in Subscriptions, NEW m, GivenBack(c, m)
    PROVE  \E g : /\ GroupStep(m.kind, g)
                  /\ g.owner = messageGroups[m.kind].owner \/ OwnerLeaves(g)
<1> PICK h : h = messageGroups[m.kind]
  OBVIOUS
<1> DEFINE k == m.kind
           p == m.sequence
           w == [h EXCEPT !.held = @ \ {p}, !.acquired = @ - 1]
           g == disowned(w)
<1>1. m \in Contents /\ m.state = "ACQUIRED" /\ k \in Kinds
  BY SoundFacts DEF GivenBack
<1>2. Contents' = Without(Contents, m.sequence) \cup {InStateOf(m, "AVAILABLE")}
  BY DEF GivenBack
<1>3. /\ h \in GroupState /\ h.held \subseteq h.members /\ h.members \subseteq 1 .. MaxSequence
      /\ IsFiniteSet(h.held) /\ h.acquired = Cardinality(h.held) /\ h.acquired \in Nat
      /\ (h.acquired = 0 <=> h.held = {}) /\ (owned(h) <=> h.held # {})
  BY <1>1, GroupFacts
<1>4. p \in h.members /\ p \in h.held
  BY <1>1, NumbersOf
<1>5. MembersIn(Contents', k) = h.members /\ HeldIn(Contents', k) = h.held \ {p}
  BY <1>1, <1>2, NumbersOf
<1>6. /\ messageGroups' = [messageGroups EXCEPT ![k] = g]
      /\ freeGroups' = IF released(w) THEN reFree(freeGroups, k, w) ELSE freeGroups
  BY DEF GivenBack, Requeued
<1>7. /\ w.members = h.members /\ w.held = h.held \ {p}
      /\ w.acquired = h.acquired - 1 /\ w.owner = h.owner /\ w \in GroupState
  <2>1. h.acquired - 1 \in Nat
    BY <1>3, <1>4
  <2> QED
    BY <1>3, <2>1 DEF GroupState
<1> HIDE DEF w
<1>8. /\ IsFiniteSet(w.held) /\ w.acquired = Cardinality(w.held)
      /\ w.acquired = 0 <=> w.held = {}
  <2>1. IsFiniteSet(w.held) /\ Cardinality(w.held) = h.acquired - 1
    BY <1>3, <1>4, <1>7, FS_RemoveElement
  <2> QED
    BY <1>7, <2>1, FS_EmptySet
<1>9. owned(h) /\ owned(w) /\ Entry(h, k) = {}
  BY <1>3, <1>4, <1>7 DEF owned, Entry
<1>10. /\ g.members = w.members /\ g.held = w.held /\ g.acquired = w.acquired /\ g \in GroupState
       /\ g.owner = IF released(w) THEN Nobody ELSE h.owner
  BY <1>7 DEF disowned, GroupState
<1> HIDE DEF g
<1>11. released(w) <=> g.held = {}
  BY <1>8, <1>9, <1>10 DEF released
<1>12. owned(g) <=> ~released(w)
  BY <1>9, <1>10 DEF owned
<1>13. GroupOK(g, Contents', k)
  BY <1>5, <1>7, <1>8, <1>10, <1>11, <1>12 DEF GroupOK
<1>14. freeGroups' = (freeGroups \ Entry(h, k)) \cup Entry(g, k)
  <2>1. Entry(g, k) = IF released(w) THEN {<<first(w), k>>} ELSE {}
    BY <1>4, <1>7, <1>10, <1>12 DEF Entry, first
  <2> QED
    BY <1>6, <1>9, <2>1 DEF reFree
<1>15. GroupStep(k, g)
  BY <1>1, <1>2, <1>6, <1>10, <1>13, <1>14, OtherGroups DEF GroupStep
<1>16. g.owner = h.owner \/ OwnerLeaves(g)
  <2>1. version' = version + 1 /\ version' \in 0 .. MaxVersion /\ version <= version'
    BY SoundFacts DEF GivenBack
  <2> QED
    BY <1>10, <1>11, <2>1 DEF OwnerLeaves
<1> QED
  BY <1>15, <1>16

\* dequeued() of an available message keeps the books, whether or not Queue
\* marked it acquired first: the group moves in freeGroups if it loses its
\* first message.
LEMMA DiscardedBooks ==
    ASSUME Sound, Books, NEW m, Discarded(m)
    PROVE  /\ \E g : GroupStep(m.kind, g) /\ g.owner = messageGroups[m.kind].owner
           /\ version' = version
<1> PICK h : h = messageGroups[m.kind]
  OBVIOUS
<1> DEFINE k == m.kind
           p == m.sequence
           g == [h EXCEPT !.members = @ \ {p}]
<1>1. m \in Contents /\ m.state = "AVAILABLE" /\ k \in Kinds
  BY SoundFacts DEF Discarded
<1>2. Contents' = Without(Contents, m.sequence)
  BY DEF Discarded
<1>3. /\ h \in GroupState /\ h.held \subseteq h.members /\ h.members \subseteq Nat
      /\ IsFiniteSet(h.held) /\ h.acquired = Cardinality(h.held) /\ h.acquired \in Nat
      /\ (h.acquired = 0 <=> h.held = {}) /\ (owned(h) <=> h.held # {})
  BY <1>1, GroupFacts
<1>4. p \in h.members /\ p \notin h.held
  BY <1>1, NumbersOf
<1>5. MembersIn(Contents', k) = h.members \ {p} /\ HeldIn(Contents', k) = h.held
  <2>1. HeldIn(Contents', k) = h.held \ {p} /\ MembersIn(Contents', k) = h.members \ {p}
    BY <1>1, <1>2, NumbersOf
  <2> QED
    BY <1>4, <2>1
<1> PICK f \in {h, marked(h, p)} : Dequeued(k, f, p) /\ ResetCursors(without(f, p))
  BY DEF Discarded
<1>6. /\ f.members = h.members /\ f.owner = h.owner /\ first(f) = first(h) /\ (owned(f) <=> owned(h))
      /\ without(f, p) = g
  <2>1. CASE f = h
    <3>1. without(h, p) = g
      BY <1>3, <1>4 DEF without, GroupState
    <3> QED
      BY <2>1, <3>1
  <2>2. CASE f = marked(h, p)
    <3>1. /\ f.members = h.members /\ f.owner = h.owner
          /\ f.held = h.held \cup {p} /\ f.acquired = h.acquired + 1 /\ f \in GroupState
      <4>1. h.acquired + 1 \in Nat /\ h.held \cup {p} \in SUBSET (1 .. MaxSequence)
        BY <1>1, <1>3, <1>4, GroupFacts
      <4> QED
        BY <1>3, <2>2, <4>1 DEF marked, GroupState
    <3>2. h.held = (h.held \cup {p}) \ {p} /\ (h.acquired + 1) - 1 = h.acquired
      BY <1>3, <1>4
    <3>3. /\ without(f, p) \in GroupState /\ without(f, p).owner = h.owner
          /\ without(f, p).acquired = h.acquired
          /\ without(f, p).members = h.members \ {p} /\ without(f, p).held = h.held
      <4>1. p \in f.held /\ f.members \ {p} = h.members \ {p} /\ f.held \ {p} = h.held
        BY <1>4, <3>1
      <4>2. without(f, p) = [f EXCEPT !.members = f.members \ {p}, !.held = f.held \ {p},
                                      !.acquired = f.acquired - 1]
        BY <4>1 DEF without
      <4>3. f.acquired - 1 = h.acquired /\ h.held \subseteq 1 .. MaxSequence
        BY <1>3, <3>1, <3>2 DEF GroupState
      <4> QED
        BY <1>3, <3>1, <4>1, <4>2, <4>3 DEF GroupState
    <3>4. /\ g \in GroupState /\ g.owner = h.owner /\ g.acquired = h.acquired
          /\ g.members = h.members \ {p} /\ g.held = h.held
      BY <1>3 DEF GroupState
    <3> HIDE DEF g
    <3>5. without(f, p) = g
      BY <3>3, <3>4, SameState
    <3> QED
      BY <3>1, <3>5 DEF first, owned
  <2> QED
    BY <2>1, <2>2
<1>7. /\ g.members = h.members \ {p} /\ g.held = h.held
      /\ g.acquired = h.acquired /\ g.owner = h.owner /\ g \in GroupState
  BY <1>3 DEF GroupState
<1> DEFINE rest == IF ~owned(h) /\ p = first(h) THEN unFree(freeGroups, k, h) ELSE freeGroups
<1>9. /\ messageGroups' = [messageGroups EXCEPT ![k] = IF g.members = {} THEN NoGroup ELSE disowned(g)]
      /\ freeGroups' = IF g.members # {} /\ (released(g) \/ rest # freeGroups)
                       THEN reFree(rest, k, g) ELSE rest
      /\ ResetCursors(g)
  BY <1>6 DEF Dequeued, unFree
<1> HIDE DEF g, rest
<1>10. (owned(g) <=> owned(h)) /\ ~released(g)
  BY <1>3, <1>7 DEF owned, released
<1>11. g.members = {} => g = NoGroup
  <2> HAVE g.members = {}
  <2>1. g.held = {} /\ g.acquired = 0
    BY <1>3, <1>4, <1>7
  <2>2. g.owner = Nobody
    BY <1>3, <1>7, <2>1 DEF owned
  <2> QED
    BY <1>7, <2>1, <2>2 DEF GroupState, NoGroup
<1>12. messageGroups' = [messageGroups EXCEPT ![k] = g] /\ version' = version
  BY <1>9, <1>10, <1>11 DEF disowned, ResetCursors
<1>13. GroupOK(g, Contents', k)
  BY <1>3, <1>5, <1>7, <1>10 DEF GroupOK
<1>14. Entry(h, k) \subseteq freeGroups
  BY <1>1 DEF Books, FreeOf
<1>15. freeGroups' = (freeGroups \ Entry(h, k)) \cup Entry(g, k)
  <2>1. CASE owned(h)
    <3>1. Entry(h, k) = {} /\ Entry(g, k) = {} /\ rest = freeGroups
      BY <1>10, <2>1 DEF Entry, rest
    <3> QED
      BY <1>9, <1>10, <3>1
  <2>2. CASE ~owned(h) /\ p = first(h)
    <3>1. Entry(h, k) = {<<first(h), k>>}
      BY <1>4, <2>2 DEF Entry
    <3>2. rest = freeGroups \ Entry(h, k) /\ rest # freeGroups
      BY <1>14, <2>2, <3>1 DEF rest, unFree
    <3>3. Entry(g, k) = IF g.members # {} THEN {<<first(g), k>>} ELSE {}
      BY <1>10, <2>2 DEF Entry
    <3> QED
      BY <1>9, <3>2, <3>3 DEF reFree
  <2>3. CASE ~owned(h) /\ p # first(h)
    <3>1. rest = freeGroups
      BY <2>3 DEF rest
    <3>2. first(h) \in h.members /\ \A y \in h.members : first(h) <= y
      BY <1>3, <1>4, MinOfNats DEF first
    <3>3. first(h) \in g.members /\ g.members \subseteq Nat /\ \A y \in g.members : first(h) <= y
      BY <1>3, <1>7, <2>3, <3>2
    <3>4. first(g) = first(h)
      BY <3>3, MinIs DEF first
    <3>5. Entry(g, k) = Entry(h, k)
      BY <1>4, <1>10, <2>3, <3>3, <3>4 DEF Entry
    <3> QED
      BY <1>9, <1>10, <1>14, <3>1, <3>5
  <2> QED
    BY <2>1, <2>2, <2>3
<1>16. GroupStep(k, g)
  BY <1>1, <1>2, <1>7, <1>12, <1>13, <1>15, OtherGroups DEF GroupStep
<1> QED
  BY <1>7, <1>12, <1>16

\* dequeued() of an acquired message keeps the books: the group may be set
\* free, and then either it is gone or the cursors are reset.
LEMMA FinishedBooks ==
    ASSUME Sound, Books, NEW c \in Subscriptions, NEW m, Finished(c, m)
    PROVE  \E g : /\ GroupStep(m.kind, g)
                  /\ \/ g.owner = messageGroups[m.kind].owner /\ version' = version
                     \/ OwnerLeaves(g)
<1> PICK h : h = messageGroups[m.kind]
  OBVIOUS
<1> DEFINE k == m.kind
           p == m.sequence
           w == without(h, p)
           g == IF w.members = {} THEN NoGroup ELSE disowned(w)
<1>1. m \in Contents /\ m.state = "ACQUIRED" /\ k \in Kinds
  BY SoundFacts DEF Finished
<1>2. Contents' = Without(Contents, m.sequence)
  BY DEF Finished
<1>3. /\ h \in GroupState /\ h.held \subseteq h.members /\ h.members \subseteq Nat
      /\ IsFiniteSet(h.held) /\ h.acquired = Cardinality(h.held) /\ h.acquired \in Nat
      /\ (h.acquired = 0 <=> h.held = {}) /\ (owned(h) <=> h.held # {})
  BY <1>1, GroupFacts
<1>4. p \in h.members /\ p \in h.held
  BY <1>1, NumbersOf
<1>5. MembersIn(Contents', k) = h.members \ {p} /\ HeldIn(Contents', k) = h.held \ {p}
  BY <1>1, <1>2, NumbersOf
<1>6. /\ w.members = h.members \ {p} /\ w.held = h.held \ {p}
      /\ w.acquired = h.acquired - 1 /\ w.owner = h.owner /\ w \in GroupState
  <2>1. h.acquired - 1 \in Nat
    BY <1>3, <1>4
  <2> QED
    BY <1>3, <1>4, <2>1 DEF GroupState, without
<1>7. owned(h) /\ Entry(h, k) = {}
  BY <1>3, <1>4 DEF Entry
<1>8. /\ messageGroups' = [messageGroups EXCEPT ![k] = g]
      /\ freeGroups' = IF w.members # {} /\ released(w) THEN reFree(freeGroups, k, w) ELSE freeGroups
      /\ ResetCursors(w)
  BY <1>7 DEF Finished, Dequeued
<1> HIDE DEF w
<1>9. /\ IsFiniteSet(w.held) /\ w.acquired = Cardinality(w.held)
      /\ w.acquired = 0 <=> w.held = {}
  <2>1. IsFiniteSet(w.held) /\ Cardinality(w.held) = h.acquired - 1
    <3>1. IsFiniteSet(h.held \ {p}) /\ Cardinality(h.held \ {p}) = Cardinality(h.held) - 1
      BY <1>3, <1>4, FS_RemoveElement
    <3> QED
      BY <1>3, <1>6, <3>1
  <2> QED
    BY <1>6, <2>1, FS_EmptySet
<1>10. owned(w) /\ (released(w) <=> w.held = {})
  BY <1>6, <1>7, <1>9 DEF owned, released
<1>11. w.members = {} => released(w)
  BY <1>3, <1>6, <1>10
<1>12. NoGroup \in GroupState /\ NoGroup.owner = Nobody /\ NoGroup.held = {}
       /\ NoGroup.members = {} /\ NoGroup.acquired = 0
  BY DEF NoGroup, GroupState
<1>13. disowned(w) = IF released(w) THEN [w EXCEPT !.owner = Nobody] ELSE w
  BY DEF disowned
<1>14. /\ g.members = w.members /\ g.held = w.held /\ g.acquired = w.acquired /\ g \in GroupState
       /\ g.owner = IF released(w) THEN Nobody ELSE h.owner
  <2>1. CASE w.members = {}
    <3>1. w.held = {} /\ w.acquired = 0
      BY <1>9, <1>10, <1>11, <2>1
    <3> QED
      BY <1>11, <1>12, <2>1, <3>1
  <2>2. CASE w.members # {}
    BY <1>6, <1>13, <2>2 DEF GroupState
  <2> QED
    BY <2>1, <2>2
<1> HIDE DEF g
<1>15. owned(g) <=> ~released(w)
  BY <1>7, <1>14 DEF owned
<1>16. GroupOK(g, Contents', k)
  BY <1>5, <1>6, <1>9, <1>10, <1>14, <1>15 DEF GroupOK
<1>17. freeGroups' = (freeGroups \ Entry(h, k)) \cup Entry(g, k)
  <2>1. Entry(g, k) = IF w.members # {} /\ released(w) THEN {<<first(w), k>>} ELSE {}
    BY <1>14, <1>15 DEF Entry, first
  <2> QED
    BY <1>7, <1>8, <2>1 DEF reFree
<1>18. GroupStep(k, g)
  BY <1>1, <1>2, <1>8, <1>14, <1>16, <1>17, OtherGroups DEF GroupStep
<1>19. (g.owner = h.owner /\ version' = version) \/ OwnerLeaves(g)
  <2>1. version \in Nat /\ version \in 0 .. MaxVersion /\ MaxVersion \in Nat
    BY SoundFacts, GroupAssumption DEF Sound, TypeOK
  <2>2. CASE w.members # {} /\ released(w)
    <3>1. version' = version + 1 /\ version < MaxVersion
      BY <1>8, <2>2 DEF ResetCursors
    <3>2. version' \in 0 .. MaxVersion /\ version <= version'
      BY <2>1, <3>1
    <3> QED
      BY <1>10, <1>14, <2>2, <3>1, <3>2 DEF OwnerLeaves
  <2>3. CASE w.members = {}
    <3>1. version' = version
      BY <1>8, <2>3 DEF ResetCursors
    <3>2. version' \in 0 .. MaxVersion /\ version <= version'
      BY <2>1, <3>1
    <3> QED
      BY <1>10, <1>11, <1>14, <2>3, <3>2 DEF OwnerLeaves
  <2>4. CASE w.members # {} /\ ~released(w)
    BY <1>8, <1>14, <2>4 DEF ResetCursors
  <2> QED
    BY <2>2, <2>3, <2>4
<1> QED
  BY <1>18, <1>19

----------------------------------------------------------------------------
(* What every step does to the books, the content and the records          *)

\* No owner is replaced by another.
OwnersKept ==
    \A j \in Kinds : owned(messageGroups[j]) =>
        messageGroups'[j].owner = messageGroups[j].owner \/ OwnerLeaves(messageGroups'[j])

\* The books are exact after the step.
BooksKept ==
    /\ Books'
    /\ messageGroups' \in [Kinds -> GroupState]
    /\ freeGroups' \subseteq (1 .. MaxSequence) \X Kinds
    /\ OwnersKept

VersionKept == version' \in 0 .. MaxVersion /\ version <= version'

\* A step of one group keeps the books of all.
LEMMA GroupStepBooks ==
    ASSUME Sound, Books, NEW k \in Kinds, NEW g, GroupStep(k, g),
           owned(messageGroups[k]) => g.owner = messageGroups[k].owner \/ OwnerLeaves(g)
    PROVE  BooksKept /\ messageGroups'[k] = g
<1>1. messageGroups \in [Kinds -> GroupState]
  BY DEF Sound, TypeOK
<1>2. /\ messageGroups' \in [Kinds -> GroupState] /\ messageGroups'[k] = g
      /\ \A j \in Kinds : j # k => messageGroups'[j] = messageGroups[j]
  BY <1>1 DEF GroupStep
<1>3. \A j \in Kinds : GroupOK(messageGroups'[j], Contents', j)
  BY <1>2 DEF GroupStep, Books, GroupOK
<1>4. freeGroups' = FreeOf(messageGroups')
  BY <1>1, FreeChange DEF GroupStep, Books
<1>5. Books'
  BY <1>3, <1>4 DEF Books
<1>6. freeGroups' \subseteq (1 .. MaxSequence) \X Kinds
  <2> SUFFICES ASSUME NEW x \in freeGroups' PROVE x \in (1 .. MaxSequence) \X Kinds
    OBVIOUS
  <2> PICK j \in Kinds : x \in Entry(messageGroups'[j], j)
    BY <1>4 DEF FreeOf
  <2> PICK h : h = messageGroups'[j]
    OBVIOUS
  <2>1. /\ h.members # {} /\ x = <<first(h), j>>
        /\ h.members \subseteq 1 .. MaxSequence /\ h.members \subseteq Nat
    BY <1>2, GroupAssumption DEF Entry, GroupState
  <2>2. first(h) \in h.members
    BY <2>1, MinOfNats DEF first
  <2> QED
    BY <2>1, <2>2
<1>7. OwnersKept
  BY <1>2 DEF OwnersKept
<1> QED
  BY <1>2, <1>5, <1>6, <1>7 DEF BooksKept

\* No step of the queue spoils the manager's books.
LEMMA EffectBooks ==
    ASSUME Named, Sound, Books, Effect
    PROVE  /\ BooksKept /\ VersionKept
           /\ \A c \in Subscriptions : \A m : TakenBy(c, m) =>
                  messageGroups'[m.kind].owner = AcquiresAs[c]
<1>1. version' = version => VersionKept
  BY SoundFacts DEF VersionKept, Sound, TypeOK
<1>2. ASSUME NEW c \in Subscriptions, NEW m, TakenBy(c, m)
      PROVE  BooksKept /\ VersionKept /\ messageGroups'[m.kind].owner = AcquiresAs[c]
  <2>1. version' = version /\ m.kind \in Kinds
    BY <1>2, SoundFacts DEF TakenBy
  <2>2. PICK g : /\ GroupStep(m.kind, g) /\ g.owner = AcquiresAs[c]
                 /\ owned(messageGroups[m.kind]) => g.owner = messageGroups[m.kind].owner
    BY <1>2, AcquiredBooks
  <2>3. BooksKept /\ messageGroups'[m.kind] = g
    BY <2>1, <2>2, GroupStepBooks
  <2> QED
    BY <1>1, <2>1, <2>2, <2>3
<1>3. ASSUME NEW m, Published(m) PROVE BooksKept /\ VersionKept
  <2>1. version' = version /\ m.kind \in Kinds
    BY <1>3 DEF Published
  <2>2. PICK g : /\ GroupStep(m.kind, g)
                 /\ owned(messageGroups[m.kind]) => g.owner = messageGroups[m.kind].owner
    BY <1>3, EnqueuedBooks
  <2>3. BooksKept
    BY <2>1, <2>2, GroupStepBooks
  <2> QED
    BY <1>1, <2>1, <2>3
<1>4. ASSUME NEW m, Discarded(m) PROVE BooksKept /\ VersionKept
  <2>1. m.kind \in Kinds
    BY <1>4, SoundFacts DEF Discarded
  <2>2. PICK g : GroupStep(m.kind, g) /\ g.owner = messageGroups[m.kind].owner
    BY <1>4, DiscardedBooks
  <2>3. BooksKept
    BY <2>1, <2>2, GroupStepBooks
  <2> QED
    BY <1>1, <1>4, <2>3, DiscardedBooks
<1>5. ASSUME NEW c \in Subscriptions, NEW m, Finished(c, m) PROVE BooksKept /\ VersionKept
  <2>1. m.kind \in Kinds
    BY <1>5, SoundFacts DEF Finished
  <2>2. PICK g : /\ GroupStep(m.kind, g)
                 /\ \/ g.owner = messageGroups[m.kind].owner /\ version' = version
                    \/ OwnerLeaves(g)
    BY <1>5, FinishedBooks
  <2>3. BooksKept
    BY <2>1, <2>2, GroupStepBooks
  <2>4. VersionKept
    BY <1>1, <2>2 DEF OwnerLeaves, VersionKept
  <2> QED
    BY <2>3, <2>4
<1>6. ASSUME NEW c \in Subscriptions, NEW m, GivenBack(c, m) PROVE BooksKept /\ VersionKept
  <2>1. m.kind \in Kinds /\ version' \in 0 .. MaxVersion /\ version' = version + 1 /\ version \in Nat
    BY <1>6, SoundFacts DEF GivenBack
  <2>2. PICK g : /\ GroupStep(m.kind, g)
                 /\ g.owner = messageGroups[m.kind].owner \/ OwnerLeaves(g)
    BY <1>6, RequeuedBooks
  <2>3. BooksKept
    BY <2>1, <2>2, GroupStepBooks
  <2> QED
    BY <2>1, <2>3 DEF VersionKept
<1>7. ASSUME Still PROVE BooksKept /\ VersionKept
  <2>1. Books' /\ OwnersKept
    BY <1>7 DEF Still, Books, OwnersKept
  <2>2. /\ messageGroups' \in [Kinds -> GroupState] /\ freeGroups' \subseteq (1 .. MaxSequence) \X Kinds
        /\ version' = version
    BY <1>7 DEF Still, Sound, TypeOK
  <2>3. BooksKept
    BY <2>1, <2>2 DEF BooksKept
  <2> QED
    BY <1>1, <2>2, <2>3
<1>8. BooksKept /\ VersionKept
  BY <1>2, <1>3, <1>4, <1>5, <1>6, <1>7 DEF Effect
<1> QED
  BY <1>2, <1>8

\* Every step leaves numbers that were handed out, in the groups there are.
LEMMA EffectContent ==
    ASSUME Sound, Effect
    PROVE  ContentTyped'
<1>1. \A m \in Contents : m.sequence \in 1 .. MaxSequence /\ m.kind \in Kinds /\ m \in Message
  BY SoundFacts DEF Sound, ContentTyped
<1>2. ASSUME NEW m \in Contents, NEW s PROVE InStateOf(m, s).sequence = m.sequence /\ InStateOf(m, s).kind = m.kind
  BY <1>1 DEF InStateOf, Message
<1>3. ASSUME NEW m, Published(m) PROVE ContentTyped'
  <2>1. Contents' = Contents \cup {m} /\ m.sequence \in 1 .. MaxSequence /\ m.kind \in Kinds
    BY <1>3 DEF Published
  <2> QED
    BY <1>1, <2>1 DEF ContentTyped
<1>4. CASE Still
  BY <1>1, <1>4 DEF ContentTyped, Still
<1>5. ASSUME NEW m, Discarded(m) PROVE ContentTyped'
  BY <1>1, <1>5 DEF Discarded, ContentTyped, Without
<1>6. ASSUME NEW c \in Subscriptions, NEW m, TakenBy(c, m) \/ Finished(c, m) \/ GivenBack(c, m)
      PROVE  ContentTyped'
  <2>1. m \in Contents /\ \A n \in Contents' :
            n \in Contents \/ n = InStateOf(m, "ACQUIRED") \/ n = InStateOf(m, "AVAILABLE")
    BY <1>6 DEF TakenBy, Finished, GivenBack, Without
  <2> QED
    BY <1>1, <1>2, <2>1 DEF ContentTyped
<1> QED
  BY <1>3, <1>4, <1>5, <1>6 DEF Effect

\* While some of a group stays acquired, its owner stays.
LEMMA OwnerStays ==
    ASSUME Named, Sound, Books, BooksKept, NEW c \in Subscriptions, NEW m \in Contents',
           m.state = "ACQUIRED", m.kind \in Kinds, messageGroups[m.kind].owner = AcquiresAs[c]
    PROVE  messageGroups'[m.kind].owner = AcquiresAs[c]
<1>1. GroupOK(messageGroups'[m.kind], Contents', m.kind)
  BY DEF BooksKept, Books
<1>2. m.sequence \in HeldIn(Contents', m.kind)
  BY DEF HeldIn
<1>3. messageGroups'[m.kind].held # {}
  BY <1>1, <1>2 DEF GroupOK
<1>4. owned(messageGroups[m.kind])
  BY DEF owned, Named
<1> QED
  BY <1>3, <1>4 DEF BooksKept, OwnersKept, OwnerLeaves

\* A message that is not acquired is in no records as acquired.
LEMMA FreeHasNoHolder ==
    ASSUME Sound, Held, NEW m \in Contents, m.state = "AVAILABLE", NEW c \in Subscriptions
    PROVE  m.sequence \notin owners[c]
BY SoundFacts DEF Held, RecordsHeld

\* Every step keeps the records true to the queue and to the owners.
LEMMA EffectHeld ==
    ASSUME Named, Sound, Books, Held, Effect
    PROVE  Held'
<1>1. RecordsHeld /\ HeldOnce
  BY DEF Held
<1>2. \A m \in Contents : /\ m \in Message /\ m.kind \in Kinds
                          /\ \A n \in Contents : m.sequence = n.sequence => m = n
  BY SoundFacts
<1>3. BooksKept
  BY EffectBooks
<1>4. ASSUME NEW c \in Subscriptions, NEW m, m \in Contents, m \in Contents', m.state = "ACQUIRED",
             messageGroups[m.kind].owner = AcquiresAs[c]
      PROVE  messageGroups'[m.kind].owner = AcquiresAs[c]
  BY <1>2, <1>3, <1>4, OwnerStays
<1>5. ASSUME NEW s \in {"AVAILABLE", "ACQUIRED"}, NEW m \in Contents
      PROVE  /\ InStateOf(m, s).sequence = m.sequence /\ InStateOf(m, s).state = s
             /\ InStateOf(m, s).kind = m.kind
             /\ Without(Contents, m.sequence) = Contents \ {m}
  BY <1>2 DEF InStateOf, Message, Without
<1>6. ASSUME Contents \subseteq Contents', owners' = owners,
             \A n \in Contents' : n.state = "ACQUIRED" => n \in Contents
      PROVE  Held'
  BY <1>1, <1>4, <1>6 DEF Held, RecordsHeld, HeldOnce
<1>7. CASE Still
  BY <1>6, <1>7 DEF Still
<1>8. ASSUME NEW m, Published(m) PROVE Held'
  <2>1. owners' = owners /\ Contents' = Contents \cup {m} /\ m.state = "AVAILABLE"
    BY <1>8 DEF Published
  <2> QED
    BY <1>6, <2>1
<1>9. ASSUME NEW m, Discarded(m) PROVE Held'
  <2>1. /\ owners' = owners /\ m \in Contents /\ m.state = "AVAILABLE"
        /\ Contents' = Contents \ {m}
    BY <1>5, <1>9 DEF Discarded
  <2>2. RecordsHeld'
    BY <1>1, <1>4, <2>1 DEF RecordsHeld
  <2>3. HeldOnce'
    BY <1>1, <2>1 DEF HeldOnce
  <2> QED
    BY <2>2, <2>3 DEF Held
<1>10. ASSUME NEW c \in Subscriptions, NEW m, TakenBy(c, m) PROVE Held'
  <2> PICK a : a = InStateOf(m, "ACQUIRED")
    OBVIOUS
  <2>1. /\ m \in Contents /\ m.state = "AVAILABLE"
        /\ Contents' = (Contents \ {m}) \cup {a}
        /\ owners' = [owners EXCEPT ![c] = @ \cup {m.sequence}]
    BY <1>5, <1>10 DEF TakenBy
  <2>2. a.sequence = m.sequence /\ a.state = "ACQUIRED" /\ a.kind = m.kind
    BY <1>5, <2>1
  <2>3. \A d \in Subscriptions :
            owners'[d] = IF d = c THEN owners[c] \cup {m.sequence} ELSE owners[d]
    BY <2>1 DEF owners
  <2>4. \A d \in Subscriptions : m.sequence \notin owners[d]
    BY <2>1, FreeHasNoHolder
  <2>5. messageGroups'[a.kind].owner = AcquiresAs[c]
    BY <1>10, <2>2, EffectBooks
  <2>6. RecordsHeld'
    <3> SUFFICES ASSUME NEW d \in Subscriptions, NEW n \in owners'[d]
                 PROVE  \E x \in Contents' : /\ x.sequence = n /\ x.state = "ACQUIRED"
                                             /\ messageGroups'[x.kind].owner = AcquiresAs[d]
      BY DEF RecordsHeld
    <3>1. CASE n \in owners[d]
      <4>1. PICK x \in Contents : /\ x.sequence = n /\ x.state = "ACQUIRED"
                                  /\ messageGroups[x.kind].owner = AcquiresAs[d]
        BY <1>1, <3>1 DEF RecordsHeld
      <4>2. x \in Contents'
        BY <2>1, <4>1
      <4> QED
        BY <1>4, <4>1, <4>2
    <3>2. CASE n \notin owners[d]
      <4>1. d = c /\ n = m.sequence
        BY <2>3, <3>2
      <4> QED
        BY <2>1, <2>2, <2>5, <4>1
    <3> QED
      BY <3>1, <3>2
  <2>7. HeldOnce'
    <3> SUFFICES ASSUME NEW n \in Contents', n.state = "ACQUIRED"
                 PROVE  \E e \in Subscriptions : \A d \in Subscriptions :
                            n.sequence \in owners'[d] <=> d = e
      BY DEF HeldOnce
    <3>1. CASE n = a
      BY <2>2, <2>3, <2>4, <3>1
    <3>2. CASE n # a
      <4>1. n \in Contents /\ n.sequence # m.sequence
        BY <1>2, <2>1, <3>2
      <4> QED
        BY <1>1, <2>3, <4>1 DEF HeldOnce
    <3> QED
      BY <3>1, <3>2
  <2> QED
    BY <2>6, <2>7 DEF Held
<1>11. ASSUME NEW c \in Subscriptions, NEW m, Finished(c, m) \/ GivenBack(c, m)
       PROVE  Held'
  <2>1. /\ m \in Contents /\ m.state = "ACQUIRED" /\ m.sequence \in owners[c]
        /\ owners' = [owners EXCEPT ![c] = @ \ {m.sequence}]
    BY <1>11 DEF Finished, GivenBack
  <2>2. /\ Contents \ {m} \subseteq Contents'
        /\ \A n \in Contents' : n.state = "ACQUIRED" => n \in Contents \ {m}
    <3>1. InStateOf(m, "AVAILABLE").state = "AVAILABLE" /\ Without(Contents, m.sequence) = Contents \ {m}
      BY <1>5, <2>1
    <3> QED
      BY <1>11, <3>1 DEF Finished, GivenBack
  <2>3. \A d \in Subscriptions :
            owners'[d] = IF d = c THEN owners[c] \ {m.sequence} ELSE owners[d]
    BY <2>1 DEF owners
  <2>4. \A d \in Subscriptions : m.sequence \in owners[d] => d = c
    BY <1>1, <2>1 DEF HeldOnce
  <2>5. \A d \in Subscriptions : m.sequence \notin owners'[d] /\ owners'[d] \subseteq owners[d]
    BY <2>3, <2>4
  <2>6. RecordsHeld'
    BY <1>1, <1>4, <2>2, <2>5 DEF RecordsHeld
  <2>7. HeldOnce'
    <3> SUFFICES ASSUME NEW n \in Contents', n.state = "ACQUIRED"
                 PROVE  \E e \in Subscriptions : \A d \in Subscriptions :
                            n.sequence \in owners'[d] <=> d = e
      BY DEF HeldOnce
    <3>1. n \in Contents /\ n.sequence # m.sequence
      BY <1>2, <2>1, <2>2
    <3> QED
      BY <1>1, <2>3, <3>1 DEF HeldOnce
  <2> QED
    BY <2>6, <2>7 DEF Held
<1> QED
  BY <1>7, <1>8, <1>9, <1>10, <1>11 DEF Effect

----------------------------------------------------------------------------
(* No group is skipped                                                     *)

\* A group that is not a consumer's own stays so while messages of it are
\* available, or every consumer starts over.
LEMMA StillBlocked ==
    ASSUME Sound', BooksKept, NEW i \in available(messages'), NEW name,
           messages'[i].kind \in Kinds, ~mayOwn(messageGroups[messages'[i].kind], name),
           version' # version + 1
    PROVE  ~mayOwn(messageGroups'[messages'[i].kind], name)
<1> PICK k \in Kinds : k = messages'[i].kind
  OBVIOUS
<1>1. owned(messageGroups[k]) /\ messageGroups[k].owner # name
  BY DEF mayOwn
<1>2. messages'[i] \in Contents'
  BY DEF available, Contents, Content, Live
<1>3. messages'[i].sequence \in MembersIn(Contents', k)
  BY <1>2 DEF MembersIn
<1>4. messageGroups'[k].members # {}
  BY <1>3 DEF BooksKept, Books, GroupOK
<1>5. messageGroups'[k].owner = messageGroups[k].owner
  BY <1>1, <1>4 DEF BooksKept, OwnersKept, OwnerLeaves
<1> QED
  BY <1>1, <1>5 DEF mayOwn, owned

\* Releasing a message, or setting a group free, makes every consumer start over.
LEMMA AllReset ==
    ASSUME Sound, version' = version + 1, NEW d \in Subscriptions, TypeOf[d] = "CONSUMER"
    PROVE  reset(cursor[d], version')
<1>1. cursor[d].type = "CONSUMER" /\ cursor[d].version \in Nat /\ version \in Nat
  BY SoundFacts DEF QueueCursor
<1>2. cursor[d].valid => cursor[d].version <= version
  BY DEF Sound, CursorsBehind
<1> QED
  BY <1>1, <1>2 DEF reset

\* A step that moves no cursor: what becomes available is ahead of the cursors,
\* or they are reset.
LEMMA QuietSkips ==
    ASSUME IInv, Sound', BooksKept, cursor' = cursor, version' = version \/ version' = version + 1,
           version' = version =>
               \A i \in available(messages') :
                   \/ \E j \in available(messages) : SameMessage(messages'[i], messages[j])
                   \/ messages'[i].sequence > sequence
    PROVE  NoGroupSkipped'
<1> SUFFICES ASSUME NEW d \in Subscriptions, TypeOf[d] = "CONSUMER", ~reset(cursor[d], version'),
                    NEW i \in available(messages'), messages'[i].sequence <= cursor[d].position
             PROVE  ~mayOwn(messageGroups'[messages'[i].kind], AcquiresAs[d])
  BY DEF NoGroupSkipped
<1>1. Sound /\ version \in Nat
  BY SoundFacts DEF IInv
<1>2. version' = version
  BY <1>1, AllReset
<1>3. cursor[d].position \in Int /\ sequence \in Nat /\ cursor[d].position <= sequence
  BY <1>1, <1>2, SoundFacts DEF Sound, CursorsBehind, reset, QueueCursor
<1>4. messages'[i] \in Contents' /\ messages'[i].sequence \in Nat /\ messages'[i].kind \in Kinds
  <2>1. messages'[i] \in Contents'
    BY DEF available, Contents, Content, Live
  <2>2. messages'[i].sequence \in 1 .. MaxSequence /\ messages'[i].kind \in Kinds
    BY <2>1 DEF Sound, ContentTyped
  <2> QED
    BY <2>1, <2>2, GroupAssumption
<1>5. PICK j \in available(messages) : SameMessage(messages'[i], messages[j])
  BY <1>2, <1>3, <1>4
<1>6. ~mayOwn(messageGroups[messages[j].kind], AcquiresAs[d])
  BY <1>2, <1>5 DEF IInv, NoGroupSkipped, SameMessage
<1>7. version' # version + 1
  BY <1>1, <1>2
<1> QED
  BY <1>4, <1>5, <1>6, <1>7, StillBlocked DEF SameMessage

\* When next() has moved the cursor of a consumer, the message it returned is
\* the only one behind the cursor that the consumer may acquire.
LEMMA AdvancePassed ==
    ASSUME IInv, NEW c \in Subscriptions, TypeOf[c] = "CONSUMER", Advance(c)
    PROVE  \A i \in available(messages) :
               messages[i].sequence <= cursor'[c].position /\ i # NextFor(c) =>
                   ~mayOwn(messageGroups[messages[i].kind], AcquiresAs[c])
<1> DEFINE cur == cursor[c]
           n == next(messages, version, cur)
<1>1. /\ messages \in Seq(Message) /\ Consecutive(messages) /\ version \in Nat
      /\ cur \in QueueCursor /\ cur.type = "CONSUMER"
  BY SoundFacts DEF IInv
<1>2. cursor'[c] = nextCursor(messages, version, cur)
  BY DEF Advance, IInv, Sound, TypeOK
<1>3. candidates(messages, version, cur) =
          {i \in DOMAIN messages :
              check(cur, messages[i]) /\ (reset(cur, version) \/ messages[i].sequence > cur.position)}
  BY <1>1, CandidatesByPosition
<1> SUFFICES ASSUME NEW i \in available(messages),
                    messages[i].sequence <= cursor'[c].position, i # NextFor(c)
             PROVE  ~mayOwn(messageGroups[messages[i].kind], AcquiresAs[c])
  OBVIOUS
<1>4. i \in DOMAIN messages /\ check(cur, messages[i]) /\ messages[i].sequence \in Nat /\ cur.position \in Int
  BY <1>1, DequeProperties DEF available, check, QueueCursor
<1>5. i \notin candidates(messages, version, cur) =>
          ~mayOwn(messageGroups[messages[i].kind], AcquiresAs[c])
  <2> HAVE i \notin candidates(messages, version, cur)
  <2>1. ~reset(cur, version) /\ messages[i].sequence <= cur.position
    BY <1>3, <1>4
  <2> QED
    BY <2>1 DEF IInv, NoGroupSkipped
<1>6. CASE n = 0
  BY <1>1, <1>5, <1>6, NextProperties
<1>7. CASE n # 0
  <2>1. /\ n \in DOMAIN messages
        /\ \A j \in candidates(messages, version, cur) : n <= j
        /\ cursor'[c] = setPosition(cur, messages[n].sequence, version)
    BY <1>1, <1>2, <1>7, NextProperties
  <2>2. messages[i].sequence <= messages[n].sequence
    BY <2>1 DEF setPosition
  <2>3. i <= n /\ i # n
    <3>1. DOMAIN messages = 1 .. Len(messages) /\ Len(messages) \in Nat /\ front(messages) \in Nat
      BY <1>1, <1>4, DequeProperties DEF front
    <3>2. messages[i].sequence = front(messages) + i - 1 /\ messages[n].sequence = front(messages) + n - 1
      BY <1>1, <1>4, <2>1 DEF Consecutive
    <3> QED
      BY <1>4, <2>1, <2>2, <3>1, <3>2 DEF NextFor
  <2>4. i \notin candidates(messages, version, cur)
    <3>1. i \in Int /\ n \in Int
      BY <1>1, <1>4, <2>1, DequeProperties
    <3> QED
      BY <2>1, <2>3, <3>1
  <2> QED
    BY <1>5, <2>4
<1> QED
  BY <1>6, <1>7

\* A step of c that moves its cursor and disposes of the message it was shown:
\* takes it, removes it, or may not have it.
LEMMA GetSkips ==
    ASSUME IInv, Sound', BooksKept, NEW c \in Subscriptions, Advance(c), version' = version,
           AvailableFrom(messages', messages),
           TypeOf[c] = "CONSUMER" /\ NextFor(c) # 0 =>
               \/ ~mayOwn(messageGroups[messages[NextFor(c)].kind], AcquiresAs[c])
               \/ \A i \in available(messages') :
                      messages'[i].sequence # messages[NextFor(c)].sequence
    PROVE  NoGroupSkipped'
<1> SUFFICES ASSUME NEW d \in Subscriptions, TypeOf[d] = "CONSUMER", ~reset(cursor'[d], version),
                    NEW i \in available(messages'), messages'[i].sequence <= cursor'[d].position
             PROVE  ~mayOwn(messageGroups'[messages'[i].kind], AcquiresAs[d])
  BY DEF NoGroupSkipped
<1>1. version' # version + 1
  BY SoundFacts DEF IInv
<1>2. messages'[i].kind \in Kinds
  <2>1. messages'[i] \in Contents'
    BY DEF available, Contents, Content, Live
  <2> QED
    BY <2>1 DEF Sound, ContentTyped
<1>3. PICK j \in available(messages) : SameMessage(messages'[i], messages[j])
  BY DEF AvailableFrom
<1>4. ~mayOwn(messageGroups[messages[j].kind], AcquiresAs[d])
  <2>1. CASE d # c
    <3>1. cursor'[d] = cursor[d]
      BY <2>1 DEF Advance, IInv, Sound, TypeOK
    <3> QED
      BY <1>3, <3>1 DEF IInv, NoGroupSkipped, SameMessage
  <2>2. CASE d = c /\ j = NextFor(c)
    <3>1. j # 0
      BY <1>3, SoundFacts, DequeProperties DEF IInv, available
    <3> QED
      BY <1>3, <2>2, <3>1 DEF SameMessage
  <2>3. CASE d = c /\ j # NextFor(c)
    BY <1>3, <2>3, AdvancePassed DEF SameMessage
  <2> QED
    BY <2>1, <2>2, <2>3
<1> QED
  BY <1>1, <1>2, <1>3, <1>4, StillBlocked DEF SameMessage

----------------------------------------------------------------------------
(* Every action has one of the six effects, and keeps IInv                 *)

DeliveryRecord == [position : 1 .. MaxSequence, acquired : BOOLEAN]

\* The records of a subscription after one has ended.
LEMMA TakenWithout ==
    ASSUME NEW R \in SUBSET DeliveryRecord, NEW r \in DeliveryRecord
    PROVE  /\ r.acquired => Taken(R \ {r}) = Taken(R) \ {r.position}
           /\ ~r.acquired => Taken(R \ {r}) = Taken(R)
<1>1. \A x \in DeliveryRecord : x.acquired /\ r.acquired /\ x.position = r.position => x = r
  BY DEF DeliveryRecord
<1>2. ASSUME r.acquired PROVE Taken(R \ {r}) = Taken(R) \ {r.position}
  BY <1>1, <1>2 DEF Taken
<1>3. ASSUME ~r.acquired PROVE Taken(R \ {r}) = Taken(R)
  BY <1>3 DEF Taken
<1> QED
  BY <1>2, <1>3

\* The records of a subscription after one has been added.
LEMMA TakenWith ==
    ASSUME NEW R, NEW r
    PROVE  /\ r.acquired => Taken(R \cup {r}) = Taken(R) \cup {r.position}
           /\ ~r.acquired => Taken(R \cup {r}) = Taken(R)
BY DEF Taken

\* What owners becomes when the records of c become R.
LEMMA OwnersChange ==
    ASSUME Sound, NEW c \in Subscriptions, NEW R \in SUBSET DeliveryRecord,
           unacked' = [unacked EXCEPT ![c] = R], NEW T, T = Taken(R)
    PROVE  /\ unacked' \in [Subscriptions -> SUBSET DeliveryRecord]
           /\ owners' = [owners EXCEPT ![c] = T]
           /\ T = owners[c] => owners' = owners
<1>1. unacked \in [Subscriptions -> SUBSET DeliveryRecord]
  BY DEF Sound, TypeOK, DeliveryRecord
<1>2. /\ unacked' \in [Subscriptions -> SUBSET DeliveryRecord]
      /\ \A d \in Subscriptions : unacked'[d] = IF d = c THEN R ELSE unacked[d]
  BY <1>1
<1>3. owners' = [d \in Subscriptions |-> Taken(unacked'[d])]
  BY DEF owners
<1>4. \A d \in Subscriptions : Taken(unacked'[d]) = IF d = c THEN T ELSE owners[d]
  BY <1>2 DEF owners
<1>5. owners' = [d \in Subscriptions |-> IF d = c THEN T ELSE owners[d]]
  BY <1>3, <1>4
<1> QED
  BY <1>2, <1>5 DEF owners

\* The parts of Sound an action shows of its own; the effect gives the rest.
QueueKept ==
    /\ DequeOK(messages', sequence')
    /\ cursor' \in [Subscriptions -> QueueCursor]
    /\ CursorsBehind'
    /\ unacked' \in [Subscriptions -> SUBSET DeliveryRecord]

LEMMA SoundStep ==
    ASSUME Named, Sound, Books, Effect, QueueKept
    PROVE  Sound' /\ BooksKept
<1>1. BooksKept /\ VersionKept /\ ContentTyped'
  BY EffectBooks, EffectContent
<1>2. sequence' \in 0 .. MaxSequence
  <2>1. sequence' = sequence \/ sequence' \in 1 .. MaxSequence
    BY DEF Effect, Still, Published, Discarded, TakenBy, Finished, GivenBack
  <2> QED
    BY <2>1 DEF Sound, TypeOK
<1>3. TypeOK'
  BY <1>1, <1>2 DEF TypeOK, QueueKept, BooksKept, VersionKept, DeliveryRecord, DequeOK
<1>4. DequeOK(messages, sequence)'
  BY DEF QueueKept
<1> QED
  BY <1>1, <1>3, <1>4 DEF Sound, QueueKept

\* The message getNextMessage looks at is available; it is the one messages
\* has at its number.
LEMMA NextForFacts ==
    ASSUME Sound, NEW c \in Subscriptions, NextFor(c) # 0
    PROVE  /\ NextFor(c) \in Live(messages) /\ NextFor(c) \in DOMAIN messages
           /\ messages[NextFor(c)] \in Contents
           /\ messages[NextFor(c)].state = "AVAILABLE"
<1>1. NextFor(c) \in DOMAIN messages /\ check(cursor[c], messages[NextFor(c)])
  BY SoundFacts, NextProperties DEF NextFor
<1>2. cursor[c].type \in {"CONSUMER", "BROWSER"}
  BY SoundFacts, GroupAssumption
<1>3. messages[NextFor(c)].state = "AVAILABLE" /\ NextFor(c) \in Live(messages)
  BY <1>1, <1>2 DEF check, Live
<1> QED
  BY <1>1, <1>3, SoundFacts

\* Moving a cursor over the queue leaves it a cursor, at a message that exists.
LEMMA AdvanceOK ==
    ASSUME Sound, NEW c \in Subscriptions, Advance(c), sequence' = sequence, version' = version
    PROVE  cursor' \in [Subscriptions -> QueueCursor] /\ CursorsBehind'
<1> DEFINE cur == nextCursor(messages, version, cursor[c])
<1>1. /\ cur \in QueueCursor
      /\ cur.type = TypeOf[c]
      /\ \/ cur = cursor[c]
         \/ cur.version = version /\ \E i \in Live(messages) : cur.position = messages[i].sequence
  BY SoundFacts, NextCursorType
<1>2. cursor' = [cursor EXCEPT ![c] = cur] /\ cursor \in [Subscriptions -> QueueCursor]
  BY DEF Advance, Sound, TypeOK
<1> HIDE DEF cur
<1>3. /\ cursor' \in [Subscriptions -> QueueCursor]
      /\ \A d \in Subscriptions : cursor'[d] = IF d = c THEN cur ELSE cursor[d]
  BY <1>1, <1>2
<1>4. \A d \in Subscriptions : cursor'[d].type = TypeOf[d]
  BY <1>1, <1>3, SoundFacts
<1>5. cur.version = version /\ (\E i \in Live(messages) : cur.position = messages[i].sequence)
        => cur.position <= sequence /\ cur.version <= version
  BY SoundFacts DEF DequeOK
<1>6. ASSUME NEW d \in Subscriptions, TypeOf[d] = "CONSUMER", cursor'[d].valid
      PROVE  cursor'[d].position <= sequence /\ cursor'[d].version <= version
  <2>1. CASE cursor'[d] = cursor[d]
    BY <1>6, <2>1 DEF Sound, CursorsBehind
  <2>2. CASE cursor'[d] # cursor[d]
    BY <1>1, <1>3, <1>5, <2>2
  <2> QED
    BY <2>1, <2>2
<1> QED
  BY <1>3, <1>4, <1>6 DEF CursorsBehind

\* Cursors that do not move stay behind numbers that do not shrink.
LEMMA CursorsStay ==
    ASSUME Sound, cursor' = cursor, sequence' = sequence \/ sequence' = sequence + 1,
           version <= version', version' \in Nat
    PROVE  cursor' \in [Subscriptions -> QueueCursor] /\ CursorsBehind'
<1>1. cursor' \in [Subscriptions -> QueueCursor]
  BY DEF Sound, TypeOK
<1>2. ASSUME NEW d \in Subscriptions, TypeOf[d] = "CONSUMER", cursor[d].valid
      PROVE  cursor[d].position <= sequence' /\ cursor[d].version <= version'
  <2>1. cursor[d].position <= sequence /\ cursor[d].version <= version
    BY <1>2 DEF Sound, CursorsBehind
  <2>2. cursor[d].position \in Int /\ cursor[d].version \in Nat /\ sequence \in Nat /\ version \in Nat
    BY SoundFacts DEF QueueCursor
  <2> QED
    BY <2>1, <2>2
<1>3. \A d \in Subscriptions : cursor[d].type = TypeOf[d]
  BY SoundFacts
<1> QED
  BY <1>1, <1>2, <1>3 DEF CursorsBehind

\* Publishing keeps IInv: the message goes in front of every cursor.
LEMMA PublishKeeps ==
    ASSUME Named, IInv, NEW k \in Kinds, Publish(k)
    PROVE  IInv'
<1> DEFINE m == [sequence |-> sequence + 1, state |-> "AVAILABLE", kind |-> k]
<1>1. /\ Sound /\ Books /\ Held /\ sequence \in Nat /\ version \in Nat /\ sequence < MaxSequence
      /\ messages \in Seq(Message) /\ Consecutive(messages) /\ DequeOK(messages, sequence)
  BY SoundFacts DEF IInv, Publish
<1>2. /\ messages' = publish(messages, sequence + 1, k) /\ sequence' = sequence + 1
      /\ Enqueued(k, sequence + 1)
      /\ version' = version /\ cursor' = cursor /\ unacked' = unacked
  BY DEF Publish
<1>3. \A n \in Contents : n.sequence < sequence + 1
  BY <1>1, SoundFacts
<1>4. \A i \in Live(messages) : messages[i].sequence < sequence + 1
  BY <1>1, <1>3, SoundFacts
<1>5. sequence + 1 \in Nat
  BY <1>1
<1>6. Content(publish(messages, sequence + 1, k)) = Content(messages) \cup {m}
  BY <1>1, <1>4, <1>5, PublishContent
<1>7. /\ m \in Message /\ m.state = "AVAILABLE" /\ m.kind = k
      /\ m.sequence = sequence + 1
  BY <1>5 DEF Message, MessageStates
<1>8. sequence' \in 1 .. MaxSequence
  BY <1>1, <1>2, GroupAssumption
<1>9. \A i \in DOMAIN messages' :
          \/ messages'[i].state = "DELETED" \/ messages'[i] = m
          \/ \E j \in DOMAIN messages : messages'[i] = messages[j]
  BY <1>1, <1>2, <1>4, <1>5, PublishProperties
<1> HIDE DEF m
<1>10. Contents' = Contents \cup {m} /\ owners' = owners
  BY <1>2, <1>6 DEF Contents, owners
<1>11. Effect
  <2>1. Published(m)
    BY <1>2, <1>3, <1>7, <1>8, <1>10 DEF Published
  <2> QED
    BY <2>1 DEF Effect
<1>12. QueueKept
  <2>1. DequeOK(messages', sequence')
    BY <1>1, <1>2, PublishOK
  <2>2. cursor' \in [Subscriptions -> QueueCursor] /\ CursorsBehind'
    BY <1>1, <1>2, CursorsStay
  <2>3. unacked' \in [Subscriptions -> SUBSET DeliveryRecord]
    BY <1>1, <1>2 DEF Sound, TypeOK, DeliveryRecord
  <2> QED
    BY <2>1, <2>2, <2>3 DEF QueueKept
<1>13. Sound' /\ BooksKept
  BY <1>1, <1>11, <1>12, SoundStep
<1>14. Held'
  BY <1>1, <1>11, EffectHeld
<1>15. NoGroupSkipped'
  <2>1. \A i \in available(messages') :
            \/ \E j \in available(messages) : SameMessage(messages'[i], messages[j])
            \/ messages'[i].sequence > sequence
    <3> TAKE i \in available(messages')
    <3>1. CASE messages'[i] = m
      BY <1>1, <1>7, <3>1
    <3>2. CASE messages'[i] # m
      BY <1>9, <3>2 DEF available, SameMessage
    <3> QED
      BY <3>1, <3>2
  <2> QED
    BY <1>2, <1>13, <2>1, QuietSkips
<1> QED
  BY <1>13, <1>14, <1>15 DEF IInv, BooksKept

\* What is left to show of a step of getNextMessage.
LEMMA GetKeeps ==
    ASSUME Named, IInv, NEW c \in Subscriptions, Effect, Advance(c),
           sequence' = sequence, version' = version,
           DequeOK(messages', sequence), unacked' \in [Subscriptions -> SUBSET DeliveryRecord],
           AvailableFrom(messages', messages),
           TypeOf[c] = "CONSUMER" /\ NextFor(c) # 0 =>
               \/ ~mayOwn(messageGroups[messages[NextFor(c)].kind], AcquiresAs[c])
               \/ \A i \in available(messages') :
                      messages'[i].sequence # messages[NextFor(c)].sequence
    PROVE  IInv'
<1>1. Sound /\ Books /\ Held
  BY DEF IInv
<1>2. cursor' \in [Subscriptions -> QueueCursor] /\ CursorsBehind'
  BY <1>1, AdvanceOK
<1>3. QueueKept
  BY <1>2 DEF QueueKept
<1>4. Sound' /\ BooksKept
  BY <1>1, <1>3, SoundStep
<1>5. Held'
  BY <1>1, EffectHeld
<1>6. NoGroupSkipped'
  BY <1>4, GetSkips
<1> QED
  BY <1>4, <1>5, <1>6 DEF IInv, BooksKept

\* An expired message is removed, whoever was looking at it.
LEMMA GetExpiredKeeps ==
    ASSUME Named, IInv, NEW c \in Subscriptions, GetExpired(c)
    PROVE  IInv'
<1> PICK m : m = messages[NextFor(c)]
  OBVIOUS
<1>1. /\ Sound /\ Books /\ messages \in Seq(Message) /\ Consecutive(messages)
      /\ DequeOK(messages, sequence) /\ sequence \in Nat
  BY SoundFacts DEF IInv
<1>2. NextFor(c) # 0 /\ m \in Contents /\ m.state = "AVAILABLE" /\ m.sequence \in Nat
  BY <1>1, NextForFacts, SoundFacts DEF GetExpired
<1>3. /\ Advance(c) /\ messages' = deleted(messages, m.sequence)
      /\ Dequeued(m.kind, messageGroups[m.kind], m.sequence)
      /\ ResetCursors(without(messageGroups[m.kind], m.sequence))
      /\ sequence' = sequence /\ unacked' = unacked
  BY DEF GetExpired
<1>4. Contents' = Without(Contents, m.sequence) /\ owners' = owners
  <2>1. m.sequence \in Int
    BY <1>2
  <2> QED
    BY <1>1, <1>3, <2>1, DeletedContent DEF Contents, owners
<1>5. Discarded(m)
  BY <1>2, <1>3, <1>4 DEF Discarded
<1>6. Effect /\ version' = version
  BY <1>1, <1>5, DiscardedBooks DEF Effect
<1>7. DequeOK(messages', sequence) /\ AvailableFrom(messages', messages)
  BY <1>1, <1>2, <1>3, DeletedOK, DeletedFewer
<1>8. \A i \in available(messages') : messages'[i].sequence # m.sequence
  <2>1. m.sequence \in Int
    BY <1>2
  <2>2. \A i \in DOMAIN messages' : \E j \in DOMAIN messages :
            /\ SameMessage(messages'[i], messages[j])
            /\ \/ messages'[i].state = "DELETED"
               \/ messages'[i].state = messages[j].state /\ messages[j].sequence # m.sequence
    BY <1>1, <1>3, <2>1, DeletedProperties
  <2> QED
    BY <2>2 DEF available, SameMessage
<1>9. unacked' \in [Subscriptions -> SUBSET DeliveryRecord]
  BY <1>1, <1>3 DEF Sound, TypeOK, DeliveryRecord
<1> QED
  BY <1>3, <1>6, <1>7, <1>8, <1>9, GetKeeps

\* A consumer takes a message of a group that is free or its own.
LEMMA GetMessageKeeps ==
    ASSUME Named, IInv, NEW c \in Subscriptions, GetMessage(c)
    PROVE  IInv'
<1> PICK n : n = NextFor(c)
  OBVIOUS
<1> PICK m : m = messages[n]
  OBVIOUS
<1>0. PICK r : r = [position |-> m.sequence, acquired |-> TRUE]
  OBVIOUS
<1>1. /\ Sound /\ Books /\ messages \in Seq(Message) /\ Consecutive(messages)
      /\ DequeOK(messages, sequence) /\ sequence \in Nat
  BY SoundFacts DEF IInv
<1>2. /\ n # 0 /\ n \in Live(messages) /\ n \in DOMAIN messages
      /\ m \in Contents /\ m.state = "AVAILABLE" /\ m.sequence \in 1 .. MaxSequence
  BY <1>1, NextForFacts DEF GetMessage, Sound, ContentTyped
<1>3. /\ Advance(c) /\ messages' = acquire(messages, n)
      /\ Acquired(m.kind, m.sequence, AcquiresAs[c])
      /\ unacked' = [unacked EXCEPT ![c] = unacked[c] \cup {r}]
      /\ sequence' = sequence /\ version' = version
  BY <1>0 DEF GetMessage
<1>4. Contents' = Without(Contents, m.sequence) \cup {InStateOf(m, "ACQUIRED")}
  BY <1>1, <1>2, <1>3, AcquireContent DEF Contents
<1>5. /\ unacked' \in [Subscriptions -> SUBSET DeliveryRecord]
      /\ owners' = [owners EXCEPT ![c] = @ \cup {m.sequence}]
  <2>1. r \in DeliveryRecord /\ r.acquired /\ r.position = m.sequence
    BY <1>0, <1>2 DEF DeliveryRecord
  <2>2. unacked[c] \in SUBSET DeliveryRecord
    BY <1>1 DEF Sound, TypeOK, DeliveryRecord
  <2>3. PICK S, T : S = unacked[c] \cup {r} /\ T = owners[c] \cup {m.sequence}
    OBVIOUS
  <2>4. S \in SUBSET DeliveryRecord
    BY <2>1, <2>2, <2>3
  <2>5. T = Taken(S)
    <3>1. Taken(unacked[c] \cup {r}) = Taken(unacked[c]) \cup {r.position}
      BY <2>1, TakenWith
    <3> QED
      BY <2>1, <2>3, <3>1 DEF owners
  <2>6. unacked' \in [Subscriptions -> SUBSET DeliveryRecord] /\ owners' = [owners EXCEPT ![c] = T]
    BY <1>1, <1>3, <2>3, <2>4, <2>5, OwnersChange
  <2> QED
    BY <2>3, <2>6
<1>6. Effect
  <2>1. TakenBy(c, m)
    BY <1>2, <1>3, <1>4, <1>5 DEF TakenBy
  <2> QED
    BY <2>1 DEF Effect
<1>7. DequeOK(messages', sequence) /\ AvailableFrom(messages', messages)
  BY <1>1, <1>2, <1>3, AcquireOK, AcquireFewer
<1>8. \A i \in available(messages') : messages'[i].sequence # m.sequence
  <2>1. /\ DOMAIN messages' = DOMAIN messages
        /\ \A i \in DOMAIN messages :
               /\ SameMessage(messages'[i], messages[i])
               /\ messages'[i].state = IF i = n THEN "ACQUIRED" ELSE messages[i].state
    BY <1>1, <1>2, <1>3, AcquireProperties
  <2> TAKE i \in available(messages')
  <2>2. i \in DOMAIN messages /\ i # n
    BY <2>1 DEF available
  <2> QED
    BY <1>1, <1>2, <2>1, <2>2, SameNumber DEF SameMessage
<1> QED
  BY <1>3, <1>5, <1>6, <1>7, <1>8, GetKeeps

\* A message of another consumer's group is passed, a browser is shown one, or
\* there is none: nothing changes hands.
LEMMA GetOtherKeeps ==
    ASSUME Named, IInv, NEW c \in Subscriptions, GetBlocked(c) \/ GetShown(c) \/ GetNothing(c)
    PROVE  IInv'
<1>1. /\ Sound /\ Books /\ messages \in Seq(Message) /\ Consecutive(messages)
      /\ DequeOK(messages, sequence) /\ sequence \in Nat
  BY SoundFacts DEF IInv
<1>2. /\ Advance(c) /\ messages' = messages /\ sequence' = sequence /\ version' = version
      /\ messageGroups' = messageGroups /\ freeGroups' = freeGroups
  BY DEF GetBlocked, GetShown, GetNothing
<1>3. unacked' \in [Subscriptions -> SUBSET DeliveryRecord] /\ owners' = owners
  <2>1. unacked \in [Subscriptions -> SUBSET DeliveryRecord]
    BY <1>1 DEF Sound, TypeOK, DeliveryRecord
  <2>2. CASE unacked' = unacked
    BY <2>1, <2>2 DEF owners
  <2>3. CASE GetShown(c)
    <3> PICK r : r = [position |-> messages[NextFor(c)].sequence, acquired |-> FALSE]
      OBVIOUS
    <3>1. unacked' = [unacked EXCEPT ![c] = unacked[c] \cup {r}] /\ NextFor(c) # 0
      BY <2>3 DEF GetShown
    <3>2. r \in DeliveryRecord /\ ~r.acquired
      BY <1>1, <3>1, NextForFacts DEF DeliveryRecord, Sound, ContentTyped
    <3>3. unacked[c] \cup {r} \in SUBSET DeliveryRecord
      BY <2>1, <3>2
    <3>4. Taken(unacked[c] \cup {r}) = owners[c]
      BY <3>2, TakenWith DEF owners
    <3> QED
      BY <1>1, <3>1, <3>3, <3>4, OwnersChange
  <2> QED
    BY <2>2, <2>3 DEF GetBlocked, GetNothing
<1>4. Effect
  BY <1>2, <1>3 DEF Effect, Still, Contents
<1>5. AvailableFrom(messages', messages)
  BY <1>2 DEF AvailableFrom, SameMessage
<1>6. TypeOf[c] = "CONSUMER" /\ NextFor(c) # 0 =>
          ~mayOwn(messageGroups[messages[NextFor(c)].kind], AcquiresAs[c])
  BY DEF GetBlocked, GetShown, GetNothing
<1> QED
  BY <1>1, <1>2, <1>3, <1>4, <1>5, <1>6, GetKeeps

\* What is left to show of a step that moves no cursor.
LEMMA SettleKeeps ==
    ASSUME Named, IInv, Effect, cursor' = cursor, sequence' = sequence,
           version' = version \/ version' = version + 1,
           DequeOK(messages', sequence), unacked' \in [Subscriptions -> SUBSET DeliveryRecord],
           version' = version => AvailableFrom(messages', messages)
    PROVE  IInv'
<1>1. Sound /\ Books /\ Held
  BY DEF IInv
<1>2. version <= version' /\ version' \in Nat
  BY <1>1, SoundFacts
<1>3. cursor' \in [Subscriptions -> QueueCursor] /\ CursorsBehind'
  BY <1>1, <1>2, CursorsStay
<1>4. QueueKept
  BY <1>3 DEF QueueKept
<1>5. Sound' /\ BooksKept
  BY <1>1, <1>4, SoundStep
<1>6. Held'
  BY <1>1, EffectHeld
<1>7. NoGroupSkipped'
  BY <1>5, QuietSkips DEF AvailableFrom
<1> QED
  BY <1>5, <1>6, <1>7 DEF IInv, BooksKept

\* A session's record ends.
LEMMA RecordEnds ==
    ASSUME Sound, NEW c \in Subscriptions, NEW r \in unacked[c], EndRecord(c, r)
    PROVE  /\ unacked' \in [Subscriptions -> SUBSET DeliveryRecord]
           /\ r.acquired => owners' = [owners EXCEPT ![c] = @ \ {r.position}]
           /\ ~r.acquired => owners' = owners
<1>1. unacked[c] \in SUBSET DeliveryRecord /\ r \in DeliveryRecord
  BY DEF Sound, TypeOK, DeliveryRecord
<1>2. unacked' = [unacked EXCEPT ![c] = unacked[c] \ {r}]
  BY DEF EndRecord
<1>3. unacked[c] \ {r} \in SUBSET DeliveryRecord
  BY <1>1
<1>4. CASE r.acquired
  <2>1. Taken(unacked[c] \ {r}) = owners[c] \ {r.position}
    BY <1>1, <1>4, TakenWithout DEF owners
  <2> QED
    BY <1>2, <1>3, <1>4, <2>1, OwnersChange
<1>5. CASE ~r.acquired
  <2>1. Taken(unacked[c] \ {r}) = owners[c]
    BY <1>1, <1>5, TakenWithout DEF owners
  <2> QED
    BY <1>2, <1>3, <1>5, <2>1, OwnersChange
<1> QED
  BY <1>4, <1>5

\* The message of a record that acquired it, as At() finds it.
LEMMA RecordMessage ==
    ASSUME IInv, NEW c \in Subscriptions, NEW r \in unacked[c]
    PROVE  /\ r \in DeliveryRecord /\ r.position \in Nat
           /\ find(messages, r.position) => /\ At(r.position) \in Contents
                                            /\ At(r.position).sequence = r.position
                                            /\ offset(messages, r.position) + 1 \in Live(messages)
           /\ r.acquired => /\ find(messages, r.position) /\ At(r.position).state = "ACQUIRED"
                            /\ r.position \in owners[c]
<1>1. Sound /\ Held /\ messages \in Seq(Message) /\ Consecutive(messages)
  BY SoundFacts DEF IInv
<1>2. r \in DeliveryRecord /\ r.position \in Nat
  <2>1. r \in DeliveryRecord
    BY <1>1 DEF Sound, TypeOK, DeliveryRecord
  <2> QED
    BY <2>1, GroupAssumption DEF DeliveryRecord
<1>3. /\ find(messages, r.position) <=> \E m \in Contents : m.sequence = r.position
      /\ find(messages, r.position) => /\ offset(messages, r.position) + 1 \in Live(messages)
                                       /\ At(r.position).sequence = r.position
  <2>1. r.position \in Int
    BY <1>2
  <2> QED
    BY <1>1, <2>1, FindContent DEF Contents, At
<1>4. find(messages, r.position) => At(r.position) \in Contents
  BY <1>1, <1>3, SoundFacts DEF At
<1>5. r.acquired => /\ find(messages, r.position) /\ At(r.position).state = "ACQUIRED"
                    /\ r.position \in owners[c]
  <2> HAVE r.acquired
  <2>1. r.position \in owners[c]
    BY DEF owners, Taken
  <2>2. PICK m \in Contents : m.sequence = r.position /\ m.state = "ACQUIRED"
    BY <1>1, <2>1 DEF Held, RecordsHeld
  <2>3. At(r.position) = m
    BY <1>1, <1>3, <1>4, <2>2, SoundFacts
  <2> QED
    BY <1>3, <2>1, <2>2, <2>3
<1> QED
  BY <1>2, <1>3, <1>4, <1>5

\* What the books need of dequeued() as Queue calls it.
LEMMA ResetIsStep ==
    ASSUME Sound, NEW g, ResetCursors(g)
    PROVE  version' = version \/ version' = version + 1
BY DEF ResetCursors

\* message.accept and message.reject.
LEMMA DequeueKeeps ==
    ASSUME Named, IInv, NEW c \in Subscriptions, NEW r \in unacked[c], Dequeue(c, r)
    PROVE  IInv'
<1> PICK m : m = At(r.position)
  OBVIOUS
<1>1. /\ Sound /\ Books /\ messages \in Seq(Message) /\ Consecutive(messages)
      /\ DequeOK(messages, sequence) /\ sequence \in Nat
  BY SoundFacts DEF IInv
<1>2. r.position \in Nat
  BY RecordMessage
<1>3. EndRecord(c, r) /\ sequence' = sequence /\ cursor' = cursor
  BY DEF Dequeue
<1>4. /\ unacked' \in [Subscriptions -> SUBSET DeliveryRecord]
      /\ r.acquired => owners' = [owners EXCEPT ![c] = @ \ {r.position}]
      /\ ~r.acquired => owners' = owners
  BY <1>1, <1>3, RecordEnds
<1>5. CASE r.acquired
  <2>1. m \in Contents /\ m.sequence = r.position /\ m.state = "ACQUIRED" /\ m.sequence \in owners[c]
    BY <1>5, RecordMessage
  <2>2. /\ messages' = deleted(messages, m.sequence)
        /\ Dequeued(m.kind, messageGroups[m.kind], m.sequence)
        /\ ResetCursors(without(messageGroups[m.kind], m.sequence))
    BY <1>5, <2>1, RecordMessage DEF Dequeue
  <2>3. m.sequence \in Int
    BY <1>2, <2>1
  <2>4. Contents' = Without(Contents, m.sequence)
    BY <1>1, <2>2, <2>3, DeletedContent DEF Contents
  <2>5. Finished(c, m)
    BY <1>3, <1>4, <1>5, <2>1, <2>2, <2>4 DEF Finished
  <2>6. Effect
    BY <2>5 DEF Effect
  <2>7. DequeOK(messages', sequence) /\ AvailableFrom(messages', messages)
    BY <1>1, <2>2, <2>3, DeletedOK, DeletedFewer
  <2>8. version' = version \/ version' = version + 1
    BY <1>1, <2>2, ResetIsStep
  <2> QED
    BY <1>3, <1>4, <2>6, <2>7, <2>8, SettleKeeps
<1>6. CASE ~r.acquired
  <2>1. UNCHANGED <<messages, version, messageGroups, freeGroups>>
    BY <1>6 DEF Dequeue
  <2>2. Effect
    BY <1>3, <1>4, <1>6, <2>1 DEF Effect, Still, Contents
  <2>3. AvailableFrom(messages', messages)
    BY <2>1 DEF AvailableFrom, SameMessage
  <2> QED
    BY <1>1, <1>3, <1>4, <2>1, <2>2, <2>3, SettleKeeps
<1> QED
  BY <1>5, <1>6

\* message.release.
LEMMA ReleaseKeeps ==
    ASSUME Named, IInv, NEW c \in Subscriptions, NEW r \in unacked[c], Release(c, r)
    PROVE  IInv'
<1> PICK m : m = At(r.position)
  OBVIOUS
<1>1. /\ Sound /\ Books /\ messages \in Seq(Message) /\ Consecutive(messages)
      /\ DequeOK(messages, sequence) /\ sequence \in Nat /\ version \in Nat
  BY SoundFacts DEF IInv
<1>2. /\ r.acquired /\ EndRecord(c, r) /\ sequence' = sequence /\ cursor' = cursor
      /\ version < MaxVersion /\ version' = version + 1
      /\ messages' = release(messages, r.position) /\ Requeued(m.kind, r.position)
  BY DEF Release
<1>3. m \in Contents /\ m.sequence = r.position /\ m.state = "ACQUIRED" /\ m.sequence \in owners[c]
  BY <1>2, RecordMessage
<1>4. /\ unacked' \in [Subscriptions -> SUBSET DeliveryRecord]
      /\ owners' = [owners EXCEPT ![c] = @ \ {m.sequence}]
  BY <1>1, <1>2, <1>3, RecordEnds
<1>5. Contents' = Without(Contents, m.sequence) \cup {InStateOf(m, "AVAILABLE")}
  <2>1. m \in Content(messages)
    BY <1>3 DEF Contents
  <2> QED
    BY <1>1, <1>2, <1>3, <2>1, ReleaseContent DEF Contents
<1>6. version' \in 0 .. MaxVersion
  BY <1>1, <1>2, GroupAssumption
<1>7. GivenBack(c, m)
  BY <1>2, <1>3, <1>4, <1>5, <1>6 DEF GivenBack
<1>8. Effect
  BY <1>7 DEF Effect
<1>9. DequeOK(messages', sequence)
  <2>1. m.sequence \in Int /\ m.sequence <= sequence
    BY <1>1, <1>3, SoundFacts
  <2> QED
    BY <1>1, <1>2, <1>3, <2>1, ReleaseOK
<1>10. version' # version
  BY <1>1, <1>2
<1> QED
  BY <1>2, <1>4, <1>8, <1>9, <1>10, SettleKeeps

\* message.acquire for a message that was only shown.
LEMMA AcquireShownKeeps ==
    ASSUME Named, IInv, NEW c \in Subscriptions, NEW r \in unacked[c], AcquireShown(c, r)
    PROVE  IInv'
<1> PICK m : m = At(r.position)
  OBVIOUS
<1> PICK n : n = offset(messages, r.position) + 1
  OBVIOUS
<1> PICK a : a = [r EXCEPT !.acquired = TRUE]
  OBVIOUS
<1>1. /\ Sound /\ Books /\ messages \in Seq(Message) /\ Consecutive(messages)
      /\ DequeOK(messages, sequence) /\ sequence \in Nat
  BY SoundFacts DEF IInv
<1>2. /\ ~r.acquired /\ find(messages, r.position) /\ m.state = "AVAILABLE"
      /\ Acquired(m.kind, r.position, AcquiresAs[c])
      /\ messages' = acquire(messages, n)
      /\ unacked' = [unacked EXCEPT ![c] = (unacked[c] \ {r}) \cup {a}]
      /\ version' = version /\ sequence' = sequence /\ cursor' = cursor
  BY DEF AcquireShown
<1>3. /\ r \in DeliveryRecord /\ m \in Contents /\ m.sequence = r.position
      /\ n \in Live(messages) /\ n \in DOMAIN messages /\ m = messages[n]
  BY <1>2, RecordMessage DEF At, Live
<1>4. Contents' = Without(Contents, m.sequence) \cup {InStateOf(m, "ACQUIRED")}
  BY <1>1, <1>2, <1>3, AcquireContent DEF Contents
<1>5. /\ unacked' \in [Subscriptions -> SUBSET DeliveryRecord]
      /\ owners' = [owners EXCEPT ![c] = @ \cup {m.sequence}]
  <2>1. a \in DeliveryRecord /\ a.acquired /\ a.position = m.sequence
    BY <1>3 DEF DeliveryRecord
  <2>2. unacked[c] \in SUBSET DeliveryRecord
    BY <1>1 DEF Sound, TypeOK, DeliveryRecord
  <2>3. PICK S, T : S = (unacked[c] \ {r}) \cup {a} /\ T = owners[c] \cup {m.sequence}
    OBVIOUS
  <2>4. S \in SUBSET DeliveryRecord
    BY <2>1, <2>2, <2>3
  <2>5. Taken(unacked[c] \ {r}) = owners[c]
    BY <1>2, <1>3, <2>2, TakenWithout DEF owners
  <2>6. T = Taken(S)
    <3>1. Taken((unacked[c] \ {r}) \cup {a}) = Taken(unacked[c] \ {r}) \cup {a.position}
      BY <2>1, TakenWith
    <3> QED
      BY <2>1, <2>3, <2>5, <3>1
  <2>7. unacked' \in [Subscriptions -> SUBSET DeliveryRecord] /\ owners' = [owners EXCEPT ![c] = T]
    BY <1>1, <1>2, <2>3, <2>4, <2>6, OwnersChange
  <2> QED
    BY <2>3, <2>7
<1>6. Effect
  <2>1. TakenBy(c, m)
    BY <1>2, <1>3, <1>4, <1>5 DEF TakenBy
  <2> QED
    BY <2>1 DEF Effect
<1>7. DequeOK(messages', sequence) /\ AvailableFrom(messages', messages)
  BY <1>1, <1>2, <1>3, AcquireOK, AcquireFewer
<1> QED
  BY <1>2, <1>5, <1>6, <1>7, SettleKeeps

\* Queue::remove: purge and move.
LEMMA RemoveKeeps ==
    ASSUME Named, IInv, NEW i \in available(messages), Remove(i)
    PROVE  IInv'
<1> PICK m : m = messages[i]
  OBVIOUS
<1>1. /\ Sound /\ Books /\ messages \in Seq(Message) /\ Consecutive(messages)
      /\ DequeOK(messages, sequence) /\ sequence \in Nat
  BY SoundFacts DEF IInv
<1>2. m \in Contents /\ m.state = "AVAILABLE" /\ m.sequence \in Int
  <2>1. i \in Live(messages) /\ m.state = "AVAILABLE"
    BY DEF available, Live
  <2> QED
    BY <1>1, <2>1, SoundFacts
<1> PICK g : g = marked(messageGroups[m.kind], m.sequence)
  OBVIOUS
<1>3. /\ Dequeued(m.kind, g, m.sequence) /\ ResetCursors(without(g, m.sequence))
      /\ messages' = deleted(messages, m.sequence)
      /\ sequence' = sequence /\ cursor' = cursor /\ unacked' = unacked
  BY DEF Remove
<1>4. Contents' = Without(Contents, m.sequence) /\ owners' = owners
  BY <1>1, <1>2, <1>3, DeletedContent DEF Contents, owners
<1>5. Discarded(m)
  BY <1>2, <1>3, <1>4 DEF Discarded
<1>6. Effect /\ version' = version
  BY <1>1, <1>5, DiscardedBooks DEF Effect
<1>7. DequeOK(messages', sequence) /\ AvailableFrom(messages', messages)
  BY <1>1, <1>2, <1>3, DeletedOK, DeletedFewer
<1>8. unacked' \in [Subscriptions -> SUBSET DeliveryRecord]
  BY <1>1, <1>3 DEF Sound, TypeOK, DeliveryRecord
<1> QED
  BY <1>3, <1>6, <1>7, <1>8, SettleKeeps

----------------------------------------------------------------------------
(* The theorems                                                            *)

\* IInv holds of an empty queue and every step keeps it.
LEMMA Inductive == ASSUME Named PROVE Spec => []IInv
<1>1. Init => IInv
  <2> SUFFICES ASSUME Init PROVE IInv
    OBVIOUS
  <2>1. messages \in Seq(Message) /\ DOMAIN messages = {}
    BY EmptySeq DEF Init
  <2>2. Contents = {}
    BY <2>1 DEF Contents, Content, Live
  <2>3. NoGroup \in GroupState /\ NoGroup.members = {} /\ NoGroup.held = {}
        /\ NoGroup.acquired = 0 /\ NoGroup.owner = Nobody
    BY DEF NoGroup, GroupState
  <2>4. /\ version \in 0 .. MaxVersion /\ sequence \in 0 .. MaxSequence /\ freeGroups = {}
        /\ \A c \in Subscriptions : TypeOf[c] \in {"CONSUMER", "BROWSER"}
        /\ messageGroups \in [Kinds -> GroupState] /\ \A k \in Kinds : messageGroups[k] = NoGroup
    BY <2>3, GroupAssumption DEF Init
  <2>5. /\ cursor \in [Subscriptions -> QueueCursor]
        /\ \A c \in Subscriptions : cursor[c].type = TypeOf[c] /\ ~cursor[c].valid
    BY <2>4 DEF Init, NewCursor, QueueCursor, SubscriptionTypes
  <2>6. unacked \in [Subscriptions -> SUBSET DeliveryRecord] /\ \A c \in Subscriptions : owners[c] = {}
    BY DEF Init, owners, Taken
  <2>7. Sound
    <3>1. TypeOK
      BY <2>1, <2>4, <2>5, <2>6 DEF TypeOK, DeliveryRecord
    <3>2. DequeOK(messages, sequence)
      BY <2>1 DEF DequeOK, Consecutive, Live
    <3> QED
      BY <2>2, <2>5, <3>1, <3>2 DEF Sound, CursorsBehind, ContentTyped
  <2>8. Books
    <3>1. \A k \in Kinds : GroupOK(messageGroups[k], Contents, k)
      <4>1. \A k \in Kinds : MembersIn(Contents, k) = {} /\ HeldIn(Contents, k) = {}
        BY <2>2 DEF MembersIn, HeldIn
      <4> QED
        BY <2>3, <2>4, <4>1, FS_EmptySet DEF GroupOK, owned
    <3>2. freeGroups = FreeOf(messageGroups)
      BY <2>3, <2>4 DEF FreeOf, Entry
    <3> QED
      BY <3>1, <3>2 DEF Books
  <2>9. Held
    BY <2>2, <2>6 DEF Held, RecordsHeld, HeldOnce
  <2>10. NoGroupSkipped
    BY <2>5 DEF NoGroupSkipped, reset
  <2> QED
    BY <2>7, <2>8, <2>9, <2>10 DEF IInv
<1>2. IInv /\ [Next]_vars => IInv'
  <2> SUFFICES ASSUME IInv, [Next]_vars PROVE IInv'
    OBVIOUS
  <2>1. CASE UNCHANGED vars
    BY <2>1 DEF vars, queueVars, IInv, Sound, TypeOK, CursorsBehind, ContentTyped, Contents,
                Books, Held, RecordsHeld, HeldOnce, owners, NoGroupSkipped
  <2>2. CASE Next
    BY <2>2, PublishKeeps, GetExpiredKeeps, GetMessageKeeps, GetOtherKeeps, DequeueKeeps,
       ReleaseKeeps, AcquireShownKeeps, RemoveKeeps DEF Next
  <2> QED
    BY <2>1, <2>2
<1> QED
  BY <1>1, <1>2, PTL DEF Spec

\* What Positions counts is what the content has.
LEMMA PositionsFacts ==
    ASSUME Sound, NEW k
    PROVE  /\ Positions(k) = MembersIn(Contents, k)
           /\ HeldIn(Contents, k) = {messages[i].sequence : i \in
                  {j \in Live(messages) : messages[j].kind = k /\ messages[j].state = "ACQUIRED"}}
<1>1. /\ \A i \in Live(messages) : messages[i] \in Contents
      /\ \A m \in Contents : \E i \in Live(messages) : m = messages[i]
  BY SoundFacts
<1> QED
  BY <1>1 DEF Positions, MembersIn, HeldIn

\* "The broker will not allow outstanding unacknowledged messages to more than
\* one consumer for a given group", and a group has an owner exactly while it
\* has such messages: acquire() asks for the owner before acquired() replaces
\* it, and requeued() and dequeued() let go with the last of them.
THEOREM OneConsumer == ASSUME Named PROVE Spec => []OneConsumerPerGroup
<1>1. Named /\ IInv => OneConsumerPerGroup
  <2> SUFFICES ASSUME Named, IInv PROVE OneConsumerPerGroup
    OBVIOUS
  <2>1. Sound /\ Books /\ RecordsHeld /\ HeldOnce /\ TypeOK
    BY DEF IInv, Sound, Held
  <2> SUFFICES ASSUME NEW k \in Kinds
               PROVE  LET holders == {c \in Subscriptions : Holds(c, k) # {}}
                      IN  /\ \A c \in holders : AcquiresAs[c] = messageGroups[k].owner
                          /\ owned(messageGroups[k]) <=> holders # {}
    BY <2>1 DEF OneConsumerPerGroup
  <2>2. /\ owned(messageGroups[k]) <=> HeldIn(Contents, k) # {}
        /\ Positions(k) = MembersIn(Contents, k)
    BY <2>1, GroupFacts, PositionsFacts
  <2>3. \A c \in Subscriptions : Holds(c, k) = owners[c] \cap MembersIn(Contents, k)
    BY <2>2 DEF Holds, owners, Taken
  <2>4. ASSUME NEW c \in Subscriptions, NEW n \in Holds(c, k)
        PROVE  AcquiresAs[c] = messageGroups[k].owner /\ owned(messageGroups[k])
    <3>1. PICK m \in Contents : /\ m.sequence = n /\ m.state = "ACQUIRED"
                                /\ messageGroups[m.kind].owner = AcquiresAs[c]
      BY <2>1, <2>3, <2>4 DEF RecordsHeld
    <3>2. m.kind = k
      BY <2>1, <2>3, <2>4, <3>1, SoundFacts DEF MembersIn
    <3> QED
      BY <3>1, <3>2 DEF owned, Named
  <2>5. ASSUME owned(messageGroups[k]) PROVE \E c \in Subscriptions : Holds(c, k) # {}
    <3>1. PICK m \in Contents : m.kind = k /\ m.state = "ACQUIRED"
      BY <2>2, <2>5 DEF HeldIn
    <3>2. PICK c \in Subscriptions : m.sequence \in owners[c]
      BY <2>1, <3>1 DEF HeldOnce
    <3>3. m.sequence \in Holds(c, k)
      BY <2>3, <3>1, <3>2 DEF MembersIn
    <3> QED
      BY <3>3
  <2> QED
    BY <2>4, <2>5
<1> QED
  BY <1>1, Inductive, PTL

\* What the assertions of MessageGroupManager take for granted: the members of
\* each group are its messages on the queue, the count of the acquired ones is
\* right, and freeGroups lists every group without an owner at its first message.
THEOREM ExactBooks == ASSUME Named PROVE Spec => []BooksAreExact
<1>1. IInv => BooksAreExact
  <2> SUFFICES ASSUME IInv PROVE BooksAreExact
    OBVIOUS
  <2>1. Sound /\ Books
    BY DEF IInv
  <2>2. \A k \in Kinds :
            /\ messageGroups[k].members = Positions(k)
            /\ messageGroups[k].held = {messages[i].sequence : i \in
                   {j \in Live(messages) : messages[j].kind = k /\ messages[j].state = "ACQUIRED"}}
            /\ messageGroups[k].acquired = Cardinality(messageGroups[k].held)
    BY <2>1, PositionsFacts DEF Books, GroupOK
  <2>3. freeGroups = {<<first(messageGroups[k]), k>> : k \in
            {j \in Kinds : Positions(j) # {} /\ ~owned(messageGroups[j])}}
    <3>1. \A k \in Kinds : Entry(messageGroups[k], k) =
              IF Positions(k) # {} /\ ~owned(messageGroups[k])
              THEN {<<first(messageGroups[k]), k>>} ELSE {}
      BY <2>2 DEF Entry
    <3> QED
      BY <2>1, <3>1 DEF Books, FreeOf
  <2> QED
    BY <2>2, <2>3 DEF BooksAreExact
<1> QED
  BY <1>1, Inductive, PTL

\* A consumer that had to pass the messages of a group finds them again once
\* the group is free, because letting a group go resets the cursors.
THEOREM GroupsNotSkipped == ASSUME Named PROVE Spec => []NoGroupSkipped
<1>1. IInv => NoGroupSkipped
  BY DEF IInv
<1> QED
  BY <1>1, Inductive, PTL

=============================================================================
