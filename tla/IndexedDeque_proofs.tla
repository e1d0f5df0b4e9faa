------------------------- MODULE IndexedDeque_proofs -------------------------
(***************************************************************************)
(* What the operations of the container do to the records in it, for every *)
(* deque whose sequence numbers are consecutive.  The lemmas say where each*)
(* record of the result comes from; MessageQueue_proofs needs no more than *)
(* that.                                                                   *)
(***************************************************************************)
EXTENDS IndexedDeque, TLAPS, SequenceTheorems, FiniteSetTheorems, WellFoundedInduction

\* The layout index() relies on.
Consecutive(ms) == \A i \in DOMAIN ms : ms[i].sequence = front(ms) + i - 1

\* Record d is record m, possibly in another state.
SameMessage(d, m) == d.sequence = m.sequence /\ d.kind = m.kind

----------------------------------------------------------------------------
(* Least and greatest elements                                             *)

\* The order of the naturals, as a relation.
LessThan == {ss \in Nat \X Nat : ss[1] < ss[2]}

\* A non-empty set of naturals has a least element, which Min picks.
LEMMA MinOfNats ==
    ASSUME NEW S, S \subseteq Nat, S # {}
    PROVE  Min(S) \in S /\ \A y \in S : Min(S) <= y
<1>1. IsWellFoundedOn(LessThan, Nat)
  <2>1. OpToRel(<, Nat) = LessThan
    BY DEF OpToRel, LessThan
  <2> QED
    BY <2>1, NatLessThanWellFounded
<1>2. PICK x \in S : \A y \in S : ~(<<y, x>> \in LessThan)
  BY <1>1, WFMin
<1>3. \A y \in S : x <= y
  <2> TAKE y \in S
  <2>1. <<y, x>> \in Nat \X Nat
    OBVIOUS
  <2>2. ~(y < x)
    BY <1>2, <2>1 DEF LessThan
  <2> QED
    BY <2>2
<1> QED
  BY <1>3 DEF Min

\* A non-empty set of naturals below n has a greatest element, which Max picks.
LEMMA MaxOfNats ==
    ASSUME NEW n \in Nat, NEW S, S \subseteq 0 .. n, S # {}
    PROVE  Max(S) \in S /\ \A y \in S : Max(S) >= y
<1> DEFINE T == {n - y : y \in S}
<1>1. T \subseteq Nat /\ T # {}
  <2>1. \A y \in S : n - y \in Nat
    OBVIOUS
  <2>2. PICK y \in S : TRUE
    OBVIOUS
  <2>3. n - y \in T
    BY <2>2
  <2> QED
    BY <2>1, <2>3
<1>2. Min(T) \in T /\ \A y \in T : Min(T) <= y
  BY <1>1, MinOfNats
<1>3. PICK x \in S : Min(T) = n - x
  BY <1>2
<1>4. \A y \in S : x >= y
  <2> TAKE y \in S
  <2>1. n - y \in T
    OBVIOUS
  <2>2. n - x <= n - y
    BY <2>1, <1>2, <1>3
  <2> QED
    BY <2>2
<1> QED
  BY <1>4 DEF Max

----------------------------------------------------------------------------
(* Records and their numbers                                               *)

\* What a deque is made of.
LEMMA DequeProperties ==
    ASSUME NEW ms \in Seq(Message)
    PROVE  /\ Len(ms) \in Nat
           /\ DOMAIN ms = 1 .. Len(ms)
           /\ ms # << >> => 1 \in DOMAIN ms /\ Len(ms) \in DOMAIN ms
           /\ \A i \in DOMAIN ms : /\ ms[i] \in Message
                                   /\ ms[i].sequence \in Nat
                                   /\ ms[i].state \in MessageStates
<1>1. /\ Len(ms) \in Nat
      /\ DOMAIN ms = 1 .. Len(ms)
      /\ ms # << >> => 1 \in DOMAIN ms /\ Len(ms) \in DOMAIN ms
  BY LenProperties, EmptySeq
<1>2. \A i \in DOMAIN ms : ms[i] \in Message
  BY <1>1, ElementOfSeq
<1> QED
  BY <1>1, <1>2 DEF Message

\* A deque is consecutive when its numbers are its indexes plus a constant.
LEMMA ConsecutiveShift ==
    ASSUME NEW ms \in Seq(Message), NEW b \in Int,
           \A i \in DOMAIN ms : ms[i].sequence = b + i
    PROVE  Consecutive(ms)
<1>1. DOMAIN ms = 1 .. Len(ms) /\ Len(ms) \in Nat
  BY DequeProperties
<1>2. \A i \in DOMAIN ms : 1 \in DOMAIN ms
  BY <1>1
<1> QED
  BY <1>1, <1>2 DEF Consecutive, front

----------------------------------------------------------------------------
(* clean, deleted, release, acquire                                        *)

\* clean() drops DELETED records from the front and nothing else.
LEMMA CleanProperties ==
    ASSUME NEW ms \in Seq(Message)
    PROVE  /\ cleaned(ms) \in 0 .. Len(ms)
           /\ clean(ms) \in Seq(Message)
           /\ Len(clean(ms)) = Len(ms) - cleaned(ms)
           /\ \A i \in 1 .. Len(ms) - cleaned(ms) : clean(ms)[i] = ms[i + cleaned(ms)]
           /\ \A i \in 1 .. cleaned(ms) : ms[i].state = "DELETED"
<1>1. Live(ms) \subseteq 1 .. Len(ms) /\ Len(ms) \in Nat
  BY DEF Live
<1>2. /\ deletedPrefix(ms) \in 0 .. Len(ms)
      /\ \A i \in 1 .. deletedPrefix(ms) : ms[i].state = "DELETED"
  <2>1. CASE Live(ms) = {}
    BY <1>1, <2>1 DEF deletedPrefix, Live
  <2>2. CASE Live(ms) # {}
    <3>1. Min(Live(ms)) \in Live(ms) /\ \A y \in Live(ms) : Min(Live(ms)) <= y
      BY <1>1, <2>2, MinOfNats
    <3>2. deletedPrefix(ms) = Min(Live(ms)) - 1
      BY <2>2 DEF deletedPrefix
    <3>3. Min(Live(ms)) \in 1 .. Len(ms)
      BY <1>1, <3>1
    <3>4. \A i \in 1 .. Min(Live(ms)) - 1 : i \in 1 .. Len(ms) /\ i \notin Live(ms)
      BY <1>1, <3>1, <3>3
    <3>5. \A i \in 1 .. Min(Live(ms)) - 1 : ms[i].state = "DELETED"
      BY <3>4 DEF Live
    <3> QED
      BY <1>1, <3>2, <3>3, <3>5
  <2> QED
    BY <2>1, <2>2
<1>3. /\ cleaned(ms) \in 0 .. Len(ms)
      /\ \A i \in 1 .. cleaned(ms) : ms[i].state = "DELETED"
  BY <1>1, <1>2, CleanLimitAssumption DEF cleaned
<1>4. \A i \in cleaned(ms) + 1 .. Len(ms) : ms[i] \in Message
  BY <1>1, <1>3, ElementOfSeq
<1>5. /\ clean(ms) \in Seq(Message)
      /\ Len(clean(ms)) = IF cleaned(ms) + 1 <= Len(ms) THEN Len(ms) - (cleaned(ms) + 1) + 1 ELSE 0
      /\ \A i \in 1 .. Len(ms) - (cleaned(ms) + 1) + 1 :
             clean(ms)[i] = ms[(cleaned(ms) + 1) + i - 1]
  BY <1>1, <1>3, <1>4, SubSeqProperties DEF clean
<1> QED
  BY <1>1, <1>3, <1>5

\* Changing the state of one record changes that record only.
LEMMA SetStateProperties ==
    ASSUME NEW ms \in Seq(Message), NEW i \in 1 .. Len(ms), NEW s \in MessageStates
    PROVE  /\ setState(ms, i, s) \in Seq(Message)
           /\ Len(setState(ms, i, s)) = Len(ms)
           /\ \A j \in 1 .. Len(ms) :
                  /\ SameMessage(setState(ms, i, s)[j], ms[j])
                  /\ setState(ms, i, s)[j].state = IF j = i THEN s ELSE ms[j].state
<1> DEFINE e == [ms[i] EXCEPT !.state = s]
<1>1. ms[i] \in Message
  BY ElementOfSeq
<1>2. e \in Message /\ SameMessage(e, ms[i]) /\ e.state = s
  BY <1>1 DEF Message, SameMessage
<1>3. setState(ms, i, s) = [ms EXCEPT ![i] = e]
  BY DEF setState
<1> HIDE DEF e
<1>4. /\ setState(ms, i, s) \in Seq(Message)
      /\ Len(setState(ms, i, s)) = Len(ms)
      /\ \A j \in 1 .. Len(ms) : setState(ms, i, s)[j] = IF j = i THEN e ELSE ms[j]
  BY <1>2, <1>3, ExceptSeq
<1> QED
  BY <1>2, <1>4 DEF SameMessage

\* index() finds the record that carries the number it is asked for.
LEMMA IndexProperties ==
    ASSUME NEW ms \in Seq(Message), Consecutive(ms), NEW p \in Int, found(ms, p)
    PROVE  /\ offset(ms, p) + 1 \in 1 .. Len(ms)
           /\ ms[offset(ms, p) + 1].sequence = p
           /\ \A i \in 1 .. Len(ms) : ms[i].sequence = p => i = offset(ms, p) + 1
<1>1. ms # << >> /\ 1 \in 1 .. Len(ms) /\ ms[1] \in Message
  BY ElementOfSeq DEF found
<1>2. front(ms) \in Nat
  BY <1>1 DEF Message, front
<1>3. offset(ms, p) = p - front(ms) /\ offset(ms, p) \in 0 .. Len(ms) - 1
  BY <1>1, <1>2 DEF found, offset
<1>4. \A i \in 1 .. Len(ms) : ms[i].sequence = front(ms) + i - 1
  BY DEF Consecutive
<1> QED
  BY <1>2, <1>3, <1>4

\* deleted(): every record of the result is a record of the deque, only its
\* state may have become DELETED, and nothing numbered p is left.
LEMMA DeletedProperties ==
    ASSUME NEW ms \in Seq(Message), Consecutive(ms), NEW p \in Int
    PROVE  /\ deleted(ms, p) \in Seq(Message)
           /\ Consecutive(deleted(ms, p))
           /\ \A i \in DOMAIN deleted(ms, p) : \E j \in DOMAIN ms :
                  /\ SameMessage(deleted(ms, p)[i], ms[j])
                  /\ \/ deleted(ms, p)[i].state = "DELETED"
                     \/ deleted(ms, p)[i].state = ms[j].state /\ ms[j].sequence # p
<1>1. CASE ~found(ms, p)
  <2>1. deleted(ms, p) = ms
    BY <1>1 DEF deleted
  <2>2. \A i \in DOMAIN ms : ms[i].sequence # p
    <3> SUFFICES ASSUME NEW i \in DOMAIN ms, ms[i].sequence = p PROVE FALSE
      OBVIOUS
    <3>1. ms # << >> /\ front(ms) \in Nat /\ i \in 1 .. Len(ms) /\ Len(ms) \in Nat
      BY DequeProperties DEF front
    <3>2. p = front(ms) + i - 1
      BY DEF Consecutive
    <3> QED
      BY <1>1, <3>1, <3>2 DEF found
  <2> QED
    BY <2>1, <2>2 DEF SameMessage
<1>2. CASE found(ms, p)
  <2> DEFINE k == offset(ms, p) + 1
             d == setState(ms, k, "DELETED")
  <2>1. /\ k \in 1 .. Len(ms)
        /\ \A i \in 1 .. Len(ms) : ms[i].sequence = p => i = k
    BY <1>2, IndexProperties
  <2>2. deleted(ms, p) = clean(d)
    BY <1>2 DEF deleted
  <2>3. /\ d \in Seq(Message)
        /\ Len(d) = Len(ms)
        /\ \A j \in 1 .. Len(ms) :
               /\ SameMessage(d[j], ms[j])
               /\ d[j].state = IF j = k THEN "DELETED" ELSE ms[j].state
    BY <2>1, SetStateProperties DEF MessageStates
  <2> HIDE DEF k, d
  <2>4. /\ cleaned(d) \in 0 .. Len(d)
        /\ clean(d) \in Seq(Message)
        /\ Len(clean(d)) = Len(d) - cleaned(d)
        /\ \A i \in 1 .. Len(d) - cleaned(d) : clean(d)[i] = d[i + cleaned(d)]
    BY <2>3, CleanProperties
  <2>5. \A i \in DOMAIN clean(d) :
            /\ i + cleaned(d) \in DOMAIN ms
            /\ SameMessage(clean(d)[i], ms[i + cleaned(d)])
            /\ clean(d)[i].state =
                   IF i + cleaned(d) = k THEN "DELETED" ELSE ms[i + cleaned(d)].state
    <3>1. DOMAIN clean(d) = 1 .. Len(d) - cleaned(d) /\ DOMAIN ms = 1 .. Len(ms) /\ Len(ms) \in Nat
      BY <2>4, DequeProperties
    <3> TAKE i \in DOMAIN clean(d)
    <3>2. i + cleaned(d) \in 1 .. Len(ms) /\ clean(d)[i] = d[i + cleaned(d)]
      BY <2>3, <2>4, <3>1
    <3> QED
      BY <2>3, <3>1, <3>2
  <2>6. Consecutive(clean(d))
    <3>1. CASE clean(d) = << >>
      BY <3>1 DEF Consecutive
    <3>2. CASE clean(d) # << >>
      <4>1. front(ms) \in Nat /\ cleaned(d) \in Nat
        <5>1. DOMAIN ms # {}
          BY <2>4, <2>5, <3>2, DequeProperties
        <5> QED
          BY <2>3, <2>4, <5>1, DequeProperties DEF front
      <4>2. \A i \in DOMAIN clean(d) :
                i \in Nat /\ clean(d)[i].sequence = front(ms) + (i + cleaned(d)) - 1
        BY <2>4, <2>5, DequeProperties DEF Consecutive, SameMessage
      <4> DEFINE b == front(ms) + cleaned(d) - 1
      <4>3. b \in Int /\ \A i \in DOMAIN clean(d) : clean(d)[i].sequence = b + i
        BY <4>1, <4>2
      <4> HIDE DEF b
      <4> QED
        BY <2>4, <4>3, ConsecutiveShift
    <3> QED
      BY <3>1, <3>2
  <2>7. \A i \in DOMAIN clean(d) : \E j \in DOMAIN ms :
            /\ SameMessage(clean(d)[i], ms[j])
            /\ \/ clean(d)[i].state = "DELETED"
               \/ clean(d)[i].state = ms[j].state /\ ms[j].sequence # p
    <3> TAKE i \in DOMAIN clean(d)
    <3>1. i + cleaned(d) \in DOMAIN ms
      BY <2>5
    <3>2. ms[i + cleaned(d)].sequence = p => i + cleaned(d) = k
      BY <2>1, <3>1, DequeProperties
    <3> QED
      BY <2>5, <3>1, <3>2
  <2> QED
    BY <2>2, <2>4, <2>6, <2>7
<1> QED
  BY <1>1, <1>2

\* A change of one record's state keeps a deque consecutive.
LEMMA SetStateConsecutive ==
    ASSUME NEW ms \in Seq(Message), Consecutive(ms),
           NEW i \in 1 .. Len(ms), NEW s \in MessageStates
    PROVE  Consecutive(setState(ms, i, s))
<1>1. /\ setState(ms, i, s) \in Seq(Message)
      /\ Len(setState(ms, i, s)) = Len(ms)
      /\ \A j \in 1 .. Len(ms) : setState(ms, i, s)[j].sequence = ms[j].sequence
  BY SetStateProperties DEF SameMessage
<1>2. DOMAIN setState(ms, i, s) = 1 .. Len(ms) /\ DOMAIN ms = 1 .. Len(ms) /\ 1 \in 1 .. Len(ms)
  BY <1>1, DequeProperties
<1> QED
  BY <1>1, <1>2 DEF Consecutive, front

\* release(): the record numbered p, if there is one, becomes AVAILABLE
\* whatever it was; every other record stays as it is.
LEMMA ReleaseProperties ==
    ASSUME NEW ms \in Seq(Message), Consecutive(ms), NEW p \in Int
    PROVE  /\ release(ms, p) \in Seq(Message)
           /\ Consecutive(release(ms, p))
           /\ DOMAIN release(ms, p) = DOMAIN ms
           /\ \A i \in DOMAIN ms :
                  /\ SameMessage(release(ms, p)[i], ms[i])
                  /\ release(ms, p)[i].state = ms[i].state \/ (found(ms, p) /\ ms[i].sequence = p)
<1>1. CASE ~found(ms, p)
  BY <1>1 DEF release, SameMessage
<1>2. CASE found(ms, p)
  <2> DEFINE k == offset(ms, p) + 1
             d == setState(ms, k, "AVAILABLE")
  <2>1. k \in 1 .. Len(ms) /\ ms[k].sequence = p
    BY <1>2, IndexProperties
  <2>2. release(ms, p) = d
    BY <1>2 DEF release
  <2>3. /\ d \in Seq(Message)
        /\ Len(d) = Len(ms)
        /\ \A j \in 1 .. Len(ms) :
               /\ SameMessage(d[j], ms[j])
               /\ d[j].state = IF j = k THEN "AVAILABLE" ELSE ms[j].state
    BY <2>1, SetStateProperties DEF MessageStates
  <2>4. Consecutive(d)
    BY <2>1, SetStateConsecutive DEF MessageStates
  <2>5. DOMAIN d = 1 .. Len(ms) /\ DOMAIN ms = 1 .. Len(ms)
    BY <2>3, DequeProperties
  <2> HIDE DEF k, d
  <2> QED
    BY <1>2, <2>1, <2>2, <2>3, <2>4, <2>5
<1> QED
  BY <1>1, <1>2

\* acquire(): only the record at k changes, and it is no longer AVAILABLE.
LEMMA AcquireProperties ==
    ASSUME NEW ms \in Seq(Message), Consecutive(ms), NEW k \in DOMAIN ms
    PROVE  /\ acquire(ms, k) \in Seq(Message)
           /\ Consecutive(acquire(ms, k))
           /\ DOMAIN acquire(ms, k) = DOMAIN ms
           /\ \A i \in DOMAIN ms :
                  /\ SameMessage(acquire(ms, k)[i], ms[i])
                  /\ acquire(ms, k)[i].state = IF i = k THEN "ACQUIRED" ELSE ms[i].state
<1>1. k \in 1 .. Len(ms) /\ DOMAIN ms = 1 .. Len(ms)
  BY DequeProperties
<1>2. /\ acquire(ms, k) \in Seq(Message)
      /\ Len(acquire(ms, k)) = Len(ms)
      /\ \A i \in 1 .. Len(ms) :
             /\ SameMessage(acquire(ms, k)[i], ms[i])
             /\ acquire(ms, k)[i].state = IF i = k THEN "ACQUIRED" ELSE ms[i].state
  BY <1>1, SetStateProperties DEF acquire, MessageStates
<1>3. Consecutive(acquire(ms, k))
  BY <1>1, SetStateConsecutive DEF acquire, MessageStates
<1>4. DOMAIN acquire(ms, k) = 1 .. Len(ms)
  BY <1>2, DequeProperties
<1> QED
  BY <1>1, <1>2, <1>3, <1>4

----------------------------------------------------------------------------
(* publish                                                                 *)

\* clean() keeps a deque consecutive and every record it keeps is one of the
\* deque's.
LEMMA CleanConsecutive ==
    ASSUME NEW ms \in Seq(Message), Consecutive(ms)
    PROVE  /\ clean(ms) \in Seq(Message)
           /\ Consecutive(clean(ms))
           /\ \A i \in DOMAIN clean(ms) : \E j \in DOMAIN ms : clean(ms)[i] = ms[j]
<1>1. /\ cleaned(ms) \in 0 .. Len(ms)
      /\ clean(ms) \in Seq(Message)
      /\ Len(clean(ms)) = Len(ms) - cleaned(ms)
      /\ \A i \in 1 .. Len(ms) - cleaned(ms) : clean(ms)[i] = ms[i + cleaned(ms)]
  BY CleanProperties
<1>2. DOMAIN clean(ms) = 1 .. Len(ms) - cleaned(ms) /\ DOMAIN ms = 1 .. Len(ms) /\ Len(ms) \in Nat
  BY <1>1, DequeProperties
<1>3. \A i \in DOMAIN clean(ms) : i + cleaned(ms) \in DOMAIN ms /\ clean(ms)[i] = ms[i + cleaned(ms)]
  BY <1>1, <1>2
<1>4. Consecutive(clean(ms))
  <2>1. CASE ms = << >>
    <3>1. DOMAIN clean(ms) = {}
      BY <1>2, <1>3, <2>1, EmptySeq
    <3> QED
      BY <3>1 DEF Consecutive
  <2>2. CASE ms # << >>
    <3> DEFINE b == front(ms) + cleaned(ms) - 1
    <3>1. front(ms) \in Nat /\ cleaned(ms) \in Nat
      BY <1>1, <1>2, <2>2, DequeProperties DEF front
    <3>2. \A i \in DOMAIN clean(ms) : i \in Nat /\ clean(ms)[i].sequence = front(ms) + (i + cleaned(ms)) - 1
      BY <1>2, <1>3 DEF Consecutive
    <3>3. b \in Int /\ \A i \in DOMAIN clean(ms) : clean(ms)[i].sequence = b + i
      BY <3>1, <3>2
    <3> HIDE DEF b
    <3> QED
      BY <1>1, <3>3, ConsecutiveShift
  <2> QED
    BY <2>1, <2>2
<1> QED
  BY <1>1, <1>3, <1>4

\* A prefix of a consecutive deque is consecutive.
LEMMA PrefixConsecutive ==
    ASSUME NEW ms \in Seq(Message), Consecutive(ms), NEW n \in 0 .. Len(ms)
    PROVE  /\ SubSeq(ms, 1, n) \in Seq(Message)
           /\ Len(SubSeq(ms, 1, n)) = n
           /\ Consecutive(SubSeq(ms, 1, n))
           /\ \A i \in 1 .. n : i \in DOMAIN ms /\ SubSeq(ms, 1, n)[i] = ms[i]
<1>1. DOMAIN ms = 1 .. Len(ms) /\ Len(ms) \in Nat /\ n \in Nat
  BY DequeProperties
<1>2. \A i \in 1 .. n : ms[i] \in Message
  BY <1>1, DequeProperties
<1>3. /\ SubSeq(ms, 1, n) \in Seq(Message)
      /\ Len(SubSeq(ms, 1, n)) = IF 1 <= n THEN n - 1 + 1 ELSE 0
      /\ \A i \in 1 .. n - 1 + 1 : SubSeq(ms, 1, n)[i] = ms[1 + i - 1]
  BY <1>1, <1>2, SubSeqProperties
<1>4. Len(SubSeq(ms, 1, n)) = n /\ \A i \in 1 .. n : i \in DOMAIN ms /\ SubSeq(ms, 1, n)[i] = ms[i]
  BY <1>1, <1>3
<1>5. Consecutive(SubSeq(ms, 1, n))
  <2>1. DOMAIN SubSeq(ms, 1, n) = 1 .. n
    BY <1>3, <1>4, DequeProperties
  <2>2. \A i \in 1 .. n : 1 \in 1 .. n
    BY <1>1
  <2> QED
    BY <1>4, <2>1, <2>2 DEF Consecutive, front
<1> QED
  BY <1>3, <1>4, <1>5

\* Stripping the tail of a deque whose live records are numbered below s
\* leaves nothing numbered s or more.
LEMMA StrippedProperties ==
    ASSUME NEW ms \in Seq(Message), Consecutive(ms), NEW s \in Nat,
           \A i \in Live(ms) : ms[i].sequence < s
    PROVE  /\ stripped(ms, s) \in Seq(Message)
           /\ Consecutive(stripped(ms, s))
           /\ stripped(ms, s) = << >> \/ back(stripped(ms, s)) < s
           /\ \A i \in DOMAIN stripped(ms, s) : i \in DOMAIN ms /\ stripped(ms, s)[i] = ms[i]
<1> DEFINE kept == {i \in DOMAIN ms : ms[i].sequence < s \/ ms[i].state # "DELETED"}
           n == IF kept = {} THEN 0 ELSE Max(kept)
<1>1. stripped(ms, s) = SubSeq(ms, 1, n)
  BY DEF stripped
<1>2. DOMAIN ms = 1 .. Len(ms) /\ Len(ms) \in Nat
  BY DequeProperties
<1>3. kept # {} => Max(kept) \in kept
  <2>1. kept \subseteq 0 .. Len(ms)
    BY <1>2
  <2> HIDE DEF kept
  <2> QED
    BY <1>2, <2>1, MaxOfNats
<1>4. \A i \in kept : ms[i].sequence < s
  BY DEF Live
<1>5. n \in 0 .. Len(ms) /\ (n # 0 => ms[n].sequence < s)
  BY <1>2, <1>3, <1>4
<1> HIDE DEF n
<1>6. /\ SubSeq(ms, 1, n) \in Seq(Message)
      /\ Len(SubSeq(ms, 1, n)) = n
      /\ Consecutive(SubSeq(ms, 1, n))
      /\ \A i \in 1 .. n : i \in DOMAIN ms /\ SubSeq(ms, 1, n)[i] = ms[i]
  BY <1>5, PrefixConsecutive
<1>7. DOMAIN SubSeq(ms, 1, n) = 1 .. n
  BY <1>6, DequeProperties
<1>8. n # 0 => back(SubSeq(ms, 1, n)) < s
  BY <1>2, <1>5, <1>6 DEF back
<1>9. n = 0 => SubSeq(ms, 1, n) = << >>
  BY <1>6, EmptySeq
<1> QED
  BY <1>1, <1>6, <1>7, <1>8, <1>9

\* A consecutive deque extended by one number is consecutive.
LEMMA AppendConsecutive ==
    ASSUME NEW ms \in Seq(Message), Consecutive(ms), NEW m \in Message,
           ms = << >> \/ m.sequence = back(ms) + 1
    PROVE  /\ Append(ms, m) \in Seq(Message)
           /\ Consecutive(Append(ms, m))
           /\ \A i \in DOMAIN Append(ms, m) :
                  Append(ms, m)[i] = m \/ (i \in DOMAIN ms /\ Append(ms, m)[i] = ms[i])
<1>1. DOMAIN ms = 1 .. Len(ms) /\ Len(ms) \in Nat
  BY DequeProperties
<1>2. /\ Append(ms, m) \in Seq(Message)
      /\ Len(Append(ms, m)) = Len(ms) + 1
      /\ \A i \in 1 .. Len(ms) : Append(ms, m)[i] = ms[i]
      /\ Append(ms, m)[Len(ms) + 1] = m
  BY AppendProperties
<1>3. DOMAIN Append(ms, m) = 1 .. Len(ms) + 1
  BY <1>2, DequeProperties
<1>4. \A i \in 1 .. Len(ms) + 1 : i \in 1 .. Len(ms) \/ i = Len(ms) + 1
  BY <1>1
<1>5. Consecutive(Append(ms, m))
  <2>1. CASE ms = << >>
    <3>1. DOMAIN Append(ms, m) = {1}
      BY <1>1, <1>3, <2>1, EmptySeq
    <3>2. Append(ms, m)[1] = m /\ m.sequence \in Nat
      BY <1>2, <2>1, EmptySeq DEF Message
    <3> QED
      BY <3>1, <3>2 DEF Consecutive, front
  <2>2. CASE ms # << >>
    <3>1. 1 \in 1 .. Len(ms) /\ Len(ms) \in 1 .. Len(ms) /\ front(ms) \in Nat
      BY <1>1, <2>2, DequeProperties DEF front
    <3>2. front(Append(ms, m)) = front(ms)
      BY <1>2, <3>1 DEF front
    <3>3. m.sequence = front(ms) + (Len(ms) + 1) - 1
      BY <1>1, <2>2, <3>1 DEF Consecutive, back
    <3>4. \A i \in 1 .. Len(ms) : Append(ms, m)[i].sequence = front(ms) + i - 1
      BY <1>1, <1>2 DEF Consecutive
    <3> QED
      BY <1>2, <1>3, <1>4, <3>2, <3>3, <3>4 DEF Consecutive
  <2> QED
    BY <2>1, <2>2
<1> QED
  BY <1>2, <1>3, <1>4, <1>5

\* Padding fills the gap up to s with DELETED records.
LEMMA PaddedProperties ==
    ASSUME NEW ms \in Seq(Message), Consecutive(ms), NEW s \in Nat,
           ms = << >> \/ back(ms) < s
    PROVE  /\ padded(ms, s) \in Seq(Message)
           /\ Consecutive(padded(ms, s))
           /\ padded(ms, s) = << >> \/ s = back(padded(ms, s)) + 1
           /\ \A i \in DOMAIN padded(ms, s) :
                  \/ padded(ms, s)[i].state = "DELETED"
                  \/ i \in DOMAIN ms /\ padded(ms, s)[i] = ms[i]
<1>1. CASE ms = << >>
  <2>1. padded(ms, s) = ms
    BY <1>1 DEF padded
  <2> QED
    BY <1>1, <2>1
<1>2. CASE ms # << >>
  <2> DEFINE n == s - back(ms) - 1
             gap == [i \in 1 .. n |-> padding(back(ms) + i)]
  <2>1. /\ DOMAIN ms = 1 .. Len(ms) /\ Len(ms) \in Nat
        /\ 1 \in DOMAIN ms /\ Len(ms) \in DOMAIN ms
        /\ front(ms) \in Nat /\ back(ms) \in Nat
    BY <1>2, DequeProperties DEF front, back
  <2>2. n \in Nat /\ s = back(ms) + n + 1
    BY <1>2, <2>1
  <2>3. \A i \in 1 .. n : padding(back(ms) + i) \in Message
    BY <2>1, <2>2 DEF padding, Message, MessageStates
  <2>4. gap \in [1 .. n -> Message]
    BY <2>3
  <2>5. gap \in Seq(Message) /\ Len(gap) = n
    BY <2>2, <2>4
  <2>6. padded(ms, s) = ms \o gap
    BY <1>2 DEF padded
  <2>7. \A i \in 1 .. n : gap[i].state = "DELETED" /\ gap[i].sequence = back(ms) + i
    BY DEF padding
  <2> HIDE DEF gap, n
  <2> DEFINE d == ms \o gap
  <2>8. /\ d \in Seq(Message)
        /\ Len(d) = Len(ms) + n
        /\ \A i \in 1 .. Len(ms) + n : d[i] = IF i <= Len(ms) THEN ms[i] ELSE gap[i - Len(ms)]
    BY <2>5, ConcatProperties
  <2> HIDE DEF d
  <2>9. DOMAIN d = 1 .. Len(ms) + n
    BY <2>8, DequeProperties
  <2>10. back(ms) = front(ms) + Len(ms) - 1
    BY <2>1 DEF Consecutive, back
  <2>11. \A i \in 1 .. Len(ms) + n :
             \/ i \in DOMAIN ms /\ d[i] = ms[i]
             \/ /\ i \notin DOMAIN ms
                /\ i - Len(ms) \in 1 .. n
                /\ d[i] = gap[i - Len(ms)]
    BY <2>1, <2>2, <2>8
  <2>12. \A i \in DOMAIN d : d[i].sequence = (front(ms) - 1) + i
    <3> TAKE i \in DOMAIN d
    <3>1. CASE i \in DOMAIN ms
      BY <2>1, <2>9, <2>11, <3>1 DEF Consecutive
    <3>2. CASE i \notin DOMAIN ms
      <4>1. i - Len(ms) \in 1 .. n /\ d[i] = gap[i - Len(ms)]
        BY <2>9, <2>11, <3>2
      <4>2. d[i].sequence = back(ms) + (i - Len(ms))
        BY <2>7, <4>1
      <4> QED
        BY <2>1, <2>9, <2>10, <4>2
    <3> QED
      BY <3>1, <3>2
  <2>13. Consecutive(d)
    <3> DEFINE b == front(ms) - 1
    <3>1. b \in Int /\ \A i \in DOMAIN d : d[i].sequence = b + i
      BY <2>1, <2>12
    <3> HIDE DEF b
    <3> QED
      BY <2>8, <3>1, ConsecutiveShift
  <2>14. s = back(d) + 1
    <3>1. Len(d) \in DOMAIN d
      BY <2>1, <2>2, <2>8, <2>9
    <3>2. back(d) = (front(ms) - 1) + (Len(ms) + n)
      BY <2>8, <2>12, <3>1 DEF back
    <3> QED
      BY <2>1, <2>2, <2>10, <3>2
  <2>15. \A i \in DOMAIN d : d[i].state = "DELETED" \/ (i \in DOMAIN ms /\ d[i] = ms[i])
    BY <2>7, <2>9, <2>11
  <2> QED
    BY <2>6, <2>8, <2>13, <2>14, <2>15 DEF d
<1> QED
  BY <1>1, <1>2

\* publish() of number s behind the live records: it does not throw, and every
\* record of the result is the new one, one of the deque's, or padding.
LEMMA PublishProperties ==
    ASSUME NEW ms \in Seq(Message), Consecutive(ms), NEW s \in Nat, NEW k \in Kinds,
           \A i \in Live(ms) : ms[i].sequence < s
    PROVE  /\ inSequence(ms, s)
           /\ publish(ms, s, k) \in Seq(Message)
           /\ Consecutive(publish(ms, s, k))
           /\ \A i \in DOMAIN publish(ms, s, k) :
                  \/ publish(ms, s, k)[i].state = "DELETED"
                  \/ publish(ms, s, k)[i] = [sequence |-> s, state |-> "AVAILABLE", kind |-> k]
                  \/ \E j \in DOMAIN ms : publish(ms, s, k)[i] = ms[j]
<1> DEFINE m == [sequence |-> s, state |-> "AVAILABLE", kind |-> k]
           a == clean(ms)
           b == stripped(a, s)
           c == padded(b, s)
<1>1. /\ a \in Seq(Message) /\ Consecutive(a)
      /\ \A i \in DOMAIN a : \E j \in DOMAIN ms : a[i] = ms[j]
  BY CleanConsecutive
<1>2. \A i \in Live(a) : a[i].sequence < s
  BY <1>1 DEF Live
<1> HIDE DEF a
<1>3. /\ b \in Seq(Message) /\ Consecutive(b)
      /\ b = << >> \/ back(b) < s
      /\ \A i \in DOMAIN b : i \in DOMAIN a /\ b[i] = a[i]
  BY <1>1, <1>2, StrippedProperties
<1> HIDE DEF b
<1>4. /\ c \in Seq(Message) /\ Consecutive(c)
      /\ c = << >> \/ s = back(c) + 1
      /\ \A i \in DOMAIN c : c[i].state = "DELETED" \/ (i \in DOMAIN b /\ c[i] = b[i])
  BY <1>3, PaddedProperties
<1> HIDE DEF c
<1>5. m \in Message /\ m.sequence = s
  BY DEF Message, MessageStates
<1> HIDE DEF m
<1>6. /\ Append(c, m) \in Seq(Message)
      /\ Consecutive(Append(c, m))
      /\ \A i \in DOMAIN Append(c, m) :
             Append(c, m)[i] = m \/ (i \in DOMAIN c /\ Append(c, m)[i] = c[i])
  BY <1>4, <1>5, AppendConsecutive
<1>7. publish(ms, s, k) = Append(c, m)
  BY DEF publish, a, b, c, m
<1>8. inSequence(ms, s)
  BY <1>3 DEF inSequence, a, b
<1>9. \A i \in DOMAIN Append(c, m) :
          \/ Append(c, m)[i].state = "DELETED"
          \/ Append(c, m)[i] = m
          \/ \E j \in DOMAIN ms : Append(c, m)[i] = ms[j]
  BY <1>1, <1>3, <1>4, <1>6
<1> QED
  BY <1>6, <1>7, <1>8, <1>9 DEF m

----------------------------------------------------------------------------
(* next                                                                    *)

\* next() looks at what its contract in Messages.h says, the messages numbered
\* after the cursor or all of them, although it computes an index to start at.
LEMMA CandidatesByPosition ==
    ASSUME NEW ms \in Seq(Message), Consecutive(ms), NEW v \in Nat, NEW c \in QueueCursor
    PROVE  candidates(ms, v, c) =
               {i \in DOMAIN ms : check(c, ms[i]) /\ (reset(c, v) \/ ms[i].sequence > c.position)}
<1>1. DOMAIN ms = 1 .. Len(ms) /\ Len(ms) \in Nat
  BY DequeProperties
<1>2. c.position \in Int
  BY DEF QueueCursor
<1>3. CASE reset(c, v)
  BY <1>1, <1>3 DEF candidates, scanFrom
<1>4. CASE ~reset(c, v)
  <2>1. CASE ms = << >>
    <3>1. Len(ms) = 0
      BY <2>1, EmptySeq
    <3>2. scanFrom(ms, v, c) = 1
      BY <1>4, <2>1 DEF scanFrom, offset
    <3> QED
      BY <1>1, <3>1, <3>2 DEF candidates
  <2>2. CASE ms # << >>
    <3>1. front(ms) \in Nat
      BY <1>1, <2>2, DequeProperties DEF front
    <3>2. scanFrom(ms, v, c) = IF c.position + 1 < front(ms) THEN 1 ELSE c.position - front(ms) + 2
      BY <1>2, <1>4, <2>2, <3>1 DEF scanFrom, offset
    <3>3. \A i \in 1 .. Len(ms) : ms[i].sequence = front(ms) + i - 1
      BY <1>1 DEF Consecutive
    <3>4. scanFrom(ms, v, c) \in Nat /\ scanFrom(ms, v, c) >= 1
      BY <1>2, <3>1, <3>2
    <3>5. \A i \in 1 .. Len(ms) : ms[i].sequence > c.position <=> i >= scanFrom(ms, v, c)
      BY <1>1, <1>2, <3>1, <3>2, <3>3
    <3>6. scanFrom(ms, v, c) .. Len(ms) = {i \in 1 .. Len(ms) : i >= scanFrom(ms, v, c)}
      BY <1>1, <3>4
    <3> QED
      BY <1>1, <1>4, <3>5, <3>6 DEF candidates
  <2> QED
    BY <2>1, <2>2
<1> QED
  BY <1>3, <1>4

\* next() returns the first candidate, and moves the cursor to it.
LEMMA NextProperties ==
    ASSUME NEW ms \in Seq(Message), Consecutive(ms), NEW v \in Nat, NEW c \in QueueCursor
    PROVE  /\ next(ms, v, c) = 0 <=> candidates(ms, v, c) = {}
           /\ next(ms, v, c) # 0 =>
                  /\ next(ms, v, c) \in DOMAIN ms
                  /\ check(c, ms[next(ms, v, c)])
                  /\ \A i \in candidates(ms, v, c) : next(ms, v, c) <= i
                  /\ nextCursor(ms, v, c) = setPosition(c, ms[next(ms, v, c)].sequence, v)
           /\ next(ms, v, c) = 0 =>
                  \/ nextCursor(ms, v, c) = c
                  \/ \E i \in Live(ms) : nextCursor(ms, v, c) = setPosition(c, ms[i].sequence, v)
<1>1. DOMAIN ms = 1 .. Len(ms) /\ Len(ms) \in Nat
  BY DequeProperties
<1>2. candidates(ms, v, c) \subseteq DOMAIN ms /\ \A i \in candidates(ms, v, c) : check(c, ms[i])
  BY CandidatesByPosition
<1>3. CASE candidates(ms, v, c) # {}
  <2>1. /\ Min(candidates(ms, v, c)) \in candidates(ms, v, c)
        /\ \A i \in candidates(ms, v, c) : Min(candidates(ms, v, c)) <= i
    BY <1>1, <1>2, <1>3, MinOfNats
  <2>2. next(ms, v, c) = Min(candidates(ms, v, c))
    BY <1>3 DEF next
  <2>3. next(ms, v, c) # 0
    BY <1>1, <1>2, <2>1, <2>2
  <2>4. nextCursor(ms, v, c) = setPosition(c, ms[next(ms, v, c)].sequence, v)
    BY <1>3 DEF nextCursor
  <2> QED
    BY <1>2, <1>3, <2>1, <2>2, <2>3, <2>4
<1>4. CASE candidates(ms, v, c) = {}
  <2>1. next(ms, v, c) = 0
    BY <1>4 DEF next
  <2>2. visited(ms, v, c) \subseteq Live(ms) /\ Live(ms) \subseteq 0 .. Len(ms)
    <3>1. scanFrom(ms, v, c) \in Int /\ scanFrom(ms, v, c) >= 1
      <4>1. c.position \in Int
        BY DEF QueueCursor
      <4>2. ms # << >> => front(ms) \in Nat
        BY <1>1, DequeProperties DEF front
      <4> QED
        BY <4>1, <4>2 DEF scanFrom, offset
    <3> QED
      BY <1>1, <3>1 DEF visited, Live
  <2>3. CASE visited(ms, v, c) = {}
    BY <1>4, <2>1, <2>3 DEF nextCursor
  <2>4. CASE visited(ms, v, c) # {}
    <3>1. Max(visited(ms, v, c)) \in visited(ms, v, c)
      BY <1>1, <2>2, <2>4, MaxOfNats
    <3>2. nextCursor(ms, v, c) = setPosition(c, ms[Max(visited(ms, v, c))].sequence, v)
      BY <1>4, <2>4 DEF nextCursor
    <3> QED
      BY <1>4, <2>1, <2>2, <3>1, <3>2
  <2> QED
    BY <2>3, <2>4
<1> QED
  BY <1>3, <1>4

\* QueueCursor::setPosition keeps the type of the subscription.
LEMMA SetPositionType ==
    ASSUME NEW c \in QueueCursor, NEW p \in Int, NEW v \in Nat
    PROVE  /\ setPosition(c, p, v) \in QueueCursor
           /\ setPosition(c, p, v).type = c.type
           /\ setPosition(c, p, v).version = v
           /\ setPosition(c, p, v).position = p
<1>1. c.type \in SubscriptionTypes
  BY DEF QueueCursor
<1>2. setPosition(c, p, v) \in QueueCursor
  BY <1>1 DEF QueueCursor, setPosition
<1> QED
  BY <1>2 DEF setPosition

\* A cursor that next() has moved is a cursor of the same type.
LEMMA NextCursorType ==
    ASSUME NEW ms \in Seq(Message), Consecutive(ms), NEW v \in Nat, NEW c \in QueueCursor
    PROVE  /\ nextCursor(ms, v, c) \in QueueCursor
           /\ nextCursor(ms, v, c).type = c.type
           /\ \/ nextCursor(ms, v, c) = c
              \/ /\ nextCursor(ms, v, c).version = v
                 /\ \E i \in Live(ms) : nextCursor(ms, v, c).position = ms[i].sequence
<1>1. \/ nextCursor(ms, v, c) = c
      \/ \E i \in Live(ms) : nextCursor(ms, v, c) = setPosition(c, ms[i].sequence, v)
  BY NextProperties DEF check, Live
<1>2. \A i \in Live(ms) : /\ ms[i].sequence \in Int
                          /\ setPosition(c, ms[i].sequence, v) \in QueueCursor
                          /\ setPosition(c, ms[i].sequence, v).type = c.type
                          /\ setPosition(c, ms[i].sequence, v).version = v
                          /\ setPosition(c, ms[i].sequence, v).position = ms[i].sequence
  <2> TAKE i \in Live(ms)
  <2>1. ms[i].sequence \in Nat
    BY DequeProperties DEF Live
  <2> QED
    BY <2>1, SetPositionType
<1> QED
  BY <1>1, <1>2

----------------------------------------------------------------------------
(* The container operations keep the deque well formed                     *)

\* A well formed deque whose live messages are numbered at most s.
DequeOK(ms, s) ==
    /\ ms \in Seq(Message)
    /\ Consecutive(ms)
    /\ \A i \in Live(ms) : ms[i].sequence <= s

\* deleted() keeps the deque well formed.
LEMMA DeletedOK ==
    ASSUME NEW ms, NEW s \in Nat, DequeOK(ms, s), NEW p \in Int
    PROVE  DequeOK(deleted(ms, p), s)
<1>1. /\ deleted(ms, p) \in Seq(Message)
      /\ Consecutive(deleted(ms, p))
      /\ \A i \in DOMAIN deleted(ms, p) : \E j \in DOMAIN ms :
             /\ SameMessage(deleted(ms, p)[i], ms[j])
             /\ \/ deleted(ms, p)[i].state = "DELETED"
                \/ deleted(ms, p)[i].state = ms[j].state
  BY DeletedProperties DEF DequeOK
<1> QED
  BY <1>1 DEF DequeOK, Live, SameMessage

\* acquire() of a live message keeps the deque well formed.
LEMMA AcquireOK ==
    ASSUME NEW ms, NEW s \in Nat, DequeOK(ms, s), NEW k \in Live(ms)
    PROVE  DequeOK(acquire(ms, k), s)
<1>1. k \in DOMAIN ms
  BY DEF Live
<1>2. /\ acquire(ms, k) \in Seq(Message)
      /\ Consecutive(acquire(ms, k))
      /\ DOMAIN acquire(ms, k) = DOMAIN ms
      /\ \A i \in DOMAIN ms :
             /\ SameMessage(acquire(ms, k)[i], ms[i])
             /\ acquire(ms, k)[i].state = IF i = k THEN "ACQUIRED" ELSE ms[i].state
  BY <1>1, AcquireProperties DEF DequeOK
<1> QED
  BY <1>2 DEF DequeOK, Live, SameMessage

\* release() of a number that has been handed out keeps the deque well formed,
\* even when it brings a DELETED record back.
LEMMA ReleaseOK ==
    ASSUME NEW ms, NEW s \in Nat, DequeOK(ms, s), NEW p \in Int, p <= s
    PROVE  DequeOK(release(ms, p), s)
<1>1. /\ release(ms, p) \in Seq(Message)
      /\ Consecutive(release(ms, p))
      /\ DOMAIN release(ms, p) = DOMAIN ms
      /\ \A i \in DOMAIN ms :
             /\ SameMessage(release(ms, p)[i], ms[i])
             /\ release(ms, p)[i].state = ms[i].state \/ ms[i].sequence = p
  BY ReleaseProperties DEF DequeOK
<1> QED
  BY <1>1 DEF DequeOK, Live, SameMessage

\* publish() of the next number keeps the deque well formed.
LEMMA PublishOK ==
    ASSUME NEW ms, NEW s \in Nat, DequeOK(ms, s), NEW k \in Kinds
    PROVE  /\ inSequence(ms, s + 1)
           /\ DequeOK(publish(ms, s + 1, k), s + 1)
<1>1. \A i \in Live(ms) : ms[i].sequence < s + 1
  <2> TAKE i \in Live(ms)
  <2>1. ms[i].sequence \in Nat /\ ms[i].sequence <= s
    BY DequeProperties DEF DequeOK, Live
  <2> QED
    BY <2>1
<1>2. /\ inSequence(ms, s + 1)
      /\ publish(ms, s + 1, k) \in Seq(Message)
      /\ Consecutive(publish(ms, s + 1, k))
      /\ \A i \in DOMAIN publish(ms, s + 1, k) :
             \/ publish(ms, s + 1, k)[i].state = "DELETED"
             \/ publish(ms, s + 1, k)[i] = [sequence |-> s + 1, state |-> "AVAILABLE", kind |-> k]
             \/ \E j \in DOMAIN ms : publish(ms, s + 1, k)[i] = ms[j]
  <2>1. s + 1 \in Nat
    OBVIOUS
  <2> QED
    BY <1>1, <2>1, PublishProperties DEF DequeOK
<1>3. \A i \in Live(publish(ms, s + 1, k)) : publish(ms, s + 1, k)[i].sequence <= s + 1
  <2> TAKE i \in Live(publish(ms, s + 1, k))
  <2> DEFINE m == publish(ms, s + 1, k)[i]
  <2>1. CASE m = [sequence |-> s + 1, state |-> "AVAILABLE", kind |-> k]
    BY <2>1
  <2>2. CASE \E j \in DOMAIN ms : m = ms[j]
    <3>1. PICK j \in DOMAIN ms : m = ms[j]
      BY <2>2
    <3>2. ms[j].sequence < s + 1
      BY <1>1, <3>1 DEF Live
    <3> QED
      BY <3>1, <3>2, DequeProperties DEF DequeOK
  <2> QED
    BY <1>2, <2>1, <2>2 DEF Live
<1> QED
  BY <1>2, <1>3 DEF DequeOK

\* Every available message of d is one of ms.
AvailableFrom(d, ms) == \A i \in available(d) : \E j \in available(ms) : SameMessage(d[i], ms[j])

\* deleted() only takes messages away.
LEMMA DeletedFewer ==
    ASSUME NEW ms \in Seq(Message), Consecutive(ms), NEW p \in Int
    PROVE  AvailableFrom(deleted(ms, p), ms)
<1>1. \A i \in DOMAIN deleted(ms, p) : \E j \in DOMAIN ms :
          /\ SameMessage(deleted(ms, p)[i], ms[j])
          /\ \/ deleted(ms, p)[i].state = "DELETED"
             \/ deleted(ms, p)[i].state = ms[j].state
  BY DeletedProperties
<1> QED
  BY <1>1 DEF AvailableFrom, available

\* acquire() only takes a message away.
LEMMA AcquireFewer ==
    ASSUME NEW ms \in Seq(Message), Consecutive(ms), NEW k \in DOMAIN ms
    PROVE  AvailableFrom(acquire(ms, k), ms)
<1>1. /\ DOMAIN acquire(ms, k) = DOMAIN ms
      /\ \A i \in DOMAIN ms :
             /\ SameMessage(acquire(ms, k)[i], ms[i])
             /\ acquire(ms, k)[i].state = IF i = k THEN "ACQUIRED" ELSE ms[i].state
  BY AcquireProperties
<1> QED
  BY <1>1 DEF AvailableFrom, available

----------------------------------------------------------------------------
(* The content of a deque: its live records, without their places          *)

Content(ms) == {ms[i] : i \in Live(ms)}

\* Record m in state s.
InStateOf(m, s) == [m EXCEPT !.state = s]

\* The records not numbered p.
Without(C, p) == {m \in C : m.sequence # p}

\* Two records of a consecutive deque have different numbers.
LEMMA SameNumber ==
    ASSUME NEW ms \in Seq(Message), Consecutive(ms), NEW i \in DOMAIN ms, NEW j \in DOMAIN ms,
           ms[i].sequence = ms[j].sequence
    PROVE  i = j
<1>1. DOMAIN ms = 1 .. Len(ms) /\ Len(ms) \in Nat
  BY DequeProperties
<1>2. ms # << >> /\ front(ms) \in Nat
  <2>1. ms # << >>
    BY <1>1
  <2> QED
    BY <2>1, DequeProperties DEF front
<1>3. front(ms) + i - 1 = front(ms) + j - 1
  BY DEF Consecutive
<1>4. i \in Int /\ j \in Int
  BY <1>1
<1> QED
  BY <1>2, <1>3, <1>4

\* A record is its number, its state and its kind.
LEMMA SameRecord ==
    ASSUME NEW d \in Message, NEW m \in Message, SameMessage(d, m)
    PROVE  d = InStateOf(m, d.state)
BY DEF Message, SameMessage, InStateOf

\* What a deque contains are messages with different numbers, none DELETED.
LEMMA ContentFacts ==
    ASSUME NEW ms \in Seq(Message), Consecutive(ms)
    PROVE  /\ \A m \in Content(ms) :
                  /\ m \in Message /\ m.sequence \in Nat /\ m.state \in {"AVAILABLE", "ACQUIRED"}
                  /\ \E i \in Live(ms) : i \in DOMAIN ms /\ m = ms[i]
           /\ \A m, n \in Content(ms) : m.sequence = n.sequence => m = n
<1>1. \A i \in Live(ms) : /\ i \in DOMAIN ms /\ ms[i] \in Message /\ ms[i].sequence \in Nat
                          /\ ms[i].state \in {"AVAILABLE", "ACQUIRED"}
  BY DequeProperties DEF Live, MessageStates
<1>2. \A m, n \in Content(ms) : m.sequence = n.sequence => m = n
  BY <1>1, SameNumber DEF Content
<1> QED
  BY <1>1, <1>2 DEF Content

\* find() finds what the deque contains.
LEMMA FindContent ==
    ASSUME NEW ms \in Seq(Message), Consecutive(ms), NEW p \in Int
    PROVE  /\ find(ms, p) <=> \E m \in Content(ms) : m.sequence = p
           /\ find(ms, p) => /\ offset(ms, p) + 1 \in Live(ms)
                             /\ ms[offset(ms, p) + 1].sequence = p
<1>1. DOMAIN ms = 1 .. Len(ms) /\ Len(ms) \in Nat
  BY DequeProperties
<1>2. find(ms, p) => /\ offset(ms, p) + 1 \in Live(ms)
                     /\ ms[offset(ms, p) + 1].sequence = p
  BY <1>1, IndexProperties DEF find, Live
<1>3. ASSUME NEW i \in Live(ms), ms[i].sequence = p PROVE find(ms, p)
  <2>1. i \in DOMAIN ms /\ ms[i].state # "DELETED"
    BY DEF Live
  <2>2. ms # << >> /\ front(ms) \in Nat
    <3>1. ms # << >>
      BY <1>1, <2>1
    <3> QED
      BY <3>1, DequeProperties DEF front
  <2>3. p = front(ms) + i - 1
    BY <1>3, <2>1 DEF Consecutive
  <2>4. found(ms, p)
    BY <1>1, <2>1, <2>2, <2>3 DEF found
  <2>5. i = offset(ms, p) + 1
    BY <1>1, <1>3, <2>1, <2>4, IndexProperties
  <2> QED
    BY <2>1, <2>4, <2>5 DEF find
<1>4. find(ms, p) => \E m \in Content(ms) : m.sequence = p
  BY <1>2 DEF Content
<1>5. (\E m \in Content(ms) : m.sequence = p) => find(ms, p)
  BY <1>3 DEF Content
<1> QED
  BY <1>2, <1>4, <1>5

\* clean() loses nothing.
LEMMA CleanContent ==
    ASSUME NEW ms \in Seq(Message)
    PROVE  Content(clean(ms)) = Content(ms)
<1>1. /\ cleaned(ms) \in 0 .. Len(ms)
      /\ clean(ms) \in Seq(Message)
      /\ Len(clean(ms)) = Len(ms) - cleaned(ms)
      /\ \A i \in 1 .. Len(ms) - cleaned(ms) : clean(ms)[i] = ms[i + cleaned(ms)]
      /\ \A i \in 1 .. cleaned(ms) : ms[i].state = "DELETED"
  BY CleanProperties
<1>2. DOMAIN clean(ms) = 1 .. Len(ms) - cleaned(ms) /\ DOMAIN ms = 1 .. Len(ms) /\ Len(ms) \in Nat
  BY <1>1, DequeProperties
<1>3. \A i \in Live(clean(ms)) : i + cleaned(ms) \in Live(ms) /\ clean(ms)[i] = ms[i + cleaned(ms)]
  BY <1>1, <1>2 DEF Live
<1>4. ASSUME NEW j \in Live(ms)
      PROVE  j - cleaned(ms) \in Live(clean(ms)) /\ clean(ms)[j - cleaned(ms)] = ms[j]
  <2>1. j \in 1 .. Len(ms) /\ j \notin 1 .. cleaned(ms)
    BY <1>1, <1>2 DEF Live
  <2>2. j - cleaned(ms) \in 1 .. Len(ms) - cleaned(ms) /\ (j - cleaned(ms)) + cleaned(ms) = j
    BY <1>1, <1>2, <2>1
  <2>3. clean(ms)[j - cleaned(ms)] = ms[j]
    BY <1>1, <2>2
  <2> QED
    BY <1>2, <2>2, <2>3 DEF Live
<1> QED
  BY <1>3, <1>4 DEF Content

\* Changing the state of one record changes what the deque contains by it.
LEMMA SetStateContent ==
    ASSUME NEW ms \in Seq(Message), Consecutive(ms), NEW k \in DOMAIN ms, NEW s \in MessageStates
    PROVE  Content(setState(ms, k, s)) =
               Without(Content(ms), ms[k].sequence)
                   \cup (IF s = "DELETED" THEN {} ELSE {InStateOf(ms[k], s)})
<1> DEFINE d == setState(ms, k, s)
<1>1. DOMAIN ms = 1 .. Len(ms) /\ k \in 1 .. Len(ms)
  BY DequeProperties
<1>2. /\ d \in Seq(Message)
      /\ Len(d) = Len(ms)
      /\ \A j \in 1 .. Len(ms) : /\ SameMessage(d[j], ms[j])
                                 /\ d[j].state = IF j = k THEN s ELSE ms[j].state
  BY <1>1, SetStateProperties
<1> HIDE DEF d
<1>3. DOMAIN d = DOMAIN ms
  BY <1>1, <1>2, DequeProperties
<1>4. \A j \in DOMAIN ms : d[j] \in Message /\ ms[j] \in Message
  BY <1>2, <1>3, DequeProperties
<1>5. \A j \in DOMAIN ms : j # k => d[j] = ms[j]
  <2> TAKE j \in DOMAIN ms
  <2> HAVE j # k
  <2>1. d[j] = InStateOf(ms[j], ms[j].state)
    BY <1>1, <1>2, <1>4, SameRecord
  <2>2. ms[j] = InStateOf(ms[j], ms[j].state)
    BY <1>4, SameRecord DEF SameMessage
  <2> QED
    BY <2>1, <2>2
<1>6. d[k] = InStateOf(ms[k], s) /\ d[k].state = s
  BY <1>1, <1>2, <1>4, SameRecord
<1>7. \A j \in DOMAIN ms : ms[j].sequence = ms[k].sequence => j = k
  BY SameNumber
<1>8. Live(d) = {j \in Live(ms) : j # k} \cup (IF s = "DELETED" THEN {} ELSE {k})
  BY <1>3, <1>5, <1>6 DEF Live
<1>9. {d[j] : j \in {i \in Live(ms) : i # k}} = Without(Content(ms), ms[k].sequence)
  BY <1>5, <1>7 DEF Content, Without, Live
<1>10. Content(d) = {d[j] : j \in {i \in Live(ms) : i # k}}
                        \cup (IF s = "DELETED" THEN {} ELSE {d[k]})
  <2>1. CASE s = "DELETED"
    BY <1>8, <2>1 DEF Content
  <2>2. CASE s # "DELETED"
    BY <1>8, <2>2 DEF Content
  <2> QED
    BY <2>1, <2>2
<1> QED
  BY <1>6, <1>9, <1>10 DEF d

\* deleted() removes the message numbered p, if it is there, and no other.
LEMMA DeletedContent ==
    ASSUME NEW ms \in Seq(Message), Consecutive(ms), NEW p \in Int
    PROVE  Content(deleted(ms, p)) = Without(Content(ms), p)
<1>1. CASE ~found(ms, p)
  <2>1. deleted(ms, p) = ms
    BY <1>1 DEF deleted
  <2>2. \A m \in Content(ms) : m.sequence # p
    BY <1>1, FindContent DEF find
  <2> QED
    BY <2>1, <2>2 DEF Without
<1>2. CASE found(ms, p)
  <2> DEFINE k == offset(ms, p) + 1
             d == setState(ms, k, "DELETED")
  <2>1. k \in DOMAIN ms /\ ms[k].sequence = p /\ k \in 1 .. Len(ms)
    BY <1>2, IndexProperties, DequeProperties
  <2>2. Content(d) = Without(Content(ms), p)
    BY <2>1, SetStateContent DEF MessageStates
  <2>3. d \in Seq(Message)
    BY <2>1, SetStateProperties DEF MessageStates
  <2>4. deleted(ms, p) = clean(d)
    BY <1>2 DEF deleted
  <2> HIDE DEF d
  <2> QED
    BY <2>2, <2>3, <2>4, CleanContent
<1> QED
  BY <1>1, <1>2

\* release() of a message that is there makes it AVAILABLE.
LEMMA ReleaseContent ==
    ASSUME NEW ms \in Seq(Message), Consecutive(ms), NEW m \in Content(ms)
    PROVE  Content(release(ms, m.sequence)) =
               Without(Content(ms), m.sequence) \cup {InStateOf(m, "AVAILABLE")}
<1> DEFINE p == m.sequence
           k == offset(ms, p) + 1
<1>1. p \in Int /\ find(ms, p)
  BY ContentFacts, FindContent
<1>2. k \in Live(ms) /\ ms[k].sequence = p /\ k \in DOMAIN ms
  BY <1>1, FindContent DEF Live
<1>3. ms[k] = m
  BY <1>2, ContentFacts DEF Content
<1>4. release(ms, p) = setState(ms, k, "AVAILABLE")
  BY <1>1 DEF release, find
<1> HIDE DEF k
<1> QED
  BY <1>2, <1>3, <1>4, SetStateContent DEF MessageStates

\* acquire() of a record makes it ACQUIRED.
LEMMA AcquireContent ==
    ASSUME NEW ms \in Seq(Message), Consecutive(ms), NEW k \in DOMAIN ms
    PROVE  Content(acquire(ms, k)) =
               Without(Content(ms), ms[k].sequence) \cup {InStateOf(ms[k], "ACQUIRED")}
BY SetStateContent DEF acquire, MessageStates

\* Stripping the tail of a deque whose live records are numbered below s
\* loses nothing.
LEMMA StrippedContent ==
    ASSUME NEW ms \in Seq(Message), Consecutive(ms), NEW s \in Nat,
           \A i \in Live(ms) : ms[i].sequence < s
    PROVE  Content(stripped(ms, s)) = Content(ms)
<1> DEFINE kept == {i \in DOMAIN ms : ms[i].sequence < s \/ ms[i].state # "DELETED"}
           n == IF kept = {} THEN 0 ELSE Max(kept)
           d == SubSeq(ms, 1, n)
<1>1. stripped(ms, s) = d
  BY DEF stripped
<1>2. DOMAIN ms = 1 .. Len(ms) /\ Len(ms) \in Nat
  BY DequeProperties
<1>3. kept # {} => Max(kept) \in kept /\ \A i \in kept : Max(kept) >= i
  <2>1. kept \subseteq 0 .. Len(ms)
    BY <1>2
  <2> HIDE DEF kept
  <2> QED
    BY <1>2, <2>1, MaxOfNats
<1>4. n \in 0 .. Len(ms) /\ \A i \in Live(ms) : i \in 1 .. n
  <2>1. Live(ms) \subseteq kept /\ kept \subseteq 1 .. Len(ms)
    BY <1>2 DEF Live
  <2> HIDE DEF kept
  <2>2. CASE kept = {}
    BY <1>2, <2>1, <2>2
  <2>3. CASE kept # {}
    <3>1. n = Max(kept) /\ n \in 1 .. Len(ms) /\ \A i \in kept : n >= i
      BY <1>3, <2>1, <2>3
    <3> HIDE DEF n
    <3>2. \A i \in Live(ms) : i \in 1 .. Len(ms) /\ n >= i
      BY <2>1, <3>1
    <3> QED
      BY <1>2, <3>1, <3>2
  <2> QED
    BY <2>2, <2>3
<1> HIDE DEF n
<1>5. /\ d \in Seq(Message) /\ Len(d) = n
      /\ \A i \in 1 .. n : i \in DOMAIN ms /\ d[i] = ms[i]
  BY <1>4, PrefixConsecutive
<1> HIDE DEF d
<1>6. DOMAIN d = 1 .. n
  BY <1>5, DequeProperties
<1>7. Live(d) = Live(ms) /\ \A i \in Live(ms) : d[i] = ms[i]
  BY <1>4, <1>5, <1>6 DEF Live
<1> QED
  BY <1>1, <1>7 DEF Content

\* Padding adds nothing.
LEMMA PaddedContent ==
    ASSUME NEW ms \in Seq(Message), NEW s \in Nat, ms = << >> \/ back(ms) < s
    PROVE  Content(padded(ms, s)) = Content(ms)
<1>1. CASE ms = << >>
  BY <1>1 DEF padded
<1>2. CASE ms # << >>
  <2> DEFINE n == s - back(ms) - 1
             gap == [i \in 1 .. n |-> padding(back(ms) + i)]
             d == ms \o gap
  <2>1. DOMAIN ms = 1 .. Len(ms) /\ Len(ms) \in Nat /\ back(ms) \in Nat
    BY <1>2, DequeProperties DEF back
  <2>2. n \in Nat
    BY <1>2, <2>1
  <2>3. padded(ms, s) = d
    BY <1>2 DEF padded
  <2>4. \A i \in 1 .. n : gap[i] \in Message /\ gap[i].state = "DELETED"
    BY <2>1, <2>2 DEF padding, Message, MessageStates
  <2>5. gap \in Seq(Message) /\ Len(gap) = n
    BY <2>2, <2>4
  <2> HIDE DEF gap, n
  <2>6. /\ d \in Seq(Message)
        /\ Len(d) = Len(ms) + n
        /\ \A i \in 1 .. Len(ms) + n : d[i] = IF i <= Len(ms) THEN ms[i] ELSE gap[i - Len(ms)]
    BY <2>5, ConcatProperties
  <2> HIDE DEF d
  <2>7. DOMAIN d = 1 .. Len(ms) + n
    BY <2>6, DequeProperties
  <2>8. \A i \in DOMAIN d : \/ i \in DOMAIN ms /\ d[i] = ms[i]
                            \/ i \notin DOMAIN ms /\ d[i].state = "DELETED"
    <3> TAKE i \in DOMAIN d
    <3>1. CASE i <= Len(ms)
      BY <2>1, <2>2, <2>6, <2>7, <3>1
    <3>2. CASE ~(i <= Len(ms))
      <4>1. i \in 1 .. Len(ms) + n /\ ~(i <= Len(ms))
        BY <2>7, <3>2
      <4>2. d[i] = gap[i - Len(ms)]
        BY <2>6, <4>1
      <4>3. i - Len(ms) \in 1 .. n
        BY <2>1, <2>2, <4>1
      <4>4. i \notin DOMAIN ms
        BY <2>1, <4>1
      <4> QED
        BY <2>4, <4>2, <4>3, <4>4
    <3> QED
      BY <3>1, <3>2
  <2>9. DOMAIN ms \subseteq DOMAIN d
    BY <2>1, <2>2, <2>7
  <2>10. Live(d) = Live(ms) /\ \A i \in Live(ms) : d[i] = ms[i]
    BY <2>8, <2>9 DEF Live
  <2> QED
    BY <2>3, <2>10 DEF Content
<1> QED
  BY <1>1, <1>2

\* publish() of number s behind the live records adds the new message.
LEMMA PublishContent ==
    ASSUME NEW ms \in Seq(Message), Consecutive(ms), NEW s \in Nat, NEW k \in Kinds,
           \A i \in Live(ms) : ms[i].sequence < s
    PROVE  Content(publish(ms, s, k)) =
               Content(ms) \cup {[sequence |-> s, state |-> "AVAILABLE", kind |-> k]}
<1> DEFINE m == [sequence |-> s, state |-> "AVAILABLE", kind |-> k]
           a == clean(ms)
           b == stripped(a, s)
           c == padded(b, s)
<1>1. /\ a \in Seq(Message) /\ Consecutive(a)
      /\ \A i \in DOMAIN a : \E j \in DOMAIN ms : a[i] = ms[j]
      /\ Content(a) = Content(ms)
  BY CleanConsecutive, CleanContent
<1>2. \A i \in Live(a) : a[i].sequence < s
  BY <1>1 DEF Live
<1> HIDE DEF a
<1>3. /\ b \in Seq(Message) /\ Consecutive(b)
      /\ b = << >> \/ back(b) < s
      /\ Content(b) = Content(ms)
  BY <1>1, <1>2, StrippedProperties, StrippedContent
<1> HIDE DEF b
<1>4. c \in Seq(Message) /\ Content(c) = Content(ms)
  BY <1>3, PaddedProperties, PaddedContent
<1> HIDE DEF c
<1>5. m \in Message /\ m.state # "DELETED"
  BY DEF Message, MessageStates
<1>6. publish(ms, s, k) = Append(c, m)
  BY DEF publish, a, b, c
<1> HIDE DEF m
<1>7. /\ Append(c, m) \in Seq(Message)
      /\ Len(Append(c, m)) = Len(c) + 1
      /\ \A i \in 1 .. Len(c) : Append(c, m)[i] = c[i]
      /\ Append(c, m)[Len(c) + 1] = m
  BY <1>4, <1>5, AppendProperties
<1>8. /\ DOMAIN c = 1 .. Len(c) /\ DOMAIN Append(c, m) = 1 .. Len(c) + 1 /\ Len(c) \in Nat
  BY <1>4, <1>7, DequeProperties
<1>9. Live(Append(c, m)) = Live(c) \cup {Len(c) + 1}
  BY <1>5, <1>7, <1>8 DEF Live
<1>10. \A i \in Live(c) : Append(c, m)[i] = c[i]
  BY <1>7, <1>8 DEF Live
<1>11. Content(Append(c, m)) = Content(c) \cup {m}
  BY <1>7, <1>9, <1>10 DEF Content
<1> QED
  BY <1>4, <1>6, <1>11 DEF m

\* Counting the live records counts the messages.
LEMMA ContentCardinality ==
    ASSUME NEW ms \in Seq(Message), Consecutive(ms)
    PROVE  IsFiniteSet(Content(ms)) /\ Cardinality(Content(ms)) = Cardinality(Live(ms))
<1> DEFINE f == [i \in Live(ms) |-> ms[i]]
<1>1. DOMAIN ms = 1 .. Len(ms) /\ Len(ms) \in Nat
  BY DequeProperties
<1>2. IsFiniteSet(Live(ms))
  <2>1. Live(ms) \in SUBSET (1 .. Len(ms))
    BY <1>1 DEF Live
  <2>2. IsFiniteSet(1 .. Len(ms))
    BY <1>1, FS_Interval
  <2> QED
    BY <2>1, <2>2, FS_Subset
<1>3. \A i, j \in Live(ms) : ms[i] = ms[j] => i = j
  BY SameNumber DEF Live
<1>4. f \in Bijection(Live(ms), Content(ms))
  <2>1. f \in [Live(ms) -> Content(ms)]
    BY DEF Content
  <2>2. \A i, j \in Live(ms) : f[i] = f[j] => i = j
    BY <1>3
  <2>3. \A m \in Content(ms) : \E i \in Live(ms) : f[i] = m
    BY DEF Content
  <2> HIDE DEF f
  <2> QED
    <3>1. f \in Injection(Live(ms), Content(ms))
      BY <2>1, <2>2 DEF Injection, IsInjective
    <3>2. f \in Surjection(Live(ms), Content(ms))
      BY <2>1, <2>3 DEF Surjection
    <3> QED
      BY <3>1, <3>2 DEF Bijection
<1>5. ExistsBijection(Live(ms), Content(ms))
  BY <1>4 DEF ExistsBijection
<1> QED
  BY <1>2, <1>5, FS_Bijection
=============================================================================
