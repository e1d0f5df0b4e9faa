---------------------------- MODULE Session_proofs ----------------------------
(***************************************************************************)
(* Theorems about the two directions of an AMQP session: the transfers it  *)
(* receives (IngressCompletion) for any number of commands and any flow    *)
(* limit, and the messages it delivers (SemanticState) for any number of   *)
(* messages and deliveries, any width of the credit counters and any       *)
(* clients.  The halves share no state; each has its invariant below.      *)
(*                                                                         *)
(* Transfers.                                                              *)
(* The inductive invariant IInv says what completionsNeeded counts: the    *)
(* thread that routes the message, each write the store has not finished   *)
(* and the flow limit that holds the message (CountIsExact).  A count of   *)
(* one in the I/O thread therefore means that nothing else is outstanding, *)
(* and a count that a completer takes to zero means that nothing is.  What *)
(* became safe stays safe until the publisher is told (SafeIsFinal): a     *)
(* later write for the alternate exchange raises the count again, but no   *)
(* write for the queue and no hold of the flow limit can follow.           *)
(*                                                                         *)
(* Deliveries.                                                             *)
(* The inductive invariant SemanticInv says who owns what message by       *)
(* message, that delivery ids tell records apart, and that the counters of *)
(* a client that keeps to limited credit and one flow mode never reach the *)
(* value that means unlimited: the words are unsigned, and the count of    *)
(* outstanding deliveries is exact only because they do not wrap.          *)
(***************************************************************************)
EXTENDS IngressCompletion, SemanticState, TLAPS, FiniteSetTheorems

----------------------------------------------------------------------------
(* Transfers                                                              *)

One(p) == IF p THEN 1 ELSE 0

\* The store has not finished writing the message of the transfer for the queue.
Writing(id, q) == <<id, q>> \in writing

\* The I/O thread is between begin() and end() of the transfer.
Routing(id) == io.pc # "idle" /\ io.id = id

\* What the publisher must not be told before: the store has the message, and
\* neither the flow limit nor the I/O thread is at it.
Safe(id) == ~Writing(id, "queue") /\ id \notin index /\ ~Routing(id)

CountIsExact ==
    \A id \in Commands :
        needed[id] = One(Routing(id)) + One(Writing(id, "queue"))
                       + One(Writing(id, "alternate")) + One(id \in index)

\* Commands the session has not received yet are nowhere.
Received ==
    /\ queue \subseteq 1..received /\ active \subseteq 1..received
    /\ invoking \subseteq 1..received /\ ToSet(completedCmds) \subseteq 1..received
    /\ \A id \in Commands :
         Writing(id, "queue") \/ Writing(id, "alternate") => id <= received
    /\ io.pc # "idle" => io.id \in 1..received
    /\ io.pc = "idle" => io = Idle
    /\ io.pc = "begun" => io.id \notin queue
    /\ \A id \in Commands : Writing(id, "alternate") => id \in rerouted

\* A sync has no completion of its own.
SyncsApart ==
    \A s \in pendingSyncs : s \notin active /\ s \notin ToSet(completedCmds) /\ Safe(s)

\* A transfer whose callback is due, or has run, or that is complete, is safe.
SafeIsFinal ==
    \A id \in Commands :
        \/ id \in invoking
        \/ id \in ToSet(completedCmds)
        \/ id \in (1..received) \ incomplete
        => Safe(id)

IInv == TypeOK /\ CountIsExact /\ Received /\ SyncsApart /\ SafeIsFinal

----------------------------------------------------------------------------
(* What the helpers do                                                     *)

\* finishCompleter takes one off the count of each transfer; a count that was
\* one makes its thread run the callback.
LEMMA FinishEffect ==
    ASSUME NEW count \in [Commands -> Int], NEW done \in SUBSET Commands,
           FinishCompleter(count, done), invoking \subseteq Commands
    PROVE  /\ needed' \in [Commands -> Int]
           /\ \A i \in Commands : needed'[i] = IF i \in done THEN count[i] - 1 ELSE count[i]
           /\ \A i \in Commands : i \in invoking' <=> i \in invoking \/ (i \in done /\ count[i] = 1)
           /\ invoking' \subseteq Commands
  BY DEF FinishCompleter

\* SessionState::completeCommand completes the commands it is given and, with
\* them, only syncs that nothing but syncs precede.
LEMMA CompleteEffect ==
    ASSUME NEW open \in SUBSET Int, NEW done \in SUBSET Int, CompleteCommand(open, done),
           pendingSyncs \subseteq open, done \cap pendingSyncs = {}
    PROVE  /\ incomplete' \subseteq open /\ incomplete' \cap done = {}
           /\ pendingSyncs' \subseteq pendingSyncs /\ pendingSyncs' \subseteq incomplete'
           /\ \A c \in open \ incomplete' : c \in done \/ c \in pendingSyncs
           /\ \A s \in pendingSyncs \ pendingSyncs' : \A c \in 1..s : c \notin incomplete'
<1> DEFINE rest == open \ done
           syncs == SyncsDone(rest)
<1>1. /\ incomplete' = open \ (done \cup syncs)
      /\ pendingSyncs' = pendingSyncs \ syncs
  BY DEF CompleteCommand
<1>2. \A s \in Int :
        s \in syncs <=> s \in pendingSyncs /\ \A c \in rest : c < s => c \in pendingSyncs
  BY DEF SyncsDone
<1> HIDE DEF syncs
<1>3. ASSUME NEW s \in pendingSyncs \ pendingSyncs', NEW c \in 1..s, c \in incomplete'
      PROVE  FALSE
  <2>1. s \in syncs /\ s \in Int /\ c \in Int /\ c \in rest /\ c \notin syncs /\ c <= s
    BY <1>1, <1>3
  <2>2. c # s /\ c < s
    BY <2>1
  <2>3. c \in pendingSyncs
    BY <1>2, <2>1, <2>2
  <2>4. PICK d \in rest : d < c /\ d \notin pendingSyncs
    BY <1>2, <2>1, <2>3
  <2>5. d < s
    BY <2>1, <2>2, <2>4
  <2> QED
    BY <1>2, <2>1, <2>4, <2>5
<1>4. syncs \subseteq pendingSyncs
  BY DEF syncs, SyncsDone
<1> QED
  BY <1>1, <1>3, <1>4

----------------------------------------------------------------------------
(* Every step keeps the invariant: the I/O thread                          *)

\* begin(), and the write of a durable message, for a command that is new.
LEMMA ReceiveTransferKeeps ==
    ASSUME IInv, ReceiveTransfer
    PROVE  IInv'
<1> USE DEF IInv
<1>0. PICK id \in Commands : id = received + 1
  BY FlowAssumption DEF ReceiveTransfer, TypeOK, Commands
<1>1. /\ io = Idle /\ received < MaxCommands /\ received' = id /\ incomplete' = incomplete \cup {id}
      /\ active' = active \cup {id} /\ io' = [pc |-> "begun", id |-> id]
      /\ UNCHANGED <<callback, invoking, queue, rerouted, flowStopped, index, pendingSyncs,
                     completedCmds, requested, attached>>
  BY <1>0 DEF ReceiveTransfer, queueVars
<1>2. id \in Nat /\ received \in Nat /\ MaxCommands \in Nat /\ id > received
      /\ 1..received \subseteq 1..id /\ id \in 1..id
  BY <1>0, <1>1, FlowAssumption DEF TypeOK, Commands
<1>3. /\ io.pc = "idle" /\ io'.pc = "begun" /\ io'.id = id
      /\ io' \in [pc : {"idle", "begun", "routed", "cloned"}, id : Commands \cup {0}]
  BY <1>1, <1>2 DEF Idle
<1>4. /\ \A i \in Commands : /\ i # id => (Writing(i, "queue")' <=> Writing(i, "queue"))
                             /\ Writing(i, "alternate")' <=> Writing(i, "alternate")
      /\ needed' \in [Commands -> Int]
      /\ needed'[id] = 1 + One(Writing(id, "queue")')
      /\ \A i \in Commands : i # id => needed'[i] = needed[i]
  <2>1. CASE needed' = [Begin(id) EXCEPT ![id] = @ + 1] /\ writing' = writing \cup {<<id, "queue">>}
    <3>1. Writing(id, "queue")'
      BY <2>1 DEF Writing
    <3>2. \A i \in Commands : /\ i # id => (Writing(i, "queue")' <=> Writing(i, "queue"))
                              /\ Writing(i, "alternate")' <=> Writing(i, "alternate")
      BY <2>1 DEF Writing
    <3> QED
      BY <1>2, <2>1, <3>1, <3>2 DEF Begin, One, TypeOK
  <2>2. CASE needed' = Begin(id) /\ UNCHANGED writing
    <3>1. \A i \in Commands : /\ Writing(i, "queue")' <=> Writing(i, "queue")
                              /\ Writing(i, "alternate")' <=> Writing(i, "alternate")
      BY <2>2 DEF Writing
    <3>2. ~Writing(id, "queue")'
      BY <1>2, <3>1 DEF Received
    <3>3. needed' \in [Commands -> Int] /\ needed'[id] = 1
          /\ \A i \in Commands : i # id => needed'[i] = needed[i]
      BY <2>2 DEF Begin, TypeOK
    <3> QED
      BY <3>1, <3>2, <3>3 DEF One
  <2> QED
    BY <1>0, <2>1, <2>2 DEF ReceiveTransfer
<1>5. /\ id \notin queue /\ id \notin index /\ id \notin invoking /\ id \notin ToSet(completedCmds)
      /\ id \notin pendingSyncs /\ ~Writing(id, "alternate")
  BY <1>2 DEF Received, TypeOK
<1>6. \A i \in Commands : IF i = id THEN Routing(i)' ELSE ~Routing(i) /\ ~Routing(i)'
  BY <1>3 DEF Routing
<1>7. CountIsExact'
  BY <1>1, <1>4, <1>5, <1>6 DEF CountIsExact, One
<1>8. Received'
  BY <1>1, <1>2, <1>3, <1>4, <1>5 DEF Received
<1>9. TypeOK'
  <2>1. needed' \in [Commands -> 0..4]
    BY <1>4, <1>7 DEF CountIsExact, One
  <2>2. incomplete' \subseteq 1..received'
    BY <1>1, <1>2 DEF TypeOK
  <2>3. received' \in 0..MaxCommands
    BY <1>0, <1>1, <1>2
  <2>4. active' \subseteq Commands /\ pendingSyncs' \subseteq incomplete'
    BY <1>1 DEF TypeOK
  <2>5. writing' \subseteq Commands \X {"queue", "alternate"}
    BY <1>0 DEF TypeOK, ReceiveTransfer
  <2> QED
    BY <1>1, <1>3, <2>1, <2>2, <2>3, <2>4, <2>5 DEF TypeOK
<1>10. \A i \in Commands : i # id => (Safe(i)' <=> Safe(i))
  BY <1>1, <1>4, <1>6 DEF Safe
<1>11. SyncsApart'
  <2>1. \A s \in pendingSyncs : s \in 1..received
    BY DEF TypeOK
  <2>2. \A s \in pendingSyncs : s \in Commands /\ s # id
    BY <1>1, <1>2, <1>5, <2>1 DEF Commands
  <2> QED
    BY <1>1, <1>10, <2>2 DEF SyncsApart
<1>12. SafeIsFinal'
  <2>1. \A i \in Commands : i \in (1..received') \ incomplete' => i # id /\ i \in 1..received
    BY <1>0, <1>1, <1>2 DEF Commands
  <2> QED
    BY <1>1, <1>5, <1>10, <2>1 DEF SafeIsFinal
<1> QED
  BY <1>7, <1>8, <1>9, <1>11, <1>12

\* A step that does not write and does not touch the flow limit's index.
LEMMA WritingUnchanged ==
    ASSUME UNCHANGED writing
    PROVE  \A id \in Commands : /\ Writing(id, "queue")' <=> Writing(id, "queue")
                                /\ Writing(id, "alternate")' <=> Writing(id, "alternate")
  BY DEF Writing

\* A pending sync is a command.
LEMMA SyncsAreCommands ==
    ASSUME TypeOK
    PROVE  pendingSyncs \subseteq Commands /\ incomplete \subseteq Commands
<1>1. 1..received \subseteq Commands
  BY FlowAssumption DEF TypeOK, Commands
<1> QED
  BY <1>1 DEF TypeOK

\* A step that makes nothing unsafe and completes nothing.
LEMMA SafeKept ==
    ASSUME IInv, \A i \in Commands : Safe(i) => Safe(i)',
           UNCHANGED <<active, invoking, completedCmds, received, incomplete, pendingSyncs>>
    PROVE  SyncsApart' /\ SafeIsFinal'
<1>1. SyncsApart'
  BY SyncsAreCommands DEF IInv, SyncsApart
<1>2. SafeIsFinal'
  BY DEF IInv, SafeIsFinal
<1> QED
  BY <1>1, <1>2

\* The flow limit holds the message of a transfer that is still being routed.
LEMMA PushKeeps ==
    ASSUME IInv, Push
    PROVE  IInv'
<1> USE DEF IInv
<1>1. PICK id \in Commands : id = io.id /\ io.pc = "begun" /\ id \in 1..received /\ id \notin queue
                             /\ id \notin index
  BY DEF Push, Received, TypeOK, Commands
<1>2. /\ queue' = queue \cup {id} /\ flowStopped' \in BOOLEAN
      /\ UNCHANGED <<callback, active, invoking, writing, rerouted, received, incomplete,
                     pendingSyncs, completedCmds, requested, attached>>
  BY <1>1 DEF Push, sessionVars, TypeOK
<1>3. /\ io'.pc = "routed" /\ io'.id = id
      /\ io' \in [pc : {"idle", "begun", "routed", "cloned"}, id : Commands \cup {0}]
  BY <1>1 DEF Push, TypeOK
<1>4. /\ needed' \in [Commands -> Int]
      /\ \A i \in Commands : i # id => needed'[i] = needed[i] /\ (i \in index' <=> i \in index)
      /\ needed'[id] = needed[id] + One(id \in index')
      /\ index' \subseteq queue'
  <2>1. CASE index' = index \cup {id} /\ needed' = [needed EXCEPT ![id] = @ + 1]
    BY <1>2, <2>1 DEF TypeOK, One
  <2>2. CASE index' = index /\ needed' = needed
    BY <1>1, <1>2, <2>2 DEF TypeOK, One
  <2> QED
    BY <1>1, <2>1, <2>2 DEF Push
<1>5. \A i \in Commands : Routing(i)' <=> Routing(i)
  BY <1>1, <1>3 DEF Routing
<1>6. CountIsExact'
  BY <1>1, <1>2, <1>4, <1>5, WritingUnchanged DEF CountIsExact, One
<1>7. Received'
  BY <1>1, <1>2, <1>3, WritingUnchanged DEF Received
<1>8. TypeOK'
  <2>1. needed' \in [Commands -> 0..4]
    BY <1>4, <1>6 DEF CountIsExact, One
  <2> QED
    BY <1>1, <1>2, <1>3, <1>4, <2>1 DEF TypeOK
<1>9. Routing(id)
  BY <1>1 DEF Routing
<1>10. \A i \in Commands : Safe(i) => Safe(i)'
  BY <1>2, <1>4, <1>5, <1>9, WritingUnchanged DEF Safe
<1>11. SyncsApart' /\ SafeIsFinal'
  BY <1>2, <1>10, SafeKept
<1> QED
  BY <1>6, <1>7, <1>8, <1>11

\* The I/O thread takes the count from one to zero and completes the command:
\* nothing else of the transfer was outstanding.
LEMMA EndCompletes ==
    ASSUME IInv, NEW id \in Commands, io.id = id, io.pc \in {"routed", "cloned"}, needed[id] = 1,
           needed' = [needed EXCEPT ![id] = 0], io' = Idle,
           CompleteCommand(incomplete, {id}), callback' \subseteq callback,
           active' \subseteq active,
           UNCHANGED <<invoking, writing, queue, rerouted, flowStopped, index, received,
                       completedCmds, requested, attached>>
    PROVE  IInv'
<1> USE DEF IInv
<1>1. /\ Routing(id) /\ \A i \in Commands : i # id => ~Routing(i)
      /\ \A i \in Commands : ~Routing(i)'
      /\ io'.pc = "idle"
      /\ io' \in [pc : {"idle", "begun", "routed", "cloned"}, id : Commands \cup {0}]
  BY DEF Routing, Idle
<1>2. /\ needed' \in [Commands -> Int] /\ needed'[id] = 0
      /\ \A i \in Commands : i # id => needed'[i] = needed[i]
  BY DEF TypeOK
<1>3. ~Writing(id, "queue") /\ ~Writing(id, "alternate") /\ id \notin index
  BY <1>1 DEF CountIsExact, One
<1>4. CountIsExact'
  BY <1>1, <1>2, <1>3, WritingUnchanged DEF CountIsExact, One
<1>5. \A i \in Commands : Safe(i)' <=> Safe(i) \/ i = id
  BY <1>1, <1>3, WritingUnchanged DEF Safe
<1>6. id \notin pendingSyncs
  BY <1>1 DEF SyncsApart, Safe
<1>7. /\ incomplete' \subseteq incomplete
      /\ pendingSyncs' \subseteq pendingSyncs /\ pendingSyncs' \subseteq incomplete'
      /\ \A c \in incomplete \ incomplete' : c = id \/ c \in pendingSyncs
  <2>1. incomplete \in SUBSET Int /\ {id} \in SUBSET Int /\ pendingSyncs \subseteq incomplete
    BY DEF TypeOK, Commands
  <2>2. {id} \cap pendingSyncs = {}
    BY <1>6
  <2> QED
    BY <2>1, <2>2, CompleteEffect
<1>8. TypeOK'
  <2>1. needed' \in [Commands -> 0..4]
    BY <1>2 DEF TypeOK
  <2>2. callback' \subseteq Commands /\ active' \subseteq Commands
    BY DEF TypeOK
  <2>3. incomplete' \subseteq 1..received'
    BY <1>7 DEF TypeOK
  <2> QED
    BY <1>1, <1>7, <2>1, <2>2, <2>3 DEF TypeOK
<1>9. Received'
  BY <1>1, WritingUnchanged DEF Received
<1>10. SyncsApart'
  BY <1>5, <1>7, SyncsAreCommands DEF SyncsApart
<1>11. SafeIsFinal'
  BY <1>5, <1>7 DEF SafeIsFinal, SyncsApart, TypeOK, Commands
<1> QED
  BY <1>4, <1>8, <1>9, <1>10, <1>11

\* end() when nothing is outstanding, and end() after the callback was kept.
LEMMA EndKeeps ==
    ASSUME IInv, EndNow \/ EndDecrement
    PROVE  IInv'
<1> USE DEF IInv
<1>1. PICK id \in Commands : id = io.id
  BY DEF EndNow, EndDecrement, Received, TypeOK, Commands
<1>2. CASE EndNow
  BY <1>1, <1>2, EndCompletes DEF EndNow, queueVars
<1>3. CASE EndDecrement /\ needed[id] = 1
  <2>1. needed' = [needed EXCEPT ![id] = 0]
    BY <1>1, <1>3 DEF EndDecrement, TypeOK
  <2> QED
    BY <1>1, <1>3, <2>1, EndCompletes DEF EndDecrement, queueVars
<1>4. CASE EndDecrement /\ needed[id] # 1
  <2>1. /\ io.pc = "cloned" /\ io' = Idle /\ needed' = [needed EXCEPT ![id] = @ - 1]
        /\ UNCHANGED <<callback, active, invoking, writing, queue, rerouted, flowStopped, index,
                       received, incomplete, pendingSyncs, completedCmds, requested, attached>>
    BY <1>1, <1>4 DEF EndDecrement, queueVars
  <2>2. /\ Routing(id) /\ \A i \in Commands : i # id => ~Routing(i)
        /\ \A i \in Commands : ~Routing(i)'
        /\ io'.pc = "idle"
        /\ io' \in [pc : {"idle", "begun", "routed", "cloned"}, id : Commands \cup {0}]
    BY <1>1, <2>1 DEF Routing, Idle
  <2>3. /\ needed' \in [Commands -> Int] /\ needed'[id] = needed[id] - 1
        /\ \A i \in Commands : i # id => needed'[i] = needed[i]
    BY <2>1 DEF TypeOK
  <2>4. CountIsExact'
    BY <2>1, <2>2, <2>3, WritingUnchanged DEF CountIsExact, One
  <2>5. TypeOK'
    <3>1. needed' \in [Commands -> 0..4]
      BY <2>3, <2>4 DEF CountIsExact, One
    <3> QED
      BY <2>1, <2>2, <3>1 DEF TypeOK
  <2>6. Received'
    BY <2>1, <2>2, WritingUnchanged DEF Received
  <2>7. \A i \in Commands : Safe(i) => Safe(i)'
    BY <2>1, <2>2, WritingUnchanged DEF Safe
  <2>8. SyncsApart' /\ SafeIsFinal'
    BY <2>1, <2>7, SafeKept
  <2> QED
    BY <2>4, <2>5, <2>6, <2>8
<1> QED
  BY <1>2, <1>3, <1>4

\* end(), else: keeping the callback changes nothing that is counted.
LEMMA EndCloneKeeps ==
    ASSUME IInv, EndClone
    PROVE  IInv'
<1> USE DEF IInv
<1>1. /\ io.pc = "routed" /\ callback' = callback \cup {io.id}
      /\ UNCHANGED <<needed, active, invoking, writing, queue, rerouted, flowStopped, index,
                     received, incomplete, pendingSyncs, completedCmds, requested, attached>>
  BY DEF EndClone, queueVars, sessionVars
<1>2. /\ io'.pc = "cloned" /\ io'.id = io.id /\ io.id \in Commands
      /\ io' \in [pc : {"idle", "begun", "routed", "cloned"}, id : Commands \cup {0}]
  BY <1>1 DEF EndClone, TypeOK, Received, Commands
<1>3. \A i \in Commands : Routing(i)' <=> Routing(i)
  BY <1>1, <1>2 DEF Routing
<1>4. TypeOK' /\ Received'
  BY <1>1, <1>2, WritingUnchanged DEF TypeOK, Received
<1>5. CountIsExact'
  BY <1>1, <1>3, WritingUnchanged DEF CountIsExact, One
<1>6. \A i \in Commands : Safe(i)' <=> Safe(i)
  BY <1>1, <1>3, WritingUnchanged DEF Safe
<1>7. SyncsApart' /\ SafeIsFinal'
  BY <1>1, <1>6, SafeKept
<1> QED
  BY <1>4, <1>5, <1>7

\* A sync that has to wait is apart from every transfer; one that has not is
\* complete with every command before it.
LEMMA ReceiveSyncKeeps ==
    ASSUME IInv, ReceiveSync
    PROVE  IInv'
<1> USE DEF IInv
<1>1. PICK id \in Commands : id = received + 1
  BY FlowAssumption DEF ReceiveSync, TypeOK, Commands
<1>2. /\ io = Idle /\ received' = id
      /\ UNCHANGED <<needed, callback, active, invoking, writing, queue, rerouted, flowStopped,
                     index, io, completedCmds, requested, attached>>
  BY <1>1 DEF ReceiveSync, completionVars, queueVars
<1>3. /\ id \in Nat /\ received \in Nat /\ id > received /\ 1..received \subseteq 1..id /\ id \in 1..id
      /\ id \in 0..MaxCommands
      /\ 1..id \subseteq (1..received) \cup {id}
  BY <1>1, FlowAssumption DEF TypeOK, Commands
<1>4. /\ id \notin queue /\ id \notin index /\ id \notin active /\ id \notin ToSet(completedCmds)
      /\ ~Writing(id, "queue") /\ id \notin incomplete /\ id \notin pendingSyncs /\ id \notin invoking
  BY <1>3 DEF Received, TypeOK
<1>5. ~Routing(id)
  BY <1>2 DEF Routing, Idle
<1>6. /\ incomplete' \subseteq incomplete \cup {id}
      /\ pendingSyncs' \subseteq pendingSyncs \cup {id} /\ pendingSyncs' \subseteq incomplete'
      /\ \A c \in incomplete : c \notin incomplete' => c \in pendingSyncs
  <2>1. CASE incomplete # {}
    BY <1>1, <2>1 DEF ReceiveSync, TypeOK
  <2>2. CASE incomplete = {}
    <3>1. pendingSyncs = {} /\ CompleteCommand({id}, {id})
      BY <1>1, <2>2 DEF ReceiveSync, TypeOK
    <3>2. {id} \in SUBSET Int
      BY <1>3
    <3> QED
      BY <2>2, <3>1, <3>2, CompleteEffect
  <2> QED
    BY <2>1, <2>2
<1>7. \A i \in Commands : (Routing(i)' <=> Routing(i)) /\ (Safe(i)' <=> Safe(i))
  BY <1>2, WritingUnchanged DEF Routing, Safe
<1>8. CountIsExact'
  BY <1>2, <1>7, WritingUnchanged DEF CountIsExact, One
<1>9. Received'
  <2>1. \A i \in Commands : i <= received => i <= id
    BY <1>3 DEF Commands
  <2> QED
    BY <1>2, <1>3, <2>1, WritingUnchanged DEF Received
<1>10. TypeOK'
  <2>1. incomplete' \subseteq 1..received'
    BY <1>2, <1>3, <1>6 DEF TypeOK
  <2> QED
    BY <1>2, <1>3, <1>6, <2>1 DEF TypeOK
<1>11. Safe(id)
  BY <1>4, <1>5 DEF Safe
<1>12. SyncsApart'
  BY <1>2, <1>4, <1>6, <1>7, <1>11, SyncsAreCommands DEF SyncsApart
<1>13. SafeIsFinal'
  <2>1. \A i \in Commands : i \in (1..received') \ incomplete' =>
          i = id \/ i \in pendingSyncs \/ i \in (1..received) \ incomplete
    BY <1>2, <1>3, <1>6
  <2> QED
    BY <1>2, <1>7, <1>11, <2>1 DEF SafeIsFinal, SyncsApart
<1> QED
  BY <1>8, <1>9, <1>10, <1>12, <1>13

\* The commands that were scheduled are complete, and with them the syncs.
LEMMA CompleteCommandsKeeps ==
    ASSUME IInv, CompleteCommands
    PROVE  IInv'
<1> USE DEF IInv
<1>1. /\ requested' = FALSE /\ completedCmds' = <<>>
      /\ UNCHANGED <<needed, callback, active, invoking, writing, queue, rerouted, flowStopped,
                     index, io, received, attached>>
  BY DEF CompleteCommands, Cleared, completionVars, queueVars
<1>2. ToSet(completedCmds') = {} /\ completedCmds' \in Seq(Commands)
  BY <1>1 DEF ToSet
<1>3. /\ incomplete' \subseteq incomplete
      /\ pendingSyncs' \subseteq pendingSyncs /\ pendingSyncs' \subseteq incomplete'
      /\ \A c \in incomplete \ incomplete' : c \in ToSet(completedCmds) \/ c \in pendingSyncs
  <2>1. CASE attached
    <3>1. CompleteCommand(incomplete, ToSet(completedCmds))
      BY <2>1 DEF CompleteCommands
    <3>2. incomplete \in SUBSET Int /\ pendingSyncs \subseteq incomplete
      BY DEF TypeOK
    <3>3. ToSet(completedCmds) \in SUBSET Int /\ ToSet(completedCmds) \cap pendingSyncs = {}
      BY DEF Received, SyncsApart, TypeOK
    <3> QED
      BY <3>1, <3>2, <3>3, CompleteEffect
  <2>2. CASE ~attached
    BY <2>2 DEF CompleteCommands, TypeOK
  <2> QED
    BY <2>1, <2>2
<1>4. \A i \in Commands : (Routing(i)' <=> Routing(i)) /\ (Safe(i)' <=> Safe(i))
  BY <1>1, WritingUnchanged DEF Routing, Safe
<1>5. CountIsExact' /\ Received'
  BY <1>1, <1>2, <1>4, WritingUnchanged DEF CountIsExact, Received, One
<1>6. TypeOK'
  <2>1. incomplete' \subseteq 1..received'
    BY <1>1, <1>3 DEF TypeOK
  <2>2. requested' \in BOOLEAN
    BY <1>1, Zenon
  <2> QED
    BY <1>1, <1>2, <1>3, <2>1, <2>2 DEF TypeOK
<1>7. SyncsApart'
  BY <1>1, <1>2, <1>3, <1>4, SyncsAreCommands DEF SyncsApart
<1>8. SafeIsFinal'
  BY <1>1, <1>2, <1>3, <1>4, SyncsAreCommands DEF SafeIsFinal, SyncsApart
<1> QED
  BY <1>5, <1>6, <1>7, <1>8

\* The session ends and nothing else changes.
LEMMA DetachKeeps ==
    ASSUME IInv, Detach
    PROVE  IInv'
<1> USE DEF IInv
<1>1. /\ attached' = FALSE
      /\ UNCHANGED <<needed, callback, active, invoking, writing, queue, rerouted, flowStopped,
                     index, io, received, incomplete, pendingSyncs, completedCmds, requested>>
  BY DEF Detach, completionVars, queueVars
<1>2. attached' \in BOOLEAN
  BY <1>1, Zenon
<1>3. \A i \in Commands : (Routing(i)' <=> Routing(i)) /\ (Safe(i)' <=> Safe(i))
  BY <1>1, WritingUnchanged DEF Routing, Safe
<1>4. CountIsExact' /\ Received'
  BY <1>1, <1>3, WritingUnchanged DEF CountIsExact, Received, One
<1>5. TypeOK'
  BY <1>1, <1>2 DEF TypeOK
<1>6. SyncsApart' /\ SafeIsFinal'
  BY <1>1, <1>3, SafeKept
<1> QED
  BY <1>4, <1>5, <1>6

----------------------------------------------------------------------------
(* Every step keeps the invariant: the completers                          *)

\* Completers take transfers off what is counted.  Of a transfer whose count
\* that takes to zero nothing is outstanding, and no other becomes unsafe.
LEMMA CompletersKeep ==
    ASSUME IInv, CountIsExact', needed' \in [Commands -> Int],
           NEW done \in SUBSET Commands,
           \A i \in Commands : i \in invoking' => i \in invoking \/ (i \in done /\ needed'[i] = 0),
           \A i \in done : i \in 1..received,
           \A i \in Commands : /\ Writing(i, "queue")' => Writing(i, "queue")
                               /\ Writing(i, "alternate")' => i \in rerouted' /\ i <= received,
           invoking' \subseteq Commands, writing' \subseteq Commands \X {"queue", "alternate"},
           queue' \subseteq queue, rerouted' \subseteq Commands, index' \subseteq queue',
           index' \subseteq index, flowStopped' \in BOOLEAN,
           UNCHANGED <<callback, active, io, received, incomplete, pendingSyncs, completedCmds,
                       requested, attached>>
    PROVE  IInv'
<1> USE DEF IInv
<1>1. TypeOK'
  <2>1. needed' \in [Commands -> 0..4]
    BY DEF CountIsExact, One
  <2>2. queue' \subseteq Commands
    BY DEF TypeOK
  <2> QED
    BY <2>1, <2>2 DEF TypeOK
<1>2. Received'
  <2>1. invoking' \subseteq 1..received /\ queue' \subseteq 1..received
    BY DEF Received
  <2> QED
    BY <2>1 DEF Received
<1>3. \A i \in Commands : Routing(i)' <=> Routing(i)
  BY DEF Routing
<1>4. \A i \in Commands : Safe(i) => Safe(i)'
  BY <1>3 DEF Safe
<1>5. \A i \in Commands : needed'[i] = 0 => Safe(i)'
  BY <1>3 DEF Safe, CountIsExact, One
<1>6. SyncsApart'
  BY <1>4, SyncsAreCommands DEF SyncsApart
<1>7. SafeIsFinal'
  BY <1>4, <1>5 DEF SafeIsFinal
<1> QED
  BY <1>1, <1>2, <1>6, <1>7

\* The store has finished one write.
LEMMA StoreDoneKeeps ==
    ASSUME IInv, StoreDone
    PROVE  IInv'
<1> USE DEF IInv
<1>1. PICK w \in writing : writing' = writing \ {w} /\ FinishCompleter(needed, {w[1]})
  BY DEF StoreDone
<1>2. UNCHANGED <<callback, active, queue, rerouted, flowStopped, index, io, received, incomplete,
                  pendingSyncs, completedCmds, requested, attached>>
  BY DEF StoreDone, queueVars, sessionVars
<1>3. PICK id \in Commands, q \in {"queue", "alternate"} : w = <<id, q>>
  BY DEF TypeOK
<1>4. Writing(id, q) /\ writing' = writing \ {<<id, q>>} /\ FinishCompleter(needed, {id})
  BY <1>1, <1>3 DEF Writing
<1>5. \A i \in Commands : \A p \in {"queue", "alternate"} :
        Writing(i, p)' <=> Writing(i, p) /\ ~(i = id /\ p = q)
  BY <1>4 DEF Writing
<1>6. /\ needed' \in [Commands -> Int]
      /\ \A i \in Commands : needed'[i] = IF i = id THEN needed[i] - 1 ELSE needed[i]
      /\ \A i \in Commands : i \in invoking' <=> i \in invoking \/ (i = id /\ needed[i] = 1)
      /\ invoking' \subseteq Commands
  <2>1. needed \in [Commands -> Int] /\ {id} \in SUBSET Commands /\ invoking \subseteq Commands
    BY DEF TypeOK
  <2> QED
    BY <1>4, <2>1, FinishEffect
<1>7. \A i \in Commands : Routing(i)' <=> Routing(i)
  BY <1>2 DEF Routing
<1>8. CountIsExact'
  <2>1. CASE q = "queue"
    <3>1. \A i \in Commands : /\ Writing(i, "queue")' <=> Writing(i, "queue") /\ i # id
                              /\ Writing(i, "alternate")' <=> Writing(i, "alternate")
      BY <1>5, <2>1
    <3> QED
      BY <1>2, <1>4, <1>6, <1>7, <2>1, <3>1 DEF CountIsExact, One
  <2>2. CASE q = "alternate"
    <3>1. \A i \in Commands : /\ Writing(i, "queue")' <=> Writing(i, "queue")
                              /\ Writing(i, "alternate")' <=> Writing(i, "alternate") /\ i # id
      BY <1>5, <2>2
    <3> QED
      BY <1>2, <1>4, <1>6, <1>7, <2>2, <3>1 DEF CountIsExact, One
  <2> QED
    BY <2>1, <2>2
<1>9. \A i \in Commands : /\ Writing(i, "queue")' => Writing(i, "queue")
                          /\ Writing(i, "alternate")' => i \in rerouted' /\ i <= received
  BY <1>2, <1>5 DEF Received
<1>10. id \in 1..received
  BY <1>4 DEF Received, TypeOK, Commands
<1>11. \A i \in Commands : i \in invoking' => i \in invoking \/ (i \in {id} /\ needed'[i] = 0)
  BY <1>6 DEF TypeOK
<1>12. writing' \subseteq Commands \X {"queue", "alternate"}
  BY <1>4 DEF TypeOK
<1>13. {id} \in SUBSET Commands /\ queue' \subseteq queue /\ rerouted' \subseteq Commands
       /\ index' \subseteq queue' /\ index' \subseteq index /\ flowStopped' \in BOOLEAN
  BY <1>2 DEF TypeOK
<1> QED
  BY <1>2, <1>6, <1>8, <1>9, <1>10, <1>11, <1>12, <1>13, CompletersKeep

\* What QueueFlowLimit::dequeued lets go was held.
LEMMA FlowEffect ==
    ASSUME TypeOK, NEW id \in Commands, NEW count \in [Commands -> Int], FlowDequeued(id, count)
    PROVE  \E done \in SUBSET index :
             /\ queue' = queue \ {id} /\ flowStopped' \in BOOLEAN
             /\ index' = index \ done /\ index' \subseteq queue'
             /\ FinishCompleter(count, done)
<1> DEFINE resumed == ~flowStopped \/ FlowResume = 0 \/ Cardinality(queue) - 1 < FlowResume
           done == Released(id, resumed)
<1>1. /\ queue' = queue \ {id} /\ flowStopped' = ~resumed /\ index' = index \ done
      /\ FinishCompleter(count, done)
  BY DEF FlowDequeued
<1>2. done \in SUBSET index /\ (id \in index => id \in done)
  BY DEF Released
<1>3. flowStopped' \in BOOLEAN
  BY <1>1
<1> HIDE DEF resumed, done
<1>4. index' \subseteq queue'
  BY <1>1, <1>2 DEF TypeOK
<1> QED
  BY <1>1, <1>2, <1>3, <1>4

\* A consumer takes the message from the queue.
LEMMA DequeueKeeps ==
    ASSUME IInv, NEW id \in Commands, Dequeue(id)
    PROVE  IInv'
<1> USE DEF IInv
<1>1. needed \in [Commands -> Int]
  BY DEF TypeOK
<1>2. PICK done \in SUBSET index :
        /\ queue' = queue \ {id} /\ flowStopped' \in BOOLEAN
        /\ index' = index \ done /\ index' \subseteq queue'
        /\ FinishCompleter(needed, done)
  BY <1>1, FlowEffect DEF Dequeue
<1>3. UNCHANGED <<callback, active, writing, rerouted, io, received, incomplete,
                  pendingSyncs, completedCmds, requested, attached>>
  BY DEF Dequeue, sessionVars
<1>4. done \in SUBSET Commands /\ done \subseteq 1..received /\ rerouted' \subseteq Commands
      /\ queue' \subseteq queue /\ index' \subseteq index
      /\ writing' \subseteq Commands \X {"queue", "alternate"}
  BY <1>2, <1>3 DEF TypeOK, Received
<1>5. /\ needed' \in [Commands -> Int]
      /\ \A i \in Commands : needed'[i] = IF i \in done THEN needed[i] - 1 ELSE needed[i]
      /\ \A i \in Commands : i \in invoking' <=> i \in invoking \/ (i \in done /\ needed[i] = 1)
      /\ invoking' \subseteq Commands
  <2>1. invoking \subseteq Commands
    BY DEF TypeOK
  <2> QED
    BY <1>1, <1>2, <1>4, <2>1, FinishEffect
<1>6. \A i \in Commands : Routing(i)' <=> Routing(i)
  BY <1>3 DEF Routing
<1>7. CountIsExact'
  <2>1. \A i \in Commands : i \in index' <=> i \in index /\ i \notin done
    BY <1>2
  <2>2. \A i \in done : i \in index
    BY <1>2
  <2> QED
    BY <1>3, <1>5, <1>6, <2>1, <2>2, WritingUnchanged DEF CountIsExact, One
<1>8. \A i \in Commands : /\ Writing(i, "queue")' => Writing(i, "queue")
                          /\ Writing(i, "alternate")' => i \in rerouted' /\ i <= received
  BY <1>3, WritingUnchanged DEF Received
<1>9. \A i \in Commands : i \in invoking' => i \in invoking \/ (i \in done /\ needed'[i] = 0)
  BY <1>5
<1> QED
  BY <1>2, <1>3, <1>4, <1>5, <1>7, <1>8, <1>9, CompletersKeep

\* A consumer rejects it: the write for the alternate exchange is counted
\* before the flow limit lets the transfer go.
LEMMA RerouteKeeps ==
    ASSUME IInv, NEW id \in Commands, Reroute(id)
    PROVE  IInv'
<1> USE DEF IInv
<1> DEFINE count == [needed EXCEPT ![id] = @ + 1]
<1>1. /\ count \in [Commands -> Int]
      /\ \A i \in Commands : count[i] = IF i = id THEN needed[i] + 1 ELSE needed[i]
  BY DEF TypeOK
<1>2. PICK done \in SUBSET index :
        /\ queue' = queue \ {id} /\ flowStopped' \in BOOLEAN
        /\ index' = index \ done /\ index' \subseteq queue'
        /\ FinishCompleter(count, done)
  BY <1>1, FlowEffect DEF Reroute
<1> HIDE DEF count
<1>3. /\ id \in queue /\ id \notin rerouted /\ rerouted' = rerouted \cup {id}
      /\ writing' = writing \cup {<<id, "alternate">>}
      /\ UNCHANGED <<callback, active, io, received, incomplete, pendingSyncs, completedCmds,
                     requested, attached>>
  BY DEF Reroute, sessionVars
<1>4. done \in SUBSET Commands /\ done \subseteq 1..received /\ rerouted' \subseteq Commands
      /\ queue' \subseteq queue /\ index' \subseteq index
  BY <1>2, <1>3 DEF TypeOK, Received
<1>5. writing' \subseteq Commands \X {"queue", "alternate"}
  BY <1>3 DEF TypeOK
<1>6. /\ needed' \in [Commands -> Int]
      /\ \A i \in Commands : needed'[i] = IF i \in done THEN count[i] - 1 ELSE count[i]
      /\ \A i \in Commands : i \in invoking' <=> i \in invoking \/ (i \in done /\ count[i] = 1)
      /\ invoking' \subseteq Commands
  <2>1. invoking \subseteq Commands
    BY DEF TypeOK
  <2> QED
    BY <1>1, <1>2, <1>4, <2>1, FinishEffect
<1>7. \A i \in Commands : Routing(i)' <=> Routing(i)
  BY <1>3 DEF Routing
<1>8. \A i \in Commands : /\ Writing(i, "queue")' <=> Writing(i, "queue")
                          /\ Writing(i, "alternate")' <=> Writing(i, "alternate") \/ i = id
  BY <1>3 DEF Writing
<1>9. ~Writing(id, "alternate") /\ id <= received
  BY <1>3 DEF Received, TypeOK
<1>10. CountIsExact'
  <2>1. \A i \in Commands : i \in index' <=> i \in index /\ i \notin done
    BY <1>2
  <2>2. \A i \in done : i \in index
    BY <1>2
  <2> QED
    BY <1>1, <1>6, <1>7, <1>8, <1>9, <2>1, <2>2 DEF CountIsExact, One
<1>11. \A i \in Commands : /\ Writing(i, "queue")' => Writing(i, "queue")
                           /\ Writing(i, "alternate")' => i \in rerouted' /\ i <= received
  BY <1>3, <1>8, <1>9 DEF Received
<1>12. \A i \in Commands : i \in invoking' => i \in invoking \/ (i \in done /\ needed'[i] = 0)
  BY <1>6
<1> QED
  BY <1>2, <1>3, <1>4, <1>5, <1>6, <1>10, <1>11, <1>12, CompletersKeep

\* A callback that runs schedules the command it belongs to, once.
LEMMA InvokeCallbackKeeps ==
    ASSUME IInv, NEW id \in Commands, InvokeCallback(id)
    PROVE  IInv'
<1> USE DEF IInv
<1>1. /\ id \in invoking /\ invoking' = invoking \ {id}
      /\ callback' = callback \ {id} /\ active' = active \ {id}
      /\ UNCHANGED <<needed, writing, queue, rerouted, flowStopped, index, io, received, incomplete,
                     pendingSyncs, attached>>
  BY DEF InvokeCallback, InvokeOnce, queueVars
<1>2. /\ completedCmds' \in Seq(Commands) /\ requested' \in BOOLEAN
      /\ \A c : c \in ToSet(completedCmds') =>
           c \in ToSet(completedCmds) \/ (c = id /\ id \in active)
  <2>1. CASE id \in active /\ completedCmds' = Append(completedCmds, id)
             /\ requested' = (requested \/ completedCmds = <<>>)
    <3>1. completedCmds' \in Seq(Commands) /\ requested' \in BOOLEAN
      BY <2>1 DEF TypeOK
    <3>2. \A i \in DOMAIN completedCmds' :
            \/ i \in DOMAIN completedCmds /\ completedCmds'[i] = completedCmds[i]
            \/ completedCmds'[i] = id
      BY <2>1 DEF TypeOK
    <3> QED
      BY <2>1, <3>1, <3>2 DEF ToSet
  <2>2. CASE UNCHANGED <<completedCmds, requested>>
    BY <2>2 DEF TypeOK
  <2> QED
    BY <2>1, <2>2 DEF InvokeCallback
<1>3. \A i \in Commands : (Routing(i)' <=> Routing(i)) /\ (Safe(i)' <=> Safe(i))
  BY <1>1, WritingUnchanged DEF Routing, Safe
<1>4. CountIsExact'
  BY <1>1, <1>3, WritingUnchanged DEF CountIsExact, One
<1>5. TypeOK'
  <2>1. invoking' \subseteq Commands /\ callback' \subseteq Commands /\ active' \subseteq Commands
    BY <1>1 DEF TypeOK
  <2> QED
    BY <1>1, <1>2, <2>1 DEF TypeOK
<1>6. Received'
  <2>1. /\ invoking' \subseteq 1..received /\ active' \subseteq 1..received
        /\ ToSet(completedCmds') \subseteq 1..received
    BY <1>1, <1>2 DEF Received
  <2> QED
    BY <1>1, <2>1, WritingUnchanged DEF Received
<1>7. SyncsApart'
  BY <1>1, <1>2, <1>3, SyncsAreCommands DEF SyncsApart
<1>8. SafeIsFinal'
  BY <1>1, <1>2, <1>3 DEF SafeIsFinal
<1> QED
  BY <1>4, <1>5, <1>6, <1>7, <1>8

----------------------------------------------------------------------------
(* The theorems                                                            *)

\* The session starts with nothing received.
LEMMA InitKeeps ==
    ASSUME Init
    PROVE  IInv
<1> USE DEF Init
<1>1. TypeOK
  <2>1. flowStopped \in BOOLEAN /\ requested \in BOOLEAN /\ attached \in BOOLEAN
    BY Zenon
  <2>2. io \in [pc : {"idle", "begun", "routed", "cloned"}, id : Commands \cup {0}]
    BY DEF Idle
  <2>3. needed \in [Commands -> 0..4] /\ received \in 0..MaxCommands /\ completedCmds \in Seq(Commands)
    BY FlowAssumption
  <2> QED
    BY <2>1, <2>2, <2>3 DEF TypeOK
<1>2. ToSet(completedCmds) = {}
  BY DEF ToSet
<1>3. \A id \in Commands : ~Routing(id) /\ ~Writing(id, "queue") /\ ~Writing(id, "alternate")
  BY DEF Routing, Writing, Idle
<1>4. CountIsExact
  BY <1>3 DEF CountIsExact, One
<1>5. Received
  BY <1>2, <1>3 DEF Received, Idle
<1>6. SyncsApart /\ SafeIsFinal
  BY <1>2, <1>3 DEF SyncsApart, SafeIsFinal, Safe
<1> QED
  BY <1>1, <1>4, <1>5, <1>6 DEF IInv

\* IInv is an inductive invariant: whatever the order in which routing, end(),
\* the store, the flow limit and the callbacks run, the count is exact and
\* what was safe stays safe.
THEOREM Inductive == Spec => []IInv
<1>1. Init => IInv
  BY InitKeeps
<1>2. ASSUME IInv, [Next]_vars
      PROVE  IInv'
  <2>1. CASE UNCHANGED vars
    <3>1. UNCHANGED <<needed, callback, active, invoking, writing, queue, rerouted, flowStopped,
                      index, io, received, incomplete, pendingSyncs, completedCmds, requested,
                      attached>>
      BY <2>1 DEF vars, completionVars, queueVars, sessionVars
    <3>2. \A i \in Commands : (Routing(i)' <=> Routing(i)) /\ (Safe(i)' <=> Safe(i))
      BY <3>1, WritingUnchanged DEF Routing, Safe
    <3>3. TypeOK' /\ CountIsExact' /\ Received'
      BY <1>2, <3>1, <3>2, WritingUnchanged DEF IInv, TypeOK, CountIsExact, Received, One
    <3> QED
      BY <1>2, <3>1, <3>2, <3>3, SafeKept DEF IInv
  <2>2. CASE ReceiveTransfer \/ ReceiveSync \/ Detach
    BY <1>2, <2>2, ReceiveTransferKeeps, ReceiveSyncKeeps, DetachKeeps
  <2>3. CASE IOThread
    BY <1>2, <2>3, PushKeeps, EndKeeps, EndCloneKeeps, CompleteCommandsKeeps DEF IOThread
  <2>4. CASE StoreDone
    BY <1>2, <2>4, StoreDoneKeeps
  <2>5. CASE \E id \in Commands : Dequeue(id) \/ Reroute(id) \/ InvokeCallback(id)
    BY <1>2, <2>5, DequeueKeeps, RerouteKeeps, InvokeCallbackKeeps
  <2> QED
    BY <1>2, <2>1, <2>2, <2>3, <2>4, <2>5 DEF Next
<1> QED
  BY <1>1, <1>2, PTL DEF Spec

\* A publisher is told that a transfer is complete only when the store has
\* written the message and the flow limit does not hold it back.
THEOREM CompletionIsSafe == Spec => []CompletedWhenSafe
<1>1. IInv => CompletedWhenSafe
  <2> SUFFICES ASSUME IInv, NEW id \in (1..received) \ incomplete
               PROVE  <<id, "queue">> \notin writing /\ id \notin index
    BY DEF CompletedWhenSafe, IInv
  <2>1. id \in Commands
    BY FlowAssumption DEF IInv, TypeOK, Commands
  <2>2. Safe(id)
    BY <2>1 DEF IInv, SafeIsFinal
  <2> QED
    BY <2>2 DEF Safe, Writing
<1> QED
  BY <1>1, Inductive, PTL

\* An execution.sync is complete only when every command before it is: only
\* completeCommand removes a pending sync, and it removes no sync that a
\* command other than a sync precedes.
THEOREM SyncIsBarrierHolds == Spec => SyncIsBarrier
<1> DEFINE Barrier == \A s \in (pendingSyncs \ pendingSyncs') : \A c \in 1..s : c \notin incomplete'
<1>1. ASSUME IInv, [Next]_vars
      PROVE  [Barrier]_vars
  <2> SUFFICES ASSUME Next PROVE Barrier
    BY <1>1
  <2>1. /\ incomplete \in SUBSET Int /\ pendingSyncs \subseteq incomplete
        /\ ToSet(completedCmds) \in SUBSET Int /\ ToSet(completedCmds) \cap pendingSyncs = {}
    BY <1>1 DEF IInv, TypeOK, Received, SyncsApart
  <2>2. CASE UNCHANGED pendingSyncs
    BY <2>2
  <2>3. CASE EndNow \/ EndDecrement
    <3>1. CASE CompleteCommand(incomplete, {io.id})
      <4>1. {io.id} \in SUBSET Int
        BY <1>1, <2>3 DEF IInv, TypeOK, Commands
      <4>2. io.id \notin pendingSyncs
        BY <1>1, <2>3 DEF IInv, SyncsApart, Safe, Routing, EndNow, EndDecrement
      <4> QED
        BY <2>1, <3>1, <4>1, <4>2, CompleteEffect
    <3> QED
      BY <2>2, <2>3, <3>1 DEF EndNow, EndDecrement
  <2>4. CASE CompleteCommands
    <3>1. CASE CompleteCommand(incomplete, ToSet(completedCmds))
      BY <2>1, <3>1, CompleteEffect
    <3> QED
      BY <2>2, <2>4, <3>1 DEF CompleteCommands
  <2>5. CASE ReceiveSync
    <3>1. pendingSyncs \subseteq pendingSyncs' \/ pendingSyncs = {}
      BY <2>1, <2>5 DEF ReceiveSync
    <3> QED
      BY <3>1
  <2>6. CASE ReceiveTransfer \/ Detach \/ StoreDone \/ Push \/ EndClone
    BY <2>2, <2>6 DEF ReceiveTransfer, Detach, StoreDone, Push, EndClone, sessionVars
  <2>7. CASE \E id \in Commands : Dequeue(id) \/ Reroute(id) \/ InvokeCallback(id)
    BY <2>2, <2>7 DEF Dequeue, Reroute, InvokeCallback, sessionVars
  <2> QED
    BY <2>3, <2>4, <2>5, <2>6, <2>7 DEF Next, IOThread
<1> QED
  BY <1>1, Inductive, PTL DEF Spec, SyncIsBarrier

----------------------------------------------------------------------------
(* Deliveries                                                             *)

\* The ids of the records.
IdsOK ==
    /\ \A r \in unacked : r.id < nextId
    /\ \A r, q \in unacked : r.id = q.id => r = q

\* Acquired messages and owning records, one to one; what was acquired through
\* a record that had ended stays acquired.
OwnersOK ==
    /\ \A r \in unacked : Owned(r) => state[r.msg] = "ACQUIRED" /\ r.msg \notin stranded
    /\ \A m \in Msgs : state[m] = "ACQUIRED" /\ m \notin stranded =>
                          \E r \in unacked : r.msg = m /\ Owned(r)
    /\ \A r, q \in unacked : Owned(r) /\ Owned(q) /\ r.msg = q.msg => r = q
    /\ \A m \in stranded : state[m] = "ACQUIRED"

\* Only the end of the subscription cancels records.
NotCancelled == consuming => \A r \in unacked : ~r.cancelled

\* One flow mode, and all records in it.
OneMode == "mode" \notin ClientCommands => \A r \in unacked : r.windowing = windowing

\* The window counts what is outstanding and stays below unlimited.
WindowOK ==
    consuming /\ windowing /\ Steady =>
        /\ window.used = Cardinality(Outstanding)
        /\ window.used <= Word - 2
        /\ window.balance <= Word - 2

SemanticInv ==
    /\ SemanticTypeOK /\ IsFiniteSet(unacked) /\ IdsOK /\ NotCancelled /\ OneMode /\ WindowOK

OInv == SemanticInv /\ OwnersOK

----------------------------------------------------------------------------
(* Words                                                                   *)

\* Counting modulo w.
LEMMA Modulo ==
    ASSUME NEW w \in Nat \ {0}, NEW x \in Int
    PROVE  x % w \in 0 .. w - 1
OBVIOUS

\* Small numbers do not wrap.
LEMMA NoWrap ==
    ASSUME NEW w \in Nat \ {0}, NEW x \in 0 .. w - 1
    PROVE  x % w = x
OBVIOUS

\* Credit granted is a word, and unlimited only if either part was.
LEMMA GrantedFacts ==
    ASSUME NEW b \in 0 .. Word - 1, NEW v \in 0 .. Word - 1
    PROVE  /\ granted(b, v) \in 0 .. Word - 1
           /\ b # Word - 1 /\ v # Word - 1 => granted(b, v) <= Word - 2
BY SessionAssumption DEF granted, INFINITE_CREDIT

----------------------------------------------------------------------------
(* What the steps do to the records                                        *)

\* A record is a record, field by field.
LEMMA RecordFacts ==
    ASSUME SemanticTypeOK
    PROVE  \A r \in unacked :
               /\ r \in DeliveryRecord /\ r.id \in 1 .. MaxDeliveries /\ r.msg \in Msgs
               /\ r.acquired \in BOOLEAN /\ r.cancelled \in BOOLEAN /\ r.completed \in BOOLEAN
               /\ r.ended \in BOOLEAN /\ r.windowing \in BOOLEAN
BY DEF SemanticTypeOK, DeliveryRecord

\* Record r becomes r2: the same delivery.
Same(r, r2) ==
    /\ r2 \in DeliveryRecord
    /\ r2.id = r.id /\ r2.msg = r.msg /\ r2.windowing = r.windowing /\ r2.cancelled = r.cancelled

\* A step replaces record r by r2, and keeps it unless it is redundant.
Replaced(r, r2) ==
    /\ r \in unacked /\ Same(r, r2)
    /\ \/ unacked' = (unacked \ {r}) \cup {r2}
       \/ unacked' = unacked \ {r} /\ isRedundant(r2)
    /\ UNCHANGED <<client, position, nextId, windowing, balance, consuming>>

\* The fields of a record with some replaced.
LEMMA ExceptFields ==
    ASSUME NEW r \in DeliveryRecord, NEW b \in BOOLEAN
    PROVE  /\ Same(r, [r EXCEPT !.ended = b])
           /\ [r EXCEPT !.ended = b].ended = b
           /\ [r EXCEPT !.ended = b].acquired = r.acquired
           /\ [r EXCEPT !.ended = b].completed = r.completed
           /\ Same(r, [r EXCEPT !.acquired = b])
           /\ [r EXCEPT !.acquired = b].acquired = b
           /\ [r EXCEPT !.acquired = b].ended = r.ended
           /\ [r EXCEPT !.acquired = b].completed = r.completed
           /\ Same(r, [r EXCEPT !.acquired = b, !.ended = TRUE])
           /\ [r EXCEPT !.acquired = b, !.ended = TRUE].acquired = b
           /\ [r EXCEPT !.acquired = b, !.ended = TRUE].ended = TRUE
           /\ [r EXCEPT !.acquired = b, !.ended = TRUE].completed = r.completed
BY DEF DeliveryRecord, Same

\* Replacing a record keeps all that is said of records one by one.
LEMMA ReplacedKeeps ==
    ASSUME SemanticInv, NEW r, NEW r2, Replaced(r, r2)
    PROVE  /\ unacked' \subseteq DeliveryRecord /\ IsFiniteSet(unacked')
           /\ IdsOK' /\ NotCancelled' /\ OneMode'
<1>1. /\ r \in unacked /\ Same(r, r2)
      /\ unacked' \subseteq (unacked \ {r}) \cup {r2}
      /\ nextId' = nextId /\ consuming' = consuming /\ windowing' = windowing /\ client' = client
  BY DEF Replaced
<1>2. unacked' \subseteq DeliveryRecord
  BY <1>1 DEF Same, SemanticInv, SemanticTypeOK
<1>3. IsFiniteSet(unacked')
  <2>1. IsFiniteSet((unacked \ {r}) \cup {r2})
    BY FS_RemoveElement, FS_AddElement DEF SemanticInv
  <2> QED
    BY <1>1, <2>1, FS_Subset
<1>4. IdsOK'
  BY <1>1 DEF Same, SemanticInv, IdsOK
<1>5. NotCancelled'
  BY <1>1 DEF Same, SemanticInv, NotCancelled
<1>6. OneMode'
  BY <1>1 DEF Same, SemanticInv, OneMode, ClientCommands
<1> QED
  BY <1>2, <1>3, <1>4, <1>5, <1>6

\* Replacing a record keeps the window exact when nothing is completed.
LEMMA ReplacedWindow ==
    ASSUME SemanticInv, NEW r, NEW r2, Replaced(r, r2), r2.completed = r.completed, window' = window
    PROVE  WindowOK'
<1> SUFFICES ASSUME consuming, windowing, Steady PROVE WindowOK'
  BY DEF Replaced, WindowOK, Steady, ClientCommands
<1>1. /\ window.used = Cardinality(Outstanding) /\ window.used <= Word - 2
      /\ window.balance <= Word - 2
  BY DEF SemanticInv, WindowOK
<1>2. r \in unacked /\ Same(r, r2) /\ ~r.cancelled /\ r.windowing
  BY DEF Replaced, SemanticInv, NotCancelled, OneMode, Steady
<1>3. IsFiniteSet(Outstanding)
  BY FS_Subset DEF SemanticInv, Outstanding
<1>4. Cardinality(Outstanding') = Cardinality(Outstanding)
  <2>1. CASE r.completed
    <3>1. Outstanding' = Outstanding
      BY <1>2, <2>1 DEF Replaced, Outstanding, Same
    <3> QED
      BY <3>1
  <2>2. CASE ~r.completed
    <3>1. ~isRedundant(r2)
      BY <1>2, <2>2 DEF Same, isRedundant
    <3>2. unacked' = (unacked \ {r}) \cup {r2}
      BY <3>1 DEF Replaced
    <3>3. r \in Outstanding /\ r2.windowing /\ ~r2.completed
      BY <1>2, <2>2 DEF Outstanding, Same
    <3>4. Outstanding' = (Outstanding \ {r}) \cup {r2}
      BY <3>2, <3>3 DEF Outstanding
    <3>5. r2 \notin Outstanding \ {r}
      BY <1>2 DEF Outstanding, Same, SemanticInv, IdsOK
    <3>6. /\ IsFiniteSet(Outstanding \ {r})
          /\ Cardinality(Outstanding \ {r}) = Cardinality(Outstanding) - 1
      BY <1>3, <3>3, FS_RemoveElement
    <3>7. Cardinality(Outstanding') = (Cardinality(Outstanding) - 1) + 1
      BY <3>4, <3>5, <3>6, FS_AddElement
    <3>8. Cardinality(Outstanding) \in Nat
      BY <1>3, FS_CardinalityType
    <3> QED
      BY <3>7, <3>8
  <2> QED
    BY <2>1, <2>2
<1> QED
  BY <1>1, <1>4 DEF WindowOK

----------------------------------------------------------------------------
(* SemanticInv is an invariant                                                    *)

\* The commands that settle records: what they do to records and window.
LEMMA SettleShape ==
    ASSUME SemanticInv, NEW r \in unacked, Accept(r) \/ Reject(r) \/ Release(r) \/ Acquire(r)
    PROVE  /\ window' = window
           /\ \E r2 : Replaced(r, r2) /\ r2.completed = r.completed
           /\ state' = state \/ \E s \in {"AVAILABLE", "ACQUIRED", "GONE"} :
                                    state' = [state EXCEPT ![r.msg] = s]
           /\ stranded' \subseteq stranded \cup {r.msg}
<1>1. r \in DeliveryRecord /\ Same(r, r)
  BY RecordFacts DEF SemanticInv, Same
<1>2. /\ window' = window
      /\ UNCHANGED <<client, position, nextId, windowing, balance, consuming>>
  BY DEF Accept, Reject, Release, Acquire
<1>3. state' = state \/ \E s \in {"AVAILABLE", "ACQUIRED", "GONE"} :
                            state' = [state EXCEPT ![r.msg] = s]
  BY DEF Accept, Reject, Release, Acquire, Dequeued
<1>4. \E r2 : /\ Same(r, r2) /\ r2.completed = r.completed
              /\ unacked' = Updated(r, r2) \/ unacked' = (unacked \ {r}) \cup {r2}
  <2>1. CASE Accept(r)
    BY <1>1, <2>1, ExceptFields DEF Accept
  <2>2. CASE Reject(r)
    BY <1>1, <2>2, ExceptFields DEF Reject
  <2>3. CASE Release(r)
    BY <1>1, <2>3, ExceptFields DEF Release
  <2>4. CASE Acquire(r)
    <3>1. \/ unacked' = (unacked \ {r}) \cup {[r EXCEPT !.acquired = TRUE]}
          \/ unacked' = (unacked \ {r}) \cup {[r EXCEPT !.acquired = TRUE, !.ended = TRUE]}
      BY <2>4 DEF Acquire
    <3>2. /\ Same(r, [r EXCEPT !.acquired = TRUE])
          /\ [r EXCEPT !.acquired = TRUE].completed = r.completed
          /\ Same(r, [r EXCEPT !.acquired = TRUE, !.ended = TRUE])
          /\ [r EXCEPT !.acquired = TRUE, !.ended = TRUE].completed = r.completed
      BY <1>1, ExceptFields
    <3> QED
      BY <3>1, <3>2
  <2> QED
    BY <2>1, <2>2, <2>3, <2>4
<1>5. PICK r2 : /\ Same(r, r2) /\ r2.completed = r.completed
                /\ unacked' = Updated(r, r2) \/ unacked' = (unacked \ {r}) \cup {r2}
  BY <1>4
<1>6. Replaced(r, r2)
  BY <1>2, <1>5 DEF Replaced, Updated
<1>7. stranded' \subseteq stranded \cup {r.msg}
  BY DEF Accept, Reject, Release, Acquire
<1> QED
  BY <1>2, <1>3, <1>5, <1>6, <1>7

\* Changing the state of a message keeps the states states.
LEMMA StateType ==
    ASSUME SemanticTypeOK, NEW m \in Msgs, NEW s \in {"AVAILABLE", "ACQUIRED", "OTHER", "GONE"}
    PROVE  /\ [state EXCEPT ![m] = s] \in [Msgs -> {"AVAILABLE", "ACQUIRED", "OTHER", "GONE"}]
           /\ \A n \in Msgs : [state EXCEPT ![m] = s][n] = IF n = m THEN s ELSE state[n]
BY DEF SemanticTypeOK

\* Settling keeps SemanticInv.
LEMMA SettleKeeps ==
    ASSUME SemanticInv, NEW r \in unacked, Accept(r) \/ Reject(r) \/ Release(r) \/ Acquire(r)
    PROVE  SemanticInv'
<1>1. PICK r2 : Replaced(r, r2) /\ r2.completed = r.completed
  BY SettleShape
<1>2. window' = window
  BY SettleShape
<1>3. state' \in [Msgs -> {"AVAILABLE", "ACQUIRED", "OTHER", "GONE"}]
  <2>1. r.msg \in Msgs /\ SemanticTypeOK
    BY RecordFacts DEF SemanticInv
  <2> QED
    BY <2>1, SettleShape, StateType DEF SemanticTypeOK
<1>4. /\ unacked' \subseteq DeliveryRecord /\ IsFiniteSet(unacked')
      /\ IdsOK' /\ NotCancelled' /\ OneMode'
  BY <1>1, ReplacedKeeps
<1>5. WindowOK'
  BY <1>1, <1>2, ReplacedWindow
<1>6. SemanticTypeOK'
  <2>1. stranded' \subseteq Msgs
    BY SettleShape, RecordFacts DEF SemanticInv, SemanticTypeOK
  <2> QED
    BY <1>1, <1>2, <1>3, <1>4, <2>1 DEF Replaced, SemanticInv, SemanticTypeOK
<1> QED
  BY <1>4, <1>5, <1>6 DEF SemanticInv

\* What SemanticTypeOK says of the counters.
LEMMA CounterFacts ==
    ASSUME SemanticTypeOK
    PROVE  /\ Word \in Nat /\ Word >= 2
           /\ balance \in 0 .. Word - 1
           /\ window.balance \in 0 .. Word - 1 /\ window.used \in 0 .. Word - 1
           /\ window = [balance |-> window.balance, used |-> window.used]
           /\ client \in Client /\ client.grants \subseteq 0 .. Word - 1
BY SessionAssumption DEF SemanticTypeOK, Client

\* Completing a delivery moves the window by one, once.
LEMMA CompleteKeeps ==
    ASSUME SemanticInv, NEW r \in unacked, Complete(r)
    PROVE  SemanticInv'
<1> DEFINE r2 == [r EXCEPT !.completed = @ \/ consuming]
<1>1. r \in DeliveryRecord /\ r.completed \in BOOLEAN /\ consuming \in BOOLEAN /\ SemanticTypeOK
  BY RecordFacts DEF SemanticInv, SemanticTypeOK
<1> PICK b \in BOOLEAN : b = (r.completed \/ consuming)
  OBVIOUS
<1>2. r2 = [r EXCEPT !.completed = b]
  BY <1>1 DEF DeliveryRecord
<1> HIDE DEF r2
<1>3. Same(r, r2) /\ r2.completed = b /\ r2.ended = r.ended
  BY <1>1, <1>2 DEF DeliveryRecord, Same
<1>4. /\ unacked' = Updated(r, r2)
      /\ UNCHANGED <<client, state, position, nextId, windowing, balance, consuming, stranded>>
      /\ window' = IF consuming /\ ~r.completed /\ windowing THEN moved(window) ELSE window
  BY DEF Complete, r2
<1>5. Replaced(r, r2)
  BY <1>3, <1>4 DEF Replaced, Updated
<1>6. /\ unacked' \subseteq DeliveryRecord /\ IsFiniteSet(unacked')
      /\ IdsOK' /\ NotCancelled' /\ OneMode'
  BY <1>5, ReplacedKeeps
<1>7. /\ moved(window) \in [balance : 0 .. Word - 1, used : 0 .. Word - 1]
      /\ moved(window).balance = window.balance
      /\ moved(window).used =
             IF window.balance = Word - 1 THEN window.used ELSE (window.used - 1) % Word
  <2>1. (window.used - 1) % Word \in 0 .. Word - 1
    BY <1>1, CounterFacts, Modulo
  <2> QED
    BY <1>1, <2>1, CounterFacts DEF moved, unlimited, INFINITE_CREDIT
<1>8. SemanticTypeOK'
  BY <1>1, <1>4, <1>6, <1>7 DEF SemanticTypeOK
<1>9. WindowOK'
  <2> SUFFICES ASSUME consuming, windowing, Steady PROVE WindowOK'
    BY <1>4 DEF WindowOK, Steady, ClientCommands
  <2>1. CASE r.completed
    <3>1. r2.completed = r.completed /\ window' = window
      BY <1>3, <1>4, <2>1
    <3> QED
      BY <1>5, <3>1, ReplacedWindow
  <2>2. CASE ~r.completed
    <3>1. /\ window.used = Cardinality(Outstanding) /\ window.used <= Word - 2
          /\ window.balance <= Word - 2
      BY DEF SemanticInv, WindowOK
    <3>2. r.windowing /\ r \in Outstanding /\ r2.completed = TRUE
      BY <1>3, <2>2 DEF SemanticInv, OneMode, Steady, Outstanding
    <3>3. Outstanding' = Outstanding \ {r}
      BY <1>5, <3>2 DEF Replaced, Outstanding
    <3>4. IsFiniteSet(Outstanding)
      BY FS_Subset DEF SemanticInv, Outstanding
    <3>5. /\ Cardinality(Outstanding') = Cardinality(Outstanding) - 1
          /\ Cardinality(Outstanding) \in Nat /\ Cardinality(Outstanding) # 0
      BY <3>2, <3>3, <3>4, FS_RemoveElement, FS_CardinalityType, FS_EmptySet
    <3>6. /\ window.balance \in Int /\ window.balance # Word - 1
          /\ window.used - 1 \in 0 .. Word - 1
      BY <1>1, <3>1, <3>5, CounterFacts
    <3>7. (window.used - 1) % Word = window.used - 1
      BY <1>1, <3>6, CounterFacts, NoWrap
    <3>8. window'.used = window.used - 1 /\ window'.balance = window.balance
      BY <1>4, <1>7, <2>2, <3>6, <3>7
    <3>9. window.used - 1 <= Word - 2
      BY <1>1, <3>1, CounterFacts
    <3> QED
      BY <3>1, <3>5, <3>8, <3>9 DEF WindowOK
  <2> QED
    BY <2>1, <2>2
<1> QED
  BY <1>6, <1>8, <1>9 DEF SemanticInv

\* A new delivery takes one from the credit and one record.
LEMMA DeliverKeeps ==
    ASSUME SemanticInv, NEW m \in Msgs, Deliver(m)
    PROVE  SemanticInv'
<1> DEFINE d == [id |-> nextId, msg |-> m, acquired |-> Acquires, cancelled |-> FALSE,
                 completed |-> FALSE, ended |-> ~AckExpected /\ Acquires, windowing |-> windowing]
           recorded == windowing \/ AckExpected \/ ~Acquires
<1>1. SemanticTypeOK /\ nextId \in Nat /\ nextId >= 1 /\ nextId <= MaxDeliveries /\ MaxDeliveries \in Nat
  BY SessionAssumption DEF SemanticInv, SemanticTypeOK, Deliver
<1>2. Acquires \in BOOLEAN /\ AckExpected \in BOOLEAN /\ windowing \in BOOLEAN
  BY <1>1, CounterFacts DEF Acquires, AckExpected, Client, SemanticTypeOK
<1>3. d \in DeliveryRecord
  <2>1. (~AckExpected /\ Acquires) \in BOOLEAN
    BY <1>2
  <2> QED
    BY <1>1, <1>2, <2>1 DEF DeliveryRecord
<1>4. d.id = nextId /\ d.windowing = windowing /\ d.completed = FALSE /\ d.cancelled = FALSE
  OBVIOUS
<1>5. /\ consuming /\ check /\ position' = m /\ nextId' = nextId + 1 /\ consume
      /\ unacked' = IF ~recorded THEN unacked ELSE unacked \cup {d}
      /\ UNCHANGED <<client, windowing, consuming, stranded>>
  BY DEF Deliver
<1> HIDE DEF d
<1>6. unacked' \subseteq unacked \cup {d} /\ IsFiniteSet(unacked')
  <2>1. IsFiniteSet(unacked \cup {d})
    BY FS_AddElement DEF SemanticInv
  <2> QED
    BY <1>5, <2>1 DEF SemanticInv
<1>7. state' \in [Msgs -> {"AVAILABLE", "ACQUIRED", "OTHER", "GONE"}]
  <2>1. state' = state \/ \E s \in {"ACQUIRED", "GONE"} : state' = [state EXCEPT ![m] = s]
    BY DEF Deliver
  <2> QED
    BY <1>1, <2>1, StateType DEF SemanticTypeOK
<1>8. /\ balance' \in 0 .. Word - 1
      /\ window' \in [balance : 0 .. Word - 1, used : 0 .. Word - 1]
      /\ window'.balance = window.balance
      /\ window'.used = IF windowing /\ window.balance # Word - 1
                        THEN (window.used + 1) % Word ELSE window.used
  <2>1. (window.used + 1) % Word \in 0 .. Word - 1
    BY <1>1, CounterFacts, Modulo
  <2>2. CASE windowing
    <3>1. /\ balance' = balance
          /\ window' = [window EXCEPT !.used =
                           IF window.balance = Word - 1 THEN @ ELSE (@ + 1) % Word]
      BY <1>5, <2>2 DEF consume, unlimited, INFINITE_CREDIT
    <3>2. window' = [balance |-> window.balance,
                     used |-> IF window.balance = Word - 1 THEN window.used
                              ELSE (window.used + 1) % Word]
      BY <1>1, <3>1, CounterFacts
    <3> QED
      BY <1>1, <2>1, <2>2, <3>1, <3>2, CounterFacts
  <2>3. CASE ~windowing
    <3>1. /\ window' = window /\ balance >= 1
          /\ balance' = IF balance = Word - 1 THEN balance ELSE balance - 1
      BY <1>5, <2>3 DEF consume, check, unlimited, INFINITE_CREDIT
    <3> QED
      BY <1>1, <2>3, <3>1, CounterFacts DEF SemanticTypeOK
  <2> QED
    BY <2>2, <2>3
<1>9. SemanticTypeOK'
  <2>1. nextId' \in 1 .. MaxDeliveries + 1 /\ position' \in 0 .. N
    BY <1>1, <1>5, SessionAssumption DEF Msgs
  <2>2. unacked' \subseteq DeliveryRecord
    BY <1>3, <1>6 DEF SemanticInv, SemanticTypeOK
  <2> QED
    BY <1>1, <1>5, <1>7, <1>8, <2>1, <2>2 DEF SemanticTypeOK
<1>10. IdsOK'
  <2>1. \A r \in unacked : r.id \in Nat /\ r.id < nextId /\ r # d
    BY <1>1, <1>4, RecordFacts DEF SemanticInv, IdsOK
  <2>2. \A r \in unacked' : r.id < nextId'
    BY <1>1, <1>4, <1>5, <1>6, <2>1
  <2>3. \A r, q \in unacked' : r.id = q.id => r = q
    BY <1>1, <1>4, <1>6, <2>1 DEF SemanticInv, IdsOK
  <2> QED
    BY <2>2, <2>3 DEF IdsOK
<1>11. NotCancelled' /\ OneMode'
  BY <1>4, <1>5, <1>6 DEF SemanticInv, NotCancelled, OneMode, ClientCommands
<1>12. WindowOK'
  <2> SUFFICES ASSUME windowing, Steady PROVE WindowOK'
    BY <1>5 DEF WindowOK, Steady, ClientCommands
  <2>1. /\ window.used = Cardinality(Outstanding) /\ window.used <= Word - 2
        /\ window.balance <= Word - 2
    BY <1>5 DEF SemanticInv, WindowOK
  <2>2. /\ window.used \in Nat /\ window.balance \in Nat /\ Word \in Nat /\ Word >= 2
        /\ window.used + 1 \in 0 .. Word - 1 /\ window.balance # Word - 1
    BY <1>1, <2>1, CounterFacts
  <2>3. (window.used + 1) % Word = window.used + 1
    BY <2>2, NoWrap
  <2>4. window.balance >= window.used + 1
    BY <1>5, <2>3 DEF check
  <2>5. unacked' = unacked \cup {d} /\ d \notin unacked
    BY <1>1, <1>4, <1>5 DEF SemanticInv, IdsOK
  <2>6. Outstanding' = Outstanding \cup {d} /\ d \notin Outstanding
    BY <1>4, <2>5 DEF Outstanding
  <2>7. IsFiniteSet(Outstanding)
    BY FS_Subset DEF SemanticInv, Outstanding
  <2>8. Cardinality(Outstanding') = Cardinality(Outstanding) + 1
    BY <2>6, <2>7, FS_AddElement
  <2>9. window'.used = window.used + 1 /\ window'.balance = window.balance
    BY <1>8, <2>2, <2>3
  <2>10. window.used + 1 <= Word - 2
    BY <2>1, <2>2, <2>4
  <2> QED
    BY <2>1, <2>8, <2>9, <2>10 DEF WindowOK
<1> QED
  BY <1>6, <1>9, <1>10, <1>11, <1>12 DEF SemanticInv

\* What a step that leaves the records and the subscription alone keeps.
LEMMA RecordsLeftAlone ==
    ASSUME SemanticInv, UNCHANGED <<client, unacked, nextId, windowing, consuming>>
    PROVE  /\ IsFiniteSet(unacked)' /\ IdsOK' /\ NotCancelled' /\ OneMode'
           /\ Outstanding' = Outstanding /\ Steady' = Steady
BY DEF SemanticInv, IdsOK, NotCancelled, OneMode, Outstanding, Steady, ClientCommands

\* A grant of limited credit leaves the window limited.
LEMMA FlowKeeps ==
    ASSUME SemanticInv, NEW v \in client.grants, Flow(v)
    PROVE  SemanticInv'
<1>1. SemanticTypeOK /\ v \in 0 .. Word - 1 /\ Word \in Nat /\ Word >= 2
  BY CounterFacts DEF SemanticInv
<1>2. /\ UNCHANGED <<client, state, position, unacked, nextId, windowing, consuming, stranded>>
      /\ window' = IF windowing THEN [window EXCEPT !.balance = granted(@, v)] ELSE window
      /\ balance' = IF windowing THEN balance ELSE granted(balance, v)
  BY DEF Flow
<1>3. /\ granted(balance, v) \in 0 .. Word - 1
      /\ granted(window.balance, v) \in 0 .. Word - 1
      /\ window.balance # Word - 1 /\ v # Word - 1 => granted(window.balance, v) <= Word - 2
  BY <1>1, CounterFacts, GrantedFacts
<1>4. /\ window' \in [balance : 0 .. Word - 1, used : 0 .. Word - 1]
      /\ window'.used = window.used
      /\ window'.balance = IF windowing THEN granted(window.balance, v) ELSE window.balance
  BY <1>1, <1>2, <1>3, CounterFacts
<1>5. SemanticTypeOK'
  BY <1>1, <1>2, <1>3, <1>4 DEF SemanticTypeOK
<1>6. WindowOK'
  <2> SUFFICES ASSUME consuming, windowing, Steady PROVE WindowOK'
    BY <1>2, RecordsLeftAlone DEF WindowOK
  <2>1. v # Word - 1
    BY DEF Steady, INFINITE_CREDIT
  <2>2. /\ window.used = Cardinality(Outstanding) /\ window.used <= Word - 2
        /\ window.balance <= Word - 2
    BY DEF SemanticInv, WindowOK
  <2>3. window.balance # Word - 1
    BY <1>1, <2>2, CounterFacts
  <2>4. window'.balance <= Word - 2
    BY <1>3, <1>4, <2>1, <2>3
  <2> QED
    BY <1>2, <1>4, <2>2, <2>4, RecordsLeftAlone DEF WindowOK
<1> QED
  BY <1>2, <1>5, <1>6, RecordsLeftAlone DEF SemanticInv

\* Stopping takes the window's balance, not what it has counted.
LEMMA StopKeeps ==
    ASSUME SemanticInv, Stop
    PROVE  SemanticInv'
<1>1. SemanticTypeOK /\ Word \in Nat /\ Word >= 2
  BY CounterFacts DEF SemanticInv
<1>2. /\ UNCHANGED <<client, state, position, unacked, nextId, windowing, consuming, stranded>>
      /\ window' = IF windowing THEN [window EXCEPT !.balance = 0] ELSE window
      /\ balance' = IF windowing THEN balance ELSE 0
  BY DEF Stop
<1>3. /\ window' \in [balance : 0 .. Word - 1, used : 0 .. Word - 1]
      /\ window'.used = window.used
      /\ window'.balance = IF windowing THEN 0 ELSE window.balance
  BY <1>1, <1>2, CounterFacts
<1>4. SemanticTypeOK'
  BY <1>1, <1>2, <1>3 DEF SemanticTypeOK
<1>5. WindowOK'
  <2> SUFFICES ASSUME consuming, windowing, Steady PROVE WindowOK'
    BY <1>2, RecordsLeftAlone DEF WindowOK
  <2>1. window.used = Cardinality(Outstanding) /\ window.used <= Word - 2
    BY DEF SemanticInv, WindowOK
  <2>2. window'.balance <= Word - 2
    BY <1>1, <1>3
  <2> QED
    BY <1>2, <1>3, <2>1, <2>2, RecordsLeftAlone DEF WindowOK
<1> QED
  BY <1>2, <1>4, <1>5, RecordsLeftAlone DEF SemanticInv

\* A client that changes its flow mode is not a steady one.
LEMMA SetFlowModeKeeps ==
    ASSUME SemanticInv, NEW mode \in BOOLEAN, SetFlowMode(mode)
    PROVE  SemanticInv'
<1>1. /\ UNCHANGED <<client, state, position, unacked, nextId, balance, window, consuming, stranded>>
      /\ windowing' = mode /\ "mode" \in ClientCommands
  BY DEF SetFlowMode
<1>2. SemanticTypeOK'
  BY <1>1 DEF SemanticInv, SemanticTypeOK
<1>3. OneMode' /\ WindowOK'
  BY <1>1 DEF OneMode, WindowOK, Steady, ClientCommands
<1>4. IsFiniteSet(unacked)' /\ IdsOK' /\ NotCancelled'
  BY <1>1 DEF SemanticInv, IdsOK, NotCancelled
<1> QED
  BY <1>2, <1>3, <1>4 DEF SemanticInv

\* Cancelling leaves the records that are not redundant, marked.
LEMMA CancelledRecords ==
    ASSUME SemanticTypeOK, IsFiniteSet(unacked), Cancel
    PROVE  /\ \A q \in unacked' : \E r \in unacked :
                  /\ q = [r EXCEPT !.cancelled = TRUE] /\ q \in DeliveryRecord
                  /\ q.id = r.id /\ q.msg = r.msg /\ q.windowing = r.windowing
                  /\ q.acquired = r.acquired /\ q.ended = r.ended
           /\ \A r \in unacked : ~r.ended => [r EXCEPT !.cancelled = TRUE] \in unacked'
           /\ IsFiniteSet(unacked')
<1> DEFINE Mark(r) == [r EXCEPT !.cancelled = TRUE]
           Marked == {Mark(x) : x \in unacked}
<1>1. unacked' = {r \in Marked : ~isRedundant(r)}
  BY DEF Cancel
<1>2. \A r \in unacked :
          /\ Mark(r) \in DeliveryRecord
          /\ Mark(r).id = r.id /\ Mark(r).msg = r.msg /\ Mark(r).windowing = r.windowing
          /\ Mark(r).acquired = r.acquired /\ Mark(r).ended = r.ended
  BY RecordFacts DEF DeliveryRecord
<1>3. IsFiniteSet(Marked)
  <2> DEFINE f == [r \in unacked |-> Mark(r)]
  <2>1. f \in [unacked -> Marked]
    OBVIOUS
  <2>2. \A q \in Marked : \E r \in unacked : f[r] = q
    OBVIOUS
  <2> HIDE DEF f, Marked
  <2>3. f \in Surjection(unacked, Marked)
    BY <2>1, <2>2 DEF Surjection
  <2> QED
    BY <2>3, FS_Surjection
<1>4. IsFiniteSet(unacked')
  <2>1. unacked' \subseteq Marked
    BY <1>1
  <2> HIDE DEF Marked
  <2> QED
    BY <1>3, <2>1, FS_Subset
<1>5. \A q \in unacked' : \E r \in unacked : q = Mark(r)
  BY <1>1
<1>6. \A r \in unacked : ~r.ended => Mark(r) \in unacked'
  BY <1>1, <1>2 DEF isRedundant
<1> HIDE DEF Marked
<1>7. \A q \in unacked' : \E r \in unacked :
          /\ q = Mark(r) /\ q \in DeliveryRecord
          /\ q.id = r.id /\ q.msg = r.msg /\ q.windowing = r.windowing
          /\ q.acquired = r.acquired /\ q.ended = r.ended
  <2> HIDE DEF Mark
  <2> QED
    BY <1>2, <1>5
<1> QED
  BY <1>4, <1>6, <1>7

\* The subscription ends: ids still tell records apart.
LEMMA CancelKeeps ==
    ASSUME SemanticInv, Cancel
    PROVE  SemanticInv'
<1>1. /\ consuming' = FALSE
      /\ UNCHANGED <<client, state, position, nextId, windowing, balance, window, stranded>>
  BY DEF Cancel
<1>2. /\ \A q \in unacked' : \E r \in unacked :
             /\ q = [r EXCEPT !.cancelled = TRUE] /\ q \in DeliveryRecord
             /\ q.id = r.id /\ q.windowing = r.windowing
      /\ IsFiniteSet(unacked')
  BY CancelledRecords DEF SemanticInv
<1>3. unacked' \subseteq DeliveryRecord
  BY <1>2
<1>4. SemanticTypeOK'
  BY <1>1, <1>3 DEF SemanticInv, SemanticTypeOK
<1>5. IdsOK'
  <2>1. \A q \in unacked' : q.id < nextId'
    BY <1>1, <1>2 DEF SemanticInv, IdsOK
  <2>2. \A p, q \in unacked' : p.id = q.id => p = q
    <3> TAKE p, q \in unacked'
    <3>1. PICK r \in unacked : p = [r EXCEPT !.cancelled = TRUE] /\ p.id = r.id
      BY <1>2
    <3>2. PICK x \in unacked : q = [x EXCEPT !.cancelled = TRUE] /\ q.id = x.id
      BY <1>2
    <3>3. r.id = x.id => r = x
      BY DEF SemanticInv, IdsOK
    <3> QED
      BY <3>1, <3>2, <3>3
  <2> QED
    BY <2>1, <2>2 DEF IdsOK
<1>6. NotCancelled' /\ WindowOK'
  BY <1>1 DEF NotCancelled, WindowOK
<1>7. OneMode'
  BY <1>1, <1>2 DEF SemanticInv, OneMode, ClientCommands
<1> QED
  BY <1>2, <1>4, <1>5, <1>6, <1>7 DEF SemanticInv

\* A closed session has no records.
LEMMA CloseKeeps ==
    ASSUME SemanticInv, Close
    PROVE  SemanticInv'
<1>1. /\ consuming' = FALSE /\ unacked' = {}
      /\ UNCHANGED <<client, position, nextId, windowing, balance, window, stranded>>
      /\ state' = [m \in Msgs |-> IF \E r \in unacked : r.msg = m /\ Owned(r)
                                  THEN "AVAILABLE" ELSE state[m]]
  BY DEF Close
<1>2. state' \in [Msgs -> {"AVAILABLE", "ACQUIRED", "OTHER", "GONE"}]
  BY <1>1 DEF SemanticInv, SemanticTypeOK
<1>3. SemanticTypeOK'
  BY <1>1, <1>2 DEF SemanticInv, SemanticTypeOK
<1>4. IsFiniteSet(unacked)'
  BY <1>1, FS_EmptySet
<1> QED
  BY <1>1, <1>3, <1>4 DEF SemanticInv, IdsOK, NotCancelled, OneMode, WindowOK

\* Other subscribers change the messages only.
LEMMA OtherKeeps ==
    ASSUME SemanticInv, NEW m \in Msgs, Other(m)
    PROVE  SemanticInv'
<1>1. UNCHANGED <<client, position, unacked, nextId, windowing, balance, window, consuming, stranded>>
  BY DEF Other
<1>2. state' \in [Msgs -> {"AVAILABLE", "ACQUIRED", "OTHER", "GONE"}]
  <2>1. \E s \in {"AVAILABLE", "OTHER", "GONE"} : state' = [state EXCEPT ![m] = s]
    BY DEF Other
  <2> QED
    BY <2>1, StateType DEF SemanticInv
<1>3. SemanticTypeOK'
  BY <1>1, <1>2 DEF SemanticInv, SemanticTypeOK
<1>4. WindowOK'
  BY <1>1, RecordsLeftAlone DEF SemanticInv, WindowOK
<1> QED
  BY <1>1, <1>3, <1>4, RecordsLeftAlone DEF SemanticInv

\* SemanticInv holds at the start.
LEMMA InitHolds ==
    ASSUME SemanticInit
    PROVE  SemanticInv
<1>1. /\ client \in Clients /\ client \in Client
      /\ state = [m \in Msgs |-> "AVAILABLE"] /\ position = 0 /\ unacked = {} /\ nextId = 1
      /\ windowing = client.window /\ balance = 0 /\ window = [balance |-> 0, used |-> 0]
      /\ consuming = TRUE /\ stranded = {}
  BY SessionAssumption DEF SemanticInit
<1>2. windowing \in BOOLEAN
  BY <1>1 DEF Client
<1>3. SemanticTypeOK
  BY <1>1, <1>2, SessionAssumption DEF SemanticTypeOK
<1>4. IsFiniteSet(unacked) /\ Outstanding = {} /\ Cardinality(Outstanding) = 0
  BY <1>1, FS_EmptySet DEF Outstanding
<1>5. WindowOK
  BY <1>1, <1>4, SessionAssumption DEF WindowOK
<1> QED
  BY <1>1, <1>3, <1>4, <1>5 DEF SemanticInv, IdsOK, NotCancelled, OneMode

\* Every step keeps SemanticInv.
LEMMA StepKeeps ==
    ASSUME SemanticInv, [SemanticNext]_semanticVars
    PROVE  SemanticInv'
<1>1. CASE UNCHANGED semanticVars
  BY <1>1, RecordsLeftAlone DEF semanticVars, SemanticInv, SemanticTypeOK, WindowOK
<1>2. CASE \E m \in Msgs : Deliver(m) \/ Other(m)
  BY <1>2, DeliverKeeps, OtherKeeps
<1>3. CASE \E r \in unacked :
               Accept(r) \/ Reject(r) \/ Release(r) \/ Acquire(r) \/ Complete(r)
  BY <1>3, SettleKeeps, CompleteKeeps
<1>4. CASE \E v \in client.grants : Flow(v)
  BY <1>4, FlowKeeps
<1>5. CASE \E mode \in BOOLEAN : SetFlowMode(mode)
  BY <1>5, SetFlowModeKeeps
<1>6. CASE Stop \/ Cancel \/ Close
  BY <1>6, StopKeeps, CancelKeeps, CloseKeeps
<1> QED
  BY <1>1, <1>2, <1>3, <1>4, <1>5, <1>6 DEF SemanticNext

\* The inductive invariant holds in every reachable state.
THEOREM SemanticInductive == SemanticSpec => []SemanticInv
BY InitHolds, StepKeeps, PTL DEF SemanticSpec

\* The session's state keeps its type: no counter leaves its word whatever
\* the client grants, stops and completes, and no record loses a field.
THEOREM TypeCorrect == SemanticSpec => []SemanticTypeOK
<1>1. SemanticInv => SemanticTypeOK
  BY DEF SemanticInv
<1> QED
  BY <1>1, SemanticInductive, PTL

\* The window counts exactly the deliveries the client has not completed, in
\* whatever order they are settled and completed, however often a completion
\* is repeated and however wide the counters are.
THEOREM WindowIsExact == SemanticSpec => []WindowExact
<1>1. SemanticInv => WindowExact
  BY DEF SemanticInv, WindowOK, WindowExact
<1> QED
  BY <1>1, SemanticInductive, PTL

----------------------------------------------------------------------------
(* Who owns what                                                           *)

\* What happens to the ownership of the message of record r as it becomes r2:
\* nothing, or a message that is r's or nobody's becomes r2's or nobody's.
OwnershipKept(r, r2) == state' = state /\ stranded' = stranded /\ (Owned(r2) <=> Owned(r))

OwnershipMoved(r, r2) ==
    /\ Owned(r) \/ state[r.msg] = "AVAILABLE"
    /\ Owned(r2) <=> state'[r.msg] = "ACQUIRED" /\ r.msg \notin stranded'
    /\ \A m \in Msgs : m # r.msg => state'[m] = state[m]
    /\ stranded' = stranded \/ stranded' = stranded \cup {r.msg}
    /\ r.msg \in stranded' => state'[r.msg] = "ACQUIRED"

\* Replacing a record leaves messages and owners one to one.
LEMMA ReplacedOwners ==
    ASSUME OInv, NEW r, NEW r2, Replaced(r, r2),
           OwnershipKept(r, r2) \/ OwnershipMoved(r, r2)
    PROVE  OwnersOK'
<1>1. /\ r \in unacked /\ r.msg \in Msgs /\ r2.msg = r.msg
      /\ unacked' \subseteq (unacked \ {r}) \cup {r2} /\ unacked \ {r} \subseteq unacked'
      /\ Owned(r2) => r2 \in unacked'
      /\ \A q \in unacked : q.msg \in Msgs
      /\ stranded \subseteq Msgs
  BY RecordFacts DEF Replaced, Same, OInv, SemanticInv, SemanticTypeOK, isRedundant, Owned
<1>2. /\ \A q \in unacked : Owned(q) => state[q.msg] = "ACQUIRED" /\ q.msg \notin stranded
      /\ \A m \in Msgs : state[m] = "ACQUIRED" /\ m \notin stranded =>
                             \E q \in unacked : q.msg = m /\ Owned(q)
      /\ \A p, q \in unacked : Owned(p) /\ Owned(q) /\ p.msg = q.msg => p = q
      /\ \A m \in stranded : state[m] = "ACQUIRED"
  BY DEF OInv, OwnersOK
<1>3. /\ \A m \in Msgs : m # r.msg =>
             state'[m] = state[m] /\ (m \in stranded' <=> m \in stranded)
      /\ Owned(r2) <=> /\ state'[r.msg] = "ACQUIRED" /\ r.msg \notin stranded'
                       /\ Owned(r) \/ state[r.msg] = "AVAILABLE"
      /\ \/ Owned(r) \/ state[r.msg] = "AVAILABLE"
         \/ state'[r.msg] = state[r.msg] /\ (r.msg \in stranded' <=> r.msg \in stranded)
      /\ r.msg \in stranded' => state'[r.msg] = "ACQUIRED"
      /\ stranded' \subseteq Msgs
  BY <1>1, <1>2 DEF OwnershipKept, OwnershipMoved
<1> HIDE DEF Owned
<1>4. ASSUME NEW q \in unacked' \ {r2}, Owned(q)
      PROVE  /\ q \in unacked \ {r} /\ state'[q.msg] = "ACQUIRED" /\ q.msg \notin stranded'
             /\ ~(Owned(r2) /\ q.msg = r.msg)
  <2>1. /\ q \in unacked \ {r} /\ state[q.msg] = "ACQUIRED" /\ q.msg \in Msgs
        /\ q.msg \notin stranded
    BY <1>1, <1>2, <1>4
  <2>2. q.msg = r.msg => ~Owned(r) /\ state[r.msg] # "AVAILABLE"
    BY <1>1, <1>2, <1>4, <2>1
  <2> QED
    BY <1>3, <2>1, <2>2
<1>5. \A q \in unacked' : Owned(q) => state'[q.msg] = "ACQUIRED" /\ q.msg \notin stranded'
  BY <1>1, <1>3, <1>4
<1>6. ASSUME NEW m \in Msgs, state'[m] = "ACQUIRED", m \notin stranded'
      PROVE  \E q \in unacked' : q.msg = m /\ Owned(q)
  <2>1. CASE m = r.msg /\ Owned(r2)
    BY <1>1, <2>1
  <2>2. CASE ~(m = r.msg /\ Owned(r2))
    <3>1. state[m] = "ACQUIRED" /\ m \notin stranded /\ ~(m = r.msg /\ Owned(r))
      BY <1>1, <1>3, <1>6, <2>2
    <3> QED
      BY <1>1, <1>2, <3>1
  <2> QED
    BY <2>1, <2>2
<1>7. \A p, q \in unacked' : Owned(p) /\ Owned(q) /\ p.msg = q.msg => p = q
  BY <1>1, <1>2, <1>4
<1>8. \A m \in stranded' : state'[m] = "ACQUIRED"
  BY <1>1, <1>2, <1>3
<1> QED
  BY <1>5, <1>6, <1>7, <1>8 DEF OwnersOK

\* The commands that settle a record keep ownership or move it.  Acquiring
\* through a record that has ended moves a message to nobody.
LEMMA SettleOwnership ==
    ASSUME OInv, NEW r \in unacked, Accept(r) \/ Reject(r) \/ Release(r) \/ Acquire(r)
    PROVE  \E r2 : Replaced(r, r2) /\ (OwnershipKept(r, r2) \/ OwnershipMoved(r, r2))
<1>1. /\ r \in DeliveryRecord /\ Same(r, r) /\ r.msg \in Msgs /\ SemanticTypeOK
      /\ r.ended \in BOOLEAN /\ r.acquired \in BOOLEAN
      /\ Owned(r) => state[r.msg] = "ACQUIRED" /\ r.msg \notin stranded
      /\ r.msg \in stranded => state[r.msg] = "ACQUIRED"
  BY RecordFacts DEF OInv, SemanticInv, Same, OwnersOK
<1>2. UNCHANGED <<client, position, nextId, windowing, balance, consuming>>
  BY DEF Accept, Reject, Release, Acquire
<1>3. \A s \in {"AVAILABLE", "ACQUIRED", "GONE"} : \A m \in Msgs :
          [state EXCEPT ![r.msg] = s][m] = IF m = r.msg THEN s ELSE state[m]
  BY <1>1, StateType
<1>4. \A r2 : Same(r, r2) /\ unacked' = Updated(r, r2) => Replaced(r, r2)
  BY <1>2 DEF Replaced, Updated
<1>5. Accept(r) \/ Reject(r) \/ Release(r) => stranded' = stranded
  BY DEF Accept, Reject, Release
<1>6. CASE Accept(r)
  <2> DEFINE r2 == [r EXCEPT !.ended = TRUE]
  <2>1. Same(r, r2) /\ r2.ended = TRUE
    BY <1>1, ExceptFields
  <2>2. unacked' = Updated(r, r2) /\ state' = IF Owned(r) THEN Dequeued(r) ELSE state
    BY <1>6 DEF Accept
  <2> HIDE DEF r2
  <2>3. OwnershipKept(r, r2) \/ OwnershipMoved(r, r2)
    BY <1>1, <1>3, <1>5, <1>6, <2>1, <2>2 DEF OwnershipKept, OwnershipMoved, Owned, Dequeued
  <2> QED
    BY <1>4, <2>1, <2>2, <2>3
<1>7. CASE (Reject(r) \/ Release(r)) /\ ~Owned(r)
  <2>1. unacked' = Updated(r, r) /\ state' = state
    BY <1>7 DEF Reject, Release
  <2> QED
    BY <1>1, <1>4, <1>5, <1>7, <2>1 DEF OwnershipKept
<1>8. CASE Reject(r) /\ Owned(r)
  <2> DEFINE r2 == [r EXCEPT !.ended = TRUE]
  <2>1. Same(r, r2) /\ r2.ended = TRUE
    BY <1>1, ExceptFields
  <2>2. unacked' = Updated(r, r2) /\ state' = Dequeued(r)
    BY <1>8 DEF Reject
  <2> HIDE DEF r2
  <2>3. OwnershipMoved(r, r2)
    BY <1>1, <1>3, <1>5, <1>8, <2>1, <2>2 DEF OwnershipMoved, Owned, Dequeued
  <2> QED
    BY <1>4, <2>1, <2>2, <2>3
<1>9. CASE Release(r) /\ Owned(r)
  <2> DEFINE r2 == [r EXCEPT !.acquired = FALSE, !.ended = TRUE]
  <2>1. Same(r, r2) /\ r2.ended = TRUE
    BY <1>1, ExceptFields
  <2>2. unacked' = Updated(r, r2) /\ state' = [state EXCEPT ![r.msg] = "AVAILABLE"]
    BY <1>9 DEF Release
  <2> HIDE DEF r2
  <2>3. OwnershipMoved(r, r2)
    BY <1>1, <1>3, <1>5, <1>9, <2>1, <2>2 DEF OwnershipMoved, Owned
  <2> QED
    BY <1>4, <2>1, <2>2, <2>3
<1>10. CASE Acquire(r)
  <2>1. /\ state[r.msg] = "AVAILABLE" /\ r.msg \notin stranded
        /\ stranded' = IF r.ended THEN stranded \cup {r.msg} ELSE stranded
    BY <1>1, <1>10 DEF Acquire
  <2>2. CASE /\ state' = [state EXCEPT ![r.msg] = "ACQUIRED"]
             /\ unacked' = (unacked \ {r}) \cup {[r EXCEPT !.acquired = TRUE]}
    <3> DEFINE r2 == [r EXCEPT !.acquired = TRUE]
    <3>1. Same(r, r2) /\ r2.acquired = TRUE /\ r2.ended = r.ended
      BY <1>1, ExceptFields
    <3>2. unacked' = (unacked \ {r}) \cup {r2}
      BY <2>2
    <3> HIDE DEF r2
    <3>3. OwnershipMoved(r, r2)
      BY <1>1, <1>3, <2>1, <2>2, <3>1 DEF OwnershipMoved, Owned
    <3>4. Replaced(r, r2)
      BY <1>2, <3>1, <3>2 DEF Replaced
    <3> QED
      BY <3>3, <3>4
  <2>3. CASE /\ ~r.ended /\ state' = Dequeued(r)
             /\ unacked' = (unacked \ {r}) \cup {[r EXCEPT !.acquired = TRUE, !.ended = TRUE]}
    <3> DEFINE r2 == [r EXCEPT !.acquired = TRUE, !.ended = TRUE]
    <3>1. Same(r, r2) /\ r2.ended = TRUE
      BY <1>1, ExceptFields
    <3>2. unacked' = (unacked \ {r}) \cup {r2}
      BY <2>3
    <3> HIDE DEF r2
    <3>3. OwnershipMoved(r, r2)
      BY <1>1, <1>3, <2>1, <2>3, <3>1 DEF OwnershipMoved, Owned, Dequeued
    <3>4. Replaced(r, r2)
      BY <1>2, <3>1, <3>2 DEF Replaced
    <3> QED
      BY <3>3, <3>4
  <2> QED
    BY <1>10, <2>2, <2>3 DEF Acquire
<1> QED
  BY <1>6, <1>7, <1>8, <1>9, <1>10

\* Completing settles nothing.
LEMMA CompleteOwnership ==
    ASSUME OInv, NEW r \in unacked, Complete(r)
    PROVE  \E r2 : Replaced(r, r2) /\ OwnershipKept(r, r2)
<1> DEFINE r2 == [r EXCEPT !.completed = @ \/ consuming]
<1>1. r \in DeliveryRecord /\ r.completed \in BOOLEAN /\ consuming \in BOOLEAN
  BY RecordFacts DEF OInv, SemanticInv, SemanticTypeOK
<1> PICK b \in BOOLEAN : b = (r.completed \/ consuming)
  OBVIOUS
<1>2. r2 = [r EXCEPT !.completed = b]
  BY <1>1 DEF DeliveryRecord
<1> HIDE DEF r2
<1>3. Same(r, r2) /\ r2.ended = r.ended /\ r2.acquired = r.acquired
  BY <1>1, <1>2 DEF DeliveryRecord, Same
<1>4. /\ unacked' = Updated(r, r2) /\ state' = state /\ stranded' = stranded
      /\ UNCHANGED <<client, position, nextId, windowing, balance, consuming>>
  BY DEF Complete, r2
<1> QED
  BY <1>3, <1>4 DEF Replaced, Updated, OwnershipKept, Owned

\* A delivery that waits for an accept owns its message, any other does not.
LEMMA DeliverOwners ==
    ASSUME OInv, NEW m \in Msgs, Deliver(m)
    PROVE  OwnersOK'
<1> DEFINE d == [id |-> nextId, msg |-> m, acquired |-> Acquires, cancelled |-> FALSE,
                 completed |-> FALSE, ended |-> ~AckExpected /\ Acquires, windowing |-> windowing]
           recorded == windowing \/ AckExpected \/ ~Acquires
           owns == AckExpected /\ Acquires
<1>1. SemanticTypeOK /\ Acquires \in BOOLEAN /\ AckExpected \in BOOLEAN
  BY CounterFacts DEF OInv, SemanticInv, Acquires, AckExpected, Client
<1>2. d.msg = m /\ (Owned(d) <=> owns)
  BY <1>1 DEF Owned
<1>3. /\ unacked' = IF ~recorded THEN unacked ELSE unacked \cup {d}
      /\ state[m] = "AVAILABLE" /\ stranded' = stranded
      /\ state' = IF ~Acquires THEN state
                  ELSE [state EXCEPT ![m] = IF AckExpected THEN "ACQUIRED" ELSE "GONE"]
  BY DEF Deliver, Deliverable
<1> HIDE DEF d
<1>4. \A n \in Msgs : state'[n] =
          IF n = m /\ Acquires THEN IF AckExpected THEN "ACQUIRED" ELSE "GONE" ELSE state[n]
  <2>1. CASE ~Acquires
    BY <1>3, <2>1
  <2>2. CASE Acquires
    <3>1. \E s \in {"ACQUIRED", "GONE"} :
              state' = [state EXCEPT ![m] = s] /\ s = IF AckExpected THEN "ACQUIRED" ELSE "GONE"
      BY <1>3, <2>2
    <3> QED
      BY <1>1, <2>2, <3>1, StateType
  <2> QED
    BY <2>1, <2>2
<1>5. /\ \A q \in unacked : q.msg \in Msgs /\
             (Owned(q) => state[q.msg] = "ACQUIRED" /\ q.msg # m /\ q.msg \notin stranded)
      /\ \A n \in Msgs : state[n] = "ACQUIRED" /\ n \notin stranded =>
                             \E q \in unacked : q.msg = n /\ Owned(q)
      /\ \A p, q \in unacked : Owned(p) /\ Owned(q) /\ p.msg = q.msg => p = q
      /\ \A n \in stranded : n \in Msgs /\ n # m /\ state[n] = "ACQUIRED"
  BY <1>1, <1>3, RecordFacts DEF OInv, OwnersOK, SemanticTypeOK
<1>6. unacked \subseteq unacked' /\ unacked' \subseteq unacked \cup {d} /\ (owns => d \in unacked')
  BY <1>3
<1> HIDE DEF Owned
<1>7. \A q \in unacked' : Owned(q) => state'[q.msg] = "ACQUIRED" /\ q.msg \notin stranded'
  BY <1>2, <1>3, <1>4, <1>5, <1>6
<1>8. \A n \in Msgs : state'[n] = "ACQUIRED" /\ n \notin stranded' =>
                          \E q \in unacked' : q.msg = n /\ Owned(q)
  <2> TAKE n \in Msgs
  <2>1. CASE n = m /\ Acquires
    BY <1>2, <1>4, <1>6, <2>1
  <2>2. CASE ~(n = m /\ Acquires)
    BY <1>3, <1>4, <1>5, <1>6, <2>2
  <2> QED
    BY <2>1, <2>2
<1>9. \A p, q \in unacked' : Owned(p) /\ Owned(q) /\ p.msg = q.msg => p = q
  BY <1>2, <1>5, <1>6
<1>10. \A n \in stranded' : state'[n] = "ACQUIRED"
  BY <1>3, <1>4, <1>5
<1> QED
  BY <1>7, <1>8, <1>9, <1>10 DEF OwnersOK

\* Cancelling keeps every record that owns a message.
LEMMA CancelOwners ==
    ASSUME OInv, Cancel
    PROVE  OwnersOK'
<1>1. state' = state /\ stranded' = stranded
  BY DEF Cancel
<1>2. /\ \A q \in unacked' : \E r \in unacked :
             /\ q = [r EXCEPT !.cancelled = TRUE]
             /\ q.msg = r.msg /\ q.acquired = r.acquired /\ q.ended = r.ended
      /\ \A r \in unacked : ~r.ended => [r EXCEPT !.cancelled = TRUE] \in unacked'
  BY CancelledRecords DEF OInv, SemanticInv
<1>3. \A r \in unacked : /\ [r EXCEPT !.cancelled = TRUE].msg = r.msg
                         /\ [r EXCEPT !.cancelled = TRUE].acquired = r.acquired
                         /\ [r EXCEPT !.cancelled = TRUE].ended = r.ended
  BY RecordFacts DEF OInv, SemanticInv, DeliveryRecord
<1>4. \A q \in unacked' : Owned(q) => state'[q.msg] = "ACQUIRED" /\ q.msg \notin stranded'
  BY <1>1, <1>2 DEF OInv, OwnersOK, Owned
<1>5. \A m \in Msgs : state'[m] = "ACQUIRED" /\ m \notin stranded' =>
                          \E q \in unacked' : q.msg = m /\ Owned(q)
  <2> TAKE m \in Msgs
  <2> HAVE state'[m] = "ACQUIRED" /\ m \notin stranded'
  <2>1. PICK r \in unacked : r.msg = m /\ Owned(r)
    BY <1>1 DEF OInv, OwnersOK
  <2> QED
    BY <1>2, <1>3, <2>1 DEF Owned
<1>6. \A p, q \in unacked' : Owned(p) /\ Owned(q) /\ p.msg = q.msg => p = q
  <2> TAKE p, q \in unacked'
  <2>1. PICK r \in unacked : /\ p = [r EXCEPT !.cancelled = TRUE]
                             /\ p.msg = r.msg /\ p.acquired = r.acquired /\ p.ended = r.ended
    BY <1>2
  <2>2. PICK x \in unacked : /\ q = [x EXCEPT !.cancelled = TRUE]
                             /\ q.msg = x.msg /\ q.acquired = x.acquired /\ q.ended = x.ended
    BY <1>2
  <2>3. Owned(r) /\ Owned(x) /\ r.msg = x.msg => r = x
    BY DEF OInv, OwnersOK
  <2> QED
    BY <2>1, <2>2, <2>3 DEF Owned
<1>7. \A m \in stranded' : state'[m] = "ACQUIRED"
  BY <1>1 DEF OInv, OwnersOK
<1> QED
  BY <1>4, <1>5, <1>6, <1>7 DEF OwnersOK

\* Closing returns what the records own to the queue, and nothing else.
LEMMA CloseOwners ==
    ASSUME OInv, Close
    PROVE  OwnersOK'
<1>1. /\ unacked' = {} /\ stranded' = stranded
      /\ \A m \in Msgs : state'[m] = IF \E r \in unacked : r.msg = m /\ Owned(r)
                                     THEN "AVAILABLE" ELSE state[m]
  BY DEF Close
<1>2. \A m \in Msgs \ stranded : state'[m] # "ACQUIRED"
  BY <1>1 DEF OInv, OwnersOK
<1>3. \A m \in stranded : state'[m] = "ACQUIRED"
  BY <1>1 DEF OInv, OwnersOK, SemanticInv, SemanticTypeOK
<1> QED
  BY <1>1, <1>2, <1>3 DEF OwnersOK

\* Other subscribers leave acquired messages alone.
LEMMA OtherOwners ==
    ASSUME OInv, NEW m \in Msgs, Other(m)
    PROVE  OwnersOK'
<1>1. UNCHANGED <<unacked, stranded>>
  BY DEF Other
<1>2. \A n \in Msgs : state'[n] = "ACQUIRED" <=> state[n] = "ACQUIRED"
  <2>1. \E s \in {"AVAILABLE", "OTHER", "GONE"} : state' = [state EXCEPT ![m] = s]
    BY DEF Other
  <2>2. state[m] \in {"AVAILABLE", "OTHER"}
    BY DEF Other
  <2> QED
    BY <2>1, <2>2, StateType DEF OInv, SemanticInv
<1>3. (\A r \in unacked : r.msg \in Msgs) /\ stranded \subseteq Msgs
  BY RecordFacts DEF OInv, SemanticInv, SemanticTypeOK
<1> QED
  BY <1>1, <1>2, <1>3 DEF OInv, OwnersOK

\* In whatever order a client accepts, rejects, releases, acquires, completes,
\* changes its flow control and ends its subscription, every message it has
\* acquired is owned by exactly one record that can still settle it: all but
\* those acquired through a record that had ended, which have none for good.
THEOREM OneOwner == SemanticSpec => []AcquiredHasOneOwner
<1>1. SemanticInit => OInv
  <2> SUFFICES ASSUME SemanticInit PROVE OInv
    OBVIOUS
  <2>1. unacked = {} /\ state = [m \in Msgs |-> "AVAILABLE"] /\ stranded = {}
    BY DEF SemanticInit
  <2>2. SemanticInv
    BY InitHolds
  <2> QED
    BY <2>1, <2>2 DEF OInv, OwnersOK
<1>2. OInv /\ [SemanticNext]_semanticVars => OInv'
  <2> SUFFICES ASSUME OInv, [SemanticNext]_semanticVars PROVE OwnersOK'
    BY StepKeeps DEF OInv
  <2>1. CASE UNCHANGED <<state, unacked, stranded>>
    BY <2>1 DEF OInv, OwnersOK
  <2>2. CASE \E m \in Msgs : Deliver(m) \/ Other(m)
    BY <2>2, DeliverOwners, OtherOwners
  <2>3. CASE \E r \in unacked : Accept(r) \/ Reject(r) \/ Release(r) \/ Acquire(r)
    BY <2>3, SettleOwnership, ReplacedOwners
  <2>4. CASE \E r \in unacked : Complete(r)
    BY <2>4, CompleteOwnership, ReplacedOwners
  <2>5. CASE Cancel \/ Close
    BY <2>5, CancelOwners, CloseOwners
  <2>6. \A v, mode : Flow(v) \/ SetFlowMode(mode) \/ Stop => UNCHANGED <<state, unacked, stranded>>
    BY DEF Flow, SetFlowMode, Stop
  <2>7. UNCHANGED semanticVars => UNCHANGED <<state, unacked, stranded>>
    BY DEF semanticVars
  <2> QED
    BY <2>1, <2>2, <2>3, <2>4, <2>5, <2>6, <2>7 DEF SemanticNext
<1>3. OInv => AcquiredHasOneOwner
  <2> SUFFICES ASSUME OInv, NEW m \in Msgs
               PROVE  Cardinality(Owner(m)) =
                          IF state[m] = "ACQUIRED" /\ m \notin stranded THEN 1 ELSE 0
    BY DEF AcquiredHasOneOwner
  <2>1. CASE state[m] = "ACQUIRED" /\ m \notin stranded
    <3>1. PICK r \in unacked : r.msg = m /\ Owned(r)
      BY <2>1 DEF OInv, OwnersOK
    <3>2. Owner(m) = {r}
      BY <3>1 DEF Owner, OInv, OwnersOK
    <3> QED
      BY <2>1, <3>2, FS_Singleton
  <2>2. CASE ~(state[m] = "ACQUIRED" /\ m \notin stranded)
    <3>1. Owner(m) = {}
      BY <2>2 DEF Owner, OInv, OwnersOK
    <3> QED
      BY <2>2, <3>1, FS_EmptySet
  <2> QED
    BY <2>1, <2>2
<1> QED
  BY <1>1, <1>2, <1>3, PTL DEF SemanticSpec
=============================================================================
