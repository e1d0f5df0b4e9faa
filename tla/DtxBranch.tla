------------------------------ MODULE DtxBranch ------------------------------
(***************************************************************************)
(* One branch of a distributed transaction: the DtxWorkRecord that         *)
(* DtxManager keeps for its xid, the DtxBuffers of the sessions that work  *)
(* on it, its DtxTimeout on the timer thread, and the transactional store  *)
(* (external) that survives a crash of the broker.                         *)
(*                                                                         *)
(* The client side is a transaction manager that obeys XA: one command on  *)
(* the xid at a time, a two-phase commit only after a successful prepare,  *)
(* nothing after an answer that ends the branch, the same decision again   *)
(* after a crash, and a rollback if the broker crashed before a prepare    *)
(* was answered.  An xid names one branch; a session joins it once, and    *)
(* not before the dtx.start that creates it is answered.                   *)
(* An action is one critical section of DtxManager::lock or of the         *)
(* record's lock; the store's commit and the commit of the buffers, and    *)
(* the store's prepare and its answer, are separate steps because the      *)
(* broker may crash between them.                                          *)
(***************************************************************************)
EXTENDS Integers, FiniteSets

CONSTANTS
    Sessions,
    MaxOps,      \* bound: operations a session enlists
    MaxCrashes,  \* bound: crashes of the broker
    Recovered    \* names the buffer that recovery creates; not a session

ASSUME DtxAssumption ==
    Recovered \notin Sessions /\ MaxOps \in Nat /\ MaxCrashes \in Nat

VARIABLES
    record,      \* the DtxWorkRecord in DtxManager::work, or NoRecord
    buffer,      \* the DtxBuffers
    attached,    \* SemanticState: where each session has its buffer
    outcome,     \* what became of each operation (TxOp)
    stored,      \* the store: the operations of the prepared or committed xid
    timer,       \* TimerTask::state of the record's DtxTimeout
    cmd,         \* the thread that serves the transaction manager
    told,        \* the answer the transaction manager has
    decision,    \* what it logged it will do
    begun,       \* the branch has been started
    crashes

branchVars == <<record, buffer, attached, outcome, stored, timer>>
vars == <<branchVars, cmd, told, decision, begun, crashes>>

Ops == Sessions \X (1..MaxOps)
Buffers == Sessions \cup {Recovered}

NoRecord == [known |-> FALSE, work |-> {}, completed |-> FALSE, rolledback |-> FALSE,
             prepared |-> FALSE, expired |-> FALSE]
NewRecord == [NoRecord EXCEPT !.known = TRUE]
NoTxn == [state |-> "none", ops |-> {}]
NewBuffer == [ops |-> {}, ended |-> FALSE, failed |-> FALSE, expired |-> FALSE]
Idle == [pc |-> "idle", name |-> "none", answer |-> "none"]

\* DtxWorkRecord and DtxBuffer
RecordType == [known : BOOLEAN, work : SUBSET Buffers, completed : BOOLEAN,
               rolledback : BOOLEAN, prepared : BOOLEAN, expired : BOOLEAN]
BufferType == [ops : SUBSET Ops, ended : BOOLEAN, failed : BOOLEAN, expired : BOOLEAN]

TypeOK ==
    /\ record \in RecordType
    /\ buffer \in [Buffers -> BufferType]
    /\ attached \in [Sessions -> {"never", "joining", "active", "suspended", "detached"}]
    /\ outcome \in [Ops -> {"none", "enlisted", "late", "outside", "committed", "rolledback"}]
    /\ stored \in [state : {"none", "prepared", "committed"}, ops : SUBSET Ops]
    /\ timer \in {"none", "waiting", "calling", "done", "cancelled"}
    /\ cmd \in [pc : {"idle", "work", "stored", "answer", "remove", "cancel"},
                name : {"none", "prepare", "commit", "commit1", "rollback"},
                answer : {"none", "prepared", "committed", "rolledback"}]
    /\ told \in {"none", "prepared", "committed", "rolledback", "unknown"}
    /\ decision \in {"none", "commit", "rollback"}
    /\ begun \in BOOLEAN /\ crashes \in 0..MaxCrashes

---------------------------------------------------------------------------

\* TxBuffer::rollback and TxBuffer::commit: the operations end and are dropped.
Finish(bs, result) ==
    /\ outcome' = [o \in Ops |-> IF \E b \in bs : o \in buffer[b].ops THEN result ELSE outcome[o]]
    /\ buffer' = [b \in Buffers |-> IF b \in bs THEN [buffer[b] EXCEPT !.ops = {}] ELSE buffer[b]]

\* DtxBuffer::fail.  What was enlisted outside the branch has no part in its
\* outcome, whatever becomes of it.
Fail(s) ==
    /\ outcome' = [o \in Ops |-> IF o \in buffer[s].ops /\ outcome[o] # "outside"
                                  THEN "rolledback" ELSE outcome[o]]
    /\ buffer' = [buffer EXCEPT ![s] = [@ EXCEPT !.ops = {}, !.failed = TRUE, !.ended = TRUE]]

\* The manager's lock is held while a record is destroyed.
ManagerFree == cmd.pc # "cancel"
\* The record's lock is held from the store's commit to the buffers' commit.
RecordFree == cmd.pc # "stored"

---------------------------------------------------------------------------
(***************************************************************************)
(* Sessions.                                                               *)
(***************************************************************************)

\* dtx.start: DtxManager::start creates the record and its default timeout.
Start(s) ==
    /\ ~begun /\ ManagerFree
    /\ begun' = TRUE
    /\ record' = [NewRecord EXCEPT !.work = {s}]
    /\ attached' = [attached EXCEPT ![s] = "active"]
    /\ timer' = "waiting"
    /\ UNCHANGED <<buffer, outcome, stored, cmd, told, decision, crashes>>

\* dtx.start with join: DtxManager::getWork finds the record ...
Join(s) ==
    /\ attached[s] = "never" /\ ManagerFree
    /\ record.known
    /\ attached' = [attached EXCEPT ![s] = "joining"]
    /\ UNCHANGED <<record, buffer, outcome, stored, timer, cmd, told, decision, begun, crashes>>

\* ... and DtxWorkRecord::add works on it.  A completed branch is an exception
\* that closes the session; an expired one is answered XA_RBTIMEOUT, and the
\* session keeps the buffer that the branch refused.  (A record that was
\* destroyed since getWork is used after it is freed: not followed.)
AddJoin(s) ==
    /\ attached[s] = "joining" /\ RecordFree
    /\ record.known
    /\ LET refused == record.expired \/ record.completed IN
         /\ record' = IF refused THEN record ELSE [record EXCEPT !.work = @ \cup {s}]
         /\ attached' = [attached EXCEPT ![s] =
              IF record.completed /\ ~record.expired THEN "detached" ELSE "active"]
    /\ UNCHANGED <<buffer, outcome, stored, timer, cmd, told, decision, begun, crashes>>

\* A publish or an accept enlists a TxPublish or a DtxAck.  Nothing tells the
\* session that its buffer has expired, or that no branch holds it.
Enlist(s) ==
    /\ attached[s] = "active"
    /\ \E n \in 1..MaxOps :
         /\ outcome[<<s, n>>] = "none" /\ \A k \in 1..(n - 1) : outcome[<<s, k>>] # "none"
         /\ outcome' = [outcome EXCEPT ![<<s, n>>] =
              IF buffer[s].expired THEN "late"
              ELSE IF s \notin record.work THEN "outside" ELSE "enlisted"]
         /\ buffer' = [buffer EXCEPT ![s].ops = @ \cup {<<s, n>>}]
    /\ UNCHANGED <<record, attached, stored, timer, cmd, told, decision, begun, crashes>>

\* dtx.end.  checkDtxTimeout drops an expired buffer without another word.
End(s) ==
    /\ attached[s] = "active"
    /\ attached' = [attached EXCEPT ![s] = "detached"]
    /\ \/ /\ buffer[s].expired
          /\ UNCHANGED <<buffer, outcome>>
       \/ /\ ~buffer[s].expired
          /\ buffer' = [buffer EXCEPT ![s].ended = TRUE]
          /\ UNCHANGED outcome
       \/ /\ ~buffer[s].expired
          /\ Fail(s)
    /\ UNCHANGED <<record, stored, timer, cmd, told, decision, begun, crashes>>

\* dtx.end with suspend, and dtx.start with resume.
Suspend(s) ==
    /\ attached[s] = "active"
    /\ attached' = [attached EXCEPT ![s] = IF buffer[s].expired THEN "detached" ELSE "suspended"]
    /\ UNCHANGED <<record, buffer, outcome, stored, timer, cmd, told, decision, begun, crashes>>

Resume(s) ==
    /\ attached[s] = "suspended"
    /\ attached' = [attached EXCEPT ![s] = IF buffer[s].expired THEN "detached" ELSE "active"]
    /\ UNCHANGED <<record, buffer, outcome, stored, timer, cmd, told, decision, begun, crashes>>

\* SemanticState::closed fails the current buffer, not a suspended one.
Close(s) ==
    /\ attached[s] \in {"active", "suspended"}
    /\ attached' = [attached EXCEPT ![s] = "detached"]
    /\ IF attached[s] = "active" THEN Fail(s) ELSE UNCHANGED <<buffer, outcome>>
    /\ UNCHANGED <<record, stored, timer, cmd, told, decision, begun, crashes>>

---------------------------------------------------------------------------
(***************************************************************************)
(* Commands of the transaction manager.                                    *)
(***************************************************************************)

\* A command starts with DtxManager::getWork.
Command(name) ==
    /\ cmd = Idle /\ begun
    /\ \/ /\ record.known
          /\ cmd' = [Idle EXCEPT !.pc = "work", !.name = name]
          /\ UNCHANGED told
       \/ /\ ~record.known
          /\ told' = "unknown"
          /\ UNCHANGED cmd
    /\ UNCHANGED <<branchVars, begun, crashes>>

IssuePrepare  == told = "none" /\ decision = "none" /\ Command("prepare") /\ UNCHANGED decision
IssueCommit1  == told = "none" /\ decision = "none" /\ Command("commit1") /\ UNCHANGED decision
IssueCommit   == told = "prepared" /\ decision # "rollback" /\ Command("commit")
                   /\ decision' = "commit"
IssueRollback == told \in {"none", "prepared"} /\ decision # "commit" /\ Command("rollback")
                   /\ decision' = "rollback"

AllEnded == \A b \in record.work : buffer[b].ended

\* Mutant: a branch of which one part failed is completed all the same.
RollbackOnlyIgnored == record.rolledback

\* DtxWorkRecord::check: the branch is, or becomes, rollback only.
RollbackOnly ==
    record.rolledback \/ (~record.completed /\ \E b \in record.work : buffer[b].failed)

Checked == [record EXCEPT !.completed = TRUE, !.rolledback = RollbackOnly]

At(name) == cmd.pc = "work" /\ cmd.name = name

\* check() throws: the branch has expired (the record is then removed), or a
\* part of it has not ended (the command fails and nothing changes).
ExpiredCommand ==
    /\ cmd.pc = "work" /\ record.expired
    /\ cmd' = [cmd EXCEPT !.pc = "remove", !.answer = "rolledback"]
    /\ UNCHANGED <<branchVars, told, decision, begun, crashes>>

UnendedCommand ==
    /\ cmd.pc = "work" /\ ~record.expired /\ ~record.completed /\ ~AllEnded
    /\ cmd' = Idle
    /\ decision' = "none"
    /\ UNCHANGED <<branchVars, told, begun, crashes>>

Checks == cmd.pc = "work" /\ ~record.expired /\ (record.completed \/ AllEnded)

WorkOps == UNION {buffer[b].ops : b \in record.work}

\* Mutant: the store keeps the prepared transaction of an aborted branch.
StoreKept == stored

\* store->abort, if the record holds a transaction: from prepare to commit.
StoreAborted == IF stored.state = "prepared" THEN NoTxn ELSE stored

\* DtxWorkRecord::abort
Abort ==
    /\ Finish(record.work, "rolledback")
    /\ stored' = StoreAborted

\* DtxWorkRecord::prepare; an operation may fail to prepare.
Prepare ==
    /\ Checks /\ At("prepare")
    /\ \/ /\ ~RollbackOnly
          /\ stored' = [state |-> "prepared", ops |-> WorkOps]
          /\ record' = [Checked EXCEPT !.prepared = TRUE]
          /\ cmd' = [cmd EXCEPT !.pc = "answer", !.answer = "prepared"]
          /\ UNCHANGED <<buffer, outcome>>
       \/ /\ Abort
          /\ record' = Checked
          /\ cmd' = [cmd EXCEPT !.pc = "answer", !.answer = "rolledback"]
    /\ UNCHANGED <<attached, timer, told, decision, begun, crashes>>

\* The result of dtx.prepare reaches the transaction manager.
Answer ==
    /\ cmd.pc = "answer"
    /\ told' = cmd.answer
    /\ cmd' = Idle
    /\ UNCHANGED <<branchVars, decision, begun, crashes>>

\* DtxWorkRecord::commit, up to the store.
CommitStore ==
    /\ Checks /\ cmd.name \in {"commit", "commit1"} /\ ~RollbackOnly
    /\ (cmd.name = "commit") = record.prepared
    /\ record' = Checked
    /\ stored' = [state |-> "committed",
                  ops |-> IF record.prepared THEN stored.ops ELSE WorkOps]
    /\ cmd' = [cmd EXCEPT !.pc = "stored"]
    /\ UNCHANGED <<buffer, attached, outcome, timer, told, decision, begun, crashes>>

\* DtxWorkRecord::commit, the buffers.
CommitWork ==
    /\ cmd.pc = "stored"
    /\ Finish(record.work, "committed")
    /\ cmd' = [cmd EXCEPT !.pc = "remove", !.answer = "committed"]
    /\ UNCHANGED <<record, attached, stored, timer, told, decision, begun, crashes>>

\* DtxWorkRecord::commit of a rollback-only branch, or one-phase and an
\* operation fails to prepare.
CommitAborts ==
    /\ Checks /\ cmd.name \in {"commit", "commit1"}
    /\ RollbackOnly \/ (cmd.name = "commit1" /\ ~record.prepared)
    /\ Abort
    /\ record' = Checked
    /\ cmd' = [cmd EXCEPT !.pc = "remove", !.answer = "rolledback"]
    /\ UNCHANGED <<attached, timer, told, decision, begun, crashes>>

\* Mutant: the record is dropped without rolling back its buffers.
RollbackForgets ==
    /\ Checks /\ At("rollback")
    /\ UNCHANGED <<buffer, outcome>>
    /\ stored' = StoreAborted
    /\ record' = Checked
    /\ cmd' = [cmd EXCEPT !.pc = "remove", !.answer = "rolledback"]
    /\ UNCHANGED <<attached, timer, told, decision, begun, crashes>>

\* DtxWorkRecord::rollback
Rollback ==
    /\ Checks /\ At("rollback")
    /\ Abort
    /\ record' = Checked
    /\ cmd' = [cmd EXCEPT !.pc = "remove", !.answer = "rolledback"]
    /\ UNCHANGED <<attached, timer, told, decision, begun, crashes>>

\* DtxManager::remove: under the manager's lock the record goes, and its
\* destructor cancels the timeout ...
Remove ==
    /\ cmd.pc = "remove"
    /\ record' = NoRecord
    /\ cmd' = [cmd EXCEPT !.pc = "cancel"]
    /\ UNCHANGED <<buffer, attached, outcome, stored, timer, told, decision, begun, crashes>>

\* ... which waits while the task is being called (TimerTask::cancel).
CancelTimeout ==
    /\ cmd.pc = "cancel" /\ timer # "calling"
    /\ timer' = "cancelled"
    /\ cmd' = Idle
    /\ told' = cmd.answer
    /\ UNCHANGED <<record, buffer, attached, outcome, stored, decision, begun, crashes>>

---------------------------------------------------------------------------
(***************************************************************************)
(* The timer thread, and crashes.                                          *)
(***************************************************************************)

\* Timer::run: prepareToFire
FireTimeout ==
    /\ timer = "waiting"
    /\ timer' = "calling"
    /\ UNCHANGED <<record, buffer, attached, outcome, stored, cmd, told, decision, begun, crashes>>

\* DtxManager::timedout, with DtxWorkRecord::timedout and finishFiring.
Timedout ==
    /\ timer = "calling" /\ ManagerFree /\ (~record.known \/ RecordFree)
    /\ timer' = "done"
    /\ IF ~record.known
       THEN UNCHANGED <<record, buffer, outcome, stored>>
       ELSE /\ record' = [record EXCEPT !.expired = TRUE, !.rolledback = TRUE]
            /\ stored' = StoreAborted
            /\ outcome' = [o \in Ops |-> IF o \in WorkOps THEN "rolledback" ELSE outcome[o]]
            /\ buffer' = [b \in Buffers |->
                 IF b \notin record.work THEN buffer[b]
                 ELSE IF record.completed \/ buffer[b].ended THEN [buffer[b] EXCEPT !.ops = {}]
                 ELSE [ops |-> {}, ended |-> TRUE, failed |-> TRUE, expired |-> TRUE]]
    /\ UNCHANGED <<attached, cmd, told, decision, begun, crashes>>

\* The broker fails and starts again.  An operation that the store does not
\* have is undone; a prepared transaction is recovered with its operations,
\* and with the default timeout like a new one.  A transaction manager that
\* had no answer to its prepare rolls the branch back.
Crash ==
    /\ crashes < MaxCrashes
    /\ crashes' = crashes + 1
    /\ cmd' = Idle
    /\ decision' = IF cmd.name = "prepare" THEN "rollback" ELSE decision
    /\ attached' = [s \in Sessions |-> IF attached[s] = "never" THEN "never" ELSE "detached"]
    /\ outcome' = [o \in Ops |->
         IF outcome[o] \in {"none", "outside"} THEN outcome[o]
         ELSE IF o \notin stored.ops THEN "rolledback"
         ELSE IF stored.state = "committed" THEN "committed" ELSE "enlisted"]
    /\ IF stored.state = "prepared"
       THEN /\ record' = [NewRecord EXCEPT !.work = {Recovered}, !.completed = TRUE,
                                           !.prepared = TRUE]
            /\ buffer' = [b \in Buffers |->
                 IF b = Recovered THEN [NewBuffer EXCEPT !.ops = stored.ops, !.ended = TRUE]
                                  ELSE NewBuffer]
            /\ timer' = "waiting"
       ELSE /\ record' = NoRecord
            /\ buffer' = [b \in Buffers |-> NewBuffer]
            /\ timer' = "none"
    /\ UNCHANGED <<stored, told, begun>>

---------------------------------------------------------------------------

Init ==
    /\ record = NoRecord
    /\ buffer = [b \in Buffers |-> NewBuffer]
    /\ attached = [s \in Sessions |-> "never"]
    /\ outcome = [o \in Ops |-> "none"]
    /\ stored = NoTxn
    /\ timer = "none"
    /\ cmd = Idle /\ told = "none" /\ decision = "none"
    /\ begun = FALSE /\ crashes = 0

Next ==
    \/ \E s \in Sessions : Start(s) \/ Join(s) \/ AddJoin(s) \/ Enlist(s) \/ End(s)
                             \/ Suspend(s) \/ Resume(s) \/ Close(s)
    \/ IssuePrepare \/ IssueCommit1 \/ IssueCommit \/ IssueRollback
    \/ ExpiredCommand \/ UnendedCommand
    \/ Prepare \/ Answer \/ CommitStore \/ CommitWork \/ CommitAborts \/ Rollback
    \/ Remove \/ CancelTimeout \/ FireTimeout \/ Timedout \/ Crash

Spec == Init /\ [][Next]_vars

---------------------------------------------------------------------------
(***************************************************************************)
(* Properties.                                                             *)
(***************************************************************************)

\* The operations of a branch never end in different ways, whatever sessions
\* fail, wherever the timeout fires and wherever the broker crashes: a
\* failed part makes DtxWorkRecord::check abort the rest (stated with the
\* domains of the variables).
AllOrNothing ==
    /\ TypeOK
    /\ ~ \E o, p \in Ops : outcome[o] = "committed" /\ outcome[p] = "rolledback"

\* The transaction manager is told what happened: after XA_OK to a commit
\* everything that was enlisted in it is committed, in memory and in the store;
\* after a rollback nothing is, and a crash does not bring it back.
OutcomeIsAsTold ==
    /\ told = "committed" => /\ \A o \in Ops : outcome[o] \in {"none", "outside", "committed"}
                             /\ stored.state = "committed"
    /\ told = "rolledback" => /\ \A o \in Ops : outcome[o] # "committed"
                              /\ stored.state = "none"

\* When the record of a branch is gone, no operation of a session that left
\* it is still held: its messages are either published or dequeued, or
\* requeued.  (The exceptions are an operation enlisted after the branch
\* expired, "late", and one enlisted in the buffer of a refused join,
\* "outside": no branch ever ends them.)
NothingForgotten ==
    (begun /\ ~record.known) =>
        \A o \in Ops : outcome[o] = "enlisted" => attached[o[1]] = "active"

=============================================================================
