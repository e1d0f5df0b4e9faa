-------------------------- MODULE IngressCompletion --------------------------
(***************************************************************************)
(* When a publisher is told that its message.transfer is complete.  An     *)
(* AsyncCompletion counts what the transfer still waits for: the thread    *)
(* that routes the message, the asynchronous write of the store            *)
(* (external) and the flow limit of the queue.  Whoever takes the count to *)
(* zero runs the callback; from another thread the callback only schedules *)
(* the completion, and the connection's I/O thread completes the command   *)
(* and the execution.sync commands that waited for it.                     *)
(*                                                                         *)
(* Threads: the I/O thread of the publisher's connection (io), the store   *)
(* and the consumers.  An action is one atomic operation on the counter,   *)
(* or one critical section of the queue's, the flow limit's or the         *)
(* completer's lock.                                                       *)
(***************************************************************************)
EXTENDS Integers, Sequences, FiniteSets, SequencesExt

CONSTANTS
    MaxCommands,  \* bound: commands the publisher sends
    FlowStop,     \* flowStopCount; 0: no limit
    FlowResume    \* flowResumeCount

ASSUME FlowAssumption ==
    MaxCommands \in Nat /\ FlowStop \in Nat /\ FlowResume \in 0..FlowStop

VARIABLES
    needed,       \* AsyncCompletion::completionsNeeded of each transfer
    callback,     \* transfers with AsyncCompletion::callback set
    active,       \* transfers with AsyncCompletion::active set
    invoking,     \* transfers whose count a thread took to zero: it will run invokeCallback
    writing,      \* asynchronous writes the store has not finished
    queue,        \* transfers whose message is on the queue
    rerouted,     \* transfers whose message went to the alternate exchange
    flowStopped,  \* QueueFlowLimit::flowStopped
    index,        \* QueueFlowLimit::index: transfers held back
    io,           \* what the I/O thread is in the middle of
    received,     \* commands received
    incomplete,   \* SessionState: receiver.incomplete
    pendingSyncs, \* pendingExecutionSyncs
    completedCmds,\* AsyncCommandCompleter::completedCmds
    requested,    \* completeCommands is queued for the I/O thread
    attached      \* the session is attached

completionVars == <<needed, callback, active, invoking, writing>>
queueVars == <<queue, rerouted, flowStopped, index>>
sessionVars == <<received, incomplete, pendingSyncs, completedCmds, requested, attached>>
vars == <<completionVars, queueVars, io, sessionVars>>

Commands == 1..MaxCommands
Idle == [pc |-> "idle", id |-> 0]

TypeOK ==
    /\ needed \in [Commands -> 0..4]
    /\ callback \subseteq Commands /\ active \subseteq Commands /\ invoking \subseteq Commands
    /\ writing \subseteq Commands \X {"queue", "alternate"}
    /\ queue \subseteq Commands /\ rerouted \subseteq Commands
    /\ flowStopped \in BOOLEAN /\ index \subseteq queue
    /\ io \in [pc : {"idle", "begun", "routed", "cloned"}, id : Commands \cup {0}]
    /\ received \in 0..MaxCommands
    /\ incomplete \subseteq 1..received /\ pendingSyncs \subseteq incomplete
    /\ completedCmds \in Seq(Commands)
    /\ requested \in BOOLEAN /\ attached \in BOOLEAN

---------------------------------------------------------------------------

\* finishCompleter for every transfer in done.
FinishCompleter(count, done) ==
    /\ needed' = [i \in Commands |-> IF i \in done THEN count[i] - 1 ELSE count[i]]
    /\ invoking' = invoking \cup {i \in done : count[i] = 1}

\* Mutant: a sync waits only for the command just before it.
SyncsDoneByLast(rest) == {s \in pendingSyncs : s - 1 \notin rest \/ s - 1 \in pendingSyncs}

\* The syncs that completeCommand pops: nothing but syncs is left before them.
SyncsDone(rest) == {s \in pendingSyncs : \A c \in rest : c < s => c \in pendingSyncs}

\* SessionState::completeCommand for every command in done.
CompleteCommand(open, done) ==
    LET syncs == SyncsDone(open \ done)
    IN  /\ incomplete' = open \ (done \cup syncs)
        /\ pendingSyncs' = pendingSyncs \ syncs

---------------------------------------------------------------------------
(***************************************************************************)
(* The I/O thread: SessionState::handleIn.                                 *)
(***************************************************************************)

\* Mutant: routing starts without begin().
BeginNothing(id) == [needed EXCEPT ![id] = 0]

\* AsyncCompletion::begin
Begin(id) == [needed EXCEPT ![id] = 1]

\* handleContent: begin(), and Queue::enqueue gives a durable message to the store.
ReceiveTransfer ==
    LET id == received + 1
    IN  /\ attached /\ io = Idle /\ received < MaxCommands
        /\ received' = id
        /\ incomplete' = incomplete \cup {id}
        /\ active' = active \cup {id}
        /\ io' = [pc |-> "begun", id |-> id]
        /\ \/ needed' = [Begin(id) EXCEPT ![id] = @ + 1] /\ writing' = writing \cup {<<id, "queue">>}
           \/ needed' = Begin(id) /\ UNCHANGED writing
        /\ UNCHANGED <<callback, invoking, queueVars, pendingSyncs, completedCmds,
                       requested, attached>>

\* Queue::push with QueueFlowLimit::enqueued: the message is held while flow is
\* stopped, and as long as another one is.
Push ==
    LET id == io.id
        stopped == flowStopped \/ (FlowStop > 0 /\ Cardinality(queue) + 1 > FlowStop)
        held == stopped \/ index # {}
    IN  /\ io.pc = "begun"
        /\ queue' = queue \cup {id}
        /\ flowStopped' = stopped
        /\ index' = IF held THEN index \cup {id} ELSE index
        /\ needed' = IF held THEN [needed EXCEPT ![id] = @ + 1] ELSE needed
        /\ io' = [io EXCEPT !.pc = "routed"]
        /\ UNCHANGED <<callback, active, invoking, writing, rerouted, sessionVars>>

\* AsyncCompletion::end: nothing is outstanding, the callback runs at once.
EndNow ==
    /\ io.pc = "routed" /\ needed[io.id] = 1
    /\ needed' = [needed EXCEPT ![io.id] = 0]
    /\ CompleteCommand(incomplete, {io.id})
    /\ io' = Idle
    /\ UNCHANGED <<callback, active, invoking, writing, queueVars,
                   received, completedCmds, requested, attached>>

\* end(), else: first the callback is kept ...
EndClone ==
    /\ io.pc = "routed" /\ needed[io.id] # 1
    /\ callback' = callback \cup {io.id}
    /\ io' = [io EXCEPT !.pc = "cloned"]
    /\ UNCHANGED <<needed, active, invoking, writing, queueVars, sessionVars>>

\* ... then the count goes down; a completer may have finished meanwhile.
EndDecrement ==
    LET id == io.id
    IN  /\ io.pc = "cloned"
        /\ needed' = [needed EXCEPT ![id] = @ - 1]
        /\ io' = Idle
        /\ IF needed[id] = 1
           THEN /\ callback' = callback \ {id} /\ active' = active \ {id}
                /\ CompleteCommand(incomplete, {id})
           ELSE UNCHANGED <<callback, active, incomplete, pendingSyncs>>
        /\ UNCHANGED <<invoking, writing, queueVars, received, completedCmds, requested, attached>>

\* execution.sync: complete when nothing before it is incomplete, else pending.
ReceiveSync ==
    LET id == received + 1
    IN  /\ attached /\ io = Idle /\ received < MaxCommands
        /\ received' = id
        /\ IF incomplete # {}
           THEN /\ incomplete' = incomplete \cup {id}
                /\ pendingSyncs' = pendingSyncs \cup {id}
           ELSE CompleteCommand(incomplete \cup {id}, {id})
        /\ UNCHANGED <<completionVars, queueVars, io, completedCmds, requested, attached>>

\* Mutant: the scheduled commands are not cleared once they are completed.
ClearedNot == IF attached THEN completedCmds ELSE <<>>

\* completedCmds.clear()
Cleared == <<>>

\* AsyncCommandCompleter::completeCommands
CompleteCommands ==
    /\ io = Idle /\ requested
    /\ requested' = FALSE
    /\ completedCmds' = Cleared
    /\ IF attached THEN CompleteCommand(incomplete, ToSet(completedCmds))
                   ELSE UNCHANGED <<incomplete, pendingSyncs>>
    /\ UNCHANGED <<completionVars, queueVars, io, received, attached>>

\* The session ends: AsyncCommandCompleter::detached and cancel.
Detach ==
    /\ attached /\ io = Idle
    /\ attached' = FALSE
    /\ UNCHANGED <<completionVars, queueVars, io, received, incomplete, pendingSyncs,
                   completedCmds, requested>>

---------------------------------------------------------------------------
(***************************************************************************)
(* Completers.                                                             *)
(***************************************************************************)

\* The store has written the message (external).
StoreDone ==
    /\ \E w \in writing :
         /\ writing' = writing \ {w}
         /\ FinishCompleter(needed, {w[1]})
    /\ UNCHANGED <<callback, active, queueVars, io, sessionVars>>

\* The transfers QueueFlowLimit::dequeued lets go.
Released(id, resumed) == IF resumed THEN index ELSE index \cap {id}

\* QueueFlowLimit::dequeued
FlowDequeued(id, count) ==
    LET resumed == ~flowStopped \/ FlowResume = 0 \/ Cardinality(queue) - 1 < FlowResume
        released == Released(id, resumed)
    IN  /\ queue' = queue \ {id}
        /\ flowStopped' = ~resumed
        /\ index' = index \ released
        /\ FinishCompleter(count, released)

\* A consumer accepts the message.
Dequeue(id) ==
    /\ id \in queue
    /\ FlowDequeued(id, needed)
    /\ UNCHANGED <<callback, active, writing, rerouted, io, sessionVars>>

\* A consumer rejects it: it is routed to a queue of the alternate exchange,
\* which stores it again under the completion of the same transfer, whether
\* that is finished or not.
Reroute(id) ==
    /\ id \in queue \ rerouted
    /\ rerouted' = rerouted \cup {id}
    /\ writing' = writing \cup {<<id, "alternate">>}
    /\ FlowDequeued(id, [needed EXCEPT ![id] = @ + 1])
    /\ UNCHANGED <<callback, active, io, sessionVars>>

\* AsyncCompletion::invokeCallback lets a callback run once.
InvokeOnce(id) == callback' = callback \ {id} /\ active' = active \ {id}

\* invokeCallback(false) with scheduleCommandCompletion; a request for the I/O
\* thread is made for the first command only.
InvokeCallback(id) ==
    /\ id \in invoking
    /\ invoking' = invoking \ {id}
    /\ InvokeOnce(id)
    /\ IF id \in active \cap callback /\ attached
       THEN /\ completedCmds' = Append(completedCmds, id)
            /\ requested' = (requested \/ completedCmds = <<>>)
       ELSE UNCHANGED <<completedCmds, requested>>
    /\ UNCHANGED <<needed, writing, queueVars, io, received, incomplete, pendingSyncs, attached>>

---------------------------------------------------------------------------

Init ==
    /\ needed = [i \in Commands |-> 0]
    /\ callback = {} /\ active = {} /\ invoking = {} /\ writing = {}
    /\ queue = {} /\ rerouted = {} /\ flowStopped = FALSE /\ index = {}
    /\ io = Idle /\ received = 0
    /\ incomplete = {} /\ pendingSyncs = {} /\ completedCmds = <<>>
    /\ requested = FALSE /\ attached = TRUE

IOThread == Push \/ EndNow \/ EndClone \/ EndDecrement \/ CompleteCommands

Next ==
    \/ ReceiveTransfer \/ ReceiveSync \/ IOThread \/ Detach
    \/ StoreDone
    \/ \E id \in Commands : Dequeue(id) \/ Reroute(id) \/ InvokeCallback(id)

\* The I/O thread, the store and a thread in a callback go on; consumers take
\* the messages on the queue.
Fairness ==
    /\ WF_vars(IOThread) /\ WF_vars(StoreDone)
    /\ \A id \in Commands : WF_vars(Dequeue(id)) /\ WF_vars(InvokeCallback(id))

Spec == Init /\ [][Next]_vars /\ Fairness

---------------------------------------------------------------------------
(***************************************************************************)
(* Properties.                                                             *)
(***************************************************************************)

\* The publisher is told that a transfer is complete only when the store has
\* written the message and the flow limit does not hold it back, in whatever
\* order routing, end() and the completers run (stated with the domains of the
\* variables).
CompletedWhenSafe ==
    /\ TypeOK
    /\ \A id \in (1..received) \ incomplete : <<id, "queue">> \notin writing /\ id \notin index

\* An execution.sync is complete only when every command before it is.
SyncIsBarrier ==
    [][\A s \in (pendingSyncs \ pendingSyncs') : \A c \in 1..s : c \notin incomplete']_vars

\* Every command is completed while the session lasts, as long as consumers
\* take what is on the queue (a limit nobody works off does stop a publisher):
\* no callback, no scheduled completion and no held message is lost.
EventuallyCompleted ==
    \A id \in Commands : (id \in incomplete /\ attached) ~> (id \notin incomplete \/ ~attached)

=============================================================================
