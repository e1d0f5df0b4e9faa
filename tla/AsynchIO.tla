------------------------------ MODULE AsynchIO ------------------------------
(***************************************************************************)
(* The connections of the broker as the I/O threads see them: the state    *)
(* machine of DispatchHandle over the Poller, AsynchIO with its read and   *)
(* write callbacks, and AsynchIOHandler between it and the protocol.  Other *)
(* threads announce output and the timer aborts a connection; both end     *)
(* before the handler is destroyed (closing the codec and cancelling the   *)
(* timer task wait for them).  A DispatchHandle that is stopped or deleted *)
(* from outside its callbacks, as PollableCondition and AsynchConnector    *)
(* are, and partially decoded buffers are left out.                        *)
(***************************************************************************)
EXTENDS EpollPoller

CONSTANTS BufferCount,  \* buffers of a connection
          Units,        \* writes that a buffer takes at most
          MaxEvents,    \* bound: what peers, the timer and other threads do in all
          Faults        \* what a peer or the timer may do: "eof", "reset", "abort"

ASSUME IOAssumption == {BufferCount, Units, MaxEvents} \subseteq Nat

VARIABLES
    state,          \* DispatchHandle::state
    interrupted,    \* length of interruptedCallbacks
    callbacks,      \* length of callbacks
    free,           \* buffers in bufferQueue
    left,           \* what is left to write of the buffer in writeQueue
    queuedClose, writePending, readError,
    output,         \* the codec has something to send
    closed,         \* the handler is gone
    writer, timer,  \* where another thread is in activateOutput, the timer in abort
    budget          \* what the outside may still do: arrivals, output, faults

handleVars == <<state, interrupted, callbacks>>
ioVars == <<free, left, queuedClose, writePending, readError, output, closed>>
outside == <<writer, timer, budget>>
vars == <<pollerVars, handleVars, ioVars, outside>>

Callbacks == {"readable", "writeable", "idle", "test", "unwatch", "recheck",
              "disconnected", "closing", "deleting", "closed", "calls"}

TypeOK ==
    /\ stat \in [Handles -> Stats] /\ events \in [Handles -> SUBSET Dirs]
    /\ epoll \in [Handles -> [on : BOOLEAN, dirs : SUBSET Dirs, oneshot : BOOLEAN]]
    /\ sock \in [Handles -> {"quiet", "data", "eof", "reset"}]
    /\ ih \in [queue : Seq(Handles), pending : SUBSET Handles, active : BOOLEAN, armed : BOOLEAN]
    /\ pc \in [Threads -> Callbacks \cup {"top", "requeue", "loop", "blocked", "returned",
                                          "interrupted", "wrapped", "event"}]
    /\ at \in [Threads -> Handles \cup {None}] /\ last \in [Threads -> Handles \cup {None}]
    /\ ev \in [Threads -> Events]
    /\ object \in [Handles -> {"live", "deleted"}] /\ users \in [Handles -> SUBSET Threads]
    /\ state \in [Handles -> {"IDLE", "STOPPING", "WAITING", "CALLING", "DELETING"}]
    /\ interrupted \in [Handles -> 0..1] /\ callbacks \in [Handles -> 0..1]
    /\ free \in [Handles -> 0..BufferCount] /\ left \in [Handles -> 0..Units]
    /\ \A f \in {queuedClose, writePending, readError, output, closed} : f \in [Handles -> BOOLEAN]
    /\ writer \in [Handles -> {"idle", "notify", "rewatch"}]
    /\ timer \in [Handles -> {"armed", "close", "rewatch", "done"}]
    /\ budget \in 0..MaxEvents

Init ==
    /\ PollerInit
    /\ state = [h \in Handles |-> "WAITING"]
    /\ interrupted = [h \in Handles |-> 0]
    /\ callbacks = [h \in Handles |-> 0]
    /\ free = [h \in Handles |-> BufferCount]
    /\ left = [h \in Handles |-> 0]
    /\ queuedClose = [h \in Handles |-> FALSE]
    /\ writePending = [h \in Handles |-> FALSE]
    /\ readError = [h \in Handles |-> FALSE]
    /\ output = [h \in Handles |-> FALSE]
    /\ closed = [h \in Handles |-> FALSE]
    /\ writer = [h \in Handles |-> "idle"]
    /\ timer = [h \in Handles |-> IF "abort" \in Faults THEN "armed" ELSE "done"]
    /\ budget = MaxEvents

---------------------------------------------------------------------------
(* DispatchHandle.                                                         *)

Watchable(h) == state[h] \notin {"IDLE", "STOPPING", "DELETING"}

rewatch(h, dirs) ==
    IF Watchable(h) THEN monitorHandle(h, dirs) ELSE UNCHANGED <<stat, events, epoll, ih>>
unwatch(h, dirs) ==
    IF Watchable(h) THEN unmonitorHandle(h, dirs) ELSE UNCHANGED <<stat, events, epoll, ih>>

call(h) ==
    IF Watchable(h)
    THEN interrupted' = [interrupted EXCEPT ![h] = @ + 1] /\ interrupt(h)
    ELSE UNCHANGED <<interrupted, stat, events, epoll, ih>>

Go(t, where) == pc' = [pc EXCEPT ![t] = where]
Leave(t) == Go(t, "top") /\ at' = [at EXCEPT ![t] = None]

\* processEvent up to the callbacks.  IDLE and DELETING are for handles that
\* are stopped or deleted from outside, CALLING and STOPPING are assertions.
ProcessEvent(t) ==
    /\ pc[t] = "event"
    /\ LET h == at[t] IN
       /\ state[h] = "WAITING"
       /\ state' = [state EXCEPT ![h] = "CALLING"]
       /\ callbacks' = [callbacks EXCEPT ![h] = interrupted[h]]
       /\ interrupted' = [interrupted EXCEPT ![h] = callbacks[h]]
    /\ Go(t, CASE ev[t] \in {READABLE, READ_WRITABLE} -> "readable"
               [] ev[t] = WRITABLE -> "writeable"
               [] ev[t] = DISCONNECTED -> "disconnected"
               [] OTHER -> "calls")
    /\ UNCHANGED <<stat, events, epoll, sock, ih, at, ev, last, object, users, ioVars, outside>>

\* After its callbacks a handle waits again, is idle, or goes.
Finish(t) ==
    /\ pc[t] = "calls"
    /\ LET h == at[t] IN
       /\ callbacks[h] = 0 \/ state[h] = "DELETING"
       /\ state[h] \in {"CALLING", "STOPPING", "DELETING"}
       /\ state' = [state EXCEPT ![h] = CASE @ = "STOPPING" -> "IDLE"
                                          [] @ = "CALLING" -> "WAITING"
                                          [] OTHER -> @]
       /\ IF state[h] = "DELETING" THEN Destroy(h) ELSE UNCHANGED <<stat, object, users>>
    /\ Leave(t)
    /\ UNCHANGED <<interrupted, callbacks, events, epoll, sock, ih, ev, last, ioVars, outside>>

---------------------------------------------------------------------------
(* The callbacks of AsynchIO, with what AsynchIOHandler does in them.  A   *)
(* thread is in one only while the handle is CALLING.                      *)

InCallback(t, where) ==
    /\ pc[t] = where
    /\ UNCHANGED <<sock, at, ev, last, object, users, interrupted, writer, timer, budget>>

AfterRead(t) == Go(t, IF ev[t] = READ_WRITABLE THEN "writeable" ELSE "calls")

\* readable() with something to read and a buffer.  readbuff drops the buffer
\* after an error; decoding may fail or produce output.  A full buffer makes
\* the loop go on.
ReadData(t) ==
    LET h == at[t] IN
    /\ pc[t] = "readable" /\ sock[h] = "data" /\ free[h] > 0
    /\ sock' = [sock EXCEPT ![h] = "quiet"]
    /\ \/ /\ readError[h]
          /\ free' = [free EXCEPT ![h] = @ - 1]
          /\ UNCHANGED <<readError, queuedClose, output, writePending, stat, events, epoll, ih>>
       \/ /\ ~readError[h]                  \* decoded, nothing to say
          /\ rewatch(h, IF free[h] = 1 THEN {"in"} ELSE {})
          /\ UNCHANGED <<free, readError, queuedClose, output, writePending>>
       \/ /\ ~readError[h]                  \* decoded, with an answer
          /\ output' = [output EXCEPT ![h] = TRUE]
          /\ writePending' = [writePending EXCEPT ![h] = TRUE]
          /\ rewatch(h, {"out"})
          /\ UNCHANGED <<free, readError, queuedClose>>
       \/ /\ ~readError[h]                  \* an exception
          /\ readError' = [readError EXCEPT ![h] = TRUE]
          /\ queuedClose' = [queuedClose EXCEPT ![h] = TRUE]
          /\ rewatch(h, {"out"})
          /\ UNCHANGED <<free, output, writePending>>
    /\ AfterRead(t) \/ Go(t, "readable")
    /\ UNCHANGED <<at, ev, last, object, users, handleVars, left, closed, outside>>

\* readable() with nothing to read, or no buffer to read into.
ReadNothing(t) ==
    LET h == at[t] IN
    /\ InCallback(t, "readable")
    /\ sock[h] = "quiet" \/ free[h] = 0
    /\ IF free[h] = 0 THEN unwatch(h, {"in"}) ELSE UNCHANGED <<stat, events, epoll, ih>>
    /\ AfterRead(t)
    /\ UNCHANGED <<state, callbacks, ioVars>>

\* Mutant: nothing is watched after the end of file.
ReadEofUnwatched(t) ==
    LET h == at[t] IN
    /\ InCallback(t, "readable")
    /\ sock[h] \in {"eof", "reset"} /\ free[h] > 0
    /\ readError' = [readError EXCEPT ![h] = TRUE]
    /\ queuedClose' = [queuedClose EXCEPT ![h] = TRUE]
    /\ SetEvents(h, {})
    /\ AfterRead(t)
    /\ UNCHANGED <<state, callbacks, free, left, writePending, output, closed>>
\* readable() at the end: eofCallback closes once everything is written.
ReadEof(t) ==
    LET h == at[t] IN
    /\ InCallback(t, "readable")
    /\ sock[h] \in {"eof", "reset"} /\ free[h] > 0
    /\ readError' = [readError EXCEPT ![h] = TRUE]
    /\ queuedClose' = [queuedClose EXCEPT ![h] = TRUE]
    /\ SetEvents(h, {"out"})
    /\ AfterRead(t)
    /\ UNCHANGED <<state, callbacks, free, left, writePending, output, closed>>

\* writeable() with a buffer: it is written whole, and the loop goes on or has
\* used up its time; or in part; or the peer has gone.
Write(t) ==
    LET h == at[t] IN
    /\ InCallback(t, "writeable")
    /\ left[h] > 0
    /\ \/ /\ sock[h] = "reset"
          /\ unwatch(h, {"out"})
          /\ Go(t, "calls")
          /\ UNCHANGED <<free, left>>
       \/ /\ sock[h] # "reset"
          /\ left' = [left EXCEPT ![h] = 0]
          /\ free' = [free EXCEPT ![h] = @ + 1]
          /\ rewatch(h, IF free[h] = 0 THEN {"in"} ELSE {})
          /\ Go(t, "writeable") \/ Go(t, "calls")
       \/ /\ sock[h] # "reset" /\ left[h] > 1
          /\ left' = [left EXCEPT ![h] = @ - 1]
          /\ Go(t, "calls")
          /\ UNCHANGED <<free, stat, events, epoll, ih>>
    /\ UNCHANGED <<state, callbacks, queuedClose, writePending, readError, output, closed>>

\* writeable() with nothing to write.
WriteNothing(t) ==
    LET h == at[t] IN
    /\ InCallback(t, "writeable")
    /\ left[h] = 0
    /\ IF queuedClose[h] THEN Go(t, "closing") /\ UNCHANGED writePending
       ELSE Go(t, "idle") /\ writePending' = [writePending EXCEPT ![h] = FALSE]
    /\ UNCHANGED <<state, callbacks, stat, events, epoll, ih,
                   free, left, queuedClose, readError, output, closed>>

\* The idle callback encodes what there is into a buffer.  A write after the
\* close was asked for is thrown away.  Without a buffer, after an exception,
\* or when the codec is closed, the connection is to be closed.
Idle(t) ==
    LET h == at[t]
        back == IF free[h] = 1 THEN {"in"} ELSE {}
        close == /\ readError' = [readError EXCEPT ![h] = TRUE]
                 /\ queuedClose' = [queuedClose EXCEPT ![h] = TRUE]
    IN
    /\ InCallback(t, "idle")
    /\ Go(t, "test")
    /\ \/ /\ ~output[h]                             \* nothing to encode
          /\ UNCHANGED <<free, left, queuedClose, writePending, readError, output, stat, events, epoll, ih>>
       \/ /\ output[h] /\ free[h] > 0 /\ ~queuedClose[h]
          /\ left' = [left EXCEPT ![h] = Units]
          /\ free' = [free EXCEPT ![h] = @ - 1]
          /\ writePending' = [writePending EXCEPT ![h] = FALSE]
          /\ output' = [output EXCEPT ![h] = FALSE]
          /\ rewatch(h, {"out"})
          /\ close \/ UNCHANGED <<readError, queuedClose>>
       \/ /\ output[h] /\ free[h] > 0 /\ queuedClose[h]   \* thrown away
          /\ output' = [output EXCEPT ![h] = FALSE]
          /\ \/ rewatch(h, back) /\ UNCHANGED <<readError, queuedClose>>
             \/ rewatch(h, back \cup {"out"}) /\ close
          /\ UNCHANGED <<free, left, writePending>>
       \/ /\ output[h]                              \* no buffer, or an exception
          /\ free' = [free EXCEPT ![h] = IF @ = 0 THEN 0 ELSE @ - 1]
          /\ rewatch(h, {"out"})
          /\ close
          /\ UNCHANGED <<left, writePending, output>>
    /\ UNCHANGED <<state, callbacks, closed>>

TestPending(t) ==
    LET h == at[t] IN
    /\ InCallback(t, "test")
    /\ Go(t, IF left[h] = 0 /\ ~writePending[h] /\ ~queuedClose[h] THEN "unwatch" ELSE "writeable")
    /\ UNCHANGED <<state, callbacks, stat, events, epoll, ih, ioVars>>

UnwatchWrite(t) ==
    /\ InCallback(t, "unwatch")
    /\ unwatch(at[t], {"out"})
    /\ Go(t, "recheck")
    /\ UNCHANGED <<state, callbacks, ioVars>>

\* Mutant: what was announced since the test is not looked at again.
RecheckNothing(t) ==
    /\ InCallback(t, "recheck")
    /\ Go(t, "calls")
    /\ UNCHANGED <<state, callbacks, stat, events, epoll, ih, ioVars>>
RecheckPending(t) ==
    /\ InCallback(t, "recheck")
    /\ IF writePending[at[t]] THEN rewatch(at[t], {"out"}) ELSE UNCHANGED <<stat, events, epoll, ih>>
    /\ Go(t, "calls")
    /\ UNCHANGED <<state, callbacks, ioVars>>

Disconnected(t) ==
    /\ InCallback(t, "disconnected")
    /\ Go(t, "closing")
    /\ UNCHANGED <<state, callbacks, stat, events, epoll, ih, ioVars>>

\* close(): stopWatch, then closedSocket: queueForDeletion, and the handler
\* is destroyed once nobody uses it.
StopWatch(t) ==
    /\ InCallback(t, "closing")
    /\ state' = [state EXCEPT ![at[t]] = "STOPPING"]
    /\ unregisterHandle(at[t])
    /\ Go(t, "deleting")
    /\ UNCHANGED <<callbacks, ioVars>>

DoDelete(t) ==
    /\ InCallback(t, "deleting")
    /\ state' = [state EXCEPT ![at[t]] = "DELETING"]
    /\ Go(t, "closed")
    /\ UNCHANGED <<callbacks, stat, events, epoll, ih, ioVars>>

DestroyHandler(t) ==
    LET h == at[t] IN
    /\ InCallback(t, "closed")
    /\ writer[h] = "idle" /\ timer[h] \in {"armed", "done"}
    /\ closed' = [closed EXCEPT ![h] = TRUE]
    /\ Go(t, "calls")
    /\ UNCHANGED <<state, callbacks, stat, events, epoll, ih,
                   free, left, queuedClose, writePending, readError, output>>

\* One of the callbacks that call() queued: eof, requested by abort.
RunCallback(t) ==
    LET h == at[t] IN
    /\ InCallback(t, "calls")
    /\ callbacks[h] > 0 /\ state[h] # "DELETING"
    /\ callbacks' = [callbacks EXCEPT ![h] = @ - 1]
    /\ readError' = [readError EXCEPT ![h] = TRUE]
    /\ queuedClose' = [queuedClose EXCEPT ![h] = TRUE]
    /\ rewatch(h, {"out"})
    /\ UNCHANGED <<state, pc, free, left, writePending, output, closed>>

---------------------------------------------------------------------------
(* Other threads, the timer and the peer.                                  *)

Outside(h) ==
    /\ ~closed[h]
    /\ UNCHANGED <<sock, pc, at, ev, last, object, users, state, callbacks, free, left, readError, closed>>

\* Another thread has output for the connection and calls activateOutput.
HaveOutput(h) ==
    /\ Outside(h)
    /\ writer[h] = "idle" /\ budget > 0
    /\ output' = [output EXCEPT ![h] = TRUE]
    /\ writer' = [writer EXCEPT ![h] = "notify"]
    /\ budget' = budget - 1
    /\ UNCHANGED <<stat, events, epoll, ih, interrupted, queuedClose, writePending, timer>>

\* notifyPendingWrite, in the order of its two statements.
NotifyPendingWrite(h) ==
    /\ Outside(h)
    /\ writer[h] = "notify"
    /\ writePending' = [writePending EXCEPT ![h] = TRUE]
    /\ writer' = [writer EXCEPT ![h] = "rewatch"]
    /\ UNCHANGED <<stat, events, epoll, ih, interrupted, queuedClose, output, timer, budget>>

RewatchWrite(h) ==
    /\ Outside(h)
    /\ writer[h] = "rewatch" /\ h \notin ih.pending
    /\ rewatch(h, {"out"})
    /\ writer' = [writer EXCEPT ![h] = "idle"]
    /\ UNCHANGED <<interrupted, queuedClose, writePending, output, timer, budget>>

\* The timer's abort: request an eof unless there was one, then
\* queueWriteClose from this thread.  The state lock is held by call() until
\* the interrupt is queued: no other thread may watch the handle before.
Abort(h) ==
    /\ Outside(h)
    /\ timer[h] = "armed" /\ budget > 0
    /\ budget' = budget - 1
    /\ IF readError[h] THEN UNCHANGED <<stat, events, epoll, ih, interrupted>> ELSE call(h)
    /\ timer' = [timer EXCEPT ![h] = "close"]
    /\ UNCHANGED <<queuedClose, writePending, output, writer>>

AbortInterrupts(h) ==
    /\ Outside(h)
    /\ QueueInterrupt(h)
    /\ UNCHANGED <<interrupted, queuedClose, writePending, output, writer, timer, budget>>

AbortClose(h) ==
    /\ Outside(h)
    /\ timer[h] = "close" /\ h \notin ih.pending
    /\ queuedClose' = [queuedClose EXCEPT ![h] = TRUE]
    /\ timer' = [timer EXCEPT ![h] = "rewatch"]
    /\ UNCHANGED <<stat, events, epoll, ih, interrupted, writePending, output, writer, budget>>

AbortRewatch(h) ==
    /\ Outside(h)
    /\ timer[h] = "rewatch"
    /\ rewatch(h, {"out"})
    /\ timer' = [timer EXCEPT ![h] = "done"]
    /\ UNCHANGED <<interrupted, queuedClose, writePending, output, writer, budget>>

Peer(h, what) ==
    /\ budget > 0
    /\ budget' = budget - 1
    /\ sock' = [sock EXCEPT ![h] = what]
    /\ UNCHANGED <<stat, events, epoll, ih, pc, at, ev, last, object, users,
                   handleVars, ioVars, writer, timer>>

DataArrives(h) ==
    /\ sock[h] = "quiet"
    /\ Peer(h, "data")

PeerCloses(h) == "eof" \in Faults /\ sock[h] = "quiet" /\ Peer(h, "eof")
PeerResets(h) == "reset" \in Faults /\ sock[h] # "reset" /\ Peer(h, "reset")

---------------------------------------------------------------------------

IOCallback(t) ==
    \/ ProcessEvent(t) \/ Finish(t) \/ RunCallback(t)
    \/ ReadData(t) \/ ReadNothing(t) \/ ReadEof(t)
    \/ Write(t) \/ WriteNothing(t) \/ Idle(t) \/ TestPending(t) \/ UnwatchWrite(t) \/ RecheckPending(t)
    \/ Disconnected(t) \/ StopWatch(t) \/ DoDelete(t) \/ DestroyHandler(t)

\* A step of Poller::wait, which leaves the connections alone.
Poll(t) == Wait(t) /\ UNCHANGED <<handleVars, ioVars, outside>>
Deliver(t, h) == EpollReturns(t, h) /\ UNCHANGED <<handleVars, ioVars, outside>>

Notify(h) == NotifyPendingWrite(h) \/ RewatchWrite(h)
Aborting(h) == AbortInterrupts(h) \/ AbortClose(h) \/ AbortRewatch(h)

Next ==
    \/ \E t \in Threads : Poll(t) \/ IOCallback(t) \/ \E h \in Handles : Deliver(t, h)
    \/ \E h \in Handles : \/ HaveOutput(h) \/ Notify(h) \/ Abort(h) \/ Aborting(h)
                          \/ DataArrives(h) \/ PeerCloses(h) \/ PeerResets(h)

\* Threads go on, and epoll returns what stays ready in turn.
Fairness ==
    /\ \A t \in Threads : WF_vars(Poll(t)) /\ WF_vars(IOCallback(t))
    /\ \A h \in Handles : /\ WF_vars(\E t \in Threads : Deliver(t, h))
                          /\ WF_vars(Notify(h)) /\ WF_vars(Aborting(h))

Spec == Init /\ [][Next]_vars /\ Fairness

---------------------------------------------------------------------------
(* Properties.                                                             *)

Serving(t, h) == at[t] = h /\ pc[t] \in Callbacks \cup {"event"}

\* The events of a handle are served one at a time, its callbacks by one
\* thread, whatever interrupts, re-arms and late returns of epoll_wait do:
\* the exclusivity DispatchHandle.h promises and the assertions of
\* processEvent rely on (stated with the domains of the variables).
OneAtATime ==
    /\ TypeOK
    /\ \A h \in Handles : Cardinality({t \in Threads : Serving(t, h)}) <= 1
    /\ \A t \in Threads :
          /\ pc[t] = "event" => state[at[t]] \notin {"CALLING", "STOPPING"}
          /\ pc[t] \in Callbacks => state[at[t]] \notin {"IDLE", "WAITING"}

\* Nobody touches a handle after its deletion: not the interrupt queue, not
\* whoever is about to put it there, not the thread that was given its event;
\* nor its private part once the DeletionManager has freed it.
NoUseAfterFree ==
    /\ \A i \in DOMAIN ih.queue : object[ih.queue[i]] = "live"
    /\ \A h \in ih.pending : object[h] = "live"
    /\ \A t \in Threads :
          /\ (at[t] # None /\ pc[t] \in Callbacks \cup {"event", "wrapped", "requeue"})
                => object[at[t]] = "live"
          /\ pc[t] = "returned" => ~Freed(at[t])
          /\ (last[t] # None /\ pc[t] = "top") => ~Freed(last[t])

\* What the protocol has to send is sent, or the connection closes: no
\* announcement is lost between writeable() and notifyPendingWrite().  (A
\* connection that its peer has reset is left out of this and of the next
\* property: once both its directions are unwatched
\* nothing reports it.)
EventuallyWritten ==
    \A h \in Handles : output[h] ~> (~output[h] \/ closed[h] \/ sock[h] = "reset")

\* A connection whose peer has closed it, or that the timer aborts, is closed
\* and its handle deleted: neither the interrupt nor the close is lost,
\* although writeable() may undo the watch that queueWriteClose asked for.
EventuallyDeleted ==
    \A h \in Handles :
        (sock[h] = "eof" \/ timer[h] = "close") ~> (object[h] = "deleted" \/ sock[h] = "reset")
=============================================================================
