---------------------------- MODULE EpollPoller ----------------------------
(***************************************************************************)
(* The Linux Poller: handles registered with epoll in one-shot mode, the   *)
(* threads that run Poller::run, the interrupt handle through which a      *)
(* handle is given an event of its own, and the deferred deletion of a     *)
(* handle's private part (DeletionManager).  A step is one section under a *)
(* handle's lock or one return of epoll_wait.  What a handle does with its *)
(* events is in AsynchIO.  Shutting the poller down and waiting with a     *)
(* timeout are left out.                                                   *)
(***************************************************************************)
EXTENDS Naturals, Sequences, FiniteSets

CONSTANTS Threads,      \* the I/O threads of the broker
          Handles,      \* the handles they serve
          None          \* no handle

ASSUME NoneAssumption == None \notin Handles

VARIABLES
    stat,       \* PollerHandlePrivate::stat
    events,     \* PollerHandlePrivate::events, a set of directions
    epoll,      \* the kernel's entry for the descriptor
    sock,       \* the socket: what a read would find
    ih,         \* the interrupt handle: its queue, the handles about to be
                \* put there, whether it is active and armed
    pc,         \* where a thread is
    at,         \* the handle it is working on
    ev,         \* the event it was given for it
    last,       \* lastReturnedHandle
    object,     \* the PollerHandle is "live" or "deleted"
    users       \* the threads DeletionManager takes for users of a deleted handle

pollerVars == <<stat, events, epoll, sock, ih, pc, at, ev, last, object, users>>

Dirs == {"in", "out"}
Stats == {"ABSENT", "MONITORED", "INACTIVE", "HUNGUP", "MONITORED_HUNGUP",
          "INTERRUPTED", "INTERRUPTED_HUNGUP", "DELETED"}

\* Events, as sets of directions and "hup": the kernel's, and the types that
\* Poller::Event makes of them.
Events == SUBSET (Dirs \cup {"hup"})
READABLE == {"in"}
WRITABLE == {"out"}
READ_WRITABLE == Dirs
DISCONNECTED == {"hup"}
INTERRUPTED == {}

\* The kernel's entry: the directions it watches, or Off (not there, or
\* disabled by a one-shot event).  A hang-up is reported whatever the
\* directions.
Entry(dirs, oneshot) == [on |-> TRUE, dirs |-> dirs, oneshot |-> oneshot]
Off == [on |-> FALSE, dirs |-> {}, oneshot |-> TRUE]

isActive(h) == stat[h] \in {"MONITORED", "MONITORED_HUNGUP"}
isInactive(h) == stat[h] \in {"INACTIVE", "HUNGUP"}
isInterrupted(h) == stat[h] \in {"INTERRUPTED", "INTERRUPTED_HUNGUP"}
isHungup(h) == stat[h] \in {"MONITORED_HUNGUP", "HUNGUP", "INTERRUPTED_HUNGUP"}
Active(h) == IF stat[h] \in {"HUNGUP", "INTERRUPTED_HUNGUP"} THEN "MONITORED_HUNGUP" ELSE "MONITORED"
Interrupted(h) ==
    IF stat[h] \in {"MONITORED_HUNGUP", "HUNGUP"} THEN "INTERRUPTED_HUNGUP" ELSE "INTERRUPTED"

\* startWatch has registered every handle for both directions.
PollerInit ==
    /\ stat = [h \in Handles |-> "MONITORED"]
    /\ events = [h \in Handles |-> Dirs]
    /\ epoll = [h \in Handles |-> Entry(Dirs, TRUE)]
    /\ sock = [h \in Handles |-> "quiet"]
    /\ ih = [queue |-> <<>>, pending |-> {}, active |-> FALSE, armed |-> FALSE]
    /\ pc = [t \in Threads |-> "top"]
    /\ at = [t \in Threads |-> None]
    /\ ev = [t \in Threads |-> INTERRUPTED]
    /\ last = [t \in Threads |-> None]
    /\ object = [h \in Handles |-> "live"]
    /\ users = [h \in Handles |-> {}]

---------------------------------------------------------------------------
(* What a handle may ask of the poller, as parts of its steps.             *)

SetEvents(h, dirs) ==
    /\ events' = [events EXCEPT ![h] = dirs]
    /\ epoll' = IF dirs # events[h] /\ isActive(h)
                THEN [epoll EXCEPT ![h] = Entry(dirs, TRUE)] ELSE epoll
    /\ UNCHANGED <<stat, ih>>

monitorHandle(h, dirs) == SetEvents(h, events[h] \cup dirs)
unmonitorHandle(h, dirs) == SetEvents(h, events[h] \ dirs)

unregisterHandle(h) ==
    /\ epoll' = [epoll EXCEPT ![h] = Off]
    /\ stat' = [stat EXCEPT ![h] = "ABSENT"]
    /\ UNCHANGED <<events, ih>>

Arm(h) == [queue |-> Append(ih.queue, h), pending |-> ih.pending \ {h},
           active |-> TRUE, armed |-> TRUE]

WithPending(h) == [ih EXCEPT !.pending = @ \cup {h}]

\* Mutant: a handle that a thread is working on is queued as well.
InterruptAlways(h) ==
    /\ IF isInterrupted(h) \/ stat[h] \in {"ABSENT", "DELETED"} THEN UNCHANGED <<stat, epoll, ih>>
       ELSE /\ epoll' = [epoll EXCEPT ![h] = Entry({}, FALSE)]
            /\ stat' = [stat EXCEPT ![h] = Interrupted(h)]
            /\ ih' = WithPending(h)
    /\ UNCHANGED events

\* Under the handle's lock.  A handle that is being worked on is only marked:
\* the thread that works on it queues the interrupt when it is done
\* (resetMode).  Any other is queued by the caller, once it has let go of this
\* lock (QueueInterrupt).
interrupt(h) ==
    /\ IF isInterrupted(h) \/ stat[h] \in {"ABSENT", "DELETED"} THEN UNCHANGED <<stat, epoll, ih>>
       ELSE /\ epoll' = [epoll EXCEPT ![h] = Entry({}, FALSE)]
            /\ stat' = [stat EXCEPT ![h] = Interrupted(h)]
            /\ ih' = IF isInactive(h) THEN ih ELSE WithPending(h)
    /\ UNCHANGED events

\* Under the interrupt handle's lock.
QueueInterrupt(h) ==
    /\ h \in ih.pending
    /\ ih' = Arm(h)
    /\ UNCHANGED <<stat, events, epoll>>

\* Mutant: the private part is deleted at once.
DestroyNow(h) ==
    /\ object' = [object EXCEPT ![h] = "deleted"]
    /\ stat' = [stat EXCEPT ![h] = "DELETED"]
    /\ UNCHANGED users
\* ~PollerHandle.  After unregisterHandle the status is ABSENT; the private
\* part is left to the DeletionManager, as used by every thread.
Destroy(h) ==
    /\ object' = [object EXCEPT ![h] = "deleted"]
    /\ stat' = [stat EXCEPT ![h] = "DELETED"]
    /\ users' = [users EXCEPT ![h] = Threads]

\* The private part is gone when no thread is marked as its user any more.
Freed(h) == object[h] = "deleted" /\ users[h] = {}

---------------------------------------------------------------------------
(* Poller::wait, step by step.                                             *)

\* Re-arm the handle this thread returned last.
ResetMode(t) ==
    /\ pc[t] = "top"
    /\ last' = [last EXCEPT ![t] = None]
    /\ LET h == last[t]
           idle == h \notin {x \in Handles : stat[x] \notin {"ABSENT", "DELETED"}}
       IN  \/ /\ idle
              /\ pc' = [pc EXCEPT ![t] = "loop"]
              /\ UNCHANGED <<stat, epoll, at>>
           \/ /\ ~idle /\ events[h] = {}
              /\ stat' = [stat EXCEPT ![h] = Active(h)]
              /\ pc' = [pc EXCEPT ![t] = "loop"]
              /\ UNCHANGED <<epoll, at>>
           \/ /\ ~idle /\ events[h] # {} /\ ~isInterrupted(h)
              /\ epoll' = [epoll EXCEPT ![h] = Entry(events[h], TRUE)]
              /\ stat' = [stat EXCEPT ![h] = Active(h)]
              /\ pc' = [pc EXCEPT ![t] = "loop"]
              /\ UNCHANGED at
           \/ /\ ~idle /\ events[h] # {} /\ isInterrupted(h)
              /\ pc' = [pc EXCEPT ![t] = "requeue"]
              /\ at' = [at EXCEPT ![t] = h]
              /\ UNCHANGED <<stat, epoll>>
    /\ UNCHANGED <<events, sock, ih, ev, object, users>>

\* The interrupt that came while the handle was worked on, after its lock was
\* released.
Requeue(t) ==
    /\ pc[t] = "requeue"
    /\ ih' = Arm(at[t])
    /\ pc' = [pc EXCEPT ![t] = "loop"]
    /\ at' = [at EXCEPT ![t] = None]
    /\ UNCHANGED <<stat, events, epoll, sock, ev, last, object, users>>

MarkAllUnused(t) ==
    /\ pc[t] = "loop"
    /\ users' = [h \in Handles |-> users[h] \ {t}]
    /\ pc' = [pc EXCEPT ![t] = "blocked"]
    /\ UNCHANGED <<stat, events, epoll, sock, ih, at, ev, last, object>>

\* What the kernel reports: a socket is always writable; data, an end of
\* file and a reset make it readable; a reset is a hang-up.
Ready(h) ==
    IF ~epoll[h].on THEN {}
    ELSE {d \in epoll[h].dirs : d = "out" \/ sock[h] # "quiet"}
         \cup (IF sock[h] = "reset" THEN {"hup"} ELSE {})

epollToDirection(e) ==
    LET dirs == IF "hup" \in e THEN e \ {"out", "hup"} ELSE e
    IN  IF dirs = {} THEN DISCONNECTED ELSE dirs

\* epoll_wait returns an event of handle h.
EpollReturns(t, h) ==
    /\ pc[t] = "blocked"
    /\ Ready(h) # {}
    /\ epoll' = IF epoll[h].oneshot THEN [epoll EXCEPT ![h] = Off] ELSE epoll
    /\ at' = [at EXCEPT ![t] = h]
    /\ ev' = [ev EXCEPT ![t] = Ready(h)]
    /\ pc' = [pc EXCEPT ![t] = "returned"]
    /\ UNCHANGED <<stat, events, sock, ih, last, object, users>>

\* Under the handle's lock: it could have gone inactive since.  The first
\* hang-up may leave something to read; at the second the handle is never
\* set active again.
Returned(t) ==
    /\ pc[t] = "returned"
    /\ LET h == at[t]
           again == "hup" \in ev[t] /\ isHungup(h)
       IN  \/ /\ ~isActive(h)
              /\ pc' = [pc EXCEPT ![t] = "loop"]
              /\ at' = [at EXCEPT ![t] = None]
              /\ ev' = [ev EXCEPT ![t] = INTERRUPTED]
              /\ UNCHANGED <<stat, last>>
           \/ /\ isActive(h)
              /\ pc' = [pc EXCEPT ![t] = "event"]
              /\ ev' = [ev EXCEPT ![t] = IF again THEN DISCONNECTED ELSE epollToDirection(ev[t])]
              /\ last' = IF again THEN last ELSE [last EXCEPT ![t] = h]
              /\ stat' = [stat EXCEPT ![h] = IF "hup" \in ev[t] /\ ~again THEN "HUNGUP" ELSE "INACTIVE"]
              /\ UNCHANGED at
    /\ UNCHANGED <<events, epoll, sock, ih, object, users>>

\* epoll_wait returns the interrupt handle, armed for one thread.
EpollInterrupts(t) ==
    /\ pc[t] = "blocked"
    /\ ih.armed
    /\ ih' = [ih EXCEPT !.armed = FALSE]
    /\ pc' = [pc EXCEPT ![t] = "interrupted"]
    /\ UNCHANGED <<stat, events, epoll, sock, at, ev, last, object, users>>

\* Under the interrupt handle's lock: take one handle, and let another thread
\* take the next.
TakeInterrupt(t) ==
    /\ pc[t] = "interrupted"
    /\ \/ /\ ~ih.active
          /\ pc' = [pc EXCEPT ![t] = "loop"]
          /\ UNCHANGED <<ih, at>>
       \/ /\ ih.active
          /\ at' = [at EXCEPT ![t] = Head(ih.queue)]
          /\ pc' = [pc EXCEPT ![t] = "wrapped"]
          /\ LET more == Tail(ih.queue) # <<>>
             IN  ih' = [queue |-> Tail(ih.queue), pending |-> ih.pending,
                        active |-> more, armed |-> more \/ ih.armed]
    /\ UNCHANGED <<stat, events, epoll, sock, ev, last, object, users>>

\* Under the lock of the interrupted handle.
ReturnInterrupted(t) ==
    /\ pc[t] = "wrapped"
    /\ LET h == at[t] IN
       /\ stat[h] # "DELETED"
       /\ stat' = IF stat[h] = "ABSENT" THEN stat ELSE [stat EXCEPT ![h] = "INACTIVE"]
       /\ last' = [last EXCEPT ![t] = h]
    /\ ev' = [ev EXCEPT ![t] = INTERRUPTED]
    /\ pc' = [pc EXCEPT ![t] = "event"]
    /\ UNCHANGED <<events, epoll, sock, ih, at, object, users>>

Wait(t) ==
    \/ ResetMode(t) \/ Requeue(t) \/ MarkAllUnused(t)
    \/ Returned(t) \/ EpollInterrupts(t) \/ TakeInterrupt(t) \/ ReturnInterrupted(t)

===========================================================================
