--------------------------- MODULE AsynchIO_proofs ---------------------------
(***************************************************************************)
(* Theorems about AsynchIO for any number of I/O threads, connections,     *)
(* buffers and outside events.                                             *)
(*                                                                         *)
(* The inductive invariant IInv follows who may work on a handle.  A       *)
(* handle is either active in the poller, or in the interrupt queue (or    *)
(* about to be put there by whoever interrupted it), or one thread holds   *)
(* it: from the return of Poller::wait until that thread                   *)
(* calls Poller::wait again (Exclusive).  ThreadOK says what the place of  *)
(* a thread means for the handle it works on, HandleOK how the three       *)
(* states of a handle, PollerHandlePrivate's, DispatchHandle's and the     *)
(* kernel's, belong together, and BuffersOK counts buffers and callbacks.  *)
(* Most steps move none of the tokens: what they have in common is Quiet.  *)
(***************************************************************************)
EXTENDS AsynchIO, FiniteSetTheorems, TLAPS

\* Where a thread works on the handle at[t], and where in its callbacks a
\* handle can only be CALLING.
Working == Callbacks \cup {"event", "wrapped", "requeue"}

Calling == Callbacks \ {"deleting", "closed", "calls"}

\* A thread keeps a handle until it has called Poller::wait again.
Holds(t, h) == (at[t] = h /\ pc[t] \in Working) \/ (last[t] = h /\ pc[t] = "top")

Gone == {"ABSENT", "DELETED"}

\* A handle is active, queued or about to be, or held by one thread.
Exclusive ==
    /\ \A h \in Handles : \A t, u \in Threads : Holds(t, h) /\ Holds(u, h) => t = u
    /\ \A h \in Handles : isActive(h) =>
          state[h] = "WAITING" /\ \A t \in Threads : ~Holds(t, h)
    /\ \A i \in DOMAIN ih.queue :
          /\ isInterrupted(ih.queue[i]) /\ state[ih.queue[i]] = "WAITING"
          /\ \A t \in Threads : ~Holds(t, ih.queue[i])
          /\ \A j \in DOMAIN ih.queue : ih.queue[i] = ih.queue[j] => i = j
    /\ \A h \in ih.pending :
          /\ isInterrupted(h) /\ state[h] = "WAITING"
          /\ \A t \in Threads : ~Holds(t, h)
          /\ \A i \in DOMAIN ih.queue : ih.queue[i] # h
    /\ ih.active => ih.queue # <<>>

\* A handle the thread may still touch is not freed.
Kept(t, h) == object[h] = "live" \/ t \in users[h]

ThreadOK(t) ==
    /\ pc[t] \in Working \cup {"returned"} => at[t] \in Handles
    /\ pc[t] \in Working => object[at[t]] = "live"
    /\ pc[t] \in {"event", "wrapped", "requeue"} => state[at[t]] = "WAITING"
    /\ pc[t] \in {"wrapped", "requeue"} => isInterrupted(at[t])
    /\ pc[t] \in Calling => state[at[t]] = "CALLING"
    /\ pc[t] = "deleting" => state[at[t]] = "STOPPING"
    /\ pc[t] = "closed" => state[at[t]] = "DELETING"
    /\ pc[t] = "calls" => state[at[t]] \in {"CALLING", "DELETING"}
    /\ pc[t] = "returned" => Kept(t, at[t])
    /\ last[t] # None =>
          /\ Kept(t, last[t])
          /\ \/ pc[t] = "top" /\ (object[last[t]] = "live" => state[last[t]] = "WAITING")
             \/ pc[t] \in Callbacks \cup {"event"} /\ at[t] = last[t]

HandleOK(h) ==
    /\ stat[h] = "DELETED" <=> object[h] = "deleted"
    /\ state[h] \in {"STOPPING", "DELETING"} <=> stat[h] \in Gone
    /\ epoll[h].on => stat[h] \notin Gone

\* A buffer is free or being written; one callback is queued at most, by the timer.
BuffersOK ==
    /\ \A h \in Handles :
          /\ left[h] > 0 => free[h] < BufferCount
          /\ interrupted[h] + callbacks[h] <= 1
          /\ timer[h] = "armed" => interrupted[h] = 0 /\ callbacks[h] = 0
    /\ \A t \in Threads : pc[t] = "idle" => left[at[t]] = 0

Tokens == Exclusive /\ (\A t \in Threads : ThreadOK(t)) /\ (\A h \in Handles : HandleOK(h))

IInv == TypeOK /\ Tokens /\ BuffersOK

----------------------------------------------------------------------------
(* The types, and what most steps have in common                           *)

\* Where a thread can be.
Places == Callbacks \cup {"top", "requeue", "loop", "blocked", "returned",
                          "interrupted", "wrapped", "event"}

\* TypeOK in two parts: what the tokens are about, and the rest.
TokenTypes ==
    /\ stat \in [Handles -> Stats] /\ events \in [Handles -> SUBSET Dirs]
    /\ epoll \in [Handles -> [on : BOOLEAN, dirs : SUBSET Dirs, oneshot : BOOLEAN]]
    /\ sock \in [Handles -> {"quiet", "data", "eof", "reset"}]
    /\ ih \in [queue : Seq(Handles), pending : SUBSET Handles, active : BOOLEAN, armed : BOOLEAN]
    /\ pc \in [Threads -> Places]
    /\ at \in [Threads -> Handles \cup {None}] /\ last \in [Threads -> Handles \cup {None}]
    /\ ev \in [Threads -> Events]
    /\ object \in [Handles -> {"live", "deleted"}] /\ users \in [Handles -> SUBSET Threads]
    /\ state \in [Handles -> {"IDLE", "STOPPING", "WAITING", "CALLING", "DELETING"}]

DataTypes ==
    /\ interrupted \in [Handles -> 0..1] /\ callbacks \in [Handles -> 0..1]
    /\ free \in [Handles -> 0..BufferCount] /\ left \in [Handles -> 0..Units]
    /\ queuedClose \in [Handles -> BOOLEAN] /\ writePending \in [Handles -> BOOLEAN]
    /\ readError \in [Handles -> BOOLEAN] /\ output \in [Handles -> BOOLEAN]
    /\ closed \in [Handles -> BOOLEAN]
    /\ writer \in [Handles -> {"idle", "notify", "rewatch"}]
    /\ timer \in [Handles -> {"armed", "close", "rewatch", "done"}]
    /\ budget \in 0..MaxEvents

\* The two parts are TypeOK.
LEMMA TypeParts == TypeOK <=> TokenTypes /\ DataTypes
BY DEF TypeOK, TokenTypes, DataTypes, Places

\* The invariant of the bookkeeping of buffers and callbacks, with its types.
Data == DataTypes /\ BuffersOK

\* Directions watched or not, without touching the state of any handle.
Watched ==
    /\ stat' = stat /\ ih' = ih /\ events' \in [Handles -> SUBSET Dirs]
    /\ epoll' \in [Handles -> [on : BOOLEAN, dirs : SUBSET Dirs, oneshot : BOOLEAN]]
    /\ \A h \in Handles : epoll'[h].on => epoll[h].on \/ isActive(h)

\* No token moves.
Quiet ==
    /\ Watched
    /\ object' = object /\ users' = users /\ state' = state /\ at' = at /\ last' = last
    /\ pc' \in [Threads -> Places]
    /\ \A t \in Threads :
          \/ pc'[t] = pc[t]
          \/ pc[t] \in Calling /\ pc'[t] \in Calling \cup {"calls"}
          \/ pc[t] = "closed" /\ pc'[t] = "calls"

\* Setting the events of a handle arms it in the kernel only if it is active.
LEMMA SetEventsWatches ==
    ASSUME TokenTypes, NEW h \in Handles, NEW dirs \in SUBSET Dirs, SetEvents(h, dirs)
    PROVE  Watched
<1>1. events' \in [Handles -> SUBSET Dirs] /\ stat' = stat /\ ih' = ih
  BY DEF TokenTypes, SetEvents
<1>2. Entry(dirs, TRUE) \in [on : BOOLEAN, dirs : SUBSET Dirs, oneshot : BOOLEAN]
  BY DEF Entry
<1>3. \/ epoll' = epoll
      \/ epoll' = [epoll EXCEPT ![h] = Entry(dirs, TRUE)] /\ isActive(h)
  BY DEF SetEvents
<1>4. epoll \in [Handles -> [on : BOOLEAN, dirs : SUBSET Dirs, oneshot : BOOLEAN]]
  BY DEF TokenTypes
<1>5. CASE epoll' = epoll
  BY <1>1, <1>4, <1>5 DEF Watched
<1>6. CASE epoll' = [epoll EXCEPT ![h] = Entry(dirs, TRUE)] /\ isActive(h)
  <2>1. \A x \in Handles : x # h => epoll'[x] = epoll[x]
    BY <1>4, <1>6
  <2>2. \A x \in Handles : epoll'[x].on => epoll[x].on \/ isActive(x)
    BY <1>6, <2>1
  <2>3. epoll' \in [Handles -> [on : BOOLEAN, dirs : SUBSET Dirs, oneshot : BOOLEAN]]
    BY <1>2, <1>4, <1>6
  <2> QED
    BY <1>1, <2>2, <2>3 DEF Watched
<1> QED
  BY <1>3, <1>5, <1>6

\* So do DispatchHandle's ways to ask for it, and doing nothing.
LEMMA Watches ==
    ASSUME TokenTypes, NEW h \in Handles, NEW dirs \in SUBSET Dirs,
           \/ rewatch(h, dirs) \/ unwatch(h, dirs) \/ UNCHANGED <<stat, events, epoll, ih>>
    PROVE  Watched
<1>1. UNCHANGED <<stat, events, epoll, ih>> => Watched
  BY DEF TokenTypes, Watched
<1>2. events[h] \cup dirs \in SUBSET Dirs /\ events[h] \ dirs \in SUBSET Dirs
  BY DEF TokenTypes
<1>3. monitorHandle(h, dirs) => Watched
  BY <1>2, SetEventsWatches DEF monitorHandle
<1>4. unmonitorHandle(h, dirs) => Watched
  BY <1>2, SetEventsWatches DEF unmonitorHandle
<1> QED
  BY <1>1, <1>3, <1>4 DEF rewatch, unwatch

\* A step that moves no token keeps all of Tokens.
LEMMA QuietTokens ==
    ASSUME TokenTypes, Tokens, Quiet
    PROVE  Tokens'
<1>1. \A t \in Threads, h \in Handles : Holds(t, h)' <=> Holds(t, h)
  BY DEF Quiet, Holds, Working, Callbacks, Calling
<1>2. \A h \in Handles : /\ isActive(h)' <=> isActive(h)
                         /\ isInterrupted(h)' <=> isInterrupted(h)
  BY DEF Quiet, Watched, isActive, isInterrupted
<1>3. Exclusive'
  <2>1. ih' = ih /\ state' = state /\ Exclusive
        /\ (\A i \in DOMAIN ih.queue : ih.queue[i] \in Handles) /\ ih.pending \subseteq Handles
    BY DEF TokenTypes, Tokens, Quiet, Watched
  <2>2. \A x \in ih.pending : isInterrupted(x)' /\ \A t \in Threads : ~Holds(t, x)'
    BY <1>1, <1>2, <2>1 DEF Exclusive
  <2>3. \A x \in ih'.pending :
            /\ isInterrupted(x)' /\ state'[x] = "WAITING" /\ \A t \in Threads : ~Holds(t, x)'
            /\ \A i \in DOMAIN ih'.queue : ih'.queue[i] # x
    BY <2>1, <2>2 DEF Exclusive
  <2> QED
    BY <1>1, <1>2, <2>1, <2>3 DEF Exclusive
<1>4. ASSUME NEW t \in Threads PROVE ThreadOK(t)'
  <2>1. ThreadOK(t)
    BY DEF Tokens
  <2>2. CASE pc'[t] = pc[t]
    BY <1>2, <2>1, <2>2 DEF ThreadOK, Quiet, Watched, Kept, isInterrupted
  <2>3. CASE pc[t] \in Calling /\ pc'[t] \in Calling \cup {"calls"}
    BY <2>1, <2>3 DEF ThreadOK, Quiet, Kept, Working, Callbacks, Calling
  <2>4. CASE pc[t] = "closed" /\ pc'[t] = "calls"
    BY <2>1, <2>4 DEF ThreadOK, Quiet, Kept, Working, Callbacks, Calling
  <2> QED
    BY <2>2, <2>3, <2>4 DEF Quiet
<1>5. ASSUME NEW h \in Handles PROVE HandleOK(h)'
  <2>1. HandleOK(h) /\ (isActive(h) => stat[h] \notin Gone)
    BY DEF Tokens, isActive, Gone
  <2> QED
    BY <2>1 DEF HandleOK, Quiet, Watched
<1> QED
  BY <1>3, <1>4, <1>5 DEF Tokens

\* The parts of IInv after a step make it up.
LEMMA Collect ==
    ASSUME TokenTypes', Tokens', Data'
    PROVE  IInv'
<1>1. DataTypes' /\ BuffersOK'
  BY DEF Data
<1>2. TypeOK'
  BY <1>1 DEF TypeOK, TokenTypes, DataTypes, Places
<1> QED
  BY <1>1, <1>2 DEF IInv

\* What is left to show of such a step.
LEMMA QuietKeeps ==
    ASSUME IInv, Quiet, ev' = ev,
           sock' \in [Handles -> {"quiet", "data", "eof", "reset"}], Data'
    PROVE  IInv'
<1>1. TokenTypes /\ Tokens
  BY TypeParts DEF IInv
<1>2. Tokens'
  BY <1>1, QuietTokens
<1>3. TokenTypes'
  BY <1>1 DEF TokenTypes, Quiet, Watched
<1> QED
  BY <1>2, <1>3, Collect

----------------------------------------------------------------------------
(* The callbacks of AsynchIO                                               *)

\* A thread in a callback has its handle to itself.
LEMMA Serves ==
    ASSUME IInv, NEW t \in Threads, pc[t] \in Callbacks
    PROVE  /\ at[t] \in Handles /\ object[at[t]] = "live"
           /\ \A u \in Threads : pc[u] \in Working /\ at[u] = at[t] => u = t
BY DEF IInv, Tokens, ThreadOK, Exclusive, Holds, Working

\* A thread goes from one callback to the next, or is done with them.
LEMMA CallbackQuiet ==
    ASSUME TokenTypes, NEW t \in Threads, NEW w \in Calling \cup {"calls"},
           pc[t] \in Calling \/ (pc[t] = "closed" /\ w = "calls"),
           Watched, UNCHANGED <<at, last, object, users, state>>, Go(t, w)
    PROVE  Quiet /\ pc'[t] = w /\ \A u \in Threads : u # t => pc'[u] = pc[u]
<1>1. w \in Places
  BY DEF Calling, Places, Callbacks
<1>2. pc \in [Threads -> Places] /\ pc' = [pc EXCEPT ![t] = w]
  BY DEF TokenTypes, Go
<1>3. pc' \in [Threads -> Places] /\ pc'[t] = w /\ \A u \in Threads : u # t => pc'[u] = pc[u]
  BY <1>1, <1>2
<1> QED
  BY <1>3 DEF Quiet

FlagTypes ==
    /\ queuedClose \in [Handles -> BOOLEAN] /\ writePending \in [Handles -> BOOLEAN]
    /\ readError \in [Handles -> BOOLEAN] /\ output \in [Handles -> BOOLEAN]
    /\ closed \in [Handles -> BOOLEAN]
    /\ writer \in [Handles -> {"idle", "notify", "rewatch"}]
    /\ budget \in 0..MaxEvents

\* What most steps do to buffers and callbacks: drop a buffer at most.
LEMMA BuffersStay ==
    ASSUME Data, FlagTypes',
           free' = free \/ \E h \in Handles : free[h] > 0 /\ free' = [free EXCEPT ![h] = @ - 1],
           left' = left, interrupted' = interrupted, callbacks' = callbacks, timer' = timer, at' = at,
           \A t \in Threads : pc'[t] = "idle" => pc[t] = "idle" \/ left[at[t]] = 0
    PROVE  Data'
<1>1. BufferCount \in Nat
  BY IOAssumption
<1>2. free' \in [Handles -> 0..BufferCount] /\ \A h \in Handles : free'[h] <= free[h]
  <2>1. free \in [Handles -> 0..BufferCount]
    BY DEF Data, DataTypes
  <2> QED
    BY <1>1, <2>1
<1>3. DataTypes'
  BY <1>2 DEF Data, DataTypes, FlagTypes
<1>4. \A h \in Handles : left[h] > 0 => free'[h] < BufferCount
  <2>1. free \in [Handles -> 0..BufferCount] /\ \A h \in Handles : left[h] > 0 => free[h] < BufferCount
    BY DEF Data, DataTypes, BuffersOK
  <2> QED
    BY <1>1, <1>2, <2>1
<1>5. BuffersOK'
  BY <1>4 DEF Data, BuffersOK
<1> QED
  BY <1>3, <1>5 DEF Data

\* The types of the flags, as the invariant has them.
LEMMA Typed ==
    ASSUME IInv
    PROVE  TokenTypes /\ DataTypes /\ FlagTypes /\ Data /\ Tokens
BY TypeParts DEF IInv, Data, DataTypes, FlagTypes

\* What is left to show of a callback's step.
LEMMA CallbackKeeps ==
    ASSUME IInv, NEW t \in Threads, NEW w \in Calling \cup {"calls"},
           pc[t] \in Calling \/ (pc[t] = "closed" /\ w = "calls"), w = "idle" => left[at[t]] = 0,
           Watched, UNCHANGED <<at, last, object, users, state, ev>>, Go(t, w),
           sock' \in [Handles -> {"quiet", "data", "eof", "reset"}],
           FlagTypes', left' = left, UNCHANGED <<interrupted, callbacks, timer>>,
           free' = free \/ \E h \in Handles : free[h] > 0 /\ free' = [free EXCEPT ![h] = @ - 1]
    PROVE  IInv'
<1>1. Quiet /\ pc'[t] = w /\ \A u \in Threads : u # t => pc'[u] = pc[u]
  BY Typed, CallbackQuiet
<1>2. Data'
  BY <1>1, Typed, BuffersStay
<1> QED
  BY <1>1, <1>2, QuietKeeps

\* readable() reads into a buffer.
LEMMA ReadDataKeeps ==
    ASSUME IInv, NEW t \in Threads, ReadData(t)
    PROVE  IInv'
<1> PICK h : h = at[t]
  OBVIOUS
<1>1. TokenTypes /\ DataTypes /\ FlagTypes /\ h \in Handles
  BY Typed, Serves DEF ReadData, Callbacks
<1>2. Watched
  <2>1. {"in"} \in SUBSET Dirs /\ {"out"} \in SUBSET Dirs /\ {} \in SUBSET Dirs
    BY DEF Dirs
  <2> QED
    BY <1>1, <2>1, Watches DEF ReadData
<1>3. FlagTypes'
  BY <1>1 DEF ReadData, outside, FlagTypes
<1>4. PICK w \in Calling \cup {"calls"} : Go(t, w) /\ w # "idle"
  BY DEF ReadData, AfterRead, Calling, Callbacks
<1>5. sock' \in [Handles -> {"quiet", "data", "eof", "reset"}]
  BY <1>1 DEF ReadData, TokenTypes
<1>6. free' = free \/ \E x \in Handles : free[x] > 0 /\ free' = [free EXCEPT ![x] = @ - 1]
  BY <1>1 DEF ReadData
<1>7. pc[t] \in Calling /\ UNCHANGED <<at, last, object, users, state, ev, left, interrupted, callbacks, timer>>
  BY DEF ReadData, Calling, Callbacks, handleVars, outside
<1> QED
  BY <1>2, <1>3, <1>4, <1>5, <1>6, <1>7, CallbackKeeps

\* readable() finds nothing to read, or the end of file; writeable() has nothing
\* to write; the tests of writePending; disconnected(); the end of the handler:
\* buffers stay as they are.
LEMMA OtherCallbackKeeps ==
    ASSUME IInv, NEW t \in Threads,
           \/ ReadNothing(t) \/ ReadEof(t) \/ WriteNothing(t) \/ TestPending(t)
           \/ UnwatchWrite(t) \/ RecheckPending(t) \/ Disconnected(t) \/ DestroyHandler(t)
    PROVE  IInv'
<1> PICK h : h = at[t]
  OBVIOUS
<1>1. /\ pc[t] \in Callbacks /\ free' = free /\ left' = left
      /\ UNCHANGED <<sock, at, ev, last, object, users, interrupted, writer, timer, budget>>
      /\ state' = state /\ callbacks' = callbacks
  BY DEF ReadNothing, ReadEof, WriteNothing, TestPending, UnwatchWrite, RecheckPending,
         Disconnected, DestroyHandler, InCallback, Callbacks, ioVars
<1>2. TokenTypes /\ DataTypes /\ FlagTypes /\ h \in Handles
  BY <1>1, Typed, Serves
<1>3. Watched
  <2>1. {"in"} \in SUBSET Dirs /\ {"out"} \in SUBSET Dirs /\ {} \in SUBSET Dirs
    BY DEF Dirs
  <2>2. SetEvents(h, {"out"}) => Watched
    BY <1>2, <2>1, SetEventsWatches
  <2> QED
    BY <1>2, <2>1, <2>2, Watches
       DEF ReadNothing, ReadEof, WriteNothing, TestPending, UnwatchWrite, RecheckPending,
           Disconnected, DestroyHandler
<1>4. FlagTypes'
  BY <1>1, <1>2 DEF ReadNothing, ReadEof, WriteNothing, TestPending, UnwatchWrite, RecheckPending,
                    Disconnected, DestroyHandler, ioVars, FlagTypes
<1>5. PICK w \in Calling \cup {"calls"} :
          /\ Go(t, w)
          /\ w = "idle" => left[h] = 0
          /\ pc[t] \in Calling \/ (pc[t] = "closed" /\ w = "calls")
  BY DEF ReadNothing, ReadEof, WriteNothing, TestPending, UnwatchWrite, RecheckPending,
         Disconnected, DestroyHandler, InCallback, AfterRead, Calling, Callbacks
<1>6. sock' \in [Handles -> {"quiet", "data", "eof", "reset"}]
  BY <1>1, <1>2 DEF TokenTypes
<1> QED
  BY <1>1, <1>3, <1>4, <1>5, <1>6, CallbackKeeps

\* writeable() writes a buffer, which is free again once it is written whole.
LEMMA WriteKeeps ==
    ASSUME IInv, NEW t \in Threads, Write(t)
    PROVE  IInv'
<1> PICK h : h = at[t]
  OBVIOUS
<1>1. TokenTypes /\ DataTypes /\ Data /\ h \in Handles
  BY Typed, Serves DEF Write, InCallback, Callbacks
<1>2. Watched
  <2>1. {"in"} \in SUBSET Dirs /\ {"out"} \in SUBSET Dirs /\ {} \in SUBSET Dirs
    BY DEF Dirs
  <2> QED
    BY <1>1, <2>1, Watches DEF Write
<1>3. /\ pc[t] \in Calling /\ left[h] > 0
      /\ UNCHANGED <<sock, at, ev, last, object, users, interrupted, writer, timer, budget>>
      /\ UNCHANGED <<state, callbacks, queuedClose, writePending, readError, output, closed>>
  BY DEF Write, InCallback, Calling, Callbacks
<1>4. PICK w \in Calling \cup {"calls"} : Go(t, w) /\ w # "idle"
  BY DEF Write, InCallback, Calling, Callbacks
<1>5. Quiet /\ pc'[t] = w /\ \A u \in Threads : u # t => pc'[u] = pc[u]
  BY <1>1, <1>2, <1>3, <1>4, CallbackQuiet
<1>6. /\ free' \in [Handles -> 0..BufferCount] /\ left' \in [Handles -> 0..Units]
      /\ \A x \in Handles : left'[x] <= left[x] /\ (left'[x] > 0 => free'[x] < BufferCount)
  <2>1. /\ free \in [Handles -> 0..BufferCount] /\ left \in [Handles -> 0..Units]
        /\ \A x \in Handles : left[x] > 0 => free[x] < BufferCount
    BY <1>1 DEF Data, DataTypes, BuffersOK
  <2>2. BufferCount \in Nat /\ Units \in Nat
    BY IOAssumption
  <2>3. CASE free' = free /\ left' = left
    BY <2>1, <2>2, <2>3
  <2>4. CASE left' = [left EXCEPT ![h] = 0] /\ free' = [free EXCEPT ![h] = @ + 1]
    BY <1>1, <1>3, <2>1, <2>2, <2>4
  <2>5. CASE left[h] > 1 /\ left' = [left EXCEPT ![h] = @ - 1] /\ free' = free
    BY <1>1, <2>1, <2>2, <2>5
  <2> QED
    BY <2>3, <2>4, <2>5 DEF Write
<1>7. Data'
  <2>1. DataTypes'
    BY <1>1, <1>3, <1>6 DEF DataTypes
  <2>2. ASSUME NEW u \in Threads, pc'[u] = "idle" PROVE left'[at'[u]] = 0
    <3>1. u # t /\ pc[u] = "idle" /\ at'[u] = at[u]
      BY <1>3, <1>4, <1>5, <2>2
    <3>2. left[at[u]] = 0 /\ at[u] \in Handles
      BY <1>1, <3>1, Serves DEF Data, BuffersOK, Callbacks
    <3>3. left'[at[u]] \in Nat /\ left'[at[u]] <= left[at[u]]
      <4>1. Units \in Nat
        BY IOAssumption
      <4> QED
        BY <1>6, <3>2, <4>1
    <3> QED
      BY <3>1, <3>2, <3>3
  <2>3. BuffersOK'
    BY <1>1, <1>3, <1>6, <2>2 DEF Data, BuffersOK
  <2> QED
    BY <2>1, <2>3 DEF Data
<1>8. sock' \in [Handles -> {"quiet", "data", "eof", "reset"}] /\ ev' = ev
  BY <1>1, <1>3 DEF TokenTypes
<1> QED
  BY <1>5, <1>7, <1>8, QuietKeeps

\* The idle callback fills a buffer, if there is something to encode.
LEMMA IdleKeeps ==
    ASSUME IInv, NEW t \in Threads, Idle(t)
    PROVE  IInv'
<1> PICK h : h = at[t]
  OBVIOUS
<1>1. TokenTypes /\ DataTypes /\ FlagTypes /\ Data /\ h \in Handles
  BY Typed, Serves DEF Idle, InCallback, Callbacks
<1>2. Watched
  <2>1. \A d \in {"in", "out"} : d \in Dirs
    BY DEF Dirs
  <2> DEFINE back == IF free[h] = 1 THEN {"in"} ELSE {}
  <2>2. back \in SUBSET Dirs /\ back \cup {"out"} \in SUBSET Dirs /\ {"out"} \in SUBSET Dirs /\ {} \in SUBSET Dirs
    BY <2>1
  <2> HIDE DEF back
  <2>3. \/ rewatch(h, {"out"}) \/ rewatch(h, back) \/ rewatch(h, back \cup {"out"})
        \/ UNCHANGED <<stat, events, epoll, ih>>
    BY DEF Idle, back
  <2> QED
    BY <1>1, <2>2, <2>3, Watches
<1>3. /\ pc[t] = "idle" /\ Go(t, "test") /\ closed' = closed
      /\ UNCHANGED <<sock, at, ev, last, object, users, interrupted, writer, timer, budget>>
      /\ UNCHANGED <<state, callbacks>>
  BY DEF Idle, InCallback
<1>4. FlagTypes'
  BY <1>1, <1>3 DEF Idle, FlagTypes
<1>5. "test" \in Calling /\ pc[t] \in Calling /\ left[h] = 0
  BY <1>1, <1>3 DEF Calling, Callbacks, Data, BuffersOK
<1>6. sock' \in [Handles -> {"quiet", "data", "eof", "reset"}] /\ ev' = ev
  BY <1>1, <1>3 DEF TokenTypes
<1>7. Quiet /\ pc'[t] = "test" /\ \A u \in Threads : u # t => pc'[u] = pc[u]
  BY <1>1, <1>2, <1>3, <1>5, CallbackQuiet
<1>8. \/ /\ left' = left
         /\ free' = free \/ \E x \in Handles : free[x] > 0 /\ free' = [free EXCEPT ![x] = @ - 1]
      \/ /\ left' = [left EXCEPT ![h] = Units]
         /\ free[h] > 0 /\ free' = [free EXCEPT ![h] = @ - 1]
  <2>1. free \in [Handles -> 0..BufferCount] /\ BufferCount \in Nat
    BY <1>1, IOAssumption DEF DataTypes
  <2>2. ASSUME free' = [free EXCEPT ![h] = IF @ = 0 THEN 0 ELSE @ - 1]
        PROVE  free' = free \/ (free[h] > 0 /\ free' = [free EXCEPT ![h] = @ - 1])
    <3>1. free[h] = 0 \/ free[h] > 0
      BY <1>1, <2>1
    <3>2. CASE free[h] = 0
      <4>1. free' = [free EXCEPT ![h] = free[h]]
        BY <2>2, <3>2
      <4> QED
        BY <1>1, <2>1, <4>1
    <3>3. CASE free[h] > 0
      <4>1. free[h] # 0
        BY <3>3
      <4> QED
        BY <2>2, <3>3, <4>1
    <3> QED
      BY <3>1, <3>2, <3>3
  <2> QED
    BY <1>1, <2>2 DEF Idle
<1>9. CASE /\ left' = left
           /\ free' = free \/ \E x \in Handles : free[x] > 0 /\ free' = [free EXCEPT ![x] = @ - 1]
  <2>1. Data'
    BY <1>1, <1>3, <1>4, <1>7, <1>9, BuffersStay
  <2> QED
    BY <1>6, <1>7, <2>1, QuietKeeps
<1>10. CASE left' = [left EXCEPT ![h] = Units] /\ free[h] > 0 /\ free' = [free EXCEPT ![h] = @ - 1]
  <2>1. /\ free \in [Handles -> 0..BufferCount] /\ left \in [Handles -> 0..Units]
        /\ \A x \in Handles : left[x] > 0 => free[x] < BufferCount
    BY <1>1 DEF Data, DataTypes, BuffersOK
  <2>2. BufferCount \in Nat /\ Units \in Nat
    BY IOAssumption
  <2>3. /\ free' \in [Handles -> 0..BufferCount] /\ left' \in [Handles -> 0..Units]
        /\ \A x \in Handles : left'[x] > 0 => free'[x] < BufferCount
        /\ \A x \in Handles : x # h => left'[x] = left[x]
    BY <1>1, <1>10, <2>1, <2>2
  <2>4. DataTypes'
    BY <1>1, <1>3, <1>4, <2>3 DEF DataTypes, FlagTypes
  <2>5. ASSUME NEW u \in Threads, pc'[u] = "idle" PROVE left'[at'[u]] = 0
    <3>1. u # t /\ pc[u] = "idle" /\ at'[u] = at[u]
      BY <1>3, <1>7, <2>5
    <3>2. left[at[u]] = 0 /\ at[u] \in Handles
      BY <1>1, <3>1, Serves DEF Data, BuffersOK, Callbacks
    <3>3. at[u] # h
      BY <1>3, <3>1, Serves DEF Callbacks, Working
    <3> QED
      BY <2>3, <3>1, <3>2, <3>3
  <2>6. BuffersOK'
    BY <1>1, <1>3, <2>3, <2>5 DEF Data, BuffersOK
  <2> QED
    BY <1>6, <1>7, <2>4, <2>6, QuietKeeps DEF Data
<1> QED
  BY <1>8, <1>9, <1>10

----------------------------------------------------------------------------
(* The outside                                                             *)

\* What is left to show of a step outside the I/O threads that moves no token.
LEMMA OutsideKeeps ==
    ASSUME IInv, Watched, UNCHANGED <<pc, at, ev, last, object, users, state>>,
           sock' \in [Handles -> {"quiet", "data", "eof", "reset"}], Data'
    PROVE  IInv'
<1>1. Quiet
  BY Typed DEF Quiet, TokenTypes
<1> QED
  BY <1>1, QuietKeeps

\* Output, its announcement in two steps, and the peer.
LEMMA AnnounceKeeps ==
    ASSUME IInv, NEW h \in Handles,
           \/ HaveOutput(h) \/ Notify(h) \/ DataArrives(h) \/ PeerCloses(h) \/ PeerResets(h)
    PROVE  IInv'
<1>1. /\ UNCHANGED <<pc, at, ev, last, object, users, state>> /\ timer' = timer
      /\ interrupted' = interrupted /\ callbacks' = callbacks /\ free' = free /\ left' = left
  BY DEF HaveOutput, Notify, NotifyPendingWrite, RewatchWrite, DataArrives, PeerCloses, PeerResets,
         Peer, Outside, handleVars, ioVars
<1>2. TokenTypes /\ DataTypes /\ FlagTypes /\ Data
  BY Typed
<1>3. Watched
  <2>1. {"out"} \in SUBSET Dirs
    BY DEF Dirs
  <2> QED
    BY <1>2, <2>1, Watches
       DEF HaveOutput, Notify, NotifyPendingWrite, RewatchWrite, DataArrives, PeerCloses, PeerResets, Peer
<1>4. FlagTypes'
  <2>1. budget' = budget \/ (budget > 0 /\ budget' = budget - 1)
    BY DEF HaveOutput, Notify, NotifyPendingWrite, RewatchWrite, DataArrives, PeerCloses, PeerResets, Peer
  <2>2. budget' \in 0..MaxEvents
    BY <1>2, <2>1, IOAssumption DEF FlagTypes
  <2> QED
    BY <1>2, <2>2
       DEF HaveOutput, Notify, NotifyPendingWrite, RewatchWrite, DataArrives, PeerCloses, PeerResets,
           Peer, Outside, ioVars, FlagTypes
<1>5. sock' \in [Handles -> {"quiet", "data", "eof", "reset"}]
  BY <1>2 DEF HaveOutput, Notify, NotifyPendingWrite, RewatchWrite, DataArrives, PeerCloses,
              PeerResets, Peer, Outside, TokenTypes
<1>6. Data'
  BY <1>1, <1>2, <1>4, BuffersStay
<1> QED
  BY <1>1, <1>3, <1>5, <1>6, OutsideKeeps

\* The two steps of queueWriteClose on the timer's thread.
LEMMA AbortingKeeps ==
    ASSUME IInv, NEW h \in Handles, AbortClose(h) \/ AbortRewatch(h)
    PROVE  IInv'
<1>1. /\ UNCHANGED <<pc, at, ev, last, object, users, state>> /\ sock' = sock
      /\ interrupted' = interrupted /\ callbacks' = callbacks /\ free' = free /\ left' = left
      /\ UNCHANGED <<readError, writePending, output, closed, writer, budget>>
      /\ timer[h] # "armed" /\ \E s \in {"rewatch", "done"} : timer' = [timer EXCEPT ![h] = s]
      /\ queuedClose' = queuedClose \/ queuedClose' = [queuedClose EXCEPT ![h] = TRUE]
  BY DEF AbortClose, AbortRewatch, Outside
<1>2. TokenTypes /\ DataTypes /\ Data
  BY Typed
<1>3. Watched
  <2>1. {"out"} \in SUBSET Dirs
    BY DEF Dirs
  <2> QED
    BY <1>2, <2>1, Watches DEF AbortClose, AbortRewatch
<1>4. /\ timer' \in [Handles -> {"armed", "close", "rewatch", "done"}]
      /\ \A x \in Handles : timer'[x] = "armed" => timer[x] = "armed"
  BY <1>1, <1>2 DEF DataTypes
<1>5. Data'
  BY <1>1, <1>2, <1>4 DEF Data, DataTypes, BuffersOK
<1>6. sock' \in [Handles -> {"quiet", "data", "eof", "reset"}]
  BY <1>1, <1>2 DEF TokenTypes
<1> QED
  BY <1>1, <1>3, <1>5, <1>6, OutsideKeeps

\* A handle that was about to, or whose thread lets go of it, enters the
\* interrupt queue.
LEMMA ArmExclusive ==
    ASSUME Exclusive, ih.queue \in Seq(Handles), ih.pending \subseteq Handles, NEW h \in Handles,
           ih' = Arm(h),
           \A i \in DOMAIN ih.queue : ih.queue[i] # h,
           \A t \in Threads : ~Holds(t, h)',
           \A t \in Threads, x \in Handles : Holds(t, x)' => Holds(t, x),
           \A x \in Handles : isActive(x)' => isActive(x) /\ x # h,
           \A x \in Handles : isInterrupted(x) => isInterrupted(x)',
           isInterrupted(h)', state' = state, state[h] = "WAITING"
    PROVE  /\ Exclusive'
           /\ ih' \in [queue : Seq(Handles), pending : SUBSET Handles, active : BOOLEAN, armed : BOOLEAN]
<1>0. /\ ih'.queue = Append(ih.queue, h) /\ ih'.pending = ih.pending \ {h}
      /\ ih' \in [queue : Seq(Handles), pending : SUBSET Handles, active : BOOLEAN, armed : BOOLEAN]
  BY DEF Arm
<1>1. /\ ih'.queue \in Seq(Handles) /\ ih'.queue # <<>>
      /\ DOMAIN ih.queue = 1 .. Len(ih.queue) /\ Len(ih.queue) \in Nat
      /\ DOMAIN ih'.queue = 1 .. Len(ih.queue) + 1
      /\ ih'.queue[Len(ih.queue) + 1] = h
      /\ \A i \in DOMAIN ih.queue : ih'.queue[i] = ih.queue[i] /\ ih.queue[i] \in Handles
  BY <1>0
<1>2. \A i \in DOMAIN ih'.queue : i \in DOMAIN ih.queue \/ i = Len(ih.queue) + 1
  BY <1>1
<1>3. ASSUME NEW i \in DOMAIN ih'.queue, NEW x, x = ih'.queue[i]
      PROVE  /\ isInterrupted(x)' /\ state'[x] = "WAITING"
             /\ \A t \in Threads : ~Holds(t, x)'
             /\ \A j \in DOMAIN ih'.queue : x = ih'.queue[j] => i = j
  <2>1. CASE i \in DOMAIN ih.queue
    <3>1. x = ih.queue[i] /\ x \in Handles /\ x # h
      BY <1>1, <1>3, <2>1
    <3>2. isInterrupted(x) /\ state[x] = "WAITING" /\ \A t \in Threads : ~Holds(t, x)
      BY <2>1, <3>1 DEF Exclusive
    <3>3. isInterrupted(x)' /\ \A t \in Threads : ~Holds(t, x)'
      BY <3>1, <3>2
    <3>4. \A j \in DOMAIN ih'.queue : x = ih'.queue[j] => i = j
      BY <1>1, <1>2, <2>1, <3>1 DEF Exclusive
    <3> QED
      BY <3>2, <3>3, <3>4
  <2>2. CASE i = Len(ih.queue) + 1
    <3>1. x = h
      BY <1>1, <1>3, <2>2
    <3>2. \A j \in DOMAIN ih'.queue : x = ih'.queue[j] => i = j
      BY <1>1, <1>2, <2>2, <3>1
    <3> QED
      BY <3>1, <3>2
  <2> QED
    BY <1>2, <2>1, <2>2
<1>4. \A x \in Handles : isActive(x)' => state'[x] = "WAITING" /\ \A t \in Threads : ~Holds(t, x)'
  BY DEF Exclusive
<1>5. \A x \in Handles : \A t, u \in Threads : Holds(t, x)' /\ Holds(u, x)' => t = u
  BY DEF Exclusive
<1>6. \A i \in DOMAIN ih'.queue :
          /\ isInterrupted(ih.queue[i])' /\ state'[ih'.queue[i]] = "WAITING"
          /\ \A t \in Threads : ~Holds(t, ih.queue[i])'
          /\ \A j \in DOMAIN ih'.queue : ih'.queue[i] = ih'.queue[j] => i = j
  BY <1>3 DEF isInterrupted, Holds
<1>7. ASSUME NEW x \in ih'.pending
      PROVE  /\ isInterrupted(x)' /\ state'[x] = "WAITING"
             /\ \A t \in Threads : ~Holds(t, x)'
             /\ \A i \in DOMAIN ih'.queue : ih'.queue[i] # x
  <2>1. x \in ih.pending /\ x \in Handles /\ x # h
    BY <1>0, <1>7
  <2>2. /\ isInterrupted(x) /\ state[x] = "WAITING" /\ \A t \in Threads : ~Holds(t, x)
        /\ \A i \in DOMAIN ih.queue : ih.queue[i] # x
    BY <2>1 DEF Exclusive
  <2> QED
    BY <1>1, <1>2, <2>1, <2>2
<1> QED
  BY <1>0, <1>1, <1>4, <1>5, <1>6, <1>7 DEF Exclusive

\* No buffer or callback changes hands, and nobody comes to the idle callback.
LEMMA SameData ==
    ASSUME IInv, UNCHANGED <<ioVars, outside, interrupted, callbacks>>, 
           \A u \in Threads : pc'[u] = "idle" => pc[u] = "idle" /\ at'[u] = at[u]
    PROVE  Data'
BY Typed DEF Data, DataTypes, BuffersOK, ioVars, outside

\* The timer puts the handle it interrupted into the interrupt queue.
LEMMA AbortInterruptsKeeps ==
    ASSUME IInv, NEW h \in Handles, AbortInterrupts(h)
    PROVE  IInv'
<1>1. /\ UNCHANGED <<pc, at, ev, last, object, users, state, stat, events, epoll, sock>>
      /\ UNCHANGED <<interrupted, callbacks, ioVars, outside>>
      /\ h \in ih.pending /\ ih' = Arm(h)
  BY DEF AbortInterrupts, QueueInterrupt, Outside, ioVars, outside
<1>2. TokenTypes /\ Tokens /\ Exclusive /\ ih.pending \subseteq Handles /\ ih.queue \in Seq(Handles)
  BY Typed DEF Tokens, TokenTypes
<1>3. /\ isInterrupted(h) /\ state[h] = "WAITING" /\ \A t \in Threads : ~Holds(t, h)
      /\ \A i \in DOMAIN ih.queue : ih.queue[i] # h
  BY <1>1, <1>2 DEF Exclusive
<1>4. /\ \A t \in Threads, x \in Handles : Holds(t, x)' <=> Holds(t, x)
      /\ \A x \in Handles : isActive(x)' => isActive(x) /\ x # h
      /\ isInterrupted(h)' /\ \A x \in Handles : isInterrupted(x) => isInterrupted(x)'
  BY <1>1, <1>3 DEF Holds, isActive, isInterrupted
<1>5. Exclusive' /\ ih' \in [queue : Seq(Handles), pending : SUBSET Handles, active : BOOLEAN, armed : BOOLEAN]
  BY <1>1, <1>2, <1>3, <1>4, ArmExclusive
<1>6. TokenTypes'
  BY <1>1, <1>2, <1>5 DEF TokenTypes
<1>7. (\A t \in Threads : ThreadOK(t)') /\ \A x \in Handles : HandleOK(x)'
  BY <1>1, <1>2 DEF Tokens, ThreadOK, HandleOK, Kept, isInterrupted
<1>8. Data'
  BY <1>1, SameData
<1> QED
  BY <1>5, <1>6, <1>7, <1>8, Collect DEF Tokens

\* The timer's abort queues a callback, and is to queue an active handle.
LEMMA AbortKeeps ==
    ASSUME IInv, NEW h \in Handles, Abort(h)
    PROVE  IInv'
<1>1. /\ UNCHANGED <<pc, at, ev, last, object, users, state, sock, callbacks, free, left>>
      /\ UNCHANGED <<readError, closed, queuedClose, writePending, output, writer>>
      /\ timer[h] = "armed" /\ timer' = [timer EXCEPT ![h] = "close"]
      /\ budget > 0 /\ budget' = budget - 1
  BY DEF Abort, Outside
<1>2. TokenTypes /\ DataTypes /\ Data /\ Tokens
  BY Typed
<1>3. interrupted' = interrupted \/ interrupted' = [interrupted EXCEPT ![h] = @ + 1]
  BY DEF Abort, call
<1>4. /\ timer' \in [Handles -> {"armed", "close", "rewatch", "done"}]
      /\ \A x \in Handles : timer'[x] = "armed" => x # h /\ timer[x] = "armed"
  BY <1>1, <1>2 DEF DataTypes
<1>5. /\ interrupted' \in [Handles -> 0..1]
      /\ \A x \in Handles : x # h => interrupted'[x] = interrupted[x]
      /\ interrupted'[h] + callbacks[h] <= 1
  <2>1. /\ interrupted \in [Handles -> 0..1] /\ callbacks \in [Handles -> 0..1]
        /\ interrupted[h] = 0 /\ callbacks[h] = 0
    BY <1>1, <1>2 DEF Data, DataTypes, BuffersOK
  <2> QED
    BY <1>3, <2>1
<1>6. budget' \in 0..MaxEvents
  BY <1>1, <1>2, IOAssumption DEF DataTypes
<1>7. Data'
  <2>1. DataTypes'
    BY <1>1, <1>2, <1>4, <1>5, <1>6 DEF DataTypes
  <2>2. BuffersOK'
    BY <1>1, <1>2, <1>4, <1>5 DEF Data, BuffersOK
  <2> QED
    BY <2>1, <2>2 DEF Data
<1>8. sock' \in [Handles -> {"quiet", "data", "eof", "reset"}]
  BY <1>1, <1>2 DEF TokenTypes
<1>9. CASE UNCHANGED <<stat, events, epoll, ih>>
  <2>1. Watched
    BY <1>2, <1>9 DEF TokenTypes, Watched
  <2> QED
    BY <1>1, <1>7, <1>8, <2>1, OutsideKeeps
<1>10. CASE /\ stat[h] \notin Gone /\ ~isInterrupted(h) /\ events' = events
            /\ epoll' = [epoll EXCEPT ![h] = Entry({}, FALSE)]
            /\ stat' = [stat EXCEPT ![h] = Interrupted(h)]
            /\ ih' = IF isInactive(h) THEN ih ELSE WithPending(h)
  <2>1. Interrupted(h) \in {"INTERRUPTED", "INTERRUPTED_HUNGUP"}
    BY DEF Interrupted
  <2>2. Entry({}, FALSE) \in [on : BOOLEAN, dirs : SUBSET Dirs, oneshot : BOOLEAN]
    BY DEF Entry
  <2>3. /\ stat' \in [Handles -> Stats]
        /\ \A x \in Handles : x # h => stat'[x] = stat[x] /\ epoll'[x] = epoll[x]
        /\ stat'[h] = Interrupted(h)
        /\ epoll' \in [Handles -> [on : BOOLEAN, dirs : SUBSET Dirs, oneshot : BOOLEAN]]
    BY <1>2, <1>10, <2>1, <2>2 DEF TokenTypes, Stats
  <2>4. \A t \in Threads, x \in Handles : Holds(t, x)' <=> Holds(t, x)
    BY <1>1 DEF Holds
  <2>5. \A x \in Handles : isActive(x)' => isActive(x) /\ x # h
    BY <2>1, <2>3 DEF isActive
  <2>6. \A x \in Handles : isInterrupted(x) => isInterrupted(x)'
    BY <2>1, <2>3 DEF isInterrupted
  <2>7. isInterrupted(h)'
    BY <2>1, <2>3 DEF isInterrupted
  <2>8. isInactive(h) \/ isActive(h)
    BY <1>2, <1>10 DEF TokenTypes, Stats, isActive, isInactive, isInterrupted, Gone
  <2>9. Exclusive' /\ ih' \in [queue : Seq(Handles), pending : SUBSET Handles, active : BOOLEAN, armed : BOOLEAN]
    <3>1. Exclusive /\ ih.queue \in Seq(Handles) /\ ih.pending \subseteq Handles
      BY <1>2 DEF Tokens, TokenTypes
    <3>2. /\ ih'.queue = ih.queue /\ ih'.active = ih.active
          /\ ih' \in [queue : Seq(Handles), pending : SUBSET Handles, active : BOOLEAN, armed : BOOLEAN]
          /\ ih'.pending = ih.pending \/ (isActive(h) /\ ih'.pending = ih.pending \cup {h})
      BY <1>2, <1>10, <2>8 DEF TokenTypes, WithPending
    <3>3. isActive(h) => /\ \A i \in DOMAIN ih.queue : ih.queue[i] # h
                         /\ state[h] = "WAITING" /\ \A t \in Threads : ~Holds(t, h)
      BY <3>1 DEF Exclusive, isActive, isInterrupted
    <3>4. ASSUME NEW x \in ih'.pending
          PROVE  /\ isInterrupted(x)' /\ state'[x] = "WAITING"
                 /\ \A t \in Threads : ~Holds(t, x)'
                 /\ \A i \in DOMAIN ih'.queue : ih'.queue[i] # x
      <4>1. CASE x \in ih.pending
        <5>1. /\ x \in Handles /\ isInterrupted(x) /\ state[x] = "WAITING"
              /\ (\A t \in Threads : ~Holds(t, x)) /\ \A i \in DOMAIN ih.queue : ih.queue[i] # x
          BY <3>1, <4>1 DEF Exclusive
        <5> QED
          BY <1>1, <2>4, <2>6, <3>2, <5>1
      <4>2. CASE x = h /\ isActive(h)
        BY <1>1, <2>4, <2>7, <3>2, <3>3, <4>2
      <4> QED
        BY <3>2, <3>4, <4>1, <4>2
    <3>5. ASSUME NEW i \in DOMAIN ih.queue, NEW x, x = ih.queue[i]
          PROVE  isInterrupted(x)' /\ state'[x] = "WAITING" /\ \A t \in Threads : ~Holds(t, x)'
      <4>1. /\ x \in Handles /\ isInterrupted(x) /\ state[x] = "WAITING"
            /\ \A t \in Threads : ~Holds(t, x)
        BY <3>1, <3>5 DEF Exclusive
      <4> QED
        BY <1>1, <2>4, <2>6, <4>1
    <3>6. \A i \in DOMAIN ih'.queue :
              /\ isInterrupted(ih.queue[i])' /\ state'[ih'.queue[i]] = "WAITING"
              /\ \A t \in Threads : ~Holds(t, ih.queue[i])'
              /\ \A j \in DOMAIN ih'.queue : ih'.queue[i] = ih'.queue[j] => i = j
      BY <3>1, <3>2, <3>5 DEF Exclusive, isInterrupted, Holds
    <3>7. /\ \A x \in Handles : \A t, u \in Threads : Holds(t, x)' /\ Holds(u, x)' => t = u
          /\ \A x \in Handles : isActive(x)' => state'[x] = "WAITING" /\ \A t \in Threads : ~Holds(t, x)'
      BY <1>1, <2>4, <2>5, <3>1 DEF Exclusive
    <3>8. ih'.active => ih'.queue # <<>>
      BY <3>1, <3>2 DEF Exclusive
    <3> QED
      BY <3>2, <3>4, <3>6, <3>7, <3>8 DEF Exclusive
  <2>10. ASSUME NEW t \in Threads PROVE ThreadOK(t)'
    <3>1. ThreadOK(t) /\ pc'[t] = pc[t] /\ at'[t] = at[t] /\ last'[t] = last[t]
      BY <1>1, <1>2 DEF Tokens
    <3>2. pc[t] \in {"wrapped", "requeue"} => isInterrupted(at[t])'
      BY <2>6, <3>1 DEF ThreadOK, Working
    <3> QED
      BY <1>1, <3>1, <3>2 DEF ThreadOK, Kept
  <2>11. ASSUME NEW x \in Handles PROVE HandleOK(x)'
    <3>1. HandleOK(x) /\ HandleOK(h)
      BY <1>2 DEF Tokens
    <3> QED
      BY <1>1, <1>10, <2>1, <2>3, <3>1 DEF HandleOK, Gone
  <2>12. TokenTypes'
    BY <1>1, <1>2, <1>10, <2>3, <2>9 DEF TokenTypes
  <2> QED
    BY <1>7, <2>9, <2>10, <2>11, <2>12, Collect DEF Tokens
<1> QED
  BY <1>9, <1>10 DEF Abort, call, interrupt, Gone

----------------------------------------------------------------------------
(* The tokens that move                                                    *)

\* Whoever holds a handle holds it alone, and the poller has no use for it.
LEMMA HoldsAlone ==
    ASSUME Exclusive, NEW t \in Threads, NEW h \in Handles, Holds(t, h)
    PROVE  /\ \A u \in Threads : u # t => ~Holds(u, h)
           /\ ~isActive(h) /\ (\A i \in DOMAIN ih.queue : ih.queue[i] # h) /\ h \notin ih.pending
BY DEF Exclusive

\* A step of thread t with handle h leaves the others what they rely on.
LEMMA OthersKeep ==
    ASSUME Tokens, NEW t \in Threads, NEW h \in Handles,
           \A u \in Threads : u # t => /\ pc'[u] = pc[u] /\ at'[u] = at[u] /\ last'[u] = last[u]
                                       /\ ~Holds(u, h) /\ (Kept(u, h) => Kept(u, h)'),
           \A x \in Handles : x # h => /\ stat'[x] = stat[x] /\ state'[x] = state[x]
                                       /\ object'[x] = object[x] /\ users'[x] = users[x]
                                       /\ (epoll'[x].on => epoll[x].on),
           TokenTypes
    PROVE  /\ \A u \in Threads : u # t => ThreadOK(u)'
           /\ \A x \in Handles : x # h => HandleOK(x)'
<1>1. ASSUME NEW u \in Threads, u # t PROVE ThreadOK(u)'
  <2>1. ThreadOK(u) /\ pc'[u] = pc[u] /\ at'[u] = at[u] /\ last'[u] = last[u] /\ ~Holds(u, h)
    BY <1>1 DEF Tokens
  <2>2. pc[u] \in Working => at[u] \in Handles /\ at[u] # h
    BY <2>1 DEF ThreadOK, Holds
  <2>3. last[u] # None => last[u] \in Handles /\ last[u] # h
    BY <2>1 DEF ThreadOK, Holds, TokenTypes, Working
  <2>4. Kept(u, h) => Kept(u, h)'
    BY <1>1
  <2>5. ASSUME NEW x \in Handles, Kept(u, x) PROVE Kept(u, x)'
    BY <2>4, <2>5 DEF Kept
  <2>6. pc[u] = "returned" => at[u] \in Handles /\ Kept(u, at[u])
    BY <2>1 DEF ThreadOK
  <2>7. pc[u] = "returned" => Kept(u, at[u])'
    BY <2>1, <2>5, <2>6 DEF Kept
  <2>8. last[u] # None => Kept(u, last[u])'
    BY <2>1, <2>3, <2>5 DEF Kept, ThreadOK
  <2>9. isInterrupted(at[u])' <=> stat'[at[u]] \in {"INTERRUPTED", "INTERRUPTED_HUNGUP"}
    BY <2>1 DEF isInterrupted
  <2>10. \A x \in Handles : x # h => stat'[x] = stat[x] /\ state'[x] = state[x] /\ object'[x] = object[x]
    OBVIOUS
  <2>11. /\ pc'[u] \in Working \cup {"returned"} => at'[u] \in Handles
         /\ pc'[u] \in Working => object'[at'[u]] = "live"
         /\ pc'[u] \in {"event", "wrapped", "requeue"} => state'[at'[u]] = "WAITING"
         /\ pc'[u] \in {"wrapped", "requeue"} => isInterrupted(at[u])'
         /\ pc'[u] \in Calling => state'[at'[u]] = "CALLING"
         /\ pc'[u] = "deleting" => state'[at'[u]] = "STOPPING"
         /\ pc'[u] = "closed" => state'[at'[u]] = "DELETING"
         /\ pc'[u] = "calls" => state'[at'[u]] \in {"CALLING", "DELETING"}
    BY <2>1, <2>2, <2>9, <2>10 DEF ThreadOK, Working, Calling, Callbacks, isInterrupted
  <2>12. last'[u] # None =>
            \/ pc'[u] = "top" /\ (object'[last'[u]] = "live" => state'[last'[u]] = "WAITING")
            \/ pc'[u] \in Callbacks \cup {"event"} /\ at'[u] = last'[u]
    BY <2>1, <2>3, <2>10 DEF ThreadOK
  <2> QED
    BY <2>1, <2>7, <2>8, <2>11, <2>12 DEF ThreadOK, Kept
<1>2. ASSUME NEW x \in Handles, x # h PROVE HandleOK(x)'
  BY <1>2 DEF Tokens, HandleOK
<1> QED
  BY <1>1, <1>2

\* Thread t takes, keeps or gives up handle h, which nobody else has.
LEMMA ExclusiveMove ==
    ASSUME Exclusive, NEW t \in Threads, NEW h \in Handles,
           ih' = ih, ih.queue \in Seq(Handles), ih.pending \subseteq Handles,
           \A u \in Threads, x \in Handles : (u # t \/ x # h) /\ Holds(u, x)' => Holds(u, x),
           \A u \in Threads : u # t => ~Holds(u, h),
           \A i \in DOMAIN ih.queue : ih.queue[i] # h, h \notin ih.pending,
           \A x \in Handles : x # h => stat'[x] = stat[x] /\ state'[x] = state[x],
           isActive(h)' => state'[h] = "WAITING" /\ ~Holds(t, h)'
    PROVE  Exclusive'
<1>1. \A x \in Handles : x # h => (isActive(x)' <=> isActive(x)) /\ (isInterrupted(x)' <=> isInterrupted(x))
  BY DEF isActive, isInterrupted
<1>2. \A x \in Handles : \A u, v \in Threads : Holds(u, x)' /\ Holds(v, x)' => u = v
  BY DEF Exclusive
<1>3. \A x \in Handles : isActive(x)' => state'[x] = "WAITING" /\ \A u \in Threads : ~Holds(u, x)'
  BY <1>1 DEF Exclusive
<1>4. ASSUME NEW i \in DOMAIN ih.queue, NEW x, x = ih.queue[i]
      PROVE  /\ isInterrupted(x)' /\ state'[x] = "WAITING"
             /\ \A u \in Threads : ~Holds(u, x)'
  <2>1. x \in Handles /\ x # h
    BY <1>4
  <2>2. isInterrupted(x) /\ state[x] = "WAITING" /\ \A u \in Threads : ~Holds(u, x)
    BY <1>4 DEF Exclusive
  <2> QED
    BY <1>1, <2>1, <2>2
<1>5. \A i \in DOMAIN ih'.queue :
          /\ isInterrupted(ih.queue[i])' /\ state'[ih'.queue[i]] = "WAITING"
          /\ \A u \in Threads : ~Holds(u, ih.queue[i])'
          /\ \A j \in DOMAIN ih'.queue : ih'.queue[i] = ih'.queue[j] => i = j
  BY <1>4 DEF isInterrupted, Holds, Exclusive
<1>6. ASSUME NEW x \in ih.pending
      PROVE  /\ isInterrupted(x)' /\ state'[x] = "WAITING"
             /\ \A u \in Threads : ~Holds(u, x)'
  <2>1. x \in Handles /\ x # h
    BY <1>6
  <2>2. isInterrupted(x) /\ state[x] = "WAITING" /\ \A u \in Threads : ~Holds(u, x)
    BY <1>6 DEF Exclusive
  <2> QED
    BY <1>1, <2>1, <2>2
<1> QED
  BY <1>2, <1>3, <1>5, <1>6 DEF Exclusive

\* Threads go on, or let go of what they hold; no handle changes.
LEMMA ExclusiveLess ==
    ASSUME Exclusive, ih.queue \in Seq(Handles), ih.pending \subseteq Handles,
           ih'.queue = ih.queue, ih'.active = ih.active, ih'.pending = ih.pending,
           stat' = stat, state' = state,
           \A u \in Threads, x \in Handles : Holds(u, x)' => Holds(u, x)
    PROVE  Exclusive'
<1>1. \A x : (isActive(x)' <=> isActive(x)) /\ (isInterrupted(x)' <=> isInterrupted(x))
  BY DEF isActive, isInterrupted
<1>2. \A x \in Handles : \A u, v \in Threads : Holds(u, x)' /\ Holds(v, x)' => u = v
  BY DEF Exclusive
<1>3. \A x \in Handles : isActive(x)' => state'[x] = "WAITING" /\ \A u \in Threads : ~Holds(u, x)'
  BY <1>1 DEF Exclusive
<1>4. ASSUME NEW i \in DOMAIN ih.queue, NEW x, x = ih.queue[i]
      PROVE  /\ isInterrupted(x)' /\ state'[x] = "WAITING"
             /\ \A u \in Threads : ~Holds(u, x)'
  <2>1. x \in Handles
    BY <1>4
  <2>2. isInterrupted(x) /\ state[x] = "WAITING" /\ \A u \in Threads : ~Holds(u, x)
    BY <1>4 DEF Exclusive
  <2> QED
    BY <1>1, <2>1, <2>2
<1>5. \A i \in DOMAIN ih'.queue :
          /\ isInterrupted(ih.queue[i])' /\ state'[ih'.queue[i]] = "WAITING"
          /\ \A u \in Threads : ~Holds(u, ih.queue[i])'
          /\ \A j \in DOMAIN ih'.queue : ih'.queue[i] = ih'.queue[j] => i = j
  BY <1>4 DEF isInterrupted, Holds, Exclusive
<1>6. ASSUME NEW x \in ih.pending
      PROVE  /\ isInterrupted(x)' /\ state'[x] = "WAITING"
             /\ \A u \in Threads : ~Holds(u, x)'
  <2>1. x \in Handles
    BY <1>6
  <2>2. isInterrupted(x) /\ state[x] = "WAITING" /\ \A u \in Threads : ~Holds(u, x)
    BY <1>6 DEF Exclusive
  <2> QED
    BY <1>1, <2>1, <2>2
<1> QED
  BY <1>2, <1>3, <1>5, <1>6 DEF Exclusive

\* What is left to show of a step of thread t with handle h.
LEMMA HandleStepKeeps ==
    ASSUME IInv, NEW t \in Threads, NEW h \in Handles,
           \A u \in Threads : u # t => /\ pc'[u] = pc[u] /\ at'[u] = at[u] /\ last'[u] = last[u]
                                       /\ ~Holds(u, h) /\ (Kept(u, h) => Kept(u, h)'),
           \A x \in Handles : x # h => /\ stat'[x] = stat[x] /\ state'[x] = state[x]
                                       /\ object'[x] = object[x] /\ users'[x] = users[x]
                                       /\ (epoll'[x].on => epoll[x].on),
           TokenTypes', Exclusive', ThreadOK(t)', HandleOK(h)', Data'
    PROVE  IInv'
<1>1. TokenTypes /\ Tokens
  BY Typed
<1>2. /\ \A u \in Threads : u # t => ThreadOK(u)'
      /\ \A x \in Handles : x # h => HandleOK(x)'
  BY <1>1, OthersKeep
<1>3. Tokens'
  BY <1>2 DEF Tokens
<1> QED
  BY <1>3, Collect

\* processEvent: the handle was waiting, and its thread calls it back.
LEMMA ProcessEventKeeps ==
    ASSUME IInv, NEW t \in Threads, ProcessEvent(t)
    PROVE  IInv'
<1> PICK h : h = at[t]
  OBVIOUS
<1>0. PICK w : w = CASE ev[t] \in {READABLE, READ_WRITABLE} -> "readable"
                   [] ev[t] = WRITABLE -> "writeable"
                   [] ev[t] = DISCONNECTED -> "disconnected"
                   [] OTHER -> "calls"
  OBVIOUS
<1>1. TokenTypes /\ Tokens /\ Data /\ DataTypes /\ ThreadOK(t) /\ Exclusive
  BY Typed DEF Tokens
<1>2. /\ pc[t] = "event" /\ state[h] = "WAITING" /\ state' = [state EXCEPT ![h] = "CALLING"]
      /\ callbacks' = [callbacks EXCEPT ![h] = interrupted[h]]
      /\ interrupted' = [interrupted EXCEPT ![h] = callbacks[h]]
      /\ pc' = [pc EXCEPT ![t] = w]
      /\ UNCHANGED <<stat, events, epoll, sock, ih, at, ev, last, object, users, ioVars, outside>>
  BY <1>0 DEF ProcessEvent, Go
<1>3. h \in Handles /\ Holds(t, h) /\ object[h] = "live" /\ HandleOK(h)
  BY <1>1, <1>2 DEF ThreadOK, Holds, Working, Tokens
<1>4. w \in {"readable", "writeable", "disconnected", "calls"}
  BY <1>0
<1>5. /\ w \in Callbacks /\ w \in Places /\ w # "idle" /\ w # "top"
      /\ w \in Calling \cup {"calls"}
  BY <1>4 DEF Callbacks, Calling, Places
<1>6. /\ state' \in [Handles -> {"IDLE", "STOPPING", "WAITING", "CALLING", "DELETING"}]
      /\ state'[h] = "CALLING" /\ \A x \in Handles : x # h => state'[x] = state[x]
      /\ pc' \in [Threads -> Places] /\ pc'[t] = w /\ \A u \in Threads : u # t => pc'[u] = pc[u]
  BY <1>1, <1>2, <1>3, <1>5 DEF TokenTypes
<1>7. \A u \in Threads : u # t => ~Holds(u, h)
  BY <1>1, <1>3, HoldsAlone
<1>8. TokenTypes'
  BY <1>1, <1>2, <1>6 DEF TokenTypes
<1>9. Exclusive'
  <2>1. \A u \in Threads, x \in Handles : Holds(u, x)' => Holds(u, x)
    BY <1>2, <1>6, <1>5 DEF Holds, Working
  <2>2. ~isActive(h) /\ ~isActive(h)' /\ (\A i \in DOMAIN ih.queue : ih.queue[i] # h) /\ h \notin ih.pending
    BY <1>1, <1>2, <1>3, HoldsAlone DEF isActive
  <2>3. ih' = ih /\ ih.queue \in Seq(Handles) /\ ih.pending \subseteq Handles
    BY <1>1, <1>2 DEF TokenTypes
  <2>4. \A x \in Handles : x # h => stat'[x] = stat[x] /\ state'[x] = state[x]
    BY <1>2, <1>6
  <2> QED
    BY <1>1, <1>3, <1>7, <2>1, <2>2, <2>3, <2>4, ExclusiveMove
<1>10. ThreadOK(t)'
  BY <1>1, <1>2, <1>3, <1>5, <1>6 DEF ThreadOK, Working, Callbacks, Calling, Kept
<1>11. HandleOK(h)'
  BY <1>2, <1>3, <1>6 DEF HandleOK
<1>12. Data'
  <2>1. /\ interrupted \in [Handles -> 0..1] /\ callbacks \in [Handles -> 0..1]
    BY <1>1 DEF DataTypes
  <2>2. /\ interrupted' \in [Handles -> 0..1] /\ callbacks' \in [Handles -> 0..1]
        /\ \A x \in Handles : /\ x # h => interrupted'[x] = interrupted[x] /\ callbacks'[x] = callbacks[x]
        /\ interrupted'[h] = callbacks[h] /\ callbacks'[h] = interrupted[h]
    BY <1>2, <1>3, <2>1
  <2>3. DataTypes'
    BY <1>1, <1>2, <2>2 DEF DataTypes, ioVars, outside
  <2>4. \A x \in Handles : /\ interrupted'[x] + callbacks'[x] <= 1
                           /\ timer[x] = "armed" => interrupted'[x] = 0 /\ callbacks'[x] = 0
    BY <1>1, <1>3, <2>1, <2>2 DEF Data, BuffersOK
  <2>5. BuffersOK'
    BY <1>1, <1>2, <1>5, <1>6, <2>4 DEF Data, BuffersOK, ioVars, outside
  <2> QED
    BY <2>3, <2>5 DEF Data
<1>13. \A u \in Threads : Kept(u, h) => Kept(u, h)'
  BY <1>2 DEF Kept
<1> QED
  BY <1>2, <1>3, <1>6, <1>7, <1>8, <1>9, <1>10, <1>11, <1>12, <1>13, HandleStepKeeps

\* One of the callbacks that call() queued.
LEMMA RunCallbackKeeps ==
    ASSUME IInv, NEW t \in Threads, RunCallback(t)
    PROVE  IInv'
<1> PICK h : h = at[t]
  OBVIOUS
<1>1. TokenTypes /\ DataTypes /\ Data /\ h \in Handles
  BY Typed, Serves DEF RunCallback, InCallback, Callbacks
<1>2. /\ UNCHANGED <<sock, at, ev, last, object, users, interrupted, writer, timer, budget>>
      /\ UNCHANGED <<state, pc, free, left, writePending, output, closed>>
      /\ callbacks[h] > 0 /\ callbacks' = [callbacks EXCEPT ![h] = @ - 1]
      /\ readError' = [readError EXCEPT ![h] = TRUE]
      /\ queuedClose' = [queuedClose EXCEPT ![h] = TRUE]
      /\ rewatch(h, {"out"})
  BY DEF RunCallback, InCallback
<1>3. Watched
  <2>1. {"out"} \in SUBSET Dirs
    BY DEF Dirs
  <2> QED
    BY <1>1, <1>2, <2>1, Watches
<1>4. callbacks' \in [Handles -> 0..1] /\ \A x \in Handles : callbacks'[x] <= callbacks[x]
  <2>1. callbacks \in [Handles -> 0..1]
    BY <1>1 DEF DataTypes
  <2> QED
    BY <1>1, <1>2, <2>1
<1>5. Data'
  <2>1. DataTypes'
    BY <1>1, <1>2, <1>4 DEF DataTypes
  <2>2. \A x \in Handles : /\ interrupted[x] + callbacks'[x] <= 1
                           /\ timer[x] = "armed" => interrupted[x] = 0 /\ callbacks'[x] = 0
    <3>1. interrupted \in [Handles -> 0..1] /\ callbacks \in [Handles -> 0..1]
      BY <1>1 DEF DataTypes
    <3> QED
      BY <1>1, <1>4, <3>1 DEF Data, BuffersOK
  <2>3. BuffersOK'
    BY <1>1, <1>2, <2>2 DEF Data, BuffersOK
  <2> QED
    BY <2>1, <2>3 DEF Data
<1>6. sock' \in [Handles -> {"quiet", "data", "eof", "reset"}]
  BY <1>1, <1>2 DEF TokenTypes
<1> QED
  BY <1>2, <1>3, <1>5, <1>6, OutsideKeeps

\* stopWatch and the mark for deletion, in the callback that closes.
LEMMA CloseKeeps ==
    ASSUME IInv, NEW t \in Threads, StopWatch(t) \/ DoDelete(t)
    PROVE  IInv'
<1> PICK h : h = at[t]
  OBVIOUS
<1>1. TokenTypes /\ Tokens /\ ThreadOK(t) /\ Exclusive
  BY Typed DEF Tokens
<1>2. /\ UNCHANGED <<sock, at, ev, last, object, users, interrupted, writer, timer, budget>>
      /\ UNCHANGED <<callbacks, ioVars, events, ih>>
      /\ pc[t] \in Callbacks /\ pc[t] # "idle"
  BY DEF StopWatch, DoDelete, InCallback, Callbacks, unregisterHandle
<1>3. h \in Handles /\ Holds(t, h) /\ object[h] = "live" /\ HandleOK(h)
  BY <1>1, <1>2 DEF ThreadOK, Holds, Working, Tokens
<1>4. PICK w \in {"deleting", "closed"}, s \in {"STOPPING", "DELETING"} :
          /\ pc' = [pc EXCEPT ![t] = w] /\ state' = [state EXCEPT ![h] = s]
          /\ w = "deleting" <=> s = "STOPPING"
  BY DEF StopWatch, DoDelete, Go
<1>5. /\ state' \in [Handles -> {"IDLE", "STOPPING", "WAITING", "CALLING", "DELETING"}]
      /\ state'[h] = s /\ \A x \in Handles : x # h => state'[x] = state[x]
      /\ pc' \in [Threads -> Places] /\ pc'[t] = w /\ \A u \in Threads : u # t => pc'[u] = pc[u]
  <2>1. w \in Places
    BY DEF Places, Callbacks
  <2> QED
    BY <1>1, <1>3, <1>4, <2>1 DEF TokenTypes
<1>6. /\ stat' \in [Handles -> Stats] /\ stat'[h] = "ABSENT" /\ ~epoll'[h].on
      /\ \A x \in Handles : x # h => stat'[x] = stat[x] /\ epoll'[x] = epoll[x]
      /\ epoll' \in [Handles -> [on : BOOLEAN, dirs : SUBSET Dirs, oneshot : BOOLEAN]]
  <2>1. CASE StopWatch(t)
    <3>1. epoll' = [epoll EXCEPT ![h] = Off] /\ stat' = [stat EXCEPT ![h] = "ABSENT"]
      BY <2>1 DEF StopWatch, unregisterHandle
    <3>2. Off \in [on : BOOLEAN, dirs : SUBSET Dirs, oneshot : BOOLEAN] /\ ~Off.on
      BY DEF Off
    <3> QED
      BY <1>1, <1>3, <3>1, <3>2 DEF TokenTypes, Stats
  <2>2. CASE DoDelete(t)
    <3>1. stat' = stat /\ epoll' = epoll /\ state[h] = "STOPPING"
      BY <1>1, <2>2 DEF DoDelete, InCallback, ThreadOK
    <3> QED
      BY <1>1, <1>3, <3>1 DEF TokenTypes, HandleOK, Gone
  <2> QED
    BY <2>1, <2>2
<1>7. \A u \in Threads : u # t => ~Holds(u, h)
  BY <1>1, <1>3, HoldsAlone
<1>8. TokenTypes'
  BY <1>1, <1>2, <1>5, <1>6 DEF TokenTypes
<1>9. Exclusive'
  <2>1. \A u \in Threads, x \in Handles : Holds(u, x)' => Holds(u, x)
    BY <1>2, <1>5 DEF Holds, Working
  <2>2. ~isActive(h)' /\ (\A i \in DOMAIN ih.queue : ih.queue[i] # h) /\ h \notin ih.pending
    BY <1>1, <1>3, <1>6, HoldsAlone DEF isActive
  <2>3. ih' = ih /\ ih.queue \in Seq(Handles) /\ ih.pending \subseteq Handles
    BY <1>1, <1>2, <1>3 DEF TokenTypes
  <2>4. \A x \in Handles : x # h => stat'[x] = stat[x] /\ state'[x] = state[x]
    BY <1>1, <1>2, <1>3, <1>5, <1>6 DEF TokenTypes
  <2> QED
    BY <1>1, <1>3, <1>7, <2>1, <2>2, <2>3, <2>4, ExclusiveMove
<1>10. ThreadOK(t)'
  BY <1>1, <1>2, <1>3, <1>4, <1>5 DEF ThreadOK, Working, Callbacks, Calling, Kept
<1>11. HandleOK(h)'
  BY <1>2, <1>3, <1>5, <1>6 DEF HandleOK, Gone
<1>12. Data'
  BY <1>2, <1>5, SameData DEF outside
<1>13. \A u \in Threads : Kept(u, h) => Kept(u, h)'
  BY <1>2 DEF Kept
<1> QED
  BY <1>2, <1>3, <1>5, <1>6, <1>7, <1>8, <1>9, <1>10, <1>11, <1>12, <1>13, HandleStepKeeps

\* The end of processEvent: the thread goes back to Poller::wait, and the
\* handle waits again or is destroyed.
LEMMA FinishKeeps ==
    ASSUME IInv, NEW t \in Threads, Finish(t)
    PROVE  IInv'
<1> PICK h : h = at[t]
  OBVIOUS
<1>1. TokenTypes /\ Tokens /\ ThreadOK(t) /\ Exclusive
  BY Typed DEF Tokens
<1>2. /\ UNCHANGED <<interrupted, callbacks, events, epoll, sock, ih, ev, last, ioVars, outside>>
      /\ pc[t] = "calls" /\ pc' = [pc EXCEPT ![t] = "top"] /\ at' = [at EXCEPT ![t] = None]
  BY DEF Finish, Leave, Go
<1>3. /\ h \in Handles /\ Holds(t, h) /\ object[h] = "live" /\ HandleOK(h)
      /\ state[h] \in {"CALLING", "DELETING"}
  BY <1>1, <1>2 DEF ThreadOK, Holds, Working, Tokens, Callbacks
<1>4. /\ pc' \in [Threads -> Places] /\ pc'[t] = "top" /\ at'[t] = None
      /\ at' \in [Threads -> Handles \cup {None}]
      /\ \A u \in Threads : u # t => pc'[u] = pc[u] /\ at'[u] = at[u]
  BY <1>1, <1>2 DEF TokenTypes, Places
<1>5. \A u \in Threads : u # t => ~Holds(u, h)
  BY <1>1, <1>3, HoldsAlone
<1>6. last[t] # None => last[t] = h
  BY <1>1, <1>2 DEF ThreadOK
<1>7. /\ stat' \in [Handles -> Stats] /\ object' \in [Handles -> {"live", "deleted"}]
      /\ users' \in [Handles -> SUBSET Threads]
      /\ state' \in [Handles -> {"IDLE", "STOPPING", "WAITING", "CALLING", "DELETING"}]
      /\ \A x \in Handles : x # h => /\ stat'[x] = stat[x] /\ state'[x] = state[x]
                                     /\ object'[x] = object[x] /\ users'[x] = users[x]
      /\ \/ /\ state[h] = "CALLING" /\ state'[h] = "WAITING"
            /\ stat'[h] = stat[h] /\ object'[h] = "live" /\ users'[h] = users[h]
         \/ /\ state[h] = "DELETING" /\ state'[h] = "DELETING"
            /\ stat'[h] = "DELETED" /\ object'[h] = "deleted" /\ users'[h] = Threads
  <2>1. CASE state[h] = "CALLING"
    <3>1. state' = [state EXCEPT ![h] = "WAITING"] /\ stat' = stat /\ object' = object /\ users' = users
      BY <2>1 DEF Finish
    <3> QED
      BY <1>1, <1>3, <2>1, <3>1 DEF TokenTypes
  <2>2. CASE state[h] = "DELETING"
    <3>1. /\ state' = [state EXCEPT ![h] = "DELETING"]
          /\ object' = [object EXCEPT ![h] = "deleted"]
          /\ stat' = [stat EXCEPT ![h] = "DELETED"]
          /\ users' = [users EXCEPT ![h] = Threads]
      BY <2>2 DEF Finish, Destroy
    <3> QED
      BY <1>1, <1>3, <2>2, <3>1 DEF TokenTypes, Stats
  <2> QED
    BY <1>3, <2>1, <2>2
<1>8. TokenTypes'
  BY <1>1, <1>2, <1>4, <1>7 DEF TokenTypes
<1>9. Exclusive'
  <2>1. \A u \in Threads, x \in Handles : Holds(u, x)' => Holds(u, x) \/ (u = t /\ x = h)
    BY <1>2, <1>4, <1>6, NoneAssumption DEF Holds, Working, Callbacks
  <2>2. ~isActive(h) /\ ~isActive(h)' /\ (\A i \in DOMAIN ih.queue : ih.queue[i] # h) /\ h \notin ih.pending
    BY <1>1, <1>3, <1>7, HoldsAlone DEF isActive
  <2>3. \A u \in Threads, x \in Handles : (u # t \/ x # h) /\ Holds(u, x)' => Holds(u, x)
    BY <2>1
  <2>4. ih.queue \in Seq(Handles) /\ ih.pending \subseteq Handles /\ ih' = ih
    BY <1>1, <1>2 DEF TokenTypes
  <2>5. \A x \in Handles : x # h => stat'[x] = stat[x] /\ state'[x] = state[x]
    BY <1>7
  <2> QED
    BY <1>1, <1>3, <1>5, <2>2, <2>3, <2>4, <2>5, ExclusiveMove
<1>10. ThreadOK(t)'
  BY <1>2, <1>4, <1>6, <1>7 DEF ThreadOK, Working, Callbacks, Calling, Kept
<1>11. HandleOK(h)'
  BY <1>2, <1>3, <1>7 DEF HandleOK, Gone
<1>12. Data'
  BY <1>2, <1>4, SameData
<1>13. \A u \in Threads : Kept(u, h) => Kept(u, h)'
  BY <1>7 DEF Kept
<1> QED
  BY <1>2, <1>3, <1>4, <1>5, <1>7, <1>8, <1>9, <1>10, <1>11, <1>12, <1>13, HandleStepKeeps

----------------------------------------------------------------------------
(* Poller::wait                                                            *)

\* What is left to show of a step of thread t that changes no handle.
LEMMA ThreadStepKeeps ==
    ASSUME IInv, NEW t \in Threads, stat' = stat, state' = state, object' = object,
           \A u \in Threads : u # t =>
               /\ pc'[u] = pc[u] /\ at'[u] = at[u] /\ last'[u] = last[u]
               /\ \A x \in Handles : u \in users[x] => u \in users'[x],
           \A x \in Handles : epoll'[x].on => epoll[x].on,
           TokenTypes', Exclusive', ThreadOK(t)', Data'
    PROVE  IInv'
<1>1. TokenTypes /\ Tokens
  BY Typed
<1>2. ASSUME NEW u \in Threads, u # t PROVE ThreadOK(u)'
  <2>1. ThreadOK(u) /\ pc'[u] = pc[u] /\ at'[u] = at[u] /\ last'[u] = last[u]
    BY <1>1, <1>2 DEF Tokens
  <2>2. \A x \in Handles : Kept(u, x) => Kept(u, x)'
    BY <1>2 DEF Kept
  <2>3. last[u] # None => last[u] \in Handles
    BY <1>1 DEF TokenTypes
  <2>4. /\ pc[u] = "returned" => Kept(u, at[u])'
        /\ last[u] # None => Kept(u, last[u])'
    BY <2>1, <2>2, <2>3 DEF ThreadOK, Kept
  <2> QED
    BY <2>1, <2>4 DEF ThreadOK, Kept, isInterrupted
<1>3. ASSUME NEW x \in Handles PROVE HandleOK(x)'
  BY <1>1 DEF Tokens, HandleOK
<1>4. Tokens'
  BY <1>2, <1>3 DEF Tokens
<1> QED
  BY <1>4, Collect

\* A thread that is not serving a handle owns nothing of what it served last.
LEMMA NothingLast ==
    ASSUME IInv, NEW t \in Threads, pc[t] \notin Callbacks \cup {"event", "top"}
    PROVE  last[t] = None
BY DEF IInv, Tokens, ThreadOK

\* A step of Poller::wait that only goes on.
LEMMA GoOnKeeps ==
    ASSUME IInv, NEW t \in Threads,
           MarkAllUnused(t) \/ EpollInterrupts(t) \/ (\E h \in Handles : EpollReturns(t, h)),
           UNCHANGED <<handleVars, ioVars, outside>>
    PROVE  IInv'
<1>1. TokenTypes /\ Tokens /\ Exclusive /\ last[t] = None
  BY Typed, NothingLast DEF Tokens, MarkAllUnused, EpollInterrupts, EpollReturns, Callbacks
<1>2. PICK w \in {"blocked", "interrupted", "returned"} :
          pc' = [pc EXCEPT ![t] = w] /\ pc[t] \in {"loop", "blocked"}
  BY DEF MarkAllUnused, EpollInterrupts, EpollReturns
<1>3. /\ UNCHANGED <<stat, events, sock, last, object, state, interrupted, callbacks, ioVars, outside>>
      /\ ih'.queue = ih.queue /\ ih'.active = ih.active /\ ih'.pending = ih.pending
      /\ ih' \in [queue : Seq(Handles), pending : SUBSET Handles, active : BOOLEAN, armed : BOOLEAN]
  BY <1>1 DEF MarkAllUnused, EpollInterrupts, EpollReturns, handleVars, TokenTypes
<1>4. /\ pc' \in [Threads -> Places] /\ pc'[t] = w /\ \A u \in Threads : u # t => pc'[u] = pc[u]
  BY <1>1, <1>2 DEF TokenTypes, Places
<1> DEFINE Step ==
               /\ at' \in [Threads -> Handles \cup {None}] /\ ev' \in [Threads -> Events]
               /\ \A u \in Threads : u # t => at'[u] = at[u]
               /\ epoll' \in [Handles -> [on : BOOLEAN, dirs : SUBSET Dirs, oneshot : BOOLEAN]]
               /\ \A x \in Handles : epoll'[x].on => epoll[x].on
<1>5. Step
  <2>1. CASE UNCHANGED <<at, ev, epoll>>
    BY <1>1, <2>1 DEF TokenTypes
  <2>2. ASSUME NEW h \in Handles, EpollReturns(t, h) PROVE Step
    <3>1. Ready(h) \in Events
      BY <1>1 DEF TokenTypes, Ready, Events
    <3>2. Off \in [on : BOOLEAN, dirs : SUBSET Dirs, oneshot : BOOLEAN] /\ ~Off.on
      BY DEF Off
    <3>3. at' = [at EXCEPT ![t] = h] /\ ev' = [ev EXCEPT ![t] = Ready(h)]
      BY <2>2 DEF EpollReturns
    <3>4. /\ at' \in [Threads -> Handles \cup {None}] /\ ev' \in [Threads -> Events]
          /\ \A u \in Threads : u # t => at'[u] = at[u]
      BY <1>1, <3>1, <3>3 DEF TokenTypes
    <3>5. epoll \in [Handles -> [on : BOOLEAN, dirs : SUBSET Dirs, oneshot : BOOLEAN]]
      BY <1>1 DEF TokenTypes
    <3>6. CASE epoll' = epoll
      BY <3>4, <3>5, <3>6
    <3>7. CASE epoll' = [epoll EXCEPT ![h] = Off]
      <4>1. epoll' \in [Handles -> [on : BOOLEAN, dirs : SUBSET Dirs, oneshot : BOOLEAN]]
        BY <3>2, <3>5, <3>7
      <4>2. epoll'[h] = Off /\ \A x \in Handles : x # h => epoll'[x] = epoll[x]
        BY <3>5, <3>7
      <4> QED
        BY <3>2, <3>4, <4>1, <4>2
    <3> QED
      BY <2>2, <3>6, <3>7 DEF EpollReturns
  <2> QED
    BY <2>1, <2>2 DEF MarkAllUnused, EpollInterrupts
<1>6. /\ users' \in [Handles -> SUBSET Threads]
      /\ \A u \in Threads : u # t => \A x \in Handles : u \in users[x] => u \in users'[x]
  <2>1. users' = users \/ users' = [x \in Handles |-> users[x] \ {t}]
    BY DEF MarkAllUnused, EpollInterrupts, EpollReturns
  <2> QED
    BY <1>1, <2>1 DEF TokenTypes
<1>7. TokenTypes'
  BY <1>1, <1>3, <1>4, <1>5, <1>6 DEF TokenTypes
<1>8. Exclusive'
  <2>1. \A u \in Threads, x \in Handles : Holds(u, x)' => Holds(u, x)
    BY <1>2, <1>3, <1>4, <1>5 DEF Holds, Working, Callbacks
  <2> QED
    BY <1>1, <1>3, <2>1, ExclusiveLess DEF TokenTypes
<1>9. ThreadOK(t)'
  <2>1. w = "returned" => at'[t] \in Handles /\ object'[at'[t]] = "live"
    <3> HAVE w = "returned"
    <3>1. PICK h \in Handles : EpollReturns(t, h)
      BY <1>2, <1>4 DEF MarkAllUnused, EpollInterrupts, TokenTypes, Places
    <3>2. at'[t] = h /\ epoll[h].on
      BY <1>1, <3>1 DEF EpollReturns, Ready, TokenTypes
    <3>3. object[h] = "live"
      BY <1>1, <3>2 DEF Tokens, HandleOK, Gone, TokenTypes
    <3> QED
      BY <1>3, <3>2, <3>3
  <2> QED
    BY <1>1, <1>3, <1>4, <2>1 DEF ThreadOK, Working, Callbacks, Calling, Kept
<1>10. Data'
  BY <1>3, <1>4, <1>5, SameData
<1> QED
  BY <1>3, <1>4, <1>5, <1>6, <1>7, <1>8, <1>9, <1>10, ThreadStepKeeps

\* The interrupt of a handle that its thread has done with enters the queue.
LEMMA RequeueKeeps ==
    ASSUME IInv, NEW t \in Threads, Requeue(t), UNCHANGED <<handleVars, ioVars, outside>>
    PROVE  IInv'
<1> PICK h : h = at[t]
  OBVIOUS
<1>1. TokenTypes /\ Tokens /\ Exclusive /\ ThreadOK(t) /\ last[t] = None
  BY Typed, NothingLast DEF Tokens, Requeue, Callbacks
<1>2. /\ pc[t] = "requeue" /\ pc' = [pc EXCEPT ![t] = "loop"] /\ at' = [at EXCEPT ![t] = None]
      /\ ih' = Arm(h)
      /\ UNCHANGED <<stat, events, epoll, sock, ev, last, object, users, state>>
      /\ UNCHANGED <<interrupted, callbacks, ioVars, outside>>
  BY DEF Requeue, handleVars
<1>3. h \in Handles /\ Holds(t, h) /\ isInterrupted(h) /\ state[h] = "WAITING"
  BY <1>1, <1>2 DEF ThreadOK, Holds, Working
<1>4. /\ pc' \in [Threads -> Places] /\ pc'[t] = "loop" /\ at'[t] = None
      /\ at' \in [Threads -> Handles \cup {None}]
      /\ \A u \in Threads : u # t => pc'[u] = pc[u] /\ at'[u] = at[u]
  BY <1>1, <1>2 DEF TokenTypes, Places
<1>5. Exclusive' /\ ih' \in [queue : Seq(Handles), pending : SUBSET Handles, active : BOOLEAN, armed : BOOLEAN]
  <2>2. \A u \in Threads, x \in Handles : Holds(u, x)' => Holds(u, x)
    BY <1>2, <1>4, NoneAssumption DEF Holds, Working, Callbacks
  <2>3. \A u \in Threads : ~Holds(u, h)'
    <3>1. ~Holds(t, h)'
      BY <1>2, <1>4 DEF Holds, Working, Callbacks
    <3>2. \A u \in Threads : u # t => ~Holds(u, h)
      BY <1>1, <1>3, HoldsAlone
    <3> QED
      BY <2>2, <3>1, <3>2, <1>3
  <2>4. ih.queue \in Seq(Handles) /\ ih.pending \subseteq Handles /\ \A i \in DOMAIN ih.queue : ih.queue[i] # h
    BY <1>1, <1>3, HoldsAlone DEF TokenTypes
  <2>5. \A x \in Handles : isActive(x)' => isActive(x) /\ x # h
    BY <1>2, <1>3 DEF isActive, isInterrupted
  <2>6. isInterrupted(h)' /\ \A x \in Handles : isInterrupted(x) => isInterrupted(x)'
    BY <1>2, <1>3 DEF isInterrupted
  <2> QED
    BY <1>1, <1>2, <1>3, <2>2, <2>3, <2>4, <2>5, <2>6, ArmExclusive
<1>6. TokenTypes'
  BY <1>1, <1>2, <1>4, <1>5 DEF TokenTypes
<1>7. ThreadOK(t)'
  BY <1>1, <1>2, <1>4 DEF ThreadOK, Working, Callbacks, Calling
<1>8. Data'
  BY <1>2, <1>4, SameData
<1> QED
  BY <1>2, <1>4, <1>5, <1>6, <1>7, <1>8, ThreadStepKeeps

\* What a thread returned last is active again, or has an interrupt to queue.
LEMMA ResetModeKeeps ==
    ASSUME IInv, NEW t \in Threads, ResetMode(t), UNCHANGED <<handleVars, ioVars, outside>>
    PROVE  IInv'
<1>0. PICK h : h = last[t]
  OBVIOUS
<1>1. TokenTypes /\ Tokens /\ Exclusive /\ ThreadOK(t)
  BY Typed DEF Tokens
<1>2. /\ pc[t] = "top" /\ last' = [last EXCEPT ![t] = None]
      /\ UNCHANGED <<events, sock, ih, ev, object, users, state, interrupted, callbacks, ioVars, outside>>
  BY DEF ResetMode, handleVars
<1>3. last' \in [Threads -> Handles \cup {None}] /\ last'[t] = None
      /\ \A u \in Threads : u # t => last'[u] = last[u]
  BY <1>1, <1>2 DEF TokenTypes
<1>4. CASE UNCHANGED <<stat, epoll, at>> /\ pc' = [pc EXCEPT ![t] = "loop"]
  <2>1. /\ pc' \in [Threads -> Places] /\ pc'[t] = "loop" /\ \A u \in Threads : u # t => pc'[u] = pc[u]
    BY <1>1, <1>4 DEF TokenTypes, Places
  <2>2. TokenTypes'
    BY <1>1, <1>2, <1>3, <1>4, <2>1 DEF TokenTypes
  <2>3. Exclusive'
    <3>1. \A u \in Threads, x \in Handles : Holds(u, x)' => Holds(u, x)
      BY <1>3, <1>4, <2>1 DEF Holds, Working, Callbacks
    <3> QED
      BY <1>1, <1>2, <1>4, <3>1, ExclusiveLess DEF TokenTypes
  <2>4. ThreadOK(t)'
    BY <1>3, <2>1 DEF ThreadOK, Working, Callbacks, Calling
  <2>5. Data'
    BY <1>2, <1>4, <2>1, SameData
  <2> QED
    BY <1>2, <1>3, <1>4, <2>1, <2>2, <2>3, <2>4, <2>5, ThreadStepKeeps
<1>5. CASE /\ h \in Handles /\ stat[h] \notin Gone
           /\ stat' = [stat EXCEPT ![h] = Active(h)] /\ pc' = [pc EXCEPT ![t] = "loop"] /\ at' = at
           /\ epoll' = epoll \/ epoll' = [epoll EXCEPT ![h] = Entry(events[h], TRUE)]
  <2>1. Holds(t, h) /\ HandleOK(h) /\ object[h] = "live" /\ state[h] = "WAITING"
    <3>1. HandleOK(h) /\ object[h] \in {"live", "deleted"} /\ h # None
      BY <1>1, <1>5, NoneAssumption DEF Tokens, TokenTypes
    <3>2. object[h] = "live"
      BY <1>5, <3>1 DEF HandleOK, Gone
    <3> QED
      BY <1>0, <1>1, <1>2, <3>1, <3>2 DEF Holds, ThreadOK, Callbacks
  <2>2. /\ pc' \in [Threads -> Places] /\ pc'[t] = "loop" /\ \A u \in Threads : u # t => pc'[u] = pc[u]
    BY <1>1, <1>5 DEF TokenTypes, Places
  <2>3. /\ stat' \in [Handles -> Stats] /\ stat'[h] \in {"MONITORED", "MONITORED_HUNGUP"}
        /\ \A x \in Handles : x # h => stat'[x] = stat[x]
    BY <1>1, <1>5 DEF TokenTypes, Stats, Active
  <2>4. /\ epoll' \in [Handles -> [on : BOOLEAN, dirs : SUBSET Dirs, oneshot : BOOLEAN]]
        /\ \A x \in Handles : x # h => epoll'[x] = epoll[x]
    <3>1. Entry(events[h], TRUE) \in [on : BOOLEAN, dirs : SUBSET Dirs, oneshot : BOOLEAN]
      BY <1>1, <1>5 DEF Entry, TokenTypes
    <3>2. epoll \in [Handles -> [on : BOOLEAN, dirs : SUBSET Dirs, oneshot : BOOLEAN]]
      BY <1>1 DEF TokenTypes
    <3>3. CASE epoll' = epoll
      BY <3>2, <3>3
    <3>4. CASE epoll' = [epoll EXCEPT ![h] = Entry(events[h], TRUE)]
      BY <1>5, <3>1, <3>2, <3>4
    <3> QED
      BY <1>5, <3>3, <3>4
  <2>5. TokenTypes'
    BY <1>1, <1>2, <1>3, <1>5, <2>2, <2>3, <2>4 DEF TokenTypes
  <2>6. \A u \in Threads : u # t => ~Holds(u, h)
    BY <1>1, <1>5, <2>1, HoldsAlone
  <2>7. Exclusive'
    <3>1. \A u \in Threads, x \in Handles : Holds(u, x)' => Holds(u, x)
      BY <1>3, <1>5, <2>2 DEF Holds, Working, Callbacks
    <3>2. ~Holds(t, h)'
      BY <1>3, <2>2 DEF Holds, Working, Callbacks
    <3>3. /\ ih' = ih /\ ih.queue \in Seq(Handles) /\ ih.pending \subseteq Handles
          /\ (\A i \in DOMAIN ih.queue : ih.queue[i] # h) /\ h \notin ih.pending
      BY <1>1, <1>2, <1>5, <2>1, HoldsAlone DEF TokenTypes
    <3>4. \A x \in Handles : x # h => stat'[x] = stat[x] /\ state'[x] = state[x]
      BY <1>2, <2>3
    <3> QED
      BY <1>1, <1>2, <1>5, <2>1, <2>6, <3>1, <3>2, <3>3, <3>4, ExclusiveMove
  <2>8. ThreadOK(t)'
    BY <1>3, <2>2 DEF ThreadOK, Working, Callbacks, Calling
  <2>9. HandleOK(h)'
    BY <1>2, <2>1, <2>3 DEF HandleOK, Gone
  <2>10. Data'
    BY <1>2, <1>5, <2>2, SameData
  <2>11. \A u \in Threads : Kept(u, h) => Kept(u, h)'
    BY <1>2 DEF Kept
  <2> QED
    BY <1>2, <1>3, <1>5, <2>2, <2>3, <2>4, <2>5, <2>6, <2>7, <2>8, <2>9, <2>10, <2>11, HandleStepKeeps
<1>6. CASE /\ h \in Handles /\ stat[h] \notin Gone /\ isInterrupted(h)
           /\ pc' = [pc EXCEPT ![t] = "requeue"] /\ at' = [at EXCEPT ![t] = h]
           /\ UNCHANGED <<stat, epoll>>
  <2>1. Holds(t, h) /\ object[h] = "live" /\ state[h] = "WAITING"
    <3>1. HandleOK(h) /\ object[h] \in {"live", "deleted"} /\ h # None
      BY <1>1, <1>6, NoneAssumption DEF Tokens, TokenTypes
    <3>2. object[h] = "live"
      BY <1>6, <3>1 DEF HandleOK, Gone
    <3> QED
      BY <1>0, <1>1, <1>2, <3>1, <3>2 DEF Holds, ThreadOK, Callbacks
  <2>2. /\ pc' \in [Threads -> Places] /\ pc'[t] = "requeue" /\ at'[t] = h
        /\ at' \in [Threads -> Handles \cup {None}]
        /\ \A u \in Threads : u # t => pc'[u] = pc[u] /\ at'[u] = at[u]
    BY <1>1, <1>6 DEF TokenTypes, Places
  <2>3. TokenTypes'
    BY <1>1, <1>2, <1>3, <1>6, <2>2 DEF TokenTypes
  <2>4. Exclusive'
    <3>1. \A u \in Threads, x \in Handles : Holds(u, x)' => Holds(u, x)
      BY <1>3, <2>1, <2>2 DEF Holds, Working, Callbacks
    <3> QED
      BY <1>1, <1>2, <1>6, <3>1, ExclusiveLess DEF TokenTypes
  <2>5. ThreadOK(t)'
    BY <1>2, <1>3, <1>6, <2>1, <2>2 DEF ThreadOK, Working, Callbacks, Calling, isInterrupted
  <2>6. Data'
    BY <1>2, <2>2, SameData
  <2> QED
    BY <1>2, <1>3, <1>6, <2>2, <2>3, <2>4, <2>5, <2>6, ThreadStepKeeps
<1> QED
  BY <1>0, <1>4, <1>5, <1>6 DEF ResetMode, Gone

\* An event of the kernel is given out if the handle is active: then it is no
\* longer, and the thread has it.
LEMMA ReturnedKeeps ==
    ASSUME IInv, NEW t \in Threads, Returned(t), UNCHANGED <<handleVars, ioVars, outside>>
    PROVE  IInv'
<1>0. PICK h : h = at[t]
  OBVIOUS
<1>1. TokenTypes /\ Tokens /\ Exclusive /\ ThreadOK(t) /\ last[t] = None
  BY Typed, NothingLast DEF Tokens, Returned, Callbacks
<1>2. /\ pc[t] = "returned" /\ h \in Handles
      /\ UNCHANGED <<events, epoll, sock, ih, object, users, state, interrupted, callbacks, ioVars, outside>>
  BY <1>0, <1>1 DEF Returned, handleVars, ThreadOK
<1>3. CASE /\ pc' = [pc EXCEPT ![t] = "loop"] /\ at' = [at EXCEPT ![t] = None]
           /\ ev' = [ev EXCEPT ![t] = INTERRUPTED] /\ UNCHANGED <<stat, last>>
  <2>1. /\ pc' \in [Threads -> Places] /\ pc'[t] = "loop" /\ at'[t] = None
        /\ at' \in [Threads -> Handles \cup {None}] /\ ev' \in [Threads -> Events]
        /\ \A u \in Threads : u # t => pc'[u] = pc[u] /\ at'[u] = at[u]
    <3>1. INTERRUPTED \in Events
      BY DEF INTERRUPTED, Events
    <3> QED
      BY <1>1, <1>3, <3>1 DEF TokenTypes, Places
  <2>2. TokenTypes'
    BY <1>1, <1>2, <1>3, <2>1 DEF TokenTypes
  <2>3. Exclusive'
    <3>1. \A u \in Threads, x \in Handles : Holds(u, x)' => Holds(u, x)
      BY <1>3, <2>1 DEF Holds, Working, Callbacks
    <3> QED
      BY <1>1, <1>2, <1>3, <3>1, ExclusiveLess DEF TokenTypes
  <2>4. ThreadOK(t)'
    BY <1>1, <1>3, <2>1 DEF ThreadOK, Working, Callbacks, Calling
  <2>5. Data'
    BY <1>2, <2>1, SameData
  <2> QED
    BY <1>2, <1>3, <2>1, <2>2, <2>3, <2>4, <2>5, ThreadStepKeeps
<1>4. CASE /\ isActive(h) /\ pc' = [pc EXCEPT ![t] = "event"] /\ at' = at
           /\ \E e \in Events : ev' = [ev EXCEPT ![t] = e]
           /\ last' = last \/ last' = [last EXCEPT ![t] = h]
           /\ \E s \in {"HUNGUP", "INACTIVE"} : stat' = [stat EXCEPT ![h] = s]
  <2>1. HandleOK(h) /\ object[h] = "live" /\ state[h] = "WAITING" /\ \A u \in Threads : ~Holds(u, h)
    <3>1. HandleOK(h) /\ object[h] \in {"live", "deleted"} /\ stat[h] # "DELETED"
      BY <1>1, <1>2, <1>4 DEF Tokens, TokenTypes, isActive
    <3> QED
      BY <1>1, <1>2, <1>4, <3>1 DEF HandleOK, Exclusive
  <2>2. /\ pc' \in [Threads -> Places] /\ pc'[t] = "event" /\ at'[t] = h
        /\ ev' \in [Threads -> Events] /\ last'[t] \in {None, h}
        /\ last' \in [Threads -> Handles \cup {None}]
        /\ \A u \in Threads : u # t => pc'[u] = pc[u] /\ at'[u] = at[u] /\ last'[u] = last[u]
    BY <1>0, <1>1, <1>2, <1>4 DEF TokenTypes, Places
  <2>3. /\ stat' \in [Handles -> Stats] /\ stat'[h] \in {"HUNGUP", "INACTIVE"}
        /\ \A x \in Handles : x # h => stat'[x] = stat[x]
    BY <1>1, <1>2, <1>4 DEF TokenTypes, Stats
  <2>4. TokenTypes'
    BY <1>1, <1>2, <1>4, <2>2, <2>3 DEF TokenTypes
  <2>5. Exclusive'
    <3>1. \A u \in Threads, x \in Handles : Holds(u, x)' => Holds(u, x) \/ (u = t /\ x = h)
      BY <1>1, <1>4, <2>2, NoneAssumption DEF Holds, Working, Callbacks
    <3>2. \A u \in Threads, x \in Handles : (u # t \/ x # h) /\ Holds(u, x)' => Holds(u, x)
      BY <3>1
    <3>3. ~isActive(h)' /\ ih' = ih /\ ih.queue \in Seq(Handles) /\ ih.pending \subseteq Handles
      BY <1>1, <1>2, <2>3 DEF isActive, TokenTypes
    <3>4. (\A i \in DOMAIN ih.queue : ih.queue[i] # h) /\ h \notin ih.pending
      BY <1>1, <1>4 DEF Exclusive, isActive, isInterrupted
    <3>5. \A x \in Handles : x # h => stat'[x] = stat[x] /\ state'[x] = state[x]
      BY <1>2, <2>3
    <3> QED
      BY <1>1, <1>2, <2>1, <3>2, <3>3, <3>4, <3>5, ExclusiveMove
  <2>6. ThreadOK(t)'
    BY <1>2, <2>1, <2>2 DEF ThreadOK, Working, Callbacks, Calling, Kept
  <2>7. HandleOK(h)'
    BY <1>2, <2>1, <2>3 DEF HandleOK, Gone
  <2>8. Data'
    BY <1>2, <1>4, <2>2, SameData
  <2>9. \A u \in Threads : Kept(u, h) => Kept(u, h)'
    BY <1>2 DEF Kept
  <2> QED
    BY <1>2, <2>1, <2>2, <2>3, <2>4, <2>5, <2>6, <2>7, <2>8, <2>9, HandleStepKeeps
<1>5. DISCONNECTED \in Events /\ epollToDirection(ev[t]) \in Events
  BY <1>1 DEF DISCONNECTED, epollToDirection, Events, TokenTypes
<1> QED
  BY <1>0, <1>3, <1>4, <1>5 DEF Returned

\* A thread takes the first handle of the interrupt queue, and may let another
\* take the next.
LEMMA TakeInterruptKeeps ==
    ASSUME IInv, NEW t \in Threads, TakeInterrupt(t), UNCHANGED <<handleVars, ioVars, outside>>
    PROVE  IInv'
<1>1. TokenTypes /\ Tokens /\ Exclusive /\ ThreadOK(t) /\ last[t] = None
  BY Typed, NothingLast DEF Tokens, TakeInterrupt, Callbacks
<1>2. /\ pc[t] = "interrupted"
      /\ UNCHANGED <<stat, events, epoll, sock, ev, last, object, users, state>>
      /\ UNCHANGED <<interrupted, callbacks, ioVars, outside>>
  BY DEF TakeInterrupt, handleVars
<1>3. CASE pc' = [pc EXCEPT ![t] = "loop"] /\ UNCHANGED <<ih, at>>
  <2>1. pc' \in [Threads -> Places] /\ pc'[t] = "loop" /\ \A u \in Threads : u # t => pc'[u] = pc[u]
    BY <1>1, <1>3 DEF TokenTypes, Places
  <2>2. TokenTypes'
    BY <1>1, <1>2, <1>3, <2>1 DEF TokenTypes
  <2>3. Exclusive'
    <3>1. \A u \in Threads, x \in Handles : Holds(u, x)' => Holds(u, x)
      BY <1>2, <1>3, <2>1 DEF Holds, Working, Callbacks
    <3> QED
      BY <1>1, <1>2, <1>3, <3>1, ExclusiveLess DEF TokenTypes
  <2>4. ThreadOK(t)'
    BY <1>1, <1>2, <2>1 DEF ThreadOK, Working, Callbacks, Calling
  <2>5. Data'
    BY <1>2, <1>3, <2>1, SameData
  <2> QED
    BY <1>2, <1>3, <2>1, <2>2, <2>3, <2>4, <2>5, ThreadStepKeeps
<1>4. ASSUME NEW h, h = Head(ih.queue), NEW q, q = Tail(ih.queue), ih.active,
             at' = [at EXCEPT ![t] = h], pc' = [pc EXCEPT ![t] = "wrapped"],
             ih' = [queue |-> q, pending |-> ih.pending,
                    active |-> q # <<>>, armed |-> q # <<>> \/ ih.armed]
      PROVE  IInv'
  <2>1. /\ ih.queue # <<>> /\ ih.queue \in Seq(Handles)
        /\ h = ih.queue[1] /\ 1 \in DOMAIN ih.queue /\ h \in Handles
        /\ q \in Seq(Handles)
        /\ \A i \in DOMAIN q : /\ q[i] = ih.queue[i + 1] /\ i + 1 \in DOMAIN ih.queue
                               /\ i \in Nat /\ i + 1 # 1
    BY <1>1, <1>4 DEF Exclusive, TokenTypes
  <2>2. isInterrupted(h) /\ state[h] = "WAITING" /\ \A u \in Threads : ~Holds(u, h)
    BY <1>1, <2>1 DEF Exclusive
  <2>3. object[h] = "live"
    <3>1. HandleOK(h) /\ object[h] \in {"live", "deleted"}
      BY <1>1, <2>1 DEF Tokens, TokenTypes
    <3> QED
      BY <2>2, <3>1 DEF HandleOK, isInterrupted
  <2>4. /\ pc' \in [Threads -> Places] /\ pc'[t] = "wrapped" /\ at'[t] = h
        /\ at' \in [Threads -> Handles \cup {None}]
        /\ \A u \in Threads : u # t => pc'[u] = pc[u] /\ at'[u] = at[u]
    BY <1>1, <1>4, <2>1 DEF TokenTypes, Places
  <2>5. ih' \in [queue : Seq(Handles), pending : SUBSET Handles, active : BOOLEAN, armed : BOOLEAN]
    <3>1. ih.armed \in BOOLEAN /\ ih.pending \in SUBSET Handles
      BY <1>1 DEF TokenTypes
    <3> QED
      BY <1>4, <2>1, <3>1
  <2>6. TokenTypes'
    BY <1>1, <1>2, <2>4, <2>5 DEF TokenTypes
  <2>7. Exclusive'
    <3>1. \A u \in Threads, x \in Handles : Holds(u, x)' => Holds(u, x) \/ (u = t /\ x = h)
      BY <1>2, <2>4 DEF Holds, Working, Callbacks
    <3>2. \A x \in Handles : (isActive(x)' <=> isActive(x)) /\ (isInterrupted(x)' <=> isInterrupted(x))
      BY <1>2 DEF isActive, isInterrupted
    <3>3. ~isActive(h)
      BY <2>2 DEF isActive, isInterrupted
    <3>4. \A x \in Handles : \A u, v \in Threads : Holds(u, x)' /\ Holds(v, x)' => u = v
      BY <1>1, <2>2, <3>1 DEF Exclusive
    <3>5. \A x \in Handles : isActive(x)' => state'[x] = "WAITING" /\ \A u \in Threads : ~Holds(u, x)'
      BY <1>1, <1>2, <3>1, <3>2, <3>3 DEF Exclusive
    <3>6. ASSUME NEW i \in DOMAIN q, NEW x, x = q[i]
          PROVE  /\ isInterrupted(x)' /\ state'[x] = "WAITING"
                 /\ \A u \in Threads : ~Holds(u, x)'
                 /\ \A j \in DOMAIN q : x = q[j] => i = j
      <4>1. x = ih.queue[i + 1] /\ x \in Handles /\ i + 1 \in DOMAIN ih.queue /\ i + 1 # 1
        BY <2>1, <3>6
      <4>2. x # h
        BY <1>1, <2>1, <4>1 DEF Exclusive
      <4>3. isInterrupted(x) /\ state[x] = "WAITING" /\ \A u \in Threads : ~Holds(u, x)
        BY <1>1, <4>1 DEF Exclusive
      <4>4. ASSUME NEW j \in DOMAIN q, x = q[j] PROVE i = j
        <5>1. x = ih.queue[j + 1] /\ j + 1 \in DOMAIN ih.queue /\ j \in Nat /\ i \in Nat
          BY <2>1, <3>6, <4>4
        <5>2. i + 1 = j + 1
          BY <1>1, <4>1, <5>1 DEF Exclusive
        <5> QED
          BY <5>1, <5>2
      <4> QED
        BY <1>2, <3>1, <3>2, <4>1, <4>2, <4>3, <4>4
    <3>7. \A i \in DOMAIN ih'.queue :
              /\ isInterrupted(ih.queue[i])' /\ state'[ih'.queue[i]] = "WAITING"
              /\ \A u \in Threads : ~Holds(u, ih.queue[i])'
              /\ \A j \in DOMAIN ih'.queue : ih'.queue[i] = ih'.queue[j] => i = j
      <4>1. ih'.queue = q
        BY <1>4
      <4>2. \A i \in DOMAIN q :
                /\ stat'[q[i]] \in {"INTERRUPTED", "INTERRUPTED_HUNGUP"} /\ state'[q[i]] = "WAITING"
                /\ \A u \in Threads : ~((at'[u] = q[i] /\ pc'[u] \in Working) \/ (last'[u] = q[i] /\ pc'[u] = "top"))
                /\ \A j \in DOMAIN q : q[i] = q[j] => i = j
        BY <3>6 DEF isInterrupted, Holds
      <4> QED
        BY <4>1, <4>2 DEF isInterrupted, Holds
    <3>8. ih'.active => ih'.queue # <<>>
      BY <1>4
    <3>9. ASSUME NEW x \in ih'.pending
          PROVE  /\ isInterrupted(x)' /\ state'[x] = "WAITING"
                 /\ \A u \in Threads : ~Holds(u, x)'
                 /\ \A i \in DOMAIN ih'.queue : ih'.queue[i] # x
      <4>1. x \in ih.pending /\ x \in Handles /\ ih'.queue = q
        BY <1>1, <1>4, <3>9 DEF TokenTypes
      <4>2. /\ isInterrupted(x) /\ state[x] = "WAITING" /\ \A u \in Threads : ~Holds(u, x)
            /\ \A i \in DOMAIN ih.queue : ih.queue[i] # x
        BY <1>1, <4>1 DEF Exclusive
      <4>3. x # h
        BY <2>1, <4>2
      <4> QED
        BY <1>2, <2>1, <3>1, <3>2, <4>1, <4>2, <4>3
    <3> QED
      BY <3>4, <3>5, <3>7, <3>8, <3>9 DEF Exclusive
  <2>8. ThreadOK(t)'
    BY <1>1, <1>2, <2>1, <2>2, <2>3, <2>4 DEF ThreadOK, Working, Callbacks, Calling, isInterrupted
  <2>9. Data'
    BY <1>2, <2>4, SameData
  <2> QED
    BY <1>2, <2>4, <2>6, <2>7, <2>8, <2>9, ThreadStepKeeps
<1> QED
  BY <1>3, <1>4 DEF TakeInterrupt

\* The interrupted handle is given to the thread that took it.
LEMMA ReturnInterruptedKeeps ==
    ASSUME IInv, NEW t \in Threads, ReturnInterrupted(t), UNCHANGED <<handleVars, ioVars, outside>>
    PROVE  IInv'
<1>0. PICK h : h = at[t]
  OBVIOUS
<1>1. TokenTypes /\ Tokens /\ Exclusive /\ ThreadOK(t)
  BY Typed DEF Tokens
<1>2. pc[t] = "wrapped" /\ h \in Handles /\ isInterrupted(h) /\ object[h] = "live" /\ state[h] = "WAITING"
  BY <1>0, <1>1 DEF ReturnInterrupted, ThreadOK, Working
<1>3. /\ stat' = [stat EXCEPT ![h] = "INACTIVE"] /\ last' = [last EXCEPT ![t] = h]
      /\ ev' = [ev EXCEPT ![t] = INTERRUPTED] /\ pc' = [pc EXCEPT ![t] = "event"]
      /\ UNCHANGED <<events, epoll, sock, ih, at, object, users, state>>
      /\ UNCHANGED <<interrupted, callbacks, ioVars, outside>>
  BY <1>0, <1>2 DEF ReturnInterrupted, handleVars, isInterrupted
<1>4. /\ stat' \in [Handles -> Stats] /\ stat'[h] = "INACTIVE"
      /\ \A x \in Handles : x # h => stat'[x] = stat[x]
      /\ pc' \in [Threads -> Places] /\ pc'[t] = "event" /\ at'[t] = h
      /\ ev' \in [Threads -> Events] /\ last'[t] = h
      /\ last' \in [Threads -> Handles \cup {None}]
      /\ \A u \in Threads : u # t => pc'[u] = pc[u] /\ at'[u] = at[u] /\ last'[u] = last[u]
  <2>1. INTERRUPTED \in Events
    BY DEF INTERRUPTED, Events
  <2> QED
    BY <1>0, <1>1, <1>2, <1>3, <2>1 DEF TokenTypes, Places, Stats
<1>5. Holds(t, h) /\ HandleOK(h) /\ \A u \in Threads : u # t => ~Holds(u, h)
  <2>1. Holds(t, h) /\ HandleOK(h)
    BY <1>0, <1>1, <1>2 DEF Holds, Working, Tokens
  <2> QED
    BY <1>1, <1>2, <2>1, HoldsAlone
<1>6. TokenTypes'
  BY <1>1, <1>3, <1>4 DEF TokenTypes
<1>7. Exclusive'
  <2>1. \A u \in Threads, x \in Handles : Holds(u, x)' => Holds(u, x)
    BY <1>0, <1>2, <1>3, <1>4 DEF Holds, Working, Callbacks
  <2>2. ~isActive(h)' /\ (\A i \in DOMAIN ih.queue : ih.queue[i] # h) /\ h \notin ih.pending
    BY <1>1, <1>2, <1>4, <1>5, HoldsAlone DEF isActive
  <2>3. ih' = ih /\ ih.queue \in Seq(Handles) /\ ih.pending \subseteq Handles
    BY <1>1, <1>3 DEF TokenTypes
  <2>4. \A x \in Handles : x # h => stat'[x] = stat[x] /\ state'[x] = state[x]
    BY <1>3, <1>4
  <2> QED
    BY <1>1, <1>2, <1>5, <2>1, <2>2, <2>3, <2>4, ExclusiveMove
<1>8. ThreadOK(t)'
  BY <1>2, <1>3, <1>4 DEF ThreadOK, Working, Callbacks, Calling, Kept
<1>9. HandleOK(h)'
  BY <1>2, <1>3, <1>4, <1>5 DEF HandleOK, Gone, isInterrupted
<1>10. Data'
  BY <1>3, <1>4, SameData
<1>11. \A u \in Threads : Kept(u, h) => Kept(u, h)'
  BY <1>3 DEF Kept
<1> QED
  BY <1>2, <1>3, <1>4, <1>5, <1>6, <1>7, <1>8, <1>9, <1>10, <1>11, HandleStepKeeps

----------------------------------------------------------------------------
(* The theorems                                                            *)

\* IInv holds when the connections have been registered, and every step of a
\* thread, the timer or a peer keeps it.
LEMMA Inductive == Spec => []IInv
<1>1. Init => IInv
  <2> SUFFICES ASSUME Init PROVE IInv
    OBVIOUS
  <2>1. /\ \A h \in Handles : /\ stat[h] = "MONITORED" /\ state[h] = "WAITING" /\ object[h] = "live"
                              /\ left[h] = 0 /\ interrupted[h] = 0 /\ callbacks[h] = 0
        /\ \A t \in Threads : pc[t] = "top" /\ last[t] = None
        /\ DOMAIN ih.queue = {} /\ ih.pending = {} /\ ~ih.active
    BY DEF Init, PollerInit
  <2>2. TokenTypes
    <3>1. Entry(Dirs, TRUE) \in [on : BOOLEAN, dirs : SUBSET Dirs, oneshot : BOOLEAN]
      BY DEF Entry
    <3>2. ih \in [queue : Seq(Handles), pending : SUBSET Handles, active : BOOLEAN, armed : BOOLEAN]
      BY DEF Init, PollerInit
    <3>3. INTERRUPTED \in Events
      BY DEF INTERRUPTED, Events
    <3> QED
      BY <3>1, <3>2, <3>3 DEF Init, PollerInit, TokenTypes, Places, Stats
  <2>3. DataTypes
    BY IOAssumption DEF Init, DataTypes
  <2>4. BuffersOK
    BY <2>1 DEF BuffersOK
  <2>5. Exclusive
    <3>1. \A t \in Threads, h \in Handles : ~Holds(t, h)
      BY <2>1, NoneAssumption DEF Holds, Working, Callbacks
    <3> QED
      BY <2>1, <3>1 DEF Exclusive
  <2>6. \A t \in Threads : ThreadOK(t)
    BY <2>1 DEF ThreadOK, Working, Callbacks, Calling
  <2>7. \A h \in Handles : HandleOK(h)
    BY <2>1 DEF HandleOK, Gone
  <2> QED
    BY <2>2, <2>3, <2>4, <2>5, <2>6, <2>7, TypeParts DEF IInv, Tokens
<1>2. IInv /\ [Next]_vars => IInv'
  <2> SUFFICES ASSUME IInv, [Next]_vars PROVE IInv'
    OBVIOUS
  <2>1. CASE UNCHANGED vars
    <3>1. Watched /\ Data' /\ sock' \in [Handles -> {"quiet", "data", "eof", "reset"}]
      BY <2>1, Typed DEF vars, pollerVars, handleVars, ioVars, outside, Watched, TokenTypes,
                         Data, DataTypes, BuffersOK
    <3> QED
      BY <2>1, <3>1, OutsideKeeps DEF vars, pollerVars, handleVars
  <2>2. ASSUME NEW t \in Threads, Poll(t) PROVE IInv'
    BY <2>2, ResetModeKeeps, RequeueKeeps, GoOnKeeps, ReturnedKeeps, TakeInterruptKeeps,
       ReturnInterruptedKeeps DEF Poll, Wait
  <2>3. ASSUME NEW t \in Threads, NEW h \in Handles, Deliver(t, h) PROVE IInv'
    BY <2>3, GoOnKeeps DEF Deliver
  <2>4. ASSUME NEW t \in Threads, IOCallback(t) PROVE IInv'
    BY <2>4, ProcessEventKeeps, FinishKeeps, RunCallbackKeeps, ReadDataKeeps, OtherCallbackKeeps,
       WriteKeeps, IdleKeeps, CloseKeeps DEF IOCallback
  <2>5. ASSUME NEW h \in Handles,
               \/ HaveOutput(h) \/ Notify(h) \/ Abort(h) \/ Aborting(h)
               \/ DataArrives(h) \/ PeerCloses(h) \/ PeerResets(h)
        PROVE  IInv'
    BY <2>5, AnnounceKeeps, AbortKeeps, AbortingKeeps, AbortInterruptsKeeps DEF Aborting
  <2> QED
    BY <2>1, <2>2, <2>3, <2>4, <2>5 DEF Next
<1> QED
  BY <1>1, <1>2, PTL DEF Spec

\* DispatchHandle.h promises that the callbacks of a handle never run on two
\* threads at once, and processEvent asserts the states this leaves; in the
\* poller only an active handle is given out, and giving it out makes it
\* inactive until its thread comes back.
THEOREM NeverTwice == Spec => []OneAtATime
<1>1. IInv => OneAtATime
  <2> SUFFICES ASSUME IInv PROVE OneAtATime
    OBVIOUS
  <2>1. TypeOK /\ Exclusive /\ \A t \in Threads : ThreadOK(t)
    BY DEF IInv, Tokens
  <2>2. ASSUME NEW h \in Handles PROVE Cardinality({t \in Threads : Serving(t, h)}) <= 1
    <3> DEFINE S == {t \in Threads : Serving(t, h)}
    <3>1. \A t, u \in S : t = u
      BY <2>1 DEF Serving, Exclusive, Holds, Working
    <3>2. CASE S = {}
      BY <3>2, FS_EmptySet
    <3>3. ASSUME NEW t \in S PROVE Cardinality(S) <= 1
      <4>1. S = {t}
        BY <3>1
      <4>2. Cardinality({t}) = 1
        BY FS_Singleton
      <4> HIDE DEF S
      <4> QED
        BY <4>1, <4>2
    <3> QED
      BY <3>2, <3>3
  <2>3. ASSUME NEW t \in Threads
        PROVE  /\ pc[t] = "event" => state[at[t]] \notin {"CALLING", "STOPPING"}
               /\ pc[t] \in Callbacks => state[at[t]] \notin {"IDLE", "WAITING"}
    BY <2>1 DEF ThreadOK, Calling
  <2> QED
    BY <2>1, <2>2, <2>3 DEF OneAtATime
<1> QED
  BY <1>1, Inductive, PTL

\* The interrupt queue and the threads that were given a handle never touch a
\* deleted one, and DeletionManager frees its private part only after every
\* thread that epoll_wait gave it to, or that returned it last, has moved on.
THEOREM DeletionIsSafe == Spec => []NoUseAfterFree
<1>1. IInv => NoUseAfterFree
  <2> SUFFICES ASSUME IInv PROVE NoUseAfterFree
    OBVIOUS
  <2>1. TokenTypes /\ Exclusive /\ (\A t \in Threads : ThreadOK(t)) /\ \A h \in Handles : HandleOK(h)
    BY Typed DEF Tokens
  <2>2. ASSUME NEW i \in DOMAIN ih.queue PROVE object[ih.queue[i]] = "live"
    <3>1. ih.queue[i] \in Handles
      BY <2>1 DEF TokenTypes
    <3>2. object[ih.queue[i]] \in {"live", "deleted"} /\ stat[ih.queue[i]] # "DELETED"
      BY <2>1, <3>1 DEF TokenTypes, Exclusive, isInterrupted
    <3> QED
      BY <2>1, <3>1, <3>2 DEF HandleOK
  <2>4. ASSUME NEW h \in ih.pending PROVE object[h] = "live"
    <3>1. h \in Handles
      BY <2>1 DEF TokenTypes
    <3>2. object[h] \in {"live", "deleted"} /\ stat[h] # "DELETED"
      BY <2>1, <3>1 DEF TokenTypes, Exclusive, isInterrupted
    <3> QED
      BY <2>1, <3>1, <3>2 DEF HandleOK
  <2>3. ASSUME NEW t \in Threads
        PROVE  /\ (at[t] # None /\ pc[t] \in Callbacks \cup {"event", "wrapped", "requeue"})
                     => object[at[t]] = "live"
               /\ pc[t] = "returned" => ~Freed(at[t])
               /\ (last[t] # None /\ pc[t] = "top") => ~Freed(last[t])
    <3>1. ThreadOK(t)
      BY <2>1
    <3>2. \A h : Kept(t, h) => ~Freed(h)
      BY DEF Kept, Freed
    <3> QED
      BY <3>1, <3>2 DEF ThreadOK, Working
  <2> QED
    BY <2>2, <2>3, <2>4 DEF NoUseAfterFree
<1> QED
  BY <1>1, Inductive, PTL

=============================================================================
