-------------------------- MODULE DtxBranch_proofs --------------------------
(***************************************************************************)
(* Theorems about DtxBranch for any number of sessions, of operations and  *)
(* of crashes.                                                             *)
(*                                                                         *)
(* The inductive invariant IInv follows a branch through the three states  *)
(* of its transaction in the store.  Until the store has it, an operation  *)
(* that is not decided yet is in a buffer of a record that is neither      *)
(* expired nor removed (OpsOK), so whatever ends the record ends it too;   *)
(* and a session whose part was rolled back has a failed buffer, which     *)
(* check() sees.  While the store has it prepared, nothing of it is        *)
(* decided and everything enlisted is in it.  Once it is committed, the    *)
(* command that committed it is the only one left and every operation of   *)
(* the branch is committed or is about to be.  What a session enlists      *)
(* after its join was refused (Stray) is in no record.                     *)
(***************************************************************************)
EXTENDS DtxBranch, TLAPS

\* A session that works on the branch with a buffer that has not expired, and
\* one with a buffer that no branch holds: its join was refused.
Working(s) ==
    attached[s] \in {"active", "suspended"} /\ ~buffer[s].expired /\ s \in record.work
Stray(s) ==
    attached[s] \in {"active", "suspended"} /\ ~buffer[s].expired /\ s \notin record.work

\* A buffer nobody has used.
Fresh(b) == buffer[b].ops = {} /\ ~buffer[b].ended /\ ~buffer[b].failed /\ ~buffer[b].expired

InWork(o) == \E b \in record.work : o \in buffer[b].ops

\* The record, and what the thread of a command assumes of it.
RecordOK ==
    /\ record.known => begun
    /\ record.prepared => record.completed
    /\ record.expired => record.rolledback
    /\ cmd.pc = "idle" => cmd = Idle
    /\ cmd.pc # "idle" => begun /\ told \in {"none", "prepared"}
    /\ cmd.pc \in {"work", "stored", "answer", "remove"} => record.known
    /\ cmd.pc \in {"stored", "remove"} => record.completed \/ record.expired
    /\ cmd.pc = "cancel" => ~record.known
    /\ cmd.pc = "answer" =>
         /\ record.completed /\ cmd.answer \in {"prepared", "rolledback"}
         /\ cmd.answer = "prepared" /\ ~record.expired => stored.state = "prepared"
    /\ record.known /\ record.completed /\ ~record.expired
         /\ told \in {"none", "prepared"} /\ cmd.pc \in {"idle", "work"}
            => stored.state = "prepared"

\* Sessions and their buffers.
SessionsOK ==
    /\ ~begun => \A s \in Sessions : attached[s] = "never"
    /\ \A s \in Sessions : attached[s] \in {"never", "joining"} =>
         Fresh(s) /\ \A n \in 1..MaxOps : outcome[<<s, n>>] = "none"
    /\ \A s \in Sessions : \A o \in buffer[s].ops : o[1] = s
    /\ \A s \in Sessions : buffer[s].expired => ~record.known \/ record.expired
    /\ \A s \in Sessions : Working(s) =>
         /\ record.known /\ ~record.expired /\ ~record.completed
         /\ ~buffer[s].ended /\ ~buffer[s].failed
    /\ \A s \in Sessions : Stray(s) =>
         /\ ~record.known \/ record.expired
         /\ \A o \in buffer[s].ops : outcome[o] = "outside"
    /\ record.known /\ ~record.completed /\ ~record.expired =>
         \A s \in Sessions : attached[s] \notin {"never", "joining"} => s \in record.work
    /\ \A s \in Sessions : s \in record.work => attached[s] \notin {"never", "joining"}

\* What is still to be decided is in the buffers of the record.
OpsOK ==
    /\ \A o \in Ops : outcome[o] = "enlisted" =>
         record.known /\ ~record.expired /\ cmd.pc # "remove" /\ InWork(o)
    /\ \A o \in Ops : outcome[o] = "none" => \A b \in Buffers : o \notin buffer[b].ops
    /\ \A o \in Ops : outcome[o] \in {"late", "outside"} => ~record.known \/ record.expired
    /\ \A o \in Ops : outcome[o] = "outside" => ~InWork(o)
    /\ record.known /\ ~record.completed /\ ~record.rolledback =>
         \A o \in Ops : outcome[o] = "rolledback" => buffer[o[1]].failed

\* The store, in each of its states.
StoreNone ==
    stored.state = "none" =>
        /\ stored.ops = {}
        /\ \A o \in Ops : outcome[o] # "committed"
        /\ told # "committed" /\ cmd.pc # "stored"
        /\ cmd.pc \in {"remove", "cancel"} => cmd.answer = "rolledback"

StorePrepared ==
    stored.state = "prepared" =>
        /\ record.known /\ record.prepared /\ ~record.rolledback
        /\ told \in {"none", "prepared"} /\ cmd.pc \in {"idle", "work", "answer"}
        /\ cmd.pc = "answer" => cmd.answer = "prepared"
        /\ \A o \in Ops : InWork(o) => o \in stored.ops
        /\ \A o \in Ops : IF o \in stored.ops THEN outcome[o] = "enlisted"
                                               ELSE outcome[o] = "none"

StoreCommitted ==
    stored.state = "committed" =>
        /\ begun
        /\ record.known => record.completed /\ cmd.pc \in {"stored", "remove"}
        /\ \A s \in Sessions : ~buffer[s].expired
        /\ told # "rolledback"
        /\ cmd.pc \in {"remove", "cancel"} => cmd.answer = "committed"
        /\ \A o \in Ops : outcome[o] \notin {"none", "outside"} =>
             outcome[o] \in {"enlisted", "committed"} /\ o \in stored.ops
        /\ cmd.pc = "stored" => ~record.expired /\ \A o \in Ops : InWork(o) => o \in stored.ops
        /\ cmd.pc # "stored" =>
             \A o \in Ops : outcome[o] # "enlisted" /\ (record.known => ~InWork(o))

IInv ==
    /\ TypeOK /\ RecordOK /\ SessionsOK /\ OpsOK
    /\ StoreNone /\ StorePrepared /\ StoreCommitted

----------------------------------------------------------------------------
(* What the operations on buffers and on the record do                     *)

\* TxBuffer::commit and TxBuffer::rollback empty the buffers and nothing else.
LEMMA FinishEffect ==
    ASSUME TypeOK, NEW bs \in SUBSET Buffers, NEW result \in {"committed", "rolledback"},
           Finish(bs, result)
    PROVE  /\ buffer' \in [Buffers -> BufferType]
           /\ outcome' \in [Ops -> {"none", "enlisted", "late", "outside", "committed", "rolledback"}]
           /\ \A b \in Buffers :
                /\ buffer'[b].ops = IF b \in bs THEN {} ELSE buffer[b].ops
                /\ buffer'[b].ended <=> buffer[b].ended
                /\ buffer'[b].failed <=> buffer[b].failed
                /\ buffer'[b].expired <=> buffer[b].expired
           /\ \A o \in Ops :
                outcome'[o] = IF \E b \in bs : o \in buffer[b].ops THEN result ELSE outcome[o]
  BY DEF TypeOK, Finish, BufferType

\* DtxBuffer::fail ends one buffer and rolls its operations back.
LEMMA FailEffect ==
    ASSUME TypeOK, NEW s \in Sessions, Fail(s)
    PROVE  /\ buffer' \in [Buffers -> BufferType]
           /\ outcome' \in [Ops -> {"none", "enlisted", "late", "outside", "committed", "rolledback"}]
           /\ buffer'[s].ops = {} /\ buffer'[s].ended /\ buffer'[s].failed
           /\ buffer'[s].expired <=> buffer[s].expired
           /\ \A b \in Buffers : b # s => buffer'[b] = buffer[b]
           /\ \A o \in Ops :
                outcome'[o] = IF o \in buffer[s].ops /\ outcome[o] # "outside"
                               THEN "rolledback" ELSE outcome[o]
<1>1. s \in Buffers /\ buffer[s] \in BufferType
  BY DEF TypeOK, Buffers
<1>2. buffer' = [buffer EXCEPT ![s] = [buffer[s] EXCEPT !.ops = {}, !.failed = TRUE,
                                                        !.ended = TRUE]]
  BY DEF Fail
<1>3. [buffer[s] EXCEPT !.ops = {}, !.failed = TRUE, !.ended = TRUE] \in BufferType
  BY <1>1 DEF BufferType
<1> QED
  BY <1>1, <1>2, <1>3 DEF TypeOK, Fail, BufferType

\* DtxWorkRecord::check completes the record and may make it rollback only.
LEMMA CheckedEffect ==
    ASSUME TypeOK
    PROVE  /\ Checked \in RecordType
           /\ (Checked.known <=> record.known) /\ Checked.work = record.work /\ Checked.completed
           /\ (Checked.rolledback <=> RollbackOnly)
           /\ (Checked.prepared <=> record.prepared) /\ (Checked.expired <=> record.expired)
<1>1. RollbackOnly \in BOOLEAN
  BY DEF RollbackOnly, TypeOK, RecordType
<1> HIDE DEF RollbackOnly
<1> QED
  BY <1>1 DEF Checked, TypeOK, RecordType

----------------------------------------------------------------------------
(* Every step keeps the invariant: the sessions                            *)

\* DtxManager::start creates the record for its first session.
LEMMA StartKeeps ==
    ASSUME IInv, NEW s \in Sessions, Start(s)
    PROVE  IInv'
<1> USE DEF IInv, Start
<1>1. /\ record' \in RecordType
      /\ record'.known /\ record'.work = {s} /\ ~record'.completed
      /\ ~record'.rolledback /\ ~record'.prepared /\ ~record'.expired
  BY DEF NewRecord, NoRecord, RecordType, Buffers
<1>2. TypeOK'
  BY <1>1 DEF TypeOK
<1>3. RecordOK' /\ SessionsOK' /\ OpsOK'
  BY <1>1, DtxAssumption
     DEF TypeOK, RecordOK, SessionsOK, OpsOK, Working, Stray, Fresh, InWork, Buffers, Ops
<1>4. StoreNone' /\ StorePrepared' /\ StoreCommitted'
  BY <1>1 DEF TypeOK, RecordOK, StoreNone, StorePrepared, StoreCommitted
<1> QED
  BY <1>2, <1>3, <1>4

\* DtxManager::getWork only looks the record up.
LEMMA JoinKeeps ==
    ASSUME IInv, NEW s \in Sessions, Join(s)
    PROVE  IInv'
<1> USE DEF IInv
<1>1. /\ attached[s] = "never" /\ record.known
      /\ attached' \in [Sessions -> {"never", "joining", "active", "suspended", "detached"}]
      /\ attached'[s] = "joining"
      /\ \A t \in Sessions : t # s => attached'[t] = attached[t]
      /\ UNCHANGED <<record, buffer, outcome, stored, timer, cmd, told, decision, begun, crashes>>
  BY DEF Join, TypeOK
<1>2. TypeOK' /\ RecordOK' /\ OpsOK'
  BY <1>1 DEF TypeOK, RecordOK, OpsOK, InWork
<1>3. SessionsOK'
  BY <1>1 DEF TypeOK, RecordOK, SessionsOK, Working, Stray, Fresh
<1>4. StoreNone' /\ StorePrepared' /\ StoreCommitted'
  BY <1>1 DEF StoreNone, StorePrepared, StoreCommitted, InWork
<1> QED
  BY <1>2, <1>3, <1>4

\* A branch that is neither expired nor checked takes the session's buffer.
LEMMA JoinAddedKeeps ==
    ASSUME IInv, NEW s \in Sessions, AddJoin(s), ~record.expired, ~record.completed
    PROVE  IInv'
<1> USE DEF IInv
<1>1. /\ attached[s] = "joining" /\ record.known /\ s \in Buffers
      /\ attached' \in [Sessions -> {"never", "joining", "active", "suspended", "detached"}]
      /\ attached'[s] = "active"
      /\ \A t \in Sessions : t # s => attached'[t] = attached[t]
      /\ record' = [record EXCEPT !.work = @ \cup {s}]
      /\ UNCHANGED <<buffer, outcome, stored, timer, cmd, told, decision, begun, crashes>>
  BY DEF AddJoin, TypeOK, Buffers
<1>2. /\ record' \in RecordType
      /\ record'.known /\ record'.work = record.work \cup {s} /\ ~record'.completed
      /\ (record'.rolledback <=> record.rolledback) /\ (record'.prepared <=> record.prepared)
      /\ ~record'.expired
  BY <1>1 DEF TypeOK, RecordType
<1>3. TypeOK'
  BY <1>1, <1>2 DEF TypeOK
<1>4. RecordOK'
  BY <1>1, <1>2 DEF TypeOK, RecordOK
<1>5. SessionsOK'
  BY <1>1, <1>2 DEF TypeOK, SessionsOK, Working, Stray, Fresh, Buffers
<1>6. OpsOK'
  BY <1>1, <1>2 DEF TypeOK, SessionsOK, OpsOK, InWork
<1>7. StoreNone' /\ StorePrepared' /\ StoreCommitted'
  BY <1>1, <1>2 DEF TypeOK, RecordOK, StoreNone, StorePrepared, StoreCommitted
<1> QED
  BY <1>3, <1>4, <1>5, <1>6, <1>7

\* A refused join leaves the branch as it is, and the session with a buffer
\* of its own or without one.
LEMMA JoinRefusedKeeps ==
    ASSUME IInv, NEW s \in Sessions, AddJoin(s), record.expired \/ record.completed
    PROVE  IInv'
<1> USE DEF IInv
<1>1. /\ attached[s] = "joining" /\ record.known
      /\ attached' \in [Sessions -> {"never", "joining", "active", "suspended", "detached"}]
      /\ attached'[s] \in {"active", "detached"}
      /\ attached'[s] = "active" => record.expired
      /\ \A t \in Sessions : t # s => attached'[t] = attached[t]
      /\ UNCHANGED <<record, buffer, outcome, stored, timer, cmd, told, decision, begun, crashes>>
  BY DEF AddJoin, TypeOK
<1>2. TypeOK' /\ RecordOK' /\ OpsOK'
  BY <1>1 DEF TypeOK, RecordOK, OpsOK, InWork
<1>3. SessionsOK'
  BY <1>1 DEF TypeOK, RecordOK, SessionsOK, Working, Stray, Fresh
<1>4. StoreNone' /\ StorePrepared' /\ StoreCommitted'
  BY <1>1 DEF StoreNone, StorePrepared, StoreCommitted, InWork
<1> QED
  BY <1>2, <1>3, <1>4

\* A session with a buffer in a record and not expired is on a branch the
\* store does not have, so what it enlists is not decided yet; what it enlists
\* after a refused join is in no record.
LEMMA EnlistKeeps ==
    ASSUME IInv, NEW s \in Sessions, Enlist(s)
    PROVE  IInv'
<1> USE DEF IInv
<1>1. PICK n \in 1..MaxOps :
         /\ outcome[<<s, n>>] = "none"
         /\ outcome' = [outcome EXCEPT ![<<s, n>>] =
              IF buffer[s].expired THEN "late"
              ELSE IF s \notin record.work THEN "outside" ELSE "enlisted"]
         /\ buffer' = [buffer EXCEPT ![s].ops = @ \cup {<<s, n>>}]
  BY DEF Enlist
<1> DEFINE op == <<s, n>>
<1>2. op \in Ops /\ op[1] = s
  BY DEF Ops
<1>3. /\ attached[s] = "active" /\ s \in Buffers
      /\ UNCHANGED <<record, attached, stored, timer, cmd, told, decision, begun, crashes>>
  BY DEF Enlist, Buffers
<1>4. /\ outcome' \in [Ops -> {"none", "enlisted", "late", "outside", "committed", "rolledback"}]
      /\ outcome'[op] = IF buffer[s].expired THEN "late"
                         ELSE IF s \notin record.work THEN "outside" ELSE "enlisted"
      /\ \A o \in Ops : o # op => outcome'[o] = outcome[o]
  BY <1>1, <1>2 DEF TypeOK
<1>5. /\ buffer' \in [Buffers -> BufferType]
      /\ buffer'[s].ops = buffer[s].ops \cup {op}
      /\ \A b \in Buffers : b # s => buffer'[b].ops = buffer[b].ops
      /\ \A b \in Buffers :
           /\ buffer'[b].ended <=> buffer[b].ended
           /\ buffer'[b].failed <=> buffer[b].failed
           /\ buffer'[b].expired <=> buffer[b].expired
  <2>1. buffer[s] \in BufferType
    BY <1>3 DEF TypeOK
  <2>2. [buffer[s] EXCEPT !.ops = @ \cup {op}] \in BufferType
    BY <2>1, <1>2 DEF BufferType
  <2> QED
    BY <1>1, <1>3, <2>1, <2>2 DEF TypeOK, BufferType
<1> HIDE DEF op
<1>6. TypeOK'
  BY <1>3, <1>4, <1>5 DEF TypeOK
<1>7. RecordOK'
  BY <1>3 DEF RecordOK
<1>8. SessionsOK'
  <2>1. \A t \in Sessions : attached[t] \in {"never", "joining"} => t # s /\ \A k \in 1..MaxOps : <<t, k>> # op
    BY <1>2, <1>3
  <2>2. (\A t \in Sessions : attached[t] \in {"never", "joining"} =>
           Fresh(t) /\ \A k \in 1..MaxOps : outcome[<<t, k>>] = "none")'
    BY <1>3, <1>4, <1>5, <2>1 DEF SessionsOK, Fresh, Ops, Buffers
  <2>3. (\A t \in Sessions : \A o \in buffer[t].ops : o[1] = t)'
    BY <1>2, <1>3, <1>5 DEF SessionsOK, Buffers
  <2>4. (\A t \in Sessions : Stray(t) => \A o \in buffer[t].ops : outcome[o] = "outside")'
    <3> SUFFICES ASSUME NEW t \in Sessions, Stray(t)', NEW o \in buffer'[t].ops
                 PROVE  outcome'[o] = "outside"
      OBVIOUS
    <3>1. Stray(t)
      BY <1>3, <1>5 DEF Stray, Buffers
    <3>2. o \in Ops /\ t \in Buffers
      BY <1>5 DEF BufferType, Buffers
    <3>3. CASE o = op
      <4>1. t = s
        BY <1>2, <2>3, <3>3
      <4> QED
        BY <1>4, <3>1, <3>3, <4>1 DEF Stray
    <3>4. CASE o # op
      <4>1. o \in buffer[t].ops
        BY <1>5, <3>2, <3>4
      <4> QED
        BY <1>4, <3>1, <3>2, <3>4, <4>1 DEF SessionsOK
    <3> QED
      BY <3>3, <3>4
  <2>5. (\A t \in Sessions : Stray(t) => ~record.known \/ record.expired)'
    BY <1>3, <1>5 DEF SessionsOK, Stray, Buffers
  <2>6. (\A t \in Sessions : Working(t) =>
           /\ record.known /\ ~record.expired /\ ~record.completed
           /\ ~buffer[t].ended /\ ~buffer[t].failed)'
    BY <1>3, <1>5 DEF SessionsOK, Working, Buffers
  <2> QED
    BY <1>3, <1>5, <2>2, <2>3, <2>4, <2>5, <2>6 DEF SessionsOK, Buffers
<1>9. OpsOK'
  <2>1. \A o \in Ops : InWork(o) => InWork(o)'
    BY <1>3, <1>5 DEF InWork, TypeOK, RecordType
  <2>2. outcome'[op] = "enlisted" =>
          record.known /\ ~record.expired /\ cmd.pc # "remove" /\ InWork(op)'
    BY <1>3, <1>4, <1>5 DEF InWork, TypeOK, SessionsOK, Working, Stray, RecordOK
  <2>3. outcome'[op] \in {"late", "outside"} => ~record.known \/ record.expired
    BY <1>3, <1>4 DEF SessionsOK, Stray
  <2>4. \A o \in Ops : o # op => (InWork(o)' <=> InWork(o))
    BY <1>3, <1>5 DEF InWork, TypeOK, RecordType
  <2>5. outcome'[op] = "outside" => ~InWork(op)'
    BY <1>1, <1>2, <1>3, <1>4, <1>5 DEF OpsOK, InWork, TypeOK, RecordType, op
  <2> QED
    BY <1>1, <1>2, <1>3, <1>4, <1>5, <2>1, <2>2, <2>3, <2>4, <2>5
       DEF SessionsOK, OpsOK, Ops, Buffers
<1>10. stored.state # "prepared"
  BY <1>3 DEF TypeOK, StorePrepared, SessionsOK, Working, Stray, RecordOK
<1>11. stored.state = "committed" => s \notin record.work /\ outcome'[op] = "outside"
  BY <1>3, <1>4 DEF StoreCommitted, SessionsOK, Working
<1>12. s \notin record.work => \A o \in Ops : InWork(o)' <=> InWork(o)
  BY <1>3, <1>5 DEF InWork, TypeOK, RecordType
<1>13. StoreNone' /\ StorePrepared'
  BY <1>3, <1>4, <1>10 DEF StoreNone, StorePrepared
<1>14. StoreCommitted'
  BY <1>3, <1>4, <1>5, <1>11, <1>12 DEF StoreCommitted, Buffers
<1> QED
  BY <1>6, <1>7, <1>8, <1>9, <1>13, <1>14

\* A buffer that fails takes its operations with it; the branch has not been
\* checked yet, so the failure is still to be seen.
LEMMA FailKeeps ==
    ASSUME IInv, NEW s \in Sessions, attached[s] = "active", Fail(s),
           attached' = [attached EXCEPT ![s] = "detached"],
           UNCHANGED <<record, stored, timer, cmd, told, decision, begun, crashes>>
    PROVE  IInv'
<1> USE DEF IInv
<1>1. /\ buffer' \in [Buffers -> BufferType]
      /\ outcome' \in [Ops -> {"none", "enlisted", "late", "outside", "committed", "rolledback"}]
      /\ buffer'[s].ops = {} /\ buffer'[s].ended /\ buffer'[s].failed
      /\ buffer'[s].expired <=> buffer[s].expired
      /\ \A b \in Buffers : b # s => buffer'[b] = buffer[b]
      /\ \A o \in Ops : outcome'[o] = IF o \in buffer[s].ops /\ outcome[o] # "outside"
                                       THEN "rolledback" ELSE outcome[o]
  BY FailEffect
<1>2. /\ attached'[s] = "detached"
      /\ \A t \in Sessions : t # s => attached'[t] = attached[t]
  BY DEF TypeOK
<1>3. TypeOK'
  BY <1>1 DEF TypeOK
<1>4. RecordOK'
  BY DEF RecordOK
<1>5. SessionsOK'
  <2>1. (\A t \in Sessions : attached[t] \in {"never", "joining"} =>
           Fresh(t) /\ \A k \in 1..MaxOps : outcome[<<t, k>>] = "none")'
    <3> SUFFICES ASSUME NEW t \in Sessions, attached'[t] \in {"never", "joining"}, NEW k \in 1..MaxOps
                 PROVE  Fresh(t)' /\ outcome'[<<t, k>>] = "none"
      BY <1>1, <1>2 DEF Fresh, SessionsOK, Buffers
    <3>1. t # s /\ <<t, k>> \in Ops /\ <<t, k>> \notin buffer[s].ops
      BY <1>2 DEF Ops, SessionsOK
    <3> QED
      BY <1>1, <1>2, <3>1 DEF Fresh, SessionsOK, Buffers
  <2>2. \A t \in Sessions : t # s => buffer'[t] = buffer[t] /\ attached'[t] = attached[t]
    BY <1>1, <1>2 DEF Buffers
  <2>3. (\A t \in Sessions : Stray(t) =>
           (~record.known \/ record.expired) /\ \A o \in buffer[t].ops : outcome[o] = "outside")'
    <3> SUFFICES ASSUME NEW t \in Sessions, Stray(t)'
                 PROVE  /\ ~record.known \/ record.expired
                        /\ \A o \in buffer'[t].ops : outcome'[o] = "outside"
      OBVIOUS
    <3>1. t # s /\ Stray(t)
      BY <1>2, <2>2 DEF Stray
    <3>2. buffer[t].ops \subseteq Ops
      BY DEF TypeOK, BufferType, Buffers
    <3> QED
      BY <1>1, <2>2, <3>1, <3>2 DEF SessionsOK
  <2>4. (\A t \in Sessions : Working(t) =>
           /\ record.known /\ ~record.expired /\ ~record.completed
           /\ ~buffer[t].ended /\ ~buffer[t].failed)'
    BY <1>2, <2>2 DEF SessionsOK, Working
  <2> QED
    BY <1>1, <1>2, <2>1, <2>2, <2>3, <2>4 DEF SessionsOK
<1>6. OpsOK'
  <2>1. \A o \in Ops : outcome'[o] = "enlisted" /\ InWork(o) => InWork(o)'
    BY <1>1 DEF InWork, TypeOK, RecordType
  <2>2. \A o \in Ops : o \in buffer[s].ops => o[1] = s
    BY DEF SessionsOK
  <2>3. \A o \in Ops : InWork(o)' => InWork(o)
    BY <1>1 DEF InWork, TypeOK, RecordType
  <2> QED
    BY <1>1, <2>1, <2>2, <2>3 DEF OpsOK, Ops, Buffers
<1>7. stored.state # "prepared"
  BY DEF TypeOK, StorePrepared, SessionsOK, Working, Stray, RecordOK
<1>8. StoreNone' /\ StorePrepared'
  BY <1>1, <1>7 DEF StoreNone, StorePrepared
<1>9. CASE stored.state = "committed"
  <2>1. Stray(s)
    BY <1>9 DEF StoreCommitted, SessionsOK, Working, Stray
  <2>2. \A o \in Ops : outcome'[o] = outcome[o]
    BY <1>1, <2>1 DEF SessionsOK
  <2>3. \A o \in Ops : InWork(o)' => InWork(o)
    BY <1>1 DEF InWork, TypeOK, RecordType
  <2>4. \A t \in Sessions : buffer'[t].expired <=> buffer[t].expired
    BY <1>1 DEF Buffers
  <2> QED
    BY <1>3, <1>4, <1>5, <1>6, <1>8, <1>9, <2>2, <2>3, <2>4 DEF StoreCommitted
<1>10. CASE stored.state # "committed"
  BY <1>3, <1>4, <1>5, <1>6, <1>8, <1>10 DEF StoreCommitted
<1> QED
  BY <1>9, <1>10

\* dtx.end ends or fails the buffer; a session whose buffer expired just leaves.
LEMMA EndKeeps ==
    ASSUME IInv, NEW s \in Sessions, End(s)
    PROVE  IInv'
<1> USE DEF IInv
<1>1. /\ attached[s] = "active" /\ attached' = [attached EXCEPT ![s] = "detached"]
      /\ UNCHANGED <<record, stored, timer, cmd, told, decision, begun, crashes>>
  BY DEF End
<1>2. attached'[s] = "detached" /\ \A t \in Sessions : t # s => attached'[t] = attached[t]
  BY <1>1 DEF TypeOK
<1>3. CASE buffer[s].expired /\ UNCHANGED <<buffer, outcome>>
  BY <1>1, <1>2, <1>3 DEF TypeOK, RecordOK, SessionsOK, OpsOK, StoreNone, StorePrepared,
                          StoreCommitted, Working, Stray, Fresh, InWork
<1>4. CASE /\ ~buffer[s].expired /\ UNCHANGED outcome
           /\ buffer' = [buffer EXCEPT ![s].ended = TRUE]
  <2>1. /\ buffer' \in [Buffers -> BufferType]
        /\ \A b \in Buffers :
             /\ buffer'[b].ops = buffer[b].ops
             /\ b # s => buffer'[b] = buffer[b]
             /\ buffer'[b].failed <=> buffer[b].failed
             /\ buffer'[b].expired <=> buffer[b].expired
    <3>1. s \in Buffers /\ buffer[s] \in BufferType
      BY DEF TypeOK, Buffers
    <3>2. [buffer[s] EXCEPT !.ended = TRUE] \in BufferType
      BY <3>1 DEF BufferType
    <3> QED
      BY <1>4, <3>1, <3>2 DEF TypeOK, BufferType
  <2>2. TypeOK'
    BY <1>1, <1>4, <2>1 DEF TypeOK
  <2>3. \A o \in Ops : InWork(o)' <=> InWork(o)
    BY <1>1, <2>1 DEF InWork, TypeOK, RecordType
  <2>4. RecordOK' /\ SessionsOK'
    BY <1>1, <1>2, <1>4, <2>1 DEF RecordOK, SessionsOK, Working, Stray, Fresh, Buffers
  <2>5. OpsOK'
    BY <1>1, <1>4, <2>1, <2>3 DEF OpsOK, Ops, Buffers
  <2>6. StoreNone' /\ StorePrepared' /\ StoreCommitted'
    BY <1>1, <1>2, <1>4, <2>3 DEF StoreNone, StorePrepared, StoreCommitted
  <2> QED
    BY <2>2, <2>4, <2>5, <2>6
<1>5. CASE Fail(s)
  BY <1>1, <1>5, FailKeeps
<1> QED
  BY <1>3, <1>4, <1>5 DEF End

\* Suspending and resuming move only the session, and not with an expired buffer.
LEMMA SuspendResumeKeeps ==
    ASSUME IInv, NEW s \in Sessions, Suspend(s) \/ Resume(s)
    PROVE  IInv'
<1> USE DEF IInv
<1>1. /\ attached[s] \in {"active", "suspended"}
      /\ attached' \in [Sessions -> {"never", "joining", "active", "suspended", "detached"}]
      /\ attached'[s] \in {"active", "suspended"} => ~buffer[s].expired
      /\ attached'[s] \notin {"never", "joining"}
      /\ \A t \in Sessions : t # s => attached'[t] = attached[t]
      /\ UNCHANGED <<record, buffer, outcome, stored, timer, cmd, told, decision, begun, crashes>>
  BY DEF Suspend, Resume, TypeOK
<1>2. TypeOK' /\ RecordOK' /\ OpsOK'
  BY <1>1 DEF TypeOK, RecordOK, OpsOK, InWork
<1>3. SessionsOK'
  BY <1>1 DEF TypeOK, SessionsOK, Working, Stray, Fresh
<1>4. StoreNone' /\ StorePrepared' /\ StoreCommitted'
  BY <1>1 DEF StoreNone, StorePrepared, StoreCommitted, InWork
<1> QED
  BY <1>2, <1>3, <1>4

\* SemanticState::closed fails the current buffer and leaves a suspended one.
LEMMA CloseKeeps ==
    ASSUME IInv, NEW s \in Sessions, Close(s)
    PROVE  IInv'
<1>1. CASE attached[s] = "active"
  BY <1>1, FailKeeps DEF Close
<1>2. CASE attached[s] = "suspended"
  <2>1. /\ attached'[s] = "detached"
        /\ attached' \in [Sessions -> {"never", "joining", "active", "suspended", "detached"}]
        /\ \A t \in Sessions : t # s => attached'[t] = attached[t]
        /\ UNCHANGED <<record, buffer, outcome, stored, timer, cmd, told, decision, begun,
                       crashes>>
    BY <1>2 DEF Close, IInv, TypeOK
  <2> QED
    BY <2>1, <1>2 DEF IInv, TypeOK, RecordOK, SessionsOK, OpsOK, StoreNone, StorePrepared,
                      StoreCommitted, Working, Stray, Fresh, InWork
<1> QED
  BY <1>1, <1>2 DEF Close

----------------------------------------------------------------------------
(* Every step keeps the invariant: the commands                            *)

\* DtxManager::getWork only looks the record up.
LEMMA CommandKeeps ==
    ASSUME IInv, NEW name \in {"prepare", "commit", "commit1", "rollback"}, Command(name),
           told \in {"none", "prepared"}, decision' \in {"none", "commit", "rollback"}
    PROVE  IInv'
<1> USE DEF IInv
<1>1. /\ cmd = Idle /\ begun
      /\ UNCHANGED <<record, buffer, attached, outcome, stored, timer, begun, crashes>>
  BY DEF Command, branchVars
<1>2. CASE record.known /\ UNCHANGED told /\ cmd' = [Idle EXCEPT !.pc = "work", !.name = name]
  <2>1. /\ cmd' \in [pc : {"idle", "work", "stored", "answer", "remove", "cancel"},
                     name : {"none", "prepare", "commit", "commit1", "rollback"},
                     answer : {"none", "prepared", "committed", "rolledback"}]
        /\ cmd'.pc = "work" /\ cmd.pc = "idle"
    BY <1>1, <1>2 DEF Idle
  <2>2. TypeOK' /\ RecordOK' /\ SessionsOK'
    BY <1>1, <1>2, <2>1 DEF TypeOK, RecordOK, SessionsOK, Working, Stray, Fresh
  <2>3. \A o \in Ops : InWork(o)' <=> InWork(o)
    BY <1>1 DEF InWork
  <2>4. OpsOK'
    BY <1>1, <1>2, <2>1, <2>3 DEF OpsOK
  <2>5. StoreNone' /\ StorePrepared' /\ StoreCommitted'
    BY <1>1, <1>2, <2>1, <2>3 DEF StoreNone, StorePrepared, StoreCommitted
  <2> QED
    BY <2>2, <2>4, <2>5
<1>3. CASE ~record.known /\ told' = "unknown" /\ UNCHANGED cmd
  <2>1. cmd.pc = "idle"
    BY <1>1 DEF Idle
  <2>2. TypeOK' /\ RecordOK' /\ SessionsOK'
    BY <1>1, <1>3, <2>1 DEF TypeOK, RecordOK, SessionsOK, Working, Stray, Fresh
  <2>3. OpsOK' /\ StoreNone' /\ StorePrepared' /\ StoreCommitted'
    BY <1>1, <1>3, <2>1 DEF OpsOK, StoreNone, StorePrepared, StoreCommitted, InWork
  <2> QED
    BY <2>2, <2>3
<1> QED
  BY <1>2, <1>3 DEF Command

\* The transaction manager's four commands start alike.
LEMMA IssueKeeps ==
    ASSUME IInv, IssuePrepare \/ IssueCommit1 \/ IssueCommit \/ IssueRollback
    PROVE  IInv'
<1>1. decision \in {"none", "commit", "rollback"}
  BY DEF IInv, TypeOK
<1> QED
  BY <1>1, CommandKeeps DEF IssuePrepare, IssueCommit1, IssueCommit, IssueRollback

\* check() throws.  Nothing is left in a record that has expired.
LEMMA ExpiredCommandKeeps ==
    ASSUME IInv, ExpiredCommand
    PROVE  IInv'
<1> USE DEF IInv
<1>1. /\ cmd.pc = "work" /\ record.expired
      /\ UNCHANGED <<record, buffer, attached, outcome, stored, timer, told, decision, begun,
                     crashes>>
  BY DEF ExpiredCommand, branchVars
<1>2. /\ cmd' \in [pc : {"idle", "work", "stored", "answer", "remove", "cancel"},
                   name : {"none", "prepare", "commit", "commit1", "rollback"},
                   answer : {"none", "prepared", "committed", "rolledback"}]
      /\ cmd'.pc = "remove" /\ cmd'.answer = "rolledback"
  BY DEF TypeOK, ExpiredCommand
<1>3. TypeOK' /\ RecordOK' /\ SessionsOK'
  BY <1>1, <1>2 DEF TypeOK, RecordOK, SessionsOK, Working, Stray, Fresh
<1>4. stored.state = "none"
  BY <1>1 DEF TypeOK, RecordOK, StorePrepared, StoreCommitted
<1>5. OpsOK' /\ StoreNone' /\ StorePrepared' /\ StoreCommitted'
  BY <1>1, <1>2, <1>4 DEF OpsOK, StoreNone, StorePrepared, StoreCommitted, InWork
<1> QED
  BY <1>3, <1>5

\* check() throws for a part that has not ended and changes nothing.
LEMMA UnendedCommandKeeps ==
    ASSUME IInv, UnendedCommand
    PROVE  IInv'
<1> USE DEF IInv
<1>1. /\ cmd.pc = "work" /\ cmd' = Idle /\ decision' = "none"
      /\ UNCHANGED <<record, buffer, attached, outcome, stored, timer, told, begun, crashes>>
  BY DEF UnendedCommand, branchVars
<1>2. TypeOK' /\ RecordOK' /\ SessionsOK' /\ cmd'.pc = "idle"
  BY <1>1 DEF TypeOK, RecordOK, SessionsOK, Working, Stray, Fresh, Idle
<1>3. OpsOK' /\ StoreNone' /\ StorePrepared' /\ StoreCommitted'
  BY <1>1, <1>2 DEF OpsOK, StoreNone, StorePrepared, StoreCommitted, InWork
<1> QED
  BY <1>2, <1>3

----------------------------------------------------------------------------
(* The steps of a checked branch                                           *)

\* No session works on a branch whose parts have all ended or that has been
\* checked before.
LEMMA NobodyWorks ==
    ASSUME IInv, Checks
    PROVE  /\ record.known /\ ~record.expired /\ cmd.pc = "work" /\ begun
           /\ told \in {"none", "prepared"}
           /\ \A s \in Sessions : /\ attached[s] \in {"never", "joining", "detached"}
                                   /\ ~buffer[s].expired
           /\ \A o \in Ops : outcome[o] \notin {"late", "outside"}
           /\ stored.state # "committed"
           /\ record.completed <=> stored.state = "prepared"
<1> USE DEF IInv, Checks
<1>1. record.known /\ ~record.expired /\ cmd.pc = "work" /\ begun /\ told \in {"none", "prepared"}
  BY DEF RecordOK
<1>2. \A s \in Sessions : ~buffer[s].expired /\ ~Working(s) /\ ~Stray(s)
  BY <1>1 DEF AllEnded, SessionsOK, Working
<1>3. \A s \in Sessions : attached[s] \in {"never", "joining", "detached"}
  BY <1>2 DEF Working, Stray, TypeOK
<1>4. /\ \A o \in Ops : outcome[o] \notin {"late", "outside"}
      /\ stored.state # "committed"
      /\ record.completed <=> stored.state = "prepared"
  BY <1>1 DEF OpsOK, StoreCommitted, StorePrepared, RecordOK, TypeOK
<1> QED
  BY <1>1, <1>2, <1>3, <1>4

\* A branch that check() lets through holds every operation that was ever
\* enlisted: a part that was rolled back would have a failed buffer.
LEMMA NothingMissing ==
    ASSUME IInv, Checks, ~RollbackOnly
    PROVE  \A o \in Ops : outcome[o] # "none" =>
             /\ outcome[o] = "enlisted" /\ InWork(o)
             /\ record.completed => o \in stored.ops
<1> USE DEF IInv
<1> SUFFICES ASSUME NEW o \in Ops, outcome[o] # "none"
             PROVE  /\ outcome[o] = "enlisted" /\ InWork(o)
                    /\ record.completed => o \in stored.ops
  OBVIOUS
<1>1. CASE record.completed
  BY <1>1, NobodyWorks DEF StorePrepared, OpsOK
<1>2. CASE ~record.completed
  <2>1. stored.state = "none" /\ outcome[o] \in {"enlisted", "rolledback"}
    BY <1>2, NobodyWorks DEF TypeOK, StoreNone
  <2>2. ~record.rolledback /\ \A b \in record.work : ~buffer[b].failed
    BY <1>2 DEF RollbackOnly
  <2>3. o[1] \in Sessions /\ o[2] \in 1..MaxOps /\ o = <<o[1], o[2]>>
    BY DEF Ops
  <2>4. attached[o[1]] \notin {"never", "joining"}
    BY <2>3 DEF SessionsOK
  <2>5. o[1] \in record.work
    BY <1>2, <2>3, <2>4, NobodyWorks DEF SessionsOK
  <2>6. outcome[o] # "rolledback"
    BY <1>2, <2>2, <2>5, NobodyWorks DEF OpsOK
  <2> QED
    BY <1>2, <2>1, <2>6 DEF OpsOK
<1> QED
  BY <1>1, <1>2

\* DtxWorkRecord::abort of a checked branch, to be answered at once (prepare)
\* or after the record is removed (commit, rollback).
LEMMA AbortKeeps ==
    ASSUME IInv, Checks, Abort, record' = Checked,
           UNCHANGED <<attached, timer, told, decision, begun, crashes>>,
           cmd' \in [pc : {"idle", "work", "stored", "answer", "remove", "cancel"},
                     name : {"none", "prepare", "commit", "commit1", "rollback"},
                     answer : {"none", "prepared", "committed", "rolledback"}],
           cmd'.pc \in {"answer", "remove"}, cmd'.answer = "rolledback"
    PROVE  IInv'
<1> USE DEF IInv
<1>1. /\ record' \in RecordType
      /\ record'.known /\ record'.work = record.work /\ record'.completed /\ ~record'.expired
  BY CheckedEffect, NobodyWorks
<1>2. /\ buffer' \in [Buffers -> BufferType]
      /\ outcome' \in [Ops -> {"none", "enlisted", "late", "outside", "committed", "rolledback"}]
      /\ \A b \in Buffers :
           /\ buffer'[b].ops = IF b \in record.work THEN {} ELSE buffer[b].ops
           /\ buffer'[b].ended <=> buffer[b].ended
           /\ buffer'[b].failed <=> buffer[b].failed
           /\ buffer'[b].expired <=> buffer[b].expired
      /\ \A o \in Ops : outcome'[o] = IF InWork(o) THEN "rolledback" ELSE outcome[o]
  <2>1. record.work \in SUBSET Buffers /\ Finish(record.work, "rolledback")
    BY DEF Abort, TypeOK, RecordType
  <2> QED
    BY <2>1, FinishEffect DEF InWork
<1>3. stored'.state = "none" /\ stored'.ops = {}
  BY NobodyWorks DEF Abort, StoreAborted, NoTxn, TypeOK, StoreNone
<1>4. \A o \in Ops : outcome'[o] \in {"none", "rolledback"}
  BY <1>2, NobodyWorks DEF OpsOK, StoreNone, StorePrepared, TypeOK
<1>6. TypeOK'
  BY <1>1, <1>2, <1>3 DEF TypeOK, Abort, StoreAborted, NoTxn
<1>7. RecordOK'
  BY <1>1, NobodyWorks DEF RecordOK
<1>8. SessionsOK'
  <2>1. (\A s \in Sessions : attached[s] \in {"never", "joining"} =>
           Fresh(s) /\ \A n \in 1..MaxOps : outcome[<<s, n>>] = "none")'
    <3> SUFFICES ASSUME NEW s \in Sessions, attached[s] \in {"never", "joining"}, NEW n \in 1..MaxOps
                 PROVE  Fresh(s)' /\ outcome'[<<s, n>>] = "none"
      BY <1>2 DEF Fresh, SessionsOK, Buffers
    <3>1. <<s, n>> \in Ops /\ outcome[<<s, n>>] = "none" /\ Fresh(s)
      BY DEF Ops, SessionsOK
    <3>2. ~InWork(<<s, n>>)
      BY <3>1 DEF InWork, OpsOK, TypeOK, RecordType
    <3> QED
      BY <1>2, <3>1, <3>2 DEF Fresh, Buffers
  <2> QED
    BY <1>1, <1>2, <2>1, NobodyWorks DEF SessionsOK, Working, Stray, Buffers
<1>9. OpsOK'
  BY <1>1, <1>2, <1>4 DEF OpsOK
<1>10. StoreNone' /\ StorePrepared' /\ StoreCommitted'
  BY <1>3, <1>4, NobodyWorks DEF StoreNone, StorePrepared, StoreCommitted
<1> QED
  BY <1>6, <1>7, <1>8, <1>9, <1>10

\* DtxWorkRecord::prepare gives the store all that was enlisted, or aborts.
LEMMA PrepareKeeps ==
    ASSUME IInv, Prepare
    PROVE  IInv'
<1> USE DEF IInv
<1>1. Checks /\ UNCHANGED <<attached, timer, told, decision, begun, crashes>>
  BY DEF Prepare
<1>2. CASE /\ Abort /\ record' = Checked
           /\ cmd' = [cmd EXCEPT !.pc = "answer", !.answer = "rolledback"]
  <2>1. /\ cmd' \in [pc : {"idle", "work", "stored", "answer", "remove", "cancel"},
                     name : {"none", "prepare", "commit", "commit1", "rollback"},
                     answer : {"none", "prepared", "committed", "rolledback"}]
        /\ cmd'.pc = "answer" /\ cmd'.answer = "rolledback"
    BY <1>2 DEF TypeOK
  <2> QED
    BY <1>1, <1>2, <2>1, AbortKeeps
<1>3. CASE /\ ~RollbackOnly
           /\ stored' = [state |-> "prepared", ops |-> WorkOps]
           /\ record' = [Checked EXCEPT !.prepared = TRUE]
           /\ cmd' = [cmd EXCEPT !.pc = "answer", !.answer = "prepared"]
           /\ UNCHANGED <<buffer, outcome>>
  <2>1. /\ record' \in RecordType
        /\ record'.known /\ record'.work = record.work /\ record'.completed
        /\ ~record'.rolledback /\ record'.prepared /\ ~record'.expired
    BY <1>1, <1>3, CheckedEffect, NobodyWorks DEF RecordType
  <2>2. \A o \in Ops : InWork(o)' <=> InWork(o)
    BY <1>3, <2>1 DEF InWork
  <2>3. /\ stored'.state = "prepared" /\ stored'.ops \subseteq Ops
        /\ \A o \in Ops : o \in stored'.ops <=> InWork(o)
    BY <1>3 DEF InWork, WorkOps, TypeOK, RecordType, BufferType
  <2>9. /\ cmd' \in [pc : {"idle", "work", "stored", "answer", "remove", "cancel"},
                     name : {"none", "prepare", "commit", "commit1", "rollback"},
                     answer : {"none", "prepared", "committed", "rolledback"}]
        /\ cmd'.pc = "answer" /\ cmd'.answer = "prepared"
    BY <1>3 DEF TypeOK
  <2>4. TypeOK'
    BY <1>1, <1>3, <2>1, <2>3, <2>9 DEF TypeOK
  <2>5. RecordOK' /\ SessionsOK'
    BY <1>1, <1>3, <2>1, <2>3, <2>9, NobodyWorks DEF RecordOK, SessionsOK, Working, Stray, Fresh
  <2>6. OpsOK'
    BY <1>1, <1>3, <2>1, <2>2, <2>9, NobodyWorks DEF OpsOK
  <2>7. StorePrepared'
    <3>1. \A o \in Ops : InWork(o) => outcome[o] # "none"
      BY DEF InWork, OpsOK, TypeOK, RecordType
    <3>2. \A o \in Ops : IF o \in stored'.ops THEN outcome[o] = "enlisted" ELSE outcome[o] = "none"
      BY <1>1, <1>3, <2>3, <3>1, NothingMissing
    <3> QED
      BY <1>1, <1>3, <2>1, <2>2, <2>3, <2>9, <3>2, NobodyWorks DEF StorePrepared
  <2>8. StoreNone' /\ StoreCommitted'
    BY <2>3 DEF StoreNone, StoreCommitted
  <2> QED
    BY <2>4, <2>5, <2>6, <2>7, <2>8
<1> QED
  BY <1>2, <1>3 DEF Prepare

\* The answer of a prepare leaves the branch as it is.
LEMMA AnswerKeeps ==
    ASSUME IInv, Answer
    PROVE  IInv'
<1> USE DEF IInv
<1>1. /\ cmd.pc = "answer" /\ cmd' = Idle /\ told' = cmd.answer
      /\ UNCHANGED <<record, buffer, attached, outcome, stored, timer, decision, begun, crashes>>
  BY DEF Answer, branchVars
<1>2. record.known /\ begun /\ stored.state # "committed" /\ cmd'.pc = "idle"
  BY <1>1 DEF RecordOK, StoreCommitted, Idle
<1>3. TypeOK'
  BY <1>1 DEF TypeOK, RecordOK, Idle
<1>4. RecordOK' /\ SessionsOK' /\ OpsOK'
  BY <1>1, <1>2 DEF RecordOK, SessionsOK, OpsOK, Working, Stray, Fresh, InWork
<1>5. StoreNone' /\ StorePrepared' /\ StoreCommitted'
  BY <1>1, <1>2 DEF RecordOK, StoreNone, StorePrepared, StoreCommitted, InWork
<1> QED
  BY <1>3, <1>4, <1>5

\* What the store commits is all that was enlisted.
LEMMA CommitStoreKeeps ==
    ASSUME IInv, CommitStore
    PROVE  IInv'
<1> USE DEF IInv
<1>1. /\ Checks /\ ~RollbackOnly /\ record' = Checked
      /\ UNCHANGED <<buffer, attached, outcome, timer, told, decision, begun, crashes>>
  BY DEF CommitStore
<1>2. /\ record' \in RecordType
      /\ record'.known /\ record'.work = record.work /\ record'.completed
      /\ ~record'.rolledback /\ (record'.prepared <=> record.prepared) /\ ~record'.expired
  BY <1>1, CheckedEffect, NobodyWorks
<1>3. /\ cmd' \in [pc : {"idle", "work", "stored", "answer", "remove", "cancel"},
                   name : {"none", "prepare", "commit", "commit1", "rollback"},
                   answer : {"none", "prepared", "committed", "rolledback"}]
      /\ cmd'.pc = "stored"
  BY DEF CommitStore, TypeOK
<1>4. \A o \in Ops : InWork(o)' <=> InWork(o)
  BY <1>1, <1>2 DEF InWork
<1>5. WorkOps \subseteq Ops /\ \A o \in Ops : o \in WorkOps <=> InWork(o)
  BY DEF InWork, WorkOps, TypeOK, RecordType, BufferType
<1>6. /\ stored'.state = "committed" /\ stored'.ops \subseteq Ops
      /\ \A o \in Ops : InWork(o) => o \in stored'.ops
      /\ \A o \in Ops : outcome[o] # "none" => outcome[o] = "enlisted" /\ o \in stored'.ops
  <2>1. CASE record.prepared
    <3>1. stored.state = "prepared" /\ stored'.ops = stored.ops /\ stored'.state = "committed"
      BY <1>1, <2>1, NobodyWorks DEF RecordOK, CommitStore
    <3> QED
      BY <3>1 DEF StorePrepared, TypeOK
  <2>2. CASE ~record.prepared
    <3>1. stored'.ops = WorkOps /\ stored'.state = "committed"
      BY <2>2 DEF CommitStore
    <3> QED
      BY <1>1, <1>5, <3>1, NothingMissing
  <2> QED
    BY <2>1, <2>2
<1>7. TypeOK'
  BY <1>1, <1>2, <1>3, <1>6 DEF TypeOK, CommitStore
<1>8. RecordOK' /\ SessionsOK'
  BY <1>1, <1>2, <1>3, NobodyWorks DEF RecordOK, SessionsOK, Working, Stray, Fresh
<1>9. OpsOK'
  BY <1>1, <1>2, <1>3, <1>4, NobodyWorks DEF OpsOK
<1>10. StoreNone' /\ StorePrepared' /\ StoreCommitted'
  BY <1>1, <1>2, <1>3, <1>4, <1>6, NobodyWorks DEF StoreNone, StorePrepared, StoreCommitted
<1> QED
  BY <1>7, <1>8, <1>9, <1>10

\* DtxWorkRecord::commit: what the store has committed, the buffers commit.
LEMMA CommitWorkKeeps ==
    ASSUME IInv, CommitWork
    PROVE  IInv'
<1> USE DEF IInv
<1>1. /\ cmd.pc = "stored"
      /\ UNCHANGED <<record, attached, stored, timer, told, decision, begun, crashes>>
  BY DEF CommitWork
<1>2. /\ stored.state = "committed" /\ record.known /\ record.completed /\ ~record.expired
      /\ begun /\ told \in {"none", "prepared"}
      /\ \A s \in Sessions : ~buffer[s].expired
  BY <1>1 DEF StoreNone, StorePrepared, StoreCommitted, RecordOK, TypeOK
<1>3. /\ cmd' \in [pc : {"idle", "work", "stored", "answer", "remove", "cancel"},
                   name : {"none", "prepare", "commit", "commit1", "rollback"},
                   answer : {"none", "prepared", "committed", "rolledback"}]
      /\ cmd'.pc = "remove" /\ cmd'.answer = "committed"
  BY DEF CommitWork, TypeOK
<1>4. /\ buffer' \in [Buffers -> BufferType]
      /\ outcome' \in [Ops -> {"none", "enlisted", "late", "outside", "committed", "rolledback"}]
      /\ \A b \in Buffers :
           /\ buffer'[b].ops = IF b \in record.work THEN {} ELSE buffer[b].ops
           /\ buffer'[b].ended <=> buffer[b].ended
           /\ buffer'[b].failed <=> buffer[b].failed
           /\ buffer'[b].expired <=> buffer[b].expired
      /\ \A o \in Ops : outcome'[o] = IF InWork(o) THEN "committed" ELSE outcome[o]
  <2>1. record.work \in SUBSET Buffers /\ Finish(record.work, "committed")
    BY DEF CommitWork, TypeOK, RecordType
  <2> QED
    BY <2>1, FinishEffect DEF InWork
<1>5. \A o \in Ops : outcome'[o] # "none" => outcome'[o] = "committed" /\ o \in stored.ops
  BY <1>1, <1>2, <1>4 DEF OpsOK, StoreCommitted
<1>6. \A o \in Ops : ~InWork(o)'
  BY <1>1, <1>4 DEF InWork, TypeOK, RecordType
<1>7. TypeOK' /\ RecordOK'
  BY <1>1, <1>2, <1>3, <1>4 DEF TypeOK, RecordOK
<1>8. SessionsOK'
  <2>1. (\A s \in Sessions : attached[s] \in {"never", "joining"} =>
           Fresh(s) /\ \A n \in 1..MaxOps : outcome[<<s, n>>] = "none")'
    <3> SUFFICES ASSUME NEW s \in Sessions, attached[s] \in {"never", "joining"}, NEW n \in 1..MaxOps
                 PROVE  Fresh(s)' /\ outcome'[<<s, n>>] = "none"
      BY <1>1, <1>4 DEF Fresh, SessionsOK, Buffers
    <3>1. <<s, n>> \in Ops /\ outcome[<<s, n>>] = "none" /\ Fresh(s)
      BY DEF Ops, SessionsOK
    <3>2. ~InWork(<<s, n>>)
      BY <3>1 DEF InWork, OpsOK, TypeOK, RecordType
    <3> QED
      BY <1>4, <3>1, <3>2 DEF Fresh, Buffers
  <2> QED
    BY <1>1, <1>2, <1>4, <2>1 DEF SessionsOK, Working, Stray, Buffers
<1>9. OpsOK'
  BY <1>1, <1>2, <1>4, <1>5 DEF OpsOK
<1>10. StoreNone' /\ StorePrepared' /\ StoreCommitted'
  BY <1>1, <1>2, <1>3, <1>4, <1>5, <1>6
     DEF StoreNone, StorePrepared, StoreCommitted, Buffers
<1> QED
  BY <1>7, <1>8, <1>9, <1>10

\* A rollback, or a commit that finds the branch rollback only, aborts it.
LEMMA CommitAbortsKeeps ==
    ASSUME IInv, CommitAborts \/ Rollback
    PROVE  IInv'
<1>1. /\ Checks /\ Abort /\ record' = Checked
      /\ cmd' = [cmd EXCEPT !.pc = "remove", !.answer = "rolledback"]
      /\ UNCHANGED <<attached, timer, told, decision, begun, crashes>>
  BY DEF CommitAborts, Rollback
<1>2. /\ cmd' \in [pc : {"idle", "work", "stored", "answer", "remove", "cancel"},
                   name : {"none", "prepare", "commit", "commit1", "rollback"},
                   answer : {"none", "prepared", "committed", "rolledback"}]
      /\ cmd'.pc = "remove" /\ cmd'.answer = "rolledback"
  BY <1>1 DEF IInv, TypeOK
<1> QED
  BY <1>1, <1>2, AbortKeeps

\* DtxManager::remove.  Nothing is left in the record that goes.
LEMMA RemoveKeeps ==
    ASSUME IInv, Remove
    PROVE  IInv'
<1> USE DEF IInv
<1>1. /\ cmd.pc = "remove"
      /\ UNCHANGED <<buffer, attached, outcome, stored, timer, told, decision, begun, crashes>>
  BY DEF Remove
<1>2. /\ record' \in RecordType
      /\ ~record'.known /\ record'.work = {} /\ ~record'.completed /\ ~record'.rolledback
      /\ ~record'.prepared /\ ~record'.expired
  BY DEF Remove, NoRecord, RecordType
<1>3. /\ cmd' \in [pc : {"idle", "work", "stored", "answer", "remove", "cancel"},
                   name : {"none", "prepare", "commit", "commit1", "rollback"},
                   answer : {"none", "prepared", "committed", "rolledback"}]
      /\ cmd'.pc = "cancel" /\ cmd'.answer = cmd.answer
  BY DEF Remove, TypeOK
<1>4. \A s \in Sessions : ~Working(s)
  BY <1>1 DEF SessionsOK, RecordOK
<1>5. TypeOK' /\ RecordOK'
  BY <1>1, <1>2, <1>3 DEF TypeOK, RecordOK
<1>6. SessionsOK'
  BY <1>1, <1>2, <1>4 DEF SessionsOK, Working, Stray, Fresh
<1>7. OpsOK'
  BY <1>1, <1>2 DEF OpsOK, InWork
<1>8. StoreNone' /\ StorePrepared' /\ StoreCommitted'
  BY <1>1, <1>2, <1>3 DEF StoreNone, StorePrepared, StoreCommitted
<1> QED
  BY <1>5, <1>6, <1>7, <1>8

\* The answer of the command is given when its record is gone.
LEMMA CancelTimeoutKeeps ==
    ASSUME IInv, CancelTimeout
    PROVE  IInv'
<1> USE DEF IInv
<1>1. /\ cmd.pc = "cancel" /\ timer' = "cancelled" /\ cmd' = Idle /\ told' = cmd.answer
      /\ UNCHANGED <<record, buffer, attached, outcome, stored, decision, begun, crashes>>
  BY DEF CancelTimeout
<1>2. ~record.known /\ begun /\ stored.state # "prepared" /\ cmd'.pc = "idle"
  BY <1>1 DEF RecordOK, StorePrepared, Idle
<1>3. TypeOK'
  BY <1>1 DEF TypeOK, Idle
<1>4. RecordOK' /\ SessionsOK' /\ OpsOK'
  BY <1>1, <1>2 DEF RecordOK, SessionsOK, OpsOK, Working, Stray, Fresh, InWork
<1>5. StoreNone' /\ StorePrepared' /\ StoreCommitted'
  BY <1>1, <1>2 DEF StoreNone, StorePrepared, StoreCommitted
<1> QED
  BY <1>3, <1>4, <1>5

----------------------------------------------------------------------------
(* Every step keeps the invariant: the timer and the crash                 *)

\* The timer thread takes the task; nothing else changes.
LEMMA FireTimeoutKeeps ==
    ASSUME IInv, FireTimeout
    PROVE  IInv'
<1>1. /\ timer' = "calling"
      /\ UNCHANGED <<record, buffer, attached, outcome, stored, cmd, told, decision, begun, crashes>>
  BY DEF FireTimeout
<1> QED
  BY <1>1 DEF IInv, TypeOK, RecordOK, SessionsOK, OpsOK, StoreNone, StorePrepared, StoreCommitted,
              Working, Stray, Fresh, InWork

\* DtxWorkRecord::timedout rolls back all that is still in the record, fails
\* the buffers of the sessions at work and aborts a prepared transaction; a
\* record whose commit has reached the store has nothing left to roll back.
LEMMA TimedoutKeeps ==
    ASSUME IInv, Timedout
    PROVE  IInv'
<1> USE DEF IInv
<1>1. /\ timer' = "done" /\ cmd.pc # "cancel"
      /\ UNCHANGED <<attached, cmd, told, decision, begun, crashes>>
  BY DEF Timedout, ManagerFree
<1>2. CASE ~record.known
  <2>1. UNCHANGED <<record, buffer, outcome, stored>>
    BY <1>2 DEF Timedout
  <2> QED
    BY <1>1, <2>1 DEF TypeOK, RecordOK, SessionsOK, OpsOK, StoreNone, StorePrepared,
                      StoreCommitted, Working, Stray, Fresh, InWork
<1>3. CASE record.known
  <2>1. /\ cmd.pc # "stored"
        /\ record' = [record EXCEPT !.expired = TRUE, !.rolledback = TRUE]
        /\ stored' = StoreAborted
        /\ outcome' = [o \in Ops |-> IF o \in WorkOps THEN "rolledback" ELSE outcome[o]]
        /\ buffer' = [b \in Buffers |->
             IF b \notin record.work THEN buffer[b]
             ELSE IF record.completed \/ buffer[b].ended THEN [buffer[b] EXCEPT !.ops = {}]
             ELSE [ops |-> {}, ended |-> TRUE, failed |-> TRUE, expired |-> TRUE]]
    BY <1>3 DEF Timedout, RecordFree
  <2>2. /\ record' \in RecordType
        /\ record'.known /\ record'.work = record.work /\ record'.expired /\ record'.rolledback
        /\ (record'.completed <=> record.completed) /\ (record'.prepared <=> record.prepared)
    BY <1>3, <2>1 DEF TypeOK, RecordType
  <2>3. \A o \in Ops : o \in WorkOps <=> InWork(o)
    BY DEF InWork, WorkOps, TypeOK, RecordType
  <2>4. /\ outcome' \in [Ops -> {"none", "enlisted", "late", "outside", "committed", "rolledback"}]
        /\ \A o \in Ops : outcome'[o] = IF InWork(o) THEN "rolledback" ELSE outcome[o]
    BY <2>1, <2>3 DEF TypeOK
  <2>5. /\ buffer' \in [Buffers -> BufferType]
        /\ \A b \in Buffers :
             /\ buffer'[b].ops = IF b \in record.work THEN {} ELSE buffer[b].ops
             /\ buffer[b].expired => buffer'[b].expired
             /\ record.completed => (buffer'[b].expired <=> buffer[b].expired)
             /\ b \notin record.work => buffer'[b] = buffer[b]
             /\ b \in record.work /\ ~record.completed /\ ~buffer[b].ended => buffer'[b].expired
    BY <2>1 DEF TypeOK, BufferType
  <2>6. StoreNone' /\ StorePrepared' /\ StoreCommitted'
    <3>1. CASE stored.state = "committed"
      <4>1. cmd.pc = "remove" /\ record.completed /\ stored' = stored
        BY <1>3, <2>1, <3>1 DEF StoreCommitted, StoreAborted
      <4>2. \A o \in Ops : ~InWork(o) /\ ~InWork(o)' /\ outcome'[o] = outcome[o]
        BY <1>3, <2>2, <2>4, <2>5, <3>1, <4>1 DEF StoreCommitted, InWork, TypeOK, RecordType
      <4> QED
        BY <1>1, <2>2, <2>5, <3>1, <4>1, <4>2
           DEF StoreNone, StorePrepared, StoreCommitted, Buffers
    <3>2. CASE stored.state # "committed"
      <4>1. stored'.state = "none" /\ stored'.ops = {}
        BY <2>1, <3>2 DEF StoreAborted, NoTxn, StoreNone, TypeOK
      <4>2. /\ \A o \in Ops : outcome[o] # "committed"
            /\ told # "committed" /\ cmd.pc # "stored"
            /\ cmd.pc \in {"remove", "cancel"} => cmd.answer = "rolledback"
        BY <2>1, <3>2 DEF StoreNone, StorePrepared, TypeOK
      <4> QED
        BY <1>1, <2>4, <4>1, <4>2 DEF StoreNone, StorePrepared, StoreCommitted
    <3> QED
      BY <3>1, <3>2
  <2>7. TypeOK'
    BY <1>1, <2>1, <2>2, <2>4, <2>5 DEF TypeOK, StoreAborted, NoTxn
  <2>8. RecordOK'
    BY <1>1, <1>3, <2>2 DEF RecordOK
  <2>9. SessionsOK'
    <3>1. (\A s \in Sessions : attached[s] \in {"never", "joining"} =>
             Fresh(s) /\ \A n \in 1..MaxOps : outcome[<<s, n>>] = "none")'
      <4> SUFFICES ASSUME NEW s \in Sessions, attached[s] \in {"never", "joining"}, NEW n \in 1..MaxOps
                   PROVE  Fresh(s)' /\ outcome'[<<s, n>>] = "none"
        BY <1>1, <2>5 DEF Fresh, SessionsOK, Buffers
      <4>1. <<s, n>> \in Ops /\ outcome[<<s, n>>] = "none" /\ Fresh(s) /\ s \notin record.work
        BY DEF Ops, SessionsOK
      <4>2. ~InWork(<<s, n>>)
        BY <4>1 DEF InWork, OpsOK, TypeOK, RecordType
      <4> QED
        BY <2>4, <2>5, <4>1, <4>2 DEF Fresh, Buffers
    <3>2. \A s \in Sessions : ~Working(s)'
      BY <1>1, <2>2, <2>5 DEF Working, SessionsOK, Buffers
    <3>3. (\A s \in Sessions : Stray(s) => \A o \in buffer[s].ops : outcome[o] = "outside")'
      <4> SUFFICES ASSUME NEW s \in Sessions, Stray(s)', NEW o \in buffer'[s].ops
                   PROVE  outcome'[o] = "outside"
        OBVIOUS
      <4>1. s \in Buffers /\ s \notin record.work
        BY <2>2 DEF Stray, Buffers
      <4>2. Stray(s) /\ buffer'[s] = buffer[s]
        BY <1>1, <2>2, <2>5, <4>1 DEF Stray
      <4>3. o \in Ops
        BY <4>1, <4>2 DEF TypeOK, BufferType
      <4> QED
        BY <2>4, <4>2, <4>3 DEF SessionsOK, OpsOK
    <3> QED
      BY <1>1, <1>3, <2>2, <2>5, <3>1, <3>2, <3>3 DEF SessionsOK, Buffers
  <2>10. OpsOK'
    <3>1. \A o \in Ops : ~InWork(o)'
      BY <2>2, <2>5 DEF InWork, RecordType
    <3> QED
      BY <2>2, <2>4, <2>5, <3>1 DEF OpsOK
  <2> QED
    BY <2>6, <2>7, <2>8, <2>9, <2>10
<1> QED
  BY <1>2, <1>3 DEF TypeOK, RecordType

\* A crash leaves what the store has: a prepared transaction comes back with
\* exactly its operations.
LEMMA CrashKeeps ==
    ASSUME IInv, Crash
    PROVE  IInv'
<1> USE DEF IInv
<1>1. /\ cmd' = Idle /\ cmd'.pc = "idle" /\ crashes' \in 0..MaxCrashes
      /\ decision' \in {"none", "commit", "rollback"}
      /\ UNCHANGED <<stored, told, begun>>
      /\ timer' \in {"none", "waiting", "calling", "done", "cancelled"}
  BY DtxAssumption DEF Crash, Idle, TypeOK
<1>2. /\ attached' \in [Sessions -> {"never", "joining", "active", "suspended", "detached"}]
      /\ \A s \in Sessions : attached'[s] = IF attached[s] = "never" THEN "never" ELSE "detached"
  BY DEF Crash
<1>3. /\ outcome' \in [Ops -> {"none", "enlisted", "late", "outside", "committed", "rolledback"}]
      /\ \A o \in Ops : outcome'[o] =
           IF outcome[o] \in {"none", "outside"} THEN outcome[o]
           ELSE IF o \notin stored.ops THEN "rolledback"
           ELSE IF stored.state = "committed" THEN "committed" ELSE "enlisted"
  BY DEF Crash
<1>4. /\ buffer' \in [Buffers -> BufferType]
      /\ \A b \in Buffers :
           /\ ~buffer'[b].failed /\ ~buffer'[b].expired
           /\ b # Recovered => buffer'[b].ops = {} /\ ~buffer'[b].ended
      /\ buffer'[Recovered].ops = IF stored.state = "prepared" THEN stored.ops ELSE {}
  <2>1. NewBuffer \in BufferType
    BY DEF NewBuffer, BufferType
  <2>2. CASE stored.state = "prepared"
    <3> DEFINE recovered == [NewBuffer EXCEPT !.ops = stored.ops, !.ended = TRUE]
    <3>1. buffer' = [b \in Buffers |-> IF b = Recovered THEN recovered ELSE NewBuffer]
      BY <2>2 DEF Crash
    <3>2. /\ recovered \in BufferType /\ recovered.ops = stored.ops
          /\ ~recovered.failed /\ ~recovered.expired
      BY DEF NewBuffer, BufferType, TypeOK
    <3> HIDE DEF recovered
    <3> QED
      BY <2>1, <2>2, <3>1, <3>2 DEF NewBuffer, Buffers
  <2>3. CASE stored.state # "prepared"
    <3>1. buffer' = [b \in Buffers |-> NewBuffer]
      BY <2>3 DEF Crash
    <3> QED
      BY <2>1, <2>3, <3>1 DEF NewBuffer, Buffers
  <2> QED
    BY <2>2, <2>3
<1>5. /\ record' \in RecordType
      /\ ~record'.rolledback /\ ~record'.expired
      /\ IF stored.state = "prepared"
         THEN record'.known /\ record'.work = {Recovered} /\ record'.completed /\ record'.prepared
         ELSE ~record'.known /\ record'.work = {} /\ ~record'.completed /\ ~record'.prepared
  <2>1. CASE stored.state = "prepared"
    BY <2>1 DEF Crash, NewRecord, NoRecord, RecordType, Buffers
  <2>2. CASE stored.state # "prepared"
    <3>1. record' = NoRecord
      BY <2>2 DEF Crash
    <3> QED
      BY <2>2, <3>1 DEF NoRecord, RecordType
  <2> QED
    BY <2>1, <2>2
<1>6. \A s \in Sessions : s \in Buffers /\ s # Recovered
  BY DtxAssumption DEF Buffers
<1>7. TypeOK'
  BY <1>1, <1>2, <1>3, <1>4, <1>5 DEF TypeOK, Idle
<1>8. RecordOK'
  BY <1>1, <1>5 DEF RecordOK, StorePrepared
<1>9. SessionsOK'
  <2>1. \A s \in Sessions : ~Working(s)' /\ ~Stray(s)'
    BY <1>2 DEF Working, Stray
  <2> QED
    BY <1>1, <1>2, <1>3, <1>4, <1>5, <1>6, <2>1 DEF SessionsOK, Fresh, Ops
<1>10. stored.state = "prepared" =>
         \A o \in Ops : /\ outcome'[o] = outcome[o]
                        /\ InWork(o)' <=> o \in stored.ops
  BY <1>3, <1>4, <1>5 DEF StorePrepared, InWork
<1>11. OpsOK'
  <2>1. CASE stored.state = "prepared"
    BY <1>1, <1>4, <1>5, <1>10, <2>1 DEF OpsOK, StorePrepared
  <2>2. CASE stored.state = "none"
    BY <1>1, <1>3, <1>4, <1>5, <2>2 DEF OpsOK, StoreNone, InWork
  <2>3. CASE stored.state = "committed"
    BY <1>1, <1>3, <1>4, <1>5, <2>3 DEF OpsOK, StoreCommitted, InWork
  <2> QED
    BY <2>1, <2>2, <2>3 DEF TypeOK
<1>12. StoreNone'
  BY <1>1, <1>3 DEF StoreNone
<1>13. StorePrepared'
  BY <1>1, <1>5, <1>10 DEF StorePrepared
<1>14. StoreCommitted'
  BY <1>1, <1>2, <1>3, <1>4, <1>5 DEF StoreCommitted, Buffers
<1> QED
  BY <1>7, <1>8, <1>9, <1>11, <1>12, <1>13, <1>14

----------------------------------------------------------------------------
(* The theorems                                                            *)

\* The broker starts without a branch.
LEMMA InitKeeps ==
    ASSUME Init
    PROVE  IInv
<1> USE DEF Init
<1>1. TypeOK
  <2>1. NoRecord \in RecordType /\ NewBuffer \in BufferType
    BY DEF NoRecord, RecordType, NewBuffer, BufferType
  <2>2. /\ stored \in [state : {"none", "prepared", "committed"}, ops : SUBSET Ops]
        /\ cmd \in [pc : {"idle", "work", "stored", "answer", "remove", "cancel"},
                    name : {"none", "prepare", "commit", "commit1", "rollback"},
                    answer : {"none", "prepared", "committed", "rolledback"}]
    BY DEF NoTxn, Idle
  <2>3. begun \in BOOLEAN
    BY Zenon
  <2>4. crashes \in 0..MaxCrashes
    BY DtxAssumption
  <2> QED
    BY <2>1, <2>2, <2>3, <2>4 DEF TypeOK
<1>2. RecordOK /\ StoreNone /\ StorePrepared /\ StoreCommitted
  BY DEF RecordOK, StoreNone, StorePrepared, StoreCommitted, NoRecord, NoTxn, Idle
<1>3. SessionsOK
  BY DEF SessionsOK, Working, Stray, Fresh, NoRecord, NewBuffer, Ops, Buffers
<1>4. OpsOK
  BY DEF OpsOK, NoRecord, NewBuffer
<1> QED
  BY <1>1, <1>2, <1>3, <1>4 DEF IInv

\* IInv is an inductive invariant of the branch: every critical section of the
\* manager, of the record, of a session and of the timer, and every crash, keeps it.
THEOREM Inductive == Spec => []IInv
<1>1. Init => IInv
  BY InitKeeps
<1>2. ASSUME IInv, [Next]_vars
      PROVE  IInv'
  <2>1. CASE UNCHANGED vars
    BY <1>2, <2>1 DEF vars, branchVars, IInv, TypeOK, RecordOK, SessionsOK, OpsOK, StoreNone,
                      StorePrepared, StoreCommitted, Working, Stray, Fresh, InWork
  <2>2. CASE \E s \in Sessions : Start(s) \/ Join(s) \/ AddJoin(s) \/ Enlist(s) \/ End(s)
                                   \/ Suspend(s) \/ Resume(s) \/ Close(s)
    BY <1>2, <2>2, StartKeeps, JoinKeeps, JoinAddedKeeps, JoinRefusedKeeps, EnlistKeeps, EndKeeps,
       SuspendResumeKeeps, CloseKeeps
  <2>3. CASE IssuePrepare \/ IssueCommit1 \/ IssueCommit \/ IssueRollback
    BY <1>2, <2>3, IssueKeeps
  <2>4. CASE ExpiredCommand \/ UnendedCommand
    BY <1>2, <2>4, ExpiredCommandKeeps, UnendedCommandKeeps
  <2>5. CASE Prepare \/ Answer \/ CommitStore \/ CommitWork \/ CommitAborts \/ Rollback
    BY <1>2, <2>5, PrepareKeeps, AnswerKeeps, CommitStoreKeeps, CommitWorkKeeps, CommitAbortsKeeps
  <2>6. CASE Remove \/ CancelTimeout \/ FireTimeout \/ Timedout \/ Crash
    BY <1>2, <2>6, RemoveKeeps, CancelTimeoutKeeps, FireTimeoutKeeps, TimedoutKeeps, CrashKeeps
  <2> QED
    BY <1>2, <2>1, <2>2, <2>3, <2>4, <2>5, <2>6 DEF Next
<1> QED
  BY <1>1, <1>2, PTL DEF Spec

\* The operations of a branch never end in different ways, whichever sessions
\* fail, wherever the timeout fires and wherever the broker crashes.
THEOREM AtomicOutcome == Spec => []AllOrNothing
<1>1. IInv => AllOrNothing
  BY DEF IInv, AllOrNothing, TypeOK, StoreNone, StorePrepared, StoreCommitted
<1> QED
  BY <1>1, Inductive, PTL

\* XA_OK to a commit means that everything is committed, in memory and in the
\* store; an answer that the branch was rolled back means that nothing is.
THEOREM AnswerIsTrue == Spec => []OutcomeIsAsTold
<1>1. IInv => OutcomeIsAsTold
  <2> SUFFICES ASSUME IInv PROVE OutcomeIsAsTold
    OBVIOUS
  <2>1. CASE told = "committed"
    <3>1. stored.state = "committed" /\ cmd.pc # "stored"
      BY <2>1 DEF IInv, TypeOK, StoreNone, StorePrepared, RecordOK
    <3> QED
      BY <2>1, <3>1 DEF IInv, OutcomeIsAsTold, StoreCommitted
  <2>2. CASE told = "rolledback"
    <3>1. stored.state = "none"
      BY <2>2 DEF IInv, TypeOK, StorePrepared, StoreCommitted
    <3> QED
      BY <2>2, <3>1 DEF IInv, OutcomeIsAsTold, StoreNone
  <2> QED
    BY <2>1, <2>2 DEF OutcomeIsAsTold
<1> QED
  BY <1>1, Inductive, PTL

\* DtxManager::remove and a crash leave no operation of a session undecided.
THEOREM NothingLeftBehind == Spec => []NothingForgotten
<1>1. IInv => NothingForgotten
  BY DEF IInv, OpsOK, NothingForgotten
<1> QED
  BY <1>1, Inductive, PTL
=============================================================================
