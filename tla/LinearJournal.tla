--------------------------- MODULE LinearJournal ---------------------------
(***************************************************************************)
(* The journal of one queue in the linear store: wmgr encodes records into *)
(* the current page of its cache, submits pages to the current file, takes *)
(* the next file from the empty file pool when one is full, and learns of  *)
(* completed writes later; LinearFileController counts the live records of *)
(* each file and gives the leading files back when they have none;         *)
(* RecoveryManager reads the files after a crash and rebuilds the maps.    *)
(*                                                                         *)
(* A file holds FileDblks blocks after its header; a record takes one or   *)
(* more of them and may continue in the next page and in the next file.    *)
(* Writes reach the disk and are reported in the order of their            *)
(* submission; a crash loses a suffix of them and may tear the first that  *)
(* is lost.  The list of prepared transactions (another journal, the TPL)  *)
(* is external: tpl.                                                       *)
(***************************************************************************)
EXTENDS Integers, Sequences, FiniteSets, SequencesExt, FiniteSetsExt

CONSTANTS
    Messages,       \* messages, which stand for their record ids as well
    Xids,           \* transactions
    None,           \* no message, no transaction
    EnqDblks,       \* blocks of an enqueue record; the others take one
    SblkDblks,      \* blocks a write is rounded up to
    PageDblks,      \* blocks of a page of the cache
    FileDblks,      \* blocks of a file, without its header
    CachePages,     \* pages of the cache
    PurgeInterval,  \* decrements between two purges (100 in the code)
    MaxCrashes      \* bound on the crashes

ASSUME SizeAssumption ==
    /\ {EnqDblks, SblkDblks, PageDblks, FileDblks, CachePages, PurgeInterval} \subseteq Nat \ {0}
    /\ PageDblks % SblkDblks = 0 /\ FileDblks % PageDblks = 0
    /\ EnqDblks < FileDblks     \* no record fills a file: see file_header_check

VARIABLES
    disk,      \* the files in the journal directory, with their contents
    efp,       \* contents of the files in the empty file pool
    tpl,       \* what the list of prepared transactions says of each xid
    up,        \* the broker runs
    files,     \* journalFileList_, the last one current
    lastFid,   \* fileSeqCounter_
    serials,   \* serial numbers used
    decr,      \* decrCounter_
    emap,      \* file of the record of each enqueued message, or 0
    tmap,      \* operations of each open transaction
    cached,    \* blocks encoded into the current page and not yet submitted
    toks,      \* data tokens whose records end in those blocks
    inflight,  \* writes submitted and not yet reported
    cur,       \* the record that is being encoded
    waiting,   \* wmgr::get_events waits for a write, with the journal locked
    told,      \* what the broker knows of each message
    asked,     \* messages whose removal is under way
    ended,     \* transactions that are over: their xids are not used again
    voted,     \* operations of each transaction when it was prepared
    crashes

memory == <<files, lastFid, decr, emap, tmap, cached, toks, inflight, cur, waiting>>
history == <<told, asked, ended, voted, crashes>>
vars == <<disk, efp, tpl, up, serials, memory, history>>

---------------------------------------------------------------------------
(* Records and blocks.                                                     *)

Record(op, m, x, serial) ==
    [op |-> op, msg |-> m, xid |-> x, serial |-> serial,
     size |-> IF op = "enq" THEN EnqDblks ELSE 1]

Clean == [op |-> "none", msg |-> None, xid |-> None, serial |-> 0, size |-> 0]
Empty == [op |-> "empty", msg |-> None, xid |-> None, serial |-> 0, size |-> 1]

Block(rec, k) == [rec |-> rec, k |-> k]
Blank == [i \in 1..FileDblks |-> Block(Clean, 0)]
Filler(n) == [i \in 1..n |-> Block(Empty, 1)]

NotEncoding == [rec |-> Clean, done |-> 0, fid |-> 0, cont |-> FALSE]

RoundUp(n) == ((n + SblkDblks - 1) \div SblkDblks) * SblkDblks

Hdr == 1
Current == Last(files)
Position == (IF Current.submitted = 0 THEN 0 ELSE Current.submitted - Hdr) + Len(cached)

Op(enq, m, fid, synced) == [enq |-> enq, msg |-> m, fid |-> fid, synced |-> synced]
Enqs(ops) == {o \in ops : o.enq}
Deqs(ops) == {o \in ops : ~o.enq}
Plain(ops) == {<<o.enq, o.msg>> : o \in ops}
Locked(m) == \E x \in Xids : \E o \in Deqs(tmap[x]) : o.msg = m

Blocks == [rec : [op : {"none", "empty", "enq", "deq", "commit", "abort"},
                  msg : Messages \cup {None}, xid : Xids \cup {None},
                  serial : 0..serials, size : Nat], k : 0..EnqDblks]

TypeOK ==
    /\ \A i \in DOMAIN disk :
          /\ DOMAIN disk[i] = {"fid", "serial", "hdr", "fro", "data"}
          /\ disk[i].fro \in 0 .. FileDblks - 1 /\ disk[i].serial \in 1..serials
          /\ DOMAIN disk[i].data = 1..FileDblks
          /\ \A k \in 1..FileDblks : disk[i].data[k] \in Blocks
    /\ tpl \in [Xids -> {"none", "prepared", "commit", "abort"}]
    /\ up => /\ [i \in DOMAIN files |-> files[i].fid] = [i \in DOMAIN disk |-> disk[i].fid]
             /\ \A i \in DOMAIN files :
                   /\ files[i].count \in Nat
                   /\ 0 <= files[i].completed /\ files[i].completed <= files[i].submitted
                   /\ files[i].submitted <= FileDblks + Hdr
             /\ Current.fid <= lastFid
             /\ Position < FileDblks \/ waiting
    /\ emap \in [Messages -> Nat]
    /\ told \in [Messages -> {"nothing", "sent", "stored", "removed"}]
    /\ asked \subseteq Messages /\ ended \subseteq Xids
    /\ \A i, j \in DOMAIN disk : i < j => disk[i].fid < disk[j].fid /\ disk[i].serial # disk[j].serial

---------------------------------------------------------------------------
(* Files.                                                                  *)

\* Mutant of NewFile: the file keeps the serial number of the one before.
NewFileOldSerial(data, fid) ==
    [fid |-> fid, serial |-> serials, hdr |-> FALSE, fro |-> 0, data |-> data]

\* LinearFileController::getNextJournalFile, EmptyFilePool::takeEmptyFile:
\* the next file keeps the contents it had, with a header that says nothing.
NewFile(data, fid) ==
    [fid |-> fid, serial |-> serials + 1, hdr |-> FALSE, fro |-> 0, data |-> data]
NewJournalFile(fid) == [fid |-> fid, count |-> 0, submitted |-> 0, completed |-> 0]
Take(pool) == IF pool = <<>> THEN Blank ELSE Head(pool)
Rest(pool) == IF pool = <<>> THEN <<>> ELSE Tail(pool)

find(fs, fid) == CHOOSE i \in DOMAIN fs : fs[i].fid = fid
Put(fs, fid, Change(_)) == [fs EXCEPT ![find(fs, fid)] = Change(@)]

\* data with the blocks after offset o replaced.
Overwrite(data, o, blocks) ==
    SubSeq(data, 1, o) \o blocks \o SubSeq(data, o + Len(blocks) + 1, Len(data))

\* JournalFile::isNoEnqueuedRecordsRemaining
NoneRemaining(f) == f.completed = FileDblks + Hdr /\ f.count = 0

\* How many leading files go, of those that may: never the last file.
Leading(gone) == Max({n \in 0 .. Len(gone) - 1 : \A i \in 1..n : gone[i]})

\* Mutant of Purged: every file without records goes, wherever it is.
PurgedAnywhere(fs) == SelectSeq(SubSeq(fs, 1, Len(fs) - 1), LAMBDA f : ~NoneRemaining(f)) \o <<Last(fs)>>

\* LinearFileController::purgeEmptyFilesToEfp
Purged(fs) ==
    LET gone == [i \in DOMAIN fs |-> NoneRemaining(fs[i])]
    IN  SubSeq(fs, Leading(gone) + 1, Len(fs))

\* Mutant of Counted: in the file where the record ends.
CountedWhereItEnds(fs, fid) == Put(fs, Last(fs).fid, LAMBDA f : [f EXCEPT !.count = @ + 1])

\* LinearFileController::incrEnqueuedRecordCount, for the file where the
\* record begins.
Counted(fs, fid) == Put(fs, fid, LAMBDA f : [f EXCEPT !.count = @ + 1])

\* LinearFileController::decrEnqueuedRecordCount for each of some records:
\* pairs of a message and the file of its record.
Decremented(fs, n, released) ==
    FoldSet(LAMBDA r, s :
               LET less == Put(s.files, r[2], LAMBDA f : [f EXCEPT !.count = @ - 1])
               IN  [files |-> IF (s.decr + 1) % PurgeInterval = 0 THEN Purged(less) ELSE less,
                    decr  |-> (s.decr + 1) % PurgeInterval],
            [files |-> fs, decr |-> n], released)

\* EmptyFilePool::returnEmptyFileSymlink for the files of the directory that
\* left the list: their headers are reset, their contents stay.
Listed(d, fs) == SelectSeq(d, LAMBDA f : \E i \in DOMAIN fs : fs[i].fid = f.fid)
Returned(d, fs) ==
    LET gone == SelectSeq(d, LAMBDA f : ~\E i \in DOMAIN fs : fs[i].fid = f.fid)
    IN  [i \in DOMAIN gone |-> gone[i].data]

\* The first n blocks of a write reach the disk.
Land(d, w, n) ==
    Put(d, w.fid,
        LAMBDA f : IF w.header
                   THEN [f EXCEPT !.hdr = TRUE, !.fro = w.fro]
                   ELSE [f EXCEPT !.data = Overwrite(@, w.from, SubSeq(w.blocks, 1, n))])

Landed(d, ws) == FoldLeft(LAMBDA s, w : Land(s, w, Len(w.blocks)), d, ws)

---------------------------------------------------------------------------
(***************************************************************************)
(* wmgr: encoding and submission.                                          *)
(***************************************************************************)

\* The token of a record that is completely encoded: the records it releases,
\* with their files, and the messages it makes permanent.
TokenOf(rec) ==
    LET ops == IF rec.xid = None THEN {} ELSE tmap[rec.xid]
        fileOf(m) == IF emap[m] # 0 THEN emap[m] ELSE (CHOOSE o \in Enqs(ops) : o.msg = m).fid
    IN  [rec |-> rec,
         released |->
            CASE rec.op = "deq" /\ rec.xid = None -> {<<rec.msg, emap[rec.msg]>>}
              [] rec.op = "commit" -> {<<o.msg, fileOf(o.msg)>> : o \in Deqs(ops)}
              [] rec.op = "abort" -> {<<o.msg, o.fid>> : o \in Enqs(ops)}
              [] OTHER -> {},
         stored |->
            CASE rec.op = "enq" /\ rec.xid = None -> {rec.msg}
              [] rec.op = "commit" -> {o.msg : o \in Enqs(ops)}
              [] OTHER -> {}]

\* What it does to the maps: the ends of wmgr::enqueue, dequeue, commit, abort.
Enter(rec, fid) ==
    IF rec.xid = None
    THEN /\ emap' = [emap EXCEPT ![rec.msg] = IF rec.op = "enq" THEN fid ELSE 0]
         /\ UNCHANGED tmap
    ELSE LET ops == tmap[rec.xid]
         IN  CASE rec.op = "enq" ->
                    /\ tmap' = [tmap EXCEPT ![rec.xid] = @ \cup {Op(TRUE, rec.msg, fid, FALSE)}]
                    /\ UNCHANGED emap
               [] rec.op = "deq" ->
                    /\ tmap' = [tmap EXCEPT ![rec.xid] = @ \cup {Op(FALSE, rec.msg, 0, FALSE)}]
                    /\ UNCHANGED emap
               [] rec.op = "commit" ->
                    /\ emap' = [m \in Messages |->
                                  IF \E o \in Deqs(ops) : o.msg = m THEN 0
                                  ELSE IF \E o \in Enqs(ops) : o.msg = m
                                  THEN (CHOOSE o \in Enqs(ops) : o.msg = m).fid
                                  ELSE emap[m]]
                    /\ tmap' = [tmap EXCEPT ![rec.xid] = {}]
               [] rec.op = "abort" ->
                    /\ tmap' = [tmap EXCEPT ![rec.xid] = {}]
                    /\ UNCHANGED emap

HeaderWrite(fro) ==
    [fid |-> Current.fid, header |-> TRUE, fro |-> fro, from |-> 0, blocks |-> <<>>, toks |-> <<>>]

PageWrite(blocks, tokens) ==
    [fid |-> Current.fid, header |-> FALSE, fro |-> 0,
     from |-> Position - Len(cached), blocks |-> blocks, toks |-> tokens]

\* wmgr::file_header_check: a file that has not been written gets its header
\* first, which says where its first record begins.
FileHeader(rec, done, cont) ==
    IF Current.submitted # 0 THEN <<>>
    ELSE <<HeaderWrite(IF cont THEN rec.size - done ELSE 0)>>

\* One round of the loop of enqueue, dequeue, commit or abort: what is left of
\* the record is encoded into the current page, and a full page is submitted.
Encode(rec, done, fid, cont) ==
    LET room   == PageDblks - (Position % PageDblks)
        n      == Min({rec.size - done, room})
        ends   == done + n = rec.size
        full   == n = room
        header == FileHeader(rec, done, cont)
        blocks == cached \o [i \in 1..n |-> Block(rec, done + i)]
        tokens == IF ends THEN Append(toks, TokenOf(rec)) ELSE toks
        counted == IF ends /\ rec.op = "enq" THEN Counted(files, fid) ELSE files
    IN  /\ inflight' = inflight \o header \o (IF full THEN <<PageWrite(blocks, tokens)>> ELSE <<>>)
        /\ files' = Put(counted, Current.fid,
                        LAMBDA f : [f EXCEPT !.submitted = @ + Hdr * Len(header)
                                                             + IF full THEN Len(blocks) ELSE 0])
        /\ cached' = IF full THEN <<>> ELSE blocks
        /\ toks' = IF full THEN <<>> ELSE tokens
        /\ cur' = IF ends THEN NotEncoding
                  ELSE [rec |-> rec, done |-> done + n, fid |-> fid, cont |-> cont]
        /\ waiting' = full
        /\ IF ends THEN Enter(rec, fid) ELSE UNCHANGED <<emap, tmap>>
        /\ UNCHANGED <<lastFid, decr>>

Pages(ws) == Len(SelectSeq(ws, LAMBDA w : ~w.header))

\* Nobody holds the journal's lock, and the record will not have to wait for
\* a page half-way (wmgr::pre_write_check, jcntl::handle_aio_wait).
Writable(size) ==
    /\ up /\ cur = NotEncoding /\ ~waiting
    /\ Pages(inflight) + ((Position % PageDblks) + size) \div PageDblks < CachePages

Write(op, m, x) ==
    LET rec == Record(op, m, x, Last(disk).serial)
    IN  /\ Writable(rec.size)
        /\ Encode(rec, 0, Current.fid, FALSE)

---------------------------------------------------------------------------
(***************************************************************************)
(* The operations of the store.                                            *)
(***************************************************************************)

Known(m) == emap[m] # 0 \/ \E x \in Xids : \E o \in Enqs(tmap[x]) : o.msg = m

\* enqueue_data_record, enqueue_txn_data_record: a message that is not in the
\* journal; the id of one that a crash has lost may be given again.
Enqueue(m, x) ==
    /\ told[m] = "nothing" /\ ~Known(m)
    /\ x # None => tpl[x] = "none" /\ x \notin ended
    /\ Write("enq", m, x)
    /\ told' = [told EXCEPT ![m] = "sent"]
    /\ UNCHANGED <<disk, efp, tpl, up, serials, asked, ended, voted, crashes>>

\* dequeue_data_record, dequeue_txn_data_record; dequeue_check looks in emap,
\* then among the enqueues of the same transaction.
Dequeue(m, x) ==
    /\ ~Locked(m)
    /\ \/ emap[m] # 0
       \/ x # None /\ \E o \in Enqs(tmap[x]) : o.msg = m
    /\ x # None => tpl[x] = "none" /\ x \notin ended
    /\ Write("deq", m, x)
    /\ asked' = IF x = None THEN asked \cup {m} ELSE asked
    /\ UNCHANGED <<disk, efp, tpl, up, serials, told, ended, voted, crashes>>

\* txn_commit and txn_abort, after the decision is in the prepared list.
Complete(op, x) ==
    /\ tpl[x] = op
    /\ tmap[x] # {}
    /\ Write(op, None, x)
    /\ asked' = IF op = "commit" THEN asked \cup {o.msg : o \in Deqs(tmap[x])} ELSE asked
    /\ ended' = ended \cup {x}
    /\ UNCHANGED <<disk, efp, tpl, up, serials, told, voted, crashes>>

\* The loop goes on in the next page.
Continue ==
    /\ up /\ cur # NotEncoding /\ ~waiting
    /\ Encode(cur.rec, cur.done, cur.fid, cur.cont)
    /\ UNCHANGED <<disk, efp, tpl, up, serials, history>>

\* wmgr::flush, for the timer, execution.sync or a transaction: the page is
\* filled up to a whole sblk and submitted.
Flush ==
    LET blocks == cached \o Filler(RoundUp(Len(cached)) - Len(cached))
    IN  /\ up /\ cur = NotEncoding /\ ~waiting
        /\ cached # <<>>
        /\ Pages(inflight) < CachePages
        /\ inflight' = Append(inflight, PageWrite(blocks, toks))
        /\ files' = Put(files, Current.fid, LAMBDA f : [f EXCEPT !.submitted = @ + Len(blocks)])
        /\ cached' = <<>> /\ toks' = <<>>
        /\ waiting' = TRUE
        /\ UNCHANGED <<disk, efp, tpl, up, serials, lastFid, decr, emap, tmap, cur, history>>

\* A token whose last block is written.
Report(s, t) ==
    LET less == Decremented(s.files, s.decr, t.released)
    IN  [files |-> less.files, decr |-> less.decr,
         tmap  |-> IF t.rec.xid = None \/ t.rec.op \notin {"enq", "deq"} THEN s.tmap
                   ELSE [s.tmap EXCEPT ![t.rec.xid] =
                            {IF o.msg = t.rec.msg /\ o.enq = (t.rec.op = "enq")
                             THEN [o EXCEPT !.synced = TRUE] ELSE o : o \in @}],
         told  |-> [m \in Messages |->
                      IF \E r \in t.released : r[1] = m /\ t.rec.op # "abort" THEN "removed"
                      ELSE IF m \in t.stored /\ s.told[m] = "sent" THEN "stored" ELSE s.told[m]]]

\* wmgr::get_events, for one write: the tokens first, then the file's count of
\* completed blocks.
Completed ==
    LET w == Head(inflight)
        s == FoldLeft(Report, [files |-> files, decr |-> decr, tmap |-> tmap, told |-> told], w.toks)
        landed == Land(disk, w, Len(w.blocks))
        done == IF w.header THEN Hdr ELSE Len(w.blocks)
    IN  [files |-> Put(s.files, w.fid, LAMBDA f : [f EXCEPT !.completed = @ + done]),
         decr |-> s.decr, tmap |-> s.tmap, told |-> s.told,
         disk |-> Listed(landed, s.files), efp |-> efp \o Returned(landed, s.files)]

\* From the timer, or after a flush, which waits for one write at least and
\* may find more; a file that is full is then left for the next.
GetEvents(more) ==
    LET c == Completed
        leaves == waiting /\ ~more
        rotate == leaves /\ Position = FileDblks
        fid == lastFid + 1
    IN  /\ up /\ inflight # <<>>
        /\ waiting \/ cur = NotEncoding
        /\ more => waiting /\ Len(inflight) > 1
        /\ inflight' = Tail(inflight)
        /\ waiting' = more
        /\ decr' = c.decr /\ tmap' = c.tmap /\ told' = c.told
        /\ IF rotate
           THEN /\ files' = Append(c.files, NewJournalFile(fid))
                /\ disk' = Append(c.disk, NewFile(Take(c.efp), fid))
                /\ efp' = Rest(c.efp)
                /\ lastFid' = fid /\ serials' = serials + 1
                /\ cur' = IF cur = NotEncoding THEN cur ELSE [cur EXCEPT !.cont = TRUE]
           ELSE /\ files' = c.files /\ disk' = c.disk /\ efp' = c.efp
                /\ UNCHANGED <<lastFid, serials, cur>>
        /\ UNCHANGED <<tpl, up, emap, cached, toks, asked, ended, voted, crashes>>

---------------------------------------------------------------------------
(***************************************************************************)
(* The list of prepared transactions (external): a transaction is prepared *)
(* when all its records are written, then decided, and forgotten when its  *)
(* commit is written or its abort submitted.                               *)
(***************************************************************************)

Outstanding == toks \o FlattenSeq([i \in DOMAIN inflight |-> inflight[i].toks])

Prepare(x) ==
    /\ up /\ tpl[x] = "none" /\ tmap[x] # {} /\ cur.rec.xid # x
    /\ \A o \in tmap[x] : o.synced
    /\ tpl' = [tpl EXCEPT ![x] = "prepared"]
    /\ voted' = [voted EXCEPT ![x] = Plain(tmap[x])]
    /\ UNCHANGED <<disk, efp, up, serials, memory, told, asked, ended, crashes>>

Decide(x, outcome) ==
    /\ up /\ tpl[x] = "prepared"
    /\ tpl' = [tpl EXCEPT ![x] = outcome]
    /\ UNCHANGED <<disk, efp, up, serials, memory, history>>

Forget(x) ==
    /\ up /\ tpl[x] \in {"commit", "abort"} /\ tmap[x] = {}
    /\ tpl[x] = "commit" => ~\E i \in DOMAIN Outstanding : Outstanding[i].rec.xid = x
    /\ tpl' = [tpl EXCEPT ![x] = "none"]
    /\ UNCHANGED <<disk, efp, up, serials, memory, history>>

---------------------------------------------------------------------------
(***************************************************************************)
(* RecoveryManager.                                                        *)
(***************************************************************************)

Headed(d) == SelectSeq(d, LAMBDA f : f.hdr)

\* The blocks of the files one after the other.
FileAt(p) == (p - 1) \div FileDblks + 1
OffsetAt(p) == (p - 1) % FileDblks
BlockAt(hd, p) == hd[FileAt(p)].data[OffsetAt(p) + 1]

\* Mutant of Begins: the serial number is not looked at.
BeginsAnywhere(hd, p) == BlockAt(hd, p).k = 1

\* A record begins at p: its header has the serial number of its file
\* (rec_hdr_check).
Begins(hd, p) ==
    BlockAt(hd, p).k = 1 /\ BlockAt(hd, p).rec.serial = hd[FileAt(p)].serial

\* It can be decoded: the rest of it and its tail are there.
Decodes(hd, p) ==
    LET b == BlockAt(hd, p)
    IN  /\ Begins(hd, p)
        /\ p + b.rec.size - 1 <= Len(hd) * FileDblks
        /\ \A j \in 1 .. b.rec.size : BlockAt(hd, p + j - 1) = Block(b.rec, j)

\* The cases of getNextRecordHeader: what a record does to the maps and the
\* counts.
ReplayEnqueue(s, rec, fid) ==
    LET counted == [s EXCEPT !.count[fid] = @ + 1]
    IN  IF rec.xid = None THEN [counted EXCEPT !.emap[rec.msg] = fid]
        ELSE [counted EXCEPT !.tmap[rec.xid] = @ \cup {Op(TRUE, rec.msg, fid, TRUE)}]

ReplayRemoval(s, m) ==
    IF s.emap[m] = 0 THEN s
    ELSE [s EXCEPT !.count[s.emap[m]] = @ - 1, !.emap[m] = 0]

ReplayDequeue(s, rec) ==
    IF rec.xid = None THEN ReplayRemoval(s, rec.msg)
    ELSE [s EXCEPT !.tmap[rec.xid] = @ \cup {Op(FALSE, rec.msg, 0, TRUE)}]

Uncount(s, ops) == FoldSet(LAMBDA o, r : [r EXCEPT !.count[o.fid] = @ - 1], s, Enqs(ops))

ReplayAbort(s, x) == [Uncount(s, s.tmap[x]) EXCEPT !.tmap[x] = {}]

ReplayCommit(s, x) ==
    LET entered == FoldSet(LAMBDA o, r : [r EXCEPT !.emap[o.msg] = o.fid], s, Enqs(s.tmap[x]))
        removed == FoldSet(LAMBDA o, r : ReplayRemoval(r, o.msg), entered, Deqs(s.tmap[x]))
    IN  [removed EXCEPT !.tmap[x] = {}]

Replay(s, rec, fid) ==
    CASE rec.op = "enq" -> ReplayEnqueue(s, rec, fid)
      [] rec.op = "deq" -> ReplayDequeue(s, rec)
      [] rec.op = "abort" -> ReplayAbort(s, rec.xid)
      [] rec.op = "commit" -> ReplayCommit(s, rec.xid)

\* Reads the records in the order of the files, from the first record of the
\* first, up to the first block that is not one: getNextRecordHeader until it
\* returns false.
Scan(d) ==
    LET hd == Headed(d)
        T  == Len(hd) * FileDblks
        fids == {hd[i].fid : i \in DOMAIN hd}
        start == [skip |-> 0, end |-> 0, seen |-> {}, emap |-> [m \in Messages |-> 0],
                  tmap |-> [x \in Xids |-> {}], count |-> [f \in fids |-> 0]]
        Step(s, p) ==
            LET b == BlockAt(hd, p)
                found == [s EXCEPT !.seen = @ \cup {b.rec.msg}, !.skip = b.rec.size - 1]
            IN  IF s.end # 0 THEN s
                ELSE IF s.skip > 0 THEN [s EXCEPT !.skip = @ - 1]
                ELSE IF OffsetAt(p) = 0 /\ hd[FileAt(p)].fro > 0
                     THEN [s EXCEPT !.skip = hd[FileAt(p)].fro - 1]
                ELSE IF b.rec = Empty THEN s
                ELSE IF Decodes(hd, p) THEN Replay(found, b.rec, hd[FileAt(p)].fid)
                ELSE [s EXCEPT !.end = p, !.seen = IF Begins(hd, p) THEN found.seen ELSE @]
        upTo[p \in 0..T] == IF p = 0 THEN start ELSE Step(upTo[p - 1], p)
        all == upTo[T]
    IN  IF all.end = 0 THEN [all EXCEPT !.end = T + 1] ELSE all

Dropped == {x \in Xids : tpl[x] = "none"}
Open(r, m) == \E x \in Xids \ Dropped : \E o \in Enqs(r.tmap[x]) : o.msg = m

\* jcntl::recover, when no file has a header: the directory's file is used
\* from its beginning.
RecoverEmpty ==
    /\ ~up /\ Headed(disk) = <<>>
    /\ disk' = <<NewFile(Last(disk).data, 1)>>
    /\ files' = <<NewJournalFile(1)>>
    /\ lastFid' = 1 /\ serials' = serials + 1
    /\ up' = TRUE
    /\ told' = [m \in Messages |-> IF m \in asked THEN "removed"
                                   ELSE IF told[m] = "sent" THEN "nothing" ELSE told[m]]
    /\ UNCHANGED <<efp, tpl, decr, emap, tmap, cached, toks, inflight, cur, waiting,
                   asked, ended, voted, crashes>>

\* Otherwise: the journal ends at the first block that is not a record, filled
\* up to a whole sblk (checkJournalAlignment); the files after it and leading
\* files without records go back to the pool (lastRecord, removeEmptyFiles);
\* transactions that are not on the prepared list are dropped.  A file without
\* a header stays in the directory and is never used: it is left out here.
Rebuilt(hd, r) ==
    LET full == r.end > Len(hd) * FileDblks
        e    == IF full THEN Len(hd) ELSE FileAt(r.end)
        at   == IF full THEN FileDblks ELSE OffsetAt(r.end)
        end  == RoundUp(at)
        size(i)   == Hdr + IF i = e THEN end ELSE FileDblks
        found     == [i \in 1..e |-> [fid |-> hd[i].fid, count |-> r.count[hd[i].fid],
                                      submitted |-> size(i), completed |-> size(i)]]
        kept      == SubSeq(found, Leading([i \in 1..e |-> found[i].count = 0]) + 1, e)
        lost(fid) == {o \in UNION {Enqs(r.tmap[x]) : x \in Dropped} : o.fid = fid}
        filled    == Put(hd, hd[e].fid,
                         LAMBDA f : [f EXCEPT !.data = Overwrite(@, at, Filler(end - at))])
    IN  [files |-> [i \in DOMAIN kept |->
                      [kept[i] EXCEPT !.count = @ - Cardinality(lost(kept[i].fid))]],
         disk  |-> Listed(filled, kept),
         efp   |-> efp \o Returned(filled, kept),
         full  |-> end = FileDblks,
         last  |-> Last(hd).fid]

\* A file that is full is left for the next; the broker learns which messages
\* there are, and goes on after the highest record id it has seen.
Recover ==
    /\ ~up /\ Headed(disk) # <<>>
    /\ \E r \in {Scan(disk)} : \E b \in {Rebuilt(Headed(disk), r)} :
        /\ IF b.full
           THEN /\ files' = Append(b.files, NewJournalFile(b.last + 1))
                /\ disk' = Append(b.disk, NewFile(Take(b.efp), b.last + 1))
                /\ efp' = Rest(b.efp) /\ lastFid' = b.last + 1 /\ serials' = serials + 1
           ELSE /\ files' = b.files /\ disk' = b.disk /\ efp' = b.efp
                /\ lastFid' = b.last /\ UNCHANGED serials
        /\ emap' = r.emap
        /\ tmap' = [x \in Xids |-> IF x \in Dropped THEN {} ELSE r.tmap[x]]
        /\ up' = TRUE
        /\ told' = [m \in Messages |->
                      IF r.emap[m] # 0 THEN "stored"
                      ELSE IF Open(r, m) THEN "sent"
                      ELSE IF m \in asked THEN "removed"
                      ELSE IF told[m] = "sent" /\ m \notin r.seen THEN "nothing" ELSE told[m]]
        /\ asked' = {m \in asked : r.emap[m] = 0 /\ ~Open(r, m)}
        /\ UNCHANGED <<tpl, decr, cached, toks, inflight, cur, waiting, ended, voted, crashes>>

---------------------------------------------------------------------------
Init ==
    /\ disk = <<[fid |-> 1, serial |-> 1, hdr |-> FALSE, fro |-> 0, data |-> Blank]>>
    /\ efp = <<>> /\ tpl = [x \in Xids |-> "none"] /\ serials = 1
    /\ up = TRUE
    /\ files = <<NewJournalFile(1)>> /\ lastFid = 1 /\ decr = 0
    /\ emap = [m \in Messages |-> 0] /\ tmap = [x \in Xids |-> {}]
    /\ cached = <<>> /\ toks = <<>> /\ inflight = <<>>
    /\ cur = NotEncoding /\ waiting = FALSE
    /\ told = [m \in Messages |-> "nothing"] /\ asked = {} /\ ended = {}
    /\ voted = [x \in Xids |-> {}]
    /\ crashes = 0

\* The broker dies (external): n of the writes under way are complete and,
\* of the next, a number of whole sblks.
Crash(n, sblks) ==
    LET landed == Landed(disk, SubSeq(inflight, 1, n))
    IN  /\ up /\ crashes < MaxCrashes
        /\ n <= Len(inflight)
        /\ sblks > 0 => n < Len(inflight) /\ sblks * SblkDblks < Len(inflight[n + 1].blocks)
        /\ disk' = IF sblks = 0 THEN landed ELSE Land(landed, inflight[n + 1], sblks * SblkDblks)
        /\ up' = FALSE /\ crashes' = crashes + 1
        /\ files' = <<>> /\ lastFid' = 0 /\ decr' = 0
        /\ emap' = [m \in Messages |-> 0] /\ tmap' = [x \in Xids |-> {}]
        /\ cached' = <<>> /\ toks' = <<>> /\ inflight' = <<>>
        /\ cur' = NotEncoding /\ waiting' = FALSE
        /\ ended' = ended \cup {x \in Xids : tmap[x] # {} /\ tpl[x] = "none"}
        /\ UNCHANGED <<efp, tpl, serials, told, asked, voted>>

Next ==
    \/ \E m \in Messages, x \in Xids \cup {None} : Enqueue(m, x) \/ Dequeue(m, x)
    \/ \E x \in Xids : \/ Prepare(x) \/ Forget(x)
                       \/ \E op \in {"commit", "abort"} : Decide(x, op) \/ Complete(op, x)
    \/ Continue
    \/ Flush
    \/ \E more \in BOOLEAN : GetEvents(more)
    \/ \E n \in 0 .. Len(inflight), k \in 0 .. PageDblks \div SblkDblks : Crash(n, k)
    \/ RecoverEmpty
    \/ Recover

Spec == Init /\ [][Next]_vars

---------------------------------------------------------------------------
(***************************************************************************)
(* Properties.                                                             *)
(***************************************************************************)

\* The count of a file is the number of enqueue records in it that may still
\* be needed: those of messages in the map, of open transactions, and of
\* removals whose record is not yet on the disk; and a file with such a
\* record, or with the beginning of one that is being written, is still there.
\* (incrEnqueuedRecordCount, decrEnqueuedRecordCount, purgeEmptyFilesToEfp.)
CountsExact ==
    LET pending == UNION {Outstanding[i].released : i \in DOMAIN Outstanding}
        enqs    == UNION {Enqs(tmap[x]) : x \in Xids}
        needed(fid) == Cardinality({m \in Messages : emap[m] = fid})
                        + Cardinality({o \in enqs : o.fid = fid})
                        + Cardinality({r \in pending : r[2] = fid})
        named   == {emap[m] : m \in Messages} \cup {o.fid : o \in enqs} \cup {cur.fid}
                     \cup {r[2] : r \in pending}
    IN  up => /\ \A i \in DOMAIN files : files[i].count = needed(files[i].fid)
              /\ named \ {0} \subseteq {files[i].fid : i \in DOMAIN files}

\* What recovery would read, if every record that is encoded reached the disk,
\* is what wmgr holds in memory: the enqueue map, and the operations of the
\* transactions that are still open.
JournalIsMemory ==
    LET rest == IF cached = <<>> THEN <<>> ELSE <<PageWrite(cached, toks)>>
        r    == Scan(Landed(disk, inflight \o rest))
    IN  up /\ cur = NotEncoding =>
          /\ r.emap = emap
          /\ \A x \in Xids : x \notin ended \/ tpl[x] # "none" => Plain(r.tmap[x]) = Plain(tmap[x])

\* After a crash the files hold every message that was reported stored and not
\* asked to be removed, none that was reported removed, and of a transaction
\* on the prepared list either all of its operations or, once it is decided,
\* their outcome.
ConfirmedSurvives ==
    LET r == Scan(disk)
        applied(x) == \A m \in Messages :
            /\ <<FALSE, m>> \in voted[x] => r.emap[m] = 0
            /\ <<TRUE, m>> \in voted[x] /\ m \notin asked => r.emap[m] # 0
    IN  ~up => /\ \A m \in Messages :
                    /\ told[m] = "stored" /\ m \notin asked => r.emap[m] # 0
                    /\ told[m] = "removed" => r.emap[m] = 0
               /\ \A x \in Xids : tpl[x] # "none" =>
                    \/ Plain(r.tmap[x]) = voted[x]
                    \/ tpl[x] = "commit" /\ r.tmap[x] = {} /\ applied(x)
                    \/ tpl[x] = "abort" /\ r.tmap[x] = {}
=============================================================================
