---------------------------- MODULE WALAppender -----------------------------
(***************************************************************************)
(* The -wal file and wal-index of one node: walappender with shm, used by  *)
(* FSM.Apply, by the handlers of forwarded writes and by a restore, beside *)
(* SQLite's own writers, readers and checkpoints (external), up to a crash *)
(* of the process and the next Open.                                       *)
(*                                                                         *)
(* A transaction is a number, fresh for every attempt; the content of a    *)
(* page is the transaction that wrote it.  A frame's checksum is stood for *)
(* by the transaction of the frame before it: together with the position   *)
(* that identifies everything the checksum covers.                         *)
(***************************************************************************)
EXTENDS WalIndex, FiniteSets

CONSTANTS Page,       \* page numbers, from 1
          Reader,     \* SQLite readers, in this process or another
          Mark,       \* reader slots with a read mark, 1..NReaders-1
          Writer,     \* who writes: a subset of the four below
          Threshold,  \* checkpointThresholdPages
          MaxFrames, MaxTxn, MaxSalt, MaxStarts   \* bounds

ASSUME WritersAssumption == Writer \subseteq {"apply", "handler", "restore", "sqlite"}

VARIABLES
  \* the files: salt of the WAL header (0: empty file), frames, database pages
  salt, file, dbfile,
  \* the wal-index: two header copies, checkpoint info, hash regions
  hdr, nBackfill, readMark, regions,
  \* locks: tokens in lockCh, WAL_WRITE_LOCK by open file description, the
  \* writer that holds the read marks' locks exclusively
  lockCh, writeLock, markLock,
  \* writers, readers, the running checkpoint, dirtyPageCount, the process
  \* and how often it was started again
  pc, loc, rd, ck, dirtyPageCount, node, starts,
  \* history: transactions begun, contents by transaction, the newest published,
  \* regions in which AddFrame took the place of an entry that was left over, and
  \* whether a wal-index was taken over that a rewind had left half done
  nTxn, content, last, overlaid, halfRewound

fileVars == <<salt, file, dbfile>>
indexVars == <<hdr, nBackfill, readMark, regions>>
lockVars == <<lockCh, writeLock, markLock>>
procVars == <<pc, loc, rd, ck, dirtyPageCount, node>>
history == <<starts, nTxn, content, last, overlaid, halfRewound>>
vars == <<fileVars, indexVars, lockVars, procVars, history>>

-----------------------------------------------------------------------------
\* Frames and headers

Frames == 1..MaxFrames
NoFrame == [salt |-> 0, prev |-> 0, pg |-> 0, txn |-> 0, commit |-> FALSE]
NotUsed == MaxFrames + 1

\* UpdateChecksums chains a frame to the one before it.
Frame(h, prev, pg, txn, commit) ==
  [salt |-> h.salt, prev |-> prev, pg |-> pg, txn |-> txn, commit |-> commit]

\* writeWALFileHeader: InitHeader draws salts that were not used before.
NewSalt == salt + 1

\* ver is the transaction of the last frame, and survives a rewind as history.
Header(sized, mx, s, ver) ==
  [init |-> TRUE, sized |-> sized, mx |-> mx, salt |-> s, ver |-> ver]
Blank == [init |-> FALSE, sized |-> FALSE, mx |-> 0, salt |-> 0, ver |-> 0]
LastFrameChecksum(h) == IF h.mx = 0 THEN 0 ELSE h.ver
BlankRegions == [id \in 0..RegionForFrame(MaxFrames) |-> EmptyRegion]

\* Both copies agree and are valid: what SQLite accepts without recovery.
Published == hdr[0] = hdr[1] /\ hdr[0] # Torn /\ hdr[0].init

\* What recovery finds in the file; nothing if it was removed.
Valid(n) == \A i \in 1..n :
  /\ salt # 0 /\ file[i].salt = salt
  /\ file[i].prev = IF i = 1 THEN 0 ELSE file[i - 1].txn
RecoveredFrames == Max({n \in 0..MaxFrames : Valid(n)})
RecoveredMax == Max({0} \cup {n \in Frames : Valid(n) /\ file[n].commit})
RecoveredHeader ==
  LET mx == RecoveredMax
  IN  Header(mx > 0, mx, salt, IF mx = 0 THEN last ELSE file[mx].txn)
RecoveredRegions ==
  LET after[i \in 0..RecoveredFrames] ==
        IF i = 0 THEN BlankRegions ELSE AddFrame(after[i - 1], i, file[i].pg)
  IN  after[RecoveredFrames]

\* A page as seen through the frames min..mx of the log: by the hash table, as a reader
\* looks it up, and by the page numbers, as a checkpoint goes through them.
PageAt(frame, pg) == IF frame = 0 THEN dbfile[pg] ELSE file[frame].txn
PageInLog(pg, min, mx) == PageAt(FindFrame(regions, pg, min, mx), pg)
PageListed(pg, min, mx) ==
  PageAt(Max({0} \cup {i \in min..mx : PageOf(regions, i) = pg}), pg)
PageRecovered(pg, mx) ==
  PageAt(Max({0} \cup {i \in 1..mx : file[i].pg = pg}), pg)

-----------------------------------------------------------------------------
\* The write lock: a token per appender, then WAL_WRITE_LOCK.  The lock belongs
\* to an open file description; within one, taking it again succeeds.

Appender(w) == IF w = "restore" THEN "restore" ELSE "main"
OFD(w) == IF w = "sqlite" THEN "sqlite" ELSE Appender(w)
NoLoc == [hdr |-> Blank, frame |-> 0, prev |-> 0, txn |-> 0, pages |-> {}, rewind |-> FALSE]

Goto(w, label) == pc' = [pc EXCEPT ![w] = label]
Up == node = "up"

\* Mutation: no token in front of the file lock.
TakeTokenAny(w) ==
  /\ Up /\ w # "sqlite" /\ pc[w] = "idle"
  /\ Goto(w, "wait")
  /\ UNCHANGED <<fileVars, indexVars, lockVars, loc, rd, ck, dirtyPageCount, node, history>>

\* AcquireWriteLock, first half.
TakeToken(w) ==
  /\ Up /\ w # "sqlite" /\ pc[w] = "idle"
  /\ Appender(w) \in lockCh
  /\ lockCh' = lockCh \ {Appender(w)}
  /\ Goto(w, "wait")
  /\ UNCHANGED <<fileVars, indexVars, writeLock, markLock, loc, rd, ck, dirtyPageCount,
                 node, history>>

\* lockOFD gives up when the context is done; Apply has none.
GiveUp(w) ==
  /\ pc[w] = "wait" /\ w # "apply"
  /\ lockCh' = lockCh \cup {Appender(w)}
  /\ Goto(w, "idle")
  /\ UNCHANGED <<fileVars, indexVars, writeLock, markLock, loc, rd, ck, dirtyPageCount,
                 node, history>>

\* lockOFD succeeds.  SQLite's writer takes the lock without a token.
LockOFD(w) ==
  /\ Up
  /\ pc[w] = IF w = "sqlite" THEN "idle" ELSE "wait"
  /\ writeLock \in {"none", OFD(w)}
  /\ writeLock' = OFD(w)
  /\ Goto(w, "held")
  /\ UNCHANGED <<fileVars, indexVars, lockCh, markLock, loc, rd, ck, dirtyPageCount, node,
                 history>>

\* Release: unlock, give the token back, and run a checkpoint if the threshold
\* is reached (a restore's is below zero).  A handler may release unused.
Release(w) ==
  LET due == w # "sqlite" /\ (w = "restore" \/ dirtyPageCount >= Threshold)
  IN  /\ pc[w] = "done" \/ (pc[w] = "held" /\ w \in {"handler", "sqlite"})
      /\ writeLock' = "none"
      /\ lockCh' = IF w = "sqlite" THEN lockCh ELSE lockCh \cup {Appender(w)}
      /\ dirtyPageCount' = IF due /\ w # "restore" THEN 0 ELSE dirtyPageCount
      /\ Goto(w, IF due THEN "threshold" ELSE "idle")
      /\ loc' = [loc EXCEPT ![w] = NoLoc]
      /\ UNCHANGED <<fileVars, indexVars, markLock, rd, ck, node, history>>

-----------------------------------------------------------------------------
\* Appending under the lock

InSlot(i) == \E r \in Reader : rd[r].slot = i

\* Mutation: readers are not asked.
CanRewindBusy(h) == h.mx > 0 /\ nBackfill >= h.mx

\* Mutation: the last frame may still be missing from the database.
CanRewindEarly(h) ==
  /\ markLock = "none" /\ \A i \in Mark : ~InSlot(i)
  /\ h.mx > 0 /\ nBackfill >= h.mx - 1

\* Everything is in the database, and nobody reads from the log.
CanRewind(h) ==
  /\ markLock = "none" /\ \A i \in Mark : ~InSlot(i)
  /\ h.mx > 0 /\ nBackfill >= h.mx

Begin(w, h, rewind) ==
  /\ loc' = [loc EXCEPT ![w] = [hdr |-> h, frame |-> h.mx, prev |-> LastFrameChecksum(h),
                                txn |-> nTxn + 1, pages |-> {}, rewind |-> rewind]]
  /\ nTxn' = nTxn + 1
  /\ UNCHANGED <<dbfile, file, indexVars, lockCh, writeLock, rd, ck, dirtyPageCount,
                 node, starts, content, last, overlaid, halfRewound>>

\* appendFramesLocked begins with rewindLogIfBackfilled, which here writes a new
\* WAL header; SQLite does the same before its first frame.
Rewind(w) ==
  LET h == ReadHeader(hdr[0], hdr[1])
  IN  /\ pc[w] = "held" /\ nTxn < MaxTxn
      /\ CanRewind(h) /\ salt < MaxSalt
      /\ markLock' = w
      /\ salt' = NewSalt
      /\ Begin(w, [h EXCEPT !.mx = 0, !.salt = NewSalt], TRUE)
      /\ Goto(w, "header1")

\* ... or finds readers, or frames that are not backfilled.
NoRewind(w) ==
  LET h == ReadHeader(hdr[0], hdr[1])
  IN  /\ pc[w] = "held" /\ nTxn < MaxTxn
      /\ ~CanRewind(h)
      /\ h.mx + Cardinality(Page) <= MaxFrames
      /\ Begin(w, h, FALSE)
      /\ Goto(w, "append")
      /\ UNCHANGED <<salt, markLock>>

\* The last step of a rewind: ResetForRewind, and the marks are unlocked.
ResetForRewind(w) ==
  /\ pc[w] = "info"
  /\ nBackfill' = 0
  /\ readMark' = [i \in Mark |-> IF i = 1 THEN 0 ELSE NotUsed]
  /\ markLock' = "none"
  /\ Goto(w, "append")
  /\ loc' = [loc EXCEPT ![w].rewind = FALSE]
  /\ UNCHANGED <<fileVars, hdr, regions, lockCh, writeLock, rd, ck, dirtyPageCount, node,
                 history>>

\* SQLite cleans up entries that an abandoned transaction left; AddFrame does not,
\* unless it wipes the segment.
LeftOver(frame) == PageOf(regions, frame) # 0
Cleaned(w, frame) ==
  IF w = "sqlite" /\ LeftOver(frame) THEN CleanupHash(regions, frame - 1) ELSE regions
Overlaid(w, frame) ==
  LET id == RegionForFrame(frame)
  IN  IF frame - FrameZeroForRegion(id) = 1 THEN overlaid \ {id}
      ELSE IF w # "sqlite" /\ LeftOver(frame) THEN overlaid \cup {id}
      ELSE overlaid

\* AddFrame probes for ever if there is no free slot.
AddFrameReturns(frame) ==
  LET id == RegionForFrame(frame)
  IN  HasRoom(Segment(regions[id], frame - FrameZeroForRegion(id)))

\* A restore sends all pages in order, the others some pages in any order.
MaySend(w, pg, commit) ==
  /\ pg \notin loc[w].pages
  /\ commit \/ loc[w].pages \cup {pg} # Page
  /\ w = "restore" => /\ pg = Cardinality(loc[w].pages) + 1
                      /\ commit => pg = Cardinality(Page)

\* One frame: header and data into the file, the entry into the wal-index; after
\* the commit frame the header is to be published.
AppendFrame(w, pg, commit) ==
  LET frame == loc[w].frame + 1
      txn == loc[w].txn
      pages == loc[w].pages \cup {pg}
      h == loc[w].hdr
  IN  /\ pc[w] = "append"
      /\ MaySend(w, pg, commit)
      /\ AddFrameReturns(frame)
      /\ file' = [file EXCEPT ![frame] = Frame(h, loc[w].prev, pg, txn, commit)]
      /\ regions' = AddFrame(Cleaned(w, frame), frame, pg)
      /\ overlaid' = Overlaid(w, frame)
      /\ dirtyPageCount' = IF w \in {"apply", "handler"}
                           THEN Min({Threshold, dirtyPageCount + 1}) ELSE dirtyPageCount
      /\ loc' = [loc EXCEPT ![w].frame = frame, ![w].prev = txn, ![w].pages = pages,
                            ![w].hdr = IF commit THEN [h EXCEPT !.mx = frame, !.ver = txn]
                                       ELSE h]
      /\ IF commit
         THEN /\ Goto(w, "header1")
              /\ content' = [content EXCEPT ![txn] =
                               [p \in Page |-> IF p \in pages THEN txn ELSE content[h.ver][p]]]
         ELSE UNCHANGED <<pc, content>>
      /\ UNCHANGED <<salt, dbfile, hdr, nBackfill, readMark, lockVars, rd, ck, node, starts,
                     nTxn, last, halfRewound>>

\* A restore whose stream breaks off leaves its frames; SQLite, refused by the
\* gate, also removes their entries.
Abandon(w) ==
  /\ pc[w] = "append" /\ w \in {"restore", "sqlite"}
  /\ regions' = IF w = "sqlite" THEN CleanupHash(regions, loc[w].hdr.mx) ELSE regions
  /\ Goto(w, "done")
  /\ UNCHANGED <<fileVars, hdr, nBackfill, readMark, lockVars, loc, rd, ck, dirtyPageCount,
                 node, history>>

\* Mutation: no barrier, so that both copies may be half written.
WriteCopiesTogether(w) ==
  LET Put(k, h, to) == hdr' = [hdr EXCEPT ![k] = h] /\ Goto(w, to)
      after == IF loc[w].rewind THEN "info" ELSE "done"
  IN  \/ pc[w] = "header1" /\ hdr' = [k \in {0, 1} |-> Torn] /\ Goto(w, "header2")
      \/ pc[w] = "header2" /\ Put(0, loc[w].hdr, "header3")
      \/ pc[w] = "header3" /\ Put(1, loc[w].hdr, after)

\* WriteHeader: copy 1, barrier, copy 0, each of them torn while it is written.
WriteCopies(w) ==
  LET after == IF loc[w].rewind THEN "info" ELSE "done"
  IN  \/ pc[w] = "header1" /\ hdr' = [hdr EXCEPT ![1] = Torn] /\ Goto(w, "header2")
      \/ pc[w] = "header2" /\ hdr' = [hdr EXCEPT ![1] = loc[w].hdr, ![0] = Torn]
                           /\ Goto(w, "header3")
      \/ pc[w] = "header3" /\ hdr' = [hdr EXCEPT ![0] = loc[w].hdr] /\ Goto(w, after)

WriteHeader(w) ==
  /\ WriteCopies(w)
  /\ last' = IF pc[w] = "header3" THEN loc[w].hdr.ver ELSE last
  /\ UNCHANGED <<fileVars, nBackfill, readMark, regions, lockVars, loc, rd, ck,
                 dirtyPageCount, node, starts, nTxn, content, overlaid, halfRewound>>

-----------------------------------------------------------------------------
\* Checkpoints.  SQLite's passive checkpoint (external) holds the checkpointer's
\* lock from start to end and READ(0) exclusively while it copies.

NoCk == [by |-> "none", safe |-> 0, left |-> {}]
Copying == ck.by # "none"
Safe(h) == Min({h.mx} \cup {readMark[i] : i \in {j \in Mark : InSlot(j) \/ markLock # "none"}})
CanCopy(h) == ~Copying /\ ~InSlot(0) /\ nBackfill < Safe(h)

\* checkpoint, called from Release or by the ticker.
CheckpointBegin(by) ==
  LET h == hdr[0]
  IN  /\ Up /\ Published
      /\ by \in Writer => pc[by] = "threshold"
      /\ CanCopy(h)
      /\ ck' = [by |-> by, safe |-> Safe(h), left |-> Page]
      /\ readMark' = [i \in Mark |-> IF readMark[i] >= h.mx \/ InSlot(i) THEN readMark[i]
                                     ELSE IF i = 1 THEN h.mx ELSE NotUsed]
      /\ UNCHANGED <<fileVars, hdr, nBackfill, regions, lockVars, pc, loc, rd,
                     dirtyPageCount, node, history>>

CheckpointCopy(pg) ==
  /\ Copying /\ pg \in ck.left
  /\ dbfile' = [dbfile EXCEPT ![pg] = PageListed(pg, nBackfill + 1, ck.safe)]
  /\ ck' = [ck EXCEPT !.left = @ \ {pg}]
  /\ UNCHANGED <<salt, file, indexVars, lockVars, pc, loc, rd, dirtyPageCount, node, history>>

CheckpointEnd ==
  /\ Copying /\ ck.left = {}
  /\ nBackfill' = ck.safe
  /\ ck' = NoCk
  /\ pc' = [w \in Writer |-> IF w = ck.by THEN "idle" ELSE pc[w]]
  /\ UNCHANGED <<fileVars, hdr, readMark, regions, lockVars, loc, rd, dirtyPageCount, node,
                 history>>

\* Nothing to copy, or SQLITE_BUSY.  The main appender's callers wait for each
\* other on checkpointMu; a restore has a connection of its own.
CheckpointNothing(w) ==
  /\ pc[w] = "threshold"
  /\ Copying => Appender(ck.by) # Appender(w)
  /\ ~(Published /\ CanCopy(hdr[0]))
  /\ Goto(w, "idle")
  /\ UNCHANGED <<fileVars, indexVars, lockVars, loc, rd, ck, dirtyPageCount, node, history>>

-----------------------------------------------------------------------------
\* SQLite's readers (external): the header, a reader slot, the header again.

NoRd == [pc |-> "idle", slot |-> -1, h |-> Blank, min |-> 0]

ReadBegin(r) ==
  /\ rd[r].pc = "idle" /\ Published
  /\ rd' = [rd EXCEPT ![r] = [NoRd EXCEPT !.pc = "header", !.h = hdr[0]]]
  /\ UNCHANGED <<fileVars, indexVars, lockVars, pc, loc, ck, dirtyPageCount, node, history>>

ReadLock(r) ==
  LET h == rd[r].h
      Slot(i) == rd' = [rd EXCEPT ![r].pc = "check", ![r].slot = i, ![r].min = nBackfill + 1]
  IN  /\ rd[r].pc = "header"
      /\ \/ /\ nBackfill = h.mx /\ ~Copying
            /\ Slot(0)
            /\ UNCHANGED readMark
         \/ /\ nBackfill # h.mx /\ markLock = "none"
            /\ \E i \in Mark : /\ readMark[i] = h.mx \/ ~InSlot(i)
                             /\ Slot(i)
                             /\ readMark' = [readMark EXCEPT ![i] = h.mx]
      /\ UNCHANGED <<fileVars, hdr, nBackfill, regions, lockVars, pc, loc, ck, dirtyPageCount,
                     node, history>>

ReadCheck(r) ==
  /\ rd[r].pc = "check"
  /\ rd' = [rd EXCEPT ![r] = IF hdr[0] = rd[r].h /\ hdr[1] = rd[r].h
                             THEN [@ EXCEPT !.pc = "reading"] ELSE NoRd]
  /\ UNCHANGED <<fileVars, indexVars, lockVars, pc, loc, ck, dirtyPageCount, node, history>>

ReadEnd(r) ==
  /\ rd[r].pc \in {"header", "reading"}
  /\ rd' = [rd EXCEPT ![r] = NoRd]
  /\ UNCHANGED <<fileVars, indexVars, lockVars, pc, loc, ck, dirtyPageCount, node, history>>

\* The snapshot of a reader.
View(r) == [pg \in Page |-> IF rd[r].slot = 0 THEN dbfile[pg]
                            ELSE PageInLog(pg, rd[r].min, rd[r].h.mx)]

-----------------------------------------------------------------------------
\* The process ends and starts again.

Stopped ==
  /\ node' = "down"
  /\ pc' = [w \in Writer |-> "idle"]
  /\ loc' = [w \in Writer |-> NoLoc]
  /\ ck' = NoCk
  /\ lockCh' = {"main", "restore"} /\ writeLock' = "none" /\ markLock' = "none"
  /\ dirtyPageCount' = 0
  /\ UNCHANGED <<starts, nTxn, content, last, halfRewound>>

LoseIndex ==
  /\ overlaid' = {}
  /\ hdr' = [k \in {0, 1} |-> Blank]
  /\ regions' = BlankRegions
  /\ nBackfill' = 0
  /\ readMark' = [i \in Mark |-> 0]

\* The wal-index lives on while another process, here a reader, has it open; the
\* next first opener truncates it.
Crash ==
  /\ Up
  /\ Stopped
  /\ \/ rd' = [r \in Reader |-> NoRd] /\ LoseIndex
     \/ (\E r \in Reader : rd[r].pc # "idle") /\ UNCHANGED <<rd, indexVars, overlaid>>
  /\ UNCHANGED fileVars

\* Close with nobody else there: SQLite (external) copies the log into the
\* database and removes it.
Close ==
  /\ Up /\ ~Copying /\ \A w \in Writer : pc[w] = "idle"
  /\ \A r \in Reader : rd[r].pc = "idle"
  /\ Stopped /\ LoseIndex
  /\ dbfile' = [pg \in Page |-> PageListed(pg, nBackfill + 1, hdr[0].mx)]
  /\ file' = [i \in Frames |-> NoFrame]
  /\ salt' = 0
  /\ UNCHANGED rd

\* The header maybeBootstrap reads: the published one, or what SQLite's recovery,
\* run by the connection opened before, made of the file.
StartHeader == IF Published THEN hdr[0] ELSE RecoveredHeader
\* A rewind writes the file's header, the index's and the checkpoint info in turn.
HalfRewound == Published /\ (hdr[0].salt # salt \/ nBackfill > hdr[0].mx)
BootstrapFails == ~StartHeader.sized /\ \E i \in Frames : file[i] # NoFrame

\* Open, with maybeBootstrap.
Open ==
  LET bootstrap == ~StartHeader.sized /\ ~BootstrapFails
      h == IF bootstrap THEN Header(TRUE, 0, NewSalt, last) ELSE StartHeader
  IN  /\ node = "down" /\ starts < MaxStarts
      /\ starts' = starts + 1
      /\ node' = IF BootstrapFails THEN "failed" ELSE "up"
      /\ salt' = IF bootstrap THEN NewSalt ELSE salt
      /\ hdr' = [k \in {0, 1} |-> h]
      /\ last' = h.ver
      /\ halfRewound' = (halfRewound \/ HalfRewound)
      /\ IF Published THEN UNCHANGED <<nBackfill, readMark, regions, overlaid>>
         ELSE /\ nBackfill' = 0
              /\ readMark' = [i \in Mark |-> IF InSlot(i) THEN readMark[i]
                                             ELSE IF i = 1 THEN h.mx ELSE NotUsed]
              /\ regions' = RecoveredRegions
              /\ overlaid' = {}
      /\ UNCHANGED <<file, dbfile, lockVars, pc, loc, rd, ck, dirtyPageCount, nTxn, content>>

-----------------------------------------------------------------------------
\* A node whose log was just bootstrapped.
Init ==
  /\ salt = 1
  /\ file = [i \in Frames |-> NoFrame]
  /\ dbfile = [pg \in Page |-> 0]
  /\ hdr = [k \in {0, 1} |-> Header(TRUE, 0, 1, 0)]
  /\ nBackfill = 0
  /\ readMark = [i \in Mark |-> IF i = 1 THEN 0 ELSE NotUsed]
  /\ regions = BlankRegions
  /\ lockCh = {"main", "restore"} /\ writeLock = "none" /\ markLock = "none"
  /\ pc = [w \in Writer |-> "idle"]
  /\ loc = [w \in Writer |-> NoLoc]
  /\ rd = [r \in Reader |-> NoRd]
  /\ ck = NoCk
  /\ dirtyPageCount = 0
  /\ node = "up" /\ starts = 0
  /\ nTxn = 0
  /\ content = [t \in 0..MaxTxn |-> [pg \in Page |-> 0]]
  /\ last = 0
  /\ overlaid = {} /\ halfRewound = FALSE

Write(w) ==
  \/ TakeToken(w) \/ GiveUp(w) \/ LockOFD(w) \/ Release(w)
  \/ Rewind(w) \/ NoRewind(w) \/ ResetForRewind(w)
  \/ \E pg \in Page, commit \in BOOLEAN : AppendFrame(w, pg, commit)
  \/ Abandon(w) \/ WriteHeader(w)

Checkpoint ==
  \/ \E by \in Writer \cup {"ticker"} : CheckpointBegin(by)
  \/ \E pg \in Page : CheckpointCopy(pg)
  \/ CheckpointEnd
  \/ \E w \in Writer : CheckpointNothing(w)

Read(r) == ReadBegin(r) \/ ReadLock(r) \/ ReadCheck(r) \/ ReadEnd(r)

Next ==
  \/ \E w \in Writer : Write(w)
  \/ Checkpoint
  \/ \E r \in Reader : Read(r)
  \/ Crash \/ Close \/ Open

Spec == Init /\ [][Next]_vars

-----------------------------------------------------------------------------
\* Properties

\* The lock's two halves exclude everybody: of FSM.Apply, the handlers, a restore
\* and SQLite's writer, at most one is between AcquireWriteLock and Release
\* (walappender.go:33-38).
OneWriter ==
  \A v, w \in Writer : {pc[v], pc[w]} \cap {"idle", "wait", "threshold"} = {} => v = w

\* A reader that took its slot sees, page by page and until it ends, exactly the
\* transaction its header names, whatever is appended, rewound, reset or
\* checkpointed meanwhile, as long as no entry was added in the place of one that an
\* abandoned transaction left behind and no half-done rewind was taken over.
ReaderSnapshot ==
  overlaid = {} /\ ~halfRewound =>
    \A r \in Reader : rd[r].pc = "reading" => View(r) = content[rd[r].h.ver]

\* "AddFrame records in the wal-index that WAL frame `frameIdx` holds database page
\* number `pgNo`" (shm.go:143): whoever looks a page up finds its last frame.
LookupFindsLast ==
  Published => LET mx == hdr[0].mx
               IN  \A pg \in Page : FindFrame(regions, pg, 1, mx)
                                    = Max({0} \cup {i \in 1..mx : file[i].pg = pg})

\* Recovery from the files alone, at any moment, yields the content of some whole
\* transaction, and none older than the newest published one, as long as no half-done
\* rewind was taken over.
NothingLost ==
  LET h == RecoveredHeader
  IN  ~halfRewound =>
      /\ h.ver >= last
      /\ \A pg \in Page : PageRecovered(pg, h.mx) = content[h.ver][pg]

\* While the process runs, the wal-index header can be read: WriteHeader never
\* leaves both copies torn (shm.go:107-120), and the one that can be read is the
\* published one or the one being published.
HeaderReadable ==
  Up => LET h == ReadHeader(hdr[0], hdr[1])
        IN  /\ h # Torn
            /\ h.ver = last \/ \E w \in Writer : pc[w] = "header3" /\ h = loc[w].hdr

\* README.md:235-236 says that restarting a node after a crash brings it back
\* automatically: Open never refuses the files an earlier run left.
StartsAgain == node # "failed"

=============================================================================
