------------------------------ MODULE GatedWAL ------------------------------
(***************************************************************************)
(* gatedWALFile: the VFS file that captures the frames of a transaction as *)
(* SQLite writes them, hands them to the gate when the commit frame        *)
(* arrives, and lets that frame reach the disk only if the gate agrees.    *)
(*                                                                         *)
(* SQLite's WAL writer is external: it appends frames as header and data,  *)
(* overwrites the data of its own spilled frames in place, rewrites        *)
(* checksums after a commit that did so, rolls back, and shares the file   *)
(* with other writers.  A file offset is the number of the frame there.    *)
(***************************************************************************)
EXTENDS Naturals, Sequences, FiniteSets

CONSTANTS Page, Val,   \* page numbers and page contents
          Slots,       \* bound: frames the file has room for
          Epochs,      \* bound: how often the log is started
          None

ASSUME BoundsAssumption == Slots \in Nat /\ Epochs \in Nat

VARIABLES
  \* the -wal file: the salt in its header, and its frames
  epoch, file,
  \* SQLite: the published frames (wal-index), those the connection counts on,
  \* where it is, the frame it is writing, and the first stale checksum (or 0)
  pub, mine, pc, next, recksum,
  \* the fields of gatedWALFile
  pendingFrameHeader, currentTxFrames, currentTxFrameOffsets,
  currentTxCommitted, maxOffset, pendingRewrite,
  \* history: the gate has released the transaction that is not yet published;
  \* which case that the capture does not handle has happened
  released, anomaly

sqliteVars == <<epoch, pub, mine, pc, next, recksum>>
captureVars == <<pendingFrameHeader, currentTxFrames, currentTxFrameOffsets,
                 currentTxCommitted, maxOffset, pendingRewrite>>
history == <<released, anomaly>>
vars == <<file, sqliteVars, captureVars, history>>

-----------------------------------------------------------------------------
\* The file format

Slot == 1..Slots

\* What a frame says; what its checksum covers (ideally: everything before it).
Content == [pg : Page, commit : BOOLEAN, val : Val]
FrameHeader ==
  [pg : Page \cup {None}, commit : BOOLEAN, sum : [salt : Nat, over : Seq(Content)]]

\* None, for nil and for what was never written, is no header and no staged rewrite.
ASSUME NoneAssumption ==
  None \notin FrameHeader /\ None \notin [off : Slot, hdr : FrameHeader]

Sum(contents) == [salt |-> epoch, over |-> contents]
NoSum == [salt |-> 0, over |-> <<>>]
Header(c, sum) == [pg |-> c.pg, commit |-> c.commit, sum |-> sum]
NoHeader == [pg |-> None, commit |-> FALSE, sum |-> NoSum]
NoFrame == [hdr |-> NoHeader, val |-> None]

ContentAt(i) == [pg |-> file[i].hdr.pg, commit |-> file[i].hdr.commit, val |-> file[i].val]
Contents(i) == [j \in 1..i |-> ContentAt(j)]

\* What recovery finds: the frames up to the last commit frame before the first
\* frame whose salt or checksum is wrong.
Intact(i) == \A j \in 1..i : file[j].hdr.sum = Sum(Contents(j))
Recovered ==
  LET ends == {i \in Slot : Intact(i) /\ file[i].hdr.commit}
  IN  IF ends = {} THEN <<>>
      ELSE Contents(CHOOSE i \in ends : \A j \in ends : j <= i)

-----------------------------------------------------------------------------
\* gatedWALFile

NoFrames == [i \in {} |-> NoFrame]
With(frames, off, frame) ==
  [i \in DOMAIN frames \cup {off} |-> IF i = off THEN frame ELSE frames[i]]

PutHeader(off, h, ok) == file' = IF ok THEN [file EXCEPT ![off].hdr = h] ELSE file
PutData(off, val, ok) == file' = IF ok THEN [file EXCEPT ![off].val = val] ELSE file

\* Mutation: the rewritten header is taken for a new transaction's.
LooksRewrittenNever(off, h) == FALSE

\* A header that looks like the checksum rewrite of a committed frame.
LooksRewritten(off, h) ==
  /\ currentTxCommitted
  /\ off \in DOMAIN currentTxFrameOffsets
  /\ currentTxFrameOffsets[off].hdr.pg = h.pg

\* Mutation: frames that are written over stay captured.
StartsAnewCommitted(off) == currentTxCommitted

\* What a header makes the file forget: the transaction before it, or frames
\* that are being written over.
StartsAnew(off) == currentTxCommitted \/ off <= maxOffset

\* Mutation: resetCurrentTx leaves the list of frames alone.
KeptFramesAlways(off) == currentTxFrames

\* resetCurrentTx, where it applies.
KeptFrames(off) == IF StartsAnew(off) THEN <<>> ELSE currentTxFrames
KeptOffsets(off) == IF StartsAnew(off) THEN NoFrames ELSE currentTxFrameOffsets

\* writeFrameHeader; ok says whether the disk takes the write.
WriteFrameHeader(off, h, ok) ==
  \/ /\ LooksRewritten(off, h)
     /\ currentTxFrameOffsets' = [currentTxFrameOffsets EXCEPT ![off].hdr = h]
     /\ pendingRewrite' = [off |-> off, hdr |-> h]
     /\ PutHeader(off, h, ok)
     /\ UNCHANGED <<pendingFrameHeader, currentTxFrames, currentTxCommitted, maxOffset>>
  \/ /\ ~LooksRewritten(off, h)
     /\ pendingRewrite' = None
     /\ pendingFrameHeader' = h
     /\ maxOffset' = off
     /\ currentTxCommitted' = FALSE
     /\ currentTxFrames' = KeptFrames(off)
     /\ currentTxFrameOffsets' = KeptOffsets(off)
     /\ IF h.commit THEN UNCHANGED file ELSE PutHeader(off, h, ok)

\* Mutation: it is taken for an overwrite of the committed frame.
DisprovesNever(off) == FALSE

\* A data write that disproves the staged checksum rewrite.
Disproves(off) == pendingRewrite # None /\ pendingRewrite.off = off

\* What writeFrameData works on once that is settled.
Captured(off) == IF Disproves(off) THEN NoFrames ELSE currentTxFrameOffsets
CapturedList(off) == IF Disproves(off) THEN <<>> ELSE currentTxFrames
HeaderFor(off) == IF Disproves(off) THEN pendingRewrite.hdr ELSE pendingFrameHeader

\* Mutation: the captured copy keeps the old data.
OverwriteFileOnly(off, val, ok) ==
  /\ PutData(off, val, ok)
  /\ UNCHANGED captureVars

\* writeFrameData for a frame this transaction has written before.
OverwriteFrame(off, val, ok) ==
  /\ currentTxFrameOffsets' = [currentTxFrameOffsets EXCEPT ![off].val = val]
  /\ PutData(off, val, ok)
  /\ UNCHANGED <<pendingFrameHeader, currentTxFrames, currentTxCommitted, maxOffset,
                 pendingRewrite>>

\* writeFrameData for a new frame.  The data of a commit frame is withheld too.
CaptureFrame(off, val, ok) ==
  /\ pendingFrameHeader' = None
  /\ currentTxFrames' = Append(CapturedList(off), off)
  /\ currentTxFrameOffsets' =
       With(Captured(off), off, [hdr |-> HeaderFor(off), val |-> val])
  /\ currentTxCommitted' = (currentTxCommitted /\ ~Disproves(off))
  /\ maxOffset' = IF Disproves(off) THEN off ELSE maxOffset
  /\ pendingRewrite' = IF Disproves(off) THEN None ELSE pendingRewrite
  /\ IF HeaderFor(off).commit THEN UNCHANGED file ELSE PutData(off, val, ok)

\* writeFrameData, up to the gate.  Data without a header is an error.
WriteFrameData(off, val, ok) ==
  IF off \in DOMAIN Captured(off) THEN OverwriteFrame(off, val, ok)
  ELSE IF HeaderFor(off) = None THEN UNCHANGED <<file, captureVars>>
  ELSE CaptureFrame(off, val, ok)

\* What it returns: success, an error, or nothing before the gate has decided.
DataResult(off, ok) ==
  IF off \in DOMAIN Captured(off) THEN IF ok THEN "ok" ELSE "error"
  ELSE IF HeaderFor(off) = None THEN "error"
  ELSE IF HeaderFor(off).commit THEN "gate"
  ELSE IF ok THEN "ok" ELSE "error"

-----------------------------------------------------------------------------
\* SQLite's writer: one action per write it makes

\* The frames of the open transaction, and what they say of its pages.
InTx(i) == i > Len(pub) /\ i <= Len(mine)
Pages(frames) == {frames[i].pg : i \in DOMAIN frames}
Latest(frames, p) ==
  frames[CHOOSE i \in DOMAIN frames :
           frames[i].pg = p /\ \A j \in DOMAIN frames : frames[j].pg = p => j <= i].val
Image(frames) == [p \in Pages(frames) |-> Latest(frames, p)]
Transaction == LET all == Append(mine, next)
               IN  SubSeq(all, Len(pub) + 1, Len(all))
Proposal == [i \in 1..Len(currentTxFrames) |->
              LET f == currentTxFrameOffsets[currentTxFrames[i]]
              IN  [pg |-> f.hdr.pg, commit |-> f.hdr.commit, val |-> f.val]]

\* The three cases that the capture does not foresee, and when they begin.
CarriesOver(off) ==
  mine = pub /\ currentTxFrames # <<>> /\ ~currentTxCommitted /\ off > maxOffset
DropsOwn(off) == mine # pub /\ off <= maxOffset
Completes(off, c) == LooksRewritten(off, Header(c, NoSum)) /\ c.commit /\ file[off].val = c.val

Record(off, c) ==
  anomaly' = IF anomaly # "none" THEN anomaly
             ELSE IF CarriesOver(off) THEN "carried"
             ELSE IF DropsOwn(off) THEN "dropped"
             ELSE IF Completes(off, c) THEN "completed" ELSE "none"

Begin ==
  /\ pc = "idle"
  /\ pc' = "open"
  /\ mine' = pub
  /\ UNCHANGED <<epoch, pub, next, recksum, file, captureVars, history>>

\* The transaction is over; its frames stay in the file.
EndTx == pc' = "idle" /\ next' = None /\ mine' = <<>> /\ recksum' = 0

Rollback ==
  /\ pc = "open"
  /\ EndTx
  /\ UNCHANGED <<epoch, pub, file, captureVars, history>>

\* walWriteOneFrame, first half.  A page the transaction has spilled is only
\* written again as the commit frame.  A write that fails ends the transaction.
WriteHeader(c, ok) ==
  LET off == Len(mine) + 1
      h == Header(c, IF recksum = 0 THEN Sum(Append(mine, c)) ELSE NoSum)
  IN  /\ pc = "open"
      /\ off \in Slot
      /\ c.commit \/ \A i \in DOMAIN mine : InTx(i) => mine[i].pg # c.pg
      /\ WriteFrameHeader(off, h, ok)
      /\ Record(off, c)
      /\ IF ok \/ (c.commit /\ ~LooksRewritten(off, h))
         THEN pc' = "data" /\ next' = c /\ UNCHANGED <<mine, recksum>>
         ELSE EndTx
      /\ UNCHANGED <<epoch, pub, released>>

\* walWriteOneFrame, second half.
WriteData(ok) ==
  LET off == Len(mine) + 1
      result == DataResult(off, ok)
  IN  /\ pc = "data"
      /\ WriteFrameData(off, next.val, ok)
      /\ CASE result = "error" -> EndTx
           [] result = "gate" -> pc' = "gate" /\ UNCHANGED <<next, mine, recksum>>
           [] result = "ok" -> /\ pc' = IF next.commit THEN "publish" ELSE "open"
                               /\ next' = None
                               /\ mine' = Append(mine, next)
                               /\ UNCHANGED recksum
      /\ UNCHANGED <<epoch, pub, history>>

\* A spilled page changes again: its frame gets new data and keeps, for now, a
\* checksum that no longer fits.
Overwrite(i, val, ok) ==
  /\ pc = "open"
  /\ InTx(i)
  /\ WriteFrameData(i, val, ok)
  /\ IF DataResult(i, ok) = "ok"
     THEN /\ mine' = [mine EXCEPT ![i].val = val]
          /\ recksum' = IF recksum = 0 \/ i < recksum THEN i ELSE recksum
          /\ UNCHANGED <<pc, next>>
     ELSE EndTx
  /\ UNCHANGED <<epoch, pub, history>>

\* The gate agrees, and the withheld frame is written.  If that fails the process
\* panics, with the header on disk or without it.
GateCommits(done) ==
  LET off == Len(mine) + 1
      f == currentTxFrameOffsets[off]
  IN  /\ pc = "gate"
      /\ currentTxFrames' = <<>>
      /\ currentTxCommitted' = TRUE
      /\ file' = CASE done = "both" -> [file EXCEPT ![off] = f]
                   [] done = "header" -> [file EXCEPT ![off].hdr = f.hdr]
                   [] done = "nothing" -> file
      /\ pc' = IF done = "both" THEN "publish" ELSE "panic"
      /\ mine' = Append(mine, next)
      /\ next' = None
      /\ released' = TRUE
      /\ UNCHANGED <<epoch, pub, recksum, pendingFrameHeader, currentTxFrameOffsets,
                     maxOffset, pendingRewrite, anomaly>>

\* The gate refuses: the withheld frame is discarded and SQLite rolls back.
GateRejects ==
  /\ pc = "gate"
  /\ currentTxFrames' = <<>>
  /\ currentTxFrameOffsets' = NoFrames
  /\ currentTxCommitted' = FALSE
  /\ pendingRewrite' = None
  /\ EndTx
  /\ UNCHANGED <<epoch, pub, file, pendingFrameHeader, maxOffset, history>>

\* walRewriteChecksums: the header of the next frame with a stale checksum.
RewriteChecksum(ok) ==
  LET off == recksum
      before == IF off = 1 THEN <<>> ELSE file[off - 1].hdr.sum.over
      h == Header(ContentAt(off), Sum(Append(before, ContentAt(off))))
  IN  /\ pc = "publish"
      /\ recksum # 0
      /\ WriteFrameHeader(off, h, ok)
      /\ IF ok
         THEN /\ recksum' = IF off = Len(mine) THEN 0 ELSE off + 1
              /\ UNCHANGED <<pc, next, mine, anomaly>>
         ELSE /\ EndTx
              /\ anomaly' = IF anomaly = "none" THEN "unpublished" ELSE anomaly
      /\ UNCHANGED <<epoch, pub, released>>

\* walIndexWriteHdr: readers see the transaction.
Publish ==
  /\ pc = "publish"
  /\ recksum = 0
  /\ pub' = mine
  /\ released' = FALSE
  /\ EndTx
  /\ UNCHANGED <<epoch, file, captureVars, anomaly>>

\* ROLLBACK TO: the connection forgets its frames after the k-th.
SavepointUndo(k) ==
  /\ pc = "open"
  /\ k \in Len(pub)..(Len(mine) - 1)
  /\ mine' = SubSeq(mine, 1, k)
  /\ recksum' = IF recksum > k THEN 0 ELSE recksum
  /\ UNCHANGED <<epoch, pub, pc, next, file, captureVars, history>>

\* Another connection, or the FSM's WAL appender, commits a frame.
OtherCommits(c) ==
  LET off == Len(pub) + 1
  IN  /\ pc = "idle"
      /\ off \in Slot
      /\ c.commit
      /\ file' = [file EXCEPT ![off] =
                    [hdr |-> Header(c, Sum(Append(pub, c))), val |-> c.val]]
      /\ pub' = Append(pub, c)
      /\ UNCHANGED <<epoch, mine, pc, next, recksum, captureVars, history>>

\* The log is checkpointed and started again: a new WAL header, at offset 0.
Restart ==
  /\ pc = "idle"
  /\ pub # <<>>
  /\ epoch < Epochs
  /\ epoch' = epoch + 1
  /\ pub' = <<>>
  /\ UNCHANGED <<mine, pc, next, recksum, file, captureVars, history>>

\* The process ends at any moment; the next one recovers the log.
Crash ==
  /\ pub' = Recovered
  /\ released' = FALSE
  /\ EndTx
  /\ pendingFrameHeader' = None /\ currentTxFrames' = <<>>
  /\ currentTxFrameOffsets' = NoFrames /\ currentTxCommitted' = FALSE
  /\ maxOffset' = 0 /\ pendingRewrite' = None
  /\ UNCHANGED <<epoch, file, anomaly>>

\* newGatedWALFile
NewGatedWALFile ==
  /\ pendingFrameHeader = None
  /\ currentTxFrames = <<>>
  /\ currentTxFrameOffsets = NoFrames
  /\ currentTxCommitted = FALSE
  /\ maxOffset = 0
  /\ pendingRewrite = None

Init ==
  /\ epoch = 1 /\ file = [i \in Slot |-> NoFrame]
  /\ pub = <<>> /\ mine = <<>> /\ pc = "idle" /\ next = None /\ recksum = 0
  /\ NewGatedWALFile
  /\ released = FALSE /\ anomaly = "none"

Next ==
  \/ Begin \/ Rollback
  \/ \E c \in Content, ok \in BOOLEAN : WriteHeader(c, ok)
  \/ \E ok \in BOOLEAN : WriteData(ok)
  \/ \E i \in Slot, val \in Val, ok \in BOOLEAN : Overwrite(i, val, ok)
  \/ \E done \in {"both", "header", "nothing"} : GateCommits(done)
  \/ GateRejects
  \/ \E ok \in BOOLEAN : RewriteChecksum(ok)
  \/ Publish
  \/ \E k \in 0..Slots : SavepointUndo(k)
  \/ \E c \in Content : OtherCommits(c)
  \/ Restart
  \/ Crash

Spec == Init /\ [][Next]_vars

-----------------------------------------------------------------------------
\* Properties

Clean == anomaly = "none"

\* The captured state of a gatedWALFile: frames lie at frame offsets, and every
\* frame in the list is filed under its offset.
TypeOK ==
  /\ pc \in {"idle", "open", "data", "gate", "publish", "panic"}
  /\ pub \in Seq(Content) /\ mine \in Seq(Content)
  /\ next \in Content \cup {None}
  /\ recksum \in 0..Slots
  /\ DOMAIN currentTxFrameOffsets \subseteq Slot
  /\ \A i \in 1..Len(currentTxFrames) : currentTxFrames[i] \in DOMAIN currentTxFrameOffsets
  /\ maxOffset \in 0..Slots
  /\ currentTxCommitted \in BOOLEAN

\* What ProposeTransaction gets are the pages of the transaction SQLite is
\* committing, each with its latest contents, and nothing else.
ProposalIsTransaction ==
  Clean /\ pc = "gate" => Image(Proposal) = Image(Transaction)

\* Whenever the process ends, recovery finds what readers were shown, or also
\* the transaction that the gate has just released: no frame of a transaction
\* that was refused, rolled back or never decided, and none lost to a checksum
\* that was not rewritten.
RecoveredIsApproved ==
  Clean => Recovered = pub \/ (released /\ Recovered = mine)

-----------------------------------------------------------------------------
\* What the comments say, without excluding the cases above

\* currentTxFrames: "Uncommitted frames captured in the current transaction": those
\* and no others are proposed.
CapturedIsTransaction ==
  pc = "gate" => Image(Proposal) = Image(Transaction)

\* On an error of the gate "the commit frame never reaches disk": between two
\* transactions the file holds what was published.
RefusedStaysOut ==
  pc = "idle" /\ ~released => Recovered = pub

=============================================================================
