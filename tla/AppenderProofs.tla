--------------------------- MODULE AppenderProofs ---------------------------
(***************************************************************************)
(* The write lock of WALAppender excludes, for any number of pages,        *)
(* readers and transactions, and wal-index entries stay inside their       *)
(* regions for any layout.                                                 *)
(***************************************************************************)
EXTENDS WALAppender, TLAPS

\* Steps that name no prover are left to Zenon.
USE ZenonT(60)

-----------------------------------------------------------------------------
\* Where AddFrame writes

\* The entry of any frame lies inside its region's array of page numbers, and in
\* region 0 behind the header (walindex.go:188-201, shm.go:151-161).
THEOREM EntryInRegion ==
  ASSUME NEW frame \in Nat \ {0}
  PROVE  LET id == RegionForFrame(frame)
             idx == frame - FrameZeroForRegion(id)
         IN  /\ id \in Nat
             /\ idx \in 1..RegionPages
             /\ id = 0 => idx <= Region0Pages
PROOF
<1> DEFINE a == frame + HeaderPages - 1
           r == a \div RegionPages
<1>1. RegionPages \in Nat /\ HeaderPages \in Nat /\ RegionPages > 0 /\ HeaderPages < RegionPages
  BY LayoutAssumption, SMTT(60)
<1>2. a \in Nat /\ RegionForFrame(frame) = r
  BY <1>1, SMTT(60) DEF RegionForFrame, Region0Pages
<1> HIDE DEF a
<1>3. r \in Nat /\ RegionPages * r <= a /\ a < RegionPages * r + RegionPages
  BY <1>1, <1>2, SMTT(60)
<1> HIDE DEF r
<1>4. frame = a + 1 - HeaderPages
  BY <1>1, SMTT(60) DEF a
<1>5. CASE r = 0
  BY <1>1, <1>2, <1>3, <1>4, <1>5, SMTT(60) DEF FrameZeroForRegion, Region0Pages
<1>6. CASE r # 0
  <2>1. FrameZeroForRegion(r) = RegionPages - HeaderPages + (r - 1) * RegionPages
    BY <1>6 DEF FrameZeroForRegion, Region0Pages
  <2>2. (r - 1) * RegionPages = RegionPages * r - RegionPages
    BY <1>1, <1>3, SMTT(60)
  <2>3. frame - FrameZeroForRegion(r) = a + 1 - RegionPages * r
    BY <1>1, <1>2, <1>3, <1>4, <2>1, <2>2, SMTT(60)
  <2> QED
    BY <1>1, <1>2, <1>3, <1>6, <2>3, SMTT(60)
<1> QED
  BY <1>5, <1>6

-----------------------------------------------------------------------------
\* The write lock

\* A writer that has its appender's token, and one that has the write lock.
HasToken(w) == w # "sqlite" /\ pc[w] \notin {"idle", "threshold"}
Holds(w) == pc[w] \notin {"idle", "wait", "threshold"}

\* A token is held by one writer at a time; the holder of the lock is the owner
\* the lock names, and has its appender's token; a writer for which a checkpoint
\* runs has released both.
LockInv ==
  /\ pc = [w \in Writer |-> pc[w]]
  /\ \A w \in Writer : HasToken(w) => Appender(w) \notin lockCh
  /\ \A v, w \in Writer : HasToken(v) /\ HasToken(w) /\ Appender(v) = Appender(w) => v = w
  /\ \A w \in Writer : Holds(w) => writeLock = OFD(w)
  /\ \A w \in Writer : w = "sqlite" => pc[w] # "wait"
  /\ ck.by \in Writer => pc[ck.by] = "threshold"

\* Two writers that own the lock under one name are one writer.
LEMMA SameOwner ==
  ASSUME LockInv, NEW v \in Writer, NEW w \in Writer,
         HasToken(v) \/ v = "sqlite", HasToken(w) \/ w = "sqlite", OFD(v) = OFD(w)
  PROVE  v = w
BY DEF LockInv, OFD, Appender, HasToken

\* What Holds says of the token.
LEMMA HolderHasToken ==
  ASSUME NEW w \in Writer, Holds(w)
  PROVE  HasToken(w) \/ w = "sqlite"
BY DEF Holds, HasToken

\* A step of a holder under the lock: neither lock moves, and no checkpoint begins.
LEMMA UnderLock ==
  ASSUME LockInv, NEW w \in Writer, Holds(w), NEW label,
         label \notin {"idle", "wait", "threshold"},
         Goto(w, label), UNCHANGED <<lockCh, writeLock, ck>>
  PROVE  LockInv'
PROOF
<1>1. pc' = [v \in Writer |-> pc'[v]]
  BY DEF LockInv, Goto
<1>2. \A v \in Writer : v # w => pc'[v] = pc[v]
  BY DEF LockInv, Goto
<1>3. pc'[w] \notin {"idle", "wait", "threshold"}
  BY DEF LockInv, Goto, Holds
<1>4. \A v \in Writer : HasToken(v)' <=> HasToken(v)
  BY <1>2, <1>3 DEF HasToken, Holds
<1>5. \A v \in Writer : Holds(v)' <=> Holds(v)
  BY <1>2, <1>3 DEF Holds
<1>6. ck'.by \in Writer => pc'[ck'.by] = "threshold"
  BY <1>2 DEF LockInv, Holds
<1>7. \A v \in Writer : v = "sqlite" => pc'[v] # "wait"
  BY <1>2, <1>3 DEF LockInv
<1> QED
  BY <1>1, <1>4, <1>5, <1>6, <1>7 DEF LockInv

\* A step that leaves the locks and all labels alone.
LEMMA NoLockStep ==
  ASSUME LockInv, UNCHANGED <<lockCh, writeLock, pc, ck>>
  PROVE  LockInv'
BY DEF LockInv, HasToken, Holds

\* What Goto does.
LEMMA GotoEffect ==
  ASSUME LockInv, NEW w \in Writer, NEW label, Goto(w, label)
  PROVE  /\ pc' = [v \in Writer |-> pc'[v]] /\ pc'[w] = label
         /\ \A v \in Writer : v # w => pc'[v] = pc[v]
PROOF
<1>1. pc' = [v \in Writer |-> pc'[v]]
  BY DEF LockInv, Goto
<1>2. pc'[w] = label
  BY DEF LockInv, Goto
<1>3. \A v \in Writer : v # w => pc'[v] = pc[v]
  BY DEF LockInv, Goto
<1> QED
  BY <1>1, <1>2, <1>3

\* AcquireWriteLock's two halves.
LEMMA TakeTokenStep ==
  ASSUME LockInv, NEW w \in Writer, TakeToken(w)
  PROVE  LockInv'
PROOF
<1>1. /\ pc' = [v \in Writer |-> pc'[v]] /\ pc'[w] = "wait" /\ pc[w] = "idle"
      /\ \A v \in Writer : v # w => pc'[v] = pc[v]
  BY GotoEffect DEF TakeToken
<1>2. /\ Appender(w) \in lockCh /\ lockCh' = lockCh \ {Appender(w)}
      /\ w # "sqlite" /\ writeLock' = writeLock /\ ck' = ck
  BY DEF TakeToken
<1>3. \A v \in Writer : HasToken(v)' => v = w \/ (HasToken(v) /\ Appender(v) # Appender(w))
  BY <1>1, <1>2 DEF LockInv, HasToken
<1>4. \A v \in Writer : Holds(v)' => Holds(v)
  BY <1>1 DEF Holds
<1>5. ck'.by \in Writer => pc'[ck'.by] = "threshold"
  BY <1>1, <1>2 DEF LockInv
<1>6. \A v \in Writer : HasToken(v)' => Appender(v) \notin lockCh'
  BY <1>2, <1>3 DEF LockInv
<1>7. \A u, v \in Writer : HasToken(u)' /\ HasToken(v)' /\ Appender(u) = Appender(v) => u = v
  BY <1>3 DEF LockInv
<1>8. \A v \in Writer : v = "sqlite" => pc'[v] # "wait"
  BY <1>1, <1>2 DEF LockInv
<1> QED
  BY <1>1, <1>2, <1>4, <1>5, <1>6, <1>7, <1>8 DEF LockInv

LEMMA LockOFDStep ==
  ASSUME LockInv, NEW w \in Writer, LockOFD(w)
  PROVE  LockInv'
PROOF
<1>1. /\ pc' = [v \in Writer |-> pc'[v]] /\ pc'[w] = "held" /\ pc[w] \in {"idle", "wait"}
      /\ \A v \in Writer : v # w => pc'[v] = pc[v]
  BY GotoEffect DEF LockOFD
<1>2. /\ writeLock \in {"none", OFD(w)} /\ writeLock' = OFD(w)
      /\ lockCh' = lockCh /\ ck' = ck
  BY DEF LockOFD
<1>3. HasToken(w) \/ w = "sqlite"
  BY DEF LockOFD, HasToken
<1>4. \A v \in Writer : HasToken(v)' => HasToken(v)
  BY <1>1, <1>3 DEF HasToken
<1>5. \A v \in Writer : Holds(v)' => v = w
  <2> SUFFICES ASSUME NEW v \in Writer, v # w, Holds(v)
               PROVE  FALSE
    BY <1>1 DEF Holds
  <2>1. OFD(v) = OFD(w)
    BY <1>2 DEF LockInv, OFD, Appender
  <2> QED
    BY <1>3, <2>1, HolderHasToken, SameOwner
<1>6. ck'.by \in Writer => pc'[ck'.by] = "threshold"
  BY <1>1, <1>2 DEF LockInv
<1>7. \A v \in Writer : v = "sqlite" => pc'[v] # "wait"
  BY <1>1 DEF LockInv
<1> QED
  BY <1>1, <1>2, <1>4, <1>5, <1>6, <1>7 DEF LockInv

\* A writer gives up its token, and with it the lock if it had it.
LEMMA GiveBackStep ==
  ASSUME LockInv, NEW w \in Writer, HasToken(w) \/ w = "sqlite",
         NEW label \in {"idle", "threshold"}, Goto(w, label),
         pc[w] \notin {"idle", "threshold"}, ck' = ck,
         lockCh' = IF w = "sqlite" THEN lockCh ELSE lockCh \cup {Appender(w)},
         \/ Holds(w) /\ writeLock' = "none"
         \/ writeLock' = writeLock
  PROVE  LockInv'
PROOF
<1>1. /\ pc' = [v \in Writer |-> pc'[v]] /\ pc'[w] = label
      /\ \A v \in Writer : v # w => pc'[v] = pc[v]
  BY GotoEffect
<1>2. \A v \in Writer : HasToken(v)' => HasToken(v) /\ v # w
  BY <1>1 DEF HasToken
<1>3. \A v \in Writer : Holds(v)' => Holds(v) /\ v # w
  BY <1>1 DEF Holds
<1>4. \A v \in Writer : HasToken(v)' => Appender(v) \notin lockCh'
  BY <1>2 DEF LockInv, HasToken
<1>5. \A v \in Writer : Holds(v)' => writeLock' = OFD(v)
  <2> SUFFICES ASSUME NEW v \in Writer, Holds(v), v # w
               PROVE  writeLock' = OFD(v)
    BY <1>3
  <2>1. writeLock = OFD(v)
    BY DEF LockInv
  <2>2. ~Holds(w)
    <3> SUFFICES ASSUME Holds(w) PROVE FALSE
      OBVIOUS
    <3>1. OFD(v) = OFD(w)
      BY <2>1 DEF LockInv
    <3> QED
      BY <3>1, HolderHasToken, SameOwner
  <2> QED
    BY <2>1, <2>2
<1>6. ck'.by \in Writer => pc'[ck'.by] = "threshold"
  BY <1>1 DEF LockInv
<1>7. \A v \in Writer : v = "sqlite" => pc'[v] # "wait"
  BY <1>1 DEF LockInv
<1>8. \A u, v \in Writer : HasToken(u)' /\ HasToken(v)' /\ Appender(u) = Appender(v) => u = v
  BY <1>2 DEF LockInv
<1> QED
  BY <1>1, <1>4, <1>5, <1>6, <1>7, <1>8 DEF LockInv

\* Under the lock: a rewind, frames, headers.
LEMMA UnderLockStep ==
  ASSUME LockInv, NEW w \in Writer,
         \/ Rewind(w) \/ NoRewind(w) \/ ResetForRewind(w)
         \/ \E pg \in Page, commit \in BOOLEAN : AppendFrame(w, pg, commit)
         \/ Abandon(w) \/ WriteHeader(w)
  PROVE  LockInv'
PROOF
<1>1. CASE Rewind(w)
  <2>1. Holds(w) /\ Goto(w, "header1") /\ UNCHANGED <<lockCh, writeLock, ck>>
    BY <1>1 DEF Rewind, Holds, Begin
  <2> QED
    BY <2>1, UnderLock DEF Goto
<1>2. CASE NoRewind(w)
  <2>1. Holds(w) /\ Goto(w, "append") /\ UNCHANGED <<lockCh, writeLock, ck>>
    BY <1>2 DEF NoRewind, Holds, Begin
  <2> QED
    BY <2>1, UnderLock DEF Goto
<1>3. CASE ResetForRewind(w)
  <2>1. Holds(w) /\ Goto(w, "append") /\ UNCHANGED <<lockCh, writeLock, ck>>
    BY <1>3 DEF ResetForRewind, Holds
  <2> QED
    BY <2>1, UnderLock DEF Goto
<1>4. ASSUME NEW pg \in Page, NEW commit \in BOOLEAN, AppendFrame(w, pg, commit)
      PROVE  LockInv'
  <2>1. /\ Holds(w) /\ (Goto(w, "header1") \/ UNCHANGED pc)
        /\ UNCHANGED <<lockCh, writeLock, ck>>
    BY <1>4 DEF AppendFrame, Holds, lockVars
  <2>2. CASE UNCHANGED pc
    BY <2>1, <2>2, NoLockStep
  <2>3. CASE Goto(w, "header1")
    BY <2>1, <2>3, UnderLock DEF Goto
  <2> QED
    BY <2>1, <2>2, <2>3
<1>5. CASE Abandon(w)
  <2>1. Holds(w) /\ Goto(w, "done") /\ UNCHANGED <<lockCh, writeLock, ck>>
    BY <1>5 DEF Abandon, Holds, lockVars
  <2> QED
    BY <2>1, UnderLock DEF Goto
<1>6. CASE WriteHeader(w)
  <2>1. UNCHANGED <<lockCh, writeLock, ck>> /\ WriteCopies(w)
    BY <1>6 DEF WriteHeader, lockVars
  <2>2. /\ Holds(w)
        /\ \/ Goto(w, "header2") \/ Goto(w, "header3") \/ Goto(w, "info") \/ Goto(w, "done")
    BY <2>1 DEF WriteCopies, Holds
  <2> QED
    BY <2>1, <2>2, UnderLock DEF Goto
<1> QED
  BY <1>1, <1>2, <1>3, <1>4, <1>5, <1>6

LEMMA WriteStep ==
  ASSUME LockInv, NEW w \in Writer, Write(w)
  PROVE  LockInv'
PROOF
<1>1. CASE GiveUp(w)
  <2>1. /\ HasToken(w) /\ w # "sqlite" /\ Goto(w, "idle") /\ pc[w] = "wait" /\ ck' = ck
        /\ lockCh' = lockCh \cup {Appender(w)} /\ writeLock' = writeLock
    BY <1>1 DEF GiveUp, HasToken, LockInv
  <2> QED
    BY <2>1, GiveBackStep
<1>2. CASE Release(w)
  <2>1. /\ Holds(w) /\ (Goto(w, "idle") \/ Goto(w, "threshold"))
        /\ writeLock' = "none" /\ ck' = ck
        /\ lockCh' = IF w = "sqlite" THEN lockCh ELSE lockCh \cup {Appender(w)}
    BY <1>2 DEF Release, Holds
  <2>2. (HasToken(w) \/ w = "sqlite") /\ pc[w] \notin {"idle", "threshold"}
    BY <2>1, HolderHasToken DEF Holds
  <2> QED
    BY <2>1, <2>2, GiveBackStep DEF Goto
<1> QED
  BY <1>1, <1>2, TakeTokenStep, LockOFDStep, UnderLockStep DEF Write

\* A checkpoint that ends, or finds nothing to do, sends its caller home.
LEMMA CheckpointStep ==
  ASSUME LockInv, Checkpoint
  PROVE  LockInv'
PROOF
<1>1. ASSUME NEW by \in Writer \cup {"ticker"}, CheckpointBegin(by)
      PROVE  LockInv'
  <2>1. UNCHANGED <<lockCh, writeLock, pc>> /\ ck'.by = by
    BY <1>1 DEF CheckpointBegin, lockVars
  <2>2. by \in Writer => pc[by] = "threshold"
    BY <1>1 DEF CheckpointBegin
  <2> QED
    BY <2>1, <2>2 DEF LockInv, HasToken, Holds
<1>2. ASSUME NEW pg \in Page, CheckpointCopy(pg)
      PROVE  LockInv'
  <2>1. UNCHANGED <<lockCh, writeLock, pc>>
    BY <1>2 DEF CheckpointCopy, lockVars
  <2>2. ck'.by \in Writer => ck'.by = ck.by
    BY <1>2, SMTT(60) DEF CheckpointCopy
  <2> QED
    BY <2>1, <2>2 DEF LockInv, HasToken, Holds
<1>3. CASE CheckpointEnd
  <2>1. /\ UNCHANGED <<lockCh, writeLock>> /\ ck'.by = "none"
        /\ pc' = [w \in Writer |-> IF w = ck.by THEN "idle" ELSE pc[w]]
    BY <1>3 DEF CheckpointEnd, lockVars, NoCk
  <2>2. \A w \in Writer : pc'[w] = pc[w] \/ (pc[w] = "threshold" /\ pc'[w] = "idle")
    BY <2>1 DEF LockInv
  <2>3. \A w \in Writer : (HasToken(w)' => HasToken(w)) /\ (Holds(w)' => Holds(w))
    BY <2>2 DEF HasToken, Holds
  <2>4. "none" \notin Writer
    BY WritersAssumption
  <2>5. pc' = [w \in Writer |-> pc'[w]]
    BY <2>1
  <2> QED
    BY <2>1, <2>2, <2>3, <2>4, <2>5 DEF LockInv
<1>4. ASSUME NEW w \in Writer, CheckpointNothing(w)
      PROVE  LockInv'
  <2>1. UNCHANGED <<lockCh, writeLock, ck>> /\ pc[w] = "threshold" /\ Goto(w, "idle")
    BY <1>4 DEF CheckpointNothing, lockVars
  <2>2. ck.by \in Writer => ck.by # w
    BY <1>4, WritersAssumption DEF CheckpointNothing, Copying
  <2>3. /\ pc' = [v \in Writer |-> pc'[v]] /\ pc'[w] = "idle"
        /\ \A v \in Writer : v # w => pc'[v] = pc[v]
    BY <2>1, GotoEffect
  <2>4. \A v \in Writer : (HasToken(v)' => HasToken(v)) /\ (Holds(v)' => Holds(v))
    BY <2>3 DEF HasToken, Holds
  <2>5. \A v \in Writer : v = "sqlite" => pc'[v] # "wait"
    BY <2>3 DEF LockInv
  <2> QED
    BY <2>1, <2>2, <2>3, <2>4, <2>5 DEF LockInv
<1> QED
  BY <1>1, <1>2, <1>3, <1>4 DEF Checkpoint

\* The process ends: whatever it held is free.
LEMMA StoppedStep ==
  ASSUME Stopped
  PROVE  LockInv'
PROOF
<1>1. pc' = [w \in Writer |-> "idle"] /\ ck'.by = "none"
  BY DEF Stopped, NoCk
<1>2. "none" \notin Writer
  BY WritersAssumption
<1> QED
  BY <1>1, <1>2 DEF LockInv, HasToken, Holds

LEMMA LockInvInit == Init => LockInv
PROOF
<1> SUFFICES ASSUME Init PROVE LockInv
  OBVIOUS
<1>1. pc = [w \in Writer |-> "idle"] /\ ck.by = "none"
  BY DEF Init, NoCk
<1>2. "none" \notin Writer
  BY WritersAssumption
<1> QED
  BY <1>1, <1>2 DEF LockInv, HasToken, Holds

LEMMA LockInvNext == LockInv /\ [Next]_vars => LockInv'
PROOF
<1> SUFFICES ASSUME LockInv, [Next]_vars PROVE LockInv'
  OBVIOUS
<1>1. CASE \E w \in Writer : Write(w)
  BY <1>1, WriteStep
<1>2. CASE Checkpoint
  BY <1>2, CheckpointStep
<1>3. CASE \E r \in Reader : Read(r)
  <2>1. UNCHANGED <<lockCh, writeLock, pc, ck>>
    BY <1>3 DEF Read, ReadBegin, ReadLock, ReadCheck, ReadEnd, lockVars
  <2> QED
    BY <2>1, NoLockStep
<1>4. CASE Crash \/ Close
  BY <1>4, StoppedStep DEF Crash, Close
<1>5. CASE Open
  <2>1. UNCHANGED <<lockCh, writeLock, pc, ck>>
    BY <1>5 DEF Open, lockVars
  <2> QED
    BY <2>1, NoLockStep
<1>6. CASE UNCHANGED vars
  <2>1. UNCHANGED <<lockCh, writeLock, pc, ck>>
    BY <1>6 DEF vars, lockVars, procVars
  <2> QED
    BY <2>1, NoLockStep
<1> QED
  BY <1>1, <1>2, <1>3, <1>4, <1>5, <1>6 DEF Next

\* At most one of FSM.Apply, the handlers, a restore and SQLite's writer is between
\* AcquireWriteLock and Release, through waits given up, checkpoints, crashes and
\* restarts (walappender.go:104-150).
THEOREM WriterExclusion == Spec => []OneWriter
PROOF
<1>1. LockInv => OneWriter
  <2> SUFFICES ASSUME LockInv, NEW v \in Writer, NEW w \in Writer, Holds(v), Holds(w)
               PROVE  v = w
    BY DEF OneWriter, Holds
  <2>1. OFD(v) = OFD(w)
    BY DEF LockInv
  <2> QED
    BY <2>1, HolderHasToken, SameOwner
<1> QED
  BY <1>1, LockInvInit, LockInvNext, PTL DEF Spec

-----------------------------------------------------------------------------
\* The header

\* A whole header, and one that is whole or torn.
IsHeader(h) == DOMAIN h = {"init", "sized", "mx", "salt", "ver"}
LocFields == {"hdr", "frame", "prev", "txn", "pages", "rewind"}

\* Nobody is writing the header.
Settled == \A w \in Writer : pc[w] \notin {"header2", "header3"}

\* What is in the two copies at each step of WriteHeader; nothing runs while the process
\* is down.
HeadInv ==
  /\ hdr = [k \in {0, 1} |-> hdr[k]] /\ loc = [w \in Writer |-> loc[w]]
  /\ \A k \in {0, 1} : hdr[k] = Torn \/ IsHeader(hdr[k])
  /\ \A w \in Writer : DOMAIN loc[w] = LocFields /\ IsHeader(loc[w].hdr)
  /\ ~Up => \A w \in Writer : pc[w] = "idle"
  /\ Up /\ Settled => hdr[0] = hdr[1] /\ IsHeader(hdr[0]) /\ hdr[0].ver = last
  /\ \A w \in Writer :
       /\ pc[w] = "header2" => IsHeader(hdr[0]) /\ hdr[0].ver = last
       /\ pc[w] = "header3" => hdr[0] = Torn /\ hdr[1] = loc[w].hdr

\* A torn copy is no header.
LEMMA TornIsNone == ASSUME NEW h, IsHeader(h)  PROVE h # Torn
<1>1. "torn" \in DOMAIN Torn /\ "torn" \notin DOMAIN h
  BY DEF Torn, IsHeader
<1> QED  BY <1>1

\* Two writers are never under the lock together.
LEMMA OneHolder ==
  ASSUME LockInv, NEW v \in Writer, NEW w \in Writer, Holds(v), Holds(w)  PROVE v = w
<1>1. OFD(v) = OFD(w)
  BY DEF LockInv
<1> QED  BY <1>1, HolderHasToken, SameOwner

\* While a writer is under the lock but not in WriteHeader, the copies agree.
LEMMA SettledFor ==
  ASSUME LockInv, HeadInv, NEW w \in Writer, Holds(w), pc[w] \notin {"header2", "header3"}
  PROVE  Settled /\ Up /\ hdr[0] = hdr[1] /\ IsHeader(hdr[0]) /\ hdr[0].ver = last
<1>1. Settled
  BY OneHolder DEF Settled, Holds
<1>2. Up
  BY DEF HeadInv, Holds
<1> QED  BY <1>1, <1>2 DEF HeadInv

\* Steps that leave the header alone, and what a writer goes on with a whole header.
LEMMA HeaderFrame ==
  ASSUME LockInv, HeadInv, UNCHANGED <<hdr, node, last>>,
         loc' = [w \in Writer |-> loc'[w]],
         \A w \in Writer :
           /\ DOMAIN loc'[w] = LocFields /\ IsHeader(loc'[w].hdr)
           /\ pc[w] \in {"header2", "header3"} \/ pc'[w] \in {"header2", "header3"} =>
                pc'[w] = pc[w] /\ loc'[w] = loc[w]
           /\ ~Up => pc'[w] = "idle"
  PROVE  HeadInv'
<1>1. Settled' <=> Settled
  BY DEF Settled
<1>2. Up' <=> Up
  BY DEF Up
<1> QED  BY <1>1, <1>2 DEF HeadInv

\* The lock is taken and given back.
LEMMA LockKeepsHeader ==
  ASSUME LockInv, HeadInv, NEW w \in Writer,
         TakeToken(w) \/ GiveUp(w) \/ LockOFD(w) \/ Release(w)
  PROVE  HeadInv'
<1>1. /\ UNCHANGED <<hdr, node, last>>
      /\ loc' = loc \/ loc' = [loc EXCEPT ![w] = NoLoc]
      /\ pc[w] \in {"idle", "wait", "done", "held"}
      /\ \E label \in {"idle", "wait", "held", "threshold"} : Goto(w, label)
  BY DEF TakeToken, GiveUp, LockOFD, Release, indexVars, history
<1>2. Up
  BY DEF HeadInv, TakeToken, GiveUp, LockOFD, Release
<1>3. DOMAIN NoLoc = LocFields /\ IsHeader(NoLoc.hdr)
  BY DEF NoLoc, LocFields, Blank, IsHeader
<1>4. /\ loc' = [v \in Writer |-> loc'[v]]
      /\ \A v \in Writer : /\ loc'[v] = loc[v] \/ loc'[v] = NoLoc
                           /\ v # w => loc'[v] = loc[v]
  BY <1>1 DEF HeadInv
<1>5. /\ \A v \in Writer : v # w => pc'[v] = pc[v]
      /\ pc'[w] \in {"idle", "wait", "held", "threshold"}
  BY <1>1, GotoEffect
<1>6. \A v \in Writer :
        /\ DOMAIN loc'[v] = LocFields /\ IsHeader(loc'[v].hdr)
        /\ pc[v] \in {"header2", "header3"} \/ pc'[v] \in {"header2", "header3"} =>
             pc'[v] = pc[v] /\ loc'[v] = loc[v]
  BY <1>1, <1>3, <1>4, <1>5 DEF HeadInv
<1> QED  BY <1>1, <1>2, <1>4, <1>6, HeaderFrame

\* A transaction begins, grows, is given up, and the log is reset.
LEMMA AppendKeepsHeader ==
  ASSUME LockInv, HeadInv, NEW w \in Writer,
         \/ Rewind(w) \/ NoRewind(w) \/ ResetForRewind(w) \/ Abandon(w)
         \/ \E pg \in Page, commit \in BOOLEAN : AppendFrame(w, pg, commit)
  PROVE  HeadInv'
<1>1. /\ UNCHANGED <<hdr, node, last>>
      /\ pc[w] \in {"held", "info", "append"}
      /\ pc' = pc \/ \E label \in {"header1", "append", "done"} : Goto(w, label)
  BY DEF Rewind, NoRewind, ResetForRewind, Abandon, AppendFrame, Begin, indexVars, history
<1>2. Holds(w) /\ pc[w] \notin {"header2", "header3"}
  BY <1>1 DEF Holds
<1>3. Up /\ IsHeader(hdr[0]) /\ ReadHeader(hdr[0], hdr[1]) = hdr[0]
  BY <1>2, SettledFor, TornIsNone DEF ReadHeader
<1>4. /\ \A v \in Writer : v # w => pc'[v] = pc[v]
      /\ pc'[w] \notin {"header2", "header3"}
  BY <1>1, GotoEffect
<1>5. /\ loc' = [v \in Writer |-> loc'[v]] /\ \A v \in Writer : v # w => loc'[v] = loc[v]
      /\ DOMAIN loc'[w] = LocFields /\ IsHeader(loc'[w].hdr)
  <2>1. ASSUME NEW h, IsHeader(h), NEW rewind, Begin(w, h, rewind)
        PROVE  /\ loc' = [v \in Writer |-> loc'[v]] /\ \A v \in Writer : v # w => loc'[v] = loc[v]
               /\ DOMAIN loc'[w] = LocFields /\ IsHeader(loc'[w].hdr)
    BY <2>1 DEF Begin, HeadInv, LocFields
  <2>2. CASE Rewind(w)
    <3>1. PICK h : h = [hdr[0] EXCEPT !.mx = 0, !.salt = NewSalt] /\ Begin(w, h, TRUE)
      BY <1>3, <2>2 DEF Rewind
    <3>2. IsHeader(h)
      BY <1>3, <3>1 DEF IsHeader
    <3> QED  BY <2>1, <3>1, <3>2
  <2>3. CASE NoRewind(w)
    BY <1>3, <2>1, <2>3 DEF NoRewind
  <2>4. CASE ResetForRewind(w)
    <3>1. loc' = [loc EXCEPT ![w].rewind = FALSE]
      BY <2>4 DEF ResetForRewind
    <3>2. loc'[w] = [loc[w] EXCEPT !.rewind = FALSE] /\ loc' = [v \in Writer |-> loc'[v]]
          /\ \A v \in Writer : v # w => loc'[v] = loc[v]
      BY <3>1 DEF HeadInv
    <3> QED  BY <3>2 DEF HeadInv, LocFields
  <2>5. CASE Abandon(w)
    BY <2>5 DEF Abandon, HeadInv
  <2>6. ASSUME NEW pg \in Page, NEW commit \in BOOLEAN, AppendFrame(w, pg, commit)
        PROVE  /\ loc' = [v \in Writer |-> loc'[v]] /\ \A v \in Writer : v # w => loc'[v] = loc[v]
               /\ DOMAIN loc'[w] = LocFields /\ IsHeader(loc'[w].hdr)
    <3> DEFINE frame == loc[w].frame + 1
               txn == loc[w].txn
               pages == loc[w].pages \cup {pg}
               h == IF commit THEN [loc[w].hdr EXCEPT !.mx = frame, !.ver = txn] ELSE loc[w].hdr
    <3>1. loc' = [loc EXCEPT ![w].frame = frame, ![w].prev = txn, ![w].pages = pages,
                             ![w].hdr = h]
      BY <2>6 DEF AppendFrame
    <3>2. IsHeader(h)
      BY DEF HeadInv, IsHeader
    <3> HIDE DEF frame, txn, pages, h
    <3>3. /\ loc'[w] = [loc[w] EXCEPT !.frame = frame, !.prev = txn, !.pages = pages, !.hdr = h]
          /\ loc' = [v \in Writer |-> loc'[v]] /\ \A v \in Writer : v # w => loc'[v] = loc[v]
      BY <3>1 DEF HeadInv
    <3>4. DOMAIN loc'[w] = LocFields /\ loc'[w].hdr = h
      BY <3>3 DEF HeadInv, LocFields
    <3> QED  BY <3>2, <3>3, <3>4
  <2> QED  BY <2>2, <2>3, <2>4, <2>5, <2>6
<1> QED  BY <1>1, <1>2, <1>3, <1>4, <1>5, HeaderFrame DEF HeadInv

\* Writing a copy leaves the other.
LEMMA TwoCopies ==
  ASSUME HeadInv, NEW a, NEW b
  PROVE  LET one == [hdr EXCEPT ![1] = a]
             both == [hdr EXCEPT ![1] = a, ![0] = b]
         IN  /\ one[1] = a /\ one[0] = hdr[0] /\ one = [k \in {0, 1} |-> one[k]]
             /\ both[1] = a /\ both[0] = b /\ both = [k \in {0, 1} |-> both[k]]
<1> DEFINE one == [hdr EXCEPT ![1] = a]
           both == [one EXCEPT ![0] = b]
<1>1. hdr = [k \in {0, 1} |-> hdr[k]]
  BY DEF HeadInv
<1>2. one = [k \in {0, 1} |-> IF k = 1 THEN a ELSE hdr[k]]
  BY <1>1
<1>3. both = [k \in {0, 1} |-> IF k = 1 THEN a ELSE b]
  <2> HIDE DEF one
  <2> QED  BY <1>2, SMTT(60)
<1>4. both = [hdr EXCEPT ![1] = a, ![0] = b]
  OBVIOUS
<1> HIDE DEF one, both
<1>5. one[1] = a /\ one[0] = hdr[0] /\ one = [k \in {0, 1} |-> one[k]]
  BY <1>2, SMTT(60)
<1>6. both[1] = a /\ both[0] = b /\ both = [k \in {0, 1} |-> both[k]]
  BY <1>3, SMTT(60)
<1> QED  BY <1>4, <1>5, <1>6 DEF one

\* WriteHeader, copy by copy.
LEMMA WriteKeepsHeader ==
  ASSUME LockInv, HeadInv, NEW w \in Writer, WriteHeader(w)  PROVE HeadInv'
<1>1. /\ UNCHANGED <<loc, node>> /\ WriteCopies(w)
      /\ last' = IF pc[w] = "header3" THEN loc[w].hdr.ver ELSE last
      /\ pc[w] \in {"header1", "header2", "header3"}
  BY DEF WriteHeader, WriteCopies
<1>2. Holds(w) /\ Up /\ Up'
  BY <1>1 DEF Holds, HeadInv, Up
<1>3. \A v \in Writer : v # w => pc[v] \notin {"header1", "header2", "header3"}
  BY <1>1, <1>2, OneHolder DEF Holds
<1>4. IsHeader(loc[w].hdr) /\ loc[w].hdr # Torn
  BY TornIsNone DEF HeadInv
<1>5. CASE pc[w] = "header1"
  <2>1. hdr[0] = hdr[1] /\ IsHeader(hdr[0]) /\ hdr[0].ver = last
    BY <1>2, <1>5, SettledFor
  <2>2. hdr' = [hdr EXCEPT ![1] = Torn] /\ Goto(w, "header2") /\ last' = last
    BY <1>1, <1>5 DEF WriteCopies
  <2>3. hdr'[1] = Torn /\ hdr'[0] = hdr[0] /\ hdr' = [k \in {0, 1} |-> hdr'[k]]
    BY <2>2, TwoCopies
  <2>4. pc'[w] = "header2" /\ \A v \in Writer : v # w => pc'[v] = pc[v]
    BY <2>2, GotoEffect
  <2>5. ~Settled'
    BY <2>4 DEF Settled
  <2> QED  BY <1>1, <1>2, <1>3, <2>1, <2>2, <2>3, <2>4, <2>5, SMTT(60) DEF HeadInv
<1>6. CASE pc[w] = "header2"
  <2>1. hdr' = [hdr EXCEPT ![1] = loc[w].hdr, ![0] = Torn] /\ Goto(w, "header3") /\ last' = last
    BY <1>1, <1>6 DEF WriteCopies
  <2>2. hdr'[1] = loc[w].hdr /\ hdr'[0] = Torn /\ hdr' = [k \in {0, 1} |-> hdr'[k]]
    BY <2>1, TwoCopies
  <2>3. pc'[w] = "header3" /\ \A v \in Writer : v # w => pc'[v] = pc[v]
    BY <2>1, GotoEffect
  <2>4. ~Settled'
    BY <2>3 DEF Settled
  <2> QED  BY <1>1, <1>2, <1>3, <1>4, <2>1, <2>2, <2>3, <2>4 DEF HeadInv
<1>7. CASE pc[w] = "header3"
  <2>1. /\ hdr' = [hdr EXCEPT ![0] = loc[w].hdr] /\ last' = loc[w].hdr.ver
        /\ Goto(w, "info") \/ Goto(w, "done")
    BY <1>1, <1>7 DEF WriteCopies
  <2>2. hdr'[0] = loc[w].hdr /\ hdr'[1] = loc[w].hdr /\ hdr' = [k \in {0, 1} |-> hdr'[k]]
    BY <1>7, <2>1 DEF HeadInv
  <2>3. pc'[w] \in {"info", "done"} /\ \A v \in Writer : v # w => pc'[v] = pc[v]
    BY <2>1, GotoEffect
  <2> QED  BY <1>1, <1>2, <1>3, <1>4, <2>1, <2>2, <2>3, SMTT(60) DEF HeadInv
<1> QED  BY <1>1, <1>5, <1>6, <1>7

\* The process ends; Open finds a header or makes one.
LEMMA RestartKeepsHeader == ASSUME HeadInv, Crash \/ Close \/ Open  PROVE HeadInv'
<1>1. CASE Crash \/ Close
  <2>1. /\ ~Up' /\ pc' = [w \in Writer |-> "idle"] /\ loc' = [w \in Writer |-> NoLoc]
    BY <1>1 DEF Crash, Close, Stopped, Up
  <2>2. hdr' = hdr \/ hdr' = [k \in {0, 1} |-> Blank]
    BY <1>1 DEF Crash, Close, LoseIndex, indexVars
  <2>3. IsHeader(Blank) /\ DOMAIN NoLoc = LocFields /\ NoLoc.hdr = Blank
    BY DEF Blank, IsHeader, NoLoc, LocFields
  <2> QED  BY <2>1, <2>2, <2>3 DEF HeadInv
<1>2. CASE Open
  <2>1. PICK h : /\ hdr' = [k \in {0, 1} |-> h] /\ last' = h.ver
                 /\ h \in {Header(TRUE, 0, NewSalt, last), StartHeader}
    BY <1>2 DEF Open
  <2>2. UNCHANGED <<pc, loc>> /\ ~Up
    BY <1>2 DEF Open, Up
  <2>3. \A sized, mx, s, ver : IsHeader(Header(sized, mx, s, ver))
    BY DEF Header, IsHeader
  <2>4. IsHeader(h)
    <3>1. IsHeader(Header(TRUE, 0, NewSalt, last))
      BY <2>3
    <3>2. IsHeader(RecoveredHeader)
      BY <2>3 DEF RecoveredHeader
    <3>3. Published => IsHeader(hdr[0])
      BY DEF Published, HeadInv
    <3> QED  BY <2>1, <3>1, <3>2, <3>3 DEF StartHeader
  <2>5. \A w \in Writer : pc[w] = "idle"
    BY <2>2 DEF HeadInv
  <2> QED  BY <2>1, <2>2, <2>4, <2>5 DEF HeadInv
<1> QED  BY <1>1, <1>2

LEMMA HeadInvInit == Init => HeadInv
<1> SUFFICES ASSUME Init  PROVE HeadInv
  OBVIOUS
<1>1. /\ hdr = [k \in {0, 1} |-> Header(TRUE, 0, 1, 0)] /\ last = 0 /\ Up
      /\ pc = [w \in Writer |-> "idle"] /\ loc = [w \in Writer |-> NoLoc]
  BY DEF Init, Up
<1>2. IsHeader(Header(TRUE, 0, 1, 0)) /\ Header(TRUE, 0, 1, 0).ver = 0
  BY DEF Header, IsHeader
<1>3. DOMAIN NoLoc = LocFields /\ IsHeader(NoLoc.hdr)
  BY DEF NoLoc, LocFields, Blank, IsHeader
<1> QED  BY <1>1, <1>2, <1>3 DEF HeadInv

LEMMA HeadInvNext == LockInv /\ HeadInv /\ [Next]_vars => HeadInv'
<1> SUFFICES ASSUME LockInv, HeadInv, [Next]_vars  PROVE HeadInv'
  OBVIOUS
<1>1. ASSUME NEW w \in Writer, Write(w)  PROVE HeadInv'
  BY <1>1, LockKeepsHeader, AppendKeepsHeader, WriteKeepsHeader DEF Write
<1>2. CASE Checkpoint
  <2>1. UNCHANGED <<hdr, node, last, loc>>
    BY <1>2 DEF Checkpoint, CheckpointBegin, CheckpointCopy, CheckpointEnd, CheckpointNothing,
                indexVars, history
  <2>2. \A v \in Writer : pc'[v] = pc[v] \/ (pc[v] = "threshold" /\ pc'[v] = "idle")
    <3>1. CASE pc' = pc
      BY <3>1
    <3>2. CASE CheckpointEnd
      BY <3>2 DEF CheckpointEnd, LockInv
    <3>3. ASSUME NEW w \in Writer, CheckpointNothing(w)
          PROVE  \A v \in Writer : pc'[v] = pc[v] \/ (pc[v] = "threshold" /\ pc'[v] = "idle")
      <4>1. pc[w] = "threshold" /\ Goto(w, "idle")
        BY <3>3 DEF CheckpointNothing
      <4> QED  BY <4>1, GotoEffect
    <3> QED  BY <1>2, <3>1, <3>2, <3>3 DEF Checkpoint, CheckpointBegin, CheckpointCopy
  <2> QED  BY <2>1, <2>2, HeaderFrame, SMTT(60) DEF HeadInv
<1>3. CASE \E r \in Reader : Read(r)
  <2>1. UNCHANGED <<hdr, node, last, loc, pc>>
    BY <1>3 DEF Read, ReadBegin, ReadLock, ReadCheck, ReadEnd, indexVars, history
  <2> QED  BY <2>1, HeaderFrame DEF HeadInv
<1>4. CASE UNCHANGED vars
  <2>1. UNCHANGED <<hdr, node, last, loc, pc>>
    BY <1>4 DEF vars, indexVars, procVars, history
  <2> QED  BY <2>1, HeaderFrame DEF HeadInv
<1> QED  BY <1>1, <1>2, <1>3, <1>4, RestartKeepsHeader DEF Next

\* WriteHeader never leaves both copies torn, and what ReadHeader returns is the published
\* header or the one being published (shm.go:85-120), whoever writes, and after every
\* crash and restart.
THEOREM HeaderAlwaysReadable == Spec => []HeaderReadable
<1>1. LockInv /\ HeadInv => HeaderReadable
  <2> SUFFICES ASSUME LockInv, HeadInv, Up
               PROVE  LET h == ReadHeader(hdr[0], hdr[1])
                      IN  /\ h # Torn
                          /\ h.ver = last \/ \E w \in Writer : pc[w] = "header3" /\ h = loc[w].hdr
    BY DEF HeaderReadable
  <2>1. CASE Settled
    BY <2>1, TornIsNone DEF HeadInv, ReadHeader
  <2>2. ASSUME NEW w \in Writer, pc[w] = "header2"  PROVE hdr[0] # Torn /\ hdr[0].ver = last
    BY <2>2, TornIsNone DEF HeadInv
  <2>3. ASSUME NEW w \in Writer, pc[w] = "header3"
        PROVE  hdr[0] = Torn /\ hdr[1] # Torn /\ hdr[1] = loc[w].hdr
    BY <2>3, TornIsNone DEF HeadInv
  <2> QED  BY <2>1, <2>2, <2>3 DEF Settled, ReadHeader
<1> QED  BY <1>1, LockInvInit, LockInvNext, HeadInvInit, HeadInvNext, PTL DEF Spec

=============================================================================
