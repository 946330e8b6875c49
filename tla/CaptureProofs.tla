---------------------------- MODULE CaptureProofs ---------------------------
(***************************************************************************)
(* The inductive invariant of GatedWAL, and its layers about the frames of *)
(* the open transaction: they are in the file, and gatedWALFile has        *)
(* captured them as SQLite wrote them.                                     *)
(***************************************************************************)
EXTENDS GatedWAL, WellFoundedInduction, TLAPS

\* Steps that name no prover are left to Zenon.
USE ZenonT(60)

-----------------------------------------------------------------------------
\* The inductive invariant

FrameType == [hdr : FrameHeader, val : Val \cup {None}]
RewriteType == [off : Slot, hdr : FrameHeader]

FileType ==
  /\ epoch \in Nat \ {0}
  /\ file \in [Slot -> FrameType]

SqliteType ==
  /\ pc \in {"idle", "open", "data", "gate", "publish", "panic"}
  /\ pub \in Seq(Content) /\ Len(pub) <= Slots
  /\ mine \in Seq(Content) /\ Len(mine) <= Slots
  /\ next \in Content \cup {None}
  /\ pc \in {"data", "gate"} => next \in Content /\ Len(mine) < Slots
  /\ recksum \in 0..Len(mine)
  /\ pc = "idle" => recksum = 0

CaptureType ==
  /\ pendingFrameHeader \in FrameHeader \cup {None}
  /\ currentTxFrames \in Seq(Slot)
  /\ DOMAIN currentTxFrameOffsets \subseteq Slot
  /\ currentTxFrameOffsets \in [DOMAIN currentTxFrameOffsets -> FrameType]
  /\ \A i \in 1..Len(currentTxFrames) : currentTxFrames[i] \in DOMAIN currentTxFrameOffsets
  /\ currentTxCommitted \in BOOLEAN
  /\ maxOffset \in 0..Slots
  /\ pendingRewrite \in RewriteType \cup {None}

\* The frames SQLite counts on are in the file, and the header of the one it is
\* writing is where writeFrameData looks for it; what is captured lies at or below
\* maxOffset.  This needs no exception: it holds after an anomaly, too.
Active == pc \in {"open", "data", "gate", "publish"}
NextHeader == Header(next, IF recksum = 0 THEN Sum(Append(mine, next)) ELSE NoSum)
NextOff == Len(mine) + 1

OwnFrames ==
  Active =>
    /\ Len(pub) <= Len(mine) /\ \A i \in 1..Len(pub) : mine[i] = pub[i]
    /\ recksum # 0 => recksum > Len(pub)
    /\ \A i \in (Len(pub) + 1)..Len(mine) : ContentAt(i) = mine[i]
Below ==
  /\ \A i \in DOMAIN currentTxFrameOffsets : i <= maxOffset
  /\ pc = "open" /\ Len(mine) > Len(pub) => Len(mine) <= maxOffset /\ pendingRewrite = None
Staged ==
  pc = "data" =>
    /\ HeaderFor(NextOff) = NextHeader
    /\ NextOff \notin DOMAIN Captured(NextOff)
    /\ ~Disproves(NextOff) => NextOff <= maxOffset /\ pendingRewrite = None
    /\ ~next.commit => file[NextOff].hdr = NextHeader
Withheld ==
  pc = "gate" =>
    /\ NextOff \in DOMAIN currentTxFrameOffsets
    /\ currentTxFrameOffsets[NextOff] = [hdr |-> NextHeader, val |-> next.val]
    /\ next.commit

BaseInv ==
  FileType /\ SqliteType /\ CaptureType /\ OwnFrames /\ Below /\ Staged /\ Withheld

\* A log that is in the file, with checksums that fit.
Prefix(s, i) == [j \in 1..i |-> s[j]]
LogInFile(s) ==
  \A i \in 1..Len(s) : ContentAt(i) = s[i] /\ file[i].hdr.sum = Sum(Prefix(s, i))
Complete(s) == s # <<>> => s[Len(s)].commit

\* A commit frame that recovery rejects by what it says itself: it was written for
\* other data than it has.
Rejected(j) ==
  file[j].hdr.commit /\ file[j].hdr.sum.salt = epoch
  => LET over == file[j].hdr.sum.over IN Len(over) = j /\ over[j] # ContentAt(j)

\* The transaction that was released is in the file as a whole.
Arrived ==
  /\ released /\ recksum = 0 /\ Len(mine) > Len(pub)
  /\ LogInFile(mine) /\ Complete(mine)

DiskInv ==
  /\ \A j \in Slot : file[j].hdr.sum.salt <= epoch
  /\ LogInFile(pub) /\ Complete(pub)
  /\ \A j \in Slot : j > Len(pub) => Rejected(j) \/ (Arrived /\ j = Len(mine))
  /\ released => pc \in {"publish", "panic"}

\* The checksums of the open transaction, and where its commit frame is.
SumInv ==
  Active =>
    /\ \A i \in (Len(pub) + 1)..Len(mine) :
         /\ recksum = 0 \/ i < recksum => file[i].hdr.sum = Sum(Prefix(mine, i))
         /\ mine[i].commit <=> pc = "publish" /\ i = Len(mine)
    /\ pc = "publish" => released /\ Len(mine) > Len(pub)
    /\ pc = "publish" /\ recksum # 0 => file[Len(mine)].hdr.sum = NoSum

\* What is captured: the frames from the published ones up to n, in this order, and
\* those of the transaction as it has written them.
Listed(n) ==
  /\ Len(currentTxFrames) = n - Len(pub)
  /\ \A k \in 1..Len(currentTxFrames) : currentTxFrames[k] = Len(pub) + k
Held(n) ==
  /\ DOMAIN currentTxFrameOffsets = (Len(pub) + 1)..n
  /\ \A i \in (Len(pub) + 1)..Len(mine) :
       LET f == currentTxFrameOffsets[i]
       IN  [pg |-> f.hdr.pg, commit |-> f.hdr.commit, val |-> f.val] = mine[i]
Fresh == pendingRewrite = None /\ ~currentTxCommitted

\* List and map agree until the transaction is released; then the list is empty.
Tally ==
  /\ currentTxCommitted => currentTxFrames = <<>>
  /\ ~currentTxCommitted =>
       \A i \in DOMAIN currentTxFrameOffsets :
         \E k \in 1..Len(currentTxFrames) : currentTxFrames[k] = i

CaptureInv ==
  /\ Tally
  /\ pc = "open" /\ Len(mine) > Len(pub) => Fresh /\ Listed(maxOffset) /\ Held(maxOffset)
  /\ pc = "data" => \/ Disproves(NextOff) /\ currentTxCommitted /\ Len(mine) = Len(pub)
                    \/ /\ Fresh /\ maxOffset = NextOff
                       /\ Listed(Len(mine)) /\ Held(Len(mine))
  /\ pc = "gate" => Fresh /\ Listed(NextOff) /\ Held(NextOff)
  /\ pc = "publish" => currentTxCommitted /\ Held(Len(mine))

GateInv == BaseInv /\ (Clean => DiskInv /\ SumInv /\ CaptureInv)

-----------------------------------------------------------------------------
\* Types of the operators

\* A header that SQLite writes or rewrites.
LEMMA HeaderTypes ==
  ASSUME FileType, NEW s \in Seq(Content), NEW c \in Content
  PROVE  /\ Header(c, Sum(Append(s, c))) \in FrameHeader
         /\ Header(c, NoSum) \in FrameHeader
         /\ NoFrame \in FrameType
PROOF
  <1>1. Append(s, c) \in Seq(Content) /\ <<>> \in Seq(Content)
    BY SMTT(60)
  <1> QED
    BY <1>1 DEF FileType, Header, Sum, NoSum, FrameHeader, Content, NoFrame, NoHeader, FrameType

\* writeFrameHeader keeps the types, whatever the disk does.
LEMMA HeaderCallTypes ==
  ASSUME FileType, CaptureType, NEW off \in Slot, NEW h \in FrameHeader,
         NEW ok \in BOOLEAN, WriteFrameHeader(off, h, ok)
  PROVE  file' \in [Slot -> FrameType] /\ CaptureType'
PROOF
  <1>1. [file EXCEPT ![off].hdr = h] \in [Slot -> FrameType]
    BY DEF FileType, FrameType
  <1>2. file' \in [Slot -> FrameType]
    BY <1>1 DEF WriteFrameHeader, PutHeader, FileType
  <1>3. CASE LooksRewritten(off, h)
    <2>1. /\ currentTxFrameOffsets' = [currentTxFrameOffsets EXCEPT ![off].hdr = h]
          /\ pendingRewrite' = [off |-> off, hdr |-> h]
          /\ UNCHANGED <<pendingFrameHeader, currentTxFrames, currentTxCommitted, maxOffset>>
      BY <1>3 DEF WriteFrameHeader
    <2>2. off \in DOMAIN currentTxFrameOffsets
      BY <1>3 DEF LooksRewritten
    <2>3. pendingRewrite' \in RewriteType
      BY <2>1 DEF RewriteType
    <2>4. currentTxFrameOffsets' \in [DOMAIN currentTxFrameOffsets -> FrameType]
      BY <2>1, <2>2 DEF CaptureType, FrameType
    <2> QED
      BY <1>2, <2>1, <2>3, <2>4 DEF CaptureType
  <1>4. CASE ~LooksRewritten(off, h)
    <2>1. /\ pendingRewrite' = None /\ pendingFrameHeader' = h /\ maxOffset' = off
          /\ currentTxCommitted' = FALSE
          /\ currentTxFrames' = KeptFrames(off)
          /\ currentTxFrameOffsets' = KeptOffsets(off)
      BY <1>4 DEF WriteFrameHeader
    <2>2. maxOffset' \in 0..Slots
      BY <2>1, BoundsAssumption, SMTT(60) DEF Slot
    <2>3. /\ currentTxFrames' \in Seq(Slot)
          /\ DOMAIN currentTxFrameOffsets' \subseteq Slot
          /\ currentTxFrameOffsets' \in [DOMAIN currentTxFrameOffsets' -> FrameType]
          /\ \A i \in 1..Len(currentTxFrames') :
               currentTxFrames'[i] \in DOMAIN currentTxFrameOffsets'
      BY <2>1, SMTT(60) DEF CaptureType, KeptFrames, KeptOffsets, NoFrames
    <2> QED
      BY <1>2, <2>1, <2>2, <2>3 DEF CaptureType
  <1> QED
    BY <1>3, <1>4

\* So does writeFrameData.
LEMMA DataCallTypes ==
  ASSUME FileType, CaptureType, NEW off \in Slot, NEW val \in Val,
         NEW ok \in BOOLEAN, WriteFrameData(off, val, ok)
  PROVE  file' \in [Slot -> FrameType] /\ CaptureType'
PROOF
  <1>1. [file EXCEPT ![off].val = val] \in [Slot -> FrameType]
    BY DEF FileType, FrameType
  <1>2. file' \in [Slot -> FrameType]
    BY <1>1 DEF WriteFrameData, OverwriteFrame, CaptureFrame, PutData, FileType
  <1>3. CASE off \in DOMAIN Captured(off)
    <2>1. OverwriteFrame(off, val, ok)
      BY <1>3 DEF WriteFrameData
    <2>2. off \in DOMAIN currentTxFrameOffsets
      BY <1>3 DEF Captured, NoFrames
    <2>3. currentTxFrameOffsets' \in [DOMAIN currentTxFrameOffsets -> FrameType]
      BY <2>1, <2>2 DEF CaptureType, FrameType, OverwriteFrame
    <2> QED
      BY <1>2, <2>1, <2>3 DEF CaptureType, OverwriteFrame
  <1>4. CASE off \notin DOMAIN Captured(off) /\ HeaderFor(off) = None
    BY <1>2, <1>4 DEF WriteFrameData, captureVars, CaptureType
  <1>5. CASE off \notin DOMAIN Captured(off) /\ HeaderFor(off) # None
    <2>1. CaptureFrame(off, val, ok)
      BY <1>5 DEF WriteFrameData
    <2>2. HeaderFor(off) \in FrameHeader
      BY <1>5 DEF HeaderFor, CaptureType, RewriteType, Disproves
    <2> DEFINE f == [hdr |-> HeaderFor(off), val |-> val]
    <2>3. f \in FrameType
      BY <2>2 DEF FrameType
    <2>4. /\ CapturedList(off) \in Seq(Slot)
          /\ DOMAIN Captured(off) \subseteq Slot
          /\ Captured(off) \in [DOMAIN Captured(off) -> FrameType]
          /\ \A i \in 1..Len(CapturedList(off)) : CapturedList(off)[i] \in DOMAIN Captured(off)
      BY SMTT(60) DEF CaptureType, Captured, CapturedList, NoFrames
    <2>5. /\ DOMAIN currentTxFrameOffsets' = DOMAIN Captured(off) \cup {off}
          /\ currentTxFrameOffsets' \in [DOMAIN Captured(off) \cup {off} -> FrameType]
      BY <2>1, <2>3, <2>4 DEF CaptureFrame, With
    <2>6. /\ currentTxFrames' \in Seq(Slot)
          /\ Len(currentTxFrames') = Len(CapturedList(off)) + 1
          /\ \A i \in 1..Len(currentTxFrames') :
               \/ i \in 1..Len(CapturedList(off)) /\ currentTxFrames'[i] = CapturedList(off)[i]
               \/ currentTxFrames'[i] = off
      BY <2>1, <2>4, SMTT(60) DEF CaptureFrame
    <2>7. \A i \in 1..Len(currentTxFrames') : currentTxFrames'[i] \in DOMAIN currentTxFrameOffsets'
      BY <2>4, <2>5, <2>6
    <2>8. /\ pendingFrameHeader' = None /\ currentTxCommitted' \in BOOLEAN
          /\ maxOffset' \in 0..Slots
          /\ pendingRewrite' \in RewriteType \cup {None}
      BY <2>1, BoundsAssumption, SMTT(60) DEF CaptureFrame, CaptureType, Slot
    <2>9. DOMAIN currentTxFrameOffsets' \subseteq Slot
      BY <2>4, <2>5
    <2> QED
      BY <1>2, <2>5, <2>6, <2>7, <2>8, <2>9 DEF CaptureType
  <1> QED
    BY <1>3, <1>4, <1>5

-----------------------------------------------------------------------------
\* What recovery finds

\* A set of natural numbers that is not empty has a least member.
LEMMA LeastNatural ==
  ASSUME NEW S \in SUBSET Nat, S # {}
  PROVE  \E m \in S : \A y \in S : m <= y
PROOF
  <1> DEFINE R == OpToRel(<, Nat)
  <1>1. \E m \in S : \A y \in S : <<y, m>> \notin R
    BY NatLessThanWellFounded, WFMin
  <1>2. \A y, m \in Nat : <<y, m>> \notin R => m <= y
    BY SMTT(60) DEF OpToRel
  <1> QED
    BY <1>1, <1>2

\* A set of frame numbers that is not empty has a greatest member.
LEMMA LastFrame ==
  ASSUME NEW S \in SUBSET Slot, S # {}
  PROVE  \E m \in S : \A y \in S : y <= m
PROOF
  <1> DEFINE T == {Slots - y : y \in S}
  <1>1. T \in SUBSET Nat /\ T # {}
    <2>1. \A y \in S : Slots - y \in Nat
      BY BoundsAssumption, SMTT(60) DEF Slot
    <2> QED
      BY <2>1
  <1>2. PICK t \in T : \A x \in T : t <= x
    BY <1>1, LeastNatural
  <1>3. PICK m \in S : t = Slots - m
    BY <1>2
  <1>4. ASSUME NEW y \in S  PROVE y <= m
    <2>1. t <= Slots - y
      BY <1>2
    <2> QED
      BY <2>1, <1>3, BoundsAssumption, SMTT(60) DEF Slot
  <1> QED
    BY <1>4

\* Recovery reads a log, whatever is in the file: a checksum only ever covers whole
\* frames.
LEMMA RecoveredType ==
  ASSUME FileType
  PROVE  Recovered \in Seq(Content) /\ Len(Recovered) <= Slots
PROOF
  <1> DEFINE ends == {i \in Slot : Intact(i) /\ file[i].hdr.commit}
             m == CHOOSE i \in ends : \A j \in ends : j <= i
  <1>1. CASE ends = {}
    <2>1. Recovered = <<>>
      BY <1>1 DEF Recovered
    <2> QED
      BY <2>1, BoundsAssumption, SMTT(60)
  <1>2. CASE ends # {}
    <2>1. Recovered = Contents(m)
      BY <1>2 DEF Recovered
    <2>2. \E i \in ends : \A j \in ends : j <= i
      BY <1>2, LastFrame
    <2>3. m \in ends
      BY <2>2
    <2>4. m \in Slot /\ Intact(m)
      BY <2>3
    <2> HIDE DEF m
    <2>5. file[m].hdr.sum = Sum(Contents(m))
      BY <2>4, BoundsAssumption, SMTT(60) DEF Intact, Slot
    <2>6. file[m].hdr.sum.over \in Seq(Content)
      BY <2>4 DEF FileType, FrameType, FrameHeader
    <2>7. Contents(m) \in Seq(Content)
      BY <2>5, <2>6, SMTT(60) DEF Sum
    <2>8. DOMAIN Contents(m) = 1..m
      BY DEF Contents
    <2>9. Len(Contents(m)) = m
      BY <2>4, <2>7, <2>8, BoundsAssumption, SMTT(60) DEF Slot
    <2> QED
      BY <2>1, <2>4, <2>7, <2>9, BoundsAssumption, SMTT(60) DEF Slot
  <1> QED
    BY <1>1, <1>2

-----------------------------------------------------------------------------
\* BaseInv: what holds in any case

\* A transaction that ends leaves little to show.
LEMMA BaseEnds ==
  ASSUME EndTx, FileType', CaptureType',
         pub' \in Seq(Content), Len(pub') <= Slots,
         \A i \in DOMAIN currentTxFrameOffsets' : i <= maxOffset'
  PROVE  BaseInv'
PROOF
  <1>1. pc' = "idle" /\ next' = None /\ mine' = <<>> /\ recksum' = 0
    BY DEF EndTx
  <1>2. SqliteType'
    BY <1>1, BoundsAssumption, SMTT(60) DEF SqliteType
  <1> QED
    BY <1>1, <1>2 DEF BaseInv, OwnFrames, Active, Below, Staged, Withheld

\* writeFrameHeader keeps what is captured at or below maxOffset.
LEMMA HeaderCallBelow ==
  ASSUME CaptureType, Below, NEW off \in Slot, NEW h, NEW ok, WriteFrameHeader(off, h, ok)
  PROVE  /\ \A i \in DOMAIN currentTxFrameOffsets' : i <= maxOffset'
         /\ ~LooksRewritten(off, h) => off \notin DOMAIN currentTxFrameOffsets'
PROOF
  <1>1. CASE LooksRewritten(off, h)
    BY <1>1, SMTT(60) DEF WriteFrameHeader, Below, CaptureType
  <1>2. CASE ~LooksRewritten(off, h)
    <2>1. maxOffset' = off /\ currentTxFrameOffsets' = KeptOffsets(off)
      BY <1>2 DEF WriteFrameHeader
    <2>2. CASE StartsAnew(off)
      BY <2>1, <2>2 DEF KeptOffsets, NoFrames
    <2>3. CASE ~StartsAnew(off)
      <3>1. currentTxFrameOffsets' = currentTxFrameOffsets /\ ~(off <= maxOffset)
        BY <2>1, <2>3 DEF KeptOffsets, StartsAnew
      <3>2. \A i \in DOMAIN currentTxFrameOffsets : i \in Nat /\ i <= maxOffset
        BY BoundsAssumption, SMTT(60) DEF Below, CaptureType, Slot
      <3> QED
        BY <2>1, <3>1, <3>2, BoundsAssumption, SMTT(60) DEF CaptureType, Slot
    <2> QED
      BY <2>2, <2>3
  <1> QED
    BY <1>1, <1>2

\* What changes in the file: one half of one frame.
LEMMA HeaderCallFile ==
  ASSUME FileType, NEW off \in Slot, NEW h \in FrameHeader, NEW ok \in BOOLEAN,
         WriteFrameHeader(off, h, ok)
  PROVE  /\ \A i \in Slot \ {off} : file'[i] = file[i]
         /\ file'[off].val = file[off].val
         /\ file'[off].hdr \in {file[off].hdr, h}
         /\ ~ok => file' = file
         /\ ok /\ (~h.commit \/ LooksRewritten(off, h)) => file'[off].hdr = h
         /\ h.commit /\ ~LooksRewritten(off, h) => file' = file
PROOF
  BY SMTT(60) DEF WriteFrameHeader, PutHeader, FileType, FrameType

LEMMA DataCallFile ==
  ASSUME FileType, NEW off \in Slot, NEW val \in Val, NEW ok \in BOOLEAN,
         WriteFrameData(off, val, ok)
  PROVE  /\ \A i \in Slot \ {off} : file'[i] = file[i]
         /\ file'[off].hdr = file[off].hdr
         /\ file'[off].val \in {file[off].val, val}
         /\ DataResult(off, ok) = "ok" => file'[off].val = val
         /\ DataResult(off, ok) # "ok" => file' = file
PROOF
  BY SMTT(60) DEF WriteFrameData, OverwriteFrame, CaptureFrame, PutData, DataResult, FileType, FrameType

\* The frames of the transaction stay as they are while only the file, and there only
\* frames behind them, change.
LEMMA OwnFramesStay ==
  ASSUME SqliteType, OwnFrames, Active, UNCHANGED <<pub, mine, recksum>>,
         \A i \in 1..Len(mine) : file'[i] = file[i]
  PROVE  OwnFrames'
PROOF
<1>1. mine \in Seq(Content) /\ recksum \in 0..Len(mine)
  BY DEF SqliteType
<1> QED
  BY <1>1, SMTT(60) DEF OwnFrames, Active, ContentAt

LEMMA BaseWriteHeader ==
  ASSUME BaseInv, NEW c \in Content, NEW ok \in BOOLEAN, WriteHeader(c, ok)
  PROVE  BaseInv'
PROOF
  <1> DEFINE off == Len(mine) + 1
             h == Header(c, IF recksum = 0 THEN Sum(Append(mine, c)) ELSE NoSum)
  <1>1. /\ pc = "open" /\ off \in Slot /\ WriteFrameHeader(off, h, ok)
        /\ UNCHANGED <<epoch, pub, released>>
        /\ IF ok \/ (c.commit /\ ~LooksRewritten(off, h))
           THEN pc' = "data" /\ next' = c /\ UNCHANGED <<mine, recksum>>
           ELSE EndTx
    BY DEF WriteHeader
  <1>2. h \in FrameHeader
    BY HeaderTypes DEF BaseInv, SqliteType
  <1>3. FileType' /\ CaptureType'
    BY <1>1, <1>2, HeaderCallTypes DEF BaseInv, FileType
  <1>4. /\ \A i \in DOMAIN currentTxFrameOffsets' : i <= maxOffset'
        /\ ~LooksRewritten(off, h) => off \notin DOMAIN currentTxFrameOffsets'
    BY <1>1, HeaderCallBelow DEF BaseInv
  <1>5. CASE ok \/ (c.commit /\ ~LooksRewritten(off, h))
    <2>1. pc' = "data" /\ next' = c /\ UNCHANGED <<mine, recksum>>
      BY <1>1, <1>5
    <2>2. SqliteType'
      BY <1>1, <2>1, BoundsAssumption, SMTT(60) DEF BaseInv, SqliteType, Slot
    <2>3. NextHeader' = h /\ NextOff' = off
      BY <1>1, <2>1 DEF NextHeader, NextOff, Sum
    <2>4. \A i \in 1..Len(mine) : file'[i] = file[i]
      BY <1>1, <1>2, HeaderCallFile, BoundsAssumption, SMTT(60) DEF BaseInv, SqliteType, Slot
    <2>5. OwnFrames'
      BY <1>1, <2>1, <2>4, OwnFramesStay DEF BaseInv, Active
    <2>6. ~next'.commit => file'[off].hdr = h
      BY <1>1, <1>2, <1>5, <2>1, HeaderCallFile DEF BaseInv, Header
    <2>7. CASE LooksRewritten(off, h)
      <3>1. pendingRewrite' = [off |-> off, hdr |-> h]
        BY <1>1, <2>7 DEF WriteFrameHeader
      <3>2. pendingRewrite' # None
        BY <1>1, <1>2, <3>1, NoneAssumption, SMTT(60)
      <3>3. Disproves(off)'
        BY <3>1, <3>2, <2>1 DEF Disproves
      <3>4. HeaderFor(off)' = h /\ Captured(off)' = NoFrames
        BY <3>1, <3>3, <2>1 DEF HeaderFor, Captured
      <3> QED
        BY <2>3, <3>3, <3>4, <2>6, <2>1, <2>2, <2>5, <1>3, <1>4
           DEF BaseInv, Staged, Below, Withheld, NoFrames, NextOff
    <2>8. CASE ~LooksRewritten(off, h)
      <3>1. pendingRewrite' = None /\ pendingFrameHeader' = h /\ maxOffset' = off
        BY <1>1, <2>8 DEF WriteFrameHeader
      <3>2. ~Disproves(off)'
        BY <3>1 DEF Disproves
      <3>3. HeaderFor(off)' = h /\ Captured(off)' = currentTxFrameOffsets'
        BY <3>1, <3>2, <2>1 DEF HeaderFor, Captured
      <3>4. off <= maxOffset'
        BY <1>1, <3>1, BoundsAssumption, SMTT(60) DEF Slot
      <3> QED
        BY <2>3, <2>8, <3>1, <3>2, <3>3, <3>4, <2>6, <2>1, <2>2, <2>5, <1>3, <1>4
           DEF BaseInv, Staged, Below, Withheld, NextOff
    <2> QED
      BY <2>7, <2>8
  <1>6. CASE ~(ok \/ (c.commit /\ ~LooksRewritten(off, h)))
    BY <1>1, <1>3, <1>4, <1>6, BaseEnds DEF BaseInv, SqliteType
  <1> QED
    BY <1>5, <1>6

\* writeFrameData captures the frame SQLite is writing; there is a header for it.
LEMMA DataCaptures ==
  ASSUME BaseInv, NEW ok \in BOOLEAN, WriteData(ok)
  PROVE  /\ NextOff \in Slot /\ NextHeader \in FrameHeader
         /\ CaptureFrame(NextOff, next.val, ok)
         /\ HeaderFor(NextOff) = NextHeader
         /\ DataResult(NextOff, ok) =
              IF next.commit THEN "gate" ELSE IF ok THEN "ok" ELSE "error"
PROOF
  <1>1. pc = "data" /\ WriteFrameData(NextOff, next.val, ok)
    BY DEF WriteData, NextOff
  <1>2. NextOff \in Slot /\ next \in Content
    BY <1>1, BoundsAssumption, SMTT(60) DEF BaseInv, SqliteType, NextOff, Slot
  <1>3. NextHeader \in FrameHeader
    BY <1>2, HeaderTypes DEF BaseInv, SqliteType, NextHeader
  <1>4. HeaderFor(NextOff) = NextHeader /\ NextOff \notin DOMAIN Captured(NextOff)
    BY <1>1 DEF BaseInv, Staged
  <1>5. NextHeader # None /\ NextHeader.commit = next.commit
    BY <1>3, NoneAssumption DEF NextHeader, Header
  <1> QED
    BY <1>1, <1>2, <1>3, <1>4, <1>5 DEF WriteFrameData, DataResult

\* Where the captured frames are afterwards.
LEMMA CaptureBelow ==
  ASSUME CaptureType, Below, NEW off \in Slot, NEW val, NEW ok,
         CaptureFrame(off, val, ok), ~Disproves(off) => off <= maxOffset
  PROVE  /\ \A i \in DOMAIN currentTxFrameOffsets' : i <= maxOffset'
         /\ off <= maxOffset'
         /\ DOMAIN currentTxFrameOffsets' = DOMAIN Captured(off) \cup {off}
         /\ currentTxFrameOffsets'[off] = [hdr |-> HeaderFor(off), val |-> val]
         /\ \A i \in DOMAIN Captured(off) \ {off} : currentTxFrameOffsets'[i] = Captured(off)[i]
PROOF
  <1>1. /\ currentTxFrameOffsets' = With(Captured(off), off, [hdr |-> HeaderFor(off), val |-> val])
        /\ maxOffset' = IF Disproves(off) THEN off ELSE maxOffset
    BY DEF CaptureFrame
  <1>2. /\ DOMAIN currentTxFrameOffsets' = DOMAIN Captured(off) \cup {off}
        /\ currentTxFrameOffsets'[off] = [hdr |-> HeaderFor(off), val |-> val]
        /\ \A i \in DOMAIN Captured(off) \ {off} : currentTxFrameOffsets'[i] = Captured(off)[i]
    BY <1>1 DEF With
  <1>3. off <= maxOffset'
    BY <1>1, BoundsAssumption, SMTT(60) DEF Slot
  <1>4. \A i \in DOMAIN Captured(off) : i <= maxOffset'
    BY <1>1 DEF Captured, NoFrames, Below
  <1> QED
    BY <1>2, <1>3, <1>4

\* A frame's content is the record of its three parts.
LEMMA ContentParts ==
  ASSUME NEW c \in Content
  PROVE  c = [pg |-> c.pg, commit |-> c.commit, val |-> c.val]
PROOF
  BY DEF Content

\* One frame of a log with other data.
LEMMA Changed ==
  ASSUME NEW s \in Seq(Content), NEW i \in 1..Len(s), NEW val \in Val
  PROVE  LET t == [s EXCEPT ![i].val = val]
         IN  /\ t \in Seq(Content) /\ Len(t) = Len(s)
             /\ t[i] = [pg |-> s[i].pg, commit |-> s[i].commit, val |-> val]
             /\ \A j \in 1..Len(s) : j # i => t[j] = s[j]
PROOF
  <1>1. s[i] \in Content
    BY SMTT(60)
  <1> DEFINE c == [pg |-> s[i].pg, commit |-> s[i].commit, val |-> val]
             t == [s EXCEPT ![i] = c]
  <1>2. c \in Content
    BY <1>1 DEF Content
  <1>3. [s[i] EXCEPT !.val = val] = c
    BY <1>1, SMTT(60) DEF Content
  <1>4. t = [s EXCEPT ![i].val = val]
    BY <1>3
  <1> HIDE DEF c
  <1>5. t \in Seq(Content) /\ Len(t) = Len(s) /\ t[i] = c /\ \A j \in 1..Len(s) : j # i => t[j] = s[j]
    BY <1>2, SMTT(60)
  <1> QED
    BY <1>4, <1>5 DEF c

\* One more frame of the transaction is in the file.
LEMMA OwnFramesGrow ==
  ASSUME SqliteType, OwnFrames, Active, next \in Content, Len(mine) < Slots,
         mine' = Append(mine, next), UNCHANGED <<pub, recksum>>,
         NEW off, off = NextOff, ContentAt(off)' = next,
         \A i \in Slot \ {off} : file'[i] = file[i]
  PROVE  OwnFrames'
PROOF
  <1>1. /\ Len(pub) \in Nat /\ Len(mine) \in Nat /\ Len(pub) <= Len(mine)
        /\ Len(mine') = off /\ off = Len(mine) + 1 /\ mine'[off] = next
        /\ \A i \in 1..Len(mine) : mine'[i] = mine[i]
    BY SMTT(60) DEF SqliteType, OwnFrames, NextOff
  <1>2. \A i \in 1..Len(pub) : mine'[i] = pub[i]
    BY <1>1, SMTT(60) DEF OwnFrames
  <1>3. ASSUME NEW i \in (Len(pub) + 1)..off  PROVE ContentAt(i)' = mine'[i]
    <2>1. CASE i = off
      BY <2>1, <1>1
    <2>2. CASE i # off
      <3>1. i \in (Len(pub) + 1)..Len(mine) /\ i \in 1..Len(mine) /\ i \in Slot \ {off}
        BY <1>1, <2>2, BoundsAssumption, SMTT(60) DEF Slot
      <3> QED
        BY <3>1, <1>1 DEF OwnFrames, ContentAt
    <2> QED
      BY <2>1, <2>2
  <1> QED
    BY <1>1, <1>2, <1>3, SMTT(60) DEF OwnFrames

LEMMA BaseWriteData ==
  ASSUME BaseInv, NEW ok \in BOOLEAN, WriteData(ok)
  PROVE  BaseInv'
PROOF
  <1> DEFINE off == NextOff
  <1>1. /\ off \in Slot /\ NextHeader \in FrameHeader
        /\ CaptureFrame(off, next.val, ok) /\ HeaderFor(off) = NextHeader
        /\ DataResult(off, ok) = IF next.commit THEN "gate" ELSE IF ok THEN "ok" ELSE "error"
    BY DataCaptures
  <1>2. /\ pc = "data" /\ WriteFrameData(off, next.val, ok) /\ UNCHANGED <<epoch, pub>>
        /\ DataResult(off, ok) = "error" => EndTx
        /\ DataResult(off, ok) = "gate" => pc' = "gate" /\ UNCHANGED <<next, mine, recksum>>
        /\ DataResult(off, ok) = "ok" => /\ pc' = IF next.commit THEN "publish" ELSE "open"
                                         /\ next' = None
                                         /\ mine' = Append(mine, next)
                                         /\ UNCHANGED recksum
    BY DEF WriteData, NextOff
  <1>3. next \in Content /\ next.val \in Val
    BY <1>2 DEF BaseInv, SqliteType, Content
  <1>4. FileType' /\ CaptureType'
    BY <1>1, <1>2, <1>3, DataCallTypes DEF BaseInv, FileType
  <1>5. /\ \A i \in DOMAIN currentTxFrameOffsets' : i <= maxOffset'
        /\ off <= maxOffset'
        /\ DOMAIN currentTxFrameOffsets' = DOMAIN Captured(off) \cup {off}
        /\ currentTxFrameOffsets'[off] = [hdr |-> NextHeader, val |-> next.val]
        /\ pendingRewrite' = None
    <2>1. ~Disproves(off) => off <= maxOffset /\ pendingRewrite = None
      BY <1>2 DEF BaseInv, Staged
    <2>2. pendingRewrite' = None
      BY <1>1, <2>1 DEF CaptureFrame
    <2> QED
      BY <1>1, <2>1, <2>2, CaptureBelow DEF BaseInv
  <1>6. CASE next.commit
    <2>1. pc' = "gate" /\ UNCHANGED <<next, mine, recksum>> /\ file' = file
      BY <1>1, <1>2, <1>3, <1>6, DataCallFile DEF BaseInv
    <2>2. SqliteType'
      BY <1>2, <2>1 DEF BaseInv, SqliteType
    <2>3. OwnFrames'
      BY <1>2, <2>1, OwnFramesStay DEF BaseInv, Active
    <2>4. NextHeader' = NextHeader /\ NextOff' = NextOff
      BY <1>2, <2>1 DEF NextHeader, NextOff, Sum
    <2>5. Withheld'
      BY <1>5, <1>6, <2>1, <2>4 DEF Withheld
    <2> QED
      BY <1>4, <1>5, <2>1, <2>2, <2>3, <2>5 DEF BaseInv, Below, Staged
  <1>7. CASE ~next.commit /\ ok
    <2>1. pc' = "open" /\ next' = None /\ mine' = Append(mine, next) /\ UNCHANGED recksum
      BY <1>1, <1>2, <1>7
    <2>2. Len(mine') = off /\ mine' \in Seq(Content) /\ mine'[off] = next
          /\ \A i \in 1..Len(mine) : mine'[i] = mine[i]
      BY <1>3, <2>1, SMTT(60) DEF BaseInv, SqliteType, NextOff
    <2>3. SqliteType'
      BY <1>1, <1>2, <2>1, <2>2, BoundsAssumption, SMTT(60) DEF BaseInv, SqliteType, NextOff, Slot
    <2>4. /\ \A i \in Slot \ {off} : file'[i] = file[i]
          /\ file'[off].hdr = file[off].hdr /\ file'[off].val = next.val
      BY <1>1, <1>2, <1>3, <1>7, DataCallFile DEF BaseInv
    <2>5. file[off].hdr = NextHeader
      BY <1>2, <1>7 DEF BaseInv, Staged
    <2>6. ASSUME NEW k, k = off  PROVE ContentAt(k)' = next
      <3>1. file'[off].hdr.pg = next.pg /\ file'[off].hdr.commit = next.commit
        BY <2>4, <2>5, SMTT(60) DEF NextHeader, Header
      <3> QED
        BY <1>3, <2>4, <2>6, <3>1, ContentParts DEF ContentAt
    <2>7. OwnFrames'
      <3> PICK k : k = off
        OBVIOUS
      <3> QED
        BY <1>2, <1>3, <2>1, <2>4, <2>6, OwnFramesGrow DEF BaseInv, Active, SqliteType
    <2> QED
      BY <1>4, <1>5, <2>1, <2>2, <2>3, <2>7 DEF BaseInv, Below, Staged, Withheld
  <1>8. CASE ~next.commit /\ ~ok
    BY <1>1, <1>2, <1>4, <1>5, <1>8, BaseEnds DEF BaseInv, SqliteType
  <1> QED
    BY <1>6, <1>7, <1>8

LEMMA BaseOverwrite ==
  ASSUME BaseInv, NEW i \in Slot, NEW val \in Val, NEW ok \in BOOLEAN, Overwrite(i, val, ok)
  PROVE  BaseInv'
PROOF
  <1>1. /\ pc = "open" /\ InTx(i) /\ WriteFrameData(i, val, ok) /\ UNCHANGED <<epoch, pub>>
        /\ IF DataResult(i, ok) = "ok"
           THEN /\ mine' = [mine EXCEPT ![i].val = val]
                /\ recksum' = IF recksum = 0 \/ i < recksum THEN i ELSE recksum
                /\ UNCHANGED <<pc, next>>
           ELSE EndTx
    BY DEF Overwrite
  <1>2. FileType' /\ CaptureType'
    BY <1>1, DataCallTypes DEF BaseInv, FileType
  <1>3. /\ Len(pub) \in Nat /\ Len(mine) \in Nat /\ Len(pub) < i
        /\ i \in 1..Len(mine) /\ i \in (Len(pub) + 1)..Len(mine)
        /\ i <= maxOffset /\ Len(mine) <= maxOffset /\ pendingRewrite = None
    BY <1>1, BoundsAssumption, SMTT(60) DEF BaseInv, SqliteType, InTx, Below, Slot, CaptureType
  <1>4. ~Disproves(i)
    BY <1>3 DEF Disproves
  <1>5. /\ \A j \in DOMAIN currentTxFrameOffsets' : j <= maxOffset'
        /\ maxOffset' = maxOffset /\ pendingRewrite' = None
    <2>1. CASE i \in DOMAIN Captured(i)
      BY <1>1, <1>3, <2>1 DEF WriteFrameData, OverwriteFrame, BaseInv, Below, CaptureType
    <2>2. CASE i \notin DOMAIN Captured(i) /\ HeaderFor(i) = None
      BY <1>1, <1>3, <2>2 DEF WriteFrameData, captureVars, BaseInv, Below
    <2>3. CASE i \notin DOMAIN Captured(i) /\ HeaderFor(i) # None
      <3>1. CaptureFrame(i, val, ok)
        BY <1>1, <2>3 DEF WriteFrameData
      <3>2. maxOffset' = maxOffset /\ pendingRewrite' = None
        BY <1>3, <1>4, <3>1 DEF CaptureFrame
      <3> QED
        BY <1>3, <3>1, <3>2, CaptureBelow DEF BaseInv
    <2> QED
      BY <2>1, <2>2, <2>3
  <1>6. CASE DataResult(i, ok) = "ok"
    <2>1. /\ mine' = [mine EXCEPT ![i].val = val]
          /\ recksum' = IF recksum = 0 \/ i < recksum THEN i ELSE recksum
          /\ UNCHANGED <<pc, next>>
      BY <1>1, <1>6
    <2>2. /\ mine' \in Seq(Content) /\ Len(mine') = Len(mine)
          /\ mine'[i] = [pg |-> mine[i].pg, commit |-> mine[i].commit, val |-> val]
          /\ \A j \in 1..Len(mine) : j # i => mine'[j] = mine[j]
      BY <1>3, <2>1, Changed, SMTT(60) DEF BaseInv, SqliteType
    <2>3. recksum' \in 1..Len(mine) /\ recksum' > Len(pub)
      BY <1>1, <1>3, <2>1, SMTT(60) DEF BaseInv, SqliteType, OwnFrames, Active
    <2>4. SqliteType'
      BY <1>1, <2>1, <2>2, <2>3, SMTT(60) DEF BaseInv, SqliteType
    <2>5. /\ \A j \in Slot \ {i} : file'[j] = file[j]
          /\ file'[i].hdr = file[i].hdr /\ file'[i].val = val
      BY <1>1, <1>6, DataCallFile, SMTT(60) DEF BaseInv
    <2>6. ContentAt(i)' = mine'[i]
      <3>1. ContentAt(i) = mine[i]
        BY <1>1, <1>3 DEF BaseInv, OwnFrames, Active
      <3>2. mine[i].pg = file[i].hdr.pg /\ mine[i].commit = file[i].hdr.commit
        BY <3>1, SMTT(60) DEF ContentAt
      <3> QED
        BY <2>2, <2>5, <3>2 DEF ContentAt
    <2>7. \A j \in (Len(pub) + 1)..Len(mine) : ContentAt(j)' = mine'[j]
      <3> SUFFICES ASSUME NEW j \in (Len(pub) + 1)..Len(mine), j # i
                   PROVE  ContentAt(j)' = mine'[j]
        BY <2>6
      <3>1. j \in 1..Len(mine) /\ j \in Slot \ {i}
        BY <1>3, BoundsAssumption, SMTT(60) DEF BaseInv, SqliteType, Slot
      <3>2. ContentAt(j) = mine[j]
        BY <1>1 DEF BaseInv, OwnFrames, Active
      <3> QED
        BY <3>1, <3>2, <2>2, <2>5 DEF ContentAt
    <2>8. OwnFrames'
      <3>1. \A j \in 1..Len(pub) : mine'[j] = pub[j]
        BY <1>1, <1>3, <2>2, SMTT(60) DEF BaseInv, OwnFrames, Active
      <3> QED
        BY <1>1, <1>3, <2>2, <2>3, <2>7, <3>1, SMTT(60) DEF OwnFrames
    <2> QED
      BY <1>1, <1>2, <1>3, <1>5, <2>1, <2>2, <2>4, <2>8 DEF BaseInv, Below, Staged, Withheld
  <1>7. CASE DataResult(i, ok) # "ok"
    BY <1>1, <1>2, <1>5, <1>7, BaseEnds DEF BaseInv, SqliteType
  <1> QED
    BY <1>6, <1>7

LEMMA BaseGateCommits ==
  ASSUME BaseInv, NEW done \in {"both", "header", "nothing"}, GateCommits(done)
  PROVE  BaseInv'
PROOF
  <1> PICK off : off = NextOff
    OBVIOUS
  <1> DEFINE f == currentTxFrameOffsets[off]
  <1>1. /\ pc = "gate" /\ currentTxFrames' = <<>> /\ currentTxCommitted' = TRUE
        /\ file' = CASE done = "both" -> [file EXCEPT ![off] = f]
                     [] done = "header" -> [file EXCEPT ![off].hdr = f.hdr]
                     [] done = "nothing" -> file
        /\ pc' = IF done = "both" THEN "publish" ELSE "panic"
        /\ mine' = Append(mine, next) /\ next' = None
        /\ UNCHANGED <<epoch, pub, recksum, pendingFrameHeader, currentTxFrameOffsets,
                       maxOffset, pendingRewrite>>
    BY DEF GateCommits, NextOff
  <1>2. /\ off \in Slot /\ next \in Content /\ Len(mine) < Slots
        /\ f = [hdr |-> NextHeader, val |-> next.val] /\ f \in FrameType
    BY <1>1, BoundsAssumption DEF BaseInv, SqliteType, Withheld, CaptureType, NextOff, Slot
  <1>3. file' \in [Slot -> FrameType]
    <2>1. [file EXCEPT ![off] = f] \in [Slot -> FrameType]
      BY <1>2 DEF BaseInv, FileType
    <2>2. [file EXCEPT ![off].hdr = f.hdr] \in [Slot -> FrameType]
      BY <1>2 DEF BaseInv, FileType, FrameType
    <2> QED
      BY <1>1, <2>1, <2>2 DEF BaseInv, FileType
  <1>4. FileType' /\ CaptureType' /\ Below'
    BY <1>1, <1>3, SMTT(60) DEF BaseInv, FileType, CaptureType, Below
  <1>5. SqliteType'
    <2>1. mine' \in Seq(Content) /\ Len(mine') = Len(mine) + 1 /\ Len(mine) \in Nat
      BY <1>1, <1>2, SMTT(60) DEF BaseInv, SqliteType
    <2>2. Len(mine') <= Slots /\ recksum' \in 0..Len(mine')
      BY <1>1, <1>2, <2>1, BoundsAssumption, SMTT(60) DEF BaseInv, SqliteType
    <2>3. pc' \in {"publish", "panic"}
      BY <1>1
    <2> QED
      BY <1>1, <2>1, <2>2, <2>3 DEF BaseInv, SqliteType
  <1>6. CASE done = "both"
    <2>1. file' = [file EXCEPT ![off] = f]
      BY <1>1, <1>6
    <2>2. file'[off] = f /\ \A i \in Slot \ {off} : file'[i] = file[i]
      BY <1>2, <2>1 DEF BaseInv, FileType
    <2>3. ContentAt(off)' = next
      BY <1>2, <2>2, ContentParts, SMTT(60) DEF ContentAt, NextHeader, Header
    <2>4. OwnFrames'
      BY <1>1, <1>2, <2>2, <2>3, OwnFramesGrow DEF BaseInv, Active
    <2> QED
      BY <1>1, <1>4, <1>5, <1>6, <2>4 DEF BaseInv, Staged, Withheld
  <1>7. CASE done # "both"
    BY <1>1, <1>4, <1>5, <1>7 DEF BaseInv, Staged, Withheld, OwnFrames, Active
  <1> QED
    BY <1>6, <1>7

\* The header that walRewriteChecksums writes is one.
LEMMA RewrittenHeader ==
  ASSUME BaseInv, pc = "publish", recksum # 0
  PROVE  LET before == IF recksum = 1 THEN <<>> ELSE file[recksum - 1].hdr.sum.over
         IN  /\ recksum \in Slot /\ recksum \in (Len(pub) + 1)..Len(mine)
             /\ ContentAt(recksum) = mine[recksum] /\ mine[recksum] \in Content
             /\ before \in Seq(Content)
             /\ Header(ContentAt(recksum), Sum(Append(before, ContentAt(recksum)))) \in FrameHeader
PROOF
  <1> DEFINE before == IF recksum = 1 THEN <<>> ELSE file[recksum - 1].hdr.sum.over
  <1>1. recksum \in Slot /\ recksum \in (Len(pub) + 1)..Len(mine) /\ recksum \in 1..Len(mine)
    BY BoundsAssumption, SMTT(60) DEF BaseInv, SqliteType, OwnFrames, Active, Slot
  <1>2. ContentAt(recksum) = mine[recksum] /\ mine[recksum] \in Content
    BY <1>1, SMTT(60) DEF BaseInv, SqliteType, OwnFrames, Active
  <1>3. before \in Seq(Content)
    <2>1. CASE recksum = 1
      BY <2>1, SMTT(60)
    <2>2. CASE recksum # 1
      <3>1. recksum - 1 \in Slot
        BY <1>1, <2>2, BoundsAssumption, SMTT(60) DEF Slot
      <3> QED
        BY <2>2, <3>1 DEF BaseInv, FileType, FrameType, FrameHeader
    <2> QED
      BY <2>1, <2>2
  <1> HIDE DEF before
  <1>4. Header(ContentAt(recksum), Sum(Append(before, ContentAt(recksum)))) \in FrameHeader
    BY <1>2, <1>3, HeaderTypes DEF BaseInv
  <1> QED
    BY <1>1, <1>2, <1>3, <1>4 DEF before

LEMMA BaseRewriteChecksum ==
  ASSUME BaseInv, NEW ok \in BOOLEAN, RewriteChecksum(ok)
  PROVE  BaseInv'
PROOF
  <1> PICK off : off = recksum
    OBVIOUS
  <1> DEFINE before == IF off = 1 THEN <<>> ELSE file[off - 1].hdr.sum.over
             h == Header(ContentAt(off), Sum(Append(before, ContentAt(off))))
  <1>1. /\ pc = "publish" /\ off # 0 /\ WriteFrameHeader(off, h, ok)
        /\ UNCHANGED <<epoch, pub>>
        /\ IF ok THEN /\ recksum' = IF off = Len(mine) THEN 0 ELSE off + 1
                      /\ UNCHANGED <<pc, next, mine>>
           ELSE EndTx
    BY DEF RewriteChecksum
  <1>2. /\ off \in Slot /\ off \in (Len(pub) + 1)..Len(mine)
        /\ ContentAt(off) = mine[off] /\ mine[off] \in Content /\ h \in FrameHeader
    BY <1>1, RewrittenHeader
  <1> HIDE DEF before
  <1>3. FileType' /\ CaptureType'
    BY <1>1, <1>2, HeaderCallTypes DEF BaseInv, FileType
  <1>4. \A i \in DOMAIN currentTxFrameOffsets' : i <= maxOffset'
    BY <1>1, <1>2, HeaderCallBelow DEF BaseInv
  <1>5. CASE ok
    <2>1. recksum' = (IF off = Len(mine) THEN 0 ELSE off + 1) /\ UNCHANGED <<pc, next, mine>>
      BY <1>1, <1>5
    <2>2. recksum' \in 0..Len(mine) /\ (recksum' # 0 => recksum' > Len(pub))
      BY <1>2, <2>1, SMTT(60) DEF BaseInv, SqliteType
    <2>3. SqliteType'
      BY <1>1, <2>1, <2>2 DEF BaseInv, SqliteType
    <2>4. /\ \A i \in Slot \ {off} : file'[i] = file[i]
          /\ file'[off].val = file[off].val /\ file'[off].hdr \in {file[off].hdr, h}
      BY <1>1, <1>2, HeaderCallFile DEF BaseInv
    <2>5. \A i \in Slot : ContentAt(i)' = ContentAt(i)
      BY <2>4, SMTT(60) DEF ContentAt, Header
    <2>6. \A i \in (Len(pub) + 1)..Len(mine) : i \in Slot /\ ContentAt(i) = mine[i]
      BY <1>1, BoundsAssumption, SMTT(60) DEF BaseInv, OwnFrames, Active, SqliteType, Slot
    <2>7. OwnFrames'
      BY <1>1, <2>1, <2>2, <2>5, <2>6 DEF BaseInv, OwnFrames, Active
    <2> QED
      BY <1>1, <1>3, <1>4, <2>1, <2>3, <2>7 DEF BaseInv, Below, Staged, Withheld
  <1>6. CASE ~ok
    BY <1>1, <1>3, <1>4, <1>6, BaseEnds DEF BaseInv, SqliteType
  <1> QED
    BY <1>5, <1>6

LEMMA BaseSavepoint ==
  ASSUME BaseInv, NEW k \in 0..Slots, SavepointUndo(k)
  PROVE  BaseInv'
PROOF
  <1>1. /\ pc = "open" /\ k \in Len(pub)..(Len(mine) - 1)
        /\ mine' = SubSeq(mine, 1, k)
        /\ recksum' = IF recksum > k THEN 0 ELSE recksum
        /\ UNCHANGED <<epoch, pub, pc, next, file, captureVars>>
    BY DEF SavepointUndo
  <1>2. /\ mine' \in Seq(Content) /\ Len(mine') = k
        /\ \A i \in 1..k : mine'[i] = mine[i]
    BY <1>1, SMTT(60) DEF BaseInv, SqliteType
  <1>3. recksum' \in 0..k
    BY <1>1, SMTT(60) DEF BaseInv, SqliteType
  <1>4. SqliteType'
    BY <1>1, <1>2, <1>3, SMTT(60) DEF BaseInv, SqliteType
  <1>5. FileType' /\ CaptureType'
    BY <1>1 DEF BaseInv, FileType, CaptureType, captureVars
  <1>6. OwnFrames'
    BY <1>1, <1>2, SMTT(60) DEF BaseInv, SqliteType, OwnFrames, Active, ContentAt
  <1>7. Below'
    BY <1>1, <1>2, SMTT(60) DEF BaseInv, SqliteType, CaptureType, Below, captureVars
  <1> QED
    BY <1>1, <1>4, <1>5, <1>6, <1>7 DEF BaseInv, Staged, Withheld

\* Between two transactions there is no frame that SQLite counts on.
LEMMA BaseIdle ==
  ASSUME BaseInv, pc = "idle", UNCHANGED <<mine, pc, next, recksum, captureVars>>,
         FileType', pub' \in Seq(Content), Len(pub') <= Slots
  PROVE  BaseInv'
PROOF
  <1>1. SqliteType'
    BY DEF BaseInv, SqliteType
  <1>2. CaptureType'
    BY DEF BaseInv, CaptureType, captureVars
  <1> QED
    BY <1>1, <1>2 DEF BaseInv, OwnFrames, Active, Below, Staged, Withheld, captureVars

LEMMA BaseOtherCommits ==
  ASSUME BaseInv, NEW c \in Content, OtherCommits(c)
  PROVE  BaseInv'
PROOF
  <1> DEFINE off == Len(pub) + 1
             f == [hdr |-> Header(c, Sum(Append(pub, c))), val |-> c.val]
  <1>1. /\ pc = "idle" /\ off \in Slot /\ file' = [file EXCEPT ![off] = f]
        /\ pub' = Append(pub, c)
        /\ UNCHANGED <<epoch, mine, pc, next, recksum, captureVars>>
    BY DEF OtherCommits
  <1>2. f \in FrameType
    BY HeaderTypes DEF BaseInv, SqliteType, FrameType, Content
  <1>3. FileType'
    BY <1>1, <1>2 DEF BaseInv, FileType
  <1>4. pub' \in Seq(Content) /\ Len(pub') <= Slots
    BY <1>1, BoundsAssumption, SMTT(60) DEF BaseInv, SqliteType, Slot
  <1> QED
    BY <1>1, <1>3, <1>4, BaseIdle

\* resetCurrentTx leaves nothing that could have a wrong type.
LEMMA EmptyCapture ==
  ASSUME currentTxFrames' = <<>>, currentTxFrameOffsets' = NoFrames,
         currentTxCommitted' \in BOOLEAN, maxOffset' \in 0..Slots,
         pendingFrameHeader' \in FrameHeader \cup {None},
         pendingRewrite' \in RewriteType \cup {None}
  PROVE  CaptureType' /\ \A i \in DOMAIN currentTxFrameOffsets' : i <= maxOffset'
PROOF
  <1>1. DOMAIN NoFrames = {} /\ NoFrames \in [{} -> FrameType]
    BY DEF NoFrames
  <1>2. <<>> \in Seq(Slot) /\ Len(<<>>) = 0
    BY SMTT(60)
  <1> QED
    BY <1>1, <1>2, SMTT(60) DEF CaptureType

LEMMA BaseNext ==
  ASSUME BaseInv, Next
  PROVE  BaseInv'
PROOF
  <1>1. CASE Begin
    <2>1. SqliteType'
      BY <1>1, SMTT(60) DEF Begin, BaseInv, SqliteType
    <2> QED
      BY <1>1, <2>1, SMTT(60) DEF Begin, BaseInv, SqliteType, FileType, CaptureType, captureVars,
                        OwnFrames, Active, Below, Staged, Withheld
  <1>2. CASE Rollback
    BY <1>2, BaseEnds
       DEF Rollback, BaseInv, SqliteType, FileType, CaptureType, captureVars, Below
  <1>3. CASE GateRejects
    <2>1. CaptureType' /\ \A i \in DOMAIN currentTxFrameOffsets' : i <= maxOffset'
      BY <1>3, EmptyCapture DEF GateRejects, BaseInv, CaptureType
    <2>2. FileType' /\ EndTx /\ UNCHANGED pub
      BY <1>3 DEF GateRejects, BaseInv, FileType
    <2> QED
      BY <2>1, <2>2, BaseEnds DEF BaseInv, SqliteType
  <1>4. CASE Publish
    BY <1>4, BaseEnds
       DEF Publish, BaseInv, SqliteType, FileType, CaptureType, captureVars, Below
  <1>5. CASE Restart
    <2>1. FileType' /\ pub' \in Seq(Content) /\ Len(pub') <= Slots
      BY <1>5, BoundsAssumption, SMTT(60) DEF Restart, BaseInv, FileType
    <2> QED
      BY <1>5, <2>1, BaseIdle DEF Restart
  <1>6. CASE Crash
    <2>1. pub' \in Seq(Content) /\ Len(pub') <= Slots
      BY <1>6, RecoveredType DEF Crash, BaseInv
    <2>2. CaptureType' /\ \A i \in DOMAIN currentTxFrameOffsets' : i <= maxOffset'
      <3>1. 0 \in 0..Slots
        BY BoundsAssumption, SMTT(60)
      <3>2. /\ currentTxFrames' = <<>> /\ currentTxFrameOffsets' = NoFrames
            /\ currentTxCommitted' = FALSE /\ maxOffset' = 0
            /\ pendingFrameHeader' = None /\ pendingRewrite' = None
        BY <1>6 DEF Crash
      <3> QED
        BY <3>1, <3>2, EmptyCapture
    <2>3. FileType' /\ EndTx
      BY <1>6 DEF Crash, BaseInv, FileType
    <2> QED
      BY <2>1, <2>2, <2>3, BaseEnds
  <1> QED
    BY <1>1, <1>2, <1>3, <1>4, <1>5, <1>6, BaseWriteHeader, BaseWriteData, BaseOverwrite,
       BaseGateCommits, BaseRewriteChecksum, BaseSavepoint, BaseOtherCommits DEF Next

-----------------------------------------------------------------------------
\* CaptureInv: what is captured is what the transaction has written

LEMMA CaptureEnds ==
  ASSUME Tally', pc' \in {"idle", "panic"}
  PROVE  CaptureInv'
PROOF
  BY DEF CaptureInv

\* SQLite's idea of the log is the published one, or is longer.
LEMMA MineIsPub ==
  ASSUME BaseInv, Active
  PROVE  /\ Len(pub) \in Nat /\ Len(mine) \in Nat /\ Len(pub) <= Len(mine)
         /\ mine = pub <=> Len(mine) = Len(pub)
PROOF
  BY SMTT(60) DEF BaseInv, SqliteType, OwnFrames

LEMMA TallyStays ==
  ASSUME Tally, UNCHANGED <<currentTxFrames, currentTxFrameOffsets, currentTxCommitted>>
  PROVE  Tally'
PROOF
  BY DEF Tally

LEMMA TallyReset ==
  ASSUME currentTxFrames' = <<>>, currentTxFrameOffsets' = NoFrames
  PROVE  Tally'
PROOF
  BY DEF Tally, NoFrames

LEMMA CaptureWriteHeader ==
  ASSUME BaseInv, CaptureInv, Clean', NEW c \in Content, NEW ok \in BOOLEAN, WriteHeader(c, ok)
  PROVE  CaptureInv'
PROOF
  <1> PICK off : off = Len(mine) + 1
    OBVIOUS
  <1> DEFINE h == Header(c, IF recksum = 0 THEN Sum(Append(mine, c)) ELSE NoSum)
  <1>1. /\ pc = "open" /\ off \in Slot /\ WriteFrameHeader(off, h, ok)
        /\ Record(off, c) /\ UNCHANGED pub
        /\ \/ pc' = "data" /\ next' = c /\ UNCHANGED <<mine, recksum>>
           \/ pc' = "idle"
    BY DEF WriteHeader, EndTx
  <1>2. ~CarriesOver(off) /\ ~DropsOwn(off)
    BY <1>1 DEF Record, Clean
  <1>3. /\ Len(pub) \in Nat /\ Len(mine) \in Nat /\ Len(pub) <= Len(mine)
        /\ mine = pub <=> Len(mine) = Len(pub)
    BY <1>1, MineIsPub DEF Active
  <1>4. /\ maxOffset \in Nat /\ CaptureType
        /\ Len(mine) > Len(pub) => /\ Fresh /\ Listed(maxOffset) /\ Held(maxOffset)
                                   /\ Len(mine) <= maxOffset
    BY <1>1, SMTT(60) DEF BaseInv, CaptureType, Below, CaptureInv
  <1>5. CASE LooksRewritten(off, h)
    <2>1. /\ currentTxFrameOffsets' = [currentTxFrameOffsets EXCEPT ![off].hdr = h]
          /\ pendingRewrite' = [off |-> off, hdr |-> h]
          /\ UNCHANGED <<currentTxFrames, currentTxCommitted>>
      BY <1>1, <1>5 DEF WriteFrameHeader
    <2>2. currentTxCommitted /\ Len(mine) = Len(pub)
      BY <1>3, <1>4, <1>5, SMTT(60) DEF LooksRewritten, Fresh
    <2>3. Tally'
      BY <2>1, <2>2 DEF CaptureInv, Tally
    <2>4. h \in FrameHeader
      BY HeaderTypes DEF BaseInv, SqliteType
    <2>5. pendingRewrite' # None /\ pendingRewrite'.off = off
      BY <1>1, <2>1, <2>4, NoneAssumption, SMTT(60)
    <2>6. CASE pc' = "data"
      <3>1. Disproves(NextOff)'
        BY <1>1, <2>5, <2>6 DEF Disproves, NextOff
      <3> QED
        BY <1>1, <2>1, <2>2, <2>3, <2>6, <3>1 DEF CaptureInv
    <2> QED
      BY <1>1, <2>3, <2>6, CaptureEnds
  <1>6. CASE ~LooksRewritten(off, h)
    <2>1. /\ pendingRewrite' = None /\ maxOffset' = off /\ currentTxCommitted' = FALSE
          /\ currentTxFrames' = KeptFrames(off) /\ currentTxFrameOffsets' = KeptOffsets(off)
      BY <1>1, <1>6 DEF WriteFrameHeader
    <2>2. CASE StartsAnew(off)
      <3>1. currentTxFrames' = <<>> /\ currentTxFrameOffsets' = NoFrames
        BY <2>1, <2>2 DEF KeptFrames, KeptOffsets
      <3>2. Tally'
        BY <3>1, TallyReset
      <3>3. Len(mine) = Len(pub)
        BY <1>2, <1>3, <1>4, <2>2, SMTT(60) DEF StartsAnew, DropsOwn, Fresh
      <3>4. CASE pc' = "data"
        <4>1. Fresh' /\ maxOffset' = NextOff'
          BY <1>1, <2>1, <3>4 DEF Fresh, NextOff
        <4>2. Listed(Len(mine))' /\ Held(Len(mine))'
          BY <1>1, <1>3, <3>1, <3>3, <3>4, SMTT(60) DEF Listed, Held, NoFrames
        <4> QED
          BY <3>2, <3>4, <4>1, <4>2 DEF CaptureInv
      <3> QED
        BY <1>1, <3>2, <3>4, CaptureEnds
    <2>3. CASE ~StartsAnew(off)
      <3>1. /\ ~currentTxCommitted /\ ~(off <= maxOffset)
            /\ UNCHANGED <<currentTxFrames, currentTxFrameOffsets, currentTxCommitted>>
        BY <2>1, <2>3 DEF KeptFrames, KeptOffsets, StartsAnew, BaseInv, CaptureType
      <3>2. Tally'
        BY <3>1, TallyStays DEF CaptureInv
      <3>3. Listed(Len(mine)) /\ Held(Len(mine))
        <4>1. CASE Len(mine) = Len(pub)
          <5>1. currentTxFrames = <<>>
            BY <1>2, <1>3, <1>4, <3>1, <4>1, SMTT(60) DEF CarriesOver
          <5>2. DOMAIN currentTxFrameOffsets = {}
            <6>1. \A i \in DOMAIN currentTxFrameOffsets :
                    \E k \in 1..Len(currentTxFrames) : currentTxFrames[k] = i
              BY <3>1 DEF CaptureInv, Tally
            <6>2. 1..Len(currentTxFrames) = {}
              BY <5>1, SMTT(60)
            <6> QED
              BY <6>1, <6>2
          <5> QED
            BY <1>3, <4>1, <5>1, <5>2, SMTT(60) DEF Listed, Held
        <4>2. CASE Len(mine) # Len(pub)
          <5>1. maxOffset = Len(mine)
            BY <1>3, <1>4, <3>1, <4>2, SMTT(60)
          <5> QED
            BY <1>3, <1>4, <4>2, <5>1, SMTT(60)
        <4> QED
          BY <4>1, <4>2
      <3>4. CASE pc' = "data"
        <4>1. Fresh' /\ maxOffset' = NextOff'
          BY <1>1, <2>1, <3>4 DEF Fresh, NextOff
        <4>2. Listed(Len(mine))' /\ Held(Len(mine))'
          BY <1>1, <3>1, <3>3, <3>4 DEF Listed, Held
        <4> QED
          BY <3>2, <3>4, <4>1, <4>2 DEF CaptureInv
      <3> QED
        BY <1>1, <3>2, <3>4, CaptureEnds
    <2> QED
      BY <2>2, <2>3
  <1> QED
    BY <1>5, <1>6

\* A captured frame is added to the list and to the map.
LEMMA TallyGrows ==
  ASSUME NEW off \in Slot, CapturedList(off) \in Seq(Slot),
         \A i \in DOMAIN Captured(off) :
           \E k \in 1..Len(CapturedList(off)) : CapturedList(off)[k] = i,
         currentTxFrames' = Append(CapturedList(off), off),
         DOMAIN currentTxFrameOffsets' = DOMAIN Captured(off) \cup {off},
         ~currentTxCommitted'
  PROVE  Tally'
PROOF
  <1> DEFINE list == CapturedList(off)
  <1>1. /\ Len(currentTxFrames') = Len(list) + 1 /\ Len(list) \in Nat
        /\ currentTxFrames'[Len(list) + 1] = off
        /\ \A k \in 1..Len(list) : currentTxFrames'[k] = list[k]
    BY SMTT(60)
  <1>2. ASSUME NEW i \in DOMAIN Captured(off)
        PROVE  \E k \in 1..Len(currentTxFrames') : currentTxFrames'[k] = i
    BY <1>1, SMTT(60)
  <1>3. \E k \in 1..Len(currentTxFrames') : currentTxFrames'[k] = off
    BY <1>1, SMTT(60)
  <1> QED
    BY <1>2, <1>3 DEF Tally

\* The captured frames with the one that is being written: in the list, ...
LEMMA ListedGrows ==
  ASSUME NEW list \in Seq(Slot), NEW off \in Nat, NEW p \in Nat, NEW m \in Nat,
         p <= m, off = m + 1, Len(list) = m - p, \A k \in 1..Len(list) : list[k] = p + k
  PROVE  LET grown == Append(list, off)
         IN  Len(grown) = off - p /\ \A k \in 1..Len(grown) : grown[k] = p + k
PROOF
  BY SMTT(60)

LEMMA CaptureWriteData ==
  ASSUME BaseInv, CaptureInv, NEW ok \in BOOLEAN, WriteData(ok)
  PROVE  CaptureInv'
PROOF
  <1> PICK off : off = NextOff
    OBVIOUS
  <1>1. /\ off \in Slot /\ CaptureFrame(off, next.val, ok) /\ HeaderFor(off) = NextHeader
        /\ DataResult(off, ok) = IF next.commit THEN "gate" ELSE IF ok THEN "ok" ELSE "error"
    BY DataCaptures
  <1>2. /\ pc = "data" /\ UNCHANGED <<epoch, pub>>
        /\ DataResult(off, ok) = "error" => pc' = "idle"
        /\ DataResult(off, ok) = "gate" => pc' = "gate" /\ UNCHANGED <<next, mine, recksum>>
        /\ DataResult(off, ok) = "ok" => /\ pc' = IF next.commit THEN "publish" ELSE "open"
                                         /\ mine' = Append(mine, next)
    BY DEF WriteData, NextOff, EndTx
  <1>3. /\ Len(pub) \in Nat /\ Len(mine) \in Nat /\ Len(pub) <= Len(mine)
        /\ off = Len(mine) + 1 /\ off \in Nat /\ next \in Content
    BY <1>2, MineIsPub, SMTT(60) DEF Active, NextOff, BaseInv, SqliteType
  <1>4. ~Disproves(off) => off <= maxOffset
    BY <1>2 DEF BaseInv, Staged
  <1>5. /\ DOMAIN currentTxFrameOffsets' = DOMAIN Captured(off) \cup {off}
        /\ currentTxFrameOffsets'[off] = [hdr |-> NextHeader, val |-> next.val]
        /\ \A i \in DOMAIN Captured(off) \ {off} : currentTxFrameOffsets'[i] = Captured(off)[i]
    BY <1>1, <1>4, CaptureBelow DEF BaseInv
  <1>6. /\ CapturedList(off) \in Seq(Slot)
        /\ DOMAIN Captured(off) = (Len(pub) + 1)..Len(mine)
        /\ \A i \in DOMAIN Captured(off) : \E k \in 1..Len(CapturedList(off)) : CapturedList(off)[k] = i
        /\ Len(CapturedList(off)) = Len(mine) - Len(pub)
        /\ \A k \in 1..Len(CapturedList(off)) : CapturedList(off)[k] = Len(pub) + k
        /\ \A i \in (Len(pub) + 1)..Len(mine) :
             LET f == Captured(off)[i]
             IN  [pg |-> f.hdr.pg, commit |-> f.hdr.commit, val |-> f.val] = mine[i]
        /\ ~currentTxCommitted' /\ pendingRewrite' = None /\ maxOffset' = off
    <2>1. CASE Disproves(off)
      <3>1. Captured(off) = NoFrames /\ CapturedList(off) = <<>> /\ Len(mine) = Len(pub)
        BY <1>2, <2>1 DEF Captured, CapturedList, CaptureInv, Fresh, Disproves
      <3>2. ~currentTxCommitted' /\ pendingRewrite' = None /\ maxOffset' = off
        BY <1>1, <2>1 DEF CaptureFrame
      <3>3. (Len(pub) + 1)..Len(mine) = {} /\ Len(mine) - Len(pub) = 0
        BY <1>3, <3>1, SMTT(60)
      <3>4. DOMAIN NoFrames = {} /\ <<>> \in Seq(Slot) /\ Len(<<>>) = 0 /\ 1..0 = {}
        BY SMTT(60) DEF NoFrames
      <3> QED
        BY <3>1, <3>2, <3>3, <3>4
    <2>2. CASE ~Disproves(off)
      <3>1. Captured(off) = currentTxFrameOffsets /\ CapturedList(off) = currentTxFrames
        BY <2>2 DEF Captured, CapturedList
      <3>2. Fresh /\ maxOffset = off /\ Listed(Len(mine)) /\ Held(Len(mine))
        BY <1>2, <2>2 DEF CaptureInv
      <3>3. ~currentTxCommitted' /\ pendingRewrite' = None /\ maxOffset' = off
        BY <1>1, <2>2, <3>2 DEF CaptureFrame, Fresh
      <3>4. \A i \in DOMAIN currentTxFrameOffsets :
              \E k \in 1..Len(currentTxFrames) : currentTxFrames[k] = i
        BY <3>2 DEF CaptureInv, Tally, Fresh
      <3>5. currentTxFrames \in Seq(Slot)
        BY DEF BaseInv, CaptureType
      <3> QED
        BY <3>1, <3>2, <3>3, <3>4, <3>5 DEF Listed, Held
    <2> QED
      BY <2>1, <2>2
  <1>7. currentTxFrames' = Append(CapturedList(off), off)
    BY <1>1 DEF CaptureFrame
  <1>8. Tally'
    BY <1>1, <1>5, <1>6, <1>7, TallyGrows
  <1>9. Fresh' /\ Listed(off)'
    <2> DEFINE grown == Append(CapturedList(off), off)
    <2>1. Len(grown) = off - Len(pub) /\ \A k \in 1..Len(grown) : grown[k] = Len(pub) + k
      BY <1>3, <1>6, ListedGrows
    <2> HIDE DEF grown
    <2>2. currentTxFrames' = grown /\ pub' = pub
      BY <1>2, <1>7 DEF grown
    <2> QED
      BY <1>6, <2>1, <2>2 DEF Fresh, Listed
  <1>10. DOMAIN currentTxFrameOffsets' = (Len(pub) + 1)..off
    BY <1>3, <1>5, <1>6, SMTT(60)
  <1>11. ASSUME NEW i \in (Len(pub) + 1)..Len(mine)
         PROVE  LET f == currentTxFrameOffsets'[i]
                IN  [pg |-> f.hdr.pg, commit |-> f.hdr.commit, val |-> f.val] = mine[i]
    <2>1. i \in DOMAIN Captured(off) \ {off}
      BY <1>3, <1>6, SMTT(60)
    <2> QED
      BY <1>5, <1>6, <2>1
  <1>12. CASE next.commit
    <2>1. pc' = "gate" /\ UNCHANGED <<next, mine, recksum>>
      BY <1>1, <1>2, <1>12
    <2>2. Held(off)'
      BY <1>2, <1>10, <1>11, <2>1 DEF Held
    <2>3. NextOff' = off
      BY <2>1 DEF NextOff
    <2> QED
      BY <1>8, <1>9, <2>1, <2>2, <2>3 DEF CaptureInv
  <1>13. CASE ~next.commit /\ ok
    <2>1. pc' = "open" /\ mine' = Append(mine, next)
      BY <1>1, <1>2, <1>13
    <2>2. /\ Len(mine') = off /\ mine'[off] = next
          /\ \A i \in 1..Len(mine) : mine'[i] = mine[i]
      BY <1>3, <2>1, SMTT(60) DEF BaseInv, SqliteType
    <2>3. LET f == currentTxFrameOffsets'[off]
          IN  [pg |-> f.hdr.pg, commit |-> f.hdr.commit, val |-> f.val] = next
      BY <1>3, <1>5, ContentParts, SMTT(60) DEF NextHeader, Header
    <2>4. Held(off)'
      <3> SUFFICES ASSUME NEW i \in (Len(pub) + 1)..off
                   PROVE  LET f == currentTxFrameOffsets'[i]
                          IN  [pg |-> f.hdr.pg, commit |-> f.hdr.commit, val |-> f.val] = mine'[i]
        BY <1>2, <1>10, <2>2 DEF Held
      <3>1. CASE i = off
        BY <2>2, <2>3, <3>1
      <3>2. CASE i # off
        <4>1. i \in (Len(pub) + 1)..Len(mine) /\ i \in 1..Len(mine)
          BY <1>3, <3>2, SMTT(60)
        <4> QED
          BY <1>11, <2>2, <4>1
      <3> QED
        BY <3>1, <3>2
    <2> QED
      BY <1>6, <1>8, <1>9, <2>1, <2>4 DEF CaptureInv
  <1>14. CASE ~next.commit /\ ~ok
    BY <1>1, <1>2, <1>8, <1>14, CaptureEnds
  <1> QED
    BY <1>12, <1>13, <1>14

LEMMA CaptureOverwrite ==
  ASSUME BaseInv, CaptureInv, NEW i \in Slot, NEW val \in Val, NEW ok \in BOOLEAN,
         Overwrite(i, val, ok)
  PROVE  CaptureInv'
PROOF
  <1>1. /\ pc = "open" /\ InTx(i) /\ WriteFrameData(i, val, ok) /\ UNCHANGED pub
        /\ \/ pc' = "open" /\ mine' = [mine EXCEPT ![i].val = val]
           \/ pc' = "idle"
    BY DEF Overwrite, EndTx
  <1>2. /\ Len(pub) \in Nat /\ Len(mine) \in Nat /\ Len(pub) <= Len(mine)
        /\ i \in (Len(pub) + 1)..Len(mine) /\ i \in 1..Len(mine) /\ Len(mine) > Len(pub)
    BY <1>1, MineIsPub, BoundsAssumption, SMTT(60) DEF Active, InTx, Slot
  <1>3. Fresh /\ Listed(maxOffset) /\ Held(maxOffset) /\ Len(mine) <= maxOffset
    BY <1>1, <1>2 DEF CaptureInv, BaseInv, Below
  <1>4. Captured(i) = currentTxFrameOffsets /\ i \in DOMAIN currentTxFrameOffsets
    <2>1. i \in (Len(pub) + 1)..maxOffset
      BY <1>2, <1>3, SMTT(60) DEF BaseInv, CaptureType
    <2> QED
      BY <1>3, <2>1 DEF Captured, Disproves, Fresh, Held
  <1>5. /\ currentTxFrameOffsets' = [currentTxFrameOffsets EXCEPT ![i].val = val]
        /\ UNCHANGED <<currentTxFrames, currentTxCommitted, maxOffset, pendingRewrite>>
    BY <1>1, <1>4 DEF WriteFrameData, OverwriteFrame
  <1>6. /\ DOMAIN currentTxFrameOffsets' = DOMAIN currentTxFrameOffsets
        /\ currentTxFrameOffsets'[i].hdr = currentTxFrameOffsets[i].hdr
        /\ currentTxFrameOffsets'[i].val = val
        /\ \A j \in DOMAIN currentTxFrameOffsets : j # i =>
             currentTxFrameOffsets'[j] = currentTxFrameOffsets[j]
    BY <1>4, <1>5 DEF BaseInv, CaptureType, FrameType
  <1>7. Tally'
    BY <1>5, <1>6, SMTT(60) DEF CaptureInv, Tally
  <1>8. CASE pc' = "open" /\ mine' = [mine EXCEPT ![i].val = val]
    <2>1. /\ Len(mine') = Len(mine)
          /\ mine'[i] = [pg |-> mine[i].pg, commit |-> mine[i].commit, val |-> val]
          /\ \A j \in 1..Len(mine) : j # i => mine'[j] = mine[j]
      BY <1>2, <1>8, Changed, SMTT(60) DEF BaseInv, SqliteType
    <2>2. Fresh' /\ Listed(maxOffset)'
      BY <1>1, <1>3, <1>5 DEF Fresh, Listed
    <2>3. Held(maxOffset)'
      <3> SUFFICES ASSUME NEW j \in (Len(pub) + 1)..Len(mine)
                   PROVE  LET f == currentTxFrameOffsets'[j]
                          IN  [pg |-> f.hdr.pg, commit |-> f.hdr.commit, val |-> f.val] = mine'[j]
        BY <1>1, <1>3, <1>5, <1>6, <2>1 DEF Held
      <3>1. j \in DOMAIN currentTxFrameOffsets /\ j \in 1..Len(mine)
        BY <1>2, <1>3, SMTT(60) DEF Held, BaseInv, CaptureType
      <3>2. LET f == currentTxFrameOffsets[j]
            IN  [pg |-> f.hdr.pg, commit |-> f.hdr.commit, val |-> f.val] = mine[j]
        BY <1>3 DEF Held
      <3>3. CASE j = i
        <4>1. PICK h : h = currentTxFrameOffsets[i].hdr
          OBVIOUS
        <4>2. PICK v : v = currentTxFrameOffsets[i].val
          OBVIOUS
        <4>3. mine[i] = [pg |-> h.pg, commit |-> h.commit, val |-> v]
          BY <3>2, <3>3, <4>1, <4>2
        <4>4. mine[i].pg = h.pg /\ mine[i].commit = h.commit
          BY <4>3, SMTT(60)
        <4> QED
          BY <1>6, <2>1, <3>3, <4>1, <4>4
      <3>4. CASE j # i
        BY <1>6, <2>1, <3>1, <3>2, <3>4
      <3> QED
        BY <3>3, <3>4
    <2> QED
      BY <1>7, <1>8, <2>2, <2>3 DEF CaptureInv
  <1> QED
    BY <1>1, <1>7, <1>8, CaptureEnds

LEMMA CaptureGateCommits ==
  ASSUME BaseInv, CaptureInv, NEW done \in {"both", "header", "nothing"}, GateCommits(done)
  PROVE  CaptureInv'
PROOF
  <1> PICK off : off = NextOff
    OBVIOUS
  <1>1. /\ pc = "gate" /\ currentTxFrames' = <<>> /\ currentTxCommitted' = TRUE
        /\ pc' \in {"publish", "panic"} /\ mine' = Append(mine, next)
        /\ UNCHANGED <<pub, currentTxFrameOffsets>>
    BY DEF GateCommits
  <1>2. Tally'
    BY <1>1 DEF Tally
  <1>3. /\ Len(pub) \in Nat /\ Len(mine) \in Nat /\ off = Len(mine) + 1 /\ next \in Content
        /\ Len(mine') = off /\ mine'[off] = next
        /\ \A i \in 1..Len(mine) : mine'[i] = mine[i]
    BY <1>1, SMTT(60) DEF BaseInv, SqliteType, NextOff
  <1>4. Held(off)
    BY <1>1 DEF CaptureInv
  <1>5. LET f == currentTxFrameOffsets[off]
        IN  [pg |-> f.hdr.pg, commit |-> f.hdr.commit, val |-> f.val] = next
    <2>1. currentTxFrameOffsets[off] = [hdr |-> NextHeader, val |-> next.val]
      BY <1>1 DEF BaseInv, Withheld
    <2> QED
      BY <1>3, <2>1, ContentParts, SMTT(60) DEF NextHeader, Header
  <1>6. Held(Len(mine))'
    <2> SUFFICES ASSUME NEW i \in (Len(pub) + 1)..off
                 PROVE  LET f == currentTxFrameOffsets[i]
                        IN  [pg |-> f.hdr.pg, commit |-> f.hdr.commit, val |-> f.val] = mine'[i]
      BY <1>1, <1>3, <1>4 DEF Held
    <2>1. CASE i = off
      BY <1>3, <1>5, <2>1
    <2>2. CASE i # off
      <3>1. i \in (Len(pub) + 1)..Len(mine) /\ i \in 1..Len(mine)
        BY <1>3, <2>2, SMTT(60)
      <3> QED
        BY <1>3, <1>4, <3>1 DEF Held
    <2> QED
      BY <2>1, <2>2
  <1> QED
    BY <1>1, <1>2, <1>6 DEF CaptureInv

LEMMA CaptureRewriteChecksum ==
  ASSUME BaseInv, CaptureInv, Clean, Clean', NEW ok \in BOOLEAN, RewriteChecksum(ok)
  PROVE  /\ CaptureInv'
         /\ ok /\ recksum \in DOMAIN currentTxFrameOffsets
         /\ \A h : h.pg = mine[recksum].pg => LooksRewritten(recksum, h)
PROOF
  <1> PICK off : off = recksum
    OBVIOUS
  <1> DEFINE before == IF off = 1 THEN <<>> ELSE file[off - 1].hdr.sum.over
             h == Header(ContentAt(off), Sum(Append(before, ContentAt(off))))
  <1>1. /\ pc = "publish" /\ off # 0 /\ WriteFrameHeader(off, h, ok) /\ UNCHANGED pub
        /\ IF ok THEN UNCHANGED <<pc, next, mine>>
           ELSE anomaly' = IF anomaly = "none" THEN "unpublished" ELSE anomaly
    BY DEF RewriteChecksum
  <1>2. ok /\ UNCHANGED <<pc, next, mine>>
    BY <1>1 DEF Clean
  <1>3. /\ off \in Slot /\ off \in (Len(pub) + 1)..Len(mine)
        /\ ContentAt(off) = mine[off] /\ mine[off] \in Content
    BY <1>1, RewrittenHeader
  <1>4. currentTxCommitted /\ Held(Len(mine))
    BY <1>1 DEF CaptureInv
  <1>5. /\ off \in DOMAIN currentTxFrameOffsets
        /\ currentTxFrameOffsets[off].hdr.pg = mine[off].pg
        /\ currentTxFrameOffsets[off].hdr.commit = mine[off].commit
    <2>1. LET f == currentTxFrameOffsets[off]
          IN  [pg |-> f.hdr.pg, commit |-> f.hdr.commit, val |-> f.val] = mine[off]
      BY <1>3, <1>4 DEF Held
    <2>2. off \in DOMAIN currentTxFrameOffsets
      BY <1>3, <1>4 DEF Held
    <2> QED
      BY <2>1, <2>2, SMTT(60)
  <1>6. \A g : g.pg = mine[off].pg => LooksRewritten(off, g)
    BY <1>4, <1>5 DEF LooksRewritten
  <1>7. h.pg = mine[off].pg /\ h.commit = mine[off].commit
    BY <1>3 DEF Header
  <1> HIDE DEF h
  <1>8. /\ currentTxFrameOffsets' = [currentTxFrameOffsets EXCEPT ![off].hdr = h]
        /\ UNCHANGED <<currentTxFrames, currentTxCommitted>>
    BY <1>1, <1>6, <1>7 DEF WriteFrameHeader
  <1>9. /\ DOMAIN currentTxFrameOffsets' = DOMAIN currentTxFrameOffsets
        /\ currentTxFrameOffsets'[off].hdr = h
        /\ currentTxFrameOffsets'[off].val = currentTxFrameOffsets[off].val
        /\ \A j \in DOMAIN currentTxFrameOffsets : j # off =>
             currentTxFrameOffsets'[j] = currentTxFrameOffsets[j]
    BY <1>5, <1>8 DEF BaseInv, CaptureType, FrameType
  <1>10. Held(Len(mine))'
    <2> SUFFICES ASSUME NEW j \in (Len(pub) + 1)..Len(mine)
                 PROVE  LET f == currentTxFrameOffsets'[j]
                        IN  [pg |-> f.hdr.pg, commit |-> f.hdr.commit, val |-> f.val] = mine[j]
      BY <1>1, <1>2, <1>4, <1>9 DEF Held
    <2>1. j \in DOMAIN currentTxFrameOffsets
      BY <1>4 DEF Held
    <2>2. LET f == currentTxFrameOffsets[j]
          IN  [pg |-> f.hdr.pg, commit |-> f.hdr.commit, val |-> f.val] = mine[j]
      BY <1>4 DEF Held
    <2> QED
      BY <1>5, <1>7, <1>9, <2>1, <2>2, SMTT(60)
  <1>11. Tally'
    BY <1>8, <1>9, SMTT(60) DEF CaptureInv, Tally
  <1>12. CaptureInv'
    BY <1>1, <1>2, <1>4, <1>8, <1>10, <1>11 DEF CaptureInv
  <1> QED
    BY <1>2, <1>5, <1>6, <1>12

LEMMA CaptureSavepoint ==
  ASSUME BaseInv, CaptureInv, NEW k \in 0..Slots, SavepointUndo(k)
  PROVE  CaptureInv'
PROOF
  <1>1. /\ pc = "open" /\ pc' = "open" /\ k \in Len(pub)..(Len(mine) - 1)
        /\ mine' = SubSeq(mine, 1, k)
        /\ UNCHANGED <<pub, captureVars>>
    BY DEF SavepointUndo
  <1>2. /\ Len(pub) \in Nat /\ Len(mine) \in Nat /\ Len(mine') = k
        /\ \A i \in 1..k : mine'[i] = mine[i]
    BY <1>1, SMTT(60) DEF BaseInv, SqliteType
  <1>3. Fresh /\ Listed(maxOffset) /\ Held(maxOffset)
    BY <1>1, <1>2, SMTT(60) DEF CaptureInv
  <1>4. Fresh' /\ Listed(maxOffset)'
    BY <1>1, <1>3 DEF Fresh, Listed, captureVars
  <1>5. Held(maxOffset)'
    <2>1. \A i \in (Len(pub) + 1)..k : i \in (Len(pub) + 1)..Len(mine) /\ i \in 1..k
      BY <1>1, <1>2, SMTT(60)
    <2> QED
      BY <1>1, <1>2, <1>3, <2>1 DEF Held, captureVars
  <1>6. Tally'
    BY <1>1, TallyStays DEF CaptureInv, captureVars
  <1> QED
    BY <1>1, <1>4, <1>5, <1>6 DEF CaptureInv

\* A step never forgets an anomaly.
LEMMA StaysClean ==
  ASSUME Next, Clean'
  PROVE  Clean
PROOF
  BY DEF Next, Clean, history, Begin, Rollback, WriteHeader, Record, WriteData, Overwrite,
         GateCommits, GateRejects, RewriteChecksum, Publish, SavepointUndo, OtherCommits,
         Restart, Crash

LEMMA CaptureNext ==
  ASSUME BaseInv, CaptureInv, Next, Clean'
  PROVE  CaptureInv'
PROOF
  <1>1. CASE Begin
    <2>1. Tally'
      BY <1>1, TallyStays DEF Begin, CaptureInv, captureVars
    <2>2. pc' = "open" /\ mine' = pub /\ pub' = pub
      BY <1>1 DEF Begin
    <2>3. ~(Len(mine') > Len(pub'))
      BY <2>2, SMTT(60) DEF BaseInv, SqliteType
    <2> QED
      BY <2>1, <2>2, <2>3 DEF CaptureInv
  <1>2. CASE Rollback \/ Publish
    <2>1. Tally' /\ pc' = "idle"
      BY <1>2, TallyStays DEF Rollback, Publish, EndTx, CaptureInv, captureVars
    <2> QED
      BY <2>1, CaptureEnds
  <1>3. CASE GateRejects \/ Crash
    <2>1. Tally' /\ pc' = "idle"
      BY <1>3, TallyReset DEF GateRejects, Crash, EndTx
    <2> QED
      BY <2>1, CaptureEnds
  <1>4. CASE Restart \/ \E c \in Content : OtherCommits(c)
    <2>1. Tally' /\ pc' = "idle"
      BY <1>4, TallyStays DEF Restart, OtherCommits, CaptureInv, captureVars
    <2> QED
      BY <2>1, CaptureEnds
  <1> QED
    BY <1>1, <1>2, <1>3, <1>4, StaysClean, CaptureWriteHeader, CaptureWriteData,
       CaptureOverwrite, CaptureGateCommits, CaptureRewriteChecksum, CaptureSavepoint DEF Next

=============================================================================
