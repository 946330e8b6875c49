--------------------------- MODULE GatedWALProofs ---------------------------
(***************************************************************************)
(* gatedWALFile proposes the transaction that SQLite commits, and the file *)
(* never holds a commit frame that recovery accepts before the gate has    *)
(* released it.                                                            *)
(***************************************************************************)
EXTENDS CaptureProofs

\* Steps that name no prover are left to Zenon.
USE ZenonT(60)

-----------------------------------------------------------------------------
\* SumInv: the checksums of the open transaction

LEMMA Prefixes ==
  ASSUME NEW s \in Seq(Content), NEW c \in Content
  PROVE  /\ Prefix(Append(s, c), Len(s) + 1) = Append(s, c)
         /\ \A i \in 1..Len(s) : Prefix(Append(s, c), i) = Prefix(s, i)
         /\ Prefix(s, Len(s)) = s
         /\ \A i \in 1..Len(s) : (IF i = 1 THEN <<>> ELSE Prefix(s, i - 1)) \in Seq(Content)
         /\ \A i \in 1..Len(s) : Append(IF i = 1 THEN <<>> ELSE Prefix(s, i - 1), s[i]) = Prefix(s, i)
PROOF
  <1>1. Prefix(Append(s, c), Len(s) + 1) = Append(s, c)
    <2>1. Append(s, c) \in Seq(Content) /\ Len(Append(s, c)) = Len(s) + 1
      BY SMTT(60)
    <2>2. \A t \in Seq(Content) : Prefix(t, Len(t)) = t
      BY SMTT(60) DEF Prefix
    <2> QED
      BY <2>1, <2>2
  <1>2. \A i \in 1..Len(s) : Prefix(Append(s, c), i) = Prefix(s, i)
    BY SMTT(60) DEF Prefix
  <1>3. Prefix(s, Len(s)) = s
    BY SMTT(60) DEF Prefix
  <1>4. ASSUME NEW i \in 1..Len(s)
        PROVE  /\ (IF i = 1 THEN <<>> ELSE Prefix(s, i - 1)) \in Seq(Content)
               /\ Append(IF i = 1 THEN <<>> ELSE Prefix(s, i - 1), s[i]) = Prefix(s, i)
    <2> DEFINE b == IF i = 1 THEN <<>> ELSE Prefix(s, i - 1)
    <2>1. b = [j \in 1..(i - 1) |-> s[j]]
      BY SMTT(60) DEF Prefix
    <2>2. \A j \in 1..(i - 1) : s[j] \in Content
      BY SMTT(60)
    <2>3. b \in Seq(Content) /\ Len(b) = i - 1
      BY <2>1, <2>2, SMTT(60)
    <2>4. Append(b, s[i]) \in Seq(Content) /\ Len(Append(b, s[i])) = i
      BY <2>3, SMTT(60)
    <2>5. \A j \in 1..i : Append(b, s[i])[j] = s[j]
      BY <2>1, <2>3, SMTT(60)
    <2>6. Append(b, s[i]) = [j \in 1..i |-> s[j]]
      BY <2>4, <2>5, SMTT(60)
    <2> QED
      BY <2>3, <2>6 DEF Prefix
  <1> QED
    BY <1>1, <1>2, <1>3, <1>4

\* A transaction that has begun, or is waiting, has no commit frame yet.
LEMMA SumStays ==
  ASSUME BaseInv, SumInv, pc \in {"open", "data", "gate"}, pc' \in {"open", "data", "gate"},
         UNCHANGED <<epoch, pub, mine, recksum>>,
         \A i \in 1..Len(mine) : file'[i] = file[i]
  PROVE  SumInv'
PROOF
  <1>1. \A i \in (Len(pub) + 1)..Len(mine) : i \in 1..Len(mine)
    BY SMTT(60) DEF BaseInv, SqliteType
  <1> QED
    BY <1>1 DEF SumInv, Active, Sum

LEMMA SumWriteData ==
  ASSUME BaseInv, SumInv, NEW ok \in BOOLEAN, WriteData(ok)
  PROVE  SumInv'
PROOF
  <1> PICK off : off = NextOff
    OBVIOUS
  <1>1. /\ off \in Slot
        /\ DataResult(off, ok) = IF next.commit THEN "gate" ELSE IF ok THEN "ok" ELSE "error"
    BY DataCaptures
  <1>2. /\ pc = "data" /\ WriteFrameData(off, next.val, ok) /\ UNCHANGED <<epoch, pub>>
        /\ DataResult(off, ok) = "error" => pc' = "idle"
        /\ DataResult(off, ok) = "gate" => pc' = "gate" /\ UNCHANGED <<next, mine, recksum>>
        /\ DataResult(off, ok) = "ok" => /\ pc' = IF next.commit THEN "publish" ELSE "open"
                                         /\ mine' = Append(mine, next) /\ UNCHANGED recksum
    BY DEF WriteData, NextOff, EndTx
  <1>3. /\ Len(pub) \in Nat /\ Len(mine) \in Nat /\ Len(pub) <= Len(mine)
        /\ off = Len(mine) + 1 /\ next \in Content /\ next.val \in Val
        /\ mine \in Seq(Content) /\ Len(mine) < Slots /\ recksum \in 0..Len(mine)
    BY <1>2, MineIsPub DEF Active, NextOff, BaseInv, SqliteType, Content
  <1>4. /\ \A i \in Slot \ {off} : file'[i] = file[i]
        /\ file'[off].hdr = file[off].hdr
    BY <1>1, <1>2, <1>3, DataCallFile, SMTT(60) DEF BaseInv
  <1>5. \A i \in 1..Len(mine) : i \in Slot \ {off}
    BY <1>3, BoundsAssumption, SMTT(60) DEF Slot
  <1>6. CASE next.commit
    BY <1>1, <1>2, <1>4, <1>5, <1>6, SumStays
  <1>7. CASE ~next.commit /\ ok
    <2>1. pc' = "open" /\ mine' = Append(mine, next) /\ UNCHANGED recksum
      BY <1>1, <1>2, <1>7
    <2>2. /\ Len(mine') = off /\ mine'[off] = next
          /\ \A i \in 1..Len(mine) : mine'[i] = mine[i]
      BY <1>3, <2>1, SMTT(60)
    <2>3. /\ Prefix(mine', off) = Append(mine, next)
          /\ \A i \in 1..Len(mine) : Prefix(mine', i) = Prefix(mine, i)
      BY <1>3, <2>1, Prefixes, SMTT(60)
    <2>4. file[off].hdr = NextHeader
      BY <1>2, <1>7 DEF BaseInv, Staged
    <2>5. ASSUME NEW i \in (Len(pub) + 1)..off
          PROVE  /\ recksum = 0 \/ i < recksum => file'[i].hdr.sum = Sum(Prefix(mine', i))
                 /\ ~mine'[i].commit
      <3>1. CASE i = off
        <4>1. recksum = 0 => file'[off].hdr.sum = Sum(Append(mine, next))
          BY <1>4, <2>4, SMTT(60) DEF NextHeader, Header
        <4>2. ~(off < recksum)
          BY <1>3, SMTT(60)
        <4>3. ~mine'[off].commit
          BY <1>7, <2>2
        <4> QED
          BY <2>3, <3>1, <4>1, <4>2, <4>3
      <3>2. CASE i # off
        <4>1. i \in (Len(pub) + 1)..Len(mine) /\ i \in 1..Len(mine) /\ i \in Slot \ {off}
          BY <1>3, <1>5, <3>2, SMTT(60)
        <4> QED
          BY <1>2, <1>4, <2>2, <2>3, <4>1 DEF SumInv, Active
      <3> QED
        BY <3>1, <3>2
    <2> QED
      BY <1>2, <2>1, <2>2, <2>5 DEF SumInv, Sum
  <1>8. CASE ~next.commit /\ ~ok
    BY <1>1, <1>2, <1>8 DEF SumInv, Active
  <1> QED
    BY <1>6, <1>7, <1>8

LEMMA SumOverwrite ==
  ASSUME BaseInv, SumInv, NEW i \in Slot, NEW val \in Val, NEW ok \in BOOLEAN,
         Overwrite(i, val, ok)
  PROVE  SumInv'
PROOF
  <1>1. /\ pc = "open" /\ InTx(i) /\ WriteFrameData(i, val, ok) /\ UNCHANGED <<epoch, pub>>
        /\ \/ /\ pc' = "open" /\ mine' = [mine EXCEPT ![i].val = val]
              /\ recksum' = IF recksum = 0 \/ i < recksum THEN i ELSE recksum
           \/ pc' = "idle"
    BY DEF Overwrite, EndTx
  <1>2. /\ Len(pub) \in Nat /\ Len(mine) \in Nat /\ Len(mine) <= Slots
        /\ i \in 1..Len(mine) /\ mine \in Seq(Content) /\ recksum \in 0..Len(mine)
    BY <1>1, BoundsAssumption, SMTT(60) DEF BaseInv, SqliteType, InTx, Slot
  <1>3. CASE pc' = "idle"
    BY <1>3 DEF SumInv, Active
  <1>4. CASE /\ pc' = "open" /\ mine' = [mine EXCEPT ![i].val = val]
             /\ recksum' = IF recksum = 0 \/ i < recksum THEN i ELSE recksum
    <2>1. /\ Len(mine') = Len(mine)
          /\ mine'[i].commit = mine[i].commit
          /\ \A j \in 1..Len(mine) : j # i => mine'[j] = mine[j]
      BY <1>2, <1>4, Changed, SMTT(60)
    <2>2. \A j \in Slot \ {i} : file'[j] = file[j]
      BY <1>1, DataCallFile, SMTT(60) DEF BaseInv
    <2>3. ASSUME NEW j \in (Len(pub) + 1)..Len(mine)
          PROVE  /\ recksum' = 0 \/ j < recksum' => file'[j].hdr.sum = Sum(Prefix(mine', j))
                 /\ ~mine'[j].commit
      <3>1. j \in 1..Len(mine) /\ j \in Slot
        BY <1>2, BoundsAssumption, SMTT(60) DEF Slot
      <3>2. ~mine'[j].commit
        BY <1>1, <2>1, <3>1 DEF SumInv, Active
      <3>3. ASSUME recksum' = 0 \/ j < recksum'
            PROVE  file'[j].hdr.sum = Sum(Prefix(mine', j))
        <4>1. j < i /\ (recksum = 0 \/ j < recksum)
          BY <1>2, <1>4, <3>1, <3>3, SMTT(60)
        <4>2. file'[j] = file[j] /\ file[j].hdr.sum = Sum(Prefix(mine, j))
          BY <1>1, <1>2, <2>2, <3>1, <4>1, SMTT(60) DEF SumInv, Active
        <4>3. Prefix(mine', j) = Prefix(mine, j)
          BY <1>2, <2>1, <3>1, <4>1, SMTT(60) DEF Prefix
        <4> QED
          BY <4>2, <4>3
      <3> QED
        BY <3>2, <3>3
    <2> QED
      BY <1>1, <1>4, <2>1, <2>3 DEF SumInv, Sum
  <1> QED
    BY <1>1, <1>3, <1>4

LEMMA SumGateCommits ==
  ASSUME BaseInv, SumInv, NEW done \in {"both", "header", "nothing"}, GateCommits(done)
  PROVE  SumInv'
PROOF
  <1> PICK off : off = NextOff
    OBVIOUS
  <1>1. /\ pc = "gate" /\ mine' = Append(mine, next) /\ released' = TRUE
        /\ UNCHANGED <<epoch, pub, recksum>>
        /\ done = "both" => /\ pc' = "publish"
                            /\ file' = [file EXCEPT ![off] = currentTxFrameOffsets[off]]
        /\ done # "both" => pc' = "panic"
    BY DEF GateCommits, NextOff
  <1>2. CASE done # "both"
    BY <1>1, <1>2 DEF SumInv, Active
  <1>3. CASE done = "both"
    <2>1. /\ Len(pub) \in Nat /\ Len(mine) \in Nat /\ Len(pub) <= Len(mine)
          /\ off = Len(mine) + 1 /\ off \in Slot /\ next \in Content
          /\ mine \in Seq(Content) /\ recksum \in 0..Len(mine)
      BY <1>1, MineIsPub, BoundsAssumption, SMTT(60) DEF Active, NextOff, BaseInv, SqliteType, Slot
    <2>2. currentTxFrameOffsets[off].hdr = NextHeader /\ next.commit
      BY <1>1, SMTT(60) DEF BaseInv, Withheld
    <2>3. /\ file'[off].hdr = NextHeader
          /\ \A i \in Slot \ {off} : file'[i] = file[i]
      BY <1>1, <1>3, <2>1, <2>2 DEF BaseInv, FileType
    <2>4. /\ Len(mine') = off /\ mine'[off] = next
          /\ \A i \in 1..Len(mine) : mine'[i] = mine[i]
      BY <1>1, <2>1, SMTT(60)
    <2>5. /\ Prefix(mine', off) = Append(mine, next)
          /\ \A i \in 1..Len(mine) : Prefix(mine', i) = Prefix(mine, i)
      BY <1>1, <2>1, Prefixes, SMTT(60)
    <2>6. /\ recksum = 0 => file'[off].hdr.sum = Sum(Append(mine, next))
          /\ recksum # 0 => file'[off].hdr.sum = NoSum
      BY <2>3, SMTT(60) DEF NextHeader, Header
    <2>7. ASSUME NEW i \in (Len(pub) + 1)..off
          PROVE  /\ recksum = 0 \/ i < recksum => file'[i].hdr.sum = Sum(Prefix(mine', i))
                 /\ mine'[i].commit <=> i = off
      <3>1. CASE i = off
        <4>1. ~(off < recksum)
          BY <2>1, SMTT(60)
        <4> QED
          BY <2>2, <2>4, <2>5, <2>6, <3>1, <4>1
      <3>2. CASE i # off
        <4>1. i \in (Len(pub) + 1)..Len(mine) /\ i \in 1..Len(mine) /\ i \in Slot \ {off}
          BY <2>1, <3>2, BoundsAssumption, SMTT(60) DEF Slot
        <4> QED
          BY <1>1, <2>3, <2>4, <2>5, <3>2, <4>1 DEF SumInv, Active
      <3> QED
        BY <3>1, <3>2
    <2>8. off > Len(pub)
      BY <2>1, SMTT(60)
    <2>9. NoSum' = NoSum
      BY DEF NoSum
    <2> QED
      BY <1>1, <1>3, <2>4, <2>6, <2>7, <2>8, <2>9, SMTT(60) DEF SumInv, Sum
  <1> QED
    BY <1>2, <1>3

\* walRewriteChecksums restores the checksums from the first stale one on, in order:
\* each covers what the frame before it covers, and its own contents.
LEMMA RewrittenSum ==
  ASSUME BaseInv, DiskInv, SumInv, pc = "publish", recksum # 0
  PROVE  LET before == IF recksum = 1 THEN <<>> ELSE file[recksum - 1].hdr.sum.over
         IN  Append(before, ContentAt(recksum)) = Prefix(mine, recksum)
PROOF
  <1> PICK off : off = recksum
    OBVIOUS
  <1>1. /\ off \in (Len(pub) + 1)..Len(mine)
        /\ ContentAt(off) = mine[off] /\ mine[off] \in Content
    BY RewrittenHeader
  <1>2. /\ Len(pub) \in Nat /\ Len(mine) \in Nat /\ mine \in Seq(Content)
        /\ off \in 1..Len(mine)
    BY <1>1, SMTT(60) DEF BaseInv, SqliteType
  <1>3. ASSUME off # 1
        PROVE  file[off - 1].hdr.sum.over = Prefix(mine, off - 1)
    <2>1. CASE off - 1 > Len(pub)
      <3>1. off - 1 \in (Len(pub) + 1)..Len(mine) /\ off - 1 < recksum
        BY <1>2, <2>1, SMTT(60)
      <3>2. file[off - 1].hdr.sum = Sum(Prefix(mine, off - 1))
        BY <3>1 DEF SumInv, Active
      <3> QED
        BY <3>2, SMTT(60) DEF Sum
    <2>2. CASE ~(off - 1 > Len(pub))
      <3>1. off - 1 \in 1..Len(pub)
        BY <1>1, <1>2, <1>3, <2>2, SMTT(60)
      <3>2. file[off - 1].hdr.sum = Sum(Prefix(pub, off - 1))
        BY <3>1 DEF DiskInv, LogInFile
      <3>3. \A j \in 1..(off - 1) : mine[j] = pub[j]
        BY <1>2, <3>1, SMTT(60) DEF BaseInv, OwnFrames, Active
      <3>4. Prefix(pub, off - 1) = Prefix(mine, off - 1)
        BY <3>3 DEF Prefix
      <3> QED
        BY <3>2, <3>4, SMTT(60) DEF Sum
    <2> QED
      BY <2>1, <2>2
  <1>4. Append(IF off = 1 THEN <<>> ELSE Prefix(mine, off - 1), mine[off]) = Prefix(mine, off)
    BY <1>1, <1>2, Prefixes, SMTT(60)
  <1> QED
    BY <1>1, <1>3, <1>4

LEMMA SumRewriteChecksum ==
  ASSUME BaseInv, DiskInv, SumInv, CaptureInv, Clean, Clean', NEW ok \in BOOLEAN,
         RewriteChecksum(ok)
  PROVE  /\ SumInv'
         /\ file'[recksum].hdr.commit = mine[recksum].commit
         /\ recksum \in (Len(pub) + 1)..Len(mine) /\ recksum \in Slot
         /\ \A i \in Slot \ {recksum} : file'[i] = file[i]
         /\ file'[recksum].val = file[recksum].val
         /\ file'[recksum].hdr.sum = Sum(Prefix(mine, recksum))
         /\ recksum' = IF recksum = Len(mine) THEN 0 ELSE recksum + 1
         /\ UNCHANGED <<pc, mine, pub, epoch, released>>
PROOF
  <1> PICK off : off = recksum
    OBVIOUS
  <1> DEFINE before == IF off = 1 THEN <<>> ELSE file[off - 1].hdr.sum.over
             h == Header(ContentAt(off), Sum(Append(before, ContentAt(off))))
  <1>1. /\ pc = "publish" /\ off # 0 /\ WriteFrameHeader(off, h, ok)
        /\ UNCHANGED <<pub, epoch, released>>
        /\ ok => /\ recksum' = IF off = Len(mine) THEN 0 ELSE off + 1
                 /\ UNCHANGED <<pc, mine>>
    BY DEF RewriteChecksum
  <1>2. ok /\ \A g : g.pg = mine[off].pg => LooksRewritten(off, g)
    BY CaptureRewriteChecksum
  <1>3. /\ off \in Slot /\ off \in (Len(pub) + 1)..Len(mine)
        /\ ContentAt(off) = mine[off] /\ mine[off] \in Content /\ h \in FrameHeader
    BY <1>1, RewrittenHeader
  <1>4. Append(before, ContentAt(off)) = Prefix(mine, off)
    BY <1>1, RewrittenSum
  <1>5. h.pg = mine[off].pg /\ h.commit = mine[off].commit /\ h.sum = Sum(Prefix(mine, off))
    BY <1>3, <1>4 DEF Header
  <1> HIDE DEF h
  <1>6. /\ \A i \in Slot \ {off} : file'[i] = file[i]
        /\ file'[off].val = file[off].val /\ file'[off].hdr = h
    BY <1>1, <1>2, <1>3, <1>5, HeaderCallFile DEF BaseInv
  <1>7. /\ Len(pub) \in Nat /\ Len(mine) \in Nat /\ Len(mine) <= Slots
    BY SMTT(60) DEF BaseInv, SqliteType
  <1>8. ASSUME NEW i \in (Len(pub) + 1)..Len(mine), recksum' = 0 \/ i < recksum'
        PROVE  file'[i].hdr.sum = Sum(Prefix(mine, i))
    <2>1. CASE i = off
      BY <1>5, <1>6, <2>1
    <2>2. CASE i # off
      <3>1. i \in Slot \ {off} /\ i < recksum
        BY <1>1, <1>2, <1>3, <1>7, <1>8, <2>2, BoundsAssumption, SMTT(60) DEF Slot
      <3> QED
        BY <1>1, <1>6, <3>1 DEF SumInv, Active
    <2> QED
      BY <2>1, <2>2
  <1>9. recksum' # 0 => Len(mine) \in Slot \ {off} /\ recksum # 0
    BY <1>1, <1>2, <1>3, <1>7, BoundsAssumption, SMTT(60) DEF Slot
  <1>10. NoSum' = NoSum
    BY DEF NoSum
  <1>11. SumInv'
    BY <1>1, <1>2, <1>6, <1>8, <1>9, <1>10, SMTT(60) DEF SumInv, Sum, Active
  <1> QED
    BY <1>1, <1>2, <1>3, <1>5, <1>6, <1>11

LEMMA SumWriteHeader ==
  ASSUME BaseInv, SumInv, NEW c \in Content, NEW ok \in BOOLEAN, WriteHeader(c, ok)
  PROVE  SumInv'
PROOF
  <1> PICK off : off = NextOff
    OBVIOUS
  <1> DEFINE h == Header(c, IF recksum = 0 THEN Sum(Append(mine, c)) ELSE NoSum)
  <1>1. /\ pc = "open" /\ off \in Slot /\ WriteFrameHeader(off, h, ok)
        /\ UNCHANGED <<epoch, pub>>
        /\ \/ pc' = "data" /\ UNCHANGED <<mine, recksum>>
           \/ pc' = "idle"
    BY DEF WriteHeader, NextOff, EndTx
  <1>2. h \in FrameHeader
    BY HeaderTypes DEF BaseInv, SqliteType
  <1> HIDE DEF h
  <1>3. \A i \in Slot \ {off} : file'[i] = file[i]
    BY <1>1, <1>2, HeaderCallFile, SMTT(60) DEF BaseInv
  <1>4. \A i \in 1..Len(mine) : i \in Slot \ {off}
    BY BoundsAssumption, SMTT(60) DEF BaseInv, SqliteType, NextOff, Slot
  <1>5. CASE pc' = "data" /\ UNCHANGED <<mine, recksum>>
    BY <1>1, <1>3, <1>4, <1>5, SumStays
  <1>6. CASE pc' = "idle"
    BY <1>6 DEF SumInv, Active
  <1> QED
    BY <1>1, <1>5, <1>6

LEMMA SumSavepoint ==
  ASSUME BaseInv, SumInv, NEW k \in 0..Slots, SavepointUndo(k)
  PROVE  SumInv'
PROOF
  <1>1. /\ pc = "open" /\ k \in Len(pub)..(Len(mine) - 1) /\ mine' = SubSeq(mine, 1, k)
        /\ recksum' = IF recksum > k THEN 0 ELSE recksum
        /\ UNCHANGED <<epoch, pub, pc, file>>
    BY DEF SavepointUndo
  <1>2. /\ Len(pub) \in Nat /\ Len(mine) \in Nat /\ mine \in Seq(Content)
        /\ recksum \in 0..Len(mine)
    BY SMTT(60) DEF BaseInv, SqliteType
  <1>3. Len(mine') = k /\ \A i \in 1..k : mine'[i] = mine[i]
    BY <1>1, <1>2, SMTT(60)
  <1>4. ASSUME NEW i \in (Len(pub) + 1)..k
        PROVE  /\ recksum' = 0 \/ i < recksum' => file[i].hdr.sum = Sum(Prefix(mine', i))
               /\ ~mine'[i].commit
    <2>1. i \in (Len(pub) + 1)..Len(mine) /\ i \in 1..k
      BY <1>1, <1>2, SMTT(60)
    <2>2. recksum' = 0 \/ i < recksum' => recksum = 0 \/ i < recksum
      BY <1>1, <1>2, <2>1, SMTT(60)
    <2>3. Prefix(mine', i) = Prefix(mine, i)
      BY <1>2, <1>3, <2>1, SMTT(60) DEF Prefix
    <2> QED
      BY <1>1, <1>3, <2>1, <2>2, <2>3 DEF SumInv, Active
  <1> QED
    BY <1>1, <1>3, <1>4 DEF SumInv, Sum

LEMMA SumNext ==
  ASSUME BaseInv, DiskInv, SumInv, CaptureInv, Next, Clean'
  PROVE  SumInv'
PROOF
  <1>1. CASE Begin
    <2>1. pc' = "open" /\ mine' = pub /\ pub' = pub
      BY <1>1 DEF Begin
    <2>2. (Len(pub') + 1)..Len(mine') = {}
      BY <2>1, SMTT(60) DEF BaseInv, SqliteType
    <2> QED
      BY <2>1, <2>2 DEF SumInv
  <1>2. CASE \/ Rollback \/ Publish \/ GateRejects \/ Crash \/ Restart
             \/ \E c \in Content : OtherCommits(c)
    <2>1. pc' = "idle"
      BY <1>2 DEF Rollback, Publish, GateRejects, Crash, Restart, OtherCommits, EndTx
    <2> QED
      BY <2>1 DEF SumInv, Active
  <1> QED
    BY <1>1, <1>2, StaysClean, SumWriteHeader, SumWriteData, SumOverwrite, SumGateCommits,
       SumRewriteChecksum, SumSavepoint DEF Next

-----------------------------------------------------------------------------
\* DiskInv: what recovery would find

\* The log that is in the file is what recovery finds, if it rejects what follows.
LEMMA RecoveredIs ==
  ASSUME FileType, NEW s \in Seq(Content), Len(s) <= Slots, LogInFile(s), Complete(s),
         \A j \in Slot : j > Len(s) => Rejected(j)
  PROVE  Recovered = s
PROOF
  <1> DEFINE ends == {i \in Slot : Intact(i) /\ file[i].hdr.commit}
  <1>1. ASSUME NEW j \in Slot, j > Len(s)
        PROVE  j \notin ends
    <2> SUFFICES ASSUME Intact(j), file[j].hdr.commit
                 PROVE  FALSE
      OBVIOUS
    <2>1. j \in 1..j /\ j \in Nat
      BY <1>1, BoundsAssumption, SMTT(60) DEF Slot
    <2>2. file[j].hdr.sum = Sum(Contents(j))
      BY <2>1 DEF Intact
    <2>3. file[j].hdr.sum.salt = epoch /\ file[j].hdr.sum.over = Contents(j)
      BY <2>2, SMTT(60) DEF Sum
    <2>4. Contents(j)[j] = ContentAt(j)
      BY <2>1 DEF Contents
    <2> QED
      BY <1>1, <2>3, <2>4 DEF Rejected
  <1>2. \A i \in 1..Len(s) : Contents(i) = Prefix(s, i)
    <2> SUFFICES ASSUME NEW i \in 1..Len(s)
                 PROVE  Contents(i) = Prefix(s, i)
      OBVIOUS
    <2>1. \A j \in 1..i : j \in 1..Len(s)
      BY SMTT(60)
    <2>2. \A j \in 1..i : ContentAt(j) = s[j]
      BY <2>1 DEF LogInFile
    <2> QED
      BY <2>2 DEF Contents, Prefix
  <1>3. CASE s = <<>>
    <2>1. \A j \in Slot : j > Len(s)
      BY <1>3, BoundsAssumption, SMTT(60) DEF Slot
    <2>2. ends = {}
      BY <1>1, <2>1
    <2> QED
      BY <1>3, <2>2 DEF Recovered
  <1>4. CASE s # <<>>
    <2> DEFINE n == Len(s)
    <2>1. n \in Slot /\ n \in 1..n
      BY <1>4, BoundsAssumption, SMTT(60) DEF Slot
    <2>2. Intact(n)
      BY <1>2 DEF LogInFile, Intact
    <2>3. file[n].hdr.commit
      <3>1. ContentAt(n) = s[n] /\ s[n].commit
        BY <1>4, <2>1 DEF LogInFile, Complete
      <3> QED
        BY <3>1, SMTT(60) DEF ContentAt
    <2>4. n \in ends
      BY <2>1, <2>2, <2>3
    <2>5. \A j \in ends : j <= n
      BY <1>1, BoundsAssumption, SMTT(60) DEF Slot
    <2>6. ASSUME NEW m \in ends, \A j \in ends : j <= m
          PROVE  m = n
      BY <2>4, <2>5, <2>6, BoundsAssumption, SMTT(60) DEF Slot
    <2>7. (CHOOSE i \in ends : \A j \in ends : j <= i) = n
      BY <2>4, <2>5, <2>6
    <2>8. Recovered = Contents(n)
      BY <2>4, <2>7 DEF Recovered
    <2>9. Prefix(s, n) = s
      BY SMTT(60) DEF Prefix
    <2> QED
      BY <1>2, <2>1, <2>8, <2>9
  <1> QED
    BY <1>3, <1>4

\* What recovery finds under the invariant.
LEMMA RecoveredCases ==
  ASSUME BaseInv, DiskInv
  PROVE  \/ /\ Recovered = pub
            /\ \A j \in Slot : j > Len(pub) => Rejected(j)
         \/ /\ Recovered = mine /\ Arrived
            /\ \A j \in Slot : j > Len(mine) => Rejected(j)
PROOF
  <1>1. /\ FileType /\ pub \in Seq(Content) /\ Len(pub) <= Slots
        /\ mine \in Seq(Content) /\ Len(mine) <= Slots
        /\ Len(pub) \in Nat /\ Len(mine) \in Nat
    BY SMTT(60) DEF BaseInv, SqliteType
  <1>2. CASE \A j \in Slot : j > Len(pub) => Rejected(j)
    BY <1>1, <1>2, RecoveredIs DEF DiskInv
  <1>3. CASE \E j \in Slot : j > Len(pub) /\ ~Rejected(j)
    <2>1. Arrived
      BY <1>3 DEF DiskInv
    <2>2. LogInFile(mine) /\ Complete(mine) /\ Len(mine) > Len(pub)
      BY <2>1 DEF Arrived
    <2>3. ASSUME NEW j \in Slot, j > Len(mine)
          PROVE  Rejected(j)
      <3>1. j > Len(pub) /\ j # Len(mine)
        BY <1>1, <2>2, <2>3, BoundsAssumption, SMTT(60) DEF Slot
      <3> QED
        BY <3>1 DEF DiskInv
    <2>4. Recovered = mine
      BY <1>1, <2>2, <2>3, RecoveredIs
    <2> QED
      BY <2>1, <2>3, <2>4
  <1> QED
    BY <1>2, <1>3

LEMMA RejectedStays ==
  ASSUME UNCHANGED epoch, NEW j, file'[j] = file[j], Rejected(j)
  PROVE  Rejected(j)'
PROOF
  BY DEF Rejected, ContentAt

\* A step that leaves the published frames alone, and writes no frame that recovery
\* would accept.
LEMMA DiskStays ==
  ASSUME BaseInv, DiskInv, UNCHANGED <<epoch, pub>>,
         \A i \in 1..Len(pub) : file'[i] = file[i],
         \A j \in Slot : file'[j].hdr.sum.salt <= epoch,
         \A j \in Slot : j > Len(pub) => Rejected(j)' \/ (Arrived' /\ j = Len(mine')),
         released' => pc' \in {"publish", "panic"}
  PROVE  DiskInv'
PROOF
  <1>1. LogInFile(pub)'
    BY DEF DiskInv, LogInFile, ContentAt, Sum
  <1>2. Complete(pub)'
    BY DEF DiskInv, Complete
  <1> QED
    BY <1>1, <1>2 DEF DiskInv

\* The common case: no release is pending, and at most one frame behind the published
\* ones is touched.
LEMMA DiskOneFrame ==
  ASSUME BaseInv, DiskInv, ~released, ~released', UNCHANGED <<epoch, pub>>,
         NEW off \in Slot, off > Len(pub),
         \A i \in Slot \ {off} : file'[i] = file[i],
         file'[off].hdr.sum.salt <= epoch, Rejected(off)'
  PROVE  DiskInv'
PROOF
  <1>1. \A i \in 1..Len(pub) : i \in Slot \ {off}
    BY BoundsAssumption, SMTT(60) DEF BaseInv, SqliteType, Slot
  <1>2. \A j \in Slot : file'[j].hdr.sum.salt <= epoch
    BY DEF DiskInv
  <1>3. ASSUME NEW j \in Slot, j > Len(pub)
        PROVE  Rejected(j)'
    <2>1. CASE j = off
      BY <2>1
    <2>2. CASE j # off
      <3>1. Rejected(j)
        BY <1>3 DEF DiskInv, Arrived
      <3> QED
        BY <2>2, <3>1, RejectedStays
    <2> QED
      BY <2>1, <2>2
  <1> QED
    BY <1>1, <1>2, <1>3, DiskStays

LEMMA DiskUntouched ==
  ASSUME BaseInv, DiskInv, ~released, ~released', UNCHANGED <<epoch, pub, file>>
  PROVE  DiskInv'
PROOF
  <1>1. \A j \in Slot : file'[j].hdr.sum.salt <= epoch
    BY DEF DiskInv
  <1>2. \A j \in Slot : j > Len(pub) => Rejected(j)'
    BY RejectedStays DEF DiskInv, Arrived
  <1> QED
    BY <1>1, <1>2, DiskStays

\* A header written over a committed frame is a commit header for other data than the
\* frame has, or it would complete the frame.
LEMMA DiskWriteHeader ==
  ASSUME BaseInv, DiskInv, SumInv, Clean, Clean', NEW c \in Content, NEW ok \in BOOLEAN,
         WriteHeader(c, ok)
  PROVE  DiskInv'
PROOF
  <1> PICK off : off = NextOff
    OBVIOUS
  <1> DEFINE h == Header(c, IF recksum = 0 THEN Sum(Append(mine, c)) ELSE NoSum)
  <1>1. /\ pc = "open" /\ off \in Slot /\ WriteFrameHeader(off, h, ok) /\ Record(off, c)
        /\ UNCHANGED <<epoch, pub, released>>
    BY DEF WriteHeader, NextOff
  <1>2. h \in FrameHeader
    BY HeaderTypes DEF BaseInv, SqliteType
  <1>3. /\ Len(pub) \in Nat /\ off = Len(mine) + 1 /\ mine \in Seq(Content)
        /\ off > Len(pub) /\ ~released /\ epoch \in Nat
    BY <1>1, MineIsPub, SMTT(60) DEF Active, NextOff, BaseInv, SqliteType, FileType, DiskInv
  <1>4. /\ h.commit = c.commit /\ h.pg = c.pg /\ h.sum.salt \in {0, epoch}
        /\ h.sum.salt = epoch => h.sum.over = Append(mine, c)
    BY DEF Header, Sum, NoSum, BaseInv, FileType
  <1> HIDE DEF h
  <1>5. /\ \A i \in Slot \ {off} : file'[i] = file[i]
        /\ file'[off].val = file[off].val
        /\ file'[off].hdr \in {file[off].hdr, h}
        /\ h.commit /\ ~LooksRewritten(off, h) => file' = file
    BY <1>1, <1>2, HeaderCallFile, SMTT(60) DEF BaseInv
  <1>6. CASE file' = file
    BY <1>1, <1>3, <1>6, DiskUntouched
  <1>7. CASE file' # file /\ file'[off].hdr = file[off].hdr
    <2>1. \A i \in Slot : file'[i] = file[i]
      <3>1. file \in [Slot -> FrameType] /\ file' \in [Slot -> FrameType]
        BY <1>1, <1>2, HeaderCallTypes DEF BaseInv, FileType
      <3>2. file[off] \in FrameType /\ file'[off] \in FrameType
        BY <1>1, <3>1
      <3>3. file'[off] = file[off]
        BY <1>5, <1>7, <3>2, SMTT(60) DEF FrameType
      <3> QED
        BY <1>5, <3>3
    <2>2. file[off].hdr.sum.salt <= epoch /\ Rejected(off)
      BY <1>1, <1>3 DEF DiskInv, Arrived
    <2>3. Rejected(off)'
      BY <1>1, <2>1, <2>2, RejectedStays
    <2> QED
      BY <1>1, <1>3, <2>1, <2>2, <2>3, DiskOneFrame
  <1>8. CASE file' # file /\ file'[off].hdr = h
    <2>1. h.sum.salt <= epoch
      BY <1>3, <1>4, SMTT(60)
    <2>2. ASSUME c.commit, h.sum.salt = epoch
          PROVE  Len(h.sum.over) = off /\ h.sum.over[off] # ContentAt(off)'
      <3>1. LooksRewritten(off, h)
        BY <1>4, <1>5, <1>8, <2>2
      <3>2. LooksRewritten(off, Header(c, NoSum))
        BY <1>4, <3>1 DEF LooksRewritten, Header
      <3>3. ~Completes(off, c)
        BY <1>1 DEF Record, Clean
      <3>4. file[off].val # c.val
        BY <2>2, <3>2, <3>3 DEF Completes
      <3>5. ContentAt(off)'.val # c.val
        BY <1>5, <3>4 DEF ContentAt
      <3>6. Len(h.sum.over) = off /\ h.sum.over[off] = c
        BY <1>3, <1>4, <2>2, SMTT(60)
      <3> QED
        BY <3>5, <3>6
    <2>3. Rejected(off)'
      BY <1>1, <1>4, <1>8, <2>2 DEF Rejected
    <2> QED
      BY <1>1, <1>3, <1>5, <1>8, <2>1, <2>3, DiskOneFrame
  <1> QED
    BY <1>5, <1>6, <1>7, <1>8

LEMMA DiskWriteData ==
  ASSUME BaseInv, DiskInv, NEW ok \in BOOLEAN, WriteData(ok)
  PROVE  DiskInv'
PROOF
  <1> PICK off : off = NextOff
    OBVIOUS
  <1>1. /\ off \in Slot
        /\ DataResult(off, ok) = IF next.commit THEN "gate" ELSE IF ok THEN "ok" ELSE "error"
    BY DataCaptures
  <1>2. /\ pc = "data" /\ WriteFrameData(off, next.val, ok)
        /\ UNCHANGED <<epoch, pub, released>>
    BY DEF WriteData, NextOff, history
  <1>3. /\ off > Len(pub) /\ ~released /\ next.val \in Val
    BY <1>2, MineIsPub, SMTT(60) DEF Active, NextOff, BaseInv, SqliteType, Content, DiskInv
  <1>4. /\ \A i \in Slot \ {off} : file'[i] = file[i]
        /\ file'[off].hdr = file[off].hdr
        /\ DataResult(off, ok) # "ok" => file' = file
    BY <1>1, <1>2, <1>3, DataCallFile, SMTT(60) DEF BaseInv
  <1>5. CASE DataResult(off, ok) # "ok"
    BY <1>2, <1>3, <1>4, <1>5, DiskUntouched
  <1>6. CASE DataResult(off, ok) = "ok"
    <2>1. ~next.commit
      BY <1>1, <1>6
    <2>2. file[off].hdr = NextHeader
      BY <1>2, <2>1 DEF BaseInv, Staged
    <2>3. ~file'[off].hdr.commit
      BY <1>4, <2>1, <2>2, SMTT(60) DEF NextHeader, Header
    <2>4. Rejected(off)' /\ file'[off].hdr.sum.salt <= epoch
      BY <1>1, <1>4, <2>3 DEF Rejected, DiskInv
    <2> QED
      BY <1>1, <1>2, <1>3, <1>4, <2>4, DiskOneFrame
  <1> QED
    BY <1>5, <1>6

LEMMA DiskOverwrite ==
  ASSUME BaseInv, DiskInv, SumInv, NEW i \in Slot, NEW val \in Val, NEW ok \in BOOLEAN,
         Overwrite(i, val, ok)
  PROVE  DiskInv'
PROOF
  <1>1. /\ pc = "open" /\ i > Len(pub) /\ i <= Len(mine) /\ WriteFrameData(i, val, ok)
        /\ UNCHANGED <<epoch, pub, released>>
    BY DEF Overwrite, InTx, history
  <1>2. i \in (Len(pub) + 1)..Len(mine) /\ ~released
    BY <1>1, BoundsAssumption, SMTT(60) DEF BaseInv, SqliteType, Slot, DiskInv
  <1>3. /\ \A j \in Slot \ {i} : file'[j] = file[j]
        /\ file'[i].hdr = file[i].hdr
    BY <1>1, DataCallFile DEF BaseInv
  <1>4. ContentAt(i) = mine[i] /\ ~mine[i].commit
    BY <1>1, <1>2 DEF BaseInv, OwnFrames, SumInv, Active
  <1>5. ~file[i].hdr.commit
    BY <1>4, SMTT(60) DEF ContentAt
  <1>6. Rejected(i)' /\ file'[i].hdr.sum.salt <= epoch
    BY <1>3, <1>5 DEF Rejected, DiskInv
  <1> QED
    BY <1>1, <1>2, <1>3, <1>6, DiskOneFrame

\* The open transaction is in the file as a whole when no checksum is stale.
LEMMA OwnLog ==
  BaseInv /\ SumInv /\ Active /\ LogInFile(pub) /\ recksum = 0 => LogInFile(mine)
PROOF
  <1> SUFFICES ASSUME BaseInv, SumInv, Active, LogInFile(pub), recksum = 0,
                      NEW i \in 1..Len(mine)
               PROVE  ContentAt(i) = mine[i] /\ file[i].hdr.sum = Sum(Prefix(mine, i))
    BY DEF LogInFile
  <1>1. Len(pub) \in Nat /\ Len(mine) \in Nat
    BY SMTT(60) DEF BaseInv, SqliteType
  <1>2. CASE i > Len(pub)
    <2>1. i \in (Len(pub) + 1)..Len(mine)
      BY <1>1, <1>2, SMTT(60)
    <2> QED
      BY <2>1 DEF BaseInv, OwnFrames, SumInv
  <1>3. CASE ~(i > Len(pub))
    <2>1. i \in 1..Len(pub) /\ \A j \in 1..i : j \in 1..Len(pub)
      BY <1>1, <1>3, SMTT(60)
    <2>2. \A j \in 1..i : mine[j] = pub[j]
      BY <2>1 DEF BaseInv, OwnFrames
    <2>3. Prefix(mine, i) = Prefix(pub, i)
      BY <2>2 DEF Prefix
    <2>4. mine[i] = pub[i]
      BY <2>1, <2>2, SMTT(60)
    <2> QED
      BY <2>1, <2>3, <2>4 DEF LogInFile
  <1> QED
    BY <1>2, <1>3

\* A frame that is appended with the right checksum.
LEMMA LogGrows ==
  ASSUME NEW s \in Seq(Content), NEW c \in Content, LogInFile(s), UNCHANGED epoch,
         NEW t, t = Append(s, c), NEW off, off = Len(s) + 1,
         \A i \in 1..Len(s) : file'[i] = file[i],
         ContentAt(off)' = c, file'[off].hdr.sum = Sum(Append(s, c))
  PROVE  LogInFile(t)'
PROOF
  <1>1. /\ Len(t) = off /\ t[off] = c
        /\ \A i \in 1..Len(s) : t[i] = s[i]
    BY SMTT(60)
  <1>2. /\ Prefix(t, off) = t
        /\ \A i \in 1..Len(s) : Prefix(t, i) = Prefix(s, i)
    BY Prefixes, SMTT(60)
  <1> SUFFICES ASSUME NEW i \in 1..off
               PROVE  ContentAt(i)' = t[i] /\ file'[i].hdr.sum = Sum(Prefix(t, i))
    BY <1>1 DEF LogInFile, Sum
  <1>3. CASE i = off
    BY <1>1, <1>2, <1>3
  <1>4. CASE i # off
    <2>1. i \in 1..Len(s)
      BY <1>4, SMTT(60)
    <2>2. ContentAt(i) = s[i] /\ file[i].hdr.sum = Sum(Prefix(s, i))
      BY <2>1 DEF LogInFile
    <2>3. ContentAt(i)' = ContentAt(i)
      BY <2>1 DEF ContentAt
    <2> QED
      BY <1>1, <1>2, <2>1, <2>2, <2>3
  <1> QED
    BY <1>3, <1>4

\* The withheld frame is written: the transaction has arrived as a whole, unless stale
\* checksums or old data make recovery reject its commit frame for now.
LEMMA DiskGateCommits ==
  ASSUME BaseInv, DiskInv, SumInv, NEW done \in {"both", "header", "nothing"},
         GateCommits(done)
  PROVE  DiskInv'
PROOF
  <1> PICK off : off = NextOff
    OBVIOUS
  <1>1. /\ pc = "gate" /\ mine' = Append(mine, next) /\ released' = TRUE
        /\ UNCHANGED <<epoch, pub, recksum>>
        /\ done = "both" => file' = [file EXCEPT ![off] = currentTxFrameOffsets[off]]
        /\ done = "header" => file' = [file EXCEPT ![off].hdr = currentTxFrameOffsets[off].hdr]
        /\ done = "nothing" => file' = file
        /\ pc' \in {"publish", "panic"}
    BY DEF GateCommits, NextOff
  <1>2. /\ Len(pub) \in Nat /\ Len(mine) \in Nat /\ Len(pub) <= Len(mine)
        /\ off = Len(mine) + 1 /\ off \in Slot /\ off > Len(pub)
        /\ next \in Content /\ mine \in Seq(Content) /\ epoch \in Nat \ {0}
        /\ \A i \in 1..Len(mine) : i \in Slot \ {off}
        /\ \A i \in 1..Len(pub) : i \in Slot \ {off}
    BY <1>1, MineIsPub, BoundsAssumption, SMTT(60)
       DEF Active, NextOff, BaseInv, SqliteType, FileType, Slot
  <1>3. currentTxFrameOffsets[off] = [hdr |-> NextHeader, val |-> next.val] /\ next.commit
    BY <1>1 DEF BaseInv, Withheld
  <1>4. /\ \A i \in Slot \ {off} : file'[i] = file[i]
        /\ done = "nothing" => file'[off] = file[off]
        /\ done # "nothing" => file'[off].hdr = NextHeader
    BY <1>1, <1>2, <1>3, SMTT(60) DEF BaseInv, FileType, FrameType
  <1>5. /\ NextHeader.pg = next.pg /\ NextHeader.commit
        /\ recksum = 0 => NextHeader.sum = Sum(Append(mine, next))
        /\ recksum # 0 => NextHeader.sum = NoSum
    BY <1>3 DEF NextHeader, Header
  <1>6. /\ recksum = 0 => NextHeader.sum.salt = epoch /\ NextHeader.sum.over = Append(mine, next)
        /\ recksum # 0 => NextHeader.sum.salt = 0
    BY <1>5, SMTT(60) DEF Sum, NoSum
  <1> HIDE DEF NextHeader
  <1>7. \A j \in Slot : file'[j].hdr.sum.salt <= epoch
    BY <1>2, <1>4, <1>6, SMTT(60) DEF DiskInv
  <1>8. \A j \in Slot \ {off} : j > Len(pub) => Rejected(j)'
    BY <1>1, <1>4, RejectedStays DEF DiskInv, Arrived
  <1>9. Rejected(off)' \/ (Arrived' /\ off = Len(mine'))
    <2>1. CASE done = "nothing"
      BY <1>1, <1>2, <1>4, <2>1, RejectedStays DEF DiskInv, Arrived
    <2>2. CASE done # "nothing" /\ recksum # 0
      BY <1>1, <1>2, <1>4, <1>6, <2>2 DEF Rejected
    <2>3. CASE done # "nothing" /\ recksum = 0 /\ ContentAt(off)' # next
      <3>1. Len(Append(mine, next)) = off /\ Append(mine, next)[off] = next
        BY <1>2, SMTT(60)
      <3> QED
        BY <1>4, <1>6, <2>3, <3>1 DEF Rejected
    <2>4. CASE done # "nothing" /\ recksum = 0 /\ ContentAt(off)' = next
      <3>1. LogInFile(mine)
        BY <1>1, <2>4, OwnLog DEF Active, DiskInv
      <3>2. PICK m : m = mine
        OBVIOUS
      <3>3. PICK c : c = next
        OBVIOUS
      <3>4. PICK t : t = Append(mine, next)
        OBVIOUS
      <3>5. LogInFile(m) /\ m \in Seq(Content) /\ c \in Content /\ t = Append(m, c)
        BY <1>2, <3>1, <3>2, <3>3, <3>4
      <3>6. /\ \A i \in 1..Len(m) : file'[i] = file[i]
            /\ ContentAt(off)' = c /\ file'[off].hdr.sum = Sum(Append(m, c))
            /\ off = Len(m) + 1
        BY <1>2, <1>4, <1>5, <2>4, <3>2, <3>3
      <3>7. LogInFile(t)'
        BY <1>1, <3>5, <3>6, LogGrows
      <3>8. LogInFile(mine)'
        BY <1>1, <3>4, <3>7 DEF LogInFile
      <3>9. Len(mine') = off /\ mine'[off] = next
        BY <1>1, <1>2, SMTT(60)
      <3> QED
        BY <1>1, <1>2, <1>3, <2>4, <3>8, <3>9 DEF Arrived, Complete
    <2> QED
      BY <2>1, <2>2, <2>3, <2>4
  <1> QED
    BY <1>1, <1>2, <1>4, <1>7, <1>8, <1>9, DiskStays

\* Once the last checksum is rewritten the transaction has arrived.
LEMMA DiskRewriteChecksum ==
  ASSUME BaseInv, DiskInv, SumInv, CaptureInv, Clean, Clean', NEW ok \in BOOLEAN,
         RewriteChecksum(ok)
  PROVE  DiskInv'
PROOF
  <1> PICK off : off = recksum
    OBVIOUS
  <1>1. /\ SumInv' /\ file'[off].hdr.commit = mine[off].commit
        /\ off \in (Len(pub) + 1)..Len(mine) /\ off \in Slot
        /\ \A i \in Slot \ {off} : file'[i] = file[i]
        /\ file'[off].hdr.sum = Sum(Prefix(mine, off))
        /\ recksum' = IF off = Len(mine) THEN 0 ELSE off + 1
        /\ UNCHANGED <<pc, mine, pub, epoch, released>>
    BY SumRewriteChecksum
  <1>2. pc = "publish" /\ recksum # 0
    BY DEF RewriteChecksum
  <1>3. /\ Len(pub) \in Nat /\ Len(mine) \in Nat /\ Len(mine) <= Slots /\ epoch \in Nat
        /\ off > Len(pub) /\ \A i \in 1..Len(pub) : i \in Slot \ {off}
    BY <1>1, BoundsAssumption, SMTT(60) DEF BaseInv, SqliteType, FileType, Slot
  <1>4. released /\ Len(mine) > Len(pub)
    BY <1>2 DEF SumInv, Active
  <1>5. file'[off].hdr.sum.salt = epoch
    BY <1>1, SMTT(60) DEF Sum
  <1>6. \A j \in Slot : file'[j].hdr.sum.salt <= epoch
    BY <1>1, <1>3, <1>5, SMTT(60) DEF DiskInv
  <1>7. \A j \in Slot \ {off} : j > Len(pub) => Rejected(j)'
    BY <1>1, <1>2, RejectedStays DEF DiskInv, Arrived
  <1>8. CASE off # Len(mine)
    <2>1. ~mine[off].commit
      BY <1>1, <1>2, <1>8 DEF SumInv, Active
    <2>2. Rejected(off)'
      BY <1>1, <2>1 DEF Rejected
    <2> QED
      BY <1>1, <1>2, <1>3, <1>6, <1>7, <2>2, DiskStays
  <1>9. CASE off = Len(mine)
    <2>1. LogInFile(pub)'
      BY <1>1, <1>3 DEF DiskInv, LogInFile, ContentAt, Sum
    <2>2. BaseInv'
      BY BaseRewriteChecksum
    <2>3. Active' /\ recksum' = 0
      BY <1>1, <1>2, <1>9 DEF Active
    <2>4. (BaseInv /\ SumInv /\ Active /\ LogInFile(pub) /\ recksum = 0 => LogInFile(mine))'
      BY OwnLog, PTL
    <2>5. LogInFile(mine)'
      BY <1>1, <2>1, <2>2, <2>3, <2>4
    <2>6. mine[Len(mine)].commit
      BY <1>1, <1>2, <1>9 DEF SumInv, Active
    <2>7. Arrived' /\ off = Len(mine')
      BY <1>1, <1>4, <1>9, <2>3, <2>5, <2>6 DEF Arrived, Complete
    <2> QED
      BY <1>1, <1>2, <1>3, <1>6, <1>7, <2>7, DiskStays
  <1> QED
    BY <1>8, <1>9

LEMMA DiskPublish ==
  ASSUME BaseInv, DiskInv, SumInv, Publish
  PROVE  DiskInv'
PROOF
  <1>1. /\ pc = "publish" /\ recksum = 0 /\ pub' = mine /\ released' = FALSE
        /\ UNCHANGED <<epoch, file>>
    BY DEF Publish
  <1>2. LogInFile(mine) /\ Len(mine) > Len(pub)
    BY <1>1, OwnLog DEF Active, DiskInv, SumInv
  <1>3. /\ Len(pub) \in Nat /\ Len(mine) \in Nat
        /\ Len(mine) \in (Len(pub) + 1)..Len(mine)
    BY <1>2, SMTT(60) DEF BaseInv, SqliteType
  <1>4. Complete(mine)
    BY <1>1, <1>3 DEF Complete, SumInv, Active
  <1>5. LogInFile(pub)' /\ Complete(pub)'
    BY <1>1, <1>2, <1>4 DEF LogInFile, Complete, ContentAt, Sum
  <1>6. ASSUME NEW j \in Slot, j > Len(mine)
        PROVE  Rejected(j)'
    <2>1. j > Len(pub) /\ j # Len(mine)
      BY <1>2, <1>3, <1>6, BoundsAssumption, SMTT(60) DEF Slot
    <2>2. Rejected(j)
      BY <2>1 DEF DiskInv
    <2> QED
      BY <1>1, <2>2, RejectedStays
  <1>7. \A j \in Slot : file'[j].hdr.sum.salt <= epoch'
    BY <1>1 DEF DiskInv
  <1> QED
    BY <1>1, <1>5, <1>6, <1>7 DEF DiskInv

LEMMA DiskOtherCommits ==
  ASSUME BaseInv, DiskInv, NEW c \in Content, OtherCommits(c)
  PROVE  DiskInv'
PROOF
  <1> PICK off : off = Len(pub) + 1
    OBVIOUS
  <1> PICK p : p = pub
    OBVIOUS
  <1> PICK t : t = Append(p, c)
    OBVIOUS
  <1> DEFINE f == [hdr |-> Header(c, Sum(Append(pub, c))), val |-> c.val]
  <1>1. /\ pc = "idle" /\ off \in Slot /\ c.commit
        /\ file' = [file EXCEPT ![off] = f]
        /\ pub' = t /\ UNCHANGED <<epoch, pc, released>>
    BY DEF OtherCommits, history
  <1>2. /\ p \in Seq(Content) /\ Len(p) \in Nat /\ epoch \in Nat /\ ~released
    BY <1>1, SMTT(60) DEF BaseInv, SqliteType, FileType, DiskInv
  <1>3. /\ file'[off] = f
        /\ \A i \in Slot \ {off} : file'[i] = file[i]
    BY <1>1 DEF BaseInv, FileType
  <1>4. \A i \in 1..Len(p) : file'[i] = file[i]
    <2>1. \A i \in 1..Len(p) : i \in Slot \ {off}
      BY <1>1, <1>2, BoundsAssumption, SMTT(60) DEF Slot
    <2> QED
      BY <1>3, <2>1
  <1>5. f.hdr.pg = c.pg /\ f.hdr.commit = c.commit /\ f.val = c.val
        /\ f.hdr.sum = Sum(Append(p, c)) /\ f.hdr.sum.salt = epoch
    BY DEF Header, Sum
  <1> HIDE DEF f
  <1>6. ContentAt(off)' = c
    BY <1>3, <1>5, ContentParts DEF ContentAt
  <1>7. file'[off].hdr.sum = Sum(Append(p, c)) /\ file'[off].hdr.sum.salt = epoch
    BY <1>3, <1>5
  <1>8. LogInFile(p)
    BY DEF DiskInv
  <1>9. LogInFile(t)'
    BY <1>1, <1>2, <1>4, <1>6, <1>7, <1>8, LogGrows
  <1>10. Len(t) = off /\ t[off] = c
    BY <1>2, SMTT(60)
  <1>11. LogInFile(pub)' /\ Complete(pub)'
    BY <1>1, <1>9, <1>10, SMTT(60) DEF LogInFile, Complete
  <1>12. ASSUME NEW j \in Slot, j > off
         PROVE  Rejected(j)'
    <2>1. j > Len(pub) /\ j # off
      BY <1>2, <1>12, BoundsAssumption, SMTT(60) DEF Slot
    <2>2. Rejected(j)
      BY <1>2, <2>1 DEF DiskInv, Arrived
    <2> QED
      BY <1>1, <1>3, <2>1, <2>2, RejectedStays
  <1>13. \A j \in Slot : file'[j].hdr.sum.salt <= epoch'
    BY <1>1, <1>2, <1>3, <1>7, SMTT(60) DEF DiskInv
  <1> QED
    BY <1>1, <1>2, <1>10, <1>11, <1>12, <1>13 DEF DiskInv

LEMMA DiskRestart ==
  ASSUME BaseInv, DiskInv, Restart
  PROVE  DiskInv'
PROOF
  <1>1. /\ pc = "idle" /\ epoch' = epoch + 1 /\ pub' = <<>> /\ UNCHANGED <<file, pc, released>>
    BY DEF Restart, history
  <1>2. /\ epoch \in Nat /\ ~released
        /\ \A j \in Slot : file[j].hdr.sum.salt \in Nat /\ file[j].hdr.sum.salt <= epoch
    BY <1>1 DEF BaseInv, FileType, FrameType, FrameHeader, DiskInv
  <1>3. \A j \in Slot : file'[j].hdr.sum.salt <= epoch' /\ file'[j].hdr.sum.salt # epoch'
    BY <1>1, <1>2, SMTT(60)
  <1>4. \A j \in Slot : Rejected(j)'
    BY <1>3 DEF Rejected
  <1>5. LogInFile(pub)' /\ Complete(pub)'
    <2>1. 1..Len(pub') = {}
      BY <1>1, SMTT(60)
    <2> QED
      BY <1>1, <2>1 DEF LogInFile, Complete
  <1> QED
    BY <1>1, <1>2, <1>3, <1>4, <1>5 DEF DiskInv

LEMMA DiskCrash ==
  ASSUME BaseInv, DiskInv, Crash
  PROVE  DiskInv'
PROOF
  <1>1. pub' = Recovered /\ released' = FALSE /\ UNCHANGED <<epoch, file>>
    BY DEF Crash
  <1>2. PICK r : r = Recovered
    OBVIOUS
  <1>3. LogInFile(r) /\ Complete(r) /\ \A j \in Slot : j > Len(r) => Rejected(j)
    BY <1>2, RecoveredCases DEF DiskInv, Arrived
  <1>4. LogInFile(r)' /\ Complete(r)'
    BY <1>1, <1>3 DEF LogInFile, Complete, ContentAt, Sum
  <1>5. LogInFile(pub)' /\ Complete(pub)'
    BY <1>1, <1>2, <1>4 DEF LogInFile, Complete
  <1>6. \A j \in Slot : j > Len(pub') => Rejected(j)'
    BY <1>1, <1>2, <1>3, RejectedStays
  <1>7. \A j \in Slot : file'[j].hdr.sum.salt <= epoch'
    BY <1>1 DEF DiskInv
  <1> QED
    BY <1>1, <1>5, <1>6, <1>7 DEF DiskInv

LEMMA DiskNext ==
  ASSUME BaseInv, DiskInv, SumInv, CaptureInv, Next, Clean'
  PROVE  DiskInv'
PROOF
  <1>1. CASE \/ Begin \/ Rollback \/ GateRejects
             \/ \E k \in 0..Slots : SavepointUndo(k)
    <2>1. pc \in {"idle", "open", "gate"} /\ UNCHANGED <<epoch, pub, file, released>>
      BY <1>1 DEF Begin, Rollback, GateRejects, SavepointUndo, history
    <2>2. ~released
      BY <2>1 DEF DiskInv
    <2> QED
      BY <2>1, <2>2, DiskUntouched
  <1> QED
    BY <1>1, StaysClean, DiskWriteHeader, DiskWriteData, DiskOverwrite, DiskGateCommits,
       DiskRewriteChecksum, DiskPublish, DiskOtherCommits, DiskRestart, DiskCrash DEF Next

-----------------------------------------------------------------------------
\* The theorems

LEMMA GateInit ==
  Init => GateInv
PROOF
  <1> SUFFICES ASSUME Init
               PROVE  GateInv
    OBVIOUS
  <1>1. /\ epoch = 1 /\ file = [i \in Slot |-> NoFrame] /\ pub = <<>> /\ mine = <<>>
        /\ pc = "idle" /\ next = None /\ recksum = 0 /\ released = FALSE
        /\ pendingFrameHeader = None /\ currentTxFrames = <<>>
        /\ currentTxFrameOffsets = NoFrames /\ currentTxCommitted = FALSE
        /\ maxOffset = 0 /\ pendingRewrite = None
    BY DEF Init, NewGatedWALFile
  <1>2. NoFrame \in FrameType
    BY SMTT(60) DEF NoFrame, NoHeader, NoSum, FrameType, FrameHeader
  <1>3. FileType
    BY <1>1, <1>2, SMTT(60) DEF FileType
  <1>4. SqliteType
    BY <1>1, BoundsAssumption, SMTT(60) DEF SqliteType
  <1>5. DOMAIN currentTxFrameOffsets = {}
    BY <1>1 DEF NoFrames
  <1>6. CaptureType
    <2>1. 1..Len(currentTxFrames) = {} /\ currentTxFrames \in Seq(Slot)
      BY <1>1, SMTT(60)
    <2>2. currentTxFrameOffsets \in [DOMAIN currentTxFrameOffsets -> FrameType]
      BY <1>1, <1>5 DEF NoFrames
    <2>3. maxOffset \in 0..Slots
      BY <1>1, BoundsAssumption, SMTT(60)
    <2>4. DOMAIN currentTxFrameOffsets \subseteq Slot
      BY <1>5
    <2> QED
      BY <1>1, <2>1, <2>2, <2>3, <2>4 DEF CaptureType
  <1>7. OwnFrames /\ Below /\ Staged /\ Withheld
    BY <1>1, <1>5 DEF OwnFrames, Active, Below, Staged, Withheld
  <1>8. \A j \in Slot : file[j].hdr.sum.salt = 0 /\ ~file[j].hdr.commit
    BY <1>1 DEF NoFrame, NoHeader, NoSum
  <1>9. DiskInv
    <2>1. 1..Len(pub) = {}
      BY <1>1, SMTT(60)
    <2> QED
      BY <1>1, <1>8, <2>1, SMTT(60) DEF DiskInv, LogInFile, Complete, Rejected
  <1>10. SumInv /\ CaptureInv
    BY <1>1, <1>5 DEF SumInv, Active, CaptureInv, Tally
  <1> QED
    BY <1>3, <1>4, <1>6, <1>7, <1>9, <1>10 DEF GateInv, BaseInv

LEMMA GateStutters ==
  GateInv /\ UNCHANGED vars => GateInv'
PROOF
  <1> SUFFICES ASSUME GateInv, UNCHANGED vars
               PROVE  GateInv'
    OBVIOUS
  <1> USE DEF vars, sqliteVars, captureVars, history
  <1>1. FileType' /\ SqliteType' /\ CaptureType'
    BY DEF GateInv, BaseInv, FileType, SqliteType, CaptureType
  <1>2. OwnFrames' /\ Below' /\ Staged' /\ Withheld'
    BY DEF GateInv, BaseInv, OwnFrames, Active, ContentAt, Below, Staged, HeaderFor, Captured,
           Disproves, NextOff, NextHeader, Sum, NoSum, Withheld
  <1>3. Clean' => Clean
    BY DEF Clean
  <1>4. DiskInv => DiskInv'
    BY DEF DiskInv, LogInFile, ContentAt, Sum, Complete, Rejected, Arrived
  <1>5. SumInv => SumInv'
    BY DEF SumInv, Active, Sum, NoSum
  <1>6. CaptureInv => CaptureInv'
    BY DEF CaptureInv, Tally, Fresh, Listed, Held, Disproves, NextOff
  <1> QED
    BY <1>1, <1>2, <1>3, <1>4, <1>5, <1>6 DEF GateInv, BaseInv

LEMMA GateSteps ==
  GateInv /\ [Next]_vars => GateInv'
PROOF
  <1>1. ASSUME GateInv, Next
        PROVE  GateInv'
    <2>1. BaseInv'
      BY <1>1, BaseNext DEF GateInv
    <2>2. ASSUME Clean'
          PROVE  DiskInv' /\ SumInv' /\ CaptureInv'
      <3>1. BaseInv /\ DiskInv /\ SumInv /\ CaptureInv
        BY <1>1, <2>2, StaysClean DEF GateInv
      <3> QED
        BY <1>1, <2>2, <3>1, DiskNext, SumNext, CaptureNext
    <2> QED
      BY <2>1, <2>2 DEF GateInv
  <1> QED
    BY <1>1, GateStutters

\* The invariant that the theorems below follow from holds in every reachable state.
THEOREM GateInvariant == Spec => []GateInv
PROOF
  <1> QED
    BY GateInit, GateSteps, PTL DEF Spec

\* A gatedWALFile only ever captures frames at frame offsets, and files every frame of
\* its list under its offset, whatever SQLite writes and whichever write fails.
THEOREM GateTypes == Spec => []TypeOK
PROOF
  <1>1. GateInv => TypeOK
    <2> SUFFICES ASSUME GateInv
                 PROVE  TypeOK
      OBVIOUS
    <2>1. recksum \in 0..Slots
      BY BoundsAssumption, SMTT(60) DEF GateInv, BaseInv, SqliteType
    <2> QED
      BY <2>1 DEF GateInv, BaseInv, SqliteType, CaptureType, TypeOK
  <1> QED
    BY <1>1, GateInvariant, PTL

\* ProposeTransaction gets the transaction that SQLite is committing, frame for frame.
LEMMA ProposesFrames ==
  ASSUME GateInv, Clean, pc = "gate"
  PROVE  Proposal = Transaction
PROOF
  <1>1. /\ Len(pub) \in Nat /\ Len(mine) \in Nat /\ Len(pub) <= Len(mine)
        /\ mine \in Seq(Content) /\ next \in Content /\ BaseInv
    BY MineIsPub DEF GateInv, BaseInv, SqliteType, Active
  <1>2. Listed(NextOff) /\ Held(NextOff)
    BY DEF GateInv, CaptureInv
  <1>3. currentTxFrameOffsets[NextOff] = [hdr |-> NextHeader, val |-> next.val]
    BY <1>1 DEF BaseInv, Withheld
  <1>4. PICK n \in Nat : n = Len(mine) + 1 - Len(pub)
    BY <1>1, SMTT(60)
  <1>5. Len(currentTxFrames) = n /\ \A k \in 1..n : currentTxFrames[k] = Len(pub) + k
    BY <1>2, <1>4, SMTT(60) DEF Listed, NextOff
  <1>6. PICK all : all = Append(mine, next) /\ all \in Seq(Content)
    <2>1. Append(mine, next) \in Seq(Content)
      BY <1>1, SMTT(60)
    <2> QED
      BY <2>1
  <1>7. /\ Len(all) = Len(mine) + 1 /\ all[Len(mine) + 1] = next
        /\ \A i \in 1..Len(mine) : all[i] = mine[i]
    BY <1>1, <1>6, SMTT(60)
  <1>8. Transaction = [k \in 1..n |-> all[Len(pub) + k]]
    <2>1. Transaction = SubSeq(all, Len(pub) + 1, Len(mine) + 1)
      BY <1>6, <1>7 DEF Transaction
    <2> QED
      BY <1>1, <1>4, <1>6, <1>7, <2>1, SMTT(60)
  <1>9. ASSUME NEW k \in 1..n
        PROVE  LET f == currentTxFrameOffsets[currentTxFrames[k]]
               IN  [pg |-> f.hdr.pg, commit |-> f.hdr.commit, val |-> f.val] = all[Len(pub) + k]
    <2>1. CASE k = n
      <3>1. currentTxFrames[k] = NextOff /\ all[Len(pub) + k] = next
        BY <1>1, <1>4, <1>5, <1>7, <2>1, SMTT(60) DEF NextOff
      <3>2. [pg |-> NextHeader.pg, commit |-> NextHeader.commit, val |-> next.val] = next
        BY <1>1, ContentParts DEF NextHeader, Header
      <3> QED
        BY <1>3, <3>1, <3>2, SMTT(60)
    <2>2. CASE k # n
      <3>1. PICK i : i = Len(pub) + k
        OBVIOUS
      <3>2. i \in (Len(pub) + 1)..Len(mine) /\ i \in 1..Len(mine)
        BY <1>1, <1>4, <2>2, <3>1, SMTT(60)
      <3>3. LET f == currentTxFrameOffsets[i]
            IN  [pg |-> f.hdr.pg, commit |-> f.hdr.commit, val |-> f.val] = mine[i]
        BY <1>2, <3>2 DEF Held
      <3> QED
        BY <1>5, <1>7, <3>1, <3>2, <3>3
    <2> QED
      BY <2>1, <2>2
  <1> QED
    BY <1>5, <1>8, <1>9 DEF Proposal

\* What writeFrameData hands to the gate are the pages of the transaction SQLite is
\* committing with their latest contents, for every sequence of spills, overwrites,
\* savepoints, rollbacks, failed writes, crashes and log restarts in which none of the
\* four unforeseen cases has begun.
THEOREM ProposedAsWritten == Spec => []ProposalIsTransaction
PROOF
  <1>1. GateInv => ProposalIsTransaction
    BY ProposesFrames DEF ProposalIsTransaction
  <1> QED
    BY <1>1, GateInvariant, PTL

\* Whenever the process ends, recovery of the -wal file finds what was published, or
\* also the transaction the gate has just released: a refused or undecided one never.
THEOREM OnlyApprovedRecovers == Spec => []RecoveredIsApproved
PROOF
  <1>1. GateInv => RecoveredIsApproved
    BY RecoveredCases DEF GateInv, RecoveredIsApproved, Arrived
  <1> QED
    BY <1>1, GateInvariant, PTL

=============================================================================
