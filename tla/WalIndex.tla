------------------------------ MODULE WalIndex ------------------------------
(***************************************************************************)
(* The wal-index as walappender/shm lays it out: regions with an array of  *)
(* page numbers and a hash table over it, and the header that is kept      *)
(* twice.  Operators only; WALAppender uses them.                          *)
(***************************************************************************)
EXTENDS Integers, FiniteSetsExt

CONSTANTS RegionPages,   \* hashtablePageCount
          HeaderPages    \* entries of region 0 that the header takes up

ASSUME LayoutAssumption ==
  /\ RegionPages \in Nat /\ HeaderPages \in Nat
  /\ HeaderPages < RegionPages

-----------------------------------------------------------------------------
\* Where the entry of a frame is

Region0Pages == RegionPages - HeaderPages
SlotCount == 2 * RegionPages

RegionForFrame(frame) ==
  (frame + RegionPages - Region0Pages - 1) \div RegionPages

FrameZeroForRegion(region) ==
  IF region = 0 THEN 0 ELSE Region0Pages + (region - 1) * RegionPages

\* Multiplication wraps at 2^32, a multiple of SlotCount.
HashSlotForPage(pg) == (pg * 383) % SlotCount
NextHashSlot(slot, steps) == (slot + steps) % SlotCount

\* The page number at the entry of a frame.
PageOf(regions, frame) ==
  LET id == RegionForFrame(frame) IN regions[id].pgno[frame - FrameZeroForRegion(id)]

EmptyRegion == [pgno |-> [i \in 1..RegionPages |-> 0],
                hash |-> [s \in 0..(SlotCount - 1) |-> 0]]

\* The first entry of a segment wipes it.
Segment(region, idx) == IF idx = 1 THEN EmptyRegion ELSE region

\* The distance from slot to the next empty one; the code probes until it finds
\* one, so it needs HasRoom.
HasRoom(region) == \E s \in DOMAIN region.hash : region.hash[s] = 0
Probe(region, slot) ==
  Min({d \in 0..(SlotCount - 1) : region.hash[NextHashSlot(slot, d)] = 0})

AddFrame(regions, frame, pg) ==
  LET id == RegionForFrame(frame)
      idx == frame - FrameZeroForRegion(id)
      region == Segment(regions[id], idx)
      slot == HashSlotForPage(pg)
      free == NextHashSlot(slot, Probe(region, slot))
  IN  [regions EXCEPT ![id] = [pgno |-> [region.pgno EXCEPT ![idx] = pg],
                               hash |-> [region.hash EXCEPT ![free] = idx]]]

-----------------------------------------------------------------------------
\* What SQLite does with it (external)

\* walFindFrame in one region: the last entry of the chain that fits.
FindInRegion(regions, id, pg, min, last) ==
  LET region == regions[id]
      At(d) == region.hash[NextHashSlot(HashSlotForPage(pg), d)]
      InChain(d) == \A e \in 0..d : At(e) # 0
      Fits(d) == /\ InChain(d)
                 /\ region.pgno[At(d)] = pg
                 /\ At(d) + FrameZeroForRegion(id) \in min..last
      hits == {d \in 0..(SlotCount - 1) : Fits(d)}
  IN  IF hits = {} THEN 0 ELSE At(Max(hits)) + FrameZeroForRegion(id)

\* walFindFrame: the newest region that has one, 0 if none has.
FindFrame(regions, pg, min, last) ==
  LET ids == IF min > last THEN {} ELSE RegionForFrame(min)..RegionForFrame(last)
      found == {FindInRegion(regions, id, pg, min, last) : id \in ids}
  IN  Max(found \cup {0})

\* walCleanupHash: entries after the last published frame are removed.
CleanupHash(regions, mx) ==
  LET id == RegionForFrame(mx)
      limit == mx - FrameZeroForRegion(id)
      Cut(n) == IF n > limit THEN 0 ELSE n
  IN  IF mx = 0 THEN regions
      ELSE [regions EXCEPT ![id] =
              [pgno |-> [i \in 1..RegionPages |-> IF i > limit THEN 0 ELSE @.pgno[i]],
               hash |-> [s \in DOMAIN @.hash |-> Cut(@.hash[s])]]]

-----------------------------------------------------------------------------
\* The two copies of the header

Torn == [torn |-> TRUE]

\* ReadHeader: the first copy with a valid checksum.
ReadHeader(copy0, copy1) == IF copy0 # Torn THEN copy0 ELSE copy1

=============================================================================
