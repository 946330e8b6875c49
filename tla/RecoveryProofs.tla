--------------------------- MODULE RecoveryProofs ---------------------------
(***************************************************************************)
(* Recovery: the database converges to the log, snapshots can be used, the *)
(* base indexes agree and the store can replay, for any number of pages,   *)
(* any log and any number of crashes.                                      *)
(***************************************************************************)
EXTENDS Recovery, WellFoundedInduction, TLAPS

\* Steps that name no prover are left to Zenon.
USE ZenonT(60)

-----------------------------------------------------------------------------
\* The inductive invariant

EntryType == [term : {"new"}, pages : SUBSET Page]
SnapType == [index : Nat, header : Nat, pages : [Page -> Nat]]

TypeInv ==
  /\ chosen \in Seq(EntryType)
  /\ DOMAIN logs \subseteq 1..(Len(chosen) + 1)
  /\ commit \in Nat /\ applied \in Nat /\ lastApplied \in Nat /\ marker \in Nat
  /\ db \in [Page -> Nat]
  /\ writer \in [pc : {"idle", "proposed", "consumed"}, index : Nat]
  /\ snaps \in SnapType /\ taking \in SnapType /\ restoring \in SnapType
  /\ early \in BOOLEAN /\ node \in {"up", "down"}

\* Where raft, the FSM and the snapshots are; a node that is down has only what is
\* on disk.
OrderInv ==
  /\ applied <= commit /\ commit <= Len(chosen)
  /\ snaps.index <= Len(chosen) /\ taking.index <= applied
  /\ restoring.index <= snaps.index
  /\ restoring # NoSnap => restoring.index > applied
  /\ ~Up => /\ commit = 0 /\ applied = 0 /\ lastApplied = 0
            /\ writer = Idle /\ marker = 0 /\ taking = NoSnap /\ restoring = NoSnap

\* The rows a replay needs: what is committed and not applied is there as chosen, and
\* from the newest snapshot on there is no gap, not even below what was applied.
RowsInv ==
  /\ \A i \in (applied + 1)..commit : i \in DOMAIN logs /\ logs[i] = chosen[i]
  /\ \A i \in DOMAIN logs : \A j \in (snaps.index + 1)..i : j \in DOMAIN logs
  /\ \A j \in (snaps.index + 1)..applied : j \in DOMAIN logs

\* The marker is its writer's, and of the next entry; an entry that was skipped is the
\* last command applied until its writer publishes it.
WriterInv ==
  /\ writer.pc = "idle" => writer = Idle
  /\ marker # 0 => writer.pc = "proposed"
  /\ writer.pc = "proposed" =>
       /\ marker = writer.index /\ writer.index = applied + 1
       /\ writer.index <= Len(chosen) /\ chosen[writer.index].pages # {}
  /\ writer.pc = "consumed" =>
       /\ writer.index \in 1..applied
       /\ \A i \in (writer.index + 1)..applied : chosen[i].pages = {}

\* LastCommand and Content of a log, without CHOOSE.
Commands(log, n) == {i \in 1..n : log[i].pages # {}}
WritersIn(log, n, p) == {i \in 1..n : p \in log[i].pages}
IsLastCommand(log, m, n) ==
  m \in {0} \cup Commands(log, n) /\ \A i \in Commands(log, n) : i <= m
IsLatest(log, m, n, p) ==
  m \in {0} \cup WritersIn(log, n, p) /\ \A i \in WritersIn(log, n, p) : i <= m

HeaderInv ==
  /\ Up => IsLastCommand(chosen, lastApplied, applied)
  /\ IsLastCommand(chosen, snaps.header, snaps.index)
  /\ IsLastCommand(chosen, taking.header, taking.index)
  /\ IsLastCommand(chosen, restoring.header, restoring.index)

\* A page has the content of entry n, or is ahead: a database that was not reset by a
\* restore keeps pages of entries that are applied again, and a snapshot may have them.
Ahead(log, m, n, p) == m \in (n + 1)..Len(log) /\ p \in log[m].pages
Settled(log, m, n, p) == IsLatest(log, m, n, p) \/ Ahead(log, m, n, p)
AllSettled(log, pages, n) == \A p \in Page : Settled(log, pages[p], n, p)
Skipped(p) == writer.pc = "consumed" /\ p \in chosen[writer.index].pages

DataInv ==
  ~early =>
    /\ AllSettled(chosen, db, 0)
    /\ Up => \A p \in Page : Skipped(p) \/ Settled(chosen, db[p], applied, p)
    /\ AllSettled(chosen, snaps.pages, snaps.index)
    /\ AllSettled(chosen, taking.pages, taking.index)
    /\ AllSettled(chosen, restoring.pages, restoring.index)

Inv == TypeInv /\ OrderInv /\ RowsInv /\ WriterInv /\ HeaderInv /\ DataInv

-----------------------------------------------------------------------------
\* Least and greatest members

\* A set of natural numbers that is not empty has a least member.
LEMMA LeastNatural ==
  ASSUME NEW S \in SUBSET Nat, S # {}
  PROVE  \E m \in S : \A y \in S : m <= y
<1> DEFINE R == OpToRel(<, Nat)
<1>1. \E m \in S : \A y \in S : <<y, m>> \notin R
  BY NatLessThanWellFounded, WFMin
<1>2. \A y, m \in Nat : <<y, m>> \notin R => m <= y
  BY SMTT(60) DEF OpToRel
<1> QED  BY <1>1, <1>2

\* Min, which gives FirstIndex and the first conflicting row.
LEMMA MinIs ==
  ASSUME NEW S \in SUBSET Nat, S # {}
  PROVE  Min(S) \in S /\ \A y \in S : Min(S) <= y
BY LeastNatural DEF Min

\* Max, which gives LastIndex, LastCommand and Content, of a set that is bounded.
LEMMA MaxIs ==
  ASSUME NEW S \in SUBSET Nat, S # {}, NEW b \in Nat, \A y \in S : y <= b
  PROVE  Max(S) \in S /\ \A y \in S : y <= Max(S)
<1> DEFINE Bounds == {m \in Nat : \A y \in S : y <= m}
<1>1. PICK m \in Bounds : \A x \in Bounds : m <= x
  BY LeastNatural
<1>2. m \in S
  <2> SUFFICES ASSUME m \notin S  PROVE FALSE
    OBVIOUS
  <2>1. \A y \in S : y < m
    BY <1>1, SMTT(60)
  <2>2. m - 1 \in Nat
    <3>1. PICK y \in S : TRUE
      OBVIOUS
    <3> QED  BY <3>1, <2>1, SMTT(60)
  <2>3. \A y \in S : y <= m - 1
    BY <2>1, SMTT(60)
  <2> QED  BY <2>2, <2>3, <1>1, SMTT(60)
<1>3. \E x \in S : \A y \in S : x >= y
  BY <1>1, <1>2
<1> QED  BY <1>3 DEF Max

\* The greatest member is unique.
LEMMA MaxUnique ==
  ASSUME NEW S \in SUBSET Nat, NEW m \in S, \A y \in S : y <= m
  PROVE  Max(S) = m
<1>1. Max(S) \in S /\ m <= Max(S)
  BY MaxIs
<1>2. Max(S) <= m
  BY <1>1
<1>3. Max(S) \in Nat /\ m \in Nat
  BY <1>1
<1> QED  BY <1>1, <1>2, <1>3, SMTT(60)

\* The two-element sets of the model.
LEMMA MaxOfTwo ==
  ASSUME NEW a \in Nat, NEW b \in Nat
  PROVE  Max({a, b}) \in {a, b} /\ a <= Max({a, b}) /\ b <= Max({a, b})
<1>1. \A y \in {a, b} : y <= a + b
  BY SMTT(60)
<1>2. a + b \in Nat
  BY SMTT(60)
<1> QED  BY <1>1, <1>2, MaxIs, {a, b} \in SUBSET Nat, {a, b} # {}

LEMMA MinOfTwo ==
  ASSUME NEW a \in Int, NEW b \in Int
  PROVE  Min({a, b}) \in {a, b} /\ Min({a, b}) <= a /\ Min({a, b}) <= b
<1>1. \E x \in {a, b} : \A y \in {a, b} : x <= y
  BY SMTT(60)
<1> QED  BY <1>1 DEF Min


-----------------------------------------------------------------------------
\* The store and the contents

\* LastIndex of a table with bounded indexes.
LEMMA LastIndexIs ==
  ASSUME NEW rows, NEW b \in Nat, DOMAIN rows \subseteq 1..b
  PROVE  /\ LastIndex(rows) \in 0..b
         /\ \A i \in DOMAIN rows : i <= LastIndex(rows)
         /\ DOMAIN rows # {} => LastIndex(rows) \in DOMAIN rows
<1>1. CASE DOMAIN rows = {}
  BY <1>1, SMTT(60) DEF LastIndex
<1>2. CASE DOMAIN rows # {}
  <2>1. LastIndex(rows) = Max(DOMAIN rows)
    BY <1>2 DEF LastIndex
  <2>2. DOMAIN rows \in SUBSET Nat /\ \A i \in DOMAIN rows : i <= b
    BY SMTT(60)
  <2>3. Max(DOMAIN rows) \in DOMAIN rows /\ \A i \in DOMAIN rows : i <= Max(DOMAIN rows)
    BY <2>2, <1>2, MaxIs
  <2> QED  BY <2>1, <2>2, <2>3, SMTT(60)
<1> QED  BY <1>1, <1>2

\* Compaction removes rows, none of them behind the index it is given.
LEMMA CompactedIs ==
  ASSUME NEW rows, NEW b \in Nat, DOMAIN rows \subseteq 1..b, NEW index \in Nat
  PROVE  /\ DOMAIN Compacted(rows, index) \subseteq DOMAIN rows
         /\ \A i \in DOMAIN rows : i > index =>
              i \in DOMAIN Compacted(rows, index) /\ Compacted(rows, index)[i] = rows[i]
<1> DEFINE upTo == Min({index, LastIndex(rows) - Trailing})
           first == FirstIndex(rows)
<1>1. upTo \in Int /\ upTo <= index
  <2> DEFINE last == LastIndex(rows) - Trailing
  <2>1. last \in Int
    BY LastIndexIs, TrailingAssumption, SMTT(60)
  <2> HIDE DEF last
  <2>2. Min({index, last}) \in {index, last} /\ Min({index, last}) <= index
    BY <2>1, MinOfTwo, SMTT(60)
  <2> QED  BY <2>1, <2>2, SMTT(60) DEF last
<1>2. Compacted(rows, index) = [i \in DOMAIN rows \ (first..upTo) |-> rows[i]]
  BY DEF Compacted, DeleteRange
<1>3. first \in Int
  <2>1. CASE DOMAIN rows = {}
    BY <2>1, SMTT(60) DEF FirstIndex
  <2>2. CASE DOMAIN rows # {}
    <3>1. DOMAIN rows \in SUBSET Nat
      BY SMTT(60)
    <3> QED  BY <2>2, <3>1, MinIs, SMTT(60) DEF FirstIndex
  <2> QED  BY <2>1, <2>2
<1> HIDE DEF upTo, first
<1>4. \A i \in DOMAIN rows : i > index => i \notin first..upTo
  BY <1>1, <1>3, SMTT(60)
<1> QED  BY <1>2, <1>4

\* LastCommand and Content are what their characterisations say.
LEMMA LastCommandIs ==
  ASSUME TypeInv, NEW n \in 0..Len(chosen)
  PROVE  /\ LastCommand(n) \in Nat /\ IsLastCommand(chosen, LastCommand(n), n)
         /\ \A m : IsLastCommand(chosen, m, n) => m = LastCommand(n)
<1> DEFINE S == {0} \cup Commands(chosen, n)
<1>0. n \in Nat
  BY SMTT(60) DEF TypeInv
<1>1. S \in SUBSET Nat /\ S # {} /\ \A i \in S : i <= n
  BY <1>0, SMTT(60) DEF Commands
<1>2. LastCommand(n) = Max(S)
  BY DEF LastCommand, Commands
<1> HIDE DEF S
<1>3. Max(S) \in S /\ \A i \in S : i <= Max(S)
  BY <1>0, <1>1, MaxIs
<1>4. ASSUME NEW m \in S, \A i \in S : i <= m  PROVE m = Max(S)
  BY <1>1, <1>4, MaxUnique
<1>5. LastCommand(n) \in Nat /\ IsLastCommand(chosen, LastCommand(n), n)
  BY <1>1, <1>2, <1>3 DEF IsLastCommand, S
<1>6. ASSUME NEW m, IsLastCommand(chosen, m, n)  PROVE m = LastCommand(n)
  <2>1. m \in S
    BY <1>6 DEF IsLastCommand, S
  <2>2. \A i \in S : i <= m
    BY <1>1, <1>6, <2>1, SMTT(60) DEF IsLastCommand, S
  <2> QED  BY <1>2, <1>4, <2>1, <2>2
<1> QED  BY <1>5, <1>6

LEMMA ContentIs ==
  ASSUME TypeInv, NEW n \in 0..Len(chosen), NEW p \in Page
  PROVE  /\ Content(n)[p] \in Nat /\ IsLatest(chosen, Content(n)[p], n, p)
         /\ \A m : IsLatest(chosen, m, n, p) => m = Content(n)[p]
<1> DEFINE S == {0} \cup WritersIn(chosen, n, p)
<1>0. n \in Nat
  BY SMTT(60) DEF TypeInv
<1>1. S \in SUBSET Nat /\ S # {} /\ \A i \in S : i <= n
  BY <1>0, SMTT(60) DEF WritersIn
<1>2. Content(n)[p] = Max(S)
  BY DEF Content, Writers, WritersIn
<1> HIDE DEF S
<1>3. Max(S) \in S /\ \A i \in S : i <= Max(S)
  BY <1>0, <1>1, MaxIs
<1>4. ASSUME NEW m \in S, \A i \in S : i <= m  PROVE m = Max(S)
  BY <1>1, <1>4, MaxUnique
<1>5. Content(n)[p] \in Nat /\ IsLatest(chosen, Content(n)[p], n, p)
  BY <1>1, <1>2, <1>3 DEF IsLatest, S
<1>6. ASSUME NEW m, IsLatest(chosen, m, n, p)  PROVE m = Content(n)[p]
  <2>1. m \in S
    BY <1>6 DEF IsLatest, S
  <2>2. \A i \in S : i <= m
    BY <1>1, <1>6, <2>1, SMTT(60) DEF IsLatest, S
  <2> QED  BY <1>2, <1>4, <2>1, <2>2
<1> QED  BY <1>5, <1>6

\* What is said of a log stays true when it grows.
LEMMA CommandStays ==
  ASSUME NEW log, NEW longer, NEW n \in Nat, \A i \in 1..n : longer[i] = log[i],
         NEW m, IsLastCommand(log, m, n)
  PROVE  IsLastCommand(longer, m, n)
<1>1. Commands(longer, n) = Commands(log, n)
  BY DEF Commands
<1> QED  BY <1>1 DEF IsLastCommand

LEMMA SettledStays ==
  ASSUME NEW log, NEW longer, NEW k \in Nat, Len(log) = k, Len(longer) = k + 1,
         \A i \in 1..k : longer[i] = log[i],
         NEW n \in 0..k, NEW m, NEW p, Settled(log, m, n, p)
  PROVE  Settled(longer, m, n, p)
<1>1. WritersIn(longer, n, p) = WritersIn(log, n, p)
  BY SMTT(60) DEF WritersIn
<1>2. CASE IsLatest(log, m, n, p)
  BY <1>1, <1>2 DEF IsLatest, Settled
<1>3. CASE Ahead(log, m, n, p)
  BY <1>3, SMTT(60) DEF Ahead, Settled
<1> QED  BY <1>2, <1>3 DEF Settled

LEMMA ChosenGrows ==
  ASSUME TypeInv, NEW e \in EntryType, chosen' = Append(chosen, e)
  PROVE  /\ chosen' \in Seq(EntryType) /\ Len(chosen') = Len(chosen) + 1
         /\ \A i \in 1..Len(chosen) : chosen'[i] = chosen[i]
         /\ chosen'[Len(chosen) + 1] = e
         /\ \A n \in 0..Len(chosen) : \A m :
              IsLastCommand(chosen, m, n) => IsLastCommand(chosen', m, n)
         /\ \A n \in 0..Len(chosen) : \A m : \A p \in Page :
              Settled(chosen, m, n, p) => Settled(chosen', m, n, p)
<1>1. /\ chosen' \in Seq(EntryType) /\ Len(chosen') = Len(chosen) + 1
      /\ \A i \in 1..Len(chosen) : chosen'[i] = chosen[i]
      /\ chosen'[Len(chosen) + 1] = e
  BY SMTT(60) DEF TypeInv
<1>2. Len(chosen) \in Nat
  BY SMTT(60) DEF TypeInv
<1>3. ASSUME NEW n \in 0..Len(chosen), NEW m, IsLastCommand(chosen, m, n)
      PROVE  IsLastCommand(chosen', m, n)
  <2>1. n \in Nat /\ \A i \in 1..n : chosen'[i] = chosen[i]
    BY <1>1, <1>2, SMTT(60)
  <2> QED  BY <1>3, <2>1, CommandStays
<1>4. ASSUME NEW n \in 0..Len(chosen), NEW m, NEW p \in Page, Settled(chosen, m, n, p)
      PROVE  Settled(chosen', m, n, p)
  BY <1>1, <1>2, <1>4, SettledStays
<1> QED  BY <1>1, <1>3, <1>4

-----------------------------------------------------------------------------
\* Every step keeps the invariant

\* Everything that is labelled with an index lies within the log.
LEMMA IndexBounds ==
  ASSUME Inv
  PROVE  /\ Len(chosen) \in Nat
         /\ applied \in 0..Len(chosen) /\ snaps.index \in 0..Len(chosen)
         /\ taking.index \in 0..Len(chosen) /\ restoring.index \in 0..Len(chosen)
BY SMTT(60) DEF Inv, TypeInv, OrderInv, SnapType

LEMMA InvInit == Init => Inv
<1> SUFFICES ASSUME Init  PROVE Inv
  OBVIOUS
<1>1. TypeInv
  <2>1. chosen \in Seq(EntryType) /\ DOMAIN logs \subseteq 1..(Len(chosen) + 1)
    BY SMTT(60) DEF Init
  <2>2. NoSnap \in SnapType
    BY DEF NoSnap, SnapType
  <2>3. writer \in [pc : {"idle", "proposed", "consumed"}, index : Nat]
    BY DEF Init, Idle
  <2> QED  BY <2>1, <2>2, <2>3 DEF Init, TypeInv
<1>2. OrderInv /\ RowsInv /\ WriterInv
  BY SMTT(60) DEF Init, OrderInv, RowsInv, WriterInv, NoSnap, Idle, Up
<1>3. HeaderInv
  BY SMTT(60) DEF Init, HeaderInv, IsLastCommand, Commands, NoSnap
<1>4. DataInv
  BY SMTT(60) DEF Init, DataInv, AllSettled, Settled, IsLatest, WritersIn, NoSnap
<1> QED  BY <1>1, <1>2, <1>3, <1>4 DEF Inv

\* Another node's entry: nothing here refers to it.
LEMMA StepChoose ==
  ASSUME Inv, NEW pages \in SUBSET Page, Choose(pages)
  PROVE  Inv'
<1> DEFINE e == Entry(pages)
<1>1. e \in EntryType
  BY DEF Entry, EntryType
<1>2. /\ chosen' = Append(chosen, e)
      /\ UNCHANGED <<logs, commit, applied, lastApplied, db, writer, marker,
                     snaps, taking, restoring, node, starts, early>>
  BY DEF Choose, fsmVars, snapVars, nodeVars
<1> HIDE DEF e
<1>3. /\ chosen' \in Seq(EntryType) /\ Len(chosen') = Len(chosen) + 1
      /\ \A i \in 1..Len(chosen) : chosen'[i] = chosen[i]
  BY <1>1, <1>2, ChosenGrows DEF Inv
<1>12. \A n \in 0..Len(chosen) : \A m : IsLastCommand(chosen, m, n) => IsLastCommand(chosen', m, n)
  BY <1>1, <1>2, ChosenGrows DEF Inv
<1>13. \A n \in 0..Len(chosen) : \A m : \A p \in Page :
        Settled(chosen, m, n, p) => Settled(chosen', m, n, p)
  BY <1>1, <1>2, ChosenGrows DEF Inv
<1>4. Len(chosen) \in Nat
  BY SMTT(60) DEF Inv, TypeInv
<1>14. /\ applied \in 0..Len(chosen) /\ snaps.index \in 0..Len(chosen)
      /\ taking.index \in 0..Len(chosen) /\ restoring.index \in 0..Len(chosen)
  BY <1>4, IndexBounds
<1>5. TypeInv'
  BY <1>2, <1>3, <1>4, SMTT(60) DEF Inv, TypeInv
<1>6. OrderInv'
  BY <1>2, <1>3, <1>4, SMTT(60) DEF Inv, TypeInv, OrderInv, SnapType, Up
<1>7. RowsInv'
  BY <1>2, <1>3, <1>4, SMTT(60) DEF Inv, TypeInv, OrderInv, RowsInv
<1>8. WriterInv'
  BY <1>2, <1>3, <1>4, SMTT(60) DEF Inv, TypeInv, OrderInv, WriterInv
<1>9. HeaderInv'
  BY <1>2, <1>12, <1>14 DEF Inv, HeaderInv, Up
<1>10. DataInv'
  <2>1. \A p \in Page : Skipped(p) => Skipped(p)'
    BY <1>2, <1>3, <1>14, SMTT(60) DEF Inv, WriterInv, Skipped
  <2>2. 0 \in 0..Len(chosen)
    BY <1>4, SMTT(60)
  <2> QED  BY <1>2, <1>13, <1>14, <2>1, <2>2 DEF Inv, DataInv, AllSettled, Up
<1> QED  BY <1>5, <1>6, <1>7, <1>8, <1>9, <1>10 DEF Inv


\* Steps that only store rows or learn of commitments leave the FSM's part alone.
LEMMA FsmFrame ==
  ASSUME Inv, UNCHANGED <<chosen, applied, lastApplied, db, writer, marker,
                          snaps, taking, restoring, node, starts, early>>
  PROVE  WriterInv' /\ HeaderInv' /\ DataInv'
<1>1. WriterInv'
  BY DEF Inv, WriterInv
<1>2. HeaderInv'
  BY DEF Inv, HeaderInv, Up
<1>3. DataInv'
  BY DEF Inv, DataInv, AllSettled, Skipped, Up
<1> QED  BY <1>1, <1>2, <1>3

\* AppendEntries: only rows behind the applied ones are deleted, and the batch joins
\* on to the rows that are kept or to what was applied.
LEMMA StepReceive ==
  ASSUME Inv, NEW n \in Index, Receive(n)
  PROVE  Inv'
<1> DEFINE conflicts == {i \in DOMAIN logs : i \in (applied + 1)..Len(chosen) /\ logs[i] # chosen[i]}
           kept == IF conflicts = {} THEN logs
                   ELSE DeleteRange(logs, Min(conflicts), LastIndex(logs))
           from == Max({LastIndex(kept), applied}) + 1
           batch == [i \in from..n |-> IF i <= Len(chosen) THEN chosen[i] ELSE Uncommitted]
<1>1. /\ from <= n /\ n <= Len(chosen) + 1
      /\ logs' = StoreLogs(kept, batch) \/ logs' = kept
      /\ UNCHANGED <<chosen, commit, applied, lastApplied, db, writer, marker,
                     snaps, taking, restoring, node, starts, early>>
  BY DEF Receive, fsmVars, snapVars, nodeVars
<1>2. Len(chosen) \in Nat /\ n \in Nat /\ n >= 1 /\ applied \in Nat /\ commit \in Nat
  BY BoundAssumption, SMTT(60) DEF Inv, TypeInv, Index
<1>3. DOMAIN logs \subseteq 1..(Len(chosen) + 1)
  BY DEF Inv, TypeInv
\* What is kept: all that was applied, all that is committed, and nothing twice.
<1>4. /\ DOMAIN kept \subseteq DOMAIN logs
      /\ \A i \in DOMAIN kept : kept[i] = logs[i]
      /\ \A i \in DOMAIN logs : i <= applied => i \in DOMAIN kept
      /\ \A i \in DOMAIN logs : i <= commit => i \in DOMAIN kept
      /\ \A i \in DOMAIN kept, j \in DOMAIN logs : j <= i => j \in DOMAIN kept
  <2>1. CASE conflicts = {}
    BY <2>1, <1>2, <1>3
  <2>2. CASE conflicts # {}
    <3> DEFINE min == Min(conflicts)
               last == LastIndex(logs)
    <3>1. conflicts \in SUBSET Nat
      BY <1>2, SMTT(60)
    <3>2. min \in conflicts
      BY <2>2, <3>1, MinIs
    <3>3. last \in Nat /\ \A i \in DOMAIN logs : i <= last
      BY <1>2, <1>3, LastIndexIs, SMTT(60)
    <3>4. kept = [i \in DOMAIN logs \ (min..last) |-> logs[i]]
      BY <2>2 DEF DeleteRange
    <3>5. min \in Nat /\ min > applied /\ min > commit
      BY <3>2, <1>2, SMTT(60) DEF Inv, RowsInv
    <3> HIDE DEF min, last, kept, conflicts
    <3> QED  BY <1>2, <1>3, <3>3, <3>4, <3>5, SMTT(60)
  <2> QED  BY <2>1, <2>2
<1> HIDE DEF kept
<1>5. /\ LastIndex(kept) \in Nat
      /\ \A i \in DOMAIN kept : i <= LastIndex(kept)
      /\ DOMAIN kept # {} => LastIndex(kept) \in DOMAIN kept
      /\ DOMAIN kept = {} => LastIndex(kept) = 0
  <2>1. DOMAIN kept \subseteq 1..(Len(chosen) + 1)
    BY <1>3, <1>4
  <2> QED  BY <1>2, <2>1, LastIndexIs, SMTT(60) DEF LastIndex
<1>6. /\ from \in Nat /\ from > LastIndex(kept) /\ from > applied
      /\ from = LastIndex(kept) + 1 \/ from = applied + 1
  BY <1>2, <1>5, MaxOfTwo, SMTT(60)
<1> HIDE DEF from
<1>7. /\ DOMAIN logs' = DOMAIN kept \/ DOMAIN logs' = DOMAIN kept \cup from..n
      /\ \A i \in DOMAIN kept : logs'[i] = kept[i]
  BY <1>1, <1>5, <1>6, SMTT(60) DEF StoreLogs
<1>8. TypeInv'
  <2>1. DOMAIN logs' \subseteq 1..(Len(chosen) + 1)
    BY <1>1, <1>2, <1>3, <1>4, <1>6, <1>7, SMTT(60)
  <2> QED  BY <1>1, <2>1 DEF Inv, TypeInv
<1>9. OrderInv'
  BY <1>1 DEF Inv, OrderInv, Up
<1>10. RowsInv'
  <2>1. \A i \in (applied + 1)..commit : i \in DOMAIN logs' /\ logs'[i] = chosen[i]
    BY <1>2, <1>4, <1>7, SMTT(60) DEF Inv, RowsInv
  <2>2. \A j \in (snaps.index + 1)..applied : j \in DOMAIN logs'
    BY <1>2, <1>4, <1>7, SMTT(60) DEF Inv, TypeInv, SnapType, RowsInv
  <2>3. ASSUME NEW i \in DOMAIN logs', NEW j \in (snaps.index + 1)..i  PROVE j \in DOMAIN logs'
    <3>1. snaps.index \in Nat
      BY DEF Inv, TypeInv, SnapType
    <3>2. i \in Nat /\ j \in Nat
      BY <1>1, <1>2, <1>8, <3>1, SMTT(60) DEF TypeInv
    <3>3. CASE i \in DOMAIN kept
      BY <3>1, <3>2, <3>3, <1>4, <1>7, SMTT(60) DEF Inv, RowsInv
    <3>4. CASE i \notin DOMAIN kept
      <4>1. DOMAIN logs' = DOMAIN kept \cup from..n
        BY <3>4, <1>7
      <4>2. CASE j >= from
        BY <4>1, <4>2, <3>2, <3>4, <1>2, <1>6, SMTT(60)
      <4>3. CASE j <= applied
        BY <4>3, <2>2, <3>1, <3>2, <1>2, SMTT(60)
      <4>4. CASE j > applied /\ j < from
        <5>1. j <= LastIndex(kept)
          BY <4>4, <3>2, <1>2, <1>5, <1>6, SMTT(60)
        <5>2. LastIndex(kept) \in DOMAIN kept
          <6>1. LastIndex(kept) # 0
            BY <5>1, <1>2, <3>2, <4>4, SMTT(60)
          <6> QED  BY <6>1, <1>5
        <5>3. j \in DOMAIN logs
          BY <5>1, <5>2, <1>4, <1>5, <3>1, <3>2, SMTT(60) DEF Inv, RowsInv
        <5> QED  BY <5>1, <5>2, <5>3, <1>4, <1>7
      <4> QED  BY <4>2, <4>3, <4>4, <3>2, <1>2, <1>6, SMTT(60)
    <3> QED  BY <3>3, <3>4
  <2> QED  BY <1>1, <2>1, <2>2, <2>3 DEF RowsInv
<1> QED  BY <1>1, <1>8, <1>9, <1>10, FsmFrame DEF Inv

LEMMA StepLearnCommit ==
  ASSUME Inv, NEW n \in Index, LearnCommit(n)
  PROVE  Inv'
<1>1. /\ Up /\ n > commit /\ n <= Len(chosen) /\ commit' = n
      /\ \A i \in (applied + 1)..n : i \in DOMAIN logs /\ logs[i] = chosen[i]
      /\ UNCHANGED <<chosen, logs, applied, lastApplied, db, writer, marker,
                     snaps, taking, restoring, node, starts, early>>
  BY DEF LearnCommit, fsmVars, snapVars, nodeVars
<1>2. n \in Nat /\ Len(chosen) \in Nat
  BY BoundAssumption, SMTT(60) DEF Index, Inv, TypeInv
<1>3. TypeInv' /\ OrderInv'
  BY <1>1, <1>2, SMTT(60) DEF Inv, TypeInv, OrderInv, Up
<1>4. RowsInv'
  BY <1>1, <1>2 DEF Inv, RowsInv
<1> QED  BY <1>1, <1>3, <1>4, FsmFrame DEF Inv


\* The gate proposes: the new entry is behind all that was applied, and in the table.
LEMMA StepPropose ==
  ASSUME Inv, NEW pages \in (SUBSET Page) \ {{}}, Propose(pages)
  PROVE  Inv'
<1> DEFINE e == Entry(pages)
           i == Len(chosen) + 1
<1>1. e \in EntryType /\ e.pages # {}
  BY DEF Entry, EntryType
<1>2. /\ Up /\ restoring = NoSnap /\ writer = Idle /\ applied = Len(chosen)
      /\ i \notin DOMAIN logs
      /\ chosen' = Append(chosen, e) /\ logs' = StoreLogs(logs, [j \in {i} |-> e])
      /\ writer' = [pc |-> "proposed", index |-> i] /\ marker' = i
      /\ UNCHANGED <<commit, applied, lastApplied, db,
                     snaps, taking, restoring, node, starts, early>>
  BY DEF Propose, snapVars, nodeVars
<1>3. DOMAIN logs' = DOMAIN logs \cup {i} /\ \A j \in DOMAIN logs : logs'[j] = logs[j]
  BY <1>2 DEF StoreLogs
<1> HIDE DEF e
<1>4. /\ chosen' \in Seq(EntryType) /\ Len(chosen') = i
      /\ \A j \in 1..Len(chosen) : chosen'[j] = chosen[j]
      /\ chosen'[i] = e
  BY <1>1, <1>2, ChosenGrows DEF Inv
<1>5. \A n \in 0..Len(chosen) : \A m : IsLastCommand(chosen, m, n) => IsLastCommand(chosen', m, n)
  BY <1>1, <1>2, ChosenGrows DEF Inv
<1>6. \A n \in 0..Len(chosen) : \A m : \A p \in Page :
        Settled(chosen, m, n, p) => Settled(chosen', m, n, p)
  BY <1>1, <1>2, ChosenGrows DEF Inv
<1>7. /\ Len(chosen) \in Nat
      /\ applied \in 0..Len(chosen) /\ snaps.index \in 0..Len(chosen)
      /\ taking.index \in 0..Len(chosen) /\ restoring.index \in 0..Len(chosen)
  BY IndexBounds
<1>8. TypeInv'
  <2>1. DOMAIN logs' \subseteq 1..(Len(chosen') + 1)
    BY <1>3, <1>4, <1>7, SMTT(60) DEF Inv, TypeInv
  <2>2. writer' \in [pc : {"idle", "proposed", "consumed"}, index : Nat] /\ marker' \in Nat
    BY <1>2, <1>7, SMTT(60)
  <2> QED  BY <1>2, <1>4, <2>1, <2>2 DEF Inv, TypeInv
<1>9. OrderInv'
  BY <1>2, <1>4, <1>7, SMTT(60) DEF Inv, TypeInv, OrderInv, Up
<1>10. RowsInv'
  <2>1. \A j \in (applied + 1)..commit : j \in DOMAIN logs' /\ logs'[j] = chosen'[j]
    BY <1>2, <1>7, SMTT(60) DEF Inv, TypeInv, OrderInv
  <2>2. \A j \in (snaps.index + 1)..applied : j \in DOMAIN logs'
    BY <1>3 DEF Inv, RowsInv
  <2>3. ASSUME NEW k \in DOMAIN logs', NEW j \in (snaps.index + 1)..k  PROVE j \in DOMAIN logs'
    <3>1. CASE k \in DOMAIN logs
      BY <1>3, <2>3, <3>1 DEF Inv, RowsInv
    <3>2. CASE k = i
      BY <1>2, <1>3, <1>7, <2>2, <2>3, <3>2, SMTT(60)
    <3> QED  BY <1>3, <3>1, <3>2
  <2> QED  BY <1>2, <2>1, <2>2, <2>3 DEF RowsInv
<1>11. WriterInv'
  BY <1>1, <1>2, <1>4, <1>7, SMTT(60) DEF WriterInv
<1>12. HeaderInv'
  BY <1>2, <1>5, <1>7 DEF Inv, HeaderInv, Up
<1>13. DataInv'
  <2>1. \A p \in Page : ~Skipped(p)
    BY <1>2 DEF Skipped, Idle
  <2>2. 0 \in 0..Len(chosen)
    BY <1>7, SMTT(60)
  <2> QED  BY <1>2, <1>6, <1>7, <2>1, <2>2 DEF Inv, DataInv, AllSettled, Up
<1> QED  BY <1>8, <1>9, <1>10, <1>11, <1>12, <1>13 DEF Inv

\* Entry n that is no command changes neither the last command nor any page.
LEMMA NoCommand ==
  ASSUME NEW log, NEW n \in Nat, log[n + 1].pages = {}
  PROVE  /\ \A m : IsLastCommand(log, m, n) => IsLastCommand(log, m, n + 1)
         /\ \A m, p : Settled(log, m, n, p) => Settled(log, m, n + 1, p)
<1>1. Commands(log, n + 1) = Commands(log, n)
  BY SMTT(60) DEF Commands
<1>2. \A p : WritersIn(log, n + 1, p) = WritersIn(log, n, p)
  BY SMTT(60) DEF WritersIn
<1>3. \A m, p : Ahead(log, m, n, p) => Ahead(log, m, n + 1, p)
  BY SMTT(60) DEF Ahead
<1>4. \A m : IsLastCommand(log, m, n) => IsLastCommand(log, m, n + 1)
  BY <1>1 DEF IsLastCommand
<1>5. \A m, p : IsLatest(log, m, n, p) => IsLatest(log, m, n + 1, p)
  BY <1>2 DEF IsLatest
<1> QED  BY <1>3, <1>4, <1>5 DEF Settled

\* A command is the last one, and the latest writer of its pages.
LEMMA Command ==
  ASSUME NEW log, NEW n \in Nat, log[n + 1].pages # {}
  PROVE  /\ IsLastCommand(log, n + 1, n + 1)
         /\ \A p \in log[n + 1].pages : Settled(log, n + 1, n + 1, p)
         /\ \A p : p \notin log[n + 1].pages =>
              \A m : Settled(log, m, n, p) => Settled(log, m, n + 1, p)
<1>1. IsLastCommand(log, n + 1, n + 1)
  BY SMTT(60) DEF IsLastCommand, Commands
<1>2. ASSUME NEW p \in log[n + 1].pages  PROVE Settled(log, n + 1, n + 1, p)
  BY SMTT(60) DEF Settled, IsLatest, WritersIn
<1>3. ASSUME NEW p, p \notin log[n + 1].pages, NEW m, Settled(log, m, n, p)
      PROVE  Settled(log, m, n + 1, p)
  <2>1. WritersIn(log, n + 1, p) = WritersIn(log, n, p)
    BY <1>3, SMTT(60) DEF WritersIn
  <2>2. Ahead(log, m, n, p) => Ahead(log, m, n + 1, p)
    BY <1>3, SMTT(60) DEF Ahead
  <2>3. IsLatest(log, m, n, p) => IsLatest(log, m, n + 1, p)
    BY <2>1 DEF IsLatest
  <2> QED  BY <1>3, <2>2, <2>3 DEF Settled
<1> QED  BY <1>1, <1>2, <1>3


\* What an apply step has before it: the next entry, as it was chosen.
LEMMA NextEntry ==
  ASSUME Inv, Apply
  PROVE  /\ Up /\ restoring = NoSnap /\ applied + 1 <= commit /\ applied' = applied + 1
         /\ applied \in Nat /\ commit \in Nat /\ Len(chosen) \in Nat
         /\ applied + 1 \in DOMAIN logs /\ logs[applied + 1] = chosen[applied + 1]
         /\ applied + 1 \in 1..Len(chosen) /\ chosen[applied + 1] \in EntryType
         /\ UNCHANGED <<chosen, logs, commit, snaps, taking, restoring,
                        node, starts, early>>
<1>1. /\ Up /\ restoring = NoSnap /\ applied + 1 <= commit /\ applied' = applied + 1
      /\ UNCHANGED <<chosen, logs, commit, snaps, taking, restoring,
                     node, starts, early>>
  BY DEF Apply, snapVars, nodeVars
<1>2. /\ applied \in Nat /\ commit \in Nat /\ Len(chosen) \in Nat /\ commit <= Len(chosen)
      /\ chosen \in Seq(EntryType)
  BY SMTT(60) DEF Inv, TypeInv, OrderInv
<1>3. applied + 1 \in (applied + 1)..commit /\ applied + 1 \in 1..Len(chosen)
  BY <1>1, <1>2, SMTT(60)
<1>4. applied + 1 \in DOMAIN logs /\ logs[applied + 1] = chosen[applied + 1]
  BY <1>3 DEF Inv, RowsInv
<1>5. chosen[applied + 1] \in EntryType
  BY <1>2, <1>3, SMTT(60)
<1> QED  BY <1>1, <1>2, <1>3, <1>4, <1>5

\* The rows in an apply step.
LEMMA ApplyFrame ==
  ASSUME Inv, Apply
  PROVE  RowsInv'
<1>1. snaps.index \in Nat /\ snaps' = snaps /\ chosen' = chosen /\ logs' = logs /\ commit' = commit
  BY NextEntry DEF Inv, TypeInv, SnapType
<1>2. \A j \in (snaps.index + 1)..(applied + 1) : j \in DOMAIN logs
  BY <1>1, NextEntry DEF Inv, RowsInv
<1>3. \A j \in (applied + 1 + 1)..commit : j \in DOMAIN logs /\ logs[j] = chosen[j]
  BY NextEntry, SMTT(60) DEF Inv, RowsInv
<1>4. applied' = applied + 1
  BY NextEntry
<1> QED  BY <1>1, <1>2, <1>3, <1>4 DEF Inv, RowsInv

\* FSM.Apply: the skip of the writer's own entry, an entry without a transaction, and
\* the transaction of another node.
LEMMA StepApply ==
  ASSUME Inv, Apply
  PROVE  Inv'
<1> DEFINE i == applied + 1
           e == chosen[i]
<1>1. /\ Up /\ restoring = NoSnap /\ i <= commit /\ applied' = i /\ Up'
      /\ applied \in Nat /\ commit \in Nat /\ Len(chosen) \in Nat
      /\ i \in 1..Len(chosen) /\ e \in EntryType
      /\ UNCHANGED <<chosen, logs, commit, snaps, taking, restoring,
                     node, starts, early>>
  BY NextEntry DEF Up
<1>2. \/ /\ marker = i /\ marker' = 0 /\ lastApplied' = i /\ db' = db
         /\ writer' = IF writer.pc = "proposed" THEN [writer EXCEPT !.pc = "consumed"]
                      ELSE writer
      \/ marker # i /\ e.pages = {} /\ UNCHANGED <<lastApplied, db, writer, marker>>
      \/ /\ marker # i /\ e.pages # {} /\ writer = Idle
         /\ db' = Overlay(e.pages, i) /\ lastApplied' = i
         /\ UNCHANGED <<writer, marker>>
  BY NextEntry DEF Apply, GetLog, fsmVars
<1>3. RowsInv'
  BY ApplyFrame
<1>4. writer.pc # "proposed" \/ marker = i
  BY <1>1 DEF Inv, WriterInv
<1>5. AllSettled(chosen, db, 0) \/ early
  BY DEF Inv, DataInv
<1>6. \A p \in Page : early \/ Skipped(p) \/ Settled(chosen, db[p], applied, p)
  BY <1>1 DEF Inv, DataInv
<1>7. IsLastCommand(chosen, lastApplied, applied)
  BY <1>1 DEF Inv, HeaderInv
<1>8. OrderInv'
  BY <1>1, SMTT(60) DEF Inv, TypeInv, SnapType, OrderInv, Up
<1>9. CASE marker = i
  <2>1. /\ writer.pc = "proposed" /\ writer.index = i /\ e.pages # {}
        /\ writer \in [pc : {"idle", "proposed", "consumed"}, index : Nat]
    BY <1>1, <1>9, SMTT(60) DEF Inv, TypeInv, WriterInv
  <2>2. marker' = 0 /\ lastApplied' = i /\ db' = db /\ writer' = [pc |-> "consumed", index |-> i]
    BY <1>2, <1>9, <2>1
  <2>3. TypeInv'
    BY <1>1, <2>2, SMTT(60) DEF Inv, TypeInv
  <2>4. WriterInv'
    BY <1>1, <2>2, SMTT(60) DEF WriterInv
  <2>5. HeaderInv'
    BY <1>1, <2>1, <2>2, Command DEF Inv, HeaderInv
  <2>6. \A p \in Page : early \/ Skipped(p)' \/ Settled(chosen, db[p], i, p)
    <3>1. \A p \in Page : ~Skipped(p)
      BY <2>1 DEF Skipped
    <3>2. \A p : p \notin e.pages => \A m : Settled(chosen, m, applied, p) => Settled(chosen, m, i, p)
      BY <1>1, <2>1, Command
    <3>3. \A p \in e.pages : Skipped(p)'
      BY <1>1, <2>2 DEF Skipped
    <3> QED  BY <1>6, <3>1, <3>2, <3>3
  <2>7. DataInv'
    BY <1>1, <2>2, <2>6 DEF Inv, DataInv, AllSettled
  <2> QED  BY <1>3, <1>8, <2>3, <2>4, <2>5, <2>7 DEF Inv
<1>10. CASE marker # i /\ e.pages = {}
  <2>1. UNCHANGED <<lastApplied, db, writer, marker>>
    BY <1>2, <1>10
  <2>2. TypeInv'
    BY <1>1, <2>1, SMTT(60) DEF Inv, TypeInv
  <2>3. WriterInv'
    BY <1>1, <1>4, <1>10, <2>1, SMTT(60) DEF Inv, TypeInv, WriterInv
  <2>4. HeaderInv'
    BY <1>1, <1>7, <1>10, <2>1, NoCommand DEF Inv, HeaderInv
  <2>5. \A p \in Page : early \/ Skipped(p)' \/ Settled(chosen, db[p], i, p)
    <3>1. \A p \in Page : Skipped(p) => Skipped(p)'
      BY <1>1, <2>1 DEF Skipped
    <3>2. \A m, p : Settled(chosen, m, applied, p) => Settled(chosen, m, i, p)
      BY <1>1, <1>10, NoCommand
    <3> QED  BY <1>6, <3>1, <3>2
  <2>6. DataInv'
    BY <1>1, <2>1, <2>5 DEF Inv, DataInv, AllSettled
  <2> QED  BY <1>3, <1>8, <2>2, <2>3, <2>4, <2>6 DEF Inv
<1>11. CASE marker # i /\ e.pages # {}
  <2>1. /\ writer = Idle /\ lastApplied' = i /\ UNCHANGED <<writer, marker>>
        /\ db' = [p \in Page |-> IF p \in e.pages THEN i ELSE db[p]]
    BY <1>2, <1>11 DEF Overlay
  <2>2. TypeInv'
    BY <1>1, <2>1, SMTT(60) DEF Inv, TypeInv
  <2>3. WriterInv'
    BY <1>1, <2>1 DEF Inv, WriterInv, Idle
  <2>4. HeaderInv'
    BY <1>1, <1>11, <2>1, Command DEF Inv, HeaderInv
  <2>5. \A p \in Page : early \/ Settled(chosen, db'[p], i, p)
    <3>1. \A p \in Page : ~Skipped(p)
      BY <2>1 DEF Skipped, Idle
    <3>2. /\ \A p \in e.pages : Settled(chosen, i, i, p)
          /\ \A p : p \notin e.pages => \A m : Settled(chosen, m, applied, p) => Settled(chosen, m, i, p)
      BY <1>1, <1>11, Command
    <3> QED  BY <1>6, <2>1, <3>1, <3>2
  <2>6. \A p \in Page : early \/ Settled(chosen, db'[p], 0, p)
    <3>1. \A p \in e.pages : Settled(chosen, i, 0, p)
      BY <1>1, SMTT(60) DEF Settled, Ahead
    <3> QED  BY <1>5, <2>1, <3>1 DEF AllSettled
  <2>7. DataInv'
    BY <1>1, <2>5, <2>6 DEF Inv, DataInv, AllSettled
  <2> QED  BY <1>3, <1>8, <2>2, <2>3, <2>4, <2>7 DEF Inv
<1> QED  BY <1>9, <1>10, <1>11


\* The writer publishes what Apply skipped: no command came in between.
LEMMA StepPublish ==
  ASSUME Inv, Publish
  PROVE  Inv'
<1> DEFINE w == writer.index
<1>1. /\ writer.pc = "consumed" /\ writer' = Idle
      /\ db' = [p \in Page |-> IF p \in chosen[w].pages THEN w ELSE db[p]]
      /\ UNCHANGED <<chosen, logs, commit, applied, lastApplied, marker,
                     snaps, taking, restoring, node, starts, early>>
  BY DEF Publish, Overlay, raftVars, snapVars, nodeVars
<1>2. /\ applied \in 0..Len(chosen) /\ Len(chosen) \in Nat /\ w \in 1..applied
      /\ \A i \in (w + 1)..applied : chosen[i].pages = {}
  BY <1>1, IndexBounds DEF Inv, WriterInv
<1>3. TypeInv' /\ OrderInv' /\ RowsInv'
  <2>1. w \in Nat /\ Idle \in [pc : {"idle", "proposed", "consumed"}, index : Nat]
    BY <1>2, SMTT(60) DEF Idle
  <2>2. TypeInv'
    BY <1>1, <2>1 DEF Inv, TypeInv
  <2>3. OrderInv' /\ RowsInv'
    BY <1>1 DEF Inv, OrderInv, RowsInv, Up
  <2> QED  BY <2>2, <2>3
<1>4. WriterInv'
  BY <1>1 DEF Inv, WriterInv, Idle
<1>5. HeaderInv'
  BY <1>1 DEF Inv, HeaderInv, Up
<1>6. DataInv'
  <2>1. ASSUME NEW p \in chosen[w].pages
        PROVE  Settled(chosen, w, applied, p) /\ Settled(chosen, w, 0, p)
    <3>1. IsLatest(chosen, w, applied, p)
      BY <1>2, SMTT(60) DEF IsLatest, WritersIn
    <3>2. Ahead(chosen, w, 0, p)
      BY <1>2, SMTT(60) DEF Ahead
    <3> QED  BY <3>1, <3>2 DEF Settled
  <2>2. \A p \in Page : Skipped(p) => p \in chosen[w].pages
    BY DEF Skipped
  <2> QED  BY <1>1, <2>1, <2>2 DEF Inv, DataInv, AllSettled, Up
<1> QED  BY <1>3, <1>4, <1>5, <1>6 DEF Inv

LEMMA StepAbandon ==
  ASSUME Inv, Abandon
  PROVE  Inv'
<1>1. /\ writer.pc = "proposed" /\ writer' = Idle /\ marker' = 0
      /\ UNCHANGED <<chosen, logs, commit, applied, lastApplied, db,
                     snaps, taking, restoring, node, starts, early>>
  BY DEF Abandon, raftVars, snapVars, nodeVars
<1>2. TypeInv' /\ OrderInv' /\ RowsInv'
  BY <1>1 DEF Inv, TypeInv, OrderInv, RowsInv, Idle, Up
<1>3. WriterInv'
  BY <1>1 DEF WriterInv, Idle
<1>4. HeaderInv'
  BY <1>1 DEF Inv, HeaderInv, Up
<1>5. DataInv'
  BY <1>1 DEF Inv, DataInv, AllSettled, Skipped, Up
<1> QED  BY <1>2, <1>3, <1>4, <1>5 DEF Inv

\* FSM.Snapshot: the database as it is, which no skipped entry is missing from unless
\* the snapshot is early.
LEMMA StepSnapshot ==
  ASSUME Inv, Snapshot
  PROVE  Inv'
<1>1. /\ Up /\ applied > snaps.index
      /\ taking' = [index |-> applied, header |-> lastApplied, pages |-> db]
      /\ early' = (early \/ writer.pc = "consumed")
      /\ UNCHANGED <<chosen, logs, commit, applied, lastApplied, db, writer, marker,
                     snaps, restoring, node, starts>>
  BY DEF Snapshot, raftVars, fsmVars, nodeVars
<1>2. taking'.index = applied /\ taking'.header = lastApplied /\ taking'.pages = db
  BY <1>1
<1>3. TypeInv'
  BY <1>1 DEF Inv, TypeInv, SnapType
<1>4. OrderInv' /\ RowsInv' /\ WriterInv'
  BY <1>1, <1>2, SMTT(60) DEF Inv, TypeInv, OrderInv, RowsInv, WriterInv, Up
<1>5. HeaderInv'
  BY <1>1, <1>2 DEF Inv, HeaderInv, Up
<1>6. DataInv'
  BY <1>1, <1>2 DEF Inv, DataInv, AllSettled, Skipped, Up
<1> QED  BY <1>3, <1>4, <1>5, <1>6 DEF Inv

\* The empty snapshot.
LEMMA NoSnapIs ==
  /\ NoSnap \in SnapType /\ NoSnap.index = 0 /\ NoSnap.header = 0
  /\ \A log : IsLastCommand(log, NoSnap.header, NoSnap.index)
  /\ \A log : AllSettled(log, NoSnap.pages, NoSnap.index)
<1>1. NoSnap \in SnapType /\ NoSnap.index = 0 /\ NoSnap.header = 0
      /\ \A p \in Page : NoSnap.pages[p] = 0
  BY DEF NoSnap, SnapType
<1>2. \A log : IsLastCommand(log, 0, 0)
  BY SMTT(60) DEF IsLastCommand, Commands
<1>3. \A log, p : Settled(log, 0, 0, p)
  BY SMTT(60) DEF Settled, IsLatest, WritersIn
<1> QED  BY <1>1, <1>2, <1>3 DEF AllSettled

\* A persisted snapshot replaces an older one, and only rows that it covers go.
LEMMA StepPersist ==
  ASSUME Inv, NEW ok \in BOOLEAN, Persist(ok)
  PROVE  Inv'
<1>1. /\ Up /\ taking' = NoSnap
      /\ UNCHANGED <<chosen, commit, applied, lastApplied, db, writer, marker,
                     restoring, node, starts, early>>
  BY DEF Persist, fsmVars, nodeVars
<1>2. \/ snaps' = taking /\ taking.index > snaps.index /\ logs' = Compacted(logs, taking.index)
      \/ snaps' = snaps /\ logs' = logs
  BY DEF Persist
<1>3. snaps' \in SnapType /\ taking' \in SnapType /\ snaps'.index \in Nat /\ snaps.index \in Nat
      /\ snaps.index <= snaps'.index
  BY <1>1, <1>2, NoSnapIs, SMTT(60) DEF Inv, TypeInv, SnapType
<1>4. /\ DOMAIN logs' \subseteq DOMAIN logs
      /\ \A i \in DOMAIN logs : i > applied \/ i > snaps'.index =>
           i \in DOMAIN logs' /\ logs'[i] = logs[i]
  <2>1. CASE snaps' = taking /\ logs' = Compacted(logs, taking.index)
    <3>1. /\ taking.index \in Nat /\ applied \in Nat /\ taking.index <= applied
          /\ Len(chosen) + 1 \in Nat /\ DOMAIN logs \subseteq 1..(Len(chosen) + 1)
      BY SMTT(60) DEF Inv, TypeInv, SnapType, OrderInv
    <3>2. /\ DOMAIN logs' \subseteq DOMAIN logs
          /\ \A i \in DOMAIN logs : i > taking.index =>
               i \in DOMAIN logs' /\ logs'[i] = logs[i]
      BY <2>1, <3>1, CompactedIs
    <3> QED  BY <2>1, <3>1, <3>2, SMTT(60)
  <2>2. CASE logs' = logs
    BY <2>2
  <2> QED  BY <1>2, <2>1, <2>2
<1>5. TypeInv'
  BY <1>1, <1>3, <1>4 DEF Inv, TypeInv
<1>6. OrderInv'
  BY <1>1, <1>2, <1>3, NoSnapIs, IndexBounds, SMTT(60) DEF Inv, TypeInv, OrderInv, Up
<1>7. RowsInv'
  <2>1. DOMAIN logs \subseteq 1..(Len(chosen) + 1) /\ Len(chosen) \in Nat /\ applied \in Nat
    BY SMTT(60) DEF Inv, TypeInv
  <2>2. \A i \in (applied + 1)..commit : i \in DOMAIN logs' /\ logs'[i] = chosen[i]
    BY <1>4, <2>1, SMTT(60) DEF Inv, TypeInv, RowsInv
  <2>3. \A i \in DOMAIN logs' : \A j \in (snaps'.index + 1)..i : j \in DOMAIN logs'
    BY <1>3, <1>4, <2>1, SMTT(60) DEF Inv, RowsInv
  <2>4. \A j \in (snaps'.index + 1)..applied : j \in DOMAIN logs'
    BY <1>3, <1>4, <2>1, SMTT(60) DEF Inv, RowsInv
  <2> QED  BY <1>1, <2>2, <2>3, <2>4 DEF RowsInv
<1>8. WriterInv'
  BY <1>1 DEF Inv, WriterInv
<1>9. HeaderInv'
  BY <1>1, <1>2, NoSnapIs DEF Inv, HeaderInv, Up
<1>10. DataInv'
  <2>1. \A p \in Page : Skipped(p)' <=> Skipped(p)
    BY <1>1 DEF Skipped
  <2>2. ~early => AllSettled(chosen, snaps'.pages, snaps'.index)
    BY <1>2 DEF Inv, DataInv
  <2>3. AllSettled(chosen, taking'.pages, taking'.index)
    BY <1>1, NoSnapIs
  <2> QED  BY <1>1, <2>1, <2>2, <2>3 DEF Inv, DataInv, Up
<1> QED  BY <1>5, <1>6, <1>7, <1>8, <1>9, <1>10 DEF Inv


\* The leader's snapshot is one that this node could have taken.
LEMMA StepInstall ==
  ASSUME Inv, NEW n \in Index, Install(n)
  PROVE  Inv'
<1>1. PICK pages \in [Page -> 0..Len(chosen)] :
        LET s == [index |-> n, header |-> LastCommand(n), pages |-> pages]
        IN  Usable(s) /\ snaps' = s /\ restoring' = s
  BY DEF Install
<1> DEFINE s == [index |-> n, header |-> LastCommand(n), pages |-> pages]
<1>2. /\ Up /\ restoring = NoSnap /\ n \in (applied + 1)..Len(chosen) /\ n > snaps.index
      /\ snaps' = s /\ restoring' = s
      /\ UNCHANGED <<chosen, logs, commit, applied, lastApplied, db, writer, marker,
                     taking, node, starts, early>>
  BY <1>1 DEF Install, raftVars, fsmVars, nodeVars
<1>3. n \in Nat /\ n \in 0..Len(chosen) /\ applied < n /\ n <= Len(chosen)
  BY <1>2, IndexBounds, BoundAssumption, SMTT(60) DEF Index
<1>4. LastCommand(n) \in Nat /\ IsLastCommand(chosen, LastCommand(n), n)
  BY <1>3, LastCommandIs DEF Inv
<1>5. AllSettled(chosen, pages, n)
  <2> SUFFICES ASSUME NEW p \in Page  PROVE Settled(chosen, pages[p], n, p)
    BY DEF AllSettled
  <2>1. pages[p] = Content(n)[p] \/ pages[p] \in Pending(n, p)
    BY <1>1 DEF Usable
  <2>2. IsLatest(chosen, Content(n)[p], n, p)
    BY <1>3, ContentIs DEF Inv
  <2> QED  BY <2>1, <2>2 DEF Settled, Ahead, Pending
<1>6. pages \in [Page -> Nat]
  BY IndexBounds, SMTT(60)
<1>7. s \in SnapType /\ s.index = n /\ s.header = LastCommand(n) /\ s.pages = pages
  BY <1>3, <1>4, <1>6 DEF SnapType
<1> HIDE DEF s
<1>8. TypeInv'
  BY <1>2, <1>7 DEF Inv, TypeInv
<1>9. OrderInv'
  BY <1>2, <1>3, <1>7, SMTT(60) DEF Inv, OrderInv, Up
<1>10. RowsInv'
  BY <1>2, <1>3, <1>7, IndexBounds, SMTT(60) DEF Inv, TypeInv, RowsInv
<1>11. WriterInv'
  BY <1>2 DEF Inv, WriterInv
<1>12. HeaderInv'
  BY <1>2, <1>4, <1>7 DEF Inv, HeaderInv, Up
<1>13. DataInv'
  <2>1. \A p \in Page : Skipped(p)' <=> Skipped(p)
    BY <1>2 DEF Skipped
  <2> QED  BY <1>2, <1>5, <1>7, <2>1 DEF Inv, DataInv, Up
<1> QED  BY <1>8, <1>9, <1>10, <1>11, <1>12, <1>13 DEF Inv

\* Content that is settled at an index is settled for a replay from the beginning.
LEMMA SettledFromStart ==
  ASSUME NEW log, Len(log) \in Nat, NEW n \in 0..Len(log), NEW pages, AllSettled(log, pages, n)
  PROVE  AllSettled(log, pages, 0)
<1> SUFFICES ASSUME NEW m, NEW p, Settled(log, m, n, p)  PROVE Settled(log, m, 0, p)
  BY DEF AllSettled
<1>1. CASE m = 0
  BY <1>1, SMTT(60) DEF Settled, IsLatest, WritersIn
<1>2. CASE m # 0
  <2>1. m \in 1..Len(log) /\ p \in log[m].pages
    BY <1>2, SMTT(60) DEF Settled, IsLatest, WritersIn, Ahead
  <2> QED  BY <2>1, SMTT(60) DEF Settled, Ahead
<1> QED  BY <1>1, <1>2

\* FSM.Restore is through: the node is where the snapshot is, and the rows behind it
\* are still there.
LEMMA StepRestoreEnd ==
  ASSUME Inv, RestoreEnd
  PROVE  Inv'
<1> DEFINE n == restoring.index
<1>1. /\ Up /\ restoring # NoSnap /\ writer = Idle
      /\ db' = restoring.pages /\ lastApplied' = restoring.header /\ applied' = n
      /\ commit' = Max({commit, n}) /\ logs' = Compacted(logs, n) /\ restoring' = NoSnap
      /\ UNCHANGED <<chosen, writer, marker, snaps, taking, node, starts, early>>
  BY DEF RestoreEnd, Restored, nodeVars
<1>2. /\ n \in Nat /\ n > applied /\ applied \in Nat /\ commit \in Nat /\ n <= snaps.index
      /\ snaps.index \in Nat /\ snaps.index <= Len(chosen) /\ Len(chosen) \in Nat
      /\ commit <= Len(chosen) /\ restoring \in SnapType
      /\ DOMAIN logs \subseteq 1..(Len(chosen) + 1)
  BY <1>1, SMTT(60) DEF Inv, TypeInv, SnapType, OrderInv
<1>3. commit' \in {commit, n} /\ commit <= commit' /\ n <= commit'
  BY <1>1, <1>2, MaxOfTwo
<1>4. /\ DOMAIN logs' \subseteq DOMAIN logs
      /\ \A i \in DOMAIN logs : i > n => i \in DOMAIN logs' /\ logs'[i] = logs[i]
  <2>1. Len(chosen) + 1 \in Nat
    BY <1>2, SMTT(60)
  <2> QED  BY <1>1, <1>2, <2>1, CompactedIs
<1>5. TypeInv'
  <2>1. restoring.pages \in [Page -> Nat] /\ restoring.header \in Nat
    BY <1>2 DEF SnapType
  <2> QED  BY <1>1, <1>2, <1>3, <1>4, <2>1, NoSnapIs DEF Inv, TypeInv
<1>6. OrderInv'
  BY <1>1, <1>2, <1>3, NoSnapIs, SMTT(60) DEF Inv, TypeInv, SnapType, OrderInv, Up
<1>7. RowsInv'
  <2>1. \A i \in (n + 1)..commit' : i \in DOMAIN logs' /\ logs'[i] = chosen[i]
    BY <1>2, <1>3, <1>4, SMTT(60) DEF Inv, RowsInv
  <2>2. \A i \in DOMAIN logs' : \A j \in (snaps.index + 1)..i : j \in DOMAIN logs'
    BY <1>2, <1>4, SMTT(60) DEF Inv, RowsInv
  <2>3. \A j \in (snaps.index + 1)..n : j \in DOMAIN logs'
    BY <1>2, SMTT(60)
  <2> QED  BY <1>1, <2>1, <2>2, <2>3 DEF RowsInv
<1>8. WriterInv'
  BY <1>1 DEF Inv, WriterInv, Idle
<1>9. HeaderInv'
  BY <1>1, NoSnapIs DEF Inv, HeaderInv
<1>10. DataInv'
  <2>1. ~early => AllSettled(chosen, db', n)
    BY <1>1 DEF Inv, DataInv
  <2>2. ~early => AllSettled(chosen, db', 0)
    BY <1>2, <2>1, SettledFromStart, SMTT(60)
  <2>3. \A p \in Page : ~early => Settled(chosen, db'[p], n, p)
    BY <2>1 DEF AllSettled
  <2> QED  BY <1>1, <2>2, <2>3, NoSnapIs DEF Inv, DataInv
<1> QED  BY <1>5, <1>6, <1>7, <1>8, <1>9, <1>10 DEF Inv

LEMMA StepRestoreFail ==
  ASSUME Inv, RestoreFail
  PROVE  Inv'
<1>1. /\ Up /\ restoring' = NoSnap
      /\ UNCHANGED <<chosen, logs, commit, applied, lastApplied, db, writer, marker,
                     snaps, taking, node, starts, early>>
  BY DEF RestoreFail, raftVars, fsmVars, nodeVars
<1>2. TypeInv'
  BY <1>1, NoSnapIs DEF Inv, TypeInv
<1>3. OrderInv'
  BY <1>1, NoSnapIs, IndexBounds, SMTT(60) DEF Inv, OrderInv, Up
<1>4. RowsInv' /\ WriterInv'
  BY <1>1 DEF Inv, RowsInv, WriterInv
<1>5. HeaderInv'
  BY <1>1, NoSnapIs DEF Inv, HeaderInv, Up
<1>6. DataInv'
  <2>1. \A p \in Page : Skipped(p)' <=> Skipped(p)
    BY <1>1 DEF Skipped
  <2> QED  BY <1>1, <2>1, NoSnapIs DEF Inv, DataInv, Up
<1> QED  BY <1>2, <1>3, <1>4, <1>5, <1>6 DEF Inv

\* What the process leaves on disk.
LEMMA StepCrash ==
  ASSUME Inv, Crash
  PROVE  Inv'
<1>1. /\ node' = "down" /\ applied' = 0 /\ commit' = 0 /\ lastApplied' = 0
      /\ writer' = Idle /\ marker' = 0 /\ taking' = NoSnap
      /\ restoring' = NoSnap /\ UNCHANGED <<chosen, logs, db, snaps, starts, early>>
  BY DEF Crash
<1>2. TypeInv'
  BY <1>1, NoSnapIs DEF Inv, TypeInv, Idle
<1>3. OrderInv' /\ ~Up'
  BY <1>1, NoSnapIs, IndexBounds, SMTT(60) DEF Inv, OrderInv, Up
<1>4. RowsInv'
  BY <1>1, IndexBounds, SMTT(60) DEF Inv, RowsInv
<1>5. WriterInv'
  BY <1>1 DEF WriterInv, Idle
<1>6. HeaderInv'
  BY <1>1, <1>3, NoSnapIs DEF Inv, HeaderInv
<1>7. DataInv'
  BY <1>1, <1>3, NoSnapIs DEF Inv, DataInv
<1> QED  BY <1>2, <1>3, <1>4, <1>5, <1>6, <1>7 DEF Inv

\* A start: from the newest snapshot or, without one, from the database as it is.
LEMMA StepStart ==
  ASSUME Inv, Start
  PROVE  Inv'
<1>1. /\ ~Up /\ node' = "up" /\ Up'
      /\ commit = 0 /\ applied = 0 /\ lastApplied = 0
      /\ writer = Idle /\ marker = 0 /\ taking = NoSnap /\ restoring = NoSnap
      /\ UNCHANGED <<chosen, logs, writer, marker, snaps, taking, restoring, early>>
  BY DEF Start, Up, snapVars, Inv, OrderInv
<1>2. \/ /\ db' = snaps.pages /\ lastApplied' = snaps.header
         /\ applied' = snaps.index /\ commit' = snaps.index
      \/ snaps = NoSnap /\ UNCHANGED <<db, lastApplied, applied, commit>>
  BY DEF Start, Restored
<1>3. /\ snaps \in SnapType /\ snaps.index \in Nat /\ snaps.header \in Nat
      /\ snaps.pages \in [Page -> Nat] /\ snaps.index \in 0..Len(chosen) /\ Len(chosen) \in Nat
  BY IndexBounds DEF Inv, TypeInv, SnapType
<1>4. applied' = snaps.index /\ commit' = snaps.index /\ lastApplied' = snaps.header
  BY <1>1, <1>2, NoSnapIs
<1>5. db' \in [Page -> Nat]
  BY <1>2, <1>3 DEF Inv, TypeInv
<1>6. TypeInv'
  BY <1>1, <1>3, <1>4, <1>5 DEF Inv, TypeInv
<1>7. OrderInv'
  BY <1>1, <1>3, <1>4, NoSnapIs, SMTT(60) DEF Inv, OrderInv
<1>8. RowsInv'
  BY <1>1, <1>3, <1>4, SMTT(60) DEF Inv, RowsInv
<1>9. WriterInv'
  BY <1>1 DEF Inv, WriterInv, Idle
<1>10. HeaderInv'
  BY <1>1, <1>4 DEF Inv, HeaderInv
<1>11. DataInv'
  <2>1. ~early => AllSettled(chosen, db', snaps.index) /\ AllSettled(chosen, db', 0)
    <3>1. CASE db' = snaps.pages
      BY <3>1, <1>3, SettledFromStart DEF Inv, DataInv
    <3>2. CASE snaps.index = 0 /\ db' = db
      BY <3>2 DEF Inv, DataInv
    <3> QED  BY <1>2, <3>1, <3>2, NoSnapIs
  <2>2. \A p \in Page : ~early => Settled(chosen, db'[p], snaps.index, p)
    BY <2>1 DEF AllSettled
  <2> QED  BY <1>1, <1>4, <2>1, <2>2 DEF Inv, DataInv
<1> QED  BY <1>6, <1>7, <1>8, <1>9, <1>10, <1>11 DEF Inv


-----------------------------------------------------------------------------
\* The theorems

LEMMA InvNext == Inv /\ [Next]_vars => Inv'
<1> SUFFICES ASSUME Inv, [Next]_vars  PROVE Inv'
  OBVIOUS
<1>1. CASE UNCHANGED vars
  <2>1. UNCHANGED <<chosen, logs, commit, applied, lastApplied, db, writer, marker,
                    snaps, taking, restoring, node, starts, early>>
    BY <1>1 DEF vars, raftVars, fsmVars, snapVars, nodeVars
  <2>2. TypeInv' /\ OrderInv' /\ RowsInv'
    BY <2>1 DEF Inv, TypeInv, OrderInv, RowsInv, Up
  <2> QED  BY <2>1, <2>2, FsmFrame DEF Inv
<1>2. CASE \E pages \in SUBSET Page : Choose(pages)
  BY <1>2, StepChoose
<1>3. CASE \E pages \in (SUBSET Page) \ {{}} : Propose(pages)
  BY <1>3, StepPropose
<1>4. CASE \E n \in Index : Receive(n) \/ LearnCommit(n) \/ Install(n)
  BY <1>4, StepReceive, StepLearnCommit, StepInstall
<1>5. CASE Apply \/ Publish \/ Abandon \/ Snapshot
  BY <1>5, StepApply, StepPublish, StepAbandon, StepSnapshot
<1>6. CASE \E ok \in BOOLEAN : Persist(ok)
  BY <1>6, StepPersist
<1>7. CASE RestoreEnd \/ RestoreFail \/ Crash \/ Start
  BY <1>7, StepRestoreEnd, StepRestoreFail, StepCrash, StepStart
<1> QED  BY <1>1, <1>2, <1>3, <1>4, <1>5, <1>6, <1>7 DEF Next

LEMMA RecoveryInvariant == Spec => []Inv
BY InvInit, InvNext, PTL DEF Spec

\* However a node got there (own writes, Apply, a restored snapshot, restarts, any
\* number of crashes in between), once it has applied the whole log its database has the
\* content of the log, unless a snapshot was taken before a consumed entry was published.
THEOREM DatabaseConverges == Spec => []Converged
<1>1. Inv => Converged
  <2> SUFFICES ASSUME Inv, ~early, Up, writer.pc # "consumed", applied = Len(chosen)
               PROVE  db = Content(applied)
    BY DEF Converged
  <2>1. applied \in 0..Len(chosen) /\ Len(chosen) \in Nat
    BY IndexBounds
  <2>2. ASSUME NEW p \in Page  PROVE db[p] = Content(applied)[p]
    <3>1. Settled(chosen, db[p], applied, p)
      BY DEF Inv, DataInv, Skipped
    <3>2. ~Ahead(chosen, db[p], applied, p)
      BY <2>1, SMTT(60) DEF Ahead
    <3> QED  BY <2>1, <3>1, <3>2, ContentIs DEF Inv, Settled
  <2> QED  BY <2>2 DEF Inv, TypeInv, Content
<1> QED  BY <1>1, RecoveryInvariant, PTL

\* Two nodes that have applied the same entries compare the same lastApplied in the
\* base-index check, whatever snapshots and restarts they went through.
THEOREM BaseIndexesAgree == Spec => []BaseAgrees
<1>1. Inv => BaseAgrees
  BY LastCommandIs, IndexBounds DEF Inv, HeaderInv, BaseAgrees
<1> QED  BY <1>1, RecoveryInvariant, PTL

\* After any compaction, truncation or failed batch, the store has every row that a
\* restart from the newest snapshot reads.
THEOREM StoreCanReplay == Spec => []ReplayPossible
<1>1. Inv => ReplayPossible
  <2> SUFFICES ASSUME Inv, NEW i \in (snaps.index + 1)..LastIndex(logs)  PROVE i \in DOMAIN logs
    BY DEF ReplayPossible
  <2>1. /\ snaps.index \in Nat /\ Len(chosen) + 1 \in Nat
        /\ DOMAIN logs \subseteq 1..(Len(chosen) + 1)
    BY SMTT(60) DEF Inv, TypeInv, SnapType
  <2>2. /\ LastIndex(logs) \in 0..(Len(chosen) + 1)
        /\ DOMAIN logs # {} => LastIndex(logs) \in DOMAIN logs
    BY <2>1, LastIndexIs
  <2>3. DOMAIN logs # {}
    <3>1. DOMAIN logs = {} => LastIndex(logs) = 0
      BY DEF LastIndex
    <3>2. LastIndex(logs) \in Nat
      BY <2>1, <2>2, SMTT(60)
    <3>3. LastIndex(logs) # 0
      BY <2>1, <3>2, SMTT(60)
    <3> QED  BY <3>1, <3>3
  <2> QED  BY <2>2, <2>3 DEF Inv, RowsInv
<1> QED  BY <1>1, RecoveryInvariant, PTL

\* Whatever is persisted or in the store, and whoever restores it, replaying the log
\* behind its index ends in the content of the log, unless it was taken before a consumed
\* entry was published.
THEOREM SnapshotsAreUsable == Spec => []SnapshotIsUsable
<1>1. ASSUME Inv, ~early, NEW s \in SnapType, s.index \in 0..Len(chosen),
             IsLastCommand(chosen, s.header, s.index), AllSettled(chosen, s.pages, s.index)
      PROVE  Usable(s)
  <2>1. s.header = LastCommand(s.index)
    BY <1>1, LastCommandIs DEF Inv
  <2>2. ASSUME NEW p \in Page
        PROVE  s.pages[p] \in {Content(s.index)[p]} \cup Pending(s.index, p)
    <3>1. IsLatest(chosen, s.pages[p], s.index, p) \/ Ahead(chosen, s.pages[p], s.index, p)
      BY <1>1 DEF AllSettled, Settled
    <3>2. IsLatest(chosen, s.pages[p], s.index, p) => s.pages[p] = Content(s.index)[p]
      BY <1>1, ContentIs DEF Inv
    <3>3. Ahead(chosen, s.pages[p], s.index, p) => s.pages[p] \in Pending(s.index, p)
      BY DEF Ahead, Pending
    <3> QED  BY <3>1, <3>2, <3>3
  <2> QED  BY <2>1, <2>2 DEF Usable
<1>2. Inv => SnapshotIsUsable
  BY <1>1, IndexBounds DEF Inv, TypeInv, HeaderInv, DataInv, SnapshotIsUsable, SnapshotIsComplete
<1> QED  BY <1>2, RecoveryInvariant, PTL

=============================================================================
