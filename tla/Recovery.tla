------------------------------ MODULE Recovery ------------------------------
(***************************************************************************)
(* How one node's database follows the committed log through snapshots,    *)
(* restores and restarts: fsm with snapshotter, over raftsqlite.Store.     *)
(* What hashicorp/raft does with them is external: it stores entries,      *)
(* applies the committed ones in order on one goroutine, which also takes  *)
(* and restores snapshots, and compacts the log.                           *)
(*                                                                         *)
(* A page's content is the index of the entry that wrote it last.          *)
(***************************************************************************)
EXTENDS Integers, Sequences, FiniteSets, FiniteSetsExt

CONSTANTS Page,
          Trailing,    \* entries raft keeps behind a snapshot
          MaxIndex, MaxStarts   \* bounds

ASSUME TrailingAssumption == Trailing \in Nat
ASSUME BoundAssumption == MaxIndex \in Nat

VARIABLES
  chosen,       \* the entries the cluster committed, in order
  logs,         \* the logs table: rows by index
  commit,       \* what this node knows to be committed
  applied,      \* raft's last applied index
  lastApplied,  \* FSM.lastApplied
  db,           \* the database: page -> index
  writer,       \* a local writer: [pc, index]; it holds the write lock unless idle
  marker,       \* its skip marker: the index of the entry to skip, or 0
  snaps,        \* the newest snapshot in the snapshot store
  taking,       \* the snapshot being persisted
  restoring,    \* what FSM.Restore is restoring, waiting for the write lock
  node, starts,
  early         \* history: a snapshot was taken before a consumed entry was published

raftVars == <<chosen, logs, commit, applied>>
fsmVars == <<lastApplied, db, writer, marker>>
snapVars == <<snaps, taking, restoring>>
nodeVars == <<node, starts>>
vars == <<raftVars, fsmVars, snapVars, nodeVars, early>>

-----------------------------------------------------------------------------
Index == 1..MaxIndex
Entry(pages) == [term |-> "new", pages |-> pages]   \* no pages: not a command
Uncommitted == [term |-> "old", pages |-> Page]
NoSnap == [index |-> 0, header |-> 0, pages |-> [p \in Page |-> 0]]
Idle == [pc |-> "idle", index |-> 0]

Up == node = "up"
Writers(n, p) == {i \in 1..n : p \in chosen[i].pages}
Content(n) == [p \in Page |-> Max({0} \cup Writers(n, p))]
LastCommand(n) == Max({0} \cup {i \in 1..n : chosen[i].pages # {}})
Overlay(pages, i) == [p \in Page |-> IF p \in pages THEN i ELSE db[p]]

\* FirstIndex and LastIndex: 0 for an empty table.
FirstIndex(rows) == IF DOMAIN rows = {} THEN 0 ELSE Min(DOMAIN rows)
LastIndex(rows) == IF DOMAIN rows = {} THEN 0 ELSE Max(DOMAIN rows)

\* StoreLogs: an upsert of the whole batch or, on an error, of nothing.
StoreLogs(rows, batch) == [i \in DOMAIN rows \cup DOMAIN batch |->
                             IF i \in DOMAIN batch THEN batch[i] ELSE rows[i]]

\* Mutation: one row too many.
DeleteRangeWide(rows, min, max) == [i \in DOMAIN rows \ (min..(max + 1)) |-> rows[i]]

DeleteRange(rows, min, max) == [i \in DOMAIN rows \ (min..max) |-> rows[i]]

\* GetLog, for an index that must be there.
GetLog(rows, i) == rows[i]

\* Compaction after a snapshot (external).
Compacted(rows, index) ==
  LET upTo == Min({index, LastIndex(rows) - Trailing})
  IN  DeleteRange(rows, FirstIndex(rows), upTo)

-----------------------------------------------------------------------------
\* The log grows

\* Another node's entry is committed.
Choose(pages) ==
  /\ Len(chosen) < MaxIndex
  /\ chosen' = Append(chosen, Entry(pages))
  /\ UNCHANGED <<logs, commit, applied, fsmVars, snapVars, nodeVars, early>>

\* AppendEntries (external) up to n: rows that conflict are deleted with all after
\* them, then the batch is stored.  The last entry may be one of an old leader
\* that is never committed.
Receive(n) ==
  LET conflicts == {i \in DOMAIN logs : i \in (applied + 1)..Len(chosen) /\ logs[i] # chosen[i]}
      kept == IF conflicts = {} THEN logs
              ELSE DeleteRange(logs, Min(conflicts), LastIndex(logs))
      from == Max({LastIndex(kept), applied}) + 1
      batch == [i \in from..n |-> IF i <= Len(chosen) THEN chosen[i] ELSE Uncommitted]
  IN  /\ Up /\ restoring = NoSnap
      /\ from <= n /\ n <= Len(chosen) + 1
      /\ \/ logs' = StoreLogs(kept, batch)
         \/ logs' = kept        \* StoreLogs failed
      /\ UNCHANGED <<chosen, commit, applied, fsmVars, snapVars, nodeVars, early>>

LearnCommit(n) ==
  /\ Up /\ n > commit /\ n <= Len(chosen)
  /\ \A i \in (applied + 1)..n : i \in DOMAIN logs /\ logs[i] = chosen[i]
  /\ commit' = n
  /\ UNCHANGED <<chosen, logs, applied, fsmVars, snapVars, nodeVars, early>>

\* The gate of a ready leader, or a forwarder with a current base: marker, proposal,
\* commitment.  A node that is about to restore is behind, so its writers are refused;
\* that they take the write lock for that while is left out.
Propose(pages) ==
  LET i == Len(chosen) + 1
      e == Entry(pages)
  IN  /\ Up /\ restoring = NoSnap
      /\ writer = Idle /\ applied = Len(chosen)
      /\ i <= MaxIndex
      /\ i \notin DOMAIN logs
      /\ chosen' = Append(chosen, e)
      /\ logs' = StoreLogs(logs, [j \in {i} |-> e])
      /\ writer' = [pc |-> "proposed", index |-> i]
      /\ marker' = i
      /\ UNCHANGED <<commit, applied, lastApplied, db, snapVars, nodeVars, early>>

-----------------------------------------------------------------------------
\* FSM.Apply and the local writer

\* tryConsumeSkipMarker, an entry without a transaction, or AppendFrames under the
\* write lock.
Apply ==
  LET i == applied + 1
      e == GetLog(logs, i)
  IN  /\ Up /\ restoring = NoSnap
      /\ i <= commit
      /\ applied' = i
      /\ \/ /\ marker = i
            /\ marker' = 0
            /\ writer' = IF writer.pc = "proposed" THEN [writer EXCEPT !.pc = "consumed"]
                         ELSE writer
            /\ lastApplied' = i
            /\ UNCHANGED db
         \/ /\ marker # i /\ e.pages = {}
            /\ UNCHANGED fsmVars
         \/ /\ marker # i /\ e.pages # {} /\ writer = Idle
            /\ db' = Overlay(e.pages, i)
            /\ lastApplied' = i
            /\ UNCHANGED <<writer, marker>>
      /\ UNCHANGED <<chosen, logs, commit, snapVars, nodeVars, early>>

\* The withheld commit frame is written and the write lock released.
Publish ==
  /\ writer.pc = "consumed"
  /\ db' = Overlay(chosen[writer.index].pages, writer.index)
  /\ writer' = Idle
  /\ UNCHANGED <<raftVars, lastApplied, marker, snapVars, nodeVars, early>>

\* Mutation: the wait for the marker has no deadline.
AbandonNever ==
  /\ writer.pc = "proposed" /\ ~Up
  /\ UNCHANGED vars

\* Mutation: the marker outlives its writer.
AbandonMarked ==
  /\ writer.pc = "proposed"
  /\ writer' = Idle
  /\ UNCHANGED <<raftVars, lastApplied, db, marker, snapVars, nodeVars, early>>

\* AwaitSkipMarkerConsumed times out: SQLite rolls back and unlocks.
Abandon ==
  /\ writer.pc = "proposed"
  /\ writer' = Idle /\ marker' = 0
  /\ UNCHANGED <<raftVars, lastApplied, db, snapVars, nodeVars, early>>

-----------------------------------------------------------------------------
\* Snapshots

\* raft takes one snapshot at a time.
NotTaking == taking = NoSnap

\* Mutation: the label is raft's index, not that of the last command.
SnapshotRaftIndex ==
  /\ Up /\ restoring = NoSnap /\ NotTaking
  /\ applied > snaps.index
  /\ taking' = [index |-> applied, header |-> applied, pages |-> db]
  /\ early' = (early \/ writer.pc = "consumed")
  /\ UNCHANGED <<raftVars, fsmVars, snaps, restoring, nodeVars>>

\* FSM.Snapshot: the label, then a backup into a temporary file.
Snapshot ==
  /\ Up /\ restoring = NoSnap /\ NotTaking
  /\ applied > snaps.index
  /\ taking' = [index |-> applied, header |-> lastApplied, pages |-> db]
  /\ early' = (early \/ writer.pc = "consumed")
  /\ UNCHANGED <<raftVars, fsmVars, snaps, restoring, nodeVars>>

\* Persist copies the file into the sink or cancels it; raft compacts the log only
\* after a success.  The file and its removal (Release) are not part of the state.
Persist(ok) ==
  /\ Up /\ taking # NoSnap
  /\ taking' = NoSnap
  /\ IF ok /\ taking.index > snaps.index
     THEN snaps' = taking /\ logs' = Compacted(logs, taking.index)
     ELSE UNCHANGED <<snaps, logs>>
  /\ UNCHANGED <<chosen, commit, applied, fsmVars, restoring, nodeVars, early>>

\* What a snapshot of the first n entries may have for page p: the content at n, or
\* that of a later entry, which a replay of the entries behind n writes again.
Pending(n, p) == {i \in (n + 1)..Len(chosen) : p \in chosen[i].pages}
Usable(s) ==
  /\ s.header = LastCommand(s.index)
  /\ \A p \in Page : s.pages[p] \in {Content(s.index)[p]} \cup Pending(s.index, p)

\* InstallSnapshot (external): a snapshot that the leader took as this node takes
\* its own is stored, and FSM.Restore called.
Install(n) ==
  /\ Up /\ restoring = NoSnap
  /\ n \in (applied + 1)..Len(chosen) /\ n > snaps.index
  /\ \E pages \in [Page -> 0..Len(chosen)] :
       LET s == [index |-> n, header |-> LastCommand(n), pages |-> pages]
       IN  Usable(s) /\ snaps' = s /\ restoring' = s
  /\ UNCHANGED <<raftVars, fsmVars, taking, nodeVars, early>>

\* Mutation: the header's index is not taken over.
RestoredNoIndex(s) == db' = s.pages /\ UNCHANGED lastApplied

\* Restore: all pages in one transaction, and the index from the header.
Restored(s) == db' = s.pages /\ lastApplied' = s.header

\* FSM.Restore gets the write lock and the whole stream; raft goes on from there.
RestoreEnd ==
  /\ Up /\ restoring # NoSnap
  /\ writer = Idle
  /\ Restored(restoring)
  /\ applied' = restoring.index
  /\ commit' = Max({commit, restoring.index})
  /\ logs' = Compacted(logs, restoring.index)
  /\ restoring' = NoSnap
  /\ UNCHANGED <<chosen, writer, marker, snaps, taking, nodeVars, early>>

\* The stream breaks off: no commit frame was written.
RestoreFail ==
  /\ Up /\ restoring # NoSnap
  /\ writer = Idle
  /\ restoring' = NoSnap
  /\ UNCHANGED <<raftVars, fsmVars, snaps, taking, nodeVars, early>>

-----------------------------------------------------------------------------
\* The process dies and starts again

Crash ==
  /\ Up
  /\ node' = "down"
  /\ applied' = 0 /\ commit' = 0 /\ lastApplied' = 0
  /\ writer' = Idle /\ marker' = 0
  /\ taking' = NoSnap /\ restoring' = NoSnap
  /\ UNCHANGED <<chosen, logs, db, snaps, starts, early>>

\* fsm.New, then NewRaft (external), which restores the newest snapshot before it
\* replays the log.
Start ==
  /\ node = "down" /\ starts < MaxStarts
  /\ node' = "up" /\ starts' = starts + 1
  /\ IF snaps # NoSnap
     THEN /\ Restored(snaps)
          /\ applied' = snaps.index /\ commit' = snaps.index
     ELSE UNCHANGED <<db, lastApplied, applied, commit>>
  /\ UNCHANGED <<chosen, logs, writer, marker, snapVars, early>>

Init ==
  /\ chosen = <<>> /\ logs = <<>> /\ commit = 0 /\ applied = 0
  /\ lastApplied = 0 /\ db = [p \in Page |-> 0] /\ writer = Idle /\ marker = 0
  /\ snaps = NoSnap /\ taking = NoSnap /\ restoring = NoSnap
  /\ node = "up" /\ starts = 0 /\ early = FALSE

Next ==
  \/ \E pages \in SUBSET Page : Choose(pages)
  \/ \E pages \in (SUBSET Page) \ {{}} : Propose(pages)
  \/ \E n \in Index : Receive(n) \/ LearnCommit(n) \/ Install(n)
  \/ Apply \/ Publish \/ Abandon
  \/ Snapshot \/ (\E ok \in BOOLEAN : Persist(ok))
  \/ RestoreEnd \/ RestoreFail
  \/ Crash \/ Start

\* The FSM goroutine runs, and a writer's waits end.
Fairness ==
  /\ WF_vars(Publish) /\ WF_vars(Abandon)
  /\ WF_vars(RestoreEnd)

Spec == Init /\ [][Next]_vars /\ Fairness

-----------------------------------------------------------------------------
\* Properties

\* A node that has applied everything has exactly the content of the log, however
\* it got there: by its own writes, by Apply, by a restored snapshot, or by a
\* restart that first goes back to an older one (fsm.go:185-255), as long as no
\* snapshot was taken before a consumed entry was published.
Converged ==
  ~early /\ Up /\ writer.pc # "consumed" /\ applied = Len(chosen) => db = Content(applied)

\* Nodes that applied the same entries compare the same lastApplied in the
\* base-index check, also after a restore, which takes it from the header and not
\* from raft's index (fsm.go:252).
BaseAgrees ==
  Up => lastApplied = LastCommand(applied)

\* After compaction, truncation and failed batches, the store still has every row
\* that a restart from the newest snapshot would read; raft panics on a missing one.
ReplayPossible ==
  \A i \in (snaps.index + 1)..LastIndex(logs) : i \in DOMAIN logs

\* A snapshot labelled with an index has everything up to that index: fsm.go:34-37
\* says that lastApplied is "the last index that was actually materialized".
SnapshotIsComplete == Usable(snaps) /\ Usable(taking)

\* Unless a snapshot was taken between the consumption of a marker and the commit frame,
\* restoring the newest snapshot, or the one being persisted, and applying the entries
\* behind its index gives the content of the log on any node: although writers and
\* Apply go on while it is persisted, and although after a restart the database is ahead
\* of the index that is being replayed (fsm.go:238-245).  Install relies on this for the
\* snapshots of other nodes.
SnapshotIsUsable == ~early => SnapshotIsComplete

\* FSM.Restore waits for a write lock whose holder may be waiting for the very
\* goroutine that restores; the holder's deadline lets the restore go on.  Writers that
\* begin meanwhile, and may each time be faster to get the lock, are not modelled.
RestoreEnds == restoring # NoSnap ~> (restoring = NoSnap)

=============================================================================
