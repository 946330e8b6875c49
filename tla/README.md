# A TLA+ model of literaft

literaft is a `database/sql` driver that replicates one SQLite database through
hashicorp/raft. A virtual file system withholds the WAL commit frame of a
transaction until raft has committed its page images; the other nodes write the
same pages into their own `-wal` and wal-index. This directory models the write
path of the cluster, the file that captures transactions, the log and wal-index
that nodes write, snapshots and restarts, and the life of nodes in a cluster. TLC
checks the models on small instances; TLAPS proves nearly all of the safety
properties for every instance.

## 1. Inventory

| Part | Source | State | Module |
|---|---|---|---|
| gate | `internal/gate/gate.go` | `ready`, drain goroutines | `Replication` |
| FSM | `fsm/` | `lastApplied`, skip markers, loans | `Replication`, `Recovery` |
| errors, statuses | `proto/` | - | `Replication`, `ReplicatedDB` |
| gated WAL file | `internal/vfs/` | captured frames and offsets, pending header, committed flag | `GatedWAL` |
| WAL appender | `internal/fsm/walappender/` | lock token, dirty pages | `WALAppender` |
| wal-index | `walappender/shm/` | two header copies, checkpoint info, hash regions | `WalIndex`, `WALAppender` |
| WAL format | `internal/wal/` | - | `GatedWAL`, `WALAppender` |
| snapshotter | `internal/fsm/snapshotter/` | - | `Recovery`, `WALAppender` |
| file locks | `internal/lock/` | fcntl locks | `WALAppender` |
| raft store | `raftsqlite/` | tables `logs`, `stable` | `Recovery` (log only) |
| membership | `cmd/literaft/membership/` | - | `Cluster` |
| command | `cmd/literaft/main.go` | cleanup registry | `Cluster` |
| driver, transport | `driver/`, `cmd/literaft/forward/` | recorded error, cached connections | `Replication`, in part |
| console, dump tools | `cmd/` | - | none |

The parts meet in three places. *On one node*, the SQLite writer, the handlers of
forwarded writes, `FSM.Apply` and a restore share the WAL write lock: the writer
holds it while its transaction is replicated, so `Apply` must not want it for that
entry (skip marker), and a handler lends it to `Apply` (loan). *In the files*, all
of them and SQLite's readers, checkpoints and recovery work on one log and one
wal-index. *Between nodes*, page images are computed against one database state and
are only meaningful on that state: a leader has to drain its backlog before it
proposes, and a forwarded write carries the index it was computed on.

What is hard here: a leadership loss at any point of a proposal; the order of
`Apply`, the future and the cleanup of raft's leader loop; responses that are
late or lost while the handler goes on; timeouts racing with `Apply`; several
parties waiting for one lock; a process that ends between two writes; a node that
comes back with an outdated idea of its cluster. `PROJECT.json` lists the hazards
by line.

## 2. The model of the write path

**`ReplicatedDB`** is what clients are promised: a log that only grows, replicas
that show it entry by entry, and per write an outcome (`ok`, `safe` to retry,
`ambiguous`) that never contradicts the log.

**`Replication`** is the code. A transaction is a member of `Txn` (the uuid of its
entry); a database is the sequence of transactions published in it.

| Variables | Code |
|---|---|
| `role leadTerm lastTerm current noop inherited tail live committed lastSeen leaderCh future` | hashicorp/raft, external: what `State`, `LeaderCh`, `Barrier`, `Apply` futures and calls of `FSM.Apply` let the code see |
| `ready`, `drain` | `Gate.ready`, the drain goroutine |
| `wpc wid attempt base baseIndex outcome` | the goroutine in `ProposeTransaction`/`forwardToLeader` and its client |
| `hpc`, `at` | `handleRequest`, then its response |
| `marker` | `FSM.skipMarkers` entry of the node's writer |
| `fsm`, `lastApplied`, `db` | `FSM.Apply`, `FSM.lastApplied`, the published WAL |
| `wlock` | WAL_WRITE_LOCK with the appender's token |
| `anomaly` | history: which of the races of section 6 has happened |

There is one action per step between two points at which another goroutine can
interfere. Abstractions:

- Indexes count command entries. The code stores raft indexes of command entries
  only, and compares them for equality or hands them on, so this is a renaming.
- raft is a log with an uncommitted tail per node. An election may keep any prefix
  of a tail that is still alive; inherited entries commit with the no-op of the
  term. A step-down first changes `State()` (`Deposed`), and only the later cleanup
  fails the futures and reports on `LeaderCh`; in between the FSM may already be
  fed by the next leader. `LeaderCh` has one slot that keeps the newest value.
- A leader hint is any node. A request or response that is lost, late, or cut off
  by `forwardTimeout` is `AwaitFSMApplied` at any moment.
- The skip marker exists from the start of `ProposeTransaction`; nothing can look
  at it before the entry is handed out, so it appears with `ProposeLocal` or
  `Forward`.
- `EndWrite` joins the deletion of the marker, the VFS's result and SQLite's
  unlocking: nobody else can use the lock in between.
- `STATUS_INVALID` is left out: forwarders send whole transactions only.
- A panicking node's other goroutines are not stopped. Stopping them removes
  behaviours only.

**`ReplicationInv`** holds the inductive invariant, in layers; **`MCReplication`**
binds the constants for TLC.

## 3. The model of the gated WAL file

**`GatedWAL`** is `gatedWALFile`: `writeFrameHeader` and `writeFrameData` with all
their branches over the six fields of the struct, and the gate as a choice between
release and refusal. Around it stands SQLite's WAL writer (external), one action
per write: header, data, overwriting a spilled frame in place, rewriting checksums
after such a commit; rollback, `ROLLBACK TO`, failing writes; other writers of the
same file; a restarted log; a crash at any moment followed by recovery.

- An offset is the number of the frame there; headers and data are different calls.
- A page is a member of `Page`, its contents one of `Val`, so contents can recur.
- A checksum is the chain of contents it covers plus the salt: equal exactly if these
  are. `Recovered` is what SQLite's recovery would accept.
- `pub` are the frames readers see (wal-index), `mine` those the writer counts on.
- The page size, learnt from the WAL header, is known: the appender writes that
  header when the FSM is opened, before any connection exists.

**`MCGatedWAL`** binds the constants. `anomaly` records the cases of section 6 that
the capture does not handle; `released` that the gate agreed.

## 4. The models of log, recovery and cluster

**`WalIndex`** has the operators of `shm`: which region and slot a frame's entry
takes, insertion with wiping and probing, the choice between two header copies; and,
external, how SQLite looks a page up and cleans up.

**`WALAppender`** is one node's `-wal`, database file and wal-index under up to four
writers: `Apply`, a handler, a restore with an appender of its own, and SQLite's
writer. One action per step another process could see:

| Actions | Code |
|---|---|
| `TakeToken LockOFD GiveUp Release` | `AcquireWriteLock`, `lockOFD`, `HeldLock.Release` |
| `Rewind NoRewind ResetForRewind` | `rewindLogIfBackfilled` |
| `AppendFrame` | one turn of the loop of `appendFramesLocked`, with `AddFrame` |
| `WriteHeader` | `WriteHeader`, three steps with torn copies in between |
| `CheckpointBegin`, `CheckpointNothing` | threshold and ticker checkpoints; the copying is SQLite's |
| `Crash`, `Close`, `Open` | end of the process, `Close`, `Open` with `maybeBootstrap` |
| `Read...`, `CheckpointCopy`, `CheckpointEnd`, `Recovered...` | SQLite, external |

- The content of a page is the number of the transaction that wrote it. A frame's
  checksum is stood for by its position and the transaction of the frame before it.
- The wal-index survives a process exactly if another one still has it open; this is
  what the dead man's switch decides.
- A write that fails in `Apply` panics there, hence is a crash.
- SQLite removes the entries an abandoned transaction left before it adds its own;
  `AddFrame` does not, unless it begins a segment. `overlaid` records the segments in
  which that has happened (section 6, item 5). Lookups go through the hash table,
  checkpoints through the list of page numbers, as in SQLite.
- A rewind writes the header of the file, that of the wal-index and the checkpoint info
  in turn. `halfRewound` records that a process was started on a wal-index that was left
  between these writes (section 6).
- Checkpoints of one appender exclude each other (`checkpointMu`) and all exclude
  each other by SQLite's checkpoint lock, so there is one `ck`.

**`Recovery`** follows one node's database through `Apply`, its own writer,
snapshots, log compaction, restores, crashes and restarts, over the rows of
`raftsqlite`'s table. raft's side (what it appends, commits, compacts, installs) is
external. A page's content is the index of the entry that wrote it. An append or
restore is one step here, as readers see it; its parts are `WALAppender`'s. A crash
loses what is in memory; the database keeps what was published. A failing
`Snapshot` changes nothing and is no step. A leader may install any snapshot that
another node can have taken (`Usable`). No new write begins while a restore waits for the
lock (`Propose`); the writer that has it goes on.

**`Cluster`** is `run` of `main.go` on every node: resources are built one by one
and registered, any fallible step may fail, a first start bootstraps or joins, a
restart compares its address, and teardown closes the last registered first. Whom a
moved node tells of its new address is read off its configuration once (`Reannounce`);
`Join` then tries one target after the other.
Membership calls travel from node to node by what each takes for the leader.
Elections and configurations are raft's (external): a configuration is appended and
committed by a majority in one step. Only the leader of the last term is heard (`Hear`):
a deposed leader that still sends is left out. Forwarding of writes is on, so that all
seven resources exist.

`AddVoter` and `RemoveVoter` wait for raft with a timeout of their own, whatever becomes
of the caller. A client may therefore give up on a change that a leader has (`GiveUp`). The
change is then in `late`, and is committed at any later time (`CommitLate`) or never
(`DropLate`). That a later leader may do it, and may do it after any delay, is more than
raft allows. `stale` has the nodes of which the cluster has another address on record than
they know of: they came up with an outdated configuration, or a late change put them at an
address they had left. `parked` has the nodes at which a raft RPC's handler waits for
raft: while raft runs it is answered, afterwards only the closing of the transport lets it
go (`CloseTransport`, before `GracefulStop`, as in `closeGRPC`).

## 5. Runs

| Run | Checks | Bounds |
|---|---|---|
| `replication` | replicas are prefixes, no lost update, honest outcomes, readiness, refinement of `ReplicatedDB` (`KeepsPromise`) | 2 nodes, 2 transactions, 2 elections, 3 in part of the states (`FewTerms`) |
| `live_direct` | a leader gets ready, replicas converge | 2 elections |
| `live_forward` | types, every write returns to its client | 1 election |
| `wal` | types, proposals are transactions, recovery finds what was released | 3 frames, after a restart of the log 2; 2 logs |
| `appender` | exclusion, snapshots of readers, nothing lost, header readable | 4 writers, 2 busy at a time; 2 pages, 3 frames in 2 regions, 2 transactions, 2 logs, 1 restart |
| `recovery` | convergence, base index, replay, snapshots, restores end | 3 entries, 2 pages, 2 restarts |
| `cluster` | shutdown, hops, one cluster, reachability | 3 nodes, 4 addresses, 2 elections, 4 configurations, 4 starts, 1 late change |
| `dropped_write`, `captured_frames`, `unbootable`, `early_snapshot`, `left_over` | violated, see section 6 | as above or smaller |

*Why these bounds.* `Replication`: voters without a driver are implicit, so two nodes
suffice for a deposed leader, its successor, a forwarder and a handler; two
transactions suffice for one write to be based on, overtaken by or blocked behind
another; a third election lets a leader come back with a stale drain. `GatedWAL`: two
pages and contents let a page be spilled, overwritten and written again by the commit
frame; the third frame lets two spilled ones precede it; a second log lets new frames
look like checksum rewrites. `WALAppender`: regions of one and two entries put a
boundary between frames 1 and 2; two transactions let one be checkpointed while the
next rewinds, reads or crashes. `Recovery`: three entries let a snapshot, a compacted
row and a replayed one differ. `Cluster`: two nodes start three times and change the
configuration twice, which covers join, leave, move, crash and restart; a fourth start
lets a node join, move and join again before its first call is committed; a third node
lets a call pass through one that is not the leader any more.

*Constraints.* They keep the state spaces small and are restrictions of what TLC has
seen, not of the specifications. `replication`: a third election only where nothing is
forwarded and a leader comes back while its drain of an earlier term still runs
(`FewTerms`); after a second election one forwarded call is open at a time, and no
write begins while a handler goes on whose caller has given up (`FewCalls`). `wal`: a
third frame only in the first log, with none or all of the frames published
(`Shorter`). `cluster`: one node at a time is being built or torn down, and none while
a call to leave is open (`OneAtATime`); the second node starts before the third
(`InTurn`), which comes into a cluster of two in which nothing went wrong; from then
on at most one node is down or starting and at most one serves without a leader
(`Orderly`); only with it there is a fourth configuration, and a fourth start, which two
nodes have behind a late change only (`Alone`). Late changes happen among two nodes while
the seed serves and nobody leaves (`Apart`); handlers wait only at nodes that shut down
(`Waiting`). `recovery`: the first entry with one page writes a fixed page (`InTurn`).

*Cut-offs.* `replication` and `wal` stop at states in which a case of section 6 has
happened (`CONSTRAINT Clean`); `appender` and `recovery` go on, and the properties of
each that the case touches say so (`overlaid`, `halfRewound`, `early`). `SafeToRetry`, `CommittedOnce`
and the types are proved without any restriction. `left_over` has transactions of one
page, one after the other, and three pages, so that two of them share a hash chain
(`SmallInTurn`). Interchangeable names are
symmetric; runs with liveness properties use no symmetry. Bounded systems stop when
their bounds are used up, hence no deadlock check except in `wal`, which has no bound
on transactions; that nothing waits for ever is what the liveness properties say.

*Fairness.* In `Replication`, goroutines of writer, handler, FSM and gate run (weak
fairness); timeouts therefore fire. A leader that nobody replaced commits its entries,
and one that was replaced loses its lease. Elections and new writes are not promised.
In `Recovery`, the restoring goroutine and the writer run, and the writer's deadline
fires.

*Properties*

- `ReplicaIsPrefix`: every database holds exactly the entries its FSM has handled,
  in log order, each once; one short while the writer is between marker and commit
  frame.
- `NoLostUpdate`: the entry at index *i* was computed on the first *i*-1 entries.
- `ReadyIsDrained`: a ready leader whose lock is free has published its whole log.
- `SafeToRetry`, `CommittedOnce`, `KeepsPromise`: outcomes against the log.
- `LeaderGetsReady`, `Converges`, `WriteResolves`: progress.
- `ProposalIsTransaction`: what the gate gets are the pages of the transaction SQLite
  commits, with their last contents, and nothing else.
- `RecoveredIsApproved`: whenever the process ends, recovery finds the published log,
  or also the transaction just released; never one that was refused or undecided,
  and never less because a checksum was not rewritten.
- `OneWriter`: token and file lock exclude all writers of a node.
- `ReaderSnapshot`: a reader sees one transaction, page by page, to its end, as long as
  no entry of the wal-index took the place of a left-over one and no process went on with
  a half-done rewind.
- `NothingLost`: recovery at any moment finds a whole transaction, none older than
  the published one, as long as no process went on with a half-done rewind.
- `HeaderReadable`: one of the two header copies is always valid and current.
- `Converged`, `BaseAgrees`: a node that has applied everything has the content of the
  log and the index others compare with, however it got there.
- `ReplayPossible`: no row is missing that a restart reads.
- `SnapshotIsUsable`: restoring a snapshot and applying the entries behind its index gives
  the content of the log, although writers go on while it is persisted, unless one was
  taken between the consumption of a marker and the commit frame.
- `RestoreEnds`: a restore does not wait for ever for the writer that has the lock. That
  new writers do not starve it (`snapshotter.go:110`) is not covered.
- `ShutdownProceeds`: whatever step failed and whatever RPC came in, a node that shuts
  down can take its next step.
- `HopsFollowTerms`: a membership call is passed on at most once per term.
- `OneCluster`: there is one bootstrap, crashes included.
- `ReachableAtAddress`: an announced node is recorded at its address, through lost
  answers, retries, crashes and late changes. Excepted are the nodes of `stale`, until
  they get through with a call. Without the exception for late changes TLC refutes it: a
  node's `AddVoter` is given up, the node restarts and joins elsewhere, and the first call
  is committed behind the second.

## 6. Where code and comments disagree

1. `dropped_write`. A leader steps down with its own proposal in flight. The next
   leader commits the entry, the old leader's `Apply` consumes the marker, and only
   then the cleanup fails the future with `ErrLeadershipLost`. The gate answers
   "ambiguous", the VFS drops the commit frame, and this node never publishes the
   entry, against `fsm.go:35-36` ("the last index that was actually materialized").
   The window needs an AppendEntries of the next leader to be served, and its entry
   applied, between the change of `State()` and the end of raft's leader loop.
2. `captured_frames`. A transaction spills and does not commit; other writers append
   past its frames; the connection's next transaction begins above `maxOffset`, so
   nothing is reset and the stale frames are proposed with it. Or `ROLLBACK TO` in a
   transaction that has spilled: the next header is at or below `maxOffset` and the
   frames before the savepoint are dropped (`gatedwalfile.go:24`, "captured in the
   current transaction"; lines 112-113).
3. `unbootable`. The process ends between the start of a log and its first commit
   frame. SQLite's recovery finds no committed frame and leaves the page size at 0;
   `maybeBootstrap` takes the wal-index for uninitialized and refuses a file with
   frames, at every start (`README.md:235-236`, "brings it back automatically").
4. `early_snapshot`. raft snapshots between the consumption of a marker and the commit
   frame. The backup lacks an entry that header and index include, and after
   compaction and a restart nothing brings it back (`fsm.go:34-37`).
5. `left_over`. The stream of a restore breaks off after some frames. The lock is
   released, the entries stay in the wal-index behind the published frames. The next
   `Apply` adds its entries at the same frames; an old hash slot may then lead to a frame
   with another page, or lie in a probe chain behind the newer frame of its page, and a
   lookup, which keeps the last match of the chain, returns an older frame (`shm.go:143`,
   "records in the wal-index that WAL frame `frameIdx` holds database page number
   `pgNo`"). Only the first entry of a segment wipes stale data (`shm.go:155-157`). raft
   does not go on with an FSM whose restore failed at a start, but does so when a leader
   sends a snapshot. The file itself is right, so a recovery repairs it.

Four more are stated in the modules and have no run of their own; TLC refutes each
when it is the property of a configuration (for the first three one without `Clean`):

- `LoanIsHeld` (`Replication`): in the window of 1, a handler gives back the lock it has
  lent while `Apply` appends under it (`fsm.go:211-212`, "is still holding").
- `LeaderReadyIsDrained` (`Replication`): `ready` is cleared when `watchLeadership` gets
  to run; a node re-elected before that passes `leaderReady` undrained
  (`gate.go:125-126`).
- `RefusedStaysOut` (`GatedWAL`): a commit header that matches offset and page of the
  last transaction is written at once; with the same contents still in the file the
  frame is valid before the gate decides (`vfs/gate.go:12-13`, "the commit frame never
  reaches disk").
- `StaysOut` (`Cluster`): a node that was down while it was removed finds itself in its
  own old configuration; at a new address it adds itself again (`main.go:161-163`, "stays
  out rather than silently re-adding itself"). It is an action property.

A crash in the middle of a rewind is beyond the bounds of `appender` and has no run;
`halfRewound` marks it. `rewindLogIfBackfilled` writes the header of the file with a new
salt (`walappender.go:294`), then the wal-index header (307), then the checkpoint info
(312). If the process ends in between, and another process has the wal-index open, the
next `Open` takes the wal-index as it is. Before 307 its header names the old salt: a
writer that cannot rewind because of a reader appends frames with that salt, which a
recovery will reject. Before 312 `nBackfill` is greater than `mxFrame`: once the log has
grown by less than that, it counts as backfilled and is rewound over frames that are
not in the database. With three transactions and one writer TLC finds both as violations
of `NothingLost` without the exception.

A checksum rewrite that fails after the release makes SQLite roll the transaction
back, where other failures after the release panic (`gatedwalfile.go:201-202`). The
model has this step and the passing run stops there.

`ReadHeader` returns nil when both copies are torn, where its comment
(`shm.go:84-85`) promises an uninitialized header; `HeaderReadable` shows that the
case does not come up while the process runs.

## 7. Proofs

Each component's theorems follow from one inductive invariant. TLC checked every
invariant below on the instances of section 5 (`GateInv` also without the cut-off `Clean`
on two frames). The theorems hold for every value of the constants that satisfies the
assumptions named, all of which TLC evaluates in the runs; the bounds of the models are
among the constants.

*The write path.* `CallProofs` (types, locks, calls and the raft logs), `SafetyProofs`
(the FSM and its markers, loans, replicas) and `ReadyProofs` (readiness, base indexes,
the refinement). Assumption `ConstAssumption`: `None` is neither a node nor a
transaction.

- `TypeCorrect`: `Spec => []TypeOK`
- `EntriesCommitOnce`: `Spec => []CommittedOnce`
- `RetryIsSafe`: `Spec => []SafeToRetry`
- `ReplicasArePrefixes`: `Spec => []ReplicaIsPrefix`
- `ReadyLeaderIsDrained`: `Spec => []ReadyIsDrained`
- `NoUpdateIsLost`: `Spec => []NoLostUpdate`
- `WritePathKeepsPromise`: `Spec => KeepsPromise`, the refinement of `ReplicatedDB`

None of the properties is inductive alone. The layers, each resting on those before;
`SafetyInvariant` has the first seven, `FullInvariant` all but the last:

1. `TypeOK`.
2. `LockInv`: the lock, the writer's and the handlers' program counters agree; at
   most one of them holds the lock of a node.
3. `CallInv`: a transaction has one proposer, and a call that may still reach
   `raft.Apply` has not done so before.
4. `LogInv`: log and tails hold a transaction at most once, and none that is still
   unproposed or was reported safe. Gives `CommittedOnce` and `SafeToRetry`.
5. `FsmInv`: how far an FSM is in the log, that a consumed marker belongs to an
   entry already handled, and that a resolved future has been applied.
6. `LoanInv`: without a recorded race, `Apply` appends under a loan only while the
   handler holds it.
7. `ReplicaIsPrefix`.
8. `TermInv`, `GainedInv`, `DrainInv`: a leader that has not yet seen its election admits
   nothing, and a drain of the present term waits for the whole log of its leader, which
   does not grow meanwhile.
9. `ReadyInv`: a ready leader has at most one entry that it has not applied, and that
   entry's proposer holds its lock. Gives `ReadyIsDrained`.
10. `BaseInv`: on which state every entry of the log, of a tail and of an open call was
    computed. With 9 this is why the base index that is checked under the lock is the
    right one. Gives `NoLostUpdate`.
11. `AckInv`: what was acknowledged has committed. The refinement needs it beside 1 to 7.

*The gated WAL file.* `CaptureProofs` (the invariant, and what is captured) and
`GatedWALProofs` (what is on disk, and the theorems). Assumptions `BoundsAssumption` (the bounds are
numbers) and `NoneAssumption` (nil is no header and no staged rewrite).

- `GateTypes`: `Spec => []TypeOK`
- `ProposedAsWritten`: `Spec => []ProposalIsTransaction`
- `OnlyApprovedRecovers`: `Spec => []RecoveredIsApproved`

from `GateInvariant`. `BaseInv` holds whatever happens: SQLite's frames are in the file,
the header of the frame being written is where `writeFrameData` will look for it, the
withheld frame is the one at the gate. Until one of the four recorded cases begins,
`CaptureInv` says that list and map have exactly the frames after the published ones, in
order, with the contents SQLite counts on; `SumInv` which checksums of the open
transaction fit; and `DiskInv` that every commit frame behind the published ones is one
that recovery rejects by what the frame says itself, unless it is the last frame of a
transaction that was released and is in the file as a whole. The last point is what
makes the argument local: a frame that is rejected by its own contents stays so when
frames before it change. What recovery finds is then one of two logs
(`RecoveredCases`), which also carries the invariant over a crash.

*The appender.* `AppenderProofs`, for any pages, readers and bounds
(`WritersAssumption`: the writers are among the four).

- `WriterExclusion`: `Spec => []OneWriter`. File locks do not exclude two users of one
  open file description, so `OneWriter` alone is not inductive: `LockInv` adds that
  whoever is past the token has taken the token of its appender, with nobody else of
  that appender, and that whoever is past the lock has its description in `writeLock`.
- `HeaderAlwaysReadable`: `Spec => []HeaderReadable`. `HeadInv` says what the two copies
  are in each of the three steps of `WriteHeader`; by exclusion one writer is in them.
- `EntryInRegion`: for every frame and every layout (`LayoutAssumption`: the header takes
  less than a region) the entry lies inside its region's array, the real sizes 4096 and
  34 included.

*Recovery.* `RecoveryProofs` (`TrailingAssumption`, `BoundAssumption`: numbers).

- `DatabaseConverges`: `Spec => []Converged`
- `BaseIndexesAgree`: `Spec => []BaseAgrees`
- `StoreCanReplay`: `Spec => []ReplayPossible`
- `SnapshotsAreUsable`: `Spec => []SnapshotIsUsable`

The invariant `Inv` orders the indexes of raft, FSM and snapshots, says which rows are
there, and, in `DataInv`, that every page of the database and of each snapshot has the
content of its index or is ahead of it: after a restart a database keeps pages of entries
that are applied again, and a snapshot taken then has them too. A page that is ahead was
written by an entry still to come, which writes it again; so at the end of the log none
is. `Content` and `LastCommand` are characterised without `CHOOSE` for this.

*The cluster.* `ClusterProofs`, for any nodes, addresses, elections, restarts and changes
(`SeedAssumption`, `NoneAssumption`: the seed is a node, the admin and the absent node and
address are not).

- `CallsSettle`: `Spec => []HopsFollowTerms`. `HopInv` says of every process that an
  address in use is its own, of every idea of a leader that whoever listens at that
  leader's address and passes calls on knows the leader of a later term, and of every
  call that who is to pass it on knows a later term than the call has hops. A hop
  therefore costs a term.
- `OneClusterOnly`: `Spec => []OneCluster`, and
- `AnnouncedIsRecorded`: `Spec => []ReachableAtAddress`, from `MemberInv`: the leader of the
  latest term has the latest configuration, after the bootstrap the seed finds its state
  again, and an answered call or an announcement leaves its node recorded, unless it is in
  `stale`. `LateInv` says which changes can be late; committing one records its node
  where it listens, or makes it `stale` (`CommitRecords`).

*Only model-checked.*

- `NothingLost` and `ReaderSnapshot` of `WALAppender`. The second rests on what a lookup
  finds after any number of insertions into a hash chain, which is an induction over the
  probing; both need what every step of a reader, of a checkpoint and of a rewind implies
  for the marks and for the frames still in use.
- `ShutdownProceeds`, which is about `ENABLED`.
- Liveness (`WriteResolves`, `LeaderGetsReady`, `Converges`, `RestoreEnds`), which is out of
  reach of the prover.


## 8. Not modelled

- hashicorp/raft and SQLite themselves, except as the environment described above.
  SQLite's TRUNCATE checkpoint is left out, also the one at the end of `Restore`:
  it cannot get the write lock that `Restore` still holds. Whether SQLite then reports
  an error, so that raft restores a second time, is not decided by this code.
- The stable store (`raftsqlite`): term and vote, which only raft reads. A node that has
  stored a term but no configuration counts as having state (`main.go:164`) and will not
  join on its next start; the model looks at configurations only.
- Byte layouts, checksum arithmetic and message encoding: data. The page size, read
  once by `getPageSize`, is a constant.
- The driver's connections and recorded error, the transport's cache of connections:
  one goroutine's state, or a cache whose loss is a failed call, which is modelled.
- The temporary file of a snapshot, which `Release` removes after every `Persist`.
- The Darwin variant of the locks.
- Terminal interface, log window, dot commands, dump tools, test helpers: input and
  output over calls that are modelled where they change something.
