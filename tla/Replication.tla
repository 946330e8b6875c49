---------------------------- MODULE Replication ----------------------------
(***************************************************************************)
(* The write path of a literaft cluster: internal/gate (proposing,         *)
(* leadership drain, forwarding) and fsm (skip markers, loans, apply), the *)
(* WAL write lock they share, and the raft log between the nodes.          *)
(*                                                                         *)
(* One transaction is one member of Txn (the uuid of its log entry).  A    *)
(* database is the sequence of transactions published in it: an entry is   *)
(* a list of page images computed on one database state, so what matters   *)
(* is on which state it was computed and in which order it is published.   *)
(*                                                                         *)
(* hashicorp/raft is external.  It is modelled by what the gate and the    *)
(* FSM can observe of it: State, LeaderCh, Apply futures, Barrier, and the *)
(* committed entries handed to Apply in order.  Voters that run no code    *)
(* of interest are left out, so any node may win an election, inheriting   *)
(* any prefix of an uncommitted tail that is still alive.                  *)
(***************************************************************************)
EXTENDS Naturals, Sequences

CONSTANTS
  Node,        \* nodes running the driver
  Txn,         \* transactions, one per proposal (uuid.NewString)
  None,        \* no transaction, no node
  MaxTerm,     \* bound on the number of elections
  Forwarding   \* whether driver.WithLeaderTransport was given

ASSUME ConstAssumption ==
  /\ None \notin Node
  /\ None \notin Txn
  /\ MaxTerm \in Nat
  /\ Forwarding \in BOOLEAN

VARIABLES
  \* hashicorp/raft (external)
  role,         \* raft.State(): "Deposed" is Follower before runLeader's cleanup ran
  leadTerm,     \* the term the node leads, 0 if it does not lead
  lastTerm,     \* the highest term so far
  current,      \* the leader of lastTerm, the only node that can commit
  noop,         \* whether current has committed the no-op of its term
  inherited,    \* entries of current's tail that precede its no-op
  tail,         \* uncommitted entries in a node's log, after the committed ones
  live,         \* nodes whose uncommitted tail has not been superseded
  committed,    \* the committed command entries
  lastSeen,     \* commit index of a leader when the next one was elected
  future,       \* state of the raft.Apply future of a transaction
  leaderCh,     \* the one-slot LeaderCh: "none", "gained" or "lost"
  \* Gate
  ready,        \* nodes whose Gate.ready is set
  drain,        \* the newest drain goroutine: its term and barrier position
  \* the SQLite writer inside ProposeTransaction
  wpc, wid, attempt,
  base,         \* length of the database a transaction was computed on
  baseIndex,    \* LeaderRequest_Header.LastAppliedIndex
  outcome,      \* what the client was told
  \* the handler of a forwarded transaction
  hpc,          \* its program counter, then the status of its response
  at,           \* the node where a transaction is handled or its future waits
  \* FSM
  marker,       \* skip marker of the node's writer
  fsm,          \* where FSM.Apply is
  lastApplied,  \* FSM.lastApplied, counting command entries
  wlock,        \* holder of the WAL write lock
  db,           \* transactions published in the database, in order
  \* history
  anomaly       \* which of the known races has happened

raftVars   == <<role, leadTerm, lastTerm, current, noop, inherited, tail,
                live, committed, lastSeen, leaderCh>>
gateVars   == <<ready, drain>>
writerVars == <<wpc, wid, attempt, base, baseIndex, outcome, marker>>
fsmVars    == <<fsm, lastApplied, db>>

vars == <<raftVars, gateVars, writerVars, fsmVars, future, hpc, at, wlock,
          anomaly>>

-----------------------------------------------------------------------------
Role    == {"Follower", "Leader", "Deposed"}
Future  == {"none", "inflight", "committed", "done", "lost"}
Outcome == {"new", "open", "ok", "safe", "ambiguous"}
Status  == {"OK", "STALE_BASE", "CATCHING_UP", "BUSY", "NOT_LEADER", "AMBIGUOUS"}
WriterPc  == {"idle", "begun", "enqueue", "apply", "forward", "await", "failed"}
FsmPc     == {"idle", "lock", "loan", "loanAppend", "panic"}
Drain     == [pc : {"idle", "barrier", "passed"}, term : Nat, bar : Nat]
Anomaly   == {"dropped", "overrun", "staleReady"}

NoDrain == [pc |-> "idle", term |-> 0, bar |-> 0]

\* The handler of t is running; it holds the write lock of at[t], and FSM.loans
\* has it.
Running == {"sent", "locking", "held", "enqueue", "apply"}
Held    == {"held", "enqueue", "apply"}

RaftType ==
  /\ role \in [Node -> Role]
  /\ leadTerm \in [Node -> Nat]
  /\ lastTerm \in Nat
  /\ current \in Node \cup {None}
  /\ noop \in {"pending", "committed"}
  /\ inherited \in Nat
  /\ live \in SUBSET Node
  /\ lastSeen \in [Node -> Nat]
  /\ leaderCh \in [Node -> {"none", "gained", "lost"}]

LogType ==
  /\ tail \in [Node -> Seq(Txn)]
  /\ committed \in Seq(Txn)
  /\ future \in [Txn -> Future]

GateType ==
  /\ ready \in SUBSET Node
  /\ drain \in [Node -> Drain]

WriterType ==
  /\ wpc \in [Node -> WriterPc]
  /\ wid \in [Node -> Txn \cup {None}]
  /\ attempt \in [Node -> {0, 1}]
  /\ base \in [Txn -> Nat]
  /\ baseIndex \in [Txn -> Nat]
  /\ outcome \in [Txn -> Outcome]
  /\ marker \in [Node -> {"none", "pending", "skipped", "abandoned"}]

HandlerType ==
  /\ hpc \in [Txn -> {"none"} \cup Running \cup Status]
  /\ at \in [Txn -> Node \cup {None}]

FsmType ==
  /\ fsm \in [Node -> FsmPc]
  /\ lastApplied \in [Node -> Nat]
  /\ wlock \in [Node -> {"free", "writer", "handler"}]
  /\ db \in [Node -> Seq(Txn)]

\* Every variable keeps its type; in particular a write is forwarded at most
\* twice (attempt).
TypeOK ==
  /\ RaftType /\ LogType /\ GateType /\ WriterType /\ HandlerType /\ FsmType
  /\ anomaly \in SUBSET Anomaly

Init ==
  /\ role = [n \in Node |-> "Follower"]
  /\ leadTerm = [n \in Node |-> 0]
  /\ lastTerm = 0
  /\ current = None
  /\ noop = "pending"
  /\ inherited = 0
  /\ tail = [n \in Node |-> <<>>]
  /\ live = {}
  /\ committed = <<>>
  /\ lastSeen = [n \in Node |-> 0]
  /\ future = [t \in Txn |-> "none"]
  /\ leaderCh = [n \in Node |-> "none"]
  /\ ready = {}
  /\ drain = [n \in Node |-> NoDrain]
  /\ wpc = [n \in Node |-> "idle"]
  /\ wid = [n \in Node |-> None]
  /\ attempt = [n \in Node |-> 0]
  /\ base = [t \in Txn |-> 0]
  /\ baseIndex = [t \in Txn |-> 0]
  /\ outcome = [t \in Txn |-> "new"]
  /\ hpc = [t \in Txn |-> "none"]
  /\ at = [t \in Txn |-> None]
  /\ marker = [n \in Node |-> "none"]
  /\ fsm = [n \in Node |-> "idle"]
  /\ lastApplied = [n \in Node |-> 0]
  /\ wlock = [n \in Node |-> "free"]
  /\ db = [n \in Node |-> <<>>]
  /\ anomaly = {}

-----------------------------------------------------------------------------
\* hashicorp/raft (external)

IsLeader(n) == role[n] = "Leader"

\* Where the FSM of n is in the log, and the entry it handles next.
NextEntry(n) == committed[lastApplied[n] + 1]

\* A proposal on n has passed leaderReady and not yet called raft.Apply.
Admitted(n) ==
  \/ wpc[n] = "enqueue"
  \/ \E t \in Txn : at[t] = n /\ hpc[t] = "enqueue"

\* n wins the election of the next term.  Its log holds the committed entries
\* and some prefix of an uncommitted tail.  LeaderCh has one slot and keeps
\* the newest value.  An election that finds the node still marked ready, or a
\* proposal already admitted in an earlier term, is recorded.
Elect(n) ==
  /\ role[n] = "Follower"
  /\ lastTerm < MaxTerm
  /\ \E m \in live \cup {n} : \E k \in 0..Len(tail[m]) :
       /\ tail' = [tail EXCEPT ![n] = SubSeq(tail[m], 1, k)]
       /\ inherited' = k
  /\ role' = [role EXCEPT ![n] = "Leader"]
  /\ lastTerm' = lastTerm + 1
  /\ leadTerm' = [leadTerm EXCEPT ![n] = lastTerm + 1]
  /\ current' = n
  /\ noop' = "pending"
  /\ live' = live \cup {n}
  /\ lastSeen' = [m \in Node |-> IF m = current THEN Len(committed) ELSE lastSeen[m]]
  /\ leaderCh' = [leaderCh EXCEPT ![n] = "gained"]
  /\ anomaly' = IF n \in ready \/ Admitted(n)
                  THEN anomaly \cup {"staleReady"} ELSE anomaly
  /\ UNCHANGED <<committed, gateVars, writerVars, fsmVars, future, hpc, at,
                 wlock>>

\* n stops being leader: it met a higher term or its lease ran out.  State()
\* changes first, and the rest of an AppendEntries call is still served.
StepDown(n) ==
  /\ IsLeader(n)
  /\ role' = [role EXCEPT ![n] = "Deposed"]
  /\ leadTerm' = [leadTerm EXCEPT ![n] = 0]
  /\ lastSeen' = [lastSeen EXCEPT ![n] = 0]
  /\ IF current = n
       THEN current' = None /\ noop' = "pending" /\ inherited' = 0
       ELSE UNCHANGED <<current, noop, inherited>>
  /\ UNCHANGED <<lastTerm, tail, live, committed, leaderCh, gateVars, writerVars,
                 fsmVars, future, hpc, at, wlock, anomaly>>

\* runLeader returns: every future still in flight fails with
\* ErrLeadershipLost, and LeaderCh reports the loss.
LeaveLeader(n) ==
  /\ role[n] = "Deposed"
  /\ role' = [role EXCEPT ![n] = "Follower"]
  /\ future' = [t \in Txn |-> IF at[t] = n /\ future[t] = "inflight"
                                THEN "lost" ELSE future[t]]
  /\ leaderCh' = [leaderCh EXCEPT ![n] = "lost"]
  /\ UNCHANGED <<leadTerm, lastTerm, current, noop, inherited, tail, live,
                 committed, lastSeen, gateVars, writerVars, fsmVars, hpc,
                 at, wlock, anomaly>>

\* The current leader commits the first k entries of its tail.  Tails of other
\* nodes conflict with them from now on.
CommitTail(n, k) ==
  /\ committed' = committed \o SubSeq(tail[n], 1, k)
  /\ tail' = [m \in Node |-> IF m = n THEN SubSeq(tail[n], k + 1, Len(tail[n]))
                              ELSE <<>>]
  /\ live' = {n}
  /\ noop' = "committed"
  /\ inherited' = 0
  /\ future' = [t \in Txn |->
                  IF /\ at[t] = n
                     /\ future[t] = "inflight"
                     /\ \E i \in 1..k : tail[n][i] = t
                  THEN "committed" ELSE future[t]]
  /\ UNCHANGED <<role, leadTerm, lastTerm, current, lastSeen, leaderCh, gateVars,
                 writerVars, fsmVars, hpc, at, wlock, anomaly>>

\* Entries of earlier terms commit only together with the leader's no-op.
CommitNoop(n) ==
  /\ current = n
  /\ noop = "pending"
  /\ CommitTail(n, inherited)

CommitNext(n) ==
  /\ current = n
  /\ noop = "committed"
  /\ tail[n] # <<>>
  /\ CommitTail(n, 1)

\* The committed entries raft hands to the FSM of n: a leader that was replaced
\* and has not noticed receives no AppendEntries.
Known(n) == IF IsLeader(n) /\ current # n THEN lastSeen[n] ELSE Len(committed)

\* raft.Apply accepts t on leader n.  A tail that was superseded leads nowhere.
Accept(n, t) ==
  /\ IsLeader(n)
  /\ tail' = [tail EXCEPT ![n] = IF n \in live THEN Append(@, t) ELSE @]
  /\ future' = [future EXCEPT ![t] = "inflight"]
  /\ at' = [at EXCEPT ![t] = n]
  /\ UNCHANGED <<role, leadTerm, lastTerm, current, noop, inherited, live,
                 committed, lastSeen, leaderCh>>

-----------------------------------------------------------------------------
\* Gate: leadership

\* watchLeadership receives from LeaderCh.  drain issues its Barrier at the end
\* of the log as it is now; it returns at once if n is no longer leader.  A
\* drain of an earlier term can only return, and the new one takes its place.
WatchLeadership(n) ==
  /\ leaderCh[n] # "none"
  /\ leaderCh' = [leaderCh EXCEPT ![n] = "none"]
  /\ ready' = ready \ {n}
  /\ drain' = IF leaderCh[n] = "gained" /\ IsLeader(n)
              THEN [drain EXCEPT ![n] = [pc |-> "barrier", term |-> leadTerm[n],
                                         bar |-> Len(committed) + Len(tail[n])]]
              ELSE drain
  /\ UNCHANGED <<role, leadTerm, lastTerm, current, noop, inherited, tail,
                 live, committed, lastSeen, writerVars, fsmVars, future,
                 hpc, at, wlock, anomaly>>

LeaderReady(n) == IsLeader(n) /\ n \in ready

\* The drain of n belongs to the term in which n leads.
DrainsThisTerm(n) == IsLeader(n) /\ leadTerm[n] = drain[n].term

\* Mutation: ready as soon as the barrier is committed, applied or not.
BarrierCommitted(n) ==
  /\ drain[n].pc = "barrier"
  /\ DrainsThisTerm(n)
  /\ current = n /\ noop = "committed"
  /\ drain' = [drain EXCEPT ![n].pc = "passed"]
  /\ UNCHANGED <<raftVars, ready, writerVars, fsmVars, future, hpc, at, wlock,
                 anomaly>>

\* The Barrier future resolves: the barrier is committed and the FSM is past it.
BarrierPassed(n) ==
  /\ drain[n].pc = "barrier"
  /\ DrainsThisTerm(n)
  /\ current = n /\ noop = "committed"
  /\ lastApplied[n] >= drain[n].bar
  /\ drain' = [drain EXCEPT ![n].pc = "passed"]
  /\ UNCHANGED <<raftVars, ready, writerVars, fsmVars, future, hpc, at, wlock,
                 anomaly>>

\* Mutation: no second look at the term after the barrier.
DrainDoneAnyTerm(n) ==
  /\ drain[n].pc = "passed"
  /\ ready' = ready \cup {n}
  /\ drain' = [drain EXCEPT ![n] = NoDrain]
  /\ UNCHANGED <<raftVars, writerVars, fsmVars, future, hpc, at, wlock, anomaly>>

\* drain sets ready if n still leads the term, and returns.
DrainDone(n) ==
  /\ drain[n].pc = "passed"
  /\ ready' = IF DrainsThisTerm(n) THEN ready \cup {n} ELSE ready
  /\ drain' = [drain EXCEPT ![n] = NoDrain]
  /\ UNCHANGED <<raftVars, writerVars, fsmVars, future, hpc, at, wlock, anomaly>>

\* The Barrier failed and the term is over: drain returns.
DrainReturn(n) ==
  /\ drain[n].pc = "barrier"
  /\ ~DrainsThisTerm(n)
  /\ drain' = [drain EXCEPT ![n] = NoDrain]
  /\ UNCHANGED <<raftVars, ready, writerVars, fsmVars, future, hpc, at, wlock,
                 anomaly>>

-----------------------------------------------------------------------------
\* The writer: SQLite takes the write lock, computes page images on the newest
\* database state, and reaches the commit frame (ProposeTransaction).

BeginWrite(n, t) ==
  /\ wpc[n] = "idle"
  /\ wlock[n] = "free"
  /\ outcome[t] = "new"
  /\ wpc' = [wpc EXCEPT ![n] = "begun"]
  /\ wid' = [wid EXCEPT ![n] = t]
  /\ wlock' = [wlock EXCEPT ![n] = "writer"]
  /\ base' = [base EXCEPT ![t] = Len(db[n])]
  /\ outcome' = [outcome EXCEPT ![t] = "open"]
  /\ UNCHANGED <<raftVars, gateVars, attempt, baseIndex, marker, fsmVars,
                 future, hpc, at, anomaly>>

\* The proposer of t is done with it, or reads no response any more; a running
\* handler goes on.
Forget(t) ==
  /\ hpc' = [hpc EXCEPT ![t] = IF @ \in Status THEN "none" ELSE @]
  /\ at' = [at EXCEPT ![t] = IF hpc[t] \in Running THEN @ ELSE None]

\* Mutation: the write lock is not given back.
EndWriteKeepsLock(n, result) ==
  /\ wpc' = [wpc EXCEPT ![n] = "idle"]
  /\ wid' = [wid EXCEPT ![n] = None]
  /\ attempt' = [attempt EXCEPT ![n] = 0]
  /\ marker' = [marker EXCEPT ![n] = "none"]
  /\ outcome' = [outcome EXCEPT ![wid[n]] = result]
  /\ Forget(wid[n])
  /\ UNCHANGED <<raftVars, gateVars, base, baseIndex, fsm, lastApplied, future, wlock>>

\* ProposeTransaction returns, its deferred DeleteSkipMarker runs, and SQLite
\* gives the write lock back.
EndWrite(n, result) ==
  /\ wpc' = [wpc EXCEPT ![n] = "idle"]
  /\ wid' = [wid EXCEPT ![n] = None]
  /\ attempt' = [attempt EXCEPT ![n] = 0]
  /\ marker' = [marker EXCEPT ![n] = "none"]
  /\ wlock' = [wlock EXCEPT ![n] = "free"]
  /\ outcome' = [outcome EXCEPT ![wid[n]] = result]
  /\ Forget(wid[n])
  /\ UNCHANGED <<raftVars, gateVars, base, baseIndex, fsm, lastApplied, future>>

\* The gate returns an error: the VFS discards the withheld commit frame.
Abort(n, result) ==
  /\ EndWrite(n, result)
  /\ db' = db

\* Mutation: any leader may propose, drained or not.
ProposeUndrained(n) ==
  /\ wpc[n] = "begun"
  /\ IsLeader(n)
  /\ wpc' = [wpc EXCEPT ![n] = "enqueue"]
  /\ marker' = [marker EXCEPT ![n] = "pending"]
  /\ UNCHANGED <<raftVars, gateVars, wid, attempt, base, baseIndex, outcome,
                 fsmVars, future, hpc, at, wlock, anomaly>>

\* proposeEntry on a leader that has drained its backlog.  The marker, created
\* at the start of ProposeTransaction, matters from here on.
ProposeLocal(n) ==
  /\ wpc[n] = "begun"
  /\ LeaderReady(n)
  /\ wpc' = [wpc EXCEPT ![n] = "enqueue"]
  /\ marker' = [marker EXCEPT ![n] = "pending"]
  /\ UNCHANGED <<raftVars, gateVars, wid, attempt, base, baseIndex, outcome,
                 fsmVars, future, hpc, at, wlock, anomaly>>

\* Mutation: a leader that is not ready keeps the writer waiting.
RejectFollower(n) ==
  /\ wpc[n] = "begun"
  /\ ~IsLeader(n)
  /\ Abort(n, "safe")
  /\ UNCHANGED anomaly

\* proposeEntry refuses: CatchingUpError, or NotLeaderError that is not
\* forwarded (no transport, no known leader, or no connection to it).
RejectLocal(n) ==
  /\ wpc[n] = "begun"
  /\ ~LeaderReady(n)
  /\ Abort(n, "safe")
  /\ UNCHANGED anomaly

\* raft.Apply takes the entry.
EnqueueLocal(n) ==
  /\ wpc[n] = "enqueue"
  /\ Accept(n, wid[n])
  /\ wpc' = [wpc EXCEPT ![n] = "apply"]
  /\ UNCHANGED <<gateVars, wid, attempt, base, baseIndex, outcome, marker,
                 fsmVars, hpc, wlock, anomaly>>

\* raft.Apply refuses the entry: ErrEnqueueTimeout, or another error (the node
\* is no longer leader) that proposeEntry cannot tell from a lost one.
EnqueueLocalFails(n) ==
  /\ wpc[n] = "enqueue"
  /\ \/ Abort(n, "safe")
     \/ ~IsLeader(n) /\ Abort(n, "ambiguous")
  /\ UNCHANGED anomaly

\* Mutation: a lost entry is proposed again.
ApplyLostRetries(n) ==
  /\ wpc[n] = "apply"
  /\ future[wid[n]] = "lost"
  /\ wpc' = [wpc EXCEPT ![n] = "begun"]
  /\ UNCHANGED <<raftVars, gateVars, wid, attempt, base, baseIndex, outcome, marker,
                 fsmVars, future, hpc, at, wlock, anomaly>>

\* The future fails with ErrLeadershipLost.  If the entry committed under the
\* next leader and Apply has consumed its marker, nobody materializes it on
\* this node any more: recorded as dropped.
ApplyLost(n) ==
  /\ wpc[n] = "apply"
  /\ future[wid[n]] = "lost"
  /\ Abort(n, "ambiguous")
  /\ anomaly' = IF marker[n] = "skipped"
                  THEN anomaly \cup {"dropped"} ELSE anomaly

\* The gate returns nil: the VFS writes the commit frame, SQLite publishes it.
Publish(n) ==
  /\ \/ wpc[n] = "apply" /\ future[wid[n]] = "done"
     \/ wpc[n] = "await" /\ marker[n] = "skipped"
  /\ EndWrite(n, "ok")
  /\ db' = [db EXCEPT ![n] = Append(@, wid[n])]
  /\ UNCHANGED anomaly

-----------------------------------------------------------------------------
\* Gate: the forwarding side

\* The request of n's writer goes out to l.
Send(n, l) ==
  /\ hpc' = [hpc EXCEPT ![wid[n]] = "sent"]
  /\ at' = [at EXCEPT ![wid[n]] = l]

\* proposeEntry said NotLeaderError with a leader hint l, which may be stale:
\* until runLeader's cleanup it may be n itself.  The base index is read once,
\* before the first attempt.
Forward(n, l) ==
  /\ Forwarding
  /\ wpc[n] = "begun"
  /\ ~IsLeader(n)
  /\ l # n \/ role[n] = "Deposed"
  /\ Send(n, l)
  /\ wpc' = [wpc EXCEPT ![n] = "forward"]
  /\ marker' = [marker EXCEPT ![n] = "pending"]
  /\ baseIndex' = [baseIndex EXCEPT ![wid[n]] = lastApplied[n]]
  /\ UNCHANGED <<raftVars, gateVars, wid, attempt, base, outcome, fsmVars,
                 future, wlock, anomaly>>

\* Mutation: every redirect is followed.
RedirectAlways(n, l) ==
  /\ wpc[n] = "forward"
  /\ hpc[wid[n]] = "NOT_LEADER"
  /\ Send(n, l)
  /\ attempt' = [attempt EXCEPT ![n] = @ + 1]
  /\ UNCHANGED <<raftVars, gateVars, wpc, wid, base, baseIndex, outcome, marker,
                 fsmVars, future, wlock, anomaly>>

\* NOT_LEADER with an address on the first attempt: try that node once.
Redirect(n, l) ==
  /\ wpc[n] = "forward"
  /\ hpc[wid[n]] = "NOT_LEADER"
  /\ attempt[n] = 0
  /\ Send(n, l)
  /\ attempt' = [attempt EXCEPT ![n] = 1]
  /\ UNCHANGED <<raftVars, gateVars, wpc, wid, base, baseIndex, outcome, marker,
                 fsmVars, future, wlock, anomaly>>

\* Mutation: an ambiguous answer counts as a refusal.
ForwardRejectedAmbiguous(n) ==
  /\ wpc[n] = "forward"
  /\ hpc[wid[n]] \in {"STALE_BASE", "CATCHING_UP", "BUSY", "NOT_LEADER", "AMBIGUOUS"}
  /\ Abort(n, "safe")
  /\ UNCHANGED anomaly

\* A response that proves the write never entered the log.  NOT_LEADER without
\* an address, or on the second attempt, is one, and so is a redirect that
\* cannot be delivered.
ForwardRejected(n) ==
  /\ wpc[n] = "forward"
  /\ hpc[wid[n]] \in {"STALE_BASE", "CATCHING_UP", "BUSY", "NOT_LEADER"}
  /\ Abort(n, "safe")
  /\ UNCHANGED anomaly

\* OK, AMBIGUOUS, or no response (the call failed or forwardTimeout expired
\* wherever the request is): wait for the FSM to see the entry.
AwaitFSMApplied(n) ==
  /\ wpc[n] = "forward"
  /\ wpc' = [wpc EXCEPT ![n] = "await"]
  /\ Forget(wid[n])
  /\ UNCHANGED <<raftVars, gateVars, wid, attempt, base, baseIndex, outcome,
                 marker, fsmVars, future, wlock, anomaly>>

\* Mutation: the marker is left pending when the wait is given up.
AwaitTimeoutKeepsMarker(n) ==
  /\ wpc[n] = "await"
  /\ marker[n] = "pending"
  /\ wpc' = [wpc EXCEPT ![n] = "failed"]
  /\ UNCHANGED <<raftVars, gateVars, wid, attempt, base, baseIndex, outcome,
                 marker, fsmVars, future, hpc, at, wlock, anomaly>>

\* Mutation: the wait has no deadline once the leader has answered.
AwaitWithoutDeadline(n) ==
  /\ wpc[n] = "await"
  /\ marker[n] = "pending"
  /\ hpc[wid[n]] \in Running
  /\ marker' = [marker EXCEPT ![n] = "abandoned"]
  /\ wpc' = [wpc EXCEPT ![n] = "failed"]
  /\ UNCHANGED <<raftVars, gateVars, wid, attempt, base, baseIndex, outcome,
                 fsmVars, future, hpc, at, wlock, anomaly>>

\* AwaitSkipMarkerConsumed gives up: unless the FSM was first, the marker is
\* abandoned under the mutex and the entry will be materialized by Apply.
AwaitTimeout(n) ==
  /\ wpc[n] = "await"
  /\ marker[n] = "pending"
  /\ marker' = [marker EXCEPT ![n] = "abandoned"]
  /\ wpc' = [wpc EXCEPT ![n] = "failed"]
  /\ UNCHANGED <<raftVars, gateVars, wid, attempt, base, baseIndex, outcome,
                 fsmVars, future, hpc, at, wlock, anomaly>>

\* Mutation: giving up is reported as safe to retry.
AwaitFailsSafe(n) ==
  /\ wpc[n] = "failed"
  /\ Abort(n, "safe")
  /\ UNCHANGED anomaly

AwaitFails(n) ==
  /\ wpc[n] = "failed"
  /\ Abort(n, "ambiguous")
  /\ UNCHANGED anomaly

-----------------------------------------------------------------------------
\* Gate: handleRequest for transaction t on the node at[t]

\* The handler answers; nobody reads the answer once the forwarder gave up.
Respond(t, status) ==
  /\ hpc' = [hpc EXCEPT ![t] =
                IF \E n \in Node : wid[n] = t /\ wpc[n] = "forward"
                THEN status ELSE "none"]
  /\ at' = [at EXCEPT ![t] = None]
  /\ UNCHANGED <<raftVars, gateVars, writerVars, fsmVars, future>>

\* The deferred release: the loan is deleted and the write lock given back.
Release(t) == wlock' = [wlock EXCEPT ![at[t]] = "free"]

HandleNotLeader(t) ==
  /\ hpc[t] = "sent"
  /\ ~IsLeader(at[t])
  /\ Respond(t, "NOT_LEADER")
  /\ UNCHANGED <<wlock, anomaly>>

HandleRequest(t) ==
  /\ hpc[t] = "sent"
  /\ IsLeader(at[t])
  /\ hpc' = [hpc EXCEPT ![t] = "locking"]
  /\ UNCHANGED <<raftVars, gateVars, writerVars, fsmVars, future, at, wlock,
                 anomaly>>

\* BeginHeldApply does not get the lock within handlerLockTimeout.
HandleBusy(t) ==
  /\ hpc[t] = "locking"
  /\ Respond(t, "BUSY")
  /\ UNCHANGED <<wlock, anomaly>>

\* BeginHeldApply gets the lock and registers the loan; the base check fails,
\* and the lock is given back.
HandleStale(t) ==
  /\ hpc[t] = "locking"
  /\ wlock[at[t]] = "free"
  /\ baseIndex[t] # lastApplied[at[t]]
  /\ Respond(t, "STALE_BASE")
  /\ UNCHANGED <<wlock, anomaly>>

\* Mutation: no base check.
HandleLockedUnchecked(t) ==
  /\ hpc[t] = "locking"
  /\ wlock[at[t]] = "free"
  /\ hpc' = [hpc EXCEPT ![t] = "held"]
  /\ wlock' = [wlock EXCEPT ![at[t]] = "handler"]
  /\ UNCHANGED <<raftVars, gateVars, writerVars, fsmVars, future, at, anomaly>>

\* BeginHeldApply gets the lock and registers the loan; the base check passes.
HandleLocked(t) ==
  /\ hpc[t] = "locking"
  /\ wlock[at[t]] = "free"
  /\ baseIndex[t] = lastApplied[at[t]]
  /\ hpc' = [hpc EXCEPT ![t] = "held"]
  /\ wlock' = [wlock EXCEPT ![at[t]] = "handler"]
  /\ UNCHANGED <<raftVars, gateVars, writerVars, fsmVars, future, at, anomaly>>

\* proposeEntry under the loaned lock: admitted, or refused and classified.  It
\* reads State twice, so the leader lost in between is answered CATCHING_UP.
HandlePropose(t) ==
  /\ hpc[t] = "held"
  /\ LeaderReady(at[t])
  /\ hpc' = [hpc EXCEPT ![t] = "enqueue"]
  /\ UNCHANGED <<raftVars, gateVars, writerVars, fsmVars, future, at, wlock,
                 anomaly>>

HandleRefused(t) ==
  /\ hpc[t] = "held"
  /\ ~LeaderReady(at[t])
  /\ \/ Respond(t, "CATCHING_UP")
     \/ ~IsLeader(at[t]) /\ Respond(t, "NOT_LEADER")
  /\ Release(t)
  /\ UNCHANGED anomaly

HandleEnqueue(t) ==
  /\ hpc[t] = "enqueue"
  /\ Accept(at[t], t)
  /\ hpc' = [hpc EXCEPT ![t] = "apply"]
  /\ UNCHANGED <<gateVars, writerVars, fsmVars, wlock, anomaly>>

HandleEnqueueFails(t) ==
  /\ hpc[t] = "enqueue"
  /\ \/ Respond(t, "BUSY")
     \/ ~IsLeader(at[t]) /\ Respond(t, "AMBIGUOUS")
  /\ Release(t)
  /\ UNCHANGED anomaly

\* The future resolves after Apply has run on this node.
HandleApplied(t) ==
  /\ hpc[t] = "apply"
  /\ future[t] = "done"
  /\ Respond(t, "OK")
  /\ Release(t)
  /\ UNCHANGED anomaly

\* The future fails with ErrLeadershipLost and the lock is given back, even if
\* Apply, fed by the next leader, is appending under it: recorded as overrun.
HandleLost(t) ==
  /\ hpc[t] = "apply"
  /\ future[t] = "lost"
  /\ Respond(t, "AMBIGUOUS")
  /\ Release(t)
  /\ anomaly' = IF fsm[at[t]] = "loanAppend"
                  THEN anomaly \cup {"overrun"} ELSE anomaly

-----------------------------------------------------------------------------
\* FSM.Apply of the next committed entry of n, on raft's FSM goroutine

\* Apply returns: the future that raft attached to the entry resolves.
ApplyReturns(n) ==
  /\ lastApplied' = [lastApplied EXCEPT ![n] = @ + 1]
  /\ fsm' = [fsm EXCEPT ![n] = "idle"]
  /\ future' = [future EXCEPT ![NextEntry(n)] =
                   IF @ = "committed" /\ at[NextEntry(n)] = n THEN "done" ELSE @]
  /\ UNCHANGED <<raftVars, gateVars, wpc, wid, attempt, base, baseIndex, outcome,
                 hpc, at, wlock>>

\* Mutation: any entry consumes a pending marker.
OwnPendingAny(n) == marker[n] = "pending"

\* The writer of n waits for this very entry and has a pending marker for it.
OwnPending(n) == wid[n] = NextEntry(n) /\ marker[n] = "pending"

\* A handler on n holds the lock for this entry (FSM.getLoan).
Loaned(n) == at[NextEntry(n)] = n /\ hpc[NextEntry(n)] \in Held

CanApply(n) == fsm[n] = "idle" /\ lastApplied[n] < Known(n)

\* tryConsumeSkipMarker: lastApplied advances, publishing is up to the writer.
ConsumeMarker(n) ==
  /\ CanApply(n)
  /\ OwnPending(n)
  /\ marker' = [marker EXCEPT ![n] = "skipped"]
  /\ ApplyReturns(n)
  /\ UNCHANGED <<db, anomaly>>

\* No marker to consume: materialize under the loaned lock or under our own.
StartApply(n) ==
  /\ CanApply(n)
  /\ ~OwnPending(n)
  /\ fsm' = [fsm EXCEPT ![n] = IF Loaned(n) THEN "loan" ELSE "lock"]
  /\ UNCHANGED <<raftVars, gateVars, writerVars, lastApplied, db, future, hpc,
                 at, wlock, anomaly>>

Materialize(n) ==
  /\ db' = [db EXCEPT ![n] = Append(@, NextEntry(n))]
  /\ ApplyReturns(n)
  /\ UNCHANGED <<marker, anomaly>>

\* AppendFrames: lock, append, store lastApplied, unlock.
AppendOwnLock(n) ==
  /\ fsm[n] = "lock"
  /\ wlock[n] = "free"
  /\ Materialize(n)

\* AppendFramesUnderLock begins: a released handle is an error, and Apply
\* panics on it.
BeginLoanAppend(n) ==
  /\ fsm[n] = "loan"
  /\ fsm' = [fsm EXCEPT ![n] = IF Loaned(n) THEN "loanAppend" ELSE "panic"]
  /\ anomaly' = IF Loaned(n) THEN anomaly ELSE anomaly \cup {"overrun"}
  /\ UNCHANGED <<raftVars, gateVars, writerVars, lastApplied, db, future, hpc,
                 at, wlock>>

EndLoanAppend(n) ==
  /\ fsm[n] = "loanAppend"
  /\ Materialize(n)

-----------------------------------------------------------------------------
\* A panic ends the node's process.  Its other goroutines are not stopped here:
\* behaviours in which they take no further step are among the ones below.

Raft(n) == Elect(n) \/ StepDown(n) \/ LeaveLeader(n) \/ CommitNoop(n)
           \/ CommitNext(n)

Leadership(n) == WatchLeadership(n) \/ BarrierPassed(n) \/ DrainDone(n)
                 \/ DrainReturn(n)

Writer(n) ==
  \/ ProposeLocal(n) \/ RejectLocal(n) \/ EnqueueLocal(n)
  \/ EnqueueLocalFails(n) \/ ApplyLost(n) \/ Publish(n)
  \/ \E l \in Node : Forward(n, l) \/ Redirect(n, l)
  \/ ForwardRejected(n) \/ AwaitFSMApplied(n) \/ AwaitTimeout(n) \/ AwaitFails(n)

Handler(t) ==
  \/ HandleNotLeader(t) \/ HandleRequest(t) \/ HandleBusy(t) \/ HandleStale(t)
  \/ HandleLocked(t) \/ HandlePropose(t) \/ HandleRefused(t) \/ HandleEnqueue(t)
  \/ HandleEnqueueFails(t) \/ HandleApplied(t) \/ HandleLost(t)

Fsm(n) == ConsumeMarker(n) \/ StartApply(n) \/ AppendOwnLock(n)
          \/ BeginLoanAppend(n) \/ EndLoanAppend(n)

Next ==
  \/ \E n \in Node : Raft(n) \/ Leadership(n) \/ Writer(n) \/ Fsm(n)
  \/ \E n \in Node, t \in Txn : BeginWrite(n, t)
  \/ \E t \in Txn : Handler(t)

Spec == Init /\ [][Next]_vars

-----------------------------------------------------------------------------
Clean == anomaly = {}

ReplicaAt(n) ==
  /\ Len(db[n]) + (IF marker[n] = "skipped" THEN 1 ELSE 0) = lastApplied[n]
  /\ Len(db[n]) <= Len(committed)
  /\ \A i \in 1..Len(db[n]) : db[n][i] = committed[i]

\* Every replica holds exactly the committed entries its FSM has handled, in
\* log order, each published once, whether by its own writer, under a loaned
\* lock or by AppendFrames.  It is one short only while the writer whose marker
\* Apply consumed has not written its commit frame yet.
ReplicaIsPrefix == Clean => \A n \in Node : ReplicaAt(n)

\* Page images are never applied to a state they were not computed on: the
\* entry at index i was computed on a database of exactly i - 1 transactions,
\* which ReplicaIsPrefix says are the ones committed before it.
NoLostUpdate ==
  Clean => \A i \in 1..Len(committed) : base[committed[i]] = i - 1

\* A write the client may retry (Redirect or Retryable in proto/errors) is in
\* nobody's log and has not committed.
SafeToRetry ==
  \A t \in Txn : outcome[t] = "safe" =>
    /\ \A i \in 1..Len(committed) : committed[i] # t
    /\ \A n \in Node : \A i \in 1..Len(tail[n]) : tail[n][i] # t

\* No entry commits twice, redirects and late handlers included.
CommittedOnce ==
  \A i, j \in 1..Len(committed) : committed[i] = committed[j] => i = j

\* A leader that reports itself ready has drained its backlog: once its write
\* lock is free, its database holds every entry of its log, so that whoever
\* takes the lock next computes on, or is checked against, the newest state.
ReadyIsDrained ==
  Clean => \A n \in live :
    LeaderReady(n) /\ wlock[n] = "free" =>
      /\ tail[n] = <<>>
      /\ Len(db[n]) = Len(committed)

Promise == INSTANCE ReplicatedDB WITH log <- committed, view <- db

\* Until one of the recorded races happens, every step is one the client-level
\* specification allows: the log grows, a replica shows its next entry, a write
\* is acknowledged as it becomes visible, rejected only if it never commits.
KeepsPromise ==
  /\ Promise!Init
  /\ [][\/ UNCHANGED <<committed, db, outcome>>
        \/ anomaly' # {}
        \/ Promise!Next]_vars

\* What fsm.go says of lastApplied: the last index that was materialized.
LastAppliedIsMaterialized ==
  \A n \in Node : marker[n] = "none" => Len(db[n]) = lastApplied[n]

\* What fsm.go says of a loan: the handler is still holding the write lock.
LoanIsHeld ==
  \A n \in Node : fsm[n] = "loanAppend" => wlock[n] = "handler"

\* What gate.go says of leaderReady: the leader has finished draining.
LeaderReadyIsDrained ==
  \A n \in live :
    LeaderReady(n) /\ wlock[n] = "free" =>
      lastApplied[n] = Len(committed) /\ tail[n] = <<>>

-----------------------------------------------------------------------------
\* Goroutines run; an uncontested leader reaches its quorum; a leader that was
\* replaced loses its lease.  Elections and new writes are not promised.
Fairness ==
  /\ \A n \in Node :
       /\ WF_vars(Writer(n))
       /\ WF_vars(Fsm(n))
       /\ WF_vars(Leadership(n))
       /\ WF_vars(LeaveLeader(n))
       /\ WF_vars((CommitNoop(n) \/ CommitNext(n)))
       /\ WF_vars(current # n /\ StepDown(n))
  /\ \A t \in Txn : WF_vars(Handler(t))

FairSpec == Spec /\ Fairness

\* ProposeTransaction returns, whatever happens to the leadership, to the
\* handler and to the FSM it waits for: nobody waits in a circle for the lock.
WriteResolves ==
  \A n \in Node : wpc[n] # "idle" ~> (wpc[n] = "idle" \/ ~Clean)

\* A leader gets through its drain although the backlog needs the write lock
\* that a local writer may hold: the writer is told to retry.
LeaderGetsReady ==
  \A n \in Node : IsLeader(n) ~> (LeaderReady(n) \/ ~IsLeader(n) \/ ~Clean)

\* Every replica ends up with the whole log published.
Converges ==
  <>[](\A n \in Node : Len(db[n]) = Len(committed)) \/ <>~Clean

=============================================================================
