--------------------------- MODULE ReplicationInv ---------------------------
(***************************************************************************)
(* The inductive invariant behind the safety properties of Replication, in *)
(* layers: each rests on the ones before it and on TypeOK.                 *)
(***************************************************************************)
EXTENDS Replication

-----------------------------------------------------------------------------
\* The write lock: the writer has it exactly while it is in a transaction, a
\* handler while it holds its loan, and there is at most one such handler.
WriterLock ==
  \A n \in Node :
    /\ wlock[n] = "writer" <=> wpc[n] # "idle"
    /\ wpc[n] # "idle" => wid[n] \in Txn /\ outcome[wid[n]] = "open"
    /\ marker[n] = "none" <=> wpc[n] \in {"idle", "begun"}
    /\ marker[n] = "abandoned" <=> wpc[n] = "failed"
    /\ wpc[n] = "idle" => wid[n] = None

OneWriter ==
  \A n, m \in Node : wid[n] = wid[m] /\ wid[n] # None => n = m

HandlerLock ==
  \A t \in Txn :
    /\ hpc[t] \in Running => at[t] \in Node
    /\ hpc[t] \in Held => wlock[at[t]] = "handler"

OneHandler ==
  \A t, u \in Txn :
    hpc[t] \in Held /\ hpc[u] \in Held /\ at[t] = at[u] => t = u

LockInv == WriterLock /\ OneWriter /\ HandlerLock /\ OneHandler

\* Before raft.Apply has accepted it, a transaction is in nobody's log; one
\* that was reported safe to retry has no handler that could still propose it.
Unproposed == {"sent", "locking", "held", "enqueue", "STALE_BASE", "CATCHING_UP",
               "BUSY", "NOT_LEADER"}

CallInv ==
  /\ \A t \in Txn :
       /\ outcome[t] \in {"new", "safe"} => hpc[t] = "none" /\ future[t] = "none"
       /\ hpc[t] \in Unproposed => future[t] = "none"
  /\ \A n \in Node :
       /\ wpc[n] \in {"begun", "enqueue"} =>
            hpc[wid[n]] = "none" /\ future[wid[n]] = "none"
       /\ wpc[n] = "apply" => hpc[wid[n]] = "none" /\ at[wid[n]] = n

\* The logs: what is in one was accepted, no log has an entry twice, only live
\* nodes have a tail, and the current leader's tail covers what it inherited.
LogAccepted ==
  /\ \A i \in 1..Len(committed) : future[committed[i]] # "none"
  /\ \A m \in Node : \A i \in 1..Len(tail[m]) : future[tail[m][i]] # "none"

LogOnce ==
  /\ CommittedOnce
  /\ \A m \in Node : \A i, j \in 1..Len(tail[m]) :
       tail[m][i] = tail[m][j] => i = j
  /\ \A m \in Node : \A i \in 1..Len(tail[m]), j \in 1..Len(committed) :
       tail[m][i] # committed[j]

LogShape ==
  /\ \A m \in Node : m \notin live => tail[m] = <<>>
  /\ current # None =>
       /\ current \in live
       /\ IsLeader(current)
       /\ inherited <= Len(tail[current])

LogInv == LogAccepted /\ LogOnce /\ LogShape

-----------------------------------------------------------------------------
\* The FSM: where it is in the log, and what it may find there.
Applying == {"lock", "loan", "loanAppend"}

FsmIndex ==
  \A n \in Node :
    /\ lastSeen[n] <= Len(committed)
    /\ lastApplied[n] <= Len(committed)
    /\ fsm[n] \in Applying => lastApplied[n] < Len(committed)

MarkerAt(n) ==
  /\ fsm[n] \in Applying /\ wid[n] = NextEntry(n) => marker[n] # "pending"
  /\ marker[n] = "skipped" =>
       /\ lastApplied[n] > 0
       /\ wpc[n] \in {"apply", "forward", "await"}
       /\ Clean => committed[lastApplied[n]] = wid[n]

FsmMarker == \A n \in Node : MarkerAt(n)

\* A future is resolved by the FSM of the node that waits for it.
HasApplied(n, t) == \E i \in 1..lastApplied[n] : committed[i] = t

FsmDone ==
  /\ \A n \in Node : wpc[n] = "apply" /\ future[wid[n]] = "done" => marker[n] = "skipped"
  /\ \A t \in Txn : hpc[t] = "apply" /\ future[t] = "done" => HasApplied(at[t], t)

FsmInv == FsmIndex /\ FsmMarker /\ FsmDone

\* Until a race is recorded, a loan that Apply is appending under is held.
LoanInv ==
  Clean => \A n \in Node : fsm[n] = "loanAppend" => Loaned(n)

-----------------------------------------------------------------------------
\* Leadership and readiness.
TermInv ==
  \A n \in Node :
    /\ leadTerm[n] <= lastTerm
    /\ drain[n].term <= lastTerm
    /\ IsLeader(n) => leadTerm[n] > 0 /\ leaderCh[n] # "lost"
    /\ drain[n].pc = "idle" => drain[n].term = 0

\* A leader that has not yet seen its election on LeaderCh admits nothing.
GainedAt(n) ==
  /\ IsLeader(n) /\ leaderCh[n] = "gained" =>
       n \notin ready /\ ~Admitted(n) /\ ~DrainsThisTerm(n)
  /\ IsLeader(n) /\ Admitted(n) => n \in ready
  /\ current = n /\ (n \in ready \/ (DrainsThisTerm(n) /\ drain[n].pc = "passed")) =>
       noop = "committed"

GainedInv == Clean => \A n \in Node : GainedAt(n)

\* A drain waits for the whole log of its leader, which does not grow meanwhile.
DrainAt(n) ==
  n \in live /\ DrainsThisTerm(n) =>
    /\ n \notin ready
    /\ drain[n].bar = Len(committed) + Len(tail[n])
    /\ drain[n].pc = "passed" => lastApplied[n] >= drain[n].bar

DrainInv == Clean => \A n \in Node : DrainAt(n)

\* A proposer on n that has handed t to raft and still holds the lock.
Waits(n, t) ==
  \/ wpc[n] = "apply" /\ wid[n] = t
  \/ hpc[t] = "apply" /\ at[t] = n

\* A ready leader has at most one entry it has not applied: the one whose
\* proposer holds the lock.
Drained(n) == tail[n] = <<>> /\ lastApplied[n] = Len(committed)

OneInFlight(n) ==
  \E t \in Txn :
    /\ Waits(n, t)
    /\ \/ /\ future[t] = "inflight"
          /\ tail[n] = <<t>>
          /\ lastApplied[n] = Len(committed)
       \/ /\ future[t] = "committed"
          /\ tail[n] = <<>>
          /\ lastApplied[n] + 1 = Len(committed)
          /\ NextEntry(n) = t

ReadyAt(n) == n \in live /\ LeaderReady(n) => Drained(n) \/ OneInFlight(n)

ReadyInv == Clean => \A n \in Node : ReadyAt(n)

-----------------------------------------------------------------------------
\* On which state every proposal was computed.
TailBase ==
  Clean => \A m \in Node : \A i \in 1..Len(tail[m]) :
    base[tail[m][i]] = Len(committed) + i - 1

WriterBase ==
  Clean => \A n \in Node :
    wpc[n] # "idle" /\ marker[n] # "skipped" => base[wid[n]] = Len(db[n])

RequestBase ==
  Clean => \A t \in Txn :
    /\ hpc[t] \in {"sent", "locking", "held", "enqueue", "NOT_LEADER"} =>
         baseIndex[t] = base[t]
    /\ hpc[t] \in {"held", "enqueue"} => base[t] = Len(db[at[t]])

BaseInv == NoLostUpdate /\ TailBase /\ WriterBase /\ RequestBase

\* What was acknowledged has committed.
AckInv ==
  Clean => \A t \in Txn : outcome[t] = "ok" =>
    \E i \in 1..Len(committed) : committed[i] = t

=============================================================================
