---------------------------- MODULE ReadyProofs -----------------------------
(***************************************************************************)
(* Readiness and bases in Replication: a ready leader has drained its      *)
(* backlog, an entry is published on the state it was computed on, and the *)
(* write path implements what ReplicatedDB promises.                       *)
(***************************************************************************)
EXTENDS SafetyProofs

\* Steps that name no prover are left to Zenon.
USE ZenonT(60)

-----------------------------------------------------------------------------
\* The steps of the writers, the handlers and the FSMs, and what they do to the
\* logs: a proposal is accepted, an entry is applied, or neither.
Local ==
  \/ \E n \in Node : Writer(n) \/ Fsm(n) \/ \E t \in Txn : BeginWrite(n, t)
  \/ \E t \in Txn : Handler(t)

leaderVars == <<role, leadTerm, lastTerm, current, noop, inherited, live, committed, lastSeen,
                leaderCh, ready, drain>>

Enqueue(n, t) ==
  /\ Accept(n, t)
  /\ \/ /\ wpc[n] = "enqueue" /\ wid[n] = t
        /\ wpc' = [wpc EXCEPT ![n] = "apply"] /\ hpc' = hpc
     \/ /\ hpc[t] = "enqueue" /\ at[t] = n
        /\ hpc' = [hpc EXCEPT ![t] = "apply"] /\ wpc' = wpc
  /\ UNCHANGED <<wid, base, baseIndex, marker, lastApplied, db, wlock, outcome>>

Applies(n) == ApplyReturns(n) /\ (CanApply(n) \/ fsm[n] \in Applying) /\ UNCHANGED tail

\* Every such step is of one of the three kinds.
LEMMA LocalSteps ==
  ASSUME TypeOK, LockInv, Local
  PROVE  /\ UNCHANGED leaderVars
         /\ \/ \E n \in Node, t \in Txn : Enqueue(n, t)
            \/ \E n \in Node : Applies(n)
            \/ UNCHANGED <<tail, lastApplied, future>>
PROOF
  <1>1. ASSUME NEW n \in Node, NEW t \in Txn, BeginWrite(n, t)
        PROVE  UNCHANGED leaderVars /\ UNCHANGED <<tail, lastApplied, future>>
    BY <1>1 DEF BeginWrite, leaderVars, raftVars, gateVars, fsmVars
  <1>2. ASSUME NEW n \in Node, Writer(n)
        PROVE  /\ UNCHANGED leaderVars
               /\ \/ \E m \in Node, t \in Txn : Enqueue(m, t)
                  \/ UNCHANGED <<tail, lastApplied, future>>
    <2>1. CASE EnqueueLocal(n)
      <3>1. wid[n] \in Txn
        BY <2>1 DEF EnqueueLocal, LockInv, WriterLock
      <3>2. Enqueue(n, wid[n]) /\ UNCHANGED leaderVars
        BY <2>1 DEF EnqueueLocal, Accept, Enqueue, leaderVars, gateVars, fsmVars
      <3> QED
        BY <3>1, <3>2
    <2>2. ASSUME NEW l \in Node, Forward(n, l) \/ Redirect(n, l)
          PROVE  UNCHANGED leaderVars /\ UNCHANGED <<tail, lastApplied, future>>
      BY <2>2 DEF Forward, Redirect, leaderVars, raftVars, gateVars, fsmVars
    <2>3. CASE \E result \in Outcome : EndWrite(n, result)
      BY <2>3 DEF EndWrite, leaderVars, raftVars, gateVars, fsmVars
    <2>4. CASE ProposeLocal(n) \/ AwaitFSMApplied(n) \/ AwaitTimeout(n)
      BY <2>4 DEF ProposeLocal, AwaitFSMApplied, AwaitTimeout, leaderVars, raftVars,
         gateVars, fsmVars
    <2>5. CASE \/ RejectLocal(n) \/ EnqueueLocalFails(n) \/ ApplyLost(n) \/ Publish(n)
               \/ ForwardRejected(n) \/ AwaitFails(n)
      <3>1. \E result \in Outcome : EndWrite(n, result)
        BY <2>5 DEF RejectLocal, EnqueueLocalFails, ApplyLost, Publish, ForwardRejected,
           AwaitFails, Abort, Outcome
      <3> QED
        BY <2>3, <3>1
    <2> QED
      BY <1>2, <2>1, <2>2, <2>4, <2>5 DEF Writer
  <1>3. ASSUME NEW t \in Txn, Handler(t)
        PROVE  /\ UNCHANGED leaderVars
               /\ \/ \E m \in Node, u \in Txn : Enqueue(m, u)
                  \/ UNCHANGED <<tail, lastApplied, future>>
    <2>1. CASE HandleEnqueue(t)
      <3>1. at[t] \in Node
        BY <2>1 DEF HandleEnqueue, LockInv, HandlerLock, Running
      <3>2. Enqueue(at[t], t) /\ UNCHANGED leaderVars
        BY <2>1 DEF HandleEnqueue, Accept, Enqueue, leaderVars, gateVars, writerVars,
           fsmVars
      <3> QED
        BY <3>1, <3>2
    <2>2. CASE \E status \in Status : Respond(t, status)
      BY <2>2 DEF Respond, leaderVars, raftVars, gateVars, fsmVars
    <2>3. CASE HandleRequest(t) \/ HandleLocked(t) \/ HandlePropose(t)
      BY <2>3 DEF HandleRequest, HandleLocked, HandlePropose, leaderVars, raftVars,
         gateVars, fsmVars
    <2>4. CASE \/ HandleNotLeader(t) \/ HandleBusy(t) \/ HandleStale(t) \/ HandleRefused(t)
               \/ HandleEnqueueFails(t) \/ HandleApplied(t) \/ HandleLost(t)
      <3>1. \E status \in Status : Respond(t, status)
        BY <2>4 DEF HandleNotLeader, HandleBusy, HandleStale, HandleRefused,
           HandleEnqueueFails, HandleApplied, HandleLost, Status
      <3> QED
        BY <2>2, <3>1
    <2> QED
      BY <1>3, <2>1, <2>3, <2>4 DEF Handler
  <1>4. ASSUME NEW n \in Node, Fsm(n)
        PROVE  /\ UNCHANGED leaderVars
               /\ Applies(n) \/ UNCHANGED <<tail, lastApplied, future>>
    BY <1>4 DEF Fsm, ConsumeMarker, StartApply, AppendOwnLock, BeginLoanAppend,
       EndLoanAppend, Materialize, ApplyReturns, Applies, Applying, leaderVars, raftVars,
       gateVars
  <1> QED
    BY <1>1, <1>2, <1>3, <1>4 DEF Local

-----------------------------------------------------------------------------
\* TermInv: terms and LeaderCh.

\* TermInv speaks of these variables only.
LEMMA TermFrame ==
  ASSUME TermInv, UNCHANGED <<role, leadTerm, lastTerm, leaderCh, drain>>
  PROVE  TermInv'
  BY DEF TermInv, IsLeader

\* A new leader leads a new term; a drain carries the term it was started in.
LEMMA TermNext ==
  ASSUME TypeOK, LockInv, TermInv, Next
  PROVE  TermInv'
PROOF
  <1> USE DEF TypeOK, RaftType, GateType
  <1>1. ASSUME NEW n \in Node, Elect(n) PROVE TermInv'
    <2>1. /\ role' = [role EXCEPT ![n] = "Leader"]
          /\ lastTerm' = lastTerm + 1
          /\ leadTerm' = [leadTerm EXCEPT ![n] = lastTerm + 1]
          /\ leaderCh' = [leaderCh EXCEPT ![n] = "gained"]
          /\ drain' = drain
      BY <1>1 DEF Elect, gateVars
    <2> SUFFICES ASSUME NEW m \in Node
                 PROVE  /\ leadTerm'[m] <= lastTerm' /\ drain'[m].term <= lastTerm'
                        /\ IsLeader(m)' => leadTerm'[m] > 0 /\ leaderCh'[m] # "lost"
                        /\ drain'[m].pc = "idle" => drain'[m].term = 0
      BY DEF TermInv
    <2>2. lastTerm \in Nat /\ drain[m].term \in Nat /\ leadTerm[m] \in Nat
      BY DEF Drain
    <2>3. leadTerm[m] <= lastTerm /\ drain[m].term <= lastTerm
      BY DEF TermInv
    <2>4. leadTerm'[m] <= lastTerm' /\ drain'[m].term <= lastTerm'
      BY <2>1, <2>2, <2>3, SMTT(60)
    <2>5. IsLeader(m)' => leadTerm'[m] > 0 /\ leaderCh'[m] # "lost"
      BY <2>1, <2>2, SMTT(60) DEF TermInv, IsLeader
    <2> QED
      BY <2>1, <2>4, <2>5 DEF TermInv
  <1>2. ASSUME NEW n \in Node, StepDown(n) PROVE TermInv'
    BY <1>2, SMTT(60) DEF StepDown, gateVars, TermInv, IsLeader
  <1>3. ASSUME NEW n \in Node, LeaveLeader(n) PROVE TermInv'
    BY <1>3 DEF LeaveLeader, gateVars, TermInv, IsLeader
  <1>4. ASSUME NEW n \in Node, CommitNoop(n) \/ CommitNext(n) PROVE TermInv'
    BY <1>4, TermFrame DEF CommitNoop, CommitNext, CommitTail, gateVars
  <1>5. ASSUME NEW n \in Node, WatchLeadership(n) PROVE TermInv'
    <2>1. /\ leaderCh' = [leaderCh EXCEPT ![n] = "none"]
          /\ UNCHANGED <<role, leadTerm, lastTerm>>
          /\ drain' = drain \/ \E b : drain' = [drain EXCEPT ![n] =
                                 [pc |-> "barrier", term |-> leadTerm[n], bar |-> b]]
      BY <1>5 DEF WatchLeadership
    <2> QED
      BY <2>1, SMTT(60) DEF TermInv, IsLeader
  <1>6. ASSUME NEW n \in Node, BarrierPassed(n) \/ DrainDone(n) \/ DrainReturn(n) PROVE TermInv'
    <2>1. /\ drain' = [drain EXCEPT ![n].pc = "passed"] \/ drain' = [drain EXCEPT ![n] = NoDrain]
          /\ UNCHANGED <<role, leadTerm, lastTerm, leaderCh>>
      BY <1>6 DEF BarrierPassed, DrainDone, DrainReturn, raftVars
    <2> QED
      BY <2>1, SMTT(60) DEF TermInv, IsLeader, NoDrain, Drain
  <1>7. CASE Local
    BY <1>7, LocalSteps, TermFrame DEF leaderVars
  <1> QED
    BY <1>1, <1>2, <1>3, <1>4, <1>5, <1>6, <1>7 DEF Next, Raft, Leadership, Local

-----------------------------------------------------------------------------
\* GainedInv: who is admitted.

\* A local step admits a proposal on a ready leader only.
LEMMA AdmittedByReady ==
  ASSUME TypeOK, LockInv, CallInv, Local, NEW m \in Node, Admitted(m)'
  PROVE  Admitted(m) \/ LeaderReady(m)
PROOF
  <1> USE DEF TypeOK, WriterType, HandlerType
  <1>1. ASSUME NEW n \in Node, NEW t \in Txn, BeginWrite(n, t)
        PROVE  Admitted(m)
    BY <1>1 DEF BeginWrite, Admitted
  <1>2. ASSUME NEW n \in Node, Writer(n)
        PROVE  Admitted(m) \/ LeaderReady(m)
    <2>1. CASE EnqueueLocal(n)
      <3>1. /\ wpc' = [wpc EXCEPT ![n] = "apply"] /\ hpc' = hpc
            /\ at' = [at EXCEPT ![wid[n]] = n] /\ hpc[wid[n]] = "none"
        BY <2>1 DEF EnqueueLocal, Accept, CallInv
      <3> QED
        BY <3>1 DEF Admitted
    <2>2. ASSUME NEW l \in Node, Forward(n, l) \/ Redirect(n, l)
          PROVE  Admitted(m)
      <3>1. /\ wpc' = [wpc EXCEPT ![n] = "forward"] \/ wpc' = wpc
            /\ hpc' = [hpc EXCEPT ![wid[n]] = "sent"]
            /\ at' = [at EXCEPT ![wid[n]] = l]
        BY <2>2 DEF Forward, Redirect, Send
      <3> QED
        BY <3>1 DEF Admitted
    <2>3. CASE Forget(wid[n]) /\ \E label \in {"idle", "await"} : wpc' = [wpc EXCEPT ![n] = label]
      BY <2>3 DEF Forget, Admitted, Running, Status
    <2>4. CASE ProposeLocal(n)
      BY <2>4 DEF ProposeLocal, Admitted
    <2>5. CASE AwaitTimeout(n)
      BY <2>5 DEF AwaitTimeout, Admitted
    <2>6. CASE \/ RejectLocal(n) \/ EnqueueLocalFails(n) \/ ApplyLost(n) \/ Publish(n)
               \/ ForwardRejected(n) \/ AwaitFails(n) \/ AwaitFSMApplied(n)
      BY <2>3, <2>6 DEF RejectLocal, EnqueueLocalFails, ApplyLost, Publish,
         ForwardRejected, AwaitFails, AwaitFSMApplied, Abort, EndWrite
    <2> QED
      BY <1>2, <2>1, <2>2, <2>4, <2>5, <2>6 DEF Writer
  <1>3. ASSUME NEW t \in Txn, Handler(t)
        PROVE  Admitted(m) \/ LeaderReady(m)
    <2>1. CASE HandleEnqueue(t)
      BY <2>1 DEF HandleEnqueue, Accept, Admitted, writerVars
    <2>2. CASE \E status \in Status : Respond(t, status)
      BY <2>2 DEF Respond, Admitted, writerVars, Status
    <2>3. CASE HandleRequest(t) \/ HandleLocked(t) \/ HandlePropose(t)
      BY <2>3 DEF HandleRequest, HandleLocked, HandlePropose, Admitted, writerVars
    <2>4. CASE \/ HandleNotLeader(t) \/ HandleBusy(t) \/ HandleStale(t) \/ HandleRefused(t)
               \/ HandleEnqueueFails(t) \/ HandleApplied(t) \/ HandleLost(t)
      <3>1. \E status \in Status : Respond(t, status)
        BY <2>4 DEF HandleNotLeader, HandleBusy, HandleStale, HandleRefused,
           HandleEnqueueFails, HandleApplied, HandleLost, Status
      <3> QED
        BY <2>2, <3>1
    <2> QED
      BY <1>3, <2>1, <2>3, <2>4 DEF Handler
  <1>4. ASSUME NEW n \in Node, Fsm(n)
        PROVE  Admitted(m)
    BY <1>4 DEF Fsm, ConsumeMarker, StartApply, AppendOwnLock, BeginLoanAppend,
       EndLoanAppend, Materialize, ApplyReturns, writerVars, Admitted
  <1> QED
    BY <1>1, <1>2, <1>3, <1>4 DEF Local

\* The steps of raft and of the gate's leadership goroutines leave the proposals alone.
LEMMA AdmittedFrame ==
  ASSUME NEW n \in Node, Raft(n) \/ Leadership(n)
  PROVE  /\ UNCHANGED <<wpc, wid, hpc, at, marker, lastApplied, db, base, baseIndex, wlock, outcome>>
         /\ \A m : Admitted(m)' <=> Admitted(m)
PROOF
  <1>1. UNCHANGED <<wpc, wid, hpc, at, marker, lastApplied, db, base, baseIndex, wlock, outcome>>
    BY DEF Raft, Elect, StepDown, LeaveLeader, CommitNoop, CommitNext, CommitTail,
       Leadership, WatchLeadership, BarrierPassed, DrainDone, DrainReturn, writerVars, fsmVars
  <1> QED
    BY <1>1 DEF Admitted

\* A leader that has not seen its election admits nothing, one that admits is ready, and a
\* drain is through only after the no-op of its term.
LEMMA GainedNext ==
  ASSUME TypeOK, LockInv, CallInv, LogInv, TermInv, GainedInv, Next
  PROVE  GainedInv'
PROOF
  <1> SUFFICES ASSUME Clean', Clean, NEW m \in Node, GainedAt(m) PROVE GainedAt(m)'
    BY CleanBefore DEF GainedInv
  <1> USE DEF TypeOK, RaftType, GateType
  <1>1. ASSUME NEW n \in Node, Elect(n) PROVE GainedAt(m)'
    <2>1. /\ role' = [role EXCEPT ![n] = "Leader"]
          /\ leadTerm' = [leadTerm EXCEPT ![n] = lastTerm + 1]
          /\ leaderCh' = [leaderCh EXCEPT ![n] = "gained"]
          /\ current' = n
          /\ UNCHANGED <<ready, drain>>
      BY <1>1 DEF Elect, gateVars
    <2>2. n \notin ready /\ ~Admitted(n)
      BY <1>1 DEF Elect, Clean
    <2>3. Admitted(m)' <=> Admitted(m)
      BY <1>1, AdmittedFrame DEF Raft
    <2>4. drain[n].term # lastTerm + 1
      BY SMTT(60) DEF TermInv, Drain
    <2>5. CASE m = n
      BY <2>1, <2>2, <2>3, <2>4, <2>5 DEF GainedAt, DrainsThisTerm, IsLeader
    <2>6. CASE m # n
      BY <2>1, <2>3, <2>6 DEF GainedAt, DrainsThisTerm, IsLeader
    <2> QED
      BY <2>5, <2>6
  <1>2. ASSUME NEW n \in Node, StepDown(n) PROVE GainedAt(m)'
    <2>1. Admitted(m)' <=> Admitted(m)
      BY <1>2, AdmittedFrame DEF Raft
    <2> QED
      BY <1>2, <2>1, ConstAssumption DEF StepDown, gateVars, GainedAt, DrainsThisTerm, IsLeader
  <1>3. ASSUME NEW n \in Node, LeaveLeader(n) PROVE GainedAt(m)'
    <2>1. Admitted(m)' <=> Admitted(m)
      BY <1>3, AdmittedFrame DEF Raft
    <2>2. current # n
      BY <1>3, ConstAssumption DEF LeaveLeader, LogInv, LogShape, IsLeader
    <2> QED
      BY <1>3, <2>1, <2>2 DEF LeaveLeader, gateVars, GainedAt, DrainsThisTerm, IsLeader
  <1>4. ASSUME NEW n \in Node, CommitNoop(n) \/ CommitNext(n) PROVE GainedAt(m)'
    <2>1. Admitted(m)' <=> Admitted(m)
      BY <1>4, AdmittedFrame DEF Raft
    <2>2. noop' = "committed" /\ UNCHANGED <<role, leaderCh, ready, leadTerm, drain>>
      BY <1>4 DEF CommitNoop, CommitNext, CommitTail, gateVars
    <2> QED
      BY <2>1, <2>2 DEF GainedAt, DrainsThisTerm, IsLeader
  <1>5. ASSUME NEW n \in Node, WatchLeadership(n) PROVE GainedAt(m)'
    <2>1. Admitted(m)' <=> Admitted(m)
      BY <1>5, AdmittedFrame DEF Leadership
    <2>2. UNCHANGED <<role, leadTerm, current, noop>>
      BY <1>5 DEF WatchLeadership
    <2>3. CASE m # n
      <3>1. leaderCh'[m] = leaderCh[m] /\ (m \in ready' <=> m \in ready) /\ drain'[m] = drain[m]
        BY <1>5, <2>3 DEF WatchLeadership
      <3> QED
        BY <2>1, <2>2, <3>1 DEF GainedAt, DrainsThisTerm, IsLeader
    <2>4. CASE m = n
      <3>1. leaderCh'[m] = "none" /\ m \notin ready'
        BY <1>5, <2>4 DEF WatchLeadership
      <3>2. ~(IsLeader(m) /\ Admitted(m))
        BY <1>5, <2>4 DEF WatchLeadership, GainedAt, TermInv
      <3>3. drain'[m] = drain[m] \/ drain'[m].pc = "barrier"
        BY <1>5, <2>4 DEF WatchLeadership
      <3> QED
        BY <2>1, <2>2, <3>1, <3>2, <3>3 DEF GainedAt, DrainsThisTerm, IsLeader
    <2> QED
      BY <2>3, <2>4
  <1>6. ASSUME NEW n \in Node, BarrierPassed(n) \/ DrainDone(n) \/ DrainReturn(n)
        PROVE  GainedAt(m)'
    <2>1. Admitted(m)' <=> Admitted(m)
      BY <1>6, AdmittedFrame DEF Leadership
    <2>2. UNCHANGED <<role, leadTerm, current, noop, leaderCh>>
      BY <1>6 DEF BarrierPassed, DrainDone, DrainReturn, raftVars
    <2>3. CASE m # n
      <3>1. (m \in ready' <=> m \in ready) /\ drain'[m] = drain[m]
        BY <1>6, <2>3 DEF BarrierPassed, DrainDone, DrainReturn
      <3> QED
        BY <2>1, <2>2, <3>1 DEF GainedAt, DrainsThisTerm, IsLeader
    <2>4. CASE m = n /\ BarrierPassed(n)
      <3>1. /\ drain'[m].term = drain[m].term /\ ready' = ready /\ noop = "committed"
        BY <2>4 DEF BarrierPassed, Drain
      <3> QED
        BY <2>1, <2>2, <3>1 DEF GainedAt, DrainsThisTerm, IsLeader
    <2>5. CASE m = n /\ (DrainDone(n) \/ DrainReturn(n))
      <3>1. drain'[m].term = 0 /\ drain'[m].pc = "idle"
        BY <2>5, SMTT(60) DEF DrainDone, DrainReturn, NoDrain
      <3>2. /\ m \in ready => m \in ready'
            /\ m \in ready' => m \in ready \/ (DrainsThisTerm(m) /\ drain[m].pc = "passed")
        BY <2>5 DEF DrainDone, DrainReturn
      <3>3. IsLeader(m) => leadTerm[m] # 0
        BY SMTT(60) DEF TermInv
      <3> QED
        BY <2>1, <2>2, <3>1, <3>2, <3>3 DEF GainedAt, DrainsThisTerm, IsLeader
    <2> QED
      BY <1>6, <2>3, <2>4, <2>5
  <1>7. CASE Local
    <2>1. UNCHANGED leaderVars
      BY <1>7, LocalSteps
    <2>2. Admitted(m)' => Admitted(m) \/ LeaderReady(m)
      BY <1>7, AdmittedByReady
    <2> QED
      BY <2>1, <2>2 DEF leaderVars, GainedAt, DrainsThisTerm, LeaderReady, IsLeader
  <1> QED
    BY <1>1, <1>2, <1>3, <1>4, <1>5, <1>6, <1>7 DEF Next, Raft, Leadership, Local

-----------------------------------------------------------------------------
\* DrainInv: what a barrier waits for.

\* A commit moves a prefix of the current leader's tail.
LEMMA CommitSteps ==
  ASSUME TypeOK, LogInv, NEW n \in Node, CommitNoop(n) \/ CommitNext(n)
  PROVE  /\ current = n /\ n \in live
         /\ \E k \in 0..Len(tail[n]) :
              /\ CommitTail(n, k) /\ CommitResult(n, k)
              /\ noop = "committed" => k = 1
PROOF
  <1>1. current = n /\ n \in live
    BY ConstAssumption DEF CommitNoop, CommitNext, LogInv, LogShape
  <1>2. tail[n] \in Seq(Txn) /\ inherited \in Nat
    BY DEF TypeOK, LogType, RaftType
  <1>3. CASE CommitNoop(n)
    <2>1. inherited \in 0..Len(tail[n]) /\ CommitTail(n, inherited) /\ noop # "committed"
      BY <1>1, <1>2, <1>3, ConstAssumption, SMTT(60) DEF CommitNoop, LogInv, LogShape
    <2> QED
      BY <1>1, <2>1, CommitEffect
  <1>4. CASE CommitNext(n)
    <2>1. 1 \in 0..Len(tail[n]) /\ CommitTail(n, 1)
      BY <1>2, <1>4, SMTT(60) DEF CommitNext
    <2> QED
      BY <1>1, <2>1, CommitEffect
  <1> QED
    BY <1>3, <1>4

\* Who calls raft.Apply was admitted, and holds the write lock with nobody else waiting for
\* an entry of that node.
LEMMA EnqueueAlone ==
  ASSUME TypeOK, LockInv, CallInv, NEW n \in Node, NEW t \in Txn, Enqueue(n, t)
  PROVE  /\ IsLeader(n) /\ Admitted(n) /\ Waits(n, t)' /\ at'[t] = n
         /\ \A u \in Txn : ~Waits(n, u)
         /\ \A m \in Node, u \in Txn : m # n /\ Waits(m, u) => u # t /\ Waits(m, u)'
PROOF
  <1> USE DEF TypeOK, WriterType, HandlerType
  <1>1. IsLeader(n) /\ at' = [at EXCEPT ![t] = n] /\ wid' = wid
    BY DEF Enqueue, Accept
  <1>2. CASE /\ wpc[n] = "enqueue" /\ wid[n] = t
             /\ wpc' = [wpc EXCEPT ![n] = "apply"] /\ hpc' = hpc
    <2>1. wlock[n] = "writer" /\ hpc[t] = "none"
      BY <1>2 DEF LockInv, WriterLock, CallInv
    <2>2. \A u \in Txn : ~Waits(n, u)
      BY <1>2, <2>1 DEF LockInv, HandlerLock, Held, Waits
    <2>3. \A m \in Node : m # n => wid[m] # t
      BY <1>2, ConstAssumption DEF LockInv, OneWriter
    <2> QED
      BY <1>1, <1>2, <2>1, <2>2, <2>3 DEF Admitted, Waits
  <1>3. CASE /\ hpc[t] = "enqueue" /\ at[t] = n
             /\ hpc' = [hpc EXCEPT ![t] = "apply"] /\ wpc' = wpc
    <2>1. wlock[n] = "handler" /\ wpc[n] = "idle"
      BY <1>3 DEF LockInv, WriterLock, HandlerLock, Held
    <2>2. \A u \in Txn : ~Waits(n, u)
      BY <1>3, <2>1 DEF LockInv, OneHandler, Held, Waits
    <2>3. \A m \in Node : wpc[m] = "apply" => wid[m] # t
      BY <1>3 DEF CallInv
    <2> QED
      BY <1>1, <1>3, <2>1, <2>2, <2>3 DEF Admitted, Waits
  <1> QED
    BY <1>2, <1>3 DEF Enqueue

\* The barrier of a drain is the end of a log that does not grow while it is waited for.
LEMMA DrainNext ==
  ASSUME TypeOK, LockInv, CallInv, LogInv, FsmInv, TermInv, GainedInv, DrainInv, Next
  PROVE  DrainInv'
PROOF
  <1> SUFFICES ASSUME Clean', Clean, NEW m \in Node, GainedAt(m), DrainAt(m) PROVE DrainAt(m)'
    BY CleanBefore DEF GainedInv, DrainInv
  <1> USE DEF TypeOK, RaftType, GateType
  <1>1. ASSUME NEW n \in Node, Elect(n) PROVE DrainAt(m)'
    <2>1. /\ role' = [role EXCEPT ![n] = "Leader"]
          /\ leadTerm' = [leadTerm EXCEPT ![n] = lastTerm + 1]
          /\ live' = live \cup {n}
          /\ \E s : tail' = [tail EXCEPT ![n] = s]
          /\ UNCHANGED <<ready, drain, committed, lastApplied>>
      BY <1>1 DEF Elect, gateVars, fsmVars
    <2>2. drain[n].term # lastTerm + 1
      BY SMTT(60) DEF TermInv, Drain
    <2> QED
      BY <2>1, <2>2 DEF DrainAt, DrainsThisTerm, IsLeader, LogType
  <1>2. ASSUME NEW n \in Node, StepDown(n) \/ LeaveLeader(n) PROVE DrainAt(m)'
    <2>1. /\ \E r \in {"Deposed", "Follower"} : role' = [role EXCEPT ![n] = r]
          /\ leadTerm' = [leadTerm EXCEPT ![n] = 0] \/ leadTerm' = leadTerm
          /\ UNCHANGED <<live, tail, ready, drain, committed, lastApplied>>
      BY <1>2 DEF StepDown, LeaveLeader, gateVars, fsmVars
    <2> QED
      BY <2>1 DEF DrainAt, DrainsThisTerm, IsLeader
  <1>3. ASSUME NEW n \in Node, CommitNoop(n) \/ CommitNext(n) PROVE DrainAt(m)'
    <2>1. PICK k \in 0..Len(tail[n]) : CommitTail(n, k) /\ CommitResult(n, k)
      BY <1>3, CommitSteps
    <2>2. n \in live
      BY <1>3, CommitSteps
    <2>3. live' = {n} /\ UNCHANGED <<role, leadTerm, ready, drain, lastApplied>>
      BY <2>1 DEF CommitTail, gateVars, fsmVars
    <2>4. Len(committed) \in Nat /\ Len(tail[n]) \in Nat
      BY SMTT(60) DEF LogType
    <2>5. Len(committed') + Len(tail'[n]) = Len(committed) + Len(tail[n])
      BY <2>1, <2>4, SMTT(60) DEF CommitResult
    <2> QED
      BY <2>2, <2>3, <2>5 DEF DrainAt, DrainsThisTerm, IsLeader
  <1>4. ASSUME NEW n \in Node, WatchLeadership(n) PROVE DrainAt(m)'
    <2>1. UNCHANGED <<role, leadTerm, live, tail, committed, lastApplied>>
      BY <1>4 DEF WatchLeadership, fsmVars
    <2>2. m \in ready' => m \in ready /\ m # n
      BY <1>4 DEF WatchLeadership
    <2>3. \/ drain'[m] = drain[m]
          \/ m = n /\ drain'[m] = [pc |-> "barrier", term |-> leadTerm[n],
                                   bar |-> Len(committed) + Len(tail[n])]
      BY <1>4 DEF WatchLeadership
    <2>4. CASE drain'[m] = drain[m]
      BY <2>1, <2>2, <2>4 DEF DrainAt, DrainsThisTerm, IsLeader
    <2>5. CASE m = n /\ drain'[m].pc = "barrier"
                    /\ drain'[m].bar = Len(committed) + Len(tail[m])
      BY <2>1, <2>2, <2>5 DEF DrainAt
    <2> QED
      BY <2>3, <2>4, <2>5, SMTT(60)
  <1>5. ASSUME NEW n \in Node, BarrierPassed(n) PROVE DrainAt(m)'
    <2>1. UNCHANGED <<role, leadTerm, live, tail, committed, lastApplied, ready>>
      BY <1>5 DEF BarrierPassed, raftVars, fsmVars
    <2>2. /\ m # n => drain'[m] = drain[m]
          /\ drain'[m].term = drain[m].term /\ drain'[m].bar = drain[m].bar
          /\ m = n => lastApplied[m] >= drain[m].bar
      BY <1>5 DEF BarrierPassed, Drain
    <2> QED
      BY <2>1, <2>2 DEF DrainAt, DrainsThisTerm, IsLeader
  <1>6. ASSUME NEW n \in Node, DrainDone(n) \/ DrainReturn(n) PROVE DrainAt(m)'
    <2>1. UNCHANGED <<role, leadTerm, live, tail, committed, lastApplied>>
      BY <1>6 DEF DrainDone, DrainReturn, raftVars, fsmVars
    <2>2. /\ m # n => drain'[m] = drain[m] /\ (m \in ready' <=> m \in ready)
          /\ m = n => drain'[m].term = 0
      BY <1>6, SMTT(60) DEF DrainDone, DrainReturn, NoDrain
    <2>3. IsLeader(m) => leadTerm[m] # 0
      BY SMTT(60) DEF TermInv
    <2> QED
      BY <2>1, <2>2, <2>3 DEF DrainAt, DrainsThisTerm, IsLeader
  <1>7. CASE Local
    <2>1. UNCHANGED leaderVars
      BY <1>7, LocalSteps
    <2>2. CASE UNCHANGED <<tail, lastApplied>>
      BY <2>1, <2>2 DEF leaderVars, DrainAt, DrainsThisTerm, IsLeader
    <2>3. ASSUME NEW n \in Node, NEW t \in Txn, Enqueue(n, t) PROVE DrainAt(m)'
      <3>1. /\ IsLeader(n) /\ Admitted(n)
        BY <2>3, EnqueueAlone
      <3>2. m # n => tail'[m] = tail[m]
        BY <2>3 DEF Enqueue, Accept, LogType
      <3>3. lastApplied' = lastApplied
        BY <2>3 DEF Enqueue
      <3>4. m = n => m \in ready
        BY <3>1 DEF GainedAt
      <3> QED
        BY <2>1, <3>2, <3>3, <3>4 DEF leaderVars, DrainAt, DrainsThisTerm, IsLeader
    <2>4. ASSUME NEW n \in Node, Applies(n) PROVE DrainAt(m)'
      <3>1. tail' = tail /\ lastApplied' = [lastApplied EXCEPT ![n] = @ + 1]
        BY <2>4 DEF Applies, ApplyReturns
      <3>2. lastApplied[m] \in Nat /\ drain[m].bar \in Nat
        BY DEF FsmType, Drain
      <3>3. lastApplied'[m] \in Nat /\ lastApplied'[m] >= lastApplied[m]
        BY <3>1, <3>2, SMTT(60) DEF FsmType
      <3> QED
        BY <2>1, <3>1, <3>2, <3>3, SMTT(60) DEF leaderVars, DrainAt, DrainsThisTerm, IsLeader
    <2> QED
      BY <1>7, <2>2, <2>3, <2>4, LocalSteps
  <1> QED
    BY <1>1, <1>2, <1>3, <1>4, <1>5, <1>6, <1>7 DEF Next, Raft, Leadership, Local

-----------------------------------------------------------------------------
\* ReadyInv: a ready leader has at most the entry of the lock's holder ahead of its FSM.

\* Whoever waits for an entry waits where it was accepted.
LEMMA WaitsAt ==
  ASSUME CallInv, NEW n \in Node, NEW t \in Txn, Waits(n, t)
  PROVE  at[t] = n
  BY DEF CallInv, Waits

\* A proposer goes on waiting until its future is resolved.
LEMMA WaitsOn ==
  ASSUME TypeOK, LockInv, CallInv, Local, NEW m \in Node, NEW u \in Txn, Waits(m, u),
         future[u] \in {"inflight", "committed"}
  PROVE  Waits(m, u)'
PROOF
  <1> USE DEF TypeOK, WriterType, HandlerType
  <1>1. ASSUME NEW n \in Node, NEW t \in Txn, BeginWrite(n, t)
        PROVE  Waits(m, u)'
    BY <1>1 DEF BeginWrite, Waits
  <1>2. ASSUME NEW n \in Node, Writer(n)
        PROVE  Waits(m, u)'
    <2>1. CASE EnqueueLocal(n)
      <3>1. wid[n] \in Txn /\ Enqueue(n, wid[n])
        BY <2>1 DEF EnqueueLocal, Accept, Enqueue, gateVars, fsmVars, LockInv, WriterLock
      <3>2. m # n
        BY <3>1, EnqueueAlone, SMTT(60)
      <3> QED
        BY <3>1, <3>2, EnqueueAlone
    <2>2. ASSUME NEW l \in Node, Forward(n, l) \/ Redirect(n, l)
          PROVE  Waits(m, u)'
      <3>1. /\ wpc' = [wpc EXCEPT ![n] = "forward"] /\ wpc[n] # "apply" /\ wid' = wid
            /\ hpc' = [hpc EXCEPT ![wid[n]] = "sent"]
            /\ at' = [at EXCEPT ![wid[n]] = l]
            /\ hpc[wid[n]] \in {"none", "NOT_LEADER"}
        BY <2>2, SMTT(60) DEF Forward, Redirect, Send, CallInv
      <3> QED
        BY <3>1 DEF Waits
    <2>3. CASE /\ Forget(wid[n])
               /\ wid' = [wid EXCEPT ![n] = None] \/ wid' = wid
               /\ \E label \in {"idle", "await"} : wpc' = [wpc EXCEPT ![n] = label]
               /\ wpc[n] = "apply" => future[wid[n]] \notin {"inflight", "committed"}
      BY <2>3 DEF Forget, Waits, Running, Status
    <2>4. CASE ProposeLocal(n) \/ AwaitTimeout(n)
      BY <2>4 DEF ProposeLocal, AwaitTimeout, Waits
    <2>5. CASE \/ RejectLocal(n) \/ EnqueueLocalFails(n) \/ ApplyLost(n) \/ Publish(n)
               \/ ForwardRejected(n) \/ AwaitFails(n) \/ AwaitFSMApplied(n)
      <3>1. wpc[n] = "apply" => future[wid[n]] \notin {"inflight", "committed"}
        BY <2>5 DEF RejectLocal, EnqueueLocalFails, ApplyLost, Publish, ForwardRejected,
           AwaitFails, AwaitFSMApplied
      <3> QED
        BY <2>3, <2>5, <3>1 DEF RejectLocal, EnqueueLocalFails, ApplyLost, Publish,
           ForwardRejected, AwaitFails, AwaitFSMApplied, Abort, EndWrite
    <2> QED
      BY <1>2, <2>1, <2>2, <2>4, <2>5 DEF Writer
  <1>3. ASSUME NEW t \in Txn, Handler(t)
        PROVE  Waits(m, u)'
    <2>1. CASE HandleEnqueue(t)
      <3>1. at[t] \in Node /\ Enqueue(at[t], t)
        BY <2>1 DEF HandleEnqueue, Accept, Enqueue, gateVars, writerVars, fsmVars, LockInv,
           HandlerLock, Running
      <3>2. m # at[t]
        BY <3>1, EnqueueAlone, SMTT(60)
      <3> QED
        BY <3>1, <3>2, EnqueueAlone
    <2>2. CASE /\ \E status \in Status : Respond(t, status)
               /\ hpc[t] = "apply" => future[t] \notin {"inflight", "committed"}
      BY <2>2 DEF Respond, Waits, writerVars
    <2>3. CASE HandleRequest(t) \/ HandleLocked(t) \/ HandlePropose(t)
      BY <2>3 DEF HandleRequest, HandleLocked, HandlePropose, Waits, writerVars
    <2>4. CASE \/ HandleNotLeader(t) \/ HandleBusy(t) \/ HandleStale(t) \/ HandleRefused(t)
               \/ HandleEnqueueFails(t) \/ HandleApplied(t) \/ HandleLost(t)
      <3>1. \E status \in Status : Respond(t, status)
        BY <2>4 DEF HandleNotLeader, HandleBusy, HandleStale, HandleRefused,
           HandleEnqueueFails, HandleApplied, HandleLost, Status
      <3>2. hpc[t] = "apply" => future[t] \notin {"inflight", "committed"}
        BY <2>4 DEF HandleNotLeader, HandleBusy, HandleStale, HandleRefused,
           HandleEnqueueFails, HandleApplied, HandleLost
      <3> QED
        BY <2>2, <3>1, <3>2
    <2> QED
      BY <1>3, <2>1, <2>3, <2>4 DEF Handler
  <1>4. ASSUME NEW n \in Node, Fsm(n)
        PROVE  Waits(m, u)'
    BY <1>4 DEF Fsm, ConsumeMarker, StartApply, AppendOwnLock, BeginLoanAppend,
       EndLoanAppend, Materialize, ApplyReturns, writerVars, Waits
  <1> QED
    BY <1>1, <1>2, <1>3, <1>4 DEF Local

\* A step that leaves the node's log, its FSM and what is waited for alone.
LEMMA ReadyFrame ==
  ASSUME NEW m \in Node, ReadyAt(m), UNCHANGED committed,
         tail'[m] = tail[m], lastApplied'[m] = lastApplied[m],
         m \in live' /\ LeaderReady(m)' => m \in live /\ LeaderReady(m),
         \A u \in Txn : Waits(m, u) /\ future[u] \in {"inflight", "committed"} =>
                          Waits(m, u)' /\ future'[u] = future[u]
  PROVE  ReadyAt(m)'
PROOF
  <1>1. Drained(m) => Drained(m)'
    BY DEF Drained
  <1>2. OneInFlight(m) => OneInFlight(m)'
    <2> SUFFICES ASSUME NEW t \in Txn, Waits(m, t), future[t] \in {"inflight", "committed"},
                        \/ /\ future[t] = "inflight" /\ tail[m] = <<t>>
                           /\ lastApplied[m] = Len(committed)
                        \/ /\ future[t] = "committed" /\ tail[m] = <<>>
                           /\ lastApplied[m] + 1 = Len(committed) /\ NextEntry(m) = t
                 PROVE  OneInFlight(m)'
      BY DEF OneInFlight
    <2>1. Waits(m, t)' /\ future'[t] = future[t] /\ NextEntry(m)' = NextEntry(m)
      BY DEF NextEntry
    <2> QED
      BY <2>1 DEF OneInFlight
  <1> QED
    BY <1>1, <1>2 DEF ReadyAt

\* Raft: an election is recorded if it finds the node ready; a ready leader commits at most
\* the one entry of its tail.
LEMMA ReadyRaft ==
  ASSUME TypeOK, LockInv, CallInv, LogInv, FsmInv, GainedInv, Clean, Clean',
         NEW m \in Node, ReadyAt(m), NEW n \in Node, Raft(n)
  PROVE  ReadyAt(m)'
PROOF
  <1> USE DEF TypeOK, RaftType, LogType
  <1>1. \A u \in Txn : Waits(m, u)' <=> Waits(m, u)
    BY AdmittedFrame DEF Waits
  <1>2. lastApplied' = lastApplied /\ at' = at /\ ready' = ready
    BY AdmittedFrame DEF Raft, Elect, StepDown, LeaveLeader, CommitNoop, CommitNext,
       CommitTail, gateVars
  <1>3. CASE Elect(n)
    <2>1. n \notin ready
      BY <1>3 DEF Elect, Clean
    <2>2. /\ role' = [role EXCEPT ![n] = "Leader"] /\ live' = live \cup {n}
          /\ \E s : tail' = [tail EXCEPT ![n] = s]
          /\ UNCHANGED <<committed, future>>
      BY <1>3 DEF Elect
    <2>3. m \in live' /\ LeaderReady(m)' => m \in live /\ LeaderReady(m) /\ m # n
      BY <1>2, <2>1, <2>2 DEF LeaderReady, IsLeader
    <2>4. CASE m = n
      BY <2>3, <2>4 DEF ReadyAt
    <2>5. CASE m # n
      BY <1>1, <1>2, <2>2, <2>3, <2>5, ReadyFrame
    <2> QED
      BY <2>4, <2>5
  <1>4. CASE StepDown(n)
    <2>1. /\ role' = [role EXCEPT ![n] = "Deposed"]
          /\ UNCHANGED <<live, tail, committed, future>>
      BY <1>4 DEF StepDown
    <2>2. LeaderReady(m)' => LeaderReady(m)
      BY <1>2, <2>1 DEF LeaderReady, IsLeader
    <2> QED
      BY <1>1, <1>2, <2>1, <2>2, ReadyFrame
  <1>5. CASE LeaveLeader(n)
    <2>1. /\ role' = [role EXCEPT ![n] = "Follower"]
          /\ UNCHANGED <<live, tail, committed>>
          /\ \A t \in Txn : at[t] # n => future'[t] = future[t]
      BY <1>5 DEF LeaveLeader
    <2>2. LeaderReady(m)' => LeaderReady(m) /\ m # n
      BY <1>2, <2>1 DEF LeaderReady, IsLeader
    <2>3. CASE m = n
      BY <2>2, <2>3 DEF ReadyAt
    <2>4. CASE m # n
      <3>1. \A u \in Txn : Waits(m, u) => future'[u] = future[u]
        BY <2>1, <2>4, WaitsAt
      <3> QED
        BY <1>1, <1>2, <2>1, <2>2, <3>1, ReadyFrame
    <2> QED
      BY <2>3, <2>4
  <1>6. CASE CommitNoop(n) \/ CommitNext(n)
    <2>1. PICK k \in 0..Len(tail[n]) : /\ CommitTail(n, k) /\ CommitResult(n, k)
                                       /\ noop = "committed" => k = 1
      BY <1>6, CommitSteps
    <2>2. current = n /\ n \in live /\ live' = {n} /\ role' = role
      BY <1>6, <2>1, CommitSteps DEF CommitTail
    <2> SUFFICES ASSUME m = n, LeaderReady(m) PROVE Drained(m)' \/ OneInFlight(m)'
      BY <1>2, <2>2 DEF ReadyAt, LeaderReady, IsLeader
    <2>3. noop = "committed" /\ k = 1
      BY <2>1, <2>2 DEF GainedInv, GainedAt, LeaderReady
    <2>4. tail[n] \in Seq(Txn) /\ tail[n] # <<>>
      BY <2>1, <2>3, SMTT(60)
    <2>5. OneInFlight(n)
      BY <2>2, <2>4 DEF ReadyAt, Drained
    <2>6. PICK t \in Txn : /\ Waits(n, t) /\ future[t] = "inflight" /\ tail[n] = <<t>>
                           /\ lastApplied[n] = Len(committed)
      BY <2>4, <2>5 DEF OneInFlight
    <2>7. at[t] = n /\ Len(committed) \in Nat
      BY <2>6, WaitsAt, SMTT(60) DEF LogType
    <2>8. tail[n][1] = t /\ Len(tail[n]) = 1
      BY <2>6, SMTT(60)
    <2>9. future'[t] = "committed"
      BY <2>1, <2>3, <2>6, <2>7, <2>8, SMTT(60) DEF CommitTail
    <2>10. /\ Len(committed') = Len(committed) + 1 /\ committed'[Len(committed) + 1] = t
           /\ tail'[n] \in Seq(Txn) /\ Len(tail'[n]) = 0
      BY <2>1, <2>3, <2>8, SMTT(60) DEF CommitResult
    <2>11. /\ tail'[n] = <<>> /\ lastApplied'[n] + 1 = Len(committed')
           /\ NextEntry(n)' = t
      BY <1>2, <2>6, <2>7, <2>10, SMTT(60) DEF NextEntry
    <2> QED
      BY <1>1, <2>6, <2>9, <2>11 DEF OneInFlight
  <1> QED
    BY <1>3, <1>4, <1>5, <1>6 DEF Raft

\* The lengths of the logs, and where an FSM is, are numbers.
LEMMA Lengths ==
  ASSUME TypeOK, NEW m \in Node
  PROVE  /\ committed \in Seq(Txn) /\ Len(committed) \in Nat
         /\ tail[m] \in Seq(Txn) /\ Len(tail[m]) \in Nat
         /\ lastApplied[m] \in Nat
         /\ db[m] \in Seq(Txn) /\ Len(db[m]) \in Nat
PROOF
  <1>1. committed \in Seq(Txn) /\ tail[m] \in Seq(Txn) /\ lastApplied[m] \in Nat
        /\ db[m] \in Seq(Txn)
    BY DEF TypeOK, LogType, FsmType
  <1>2. ASSUME NEW s \in Seq(Txn) PROVE Len(s) \in Nat
    BY SMTT(60)
  <1> QED
    BY <1>1, <1>2

\* An FSM at the end of the whole log leaves no tail.
LEMMA NothingBehind ==
  ASSUME NEW a \in Nat, NEW b \in Nat, NEW c \in Nat, a >= b + c, a <= b
  PROVE  c = 0 /\ a = b
  BY SMTT(60)

\* Leadership: a drain that is through finds nothing behind its barrier.
LEMMA ReadyLeadership ==
  ASSUME TypeOK, LogInv, FsmInv, DrainInv, Clean,
         NEW m \in Node, ReadyAt(m), NEW n \in Node, Leadership(n)
  PROVE  ReadyAt(m)'
PROOF
  <1> USE DEF TypeOK, RaftType, LogType, GateType, FsmType
  <1>1. \A u \in Txn : Waits(m, u)' <=> Waits(m, u)
    BY AdmittedFrame DEF Waits
  <1>2. UNCHANGED <<role, live, tail, committed, future, lastApplied>>
    BY AdmittedFrame DEF Leadership, WatchLeadership, BarrierPassed, DrainDone,
       DrainReturn, raftVars
  <1>3. CASE LeaderReady(m)' => LeaderReady(m)
    BY <1>1, <1>2, <1>3, ReadyFrame
  <1>4. CASE LeaderReady(m)' /\ ~LeaderReady(m)
    <2>1. m \in ready' /\ m \notin ready
      BY <1>2, <1>4 DEF LeaderReady, IsLeader
    <2>2. m = n /\ DrainDone(n) /\ DrainsThisTerm(m) /\ drain[m].pc = "passed"
      BY <2>1, SMTT(60) DEF Leadership, WatchLeadership, BarrierPassed, DrainDone, DrainReturn
    <2> SUFFICES ASSUME m \in live PROVE Drained(m)'
      BY <1>2 DEF ReadyAt
    <2>3. drain[m].bar = Len(committed) + Len(tail[m]) /\ lastApplied[m] >= drain[m].bar
      BY <2>2 DEF DrainInv, DrainAt
    <2>4. lastApplied[m] <= Len(committed)
      BY DEF FsmInv, FsmIndex
    <2>5. lastApplied[m] >= Len(committed) + Len(tail[m])
      BY <2>3
    <2>6. tail[m] \in Seq(Txn)
      BY Lengths
    <2>7. Len(tail[m]) = 0 /\ lastApplied[m] = Len(committed)
      BY <2>4, <2>5, Lengths, NothingBehind
    <2> QED
      BY <1>2, <2>6, <2>7, SMTT(60) DEF Drained
  <1> QED
    BY <1>3, <1>4

\* The local steps: an entry is accepted only when the one before it is applied.
LEMMA ReadyLocal ==
  ASSUME TypeOK, LockInv, CallInv, LogInv, FsmInv, GainedInv, Clean,
         NEW m \in Node, ReadyAt(m), Local
  PROVE  ReadyAt(m)'
PROOF
  <1> USE DEF TypeOK, RaftType, LogType, GateType, FsmType
  <1>1. UNCHANGED leaderVars
    BY LocalSteps
  <1>2. UNCHANGED <<live, committed>> /\ (LeaderReady(m)' <=> LeaderReady(m))
    BY <1>1 DEF leaderVars, LeaderReady, IsLeader
  <1>3. CASE UNCHANGED <<tail, lastApplied, future>>
    BY <1>2, <1>3, WaitsOn, ReadyFrame
  <1>4. ASSUME NEW n \in Node, NEW t \in Txn, Enqueue(n, t) PROVE ReadyAt(m)'
    <2>1. /\ tail' = [tail EXCEPT ![n] = IF n \in live THEN Append(@, t) ELSE @]
          /\ future' = [future EXCEPT ![t] = "inflight"]
          /\ lastApplied' = lastApplied
      BY <1>4 DEF Enqueue, Accept
    <2>2. CASE m # n
      <3>1. \A u \in Txn : Waits(m, u) => u # t /\ Waits(m, u)'
        BY <1>4, <2>2, EnqueueAlone
      <3>2. tail'[m] = tail[m] /\ \A u \in Txn : Waits(m, u) => future'[u] = future[u]
        BY <2>1, <2>2, <3>1
      <3> QED
        BY <1>2, <2>1, <3>1, <3>2, ReadyFrame
    <2>3. CASE m = n
      <3> SUFFICES ASSUME m \in live, LeaderReady(m) PROVE OneInFlight(m)'
        BY <1>2 DEF ReadyAt
      <3>1. Drained(n)
        BY <1>4, <2>3, EnqueueAlone DEF ReadyAt, OneInFlight
      <3>2. tail'[n] = <<t>> /\ lastApplied'[n] = Len(committed') /\ future'[t] = "inflight"
        BY <1>2, <2>1, <2>3, <3>1, SMTT(60) DEF Drained
      <3>3. Waits(n, t)'
        BY <1>4, EnqueueAlone
      <3> QED
        BY <2>3, <3>2, <3>3 DEF OneInFlight
    <2> QED
      BY <2>2, <2>3
  <1>5. ASSUME NEW n \in Node, Applies(n) PROVE ReadyAt(m)'
    <2>1. /\ lastApplied[n] + 1 \in 1..Len(committed)
          /\ NextEntry(n) \in Txn
      BY <1>5, NextAccepted DEF Applies
    <2>2. /\ tail' = tail /\ lastApplied' = [lastApplied EXCEPT ![n] = @ + 1]
          /\ \A u \in Txn : at[u] # n => future'[u] = future[u]
      BY <1>5 DEF Applies, ApplyReturns
    <2>3. CASE m # n
      <3>1. lastApplied'[m] = lastApplied[m]
            /\ \A u \in Txn : Waits(m, u) => future'[u] = future[u]
        BY <2>2, <2>3, WaitsAt
      <3> QED
        BY <1>2, <2>2, <3>1, WaitsOn, ReadyFrame
    <2>4. CASE m = n
      <3> SUFFICES ASSUME m \in live, LeaderReady(m) PROVE Drained(m)'
        BY <1>2 DEF ReadyAt
      <3>1. lastApplied[n] \in Nat /\ Len(committed) \in Nat /\ lastApplied[n] # Len(committed)
        BY <2>1, SMTT(60)
      <3>2. OneInFlight(n)
        BY <2>4, <3>1 DEF ReadyAt, Drained
      <3>3. tail[n] = <<>> /\ lastApplied[n] + 1 = Len(committed)
        BY <3>1, <3>2 DEF OneInFlight
      <3> QED
        BY <1>2, <2>2, <2>4, <3>3 DEF Drained
    <2> QED
      BY <2>3, <2>4
  <1> QED
    BY <1>3, <1>4, <1>5, LocalSteps

\* Every step keeps ReadyInv.
LEMMA ReadyNext ==
  ASSUME TypeOK, LockInv, CallInv, LogInv, FsmInv, GainedInv, DrainInv, ReadyInv, Next
  PROVE  ReadyInv'
PROOF
  <1> SUFFICES ASSUME Clean', Clean, NEW m \in Node, ReadyAt(m) PROVE ReadyAt(m)'
    BY CleanBefore DEF ReadyInv
  <1> QED
    BY ReadyRaft, ReadyLeadership, ReadyLocal DEF Next, Local

-----------------------------------------------------------------------------
\* BaseInv: on which state a transaction was computed.

\* While the write lock of a node is free or a handler's, its database is what its FSM applied.
LEMMA UnwrittenIsApplied ==
  ASSUME TypeOK, LockInv, FsmInv, NEW n \in Node, ReplicaAt(n), marker[n] # "skipped"
  PROVE  Len(db[n]) = lastApplied[n]
PROOF
  <1>1. Len(db[n]) \in Nat /\ lastApplied[n] \in Nat
    BY SMTT(60) DEF TypeOK, FsmType
  <1> QED
    BY <1>1, SMTT(60) DEF ReplicaAt

\* What a ready leader accepts was computed on its whole log.
LEMMA AcceptedOnWholeLog ==
  ASSUME TypeOK, LockInv, CallInv, FsmInv, GainedInv, ReadyInv, ReplicaIsPrefix, BaseInv, Clean,
         NEW n \in Node, NEW t \in Txn, Enqueue(n, t), n \in live
  PROVE  tail[n] = <<>> /\ base[t] = Len(committed)
PROOF
  <1> USE DEF TypeOK, WriterType
  <1>1. IsLeader(n) /\ Admitted(n) /\ \A u \in Txn : ~Waits(n, u)
    BY EnqueueAlone
  <1>2. LeaderReady(n)
    BY <1>1 DEF GainedInv, GainedAt, LeaderReady
  <1>3. Drained(n)
    BY <1>1, <1>2 DEF ReadyInv, ReadyAt, OneInFlight
  <1>4. base[t] = Len(db[n]) /\ marker[n] # "skipped"
    <2>1. CASE wpc[n] = "enqueue" /\ wid[n] = t
      BY <2>1 DEF BaseInv, WriterBase, FsmInv, FsmMarker, MarkerAt
    <2>2. CASE hpc[t] = "enqueue" /\ at[t] = n
      <3>1. wpc[n] = "idle"
        BY <2>2 DEF LockInv, WriterLock, HandlerLock, Held
      <3> QED
        BY <2>2, <3>1 DEF BaseInv, RequestBase, LockInv, WriterLock
    <2> QED
      BY <2>1, <2>2 DEF Enqueue
  <1>5. Len(db[n]) = lastApplied[n]
    BY <1>4, UnwrittenIsApplied DEF ReplicaIsPrefix
  <1> QED
    BY <1>3, <1>4, <1>5 DEF Drained

\* NoLostUpdate and TailBase, as one property of the logs.
LogBase == /\ \A i \in 1..Len(committed) : base[committed[i]] = i - 1
           /\ \A m \in Node : \A i \in 1..Len(tail[m]) : base[tail[m][i]] = Len(committed) + i - 1

\* A step that leaves the logs and the bases of what is in them alone.
LEMMA LogBaseFrame ==
  ASSUME LogBase, UNCHANGED <<committed, tail, base>>
  PROVE  LogBase'
  BY DEF LogBase

\* An election copies a prefix of a tail; a commit moves one.
LEMMA LogBaseRaft ==
  ASSUME TypeOK, LogInv, LogBase, NEW n \in Node, Raft(n)
  PROVE  LogBase'
PROOF
  <1> USE DEF TypeOK, LogType
  <1>1. base' = base
    BY AdmittedFrame
  <1>2. CASE Elect(n)
    <2>1. committed' = committed
      BY <1>2 DEF Elect
    <2>2. PICK m \in live \cup {n} : \E k \in 0..Len(tail[m]) :
            tail' = [tail EXCEPT ![n] = SubSeq(tail[m], 1, k)]
      BY <1>2 DEF Elect
    <2>3. PICK k \in 0..Len(tail[m]) : tail' = [tail EXCEPT ![n] = SubSeq(tail[m], 1, k)]
      BY <2>2
    <2>4. m \in Node /\ tail[m] \in Seq(Txn)
      BY DEF RaftType
    <2>5. /\ Len(SubSeq(tail[m], 1, k)) = k
          /\ \A i \in 1..k : i \in 1..Len(tail[m]) /\ SubSeq(tail[m], 1, k)[i] = tail[m][i]
      BY <2>4, SubSeqTail, SMTT(60)
    <2>6. tail'[n] = SubSeq(tail[m], 1, k) /\ \A v \in Node \ {n} : tail'[v] = tail[v]
      BY <2>3
    <2>7. \A i \in 1..Len(tail'[n]) : base[tail'[n][i]] = Len(committed) + i - 1
      <3> TAKE i \in 1..Len(tail'[n])
      <3>1. i \in 1..Len(tail[m]) /\ tail'[n][i] = tail[m][i]
        BY <2>5, <2>6
      <3> QED
        BY <2>4, <3>1 DEF LogBase
    <2>8. ASSUME NEW v \in Node
          PROVE  \A i \in 1..Len(tail'[v]) : base[tail'[v][i]] = Len(committed) + i - 1
      <3>1. CASE v = n
        BY <2>7, <3>1
      <3>2. CASE v # n
        BY <2>6, <3>2 DEF LogBase
      <3> QED
        BY <3>1, <3>2
    <2> QED
      BY <1>1, <2>1, <2>8 DEF LogBase
  <1>3. CASE StepDown(n) \/ LeaveLeader(n)
    BY <1>1, <1>3, LogBaseFrame DEF StepDown, LeaveLeader
  <1>4. CASE CommitNoop(n) \/ CommitNext(n)
    <2>1. PICK k \in 0..Len(tail[n]) : CommitTail(n, k) /\ CommitResult(n, k)
      BY <1>4, CommitSteps
    <2>2. Len(committed) \in Nat /\ Len(tail[n]) \in Nat /\ k \in Nat /\ k <= Len(tail[n])
      BY SMTT(60)
    <2>3. Len(committed') = Len(committed) + k /\ Len(tail'[n]) = Len(tail[n]) - k
      BY <2>1 DEF CommitResult
    <2>4. ASSUME NEW i \in 1..Len(committed') PROVE base[committed'[i]] = i - 1
      <3>1. CASE i <= Len(committed)
        <4>1. i \in 1..Len(committed)
          BY <2>2, <2>3, <3>1, SMTT(60)
        <4> QED
          BY <2>1, <4>1 DEF CommitResult, LogBase
      <3>2. CASE i > Len(committed)
        <4>1. PICK j \in 1..k : i = Len(committed) + j
          <5>1. i - Len(committed) \in 1..k /\ i = Len(committed) + (i - Len(committed))
            BY <2>2, <2>3, <3>2, SMTT(60)
          <5> QED
            BY <5>1
        <4>2. j \in 1..Len(tail[n])
          BY <2>2, SMTT(60)
        <4>3. committed'[i] = tail[n][j]
          BY <2>1, <4>1 DEF CommitResult
        <4>4. base[tail[n][j]] = Len(committed) + j - 1
          BY <4>2 DEF LogBase
        <4> QED
          BY <2>2, <4>1, <4>3, <4>4, SMTT(60)
      <3> QED
        BY <2>2, <2>3, <3>1, <3>2, SMTT(60)
    <2>5. ASSUME NEW m \in Node, NEW i \in 1..Len(tail'[m])
          PROVE  base[tail'[m][i]] = Len(committed') + i - 1
      <3>1. m = n
        <4>1. CASE m # n
          <5>1. Len(tail'[m]) = 0
            BY <2>1, <4>1, SMTT(60) DEF CommitResult
          <5> QED
            BY <5>1, SMTT(60)
        <4> QED
          BY <4>1
      <3>2. k + i \in 1..Len(tail[n])
        BY <2>2, <2>3, <3>1, SMTT(60)
      <3>3. tail'[n][i] = tail[n][k + i]
        BY <2>1, <3>1 DEF CommitResult
      <3>4. base[tail[n][k + i]] = Len(committed) + (k + i) - 1
        BY <3>2 DEF LogBase
      <3> QED
        BY <2>2, <2>3, <3>1, <3>3, <3>4, SMTT(60)
    <2> QED
      BY <1>1, <2>4, <2>5 DEF LogBase
  <1> QED
    BY <1>2, <1>3, <1>4 DEF Raft

\* Only BeginWrite gives a transaction its base.
LEMMA BaseStays ==
  ASSUME \/ \E n \in Node : Writer(n) \/ Fsm(n)
         \/ \E t \in Txn : Handler(t)
  PROVE  base' = base
PROOF
  <1>1. ASSUME NEW n \in Node, Writer(n) PROVE base' = base
    BY <1>1 DEF Writer, ProposeLocal, RejectLocal, EnqueueLocal, EnqueueLocalFails,
       ApplyLost, Publish, Forward, Redirect, ForwardRejected, AwaitFSMApplied, AwaitTimeout,
       AwaitFails, Abort, EndWrite
  <1>2. ASSUME NEW t \in Txn, Handler(t) PROVE base' = base
    BY <1>2 DEF Handler, HandleNotLeader, HandleRequest, HandleBusy, HandleStale,
       HandleLocked, HandlePropose, HandleRefused, HandleEnqueue, HandleEnqueueFails,
       HandleApplied, HandleLost, Respond, writerVars
  <1>3. ASSUME NEW n \in Node, Fsm(n) PROVE base' = base
    BY <1>3 DEF Fsm, ConsumeMarker, StartApply, AppendOwnLock, BeginLoanAppend,
       EndLoanAppend, Materialize, ApplyReturns, writerVars
  <1> QED
    BY <1>1, <1>2, <1>3

\* What is in a log keeps its base, and what enters one was computed on all before it.
LEMMA LogBaseLocal ==
  ASSUME TypeOK, LockInv, CallInv, LogInv, FsmInv, GainedInv, ReadyInv, ReplicaIsPrefix, BaseInv,
         Clean, LogBase, Local
  PROVE  LogBase'
PROOF
  <1>1. committed' = committed
    BY LocalSteps DEF leaderVars
  <1>2. ASSUME NEW n \in Node, NEW t \in Txn, BeginWrite(n, t) PROVE LogBase'
    <2>1. future[t] = "none"
      BY <1>2 DEF BeginWrite, CallInv
    <2>2. tail' = tail /\ \A u \in Txn : u # t => base'[u] = base[u]
      BY <1>2 DEF BeginWrite, raftVars, TypeOK, WriterType
    <2>3. \A i \in 1..Len(committed) : base'[committed[i]] = base[committed[i]]
      BY <2>1, <2>2, EntryTypes DEF LogInv, LogAccepted
    <2>4. \A m \in Node : \A i \in 1..Len(tail[m]) : base'[tail[m][i]] = base[tail[m][i]]
      BY <2>1, <2>2, EntryTypes DEF LogInv, LogAccepted
    <2>5. \A i \in 1..Len(committed) : base'[committed[i]] = i - 1
      BY <2>3 DEF LogBase
    <2>6. \A m \in Node : \A i \in 1..Len(tail[m]) :
            base'[tail[m][i]] = Len(committed) + i - 1
      BY <2>4 DEF LogBase
    <2> QED
      BY <1>1, <2>2, <2>5, <2>6 DEF LogBase
  <1>3. ASSUME NEW n \in Node, NEW t \in Txn, Enqueue(n, t) PROVE LogBase'
    <2>1. base' = base /\ tail' = [tail EXCEPT ![n] = IF n \in live THEN Append(@, t) ELSE @]
      BY <1>3 DEF Enqueue, Accept
    <2>2. CASE n \notin live
      <3>1. tail' = tail
        BY <2>1, <2>2 DEF TypeOK, LogType
      <3> QED
        BY <1>1, <2>1, <3>1, LogBaseFrame
    <2>3. CASE n \in live
      <3>1. tail[n] = <<>> /\ base[t] = Len(committed)
        BY <1>3, <2>3, AcceptedOnWholeLog
      <3>2. tail'[n] = Append(<<>>, t) /\ \A m \in Node \ {n} : tail'[m] = tail[m]
        BY <2>1, <2>3, <3>1 DEF TypeOK, LogType
      <3>3. Len(tail'[n]) = 1 /\ tail'[n][1] = t
        BY <3>2, SMTT(60)
      <3>4. Len(committed) \in Nat
        BY Lengths
      <3>5. \A i \in 1..Len(tail'[n]) : base[tail'[n][i]] = Len(committed) + i - 1
        BY <3>1, <3>3, <3>4, SMTT(60)
      <3>6. ASSUME NEW m \in Node
            PROVE  \A i \in 1..Len(tail'[m]) : base[tail'[m][i]] = Len(committed) + i - 1
        <4>1. CASE m = n
          BY <3>5, <4>1
        <4>2. CASE m # n
          BY <3>2, <4>2 DEF LogBase
        <4> QED
          BY <4>1, <4>2
      <3> QED
        BY <1>1, <2>1, <3>6 DEF LogBase
    <2> QED
      BY <2>2, <2>3
  <1>4. CASE \/ \E n \in Node : Writer(n) \/ Fsm(n)
             \/ \E t \in Txn : Handler(t)
    <2>1. base' = base
      BY <1>4, BaseStays
    <2>2. tail' = tail => LogBase'
      BY <1>1, <2>1, LogBaseFrame
    <2> QED
      BY <1>3, <2>2, LocalSteps DEF Applies
  <1> QED
    BY <1>2, <1>4 DEF Local

\* The writer's transaction was computed on the database it is about to extend, and a request
\* on the one whose index it carries.
WriterBaseAt(n) == wpc[n] # "idle" /\ marker[n] # "skipped" => base[wid[n]] = Len(db[n])

RequestBaseAt(t) ==
  /\ hpc[t] \in {"sent", "locking", "held", "enqueue", "NOT_LEADER"} => baseIndex[t] = base[t]
  /\ hpc[t] \in {"held", "enqueue"} => base[t] = Len(db[at[t]])

CallBase == (\A n \in Node : WriterBaseAt(n)) /\ (\A t \in Txn : RequestBaseAt(t))

\* CallBase speaks of these variables only.
LEMMA CallBaseFrame ==
  ASSUME CallBase, UNCHANGED <<wpc, wid, hpc, at, marker, db, base, baseIndex>>
  PROVE  CallBase'
  BY DEF CallBase, WriterBaseAt, RequestBaseAt

\* A new transaction is nobody else's.
LEMMA CallBaseBegin ==
  ASSUME TypeOK, LockInv, CallInv, CallBase, NEW n \in Node, NEW t \in Txn, BeginWrite(n, t)
  PROVE  CallBase'
PROOF
  <1> USE DEF TypeOK, WriterType, HandlerType
  <1>1. /\ wpc' = [wpc EXCEPT ![n] = "begun"] /\ wid' = [wid EXCEPT ![n] = t]
        /\ base' = [base EXCEPT ![t] = Len(db[n])]
        /\ UNCHANGED <<marker, db, hpc, at, baseIndex>>
    BY DEF BeginWrite, fsmVars
  <1>2. outcome[t] = "new" /\ hpc[t] = "none"
    BY DEF BeginWrite, CallInv
  <1>3. ASSUME NEW m \in Node PROVE WriterBaseAt(m)'
    <2>1. CASE m = n
      <3>1. wid'[n] = t /\ base'[t] = Len(db[n])
        BY <1>1
      <3> QED
        BY <1>1, <2>1, <3>1 DEF WriterBaseAt
    <2>2. CASE m # n
      <3>1. wpc'[m] = wpc[m] /\ wid'[m] = wid[m]
        BY <1>1, <2>2
      <3>2. wpc[m] # "idle" => wid[m] \in Txn /\ wid[m] # t
        BY <1>2 DEF LockInv, WriterLock
      <3>3. wpc[m] # "idle" => base'[wid[m]] = base[wid[m]]
        BY <1>1, <3>2
      <3> QED
        BY <1>1, <3>1, <3>3 DEF WriterBaseAt, CallBase
    <2> QED
      BY <2>1, <2>2
  <1>4. ASSUME NEW u \in Txn PROVE RequestBaseAt(u)'
    <2>1. u # t => base'[u] = base[u]
      BY <1>1
    <2> QED
      BY <1>1, <1>2, <2>1 DEF RequestBaseAt, CallBase
  <1> QED
    BY <1>3, <1>4 DEF CallBase

\* The writer of n: it forwards under the index of the state it computed on.
LEMMA CallBaseWriter ==
  ASSUME TypeOK, LockInv, CallInv, FsmInv, CallBase, NEW n \in Node, ReplicaAt(n), Writer(n)
  PROVE  CallBase'
PROOF
  <1> USE DEF TypeOK, WriterType, HandlerType
  <1>1. base' = base
    BY BaseStays
  <1>2. ASSUME NEW m \in Node PROVE WriterBaseAt(m)'
    <2>1. CASE m # n
      <3>1. wpc'[m] = wpc[m] /\ wid'[m] = wid[m] /\ marker'[m] = marker[m]
        BY <2>1, WriterFrame
      <3>2. db'[m] = db[m]
        BY <2>1 DEF Writer, ProposeLocal, RejectLocal, EnqueueLocal, EnqueueLocalFails,
           ApplyLost, Publish, Forward, Redirect, ForwardRejected, AwaitFSMApplied, AwaitTimeout,
           AwaitFails, Abort, fsmVars, FsmType
      <3> QED
        BY <1>1, <3>1, <3>2 DEF CallBase, WriterBaseAt
    <2>2. CASE m = n /\ wpc'[n] # "idle"
      <3>1. ~\E result \in Outcome : EndWrite(n, result)
        BY <2>2 DEF EndWrite
      <3>2. ~(\/ RejectLocal(n) \/ EnqueueLocalFails(n) \/ ApplyLost(n) \/ Publish(n)
              \/ ForwardRejected(n) \/ AwaitFails(n))
        BY <3>1 DEF RejectLocal, EnqueueLocalFails, ApplyLost, Publish, ForwardRejected,
           AwaitFails, Abort, Outcome
      <3>3. /\ wpc[n] # "idle" /\ wid' = wid /\ db' = db
            /\ marker' = marker \/ \E v \in {"pending", "abandoned"} :
                                     marker' = [marker EXCEPT ![n] = v] /\ marker[n] # "skipped"
        BY <3>2 DEF Writer, ProposeLocal, EnqueueLocal, Forward, Redirect, AwaitFSMApplied,
           AwaitTimeout, fsmVars, LockInv, WriterLock
      <3>4. marker'[n] # "skipped" => marker[n] # "skipped"
        BY <3>3
      <3> QED
        BY <1>1, <2>2, <3>3, <3>4 DEF CallBase, WriterBaseAt
    <2>3. CASE m = n /\ wpc'[n] = "idle"
      BY <2>3 DEF WriterBaseAt
    <2> QED
      BY <2>1, <2>2, <2>3
  <1>3. ASSUME NEW u \in Txn PROVE RequestBaseAt(u)'
    <2>1. CASE Forget(wid[n]) /\ UNCHANGED <<db, baseIndex>>
      <3>1. /\ hpc'[u] = hpc[u] \/ hpc'[u] = "none"
            /\ hpc[u] \in Running => at'[u] = at[u]
        BY <2>1 DEF Forget
      <3> QED
        BY <1>1, <2>1, <3>1 DEF CallBase, RequestBaseAt, Running
    <2>2. CASE \/ RejectLocal(n) \/ EnqueueLocalFails(n) \/ ApplyLost(n) \/ ForwardRejected(n)
               \/ AwaitFails(n) \/ AwaitFSMApplied(n)
      BY <2>1, <2>2 DEF RejectLocal, EnqueueLocalFails, ApplyLost, ForwardRejected,
         AwaitFails, AwaitFSMApplied, Abort, EndWrite, fsmVars
    <2>3. CASE Publish(n)
      <3>1. /\ hpc'[u] = hpc[u] \/ hpc'[u] = "none"
            /\ hpc[u] \in Running => at'[u] = at[u]
            /\ baseIndex' = baseIndex /\ db' = [db EXCEPT ![n] = Append(@, wid[n])]
        BY <2>3 DEF Publish, EndWrite, Forget
      <3>2. wlock[n] = "writer"
        BY <2>3 DEF Publish, LockInv, WriterLock
      <3>3. hpc[u] \in {"held", "enqueue"} => at[u] \in Node /\ at[u] # n
        BY <3>2 DEF LockInv, HandlerLock, Held, Running
      <3>4. hpc[u] \in {"held", "enqueue"} => db'[at[u]] = db[at[u]]
        BY <3>1, <3>3 DEF FsmType
      <3> QED
        BY <1>1, <3>1, <3>4 DEF CallBase, RequestBaseAt, Running
    <2>4. ASSUME NEW l \in Node, Forward(n, l) PROVE RequestBaseAt(u)'
      <3>1. /\ hpc' = [hpc EXCEPT ![wid[n]] = "sent"] /\ at' = [at EXCEPT ![wid[n]] = l]
            /\ baseIndex' = [baseIndex EXCEPT ![wid[n]] = lastApplied[n]] /\ db' = db
            /\ wpc[n] = "begun"
        BY <2>4 DEF Forward, Send, fsmVars
      <3>2. marker[n] = "none" /\ wid[n] \in Txn
        BY <3>1 DEF LockInv, WriterLock
      <3>3. base[wid[n]] = Len(db[n])
        BY <3>1, <3>2 DEF CallBase, WriterBaseAt
      <3>4. Len(db[n]) = lastApplied[n]
        BY <3>2, UnwrittenIsApplied
      <3>5. CASE u = wid[n]
        <4>1. hpc'[u] = "sent" /\ baseIndex'[u] = lastApplied[n]
          BY <3>1, <3>5
        <4> QED
          BY <1>1, <3>3, <3>4, <3>5, <4>1 DEF RequestBaseAt
      <3>6. CASE u # wid[n]
        <4>1. hpc'[u] = hpc[u] /\ at'[u] = at[u] /\ baseIndex'[u] = baseIndex[u]
          BY <3>1, <3>6
        <4> QED
          BY <1>1, <3>1, <4>1 DEF CallBase, RequestBaseAt
      <3> QED
        BY <3>5, <3>6
    <2>5. ASSUME NEW l \in Node, Redirect(n, l) PROVE RequestBaseAt(u)'
      <3>1. /\ hpc' = [hpc EXCEPT ![wid[n]] = "sent"] /\ at' = [at EXCEPT ![wid[n]] = l]
            /\ baseIndex' = baseIndex /\ db' = db /\ hpc[wid[n]] = "NOT_LEADER"
        BY <2>5 DEF Redirect, Send, fsmVars
      <3> QED
        BY <1>1, <3>1 DEF CallBase, RequestBaseAt
    <2>6. CASE ProposeLocal(n) \/ AwaitTimeout(n)
      <3>1. UNCHANGED <<hpc, at, baseIndex, db>>
        BY <2>6 DEF ProposeLocal, AwaitTimeout, fsmVars
      <3> QED
        BY <1>1, <3>1 DEF CallBase, RequestBaseAt
    <2>7. CASE EnqueueLocal(n)
      <3>1. /\ UNCHANGED <<hpc, baseIndex, db>> /\ at' = [at EXCEPT ![wid[n]] = n]
            /\ hpc[wid[n]] = "none"
        BY <2>7 DEF EnqueueLocal, Accept, fsmVars, CallInv
      <3> QED
        BY <1>1, <3>1 DEF CallBase, RequestBaseAt
    <2> QED
      BY <2>2, <2>3, <2>4, <2>5, <2>6, <2>7 DEF Writer
  <1> QED
    BY <1>2, <1>3 DEF CallBase

\* The handler of t: BeginHeldApply compares the request's index with the database it locks.
LEMMA CallBaseHandler ==
  ASSUME TypeOK, LockInv, CallInv, FsmInv, CallBase, NEW t \in Txn, Handler(t),
         \A n \in Node : ReplicaAt(n)
  PROVE  CallBase'
PROOF
  <1> USE DEF TypeOK, WriterType, HandlerType
  <1>1. UNCHANGED <<wpc, wid, marker, db, base, baseIndex, lastApplied>>
    BY DEF Handler, HandleNotLeader, HandleRequest, HandleBusy, HandleStale, HandleLocked,
       HandlePropose, HandleRefused, HandleEnqueue, HandleEnqueueFails, HandleApplied, HandleLost,
       Respond, writerVars, fsmVars
  <1>2. \A n \in Node : WriterBaseAt(n)'
    BY <1>1 DEF CallBase, WriterBaseAt
  <1>3. ASSUME NEW u \in Txn \ {t} PROVE RequestBaseAt(u)'
    <2>1. hpc'[u] = hpc[u] /\ at'[u] = at[u]
      BY DEF Handler, HandleNotLeader, HandleRequest, HandleBusy, HandleStale, HandleLocked,
         HandlePropose, HandleRefused, HandleEnqueue, HandleEnqueueFails, HandleApplied, HandleLost,
         Respond, Accept
    <2> QED
      BY <1>1, <2>1 DEF CallBase, RequestBaseAt
  <1>4. RequestBaseAt(t)'
    <2>1. RequestBaseAt(t)
      BY DEF CallBase
    <2>2. CASE HandleRequest(t)
      <3>1. hpc[t] = "sent" /\ hpc'[t] = "locking" /\ at' = at
        BY <2>2 DEF HandleRequest
      <3> QED
        BY <1>1, <2>1, <3>1 DEF RequestBaseAt
    <2>3. CASE HandleLocked(t)
      <3>1. /\ hpc[t] = "locking" /\ hpc'[t] = "held" /\ at' = at
            /\ wlock[at[t]] = "free" /\ baseIndex[t] = lastApplied[at[t]]
        BY <2>3 DEF HandleLocked
      <3>2. at[t] \in Node
        BY <3>1 DEF LockInv, HandlerLock, Running
      <3>3. marker[at[t]] = "none"
        BY <3>1, <3>2 DEF LockInv, WriterLock
      <3>4. Len(db[at[t]]) = lastApplied[at[t]]
        BY <3>2, <3>3, UnwrittenIsApplied
      <3> QED
        BY <1>1, <2>1, <3>1, <3>4 DEF RequestBaseAt
    <2>4. CASE HandlePropose(t)
      <3>1. hpc[t] = "held" /\ hpc'[t] = "enqueue" /\ at' = at
        BY <2>4 DEF HandlePropose
      <3> QED
        BY <1>1, <2>1, <3>1 DEF RequestBaseAt
    <2>5. CASE HandleEnqueue(t)
      <3>1. hpc'[t] = "apply"
        BY <2>5 DEF HandleEnqueue
      <3> QED
        BY <3>1 DEF RequestBaseAt
    <2>6. CASE \/ HandleNotLeader(t) \/ HandleBusy(t) \/ HandleStale(t) \/ HandleRefused(t)
               \/ HandleEnqueueFails(t) \/ HandleApplied(t) \/ HandleLost(t)
      <3>1. \/ \E status \in {"OK", "STALE_BASE", "CATCHING_UP", "BUSY", "AMBIGUOUS"} :
                 Respond(t, status)
            \/ hpc[t] \in {"sent", "held"} /\ Respond(t, "NOT_LEADER")
        BY <2>6 DEF HandleNotLeader, HandleBusy, HandleStale, HandleRefused,
           HandleEnqueueFails, HandleApplied, HandleLost
      <3>2. \/ hpc'[t] \in {"OK", "STALE_BASE", "CATCHING_UP", "BUSY", "AMBIGUOUS", "none"}
            \/ hpc[t] \in {"sent", "held"} /\ hpc'[t] = "NOT_LEADER"
        BY <3>1 DEF Respond
      <3> QED
        BY <1>1, <2>1, <3>2 DEF RequestBaseAt
    <2> QED
      BY <2>2, <2>3, <2>4, <2>5, <2>6 DEF Handler
  <1> QED
    BY <1>2, <1>3, <1>4 DEF CallBase

\* Apply extends a database only while nobody computes on it.
LEMMA CallBaseFsm ==
  ASSUME TypeOK, LockInv, CallInv, LogInv, FsmInv, LoanInv, Clean, CallBase, NEW n \in Node, Fsm(n)
  PROVE  CallBase'
PROOF
  <1> USE DEF TypeOK, WriterType, HandlerType
  <1>1. UNCHANGED <<wpc, wid, base, baseIndex, hpc, at>>
    BY DEF Fsm, ConsumeMarker, StartApply, AppendOwnLock, BeginLoanAppend, EndLoanAppend,
       Materialize, ApplyReturns, writerVars
  <1>2. CASE ConsumeMarker(n)
    <2>1. db' = db /\ marker' = [marker EXCEPT ![n] = "skipped"]
      BY <1>2 DEF ConsumeMarker
    <2>2. \A m \in Node : marker'[m] # "skipped" => marker[m] # "skipped"
      BY <2>1
    <2> QED
      BY <1>1, <2>1, <2>2 DEF CallBase, WriterBaseAt, RequestBaseAt
  <1>3. CASE StartApply(n) \/ BeginLoanAppend(n)
    <2>1. UNCHANGED <<db, marker>>
      BY <1>3 DEF StartApply, BeginLoanAppend, writerVars
    <2> QED
      BY <1>1, <2>1 DEF CallBase, WriterBaseAt, RequestBaseAt
  <1>4. CASE AppendOwnLock(n) \/ EndLoanAppend(n)
    <2>1. db' = [db EXCEPT ![n] = Append(@, NextEntry(n))] /\ marker' = marker
      BY <1>4 DEF AppendOwnLock, EndLoanAppend, Materialize
    <2>2. wpc[n] = "idle"
      BY <1>4, NoWriter
    <2>3. \A m \in Node : m # n => db'[m] = db[m]
      BY <2>1 DEF FsmType
    <2>4. ASSUME NEW u \in Txn, hpc[u] \in {"held", "enqueue"} PROVE at[u] \in Node /\ at[u] # n
      <3>1. at[u] \in Node /\ hpc[u] \in Held /\ wlock[at[u]] = "handler" /\ future[u] = "none"
        BY <2>4 DEF LockInv, HandlerLock, Held, Running, CallInv, Unproposed
      <3>2. CASE AppendOwnLock(n)
        BY <3>1, <3>2 DEF AppendOwnLock
      <3>3. CASE EndLoanAppend(n)
        <4>1. fsm[n] = "loanAppend"
          BY <3>3 DEF EndLoanAppend
        <4>2. NextEntry(n) \in Txn /\ future[NextEntry(n)] # "none"
          BY <4>1, NextAccepted DEF Applying
        <4>3. at[NextEntry(n)] = n /\ hpc[NextEntry(n)] \in Held
          BY <4>1 DEF LoanInv, Loaned
        <4> QED
          BY <3>1, <4>2, <4>3 DEF LockInv, OneHandler
      <3> QED
        BY <1>4, <3>2, <3>3
    <2>5. \A m \in Node : WriterBaseAt(m)'
      BY <1>1, <2>1, <2>2, <2>3 DEF CallBase, WriterBaseAt
    <2>6. \A u \in Txn : hpc[u] \in {"held", "enqueue"} => db'[at[u]] = db[at[u]]
      BY <2>3, <2>4
    <2>7. \A u \in Txn : RequestBaseAt(u)'
      BY <1>1, <2>6 DEF CallBase, RequestBaseAt
    <2> QED
      BY <2>5, <2>7 DEF CallBase
  <1> QED
    BY <1>2, <1>3, <1>4 DEF Fsm

\* Every step keeps BaseInv.
LEMMA BaseNext ==
  ASSUME TypeOK, LockInv, CallInv, LogInv, FsmInv, LoanInv, GainedInv, ReadyInv, ReplicaIsPrefix,
         BaseInv, Next
  PROVE  BaseInv'
PROOF
  <1>1. Clean => (BaseInv <=> LogBase /\ CallBase)
    BY DEF BaseInv, NoLostUpdate, TailBase, WriterBase, RequestBase, LogBase, CallBase,
       WriterBaseAt, RequestBaseAt
  <1>2. Clean' => (BaseInv' <=> LogBase' /\ CallBase')
    BY DEF BaseInv, NoLostUpdate, TailBase, WriterBase, RequestBase, LogBase, CallBase,
       WriterBaseAt, RequestBaseAt
  <1>3. CASE ~Clean'
    BY <1>3 DEF BaseInv, NoLostUpdate, TailBase, WriterBase, RequestBase
  <1>4. CASE Clean'
    <2>1. Clean /\ LogBase /\ CallBase /\ \A n \in Node : ReplicaAt(n)
      BY <1>1, <1>4, CleanBefore DEF ReplicaIsPrefix
    <2>2. ASSUME NEW n \in Node, Raft(n) PROVE LogBase' /\ CallBase'
      <3>1. UNCHANGED <<wpc, wid, hpc, at, marker, db, base, baseIndex>>
        BY <2>2, AdmittedFrame
      <3> QED
        BY <2>1, <2>2, <3>1, LogBaseRaft, CallBaseFrame
    <2>3. ASSUME NEW n \in Node, Leadership(n) PROVE LogBase' /\ CallBase'
      <3>1. UNCHANGED <<wpc, wid, hpc, at, marker, db, base, baseIndex>>
        BY <2>3, AdmittedFrame
      <3>2. UNCHANGED <<committed, tail>>
        BY <2>3 DEF Leadership, WatchLeadership, BarrierPassed, DrainDone, DrainReturn,
           raftVars
      <3> QED
        BY <2>1, <3>1, <3>2, LogBaseFrame, CallBaseFrame
    <2>4. CASE Local
      <3>1. LogBase'
        BY <2>1, <2>4, LogBaseLocal
      <3>2. CallBase'
        BY <2>1, <2>4, CallBaseBegin, CallBaseWriter, CallBaseHandler, CallBaseFsm DEF Local
      <3> QED
        BY <1>2, <1>4, <3>1, <3>2
    <2> QED
      BY <1>2, <1>4, <2>2, <2>3, <2>4 DEF Next, Local
  <1> QED
    BY <1>3, <1>4

-----------------------------------------------------------------------------
\* The layers together.

FullInv == SafetyInv /\ TermInv /\ GainedInv /\ DrainInv /\ ReadyInv /\ BaseInv

\* The initial state: nobody leads, nothing was computed.
LEMMA FullInit == Init => FullInv
PROOF
  <1> SUFFICES ASSUME Init PROVE FullInv
    OBVIOUS
  <1>1. SafetyInv
    BY SafetyInit
  <1>2. \A n \in Node : /\ ~IsLeader(n) /\ leadTerm[n] = 0 /\ drain[n] = NoDrain
                        /\ tail[n] = <<>> /\ wpc[n] = "idle"
    BY DEF Init, IsLeader
  <1>3. lastTerm = 0 /\ current = None /\ live = {} /\ committed = <<>>
    BY DEF Init
  <1>4. TermInv
    <2>1. ASSUME NEW n \in Node PROVE drain[n].term = 0
      BY <1>2, SMTT(60) DEF NoDrain
    <2>2. 0 <= 0
      BY SMTT(60)
    <2> QED
      BY <1>2, <1>3, <2>1, <2>2 DEF TermInv
  <1>5. GainedInv
    BY <1>2, <1>3, ConstAssumption DEF GainedInv, GainedAt
  <1>6. DrainInv /\ ReadyInv
    BY <1>2, <1>3 DEF DrainInv, DrainAt, DrainsThisTerm, ReadyInv, ReadyAt, LeaderReady
  <1>7. \A t \in Txn : hpc[t] = "none"
    BY DEF Init
  <1>8. NoLostUpdate /\ TailBase
    BY <1>2, <1>3, SMTT(60) DEF NoLostUpdate, TailBase
  <1>9. WriterBase /\ RequestBase
    BY <1>2, <1>7 DEF WriterBase, RequestBase
  <1> QED
    BY <1>1, <1>4, <1>5, <1>6, <1>8, <1>9 DEF FullInv, BaseInv

\* Every step keeps all layers.
LEMMA FullNext == FullInv /\ [Next]_vars => FullInv'
PROOF
  <1> SUFFICES ASSUME FullInv, [Next]_vars PROVE FullInv'
    OBVIOUS
  <1>1. SafetyInv'
    BY SafetyNext DEF FullInv
  <1>2. CASE Next
    BY <1>1, <1>2, TermNext, GainedNext, DrainNext, ReadyNext, BaseNext
    DEF FullInv, SafetyInv
  <1>3. CASE UNCHANGED vars
    <2> USE <1>3 DEF vars, raftVars, gateVars, writerVars, fsmVars
    <2>1. TermInv'
      BY TermFrame DEF FullInv
    <2>2. GainedInv'
      BY DEF FullInv, GainedInv, GainedAt, IsLeader, Admitted, DrainsThisTerm, Clean
    <2>3. DrainInv'
      BY DEF FullInv, DrainInv, DrainAt, IsLeader, DrainsThisTerm, Clean
    <2>4. ReadyInv'
      <3>1. ASSUME NEW n \in Node, ReadyAt(n) PROVE ReadyAt(n)'
        <4>1. \A u \in Txn : Waits(n, u)' <=> Waits(n, u)
          BY DEF Waits
        <4>2. LeaderReady(n)' <=> LeaderReady(n)
          BY DEF LeaderReady, IsLeader
        <4> QED
          BY <3>1, <4>1, <4>2, ReadyFrame
      <3> QED
        BY <3>1 DEF FullInv, ReadyInv, Clean
    <2>5. BaseInv'
      BY DEF FullInv, BaseInv, NoLostUpdate, TailBase, WriterBase, RequestBase, Clean
    <2> QED
      BY <1>1, <2>1, <2>2, <2>3, <2>4, <2>5 DEF FullInv
  <1> QED
    BY <1>2, <1>3

\* The whole inductive invariant of the write path.
THEOREM FullInvariant == Spec => []FullInv
  BY FullInit, FullNext, PTL DEF Spec

\* Until one of the recorded races happens, no page image is ever committed on top of a state
\* it was not computed on (the drain of watchLeadership, leaderReady in proposeEntry and the
\* base check of BeginHeldApply together), for any number of nodes, writes and elections.
THEOREM NoUpdateIsLost == Spec => []NoLostUpdate
PROOF
  <1>1. FullInv => NoLostUpdate
    BY DEF FullInv, BaseInv
  <1> QED
    BY <1>1, FullInvariant, PTL

\* A leader that leaderReady reports ready has its whole log in its database whenever its
\* write lock is free (drain's Barrier, and the lock held until the future resolves).
THEOREM ReadyLeaderIsDrained == Spec => []ReadyIsDrained
PROOF
  <1>1. FullInv => ReadyIsDrained
    <2> SUFFICES ASSUME FullInv, Clean, NEW n \in live, LeaderReady(n), wlock[n] = "free"
                 PROVE  tail[n] = <<>> /\ Len(db[n]) = Len(committed)
      BY DEF ReadyIsDrained
    <2> USE DEF FullInv, SafetyInv
    <2>1. n \in Node
      BY DEF TypeOK, RaftType
    <2>2. wpc[n] = "idle" /\ marker[n] = "none"
      BY <2>1 DEF LockInv, WriterLock
    <2>3. \A u \in Txn : ~Waits(n, u)
      BY <2>1, <2>2 DEF LockInv, HandlerLock, Held, Waits
    <2>4. Drained(n)
      BY <2>1, <2>3 DEF ReadyInv, ReadyAt, OneInFlight
    <2>5. ReplicaAt(n)
      BY <2>1 DEF ReplicaIsPrefix
    <2>6. Len(db[n]) = lastApplied[n]
      BY <2>1, <2>2, <2>5, UnwrittenIsApplied
    <2> QED
      BY <2>4, <2>6 DEF Drained
  <1> QED
    BY <1>1, FullInvariant, PTL

-----------------------------------------------------------------------------
\* The refinement: what the steps do to committed, db and outcome.

\* The first entries of the log after a commit are the log before it.
LEMMA PrefixStays ==
  ASSUME NEW s \in Seq(Txn), NEW r \in Seq(Txn), Len(s) <= Len(r),
         \A i \in 1..Len(s) : r[i] = s[i]
  PROVE  SubSeq(r, 1, Len(s)) = s
PROOF
  <1>1. /\ SubSeq(r, 1, Len(s)) \in Seq(Txn) /\ Len(SubSeq(r, 1, Len(s))) = Len(s)
        /\ \A i \in 1..Len(s) : SubSeq(r, 1, Len(s))[i] = s[i]
    BY SubSeqTail, SMTT(60)
  <1> QED
    BY <1>1, SMTT(60)

\* The publishing writer's transaction is the next entry its database misses.
LEMMA PublishedIsNext ==
  ASSUME TypeOK, LockInv, FsmInv, Clean, NEW n \in Node, ReplicaAt(n), Publish(n)
  PROVE  /\ Len(db[n]) < Len(committed) /\ committed[Len(db[n]) + 1] = wid[n]
         /\ wid[n] \in Txn /\ outcome[wid[n]] = "open"
PROOF
  <1>1. marker[n] = "skipped" /\ wpc[n] # "idle"
    BY DEF Publish, FsmInv, FsmDone
  <1>2. committed[lastApplied[n]] = wid[n]
    BY <1>1 DEF FsmInv, FsmMarker, MarkerAt
  <1>3. Len(db[n]) + 1 = lastApplied[n]
    BY <1>1 DEF ReplicaAt
  <1>4. lastApplied[n] <= Len(committed)
    BY DEF FsmInv, FsmIndex
  <1>5. Len(db[n]) < Len(committed)
    BY <1>3, <1>4, Lengths, SMTT(60)
  <1>6. wid[n] \in Txn /\ outcome[wid[n]] = "open"
    BY <1>1 DEF LockInv, WriterLock
  <1> QED
    BY <1>2, <1>3, <1>5, <1>6

\* The writer tells its client something when it ends, and only then.
LEMMA WriterTells ==
  ASSUME TypeOK, LockInv, CallInv, LogInv, FsmInv, Clean, NEW n \in Node, ReplicaAt(n), Writer(n)
  PROVE  \/ UNCHANGED <<committed, db, outcome>>
         \/ Promise!Acknowledge(n)
         \/ \E t \in Txn : Promise!Reject(t) \/ Promise!GiveUp(t)
PROOF
  <1>1. committed' = committed
    BY WriterFrame
  <1>2. ASSUME wpc[n] # "idle", NEW result, Abort(n, result)
        PROVE  /\ wid[n] \in Txn /\ outcome[wid[n]] = "open"
               /\ db' = db /\ outcome' = [outcome EXCEPT ![wid[n]] = result]
    BY <1>2 DEF Abort, EndWrite, LockInv, WriterLock
  <1>3. ASSUME wpc[n] # "idle", Abort(n, "ambiguous")
        PROVE  \E t \in Txn : Promise!GiveUp(t)
    <2>1. Promise!GiveUp(wid[n]) /\ wid[n] \in Txn
      BY <1>1, <1>2, <1>3 DEF Promise!GiveUp
    <2> QED
      BY <2>1
  <1>4. ASSUME wpc[n] # "idle", Abort(n, "safe"), future[wid[n]] = "none"
        PROVE  \E t \in Txn : Promise!Reject(t)
    <2>1. ~Promise!InLog(wid[n])
      <3>1. DOMAIN committed = 1..Len(committed)
        BY SMTT(60) DEF TypeOK, LogType
      <3> QED
        BY <1>4, <3>1 DEF Promise!InLog, LogInv, LogAccepted
    <2>2. Promise!Reject(wid[n]) /\ wid[n] \in Txn
      BY <1>1, <1>2, <1>4, <2>1 DEF Promise!Reject
    <2> QED
      BY <2>2
  <1>5. CASE RejectLocal(n) \/ EnqueueLocalFails(n) \/ ForwardRejected(n)
    <2>1. \/ Abort(n, "ambiguous") /\ wpc[n] # "idle"
          \/ Abort(n, "safe") /\ wpc[n] # "idle" /\ future[wid[n]] = "none"
      <3>1. CASE RejectLocal(n)
        BY <3>1 DEF RejectLocal, CallInv
      <3>2. CASE EnqueueLocalFails(n)
        BY <3>2 DEF EnqueueLocalFails, CallInv
      <3>3. CASE ForwardRejected(n)
        <4>1. wpc[n] = "forward" /\ hpc[wid[n]] \in Unproposed /\ Abort(n, "safe")
          BY <3>3 DEF ForwardRejected, Unproposed
        <4>2. wid[n] \in Txn
          BY <4>1 DEF LockInv, WriterLock
        <4> QED
          BY <4>1, <4>2 DEF CallInv
      <3> QED
        BY <1>5, <3>1, <3>2, <3>3
    <2> QED
      BY <1>3, <1>4, <2>1
  <1>6. CASE ApplyLost(n) \/ AwaitFails(n)
    <2>1. Abort(n, "ambiguous") /\ wpc[n] # "idle"
      BY <1>6 DEF ApplyLost, AwaitFails
    <2> QED
      BY <1>3, <2>1
  <1>7. CASE Publish(n)
    <2>1. /\ Len(db[n]) < Len(committed) /\ committed[Len(db[n]) + 1] = wid[n]
          /\ outcome[wid[n]] = "open"
      BY <1>7, PublishedIsNext
    <2>2. /\ db' = [db EXCEPT ![n] = Append(@, wid[n])]
          /\ outcome' = [outcome EXCEPT ![wid[n]] = "ok"]
      BY <1>7 DEF Publish, EndWrite
    <2>3. Promise!Show(n)
      BY <1>1, <2>1, <2>2 DEF Promise!Show
    <2> QED
      BY <2>1, <2>2, <2>3 DEF Promise!Acknowledge
  <1>8. CASE \/ ProposeLocal(n) \/ EnqueueLocal(n) \/ AwaitFSMApplied(n) \/ AwaitTimeout(n)
             \/ \E l \in Node : Forward(n, l) \/ Redirect(n, l)
    BY <1>1, <1>8 DEF ProposeLocal, EnqueueLocal, AwaitFSMApplied, AwaitTimeout, Forward,
       Redirect, fsmVars
  <1> QED
    BY <1>5, <1>6, <1>7, <1>8 DEF Writer

\* Apply shows the next entry of the log, under its own lock or a loaned one.
LEMMA FsmShows ==
  ASSUME TypeOK, LockInv, LogInv, FsmInv, LoanInv, Clean, NEW n \in Node, ReplicaAt(n), Fsm(n)
  PROVE  \/ UNCHANGED <<committed, db, outcome>>
         \/ Promise!Show(n) /\ UNCHANGED outcome
PROOF
  <1>1. UNCHANGED <<committed, outcome>>
    BY DEF Fsm, ConsumeMarker, StartApply, AppendOwnLock, BeginLoanAppend, EndLoanAppend,
       Materialize, ApplyReturns, raftVars, writerVars
  <1>2. CASE ConsumeMarker(n) \/ StartApply(n) \/ BeginLoanAppend(n)
    BY <1>1, <1>2 DEF ConsumeMarker, StartApply, BeginLoanAppend
  <1>3. CASE AppendOwnLock(n) \/ EndLoanAppend(n)
    <2>1. db' = [db EXCEPT ![n] = Append(@, NextEntry(n))] /\ fsm[n] \in Applying
      BY <1>3 DEF AppendOwnLock, EndLoanAppend, Materialize, Applying
    <2>2. marker[n] # "skipped"
      BY <1>3, NoWriter
    <2>3. Len(db[n]) = lastApplied[n]
      BY <2>2, UnwrittenIsApplied
    <2>4. lastApplied[n] < Len(committed)
      BY <2>1 DEF FsmInv, FsmIndex
    <2>5. Promise!Show(n)
      BY <1>1, <2>1, <2>3, <2>4 DEF Promise!Show, NextEntry
    <2> QED
      BY <1>1, <2>5
  <1> QED
    BY <1>2, <1>3 DEF Fsm

\* A commit grows the log by writes that nobody was told of, each for the first time.
LEMMA RaftCommits ==
  ASSUME TypeOK, LogInv, LogInv', CallInv, AckInv, Clean, NEW n \in Node, Raft(n)
  PROVE  UNCHANGED <<committed, db, outcome>> \/ Promise!Commit
PROOF
  <1>1. UNCHANGED <<db, outcome>>
    BY AdmittedFrame
  <1>2. CASE Elect(n) \/ StepDown(n) \/ LeaveLeader(n)
    BY <1>1, <1>2 DEF Elect, StepDown, LeaveLeader
  <1>3. CASE CommitNoop(n) \/ CommitNext(n)
    <2>1. PICK k \in 0..Len(tail[n]) : CommitResult(n, k)
      BY <1>3, CommitSteps
    <2>2. /\ committed \in Seq(Txn) /\ Len(committed) \in Nat /\ Len(tail[n]) \in Nat
          /\ k \in Nat /\ k <= Len(tail[n])
      BY Lengths, SMTT(60)
    <2>3. /\ committed' \in Seq(Txn) /\ Len(committed') = Len(committed) + k
          /\ \A i \in 1..Len(committed) : committed'[i] = committed[i]
          /\ \A i \in 1..k : committed'[Len(committed) + i] = tail[n][i]
      BY <2>1 DEF CommitResult
    <2>4. SubSeq(committed', 1, Len(committed)) = committed
      <3>1. Len(committed) <= Len(committed')
        BY <2>2, <2>3, SMTT(60)
      <3> QED
        BY <2>2, <2>3, <3>1, PrefixStays
    <2>5. CASE k = 0
      <3>1. committed' = committed
        BY <2>2, <2>3, <2>5, SMTT(60)
      <3> QED
        BY <1>1, <3>1
    <2>6. CASE k > 0
      <3>1. Len(committed') > Len(committed)
        BY <2>2, <2>3, <2>6, SMTT(60)
      <3>2. ASSUME NEW i \in Len(committed) + 1 .. Len(committed')
            PROVE  /\ outcome[committed'[i]] \in {"open", "ambiguous"}
                   /\ \A j \in 1 .. i - 1 : committed'[j] # committed'[i]
        <4>1. PICK l \in 1..k : i = Len(committed) + l
          <5>1. i - Len(committed) \in 1..k /\ i = Len(committed) + (i - Len(committed))
            BY <2>2, <2>3, SMTT(60)
          <5> QED
            BY <5>1
        <4>2. committed'[i] = tail[n][l] /\ l \in 1..Len(tail[n])
          BY <2>2, <2>3, <4>1, SMTT(60)
        <4>3. tail[n][l] \in Txn /\ future[tail[n][l]] # "none"
          BY <4>2, EntryTypes DEF LogInv, LogAccepted
        <4>4. outcome[tail[n][l]] # "ok"
          BY <4>2, <4>3 DEF AckInv, LogInv, LogOnce
        <4>5. outcome[tail[n][l]] \in Outcome
          BY <4>3 DEF TypeOK, WriterType
        <4>6. outcome[tail[n][l]] \in {"open", "ambiguous"}
          BY <4>3, <4>4, <4>5 DEF CallInv, Outcome
        <4>7. ASSUME NEW j \in 1 .. i - 1 PROVE committed'[j] # committed'[i]
          <5>1. j \in 1..Len(committed') /\ i \in 1..Len(committed') /\ j # i
            BY <2>2, <2>3, SMTT(60)
          <5> QED
            BY <5>1 DEF LogInv, LogOnce, CommittedOnce
        <4> QED
          BY <4>2, <4>6, <4>7
      <3> QED
        BY <1>1, <2>4, <3>1, <3>2 DEF Promise!Commit
    <2> QED
      BY <2>2, <2>5, <2>6, SMTT(60)
  <1> QED
    BY <1>2, <1>3 DEF Raft

\* The rest of the node's steps show and tell nothing.
LEMMA SilentSteps ==
  ASSUME \/ \E n \in Node : Leadership(n)
         \/ \E t \in Txn : Handler(t)
  PROVE  UNCHANGED <<committed, db, outcome>>
PROOF
  <1>1. ASSUME NEW n \in Node, Leadership(n) PROVE UNCHANGED <<committed, db, outcome>>
    BY <1>1 DEF Leadership, WatchLeadership, BarrierPassed, DrainDone, DrainReturn,
       raftVars, writerVars, fsmVars
  <1>2. ASSUME NEW t \in Txn, Handler(t) PROVE UNCHANGED <<committed, db, outcome>>
    BY <1>2 DEF Handler, HandleNotLeader, HandleRequest, HandleBusy, HandleStale,
       HandleLocked, HandlePropose, HandleRefused, HandleEnqueue, HandleEnqueueFails,
       HandleApplied, HandleLost, Respond, Accept, raftVars, writerVars, fsmVars
  <1> QED
    BY <1>1, <1>2

\* Every step that records no race is a step of ReplicatedDB or changes nothing it speaks of.
LEMMA StepKeepsPromise ==
  ASSUME SafetyInv, LogInv', AckInv, Next, Clean'
  PROVE  UNCHANGED <<committed, db, outcome>> \/ Promise!Next
PROOF
  <1>1. Clean /\ \A n \in Node : ReplicaAt(n)
    BY CleanBefore DEF SafetyInv, ReplicaIsPrefix
  <1>2. ASSUME NEW n \in Node, Raft(n)
        PROVE  UNCHANGED <<committed, db, outcome>> \/ Promise!Next
    BY <1>1, <1>2, RaftCommits DEF SafetyInv, Promise!Next
  <1>3. ASSUME NEW n \in Node, Writer(n)
        PROVE  UNCHANGED <<committed, db, outcome>> \/ Promise!Next
    BY <1>1, <1>3, WriterTells DEF SafetyInv, Promise!Next
  <1>4. ASSUME NEW n \in Node, Fsm(n)
        PROVE  UNCHANGED <<committed, db, outcome>> \/ Promise!Next
    BY <1>1, <1>4, FsmShows DEF SafetyInv, Promise!Next
  <1>5. ASSUME NEW n \in Node, NEW t \in Txn, BeginWrite(n, t)
        PROVE  Promise!Next
    <2>1. Promise!Begin(t)
      BY <1>5 DEF BeginWrite, raftVars, fsmVars, Promise!Begin
    <2> QED
      BY <2>1 DEF Promise!Next
  <1> QED
    BY <1>2, <1>3, <1>4, <1>5, SilentSteps DEF Next

\* What is acknowledged is in the log, which only grows.
LEMMA AckNext ==
  ASSUME SafetyInv, LogInv', AckInv, Next
  PROVE  AckInv'
PROOF
  <1> SUFFICES ASSUME Clean', Clean, NEW t \in Txn, outcome'[t] = "ok"
               PROVE  \E i \in 1..Len(committed') : committed'[i] = t
    BY CleanBefore DEF AckInv
  <1>1. \A i \in 1..Len(committed) : i \in 1..Len(committed') /\ committed'[i] = committed[i]
    <2>1. ASSUME NEW n \in Node, Raft(n)
          PROVE  \A i \in 1..Len(committed) : i \in 1..Len(committed') /\ committed'[i] = committed[i]
      <3>1. /\ Len(committed) <= Len(committed')
            /\ \A i \in 1..Len(committed) : committed'[i] = committed[i]
        BY <2>1, LogGrows DEF SafetyInv
      <3>2. Len(committed) \in Nat /\ Len(committed') \in Nat
        <4>1. TypeOK /\ TypeOK'
          BY TypeNext DEF SafetyInv
        <4>2. committed \in Seq(Txn) /\ committed' \in Seq(Txn)
          BY <4>1 DEF TypeOK, LogType
        <4> QED
          BY <4>2, SMTT(60)
      <3> QED
        BY <3>1, <3>2, SMTT(60)
    <2>2. CASE Local \/ \E n \in Node : Leadership(n)
      <3>1. committed' = committed
        BY <2>2, LocalSteps, SilentSteps DEF SafetyInv, leaderVars
      <3> QED
        BY <3>1
    <2> QED
      BY <2>1, <2>2 DEF Next, Local
  <1>2. CASE outcome[t] = "ok"
    <2>1. PICK i \in 1..Len(committed) : committed[i] = t
      BY <1>2 DEF AckInv
    <2> QED
      BY <1>1, <2>1
  <1>3. CASE outcome[t] # "ok"
    <2>1. PICK n \in Node : Publish(n) /\ t = wid[n]
      <3>1. outcome' # outcome
        BY <1>3
      <3>2. ~\E n \in Node : Raft(n)
        BY <3>1, AdmittedFrame
      <3>3. ~\E n \in Node : Fsm(n)
        BY <3>1 DEF Fsm, ConsumeMarker, StartApply, AppendOwnLock, BeginLoanAppend,
           EndLoanAppend, Materialize, ApplyReturns, writerVars
      <3>4. ASSUME NEW n \in Node, NEW u \in Txn, BeginWrite(n, u) PROVE FALSE
        <4>1. outcome' = [outcome EXCEPT ![u] = "open"]
          BY <3>4 DEF BeginWrite
        <4> QED
          BY <1>3, <4>1 DEF SafetyInv, TypeOK, WriterType
      <3>5. ASSUME NEW n \in Node, Writer(n) PROVE Publish(n) /\ t = wid[n]
        <4>1. \/ outcome' = outcome
              \/ Publish(n) /\ outcome' = [outcome EXCEPT ![wid[n]] = "ok"]
              \/ \E result \in {"safe", "ambiguous"} :
                   outcome' = [outcome EXCEPT ![wid[n]] = result]
          BY <3>5 DEF Writer, ProposeLocal, RejectLocal, EnqueueLocal, EnqueueLocalFails,
             ApplyLost, Publish, Forward, Redirect, ForwardRejected, AwaitFSMApplied,
             AwaitTimeout, AwaitFails, Abort, EndWrite
        <4> QED
          BY <1>3, <3>1, <4>1 DEF SafetyInv, TypeOK, WriterType
      <3> QED
        BY <3>1, <3>2, <3>3, <3>4, <3>5, SilentSteps DEF Next
    <2>2. Len(db[n]) < Len(committed) /\ committed[Len(db[n]) + 1] = wid[n]
      BY <2>1, PublishedIsNext DEF SafetyInv, ReplicaIsPrefix
    <2>3. Len(db[n]) + 1 \in 1..Len(committed)
      BY <2>2, Lengths, SMTT(60) DEF SafetyInv
    <2> QED
      BY <1>1, <2>1, <2>2, <2>3
  <1> QED
    BY <1>2, <1>3

\* Until one of the recorded races happens, the write path implements ReplicatedDB: the log
\* grows by writes nobody was told to retry, each once; a replica shows the next entry; a
\* write is acknowledged (ProposeTransaction returns nil) in the step that publishes it, and
\* refused as retryable only if it never commits.
THEOREM WritePathKeepsPromise == Spec => KeepsPromise
PROOF
  <1>1. Init => Promise!Init
    BY DEF Init, Promise!Init
  <1>2. Init => SafetyInv /\ AckInv
    <2>1. Init => AckInv
      BY DEF Init, AckInv
    <2> QED
      BY <2>1, SafetyInit
  <1>3. SafetyInv /\ AckInv /\ [Next]_vars => (SafetyInv /\ AckInv)'
    <2> SUFFICES ASSUME SafetyInv, AckInv, [Next]_vars PROVE SafetyInv' /\ AckInv'
      OBVIOUS
    <2>1. SafetyInv'
      BY SafetyNext
    <2>2. CASE Next
      BY <2>1, <2>2, AckNext DEF SafetyInv
    <2>3. CASE UNCHANGED vars
      BY <2>1, <2>3 DEF vars, raftVars, writerVars, AckInv, Clean
    <2> QED
      BY <2>1, <2>2, <2>3
  <1>4. SafetyInv /\ SafetyInv' /\ AckInv /\ [Next]_vars =>
          [\/ UNCHANGED <<committed, db, outcome>>
           \/ anomaly' # {}
           \/ Promise!Next]_vars
    <2> SUFFICES ASSUME SafetyInv, SafetyInv', AckInv, Next, anomaly' = {}
                 PROVE  UNCHANGED <<committed, db, outcome>> \/ Promise!Next
      OBVIOUS
    <2> QED
      BY StepKeepsPromise DEF SafetyInv, Clean
  <1> QED
    BY <1>1, <1>2, <1>3, <1>4, PTL DEF Spec, KeepsPromise

=============================================================================
