---------------------------- MODULE CallProofs ------------------------------
(***************************************************************************)
(* Type correctness, the lock discipline, the life of a call and what is   *)
(* in the logs of Replication: the lower layers of its inductive           *)
(* invariant, for any nodes, transactions and terms.                       *)
(***************************************************************************)
EXTENDS ReplicationInv, TLAPS

\* Steps that name no prover are left to Zenon.
USE ZenonT(60)

-----------------------------------------------------------------------------
\* What the raft actions do to sequences.
LEMMA SubSeqTail ==
  ASSUME NEW S, NEW s \in Seq(S), NEW j \in Nat, NEW k \in 0..Len(s), j >= 1, j <= k + 1
  PROVE  /\ SubSeq(s, j, k) \in Seq(S)
         /\ Len(SubSeq(s, j, k)) = k - j + 1
         /\ \A i \in 1..(k - j + 1) : SubSeq(s, j, k)[i] = s[j + i - 1]
  BY SMTT(60)

\* The elements of a concatenation (the committed log grown by a tail).
LEMMA ConcatElements ==
  ASSUME NEW S, NEW s \in Seq(S), NEW r \in Seq(S)
  PROVE  /\ s \o r \in Seq(S)
         /\ Len(s \o r) = Len(s) + Len(r)
         /\ \A i \in 1..Len(s) : (s \o r)[i] = s[i]
         /\ \A i \in 1..Len(r) : (s \o r)[Len(s) + i] = r[i]
  BY SMTT(60)

\* The elements of an appended sequence (a tail or a database grown by one).
LEMMA AppendElements ==
  ASSUME NEW S, NEW s \in Seq(S), NEW e \in S
  PROVE  /\ Append(s, e) \in Seq(S)
         /\ Len(Append(s, e)) = Len(s) + 1
         /\ \A i \in 1..Len(s) : Append(s, e)[i] = s[i]
         /\ Append(s, e)[Len(s) + 1] = e
  BY SMTT(60)

-----------------------------------------------------------------------------
\* The initial state has its types.
LEMMA TypeInit == Init => TypeOK
PROOF
  <1> SUFFICES ASSUME Init PROVE TypeOK
    OBVIOUS
  <1>1. LogType
    BY SMTT(60) DEF Init, LogType, Future
  <1>2. RaftType
    BY DEF Init, RaftType, Role
  <1>3. GateType
    BY DEF Init, GateType, Drain, NoDrain
  <1>4. WriterType
    BY DEF Init, WriterType, WriterPc, Outcome
  <1>5. HandlerType /\ FsmType
    BY SMTT(60) DEF Init, HandlerType, FsmType, FsmPc, Running, Status
  <1> QED
    BY <1>1, <1>2, <1>3, <1>4, <1>5 DEF Init, TypeOK

\* Every step keeps the types.
LEMMA TypeNext ==
  TypeOK /\ LockInv /\ LogInv /\ FsmInv /\ [Next]_vars => TypeOK'
PROOF
\* An election keeps the types: the tail it inherits is a prefix of one.
<1>TypeElect. ASSUME TypeOK, NEW n \in Node, Elect(n)
      PROVE  TypeOK'
  <2> USE <1>TypeElect
  <2>1. PICK m \in live \cup {n} : \E k \in 0..Len(tail[m]) :
          /\ tail' = [tail EXCEPT ![n] = SubSeq(tail[m], 1, k)]
          /\ inherited' = k
    BY DEF Elect
  <2>2. PICK k \in 0..Len(tail[m]) :
          /\ tail' = [tail EXCEPT ![n] = SubSeq(tail[m], 1, k)]
          /\ inherited' = k
    BY <2>1
  <2>3. m \in Node /\ tail[m] \in Seq(Txn)
    BY DEF TypeOK, RaftType, LogType
  <2>4. SubSeq(tail[m], 1, k) \in Seq(Txn) /\ k \in Nat
    BY <2>3, SubSeqTail, SMTT(60)
  <2>5. LogType'
    BY <2>2, <2>4 DEF TypeOK, LogType, Elect
  <2>6. lastSeen' \in [Node -> Nat]
    BY SMTT(60) DEF TypeOK, LogType, RaftType, Elect
  <2>7. RaftType'
    <3>1. /\ role' = [role EXCEPT ![n] = "Leader"]
          /\ lastTerm' = lastTerm + 1
          /\ leadTerm' = [leadTerm EXCEPT ![n] = lastTerm + 1]
          /\ leaderCh' = [leaderCh EXCEPT ![n] = "gained"]
          /\ live' = live \cup {n}
          /\ current' = n
          /\ noop' = "pending"
      BY DEF Elect
    <3> QED
      BY <2>2, <2>4, <2>6, <3>1, SMTT(60) DEF TypeOK, RaftType, Role
  <2>8. anomaly' \in SUBSET Anomaly
    BY DEF TypeOK, Elect, Anomaly
  <2> QED
    BY <2>5, <2>7, <2>8
    DEF TypeOK, GateType, WriterType, HandlerType, FsmType, Elect, gateVars,
        writerVars, fsmVars
\* Committing a prefix of a tail keeps the types.
<1>TypeCommit. ASSUME TypeOK, NEW n \in Node, NEW k \in 0..Len(tail[n]), CommitTail(n, k)
      PROVE  TypeOK'
  <2> USE <1>TypeCommit
  <2>1. tail[n] \in Seq(Txn)
    BY DEF TypeOK, LogType
  <2>2. SubSeq(tail[n], 1, k) \in Seq(Txn)
    BY <2>1, SubSeqTail, SMTT(60)
  <2>3. SubSeq(tail[n], k + 1, Len(tail[n])) \in Seq(Txn)
    BY <2>1, SubSeqTail, SMTT(60)
  <2>4. committed' \in Seq(Txn)
    BY <2>2, ConcatElements DEF TypeOK, LogType, CommitTail
  <2>5. tail' \in [Node -> Seq(Txn)]
    BY <2>3, SMTT(60) DEF CommitTail
  <2>6. future' \in [Txn -> Future]
    BY DEF TypeOK, LogType, CommitTail, Future
  <2>7. RaftType'
    BY DEF TypeOK, RaftType, CommitTail
  <2> QED
    BY <2>4, <2>5, <2>6, <2>7
    DEF TypeOK, LogType, GateType, WriterType, HandlerType, FsmType, CommitTail,
        gateVars, writerVars, fsmVars
\* The steps of raft keep the types.
<1>TypeRaft. ASSUME TypeOK, LogShape, NEW n \in Node, Raft(n)
      PROVE  TypeOK'
  <2> USE <1>TypeRaft
  <2>1. CASE Elect(n)
    BY <2>1, <1>TypeElect
  <2>2. CASE StepDown(n)
    <3>1. RaftType'
      BY <2>2, SMTT(60) DEF TypeOK, RaftType, StepDown, Role
    <3> QED
      BY <2>2, <3>1
      DEF TypeOK, LogType, GateType, WriterType, HandlerType, FsmType, StepDown,
          gateVars, writerVars, fsmVars
  <2>3. CASE LeaveLeader(n)
    <3>1. RaftType'
      BY <2>3 DEF TypeOK, RaftType, LeaveLeader, Role
    <3>2. LogType'
      BY <2>3 DEF TypeOK, LogType, LeaveLeader, Future
    <3> QED
      BY <2>3, <3>1, <3>2
      DEF TypeOK, GateType, WriterType, HandlerType, FsmType, LeaveLeader,
          gateVars, writerVars, fsmVars
  <2>4. CASE CommitNoop(n)
    <3>1. inherited \in 0..Len(tail[n])
      BY <2>4, ConstAssumption, SMTT(60) DEF LogShape, CommitNoop, TypeOK, RaftType, LogType
    <3> QED
      BY <2>4, <3>1, <1>TypeCommit DEF CommitNoop
  <2>5. CASE CommitNext(n)
    <3>1. 1 \in 0..Len(tail[n])
      BY <2>5, SMTT(60) DEF CommitNext, TypeOK, LogType
    <3> QED
      BY <2>5, <3>1, <1>TypeCommit DEF CommitNext
  <2> QED
    BY <2>1, <2>2, <2>3, <2>4, <2>5 DEF Raft
\* watchLeadership and drain keep the types.
<1>TypeLeadership. ASSUME TypeOK, NEW n \in Node, Leadership(n)
      PROVE  TypeOK'
  <2> USE <1>TypeLeadership
  <2>1. LogType' /\ WriterType' /\ HandlerType' /\ FsmType' /\ UNCHANGED anomaly
    BY DEF TypeOK, LogType, WriterType, HandlerType, FsmType, Leadership,
           WatchLeadership, BarrierPassed, DrainDone, DrainReturn, raftVars,
           writerVars, fsmVars
  <2>2. RaftType'
    BY DEF TypeOK, RaftType, Leadership, WatchLeadership, BarrierPassed, DrainDone,
           DrainReturn, raftVars
  <2>3. Len(committed) + Len(tail[n]) \in Nat
    BY SMTT(60) DEF TypeOK, LogType
  <2>4. GateType'
    <3>1. CASE WatchLeadership(n)
      BY <2>3, <3>1 DEF TypeOK, RaftType, GateType, Drain, WatchLeadership
    <3>2. CASE BarrierPassed(n)
      BY <3>2 DEF TypeOK, GateType, Drain, BarrierPassed
    <3>3. CASE DrainDone(n)
      BY <3>3 DEF TypeOK, GateType, Drain, NoDrain, DrainDone
    <3>4. CASE DrainReturn(n)
      BY <3>4 DEF TypeOK, GateType, Drain, NoDrain, DrainReturn
    <3> QED
      BY <3>1, <3>2, <3>3, <3>4 DEF Leadership
  <2> QED
    BY <2>1, <2>2, <2>4 DEF TypeOK
\* What BeginWrite and the writer's other steps do, action by action.
<1>TypeWriter. ASSUME TypeOK, WriterLock, NEW n \in Node,
             Writer(n) \/ \E t \in Txn : BeginWrite(n, t)
      PROVE  TypeOK'
  <2> USE <1>TypeWriter
  <2> USE DEF TypeOK
  <2>1. ASSUME NEW t \in Txn, BeginWrite(n, t)
        PROVE  TypeOK'
    <3>1. WriterType' /\ FsmType'
      BY <2>1, SMTT(60) DEF WriterType, FsmType, BeginWrite, WriterPc, Outcome, fsmVars
    <3> QED
      BY <2>1, <3>1 DEF RaftType, LogType, GateType, HandlerType, BeginWrite,
                        raftVars, gateVars
  <2>2. ASSUME NEW result \in {"ok", "safe", "ambiguous"}, EndWrite(n, result),
               wpc[n] # "idle", db' \in [Node -> Seq(Txn)],
               anomaly' \in SUBSET Anomaly
        PROVE  TypeOK'
    <3>1. WriterType'
      BY <2>2 DEF WriterType, WriterLock, EndWrite, WriterPc, Outcome
    <3>2. HandlerType'
      BY <2>2 DEF HandlerType, WriterLock, EndWrite, Forget
    <3>3. FsmType'
      BY <2>2 DEF FsmType, EndWrite
    <3> QED
      BY <2>2, <3>1, <3>2, <3>3
      DEF RaftType, LogType, GateType, EndWrite, raftVars, gateVars
  <2>3. ASSUME NEW result \in {"ok", "safe", "ambiguous"}, Abort(n, result),
               wpc[n] # "idle", anomaly' \in SUBSET Anomaly
        PROVE  TypeOK'
    BY <2>2, <2>3 DEF Abort, FsmType
  <2>4. CASE ProposeLocal(n)
    BY <2>4 DEF RaftType, LogType, GateType, WriterType, HandlerType, FsmType,
                ProposeLocal, WriterPc, raftVars, gateVars, fsmVars
  <2>5. CASE RejectLocal(n) \/ EnqueueLocalFails(n) \/ ForwardRejected(n) \/ AwaitFails(n)
    BY <2>3, <2>5
    DEF RejectLocal, EnqueueLocalFails, ForwardRejected, AwaitFails
  <2>6. CASE ApplyLost(n)
    BY <2>3, <2>6 DEF ApplyLost, Anomaly
  <2>7. CASE Publish(n)
    <3>1. wid[n] \in Txn /\ wpc[n] # "idle"
      BY <2>7 DEF Publish, WriterLock
    <3>2. db' \in [Node -> Seq(Txn)]
      BY <2>7, <3>1, SMTT(60) DEF Publish, FsmType
    <3> QED
      BY <2>2, <2>7, <3>1, <3>2 DEF Publish
  <2>8. CASE EnqueueLocal(n)
    <3>1. wid[n] \in Txn
      BY <2>8 DEF EnqueueLocal, WriterLock
    <3>2. LogType' /\ HandlerType'
      BY <2>8, <3>1, SMTT(60) DEF EnqueueLocal, Accept, LogType, HandlerType, Future
    <3> QED
      BY <2>8, <3>2 DEF RaftType, GateType, WriterType, FsmType, EnqueueLocal,
                        Accept, WriterPc, gateVars, fsmVars
  <2>9. ASSUME NEW l \in Node, Forward(n, l) \/ Redirect(n, l)
        PROVE  TypeOK'
    <3>1. wid[n] \in Txn
      BY <2>9 DEF Forward, Redirect, WriterLock
    <3>2. HandlerType'
      BY <2>9, <3>1, SMTT(60) DEF Forward, Redirect, Send, HandlerType, Running
    <3>3. WriterType'
      <4>1. CASE Forward(n, l)
        <5>1. /\ wpc' \in [Node -> WriterPc]
              /\ marker' \in [Node -> {"none", "pending", "skipped", "abandoned"}]
          BY <4>1 DEF Forward, WriterType, WriterPc
        <5>2. baseIndex' \in [Txn -> Nat]
          BY <3>1, <4>1 DEF Forward, WriterType, FsmType
        <5> QED
          BY <4>1, <5>1, <5>2 DEF Forward, WriterType
      <4>2. CASE Redirect(n, l)
        BY <4>2 DEF Redirect, WriterType
      <4> QED
        BY <2>9, <4>1, <4>2
    <3> QED
      BY <2>9, <3>2, <3>3 DEF RaftType, LogType, GateType, FsmType, Forward,
                              Redirect, raftVars, gateVars, fsmVars
  <2>10. CASE AwaitFSMApplied(n) \/ AwaitTimeout(n)
    <3>1. HandlerType'
      BY <2>10, SMTT(60) DEF AwaitFSMApplied, AwaitTimeout, Forget, HandlerType
    <3>2. WriterType'
      BY <2>10 DEF AwaitFSMApplied, AwaitTimeout, WriterType, WriterPc
    <3> QED
      BY <2>10, <3>1, <3>2 DEF RaftType, LogType, GateType, FsmType,
         AwaitFSMApplied, AwaitTimeout, raftVars, gateVars, fsmVars
  <2> QED
    BY <2>1, <2>4, <2>5, <2>6, <2>7, <2>8, <2>9, <2>10 DEF Writer
\* handleRequest keeps the types: the node it runs on is one.
<1>TypeHandler. ASSUME TypeOK, HandlerLock, NEW t \in Txn, Handler(t)
      PROVE  TypeOK'
  <2> USE <1>TypeHandler
  <2> USE DEF TypeOK
  <2>1. ASSUME NEW status \in Status, Respond(t, status)
        PROVE  /\ RaftType' /\ LogType' /\ GateType' /\ WriterType' /\ HandlerType'
               /\ UNCHANGED fsmVars
    BY <2>1 DEF Respond, RaftType, LogType, GateType, WriterType, HandlerType,
                Running, raftVars, gateVars, writerVars
  <2>2. CASE HandleNotLeader(t) \/ HandleBusy(t) \/ HandleStale(t)
    BY <2>1, <2>2 DEF HandleNotLeader, HandleBusy, HandleStale, FsmType, fsmVars,
                      Status
  <2>3. CASE HandleRequest(t) \/ HandlePropose(t)
    BY <2>3 DEF HandleRequest, HandlePropose, RaftType, LogType, GateType, WriterType,
       HandlerType, FsmType, Running, raftVars, gateVars, writerVars, fsmVars
  <2>4. CASE HandleLocked(t)
    BY <2>4 DEF HandleLocked, RaftType, LogType, GateType, WriterType, HandlerType,
       FsmType, Running, raftVars, gateVars, writerVars, fsmVars
  <2>5. CASE HandleEnqueue(t)
    <3>1. at[t] \in Node
      BY <2>5 DEF HandleEnqueue, HandlerLock, Running
    <3>2. LogType' /\ HandlerType'
      BY <2>5, <3>1, SMTT(60) DEF HandleEnqueue, Accept, LogType, HandlerType, Future, Running
    <3> QED
      BY <2>5, <3>2 DEF HandleEnqueue, Accept, RaftType, GateType, WriterType,
                        FsmType, gateVars, writerVars, fsmVars
  <2>6. ASSUME Release(t), UNCHANGED fsmVars
        PROVE  FsmType'
    BY <2>6 DEF Release, FsmType, fsmVars
  <2>7. CASE HandleRefused(t) \/ HandleEnqueueFails(t) \/ HandleApplied(t)
    BY <2>1, <2>6, <2>7 DEF HandleRefused, HandleEnqueueFails, HandleApplied, Status
  <2>8. CASE HandleLost(t)
    BY <2>1, <2>6, <2>8 DEF HandleLost, Status, Anomaly
  <2> QED
    BY <2>2, <2>3, <2>4, <2>5, <2>7, <2>8 DEF Handler
\* Apply keeps the types: the entry it handles is a committed one.
<1>TypeFsm. ASSUME TypeOK, FsmInv, NEW n \in Node, Fsm(n)
      PROVE  TypeOK'
  <2> USE <1>TypeFsm
  <2> USE DEF TypeOK
  <2>1. ASSUME ApplyReturns(n), lastApplied[n] < Len(committed)
        PROVE  /\ NextEntry(n) \in Txn
               /\ RaftType' /\ LogType' /\ GateType' /\ HandlerType'
               /\ fsm' \in [Node -> FsmPc] /\ lastApplied' \in [Node -> Nat]
               /\ UNCHANGED <<wpc, wid, attempt, base, baseIndex, outcome, wlock>>
    <3>1. NextEntry(n) \in Txn
      BY <2>1, SMTT(60) DEF NextEntry, LogType, FsmType
    <3>2. LogType'
      BY <2>1, <3>1 DEF ApplyReturns, LogType, Future, raftVars
    <3>3. fsm' \in [Node -> FsmPc] /\ lastApplied' \in [Node -> Nat]
      BY <2>1, SMTT(60) DEF ApplyReturns, FsmType, FsmPc
    <3> QED
      BY <2>1, <3>1, <3>2, <3>3
      DEF ApplyReturns, RaftType, GateType, HandlerType, raftVars, gateVars
  <2>2. CASE ConsumeMarker(n)
    <3>1. lastApplied[n] < Len(committed)
      BY <2>2, SMTT(60) DEF ConsumeMarker, CanApply, Known, FsmInv, FsmIndex, RaftType, LogType, FsmType
    <3>2. WriterType' /\ FsmType'
      BY <2>1, <2>2, <3>1 DEF ConsumeMarker, WriterType, FsmType
    <3> QED
      BY <2>1, <2>2, <3>1, <3>2 DEF ConsumeMarker
  <2>3. CASE StartApply(n) \/ BeginLoanAppend(n)
    <3>1. fsm' \in [Node -> FsmPc] /\ anomaly' \in SUBSET Anomaly
      BY <2>3 DEF StartApply, BeginLoanAppend, FsmType, FsmPc, Anomaly
    <3>2. RaftType' /\ LogType' /\ GateType'
      BY <2>3 DEF StartApply, BeginLoanAppend, RaftType, LogType, GateType,
         raftVars, gateVars
    <3>3. WriterType' /\ HandlerType'
      BY <2>3 DEF StartApply, BeginLoanAppend, WriterType, HandlerType, writerVars
    <3>4. FsmType'
      BY <2>3, <3>1 DEF StartApply, BeginLoanAppend, FsmType
    <3> QED
      BY <3>1, <3>2, <3>3, <3>4
  <2>4. CASE AppendOwnLock(n) \/ EndLoanAppend(n)
    <3>1. lastApplied[n] < Len(committed) /\ Materialize(n)
      BY <2>4 DEF AppendOwnLock, EndLoanAppend, FsmInv, FsmIndex, Applying
    <3>2. ApplyReturns(n)
      BY <3>1 DEF Materialize
    <3>3. db' \in [Node -> Seq(Txn)]
      BY <2>1, <3>1, <3>2, SMTT(60) DEF Materialize, FsmType
    <3>4. WriterType' /\ FsmType'
      BY <2>1, <3>1, <3>2, <3>3 DEF Materialize, WriterType, FsmType
    <3> QED
      BY <2>1, <3>1, <3>2, <3>4 DEF Materialize
  <2> QED
    BY <2>2, <2>3, <2>4 DEF Fsm
<1>1. ASSUME TypeOK, LockInv, LogInv, FsmInv, Next PROVE TypeOK'
  BY <1>1, <1>TypeRaft, <1>TypeLeadership, <1>TypeWriter, <1>TypeHandler, <1>TypeFsm DEF Next, LockInv, LogInv
<1>2. ASSUME TypeOK, UNCHANGED vars PROVE TypeOK'
  BY <1>2 DEF vars, raftVars, gateVars, writerVars, fsmVars, TypeOK, RaftType, LogType, GateType,
              WriterType, HandlerType, FsmType
<1> QED
  BY <1>1, <1>2

-----------------------------------------------------------------------------
\* LockInv: the write lock.

lockVars == <<wlock, wpc, wid, outcome, marker, hpc, at>>

\* Every step keeps the discipline of the write lock.
LEMMA LockNext ==
  TypeOK /\ LockInv /\ CallInv /\ [Next]_vars => LockInv'
PROOF
\* LockInv speaks of these variables only.
<1>LockFrame. ASSUME LockInv, UNCHANGED lockVars
      PROVE  LockInv'
  BY <1>LockFrame, SMTT(60) DEF LockInv, WriterLock, OneWriter, HandlerLock, OneHandler, lockVars
\* Raft, watchLeadership and drain do not touch the write lock.
<1>LockRaft. ASSUME LockInv, NEW n \in Node, Raft(n) \/ Leadership(n)
      PROVE  LockInv'
  <2> USE <1>LockRaft
  <2>1. UNCHANGED lockVars
    BY DEF Raft, Elect, StepDown, LeaveLeader, CommitNoop, CommitNext, CommitTail,
           Leadership, WatchLeadership, BarrierPassed, DrainDone, DrainReturn,
           writerVars, lockVars
  <2> QED
    BY <2>1, <1>LockFrame
\* A writer begins only when the lock is free, and then has it.
<1>LockBegin. ASSUME TypeOK, LockInv, NEW n \in Node, NEW t \in Txn, BeginWrite(n, t)
      PROVE  LockInv'
  <2> USE <1>LockBegin
  <2> USE DEF LockInv, TypeOK, WriterType, HandlerType, FsmType, BeginWrite
  <2>1. WriterLock'
    BY SMTT(60) DEF WriterLock, OneWriter
  <2>2. OneWriter'
    BY SMTT(60) DEF WriterLock, OneWriter
  <2>3. HandlerLock'
    BY SMTT(60) DEF HandlerLock
  <2>4. OneHandler'
    BY DEF OneHandler
  <2> QED
    BY <2>1, <2>2, <2>3, <2>4
\* Every end of a write: by then hpc of the transaction may still be running.
<1>LockEnd. ASSUME TypeOK, LockInv, NEW n \in Node, wpc[n] # "idle",
             NEW result \in {"ok", "safe", "ambiguous"}, EndWrite(n, result)
      PROVE  LockInv'
  <2> USE <1>LockEnd
  <2> USE DEF LockInv, TypeOK, WriterType, HandlerType, FsmType, EndWrite
  <2>1. WriterLock'
    BY ConstAssumption, SMTT(60) DEF WriterLock, OneWriter
  <2>2. OneWriter'
    BY SMTT(60) DEF WriterLock, OneWriter
  <2>3. HandlerLock'
    BY SMTT(60) DEF WriterLock, HandlerLock, Forget, Status, Running, Held
  <2>4. OneHandler'
    BY SMTT(60) DEF WriterLock, OneHandler, Forget, Status, Running, Held
  <2> QED
    BY <2>1, <2>2, <2>3, <2>4
\* ProposeTransaction keeps the lock until it returns.
<1>LockWriter. ASSUME TypeOK, LockInv, CallInv, NEW n \in Node, Writer(n)
      PROVE  LockInv'
  <2> USE <1>LockWriter
  <2> USE DEF LockInv, TypeOK, WriterType, HandlerType, FsmType
  <2>1. CASE \/ RejectLocal(n) \/ EnqueueLocalFails(n) \/ ApplyLost(n) \/ Publish(n)
             \/ ForwardRejected(n) \/ AwaitFails(n)
    BY <2>1, <1>LockEnd DEF RejectLocal, EnqueueLocalFails, ApplyLost, Publish,
                         ForwardRejected, AwaitFails, Abort
  <2>2. CASE ProposeLocal(n) \/ AwaitTimeout(n)
    <3>1. WriterLock'
      <4>1. CASE ProposeLocal(n)
        BY <4>1, SMTT(60) DEF ProposeLocal, WriterLock
      <4>2. CASE AwaitTimeout(n)
        BY <4>2, SMTT(60) DEF AwaitTimeout, WriterLock
      <4> QED
        BY <2>2, <4>1, <4>2
    <3> QED
      BY <2>2, <3>1, SMTT(60) DEF ProposeLocal, AwaitTimeout, OneWriter, HandlerLock, OneHandler
  <2>3. CASE EnqueueLocal(n)
    <3>1. wid[n] \in Txn /\ hpc[wid[n]] = "none" /\ wpc[n] = "enqueue"
      BY <2>3 DEF EnqueueLocal, WriterLock, CallInv
    <3>2. WriterLock' /\ OneWriter'
      BY <2>3, <3>1, SMTT(60) DEF EnqueueLocal, WriterLock, OneWriter
    <3>3. HandlerLock' /\ OneHandler'
      BY <2>3, <3>1
      DEF EnqueueLocal, Accept, HandlerLock, OneHandler, Running, Held
    <3> QED
      BY <3>2, <3>3
  <2>4. ASSUME NEW l \in Node, Forward(n, l) \/ Redirect(n, l)
        PROVE  LockInv'
    <3>1. wid[n] \in Txn /\ Send(n, l)
      BY <2>4 DEF Forward, Redirect, WriterLock
    <3>2. WriterLock' /\ OneWriter'
      <4>1. CASE Forward(n, l)
        BY <4>1, SMTT(60) DEF Forward, WriterLock, OneWriter
      <4>2. CASE Redirect(n, l)
        BY <4>2, SMTT(60) DEF Redirect, WriterLock, OneWriter
      <4> QED
        BY <2>4, <4>1, <4>2
    <3>3. HandlerLock' /\ OneHandler' /\ UNCHANGED wlock
      BY <2>4, <3>1, SMTT(60)
      DEF Forward, Redirect, Send, HandlerLock, OneHandler, Running, Held
    <3> QED
      BY <3>2, <3>3
  <2>5. CASE AwaitFSMApplied(n)
    <3>1. wid[n] \in Txn
      BY <2>5 DEF AwaitFSMApplied, WriterLock
    <3>2. WriterLock' /\ OneWriter'
      BY <2>5, SMTT(60) DEF AwaitFSMApplied, WriterLock, OneWriter
    <3>3. HandlerLock'
      BY <2>5, <3>1, SMTT(60) DEF AwaitFSMApplied, Forget, HandlerLock, Running, Held, Status
    <3>4. OneHandler'
      BY <2>5, <3>1, SMTT(60) DEF AwaitFSMApplied, Forget, OneHandler, Running, Held, Status
    <3> QED
      BY <3>2, <3>3, <3>4
  <2> QED
    BY <2>1, <2>2, <2>3, <2>4, <2>5 DEF Writer
\* handleRequest has the lock from BeginHeldApply to its release.
<1>LockHandler. ASSUME TypeOK, LockInv, NEW t \in Txn, Handler(t)
      PROVE  LockInv'
  <2> USE <1>LockHandler
  <2> USE DEF LockInv, TypeOK, WriterType, HandlerType, FsmType
  <2>1. CASE HandleNotLeader(t) \/ HandleBusy(t) \/ HandleStale(t)
    <3>1. PICK status \in Status : Respond(t, status) /\ UNCHANGED wlock
      BY <2>1 DEF HandleNotLeader, HandleBusy, HandleStale, Status
    <3>2. WriterLock' /\ OneWriter'
      BY <3>1, SMTT(60) DEF Respond, WriterLock, OneWriter, writerVars
    <3>3. HandlerLock' /\ OneHandler'
      BY <3>1 DEF Respond, HandlerLock, OneHandler, Running, Held, Status
    <3> QED
      BY <3>2, <3>3
  <2>2. CASE HandleRequest(t) \/ HandlePropose(t) \/ HandleEnqueue(t)
    <3>1. WriterLock' /\ OneWriter'
      BY <2>2, SMTT(60) DEF HandleRequest, HandlePropose, HandleEnqueue, WriterLock, OneWriter,
                  writerVars
    <3>2. UNCHANGED at
      BY <2>2 DEF HandleRequest, HandlePropose, HandleEnqueue, Accept
    <3>3. HandlerLock' /\ OneHandler'
      <4>1. CASE HandleRequest(t)
        BY <3>2, <4>1, SMTT(60) DEF HandleRequest, HandlerLock, OneHandler, Running, Held
      <4>2. CASE HandlePropose(t)
        BY <3>2, <4>2, SMTT(60) DEF HandlePropose, HandlerLock, OneHandler, Running, Held
      <4>3. CASE HandleEnqueue(t)
        BY <3>2, <4>3, SMTT(60) DEF HandleEnqueue, HandlerLock, OneHandler, Running, Held
      <4> QED
        BY <2>2, <4>1, <4>2, <4>3
    <3> QED
      BY <3>1, <3>3
  <2>3. CASE HandleLocked(t)
    <3>1. at[t] \in Node
      BY <2>3 DEF HandleLocked, HandlerLock, Running
    <3>2. WriterLock' /\ OneWriter'
      BY <2>3, <3>1 DEF HandleLocked, WriterLock, OneWriter, writerVars
    <3>3. HandlerLock' /\ OneHandler'
      BY <2>3, <3>1, SMTT(60) DEF HandleLocked, HandlerLock, OneHandler, Running, Held
    <3> QED
      BY <3>2, <3>3
  <2>4. CASE \/ HandleRefused(t) \/ HandleEnqueueFails(t) \/ HandleApplied(t)
             \/ HandleLost(t)
    <3>1. PICK status \in Status : Respond(t, status)
      BY <2>4 DEF HandleRefused, HandleEnqueueFails, HandleApplied, HandleLost, Status
    <3>2. hpc[t] \in Held /\ Release(t)
      BY <2>4 DEF HandleRefused, HandleEnqueueFails, HandleApplied, HandleLost, Held
    <3>3. at[t] \in Node /\ wlock[at[t]] = "handler"
      BY <3>2 DEF HandlerLock, Running, Held
    <3>4. WriterLock' /\ OneWriter'
      BY <3>1, <3>2, <3>3, SMTT(60) DEF Respond, Release, WriterLock, OneWriter, writerVars
    <3>5. HandlerLock'
      BY <3>1, <3>2, <3>3, SMTT(60)
      DEF Respond, Release, HandlerLock, OneHandler, Running, Held, Status
    <3>6. OneHandler'
      BY <3>1, <3>2, <3>3 DEF Respond, OneHandler, Running, Held, Status
    <3> QED
      BY <3>4, <3>5, <3>6
  <2> QED
    BY <2>1, <2>2, <2>3, <2>4 DEF Handler
\* Apply consumes a marker only of a writer in its transaction.
<1>LockFsm. ASSUME TypeOK, LockInv, NEW n \in Node, Fsm(n)
      PROVE  LockInv'
  <2> USE <1>LockFsm
  <2>1. CASE ConsumeMarker(n)
    BY <2>1, SMTT(60) DEF LockInv, TypeOK, WriterType, ConsumeMarker, OwnPending, ApplyReturns,
                WriterLock, OneWriter, HandlerLock, OneHandler
  <2>2. CASE StartApply(n) \/ AppendOwnLock(n) \/ BeginLoanAppend(n) \/ EndLoanAppend(n)
    <3>1. UNCHANGED lockVars
      BY <2>2 DEF StartApply, AppendOwnLock, BeginLoanAppend, EndLoanAppend,
                  Materialize, ApplyReturns, writerVars, lockVars
    <3> QED
      BY <3>1, <1>LockFrame
  <2> QED
    BY <2>1, <2>2 DEF Fsm
<1>1. ASSUME TypeOK, LockInv, CallInv, Next PROVE LockInv'
  BY <1>1, <1>LockRaft, <1>LockBegin, <1>LockWriter, <1>LockHandler, <1>LockFsm DEF Next
<1>2. ASSUME LockInv, UNCHANGED vars PROVE LockInv'
  BY <1>2, <1>LockFrame DEF vars, raftVars, gateVars, writerVars, fsmVars, lockVars
<1> QED
  BY <1>1, <1>2

-----------------------------------------------------------------------------
\* CallInv: the life of a call.

callVars == <<outcome, hpc, wpc, wid, at>>

\* Apply creates no future.
LEMMA FutureFsm ==
  ASSUME TypeOK, NEW n \in Node, ApplyReturns(n)
  PROVE  \A t \in Txn : future[t] = "none" <=> future'[t] = "none"
  BY DEF TypeOK, LogType, ApplyReturns

\* Every step keeps what CallInv says of the calls.
LEMMA CallNext ==
  TypeOK /\ LockInv /\ CallInv /\ [Next]_vars => CallInv'
PROOF
\* CallInv speaks of these variables only, and of which futures exist.
<1>CallFrame. ASSUME TypeOK, LockInv, CallInv, UNCHANGED callVars,
             \A t \in Txn : future[t] = "none" => future'[t] = "none"
      PROVE  CallInv'
  BY <1>CallFrame DEF TypeOK, WriterType, LockInv, WriterLock, CallInv, callVars
\* An accepted proposal stays accepted, whatever becomes of its future.
<1>FutureRaft. ASSUME TypeOK, NEW n \in Node, Raft(n)
      PROVE  \A t \in Txn : future[t] = "none" <=> future'[t] = "none"
  BY <1>FutureRaft DEF TypeOK, LogType, Raft, Elect, StepDown, LeaveLeader, CommitNoop, CommitNext,
         CommitTail
\* Raft and the drain do not change the life of a call.
<1>CallRaft. ASSUME TypeOK, LockInv, CallInv, NEW n \in Node, Raft(n) \/ Leadership(n)
      PROVE  CallInv'
  <2> USE <1>CallRaft
  <2>1. UNCHANGED callVars
    BY DEF Raft, Elect, StepDown, LeaveLeader, CommitNoop, CommitNext, CommitTail,
           Leadership, WatchLeadership, BarrierPassed, DrainDone, DrainReturn,
           writerVars, callVars
  <2>2. Leadership(n) => UNCHANGED future
    BY DEF Leadership, WatchLeadership, BarrierPassed, DrainDone, DrainReturn
  <2> QED
    BY <2>1, <2>2, <1>FutureRaft, <1>CallFrame
\* Apply does not change the life of a call.
<1>CallFsm. ASSUME TypeOK, LockInv, CallInv, NEW n \in Node, Fsm(n)
      PROVE  CallInv'
  <2> USE <1>CallFsm
  <2>1. UNCHANGED callVars
    BY DEF Fsm, ConsumeMarker, StartApply, AppendOwnLock, BeginLoanAppend,
           EndLoanAppend, Materialize, ApplyReturns, writerVars, callVars
  <2>2. UNCHANGED future \/ ApplyReturns(n)
    BY DEF Fsm, ConsumeMarker, StartApply, AppendOwnLock, BeginLoanAppend,
           EndLoanAppend, Materialize
  <2> QED
    BY <2>1, <2>2, FutureFsm, <1>CallFrame
\* A writer in a transaction has one that is nobody else's.
<1>OwnTransaction. ASSUME LockInv, NEW n \in Node, wpc[n] # "idle"
      PROVE  wid[n] \in Txn /\ \A m \in Node : wid[m] = wid[n] => m = n
  <2> USE <1>OwnTransaction
  <2>1. wid[n] \in Txn
    BY DEF LockInv, WriterLock
  <2>2. wid[n] # None
    BY <2>1, ConstAssumption
  <2> QED
    BY <2>1, <2>2 DEF LockInv, OneWriter
\* ProposeTransaction reports a write as safe to retry only before raft.Apply
\* has it, and forwards only what it has not proposed.
<1>CallWriter. ASSUME TypeOK, LockInv, CallInv, NEW n \in Node,
             Writer(n) \/ \E t \in Txn : BeginWrite(n, t)
      PROVE  CallInv'
  <2> USE <1>CallWriter
  <2> USE DEF TypeOK, WriterType, HandlerType, LogType, LockInv
  <2>1. ASSUME NEW t \in Txn, BeginWrite(n, t)
        PROVE  CallInv'
    BY <2>1, ConstAssumption, SMTT(60) DEF BeginWrite, WriterLock, CallInv
  <2>2. ASSUME NEW result \in {"ok", "safe", "ambiguous"}, EndWrite(n, result),
               wpc[n] # "idle",
               result = "safe" => /\ future[wid[n]] = "none"
                                  /\ hpc[wid[n]] \in {"none"} \cup Status
        PROVE  CallInv'
    <3>1. wid[n] \in Txn /\ \A m \in Node : wid[m] = wid[n] => m = n
      BY <2>2, <1>OwnTransaction
    <3>2. \A t \in Txn :
            /\ outcome'[t] \in {"new", "safe"} => hpc'[t] = "none" /\ future'[t] = "none"
            /\ hpc'[t] \in Unproposed => future'[t] = "none"
      BY <2>2, <3>1, SMTT(60) DEF EndWrite, Forget, CallInv, Unproposed, Running, Status
    <3>3. \A m \in Node :
            /\ wpc'[m] \in {"begun", "enqueue"} =>
                 hpc'[wid'[m]] = "none" /\ future'[wid'[m]] = "none"
            /\ wpc'[m] = "apply" => hpc'[wid'[m]] = "none" /\ at'[wid'[m]] = m
      BY <2>2, <3>1, SMTT(60) DEF EndWrite, Forget, CallInv, WriterLock, Running, Status
    <3> QED
      BY <3>2, <3>3 DEF CallInv
  <2>3. CASE RejectLocal(n) \/ EnqueueLocalFails(n)
    BY <2>2, <2>3 DEF RejectLocal, EnqueueLocalFails, Abort, CallInv
  <2>4. CASE ForwardRejected(n)
    BY <2>2, <2>4 DEF ForwardRejected, Abort, CallInv, WriterLock, Unproposed, Status
  <2>5. CASE ApplyLost(n) \/ Publish(n) \/ AwaitFails(n)
    BY <2>2, <2>5 DEF ApplyLost, Publish, AwaitFails, Abort
  <2>6. CASE ProposeLocal(n)
    BY <2>6, SMTT(60) DEF ProposeLocal, CallInv, WriterLock
  <2>7. CASE AwaitTimeout(n)
    BY <2>7, SMTT(60) DEF AwaitTimeout, CallInv, WriterLock
  <2>8. CASE EnqueueLocal(n)
    <3>1. wid[n] \in Txn /\ \A m \in Node : wid[m] = wid[n] => m = n
      BY <2>8, <1>OwnTransaction DEF EnqueueLocal
    <3>2. outcome[wid[n]] = "open" /\ hpc[wid[n]] = "none"
      BY <2>8 DEF EnqueueLocal, WriterLock, CallInv
    <3>3. \A t \in Txn :
            /\ outcome'[t] \in {"new", "safe"} => hpc'[t] = "none" /\ future'[t] = "none"
            /\ hpc'[t] \in Unproposed => future'[t] = "none"
      <4>1. /\ UNCHANGED <<outcome, hpc>>
            /\ \A t \in Txn \ {wid[n]} : future'[t] = future[t]
        BY <2>8 DEF EnqueueLocal, Accept
      <4> QED
        BY <3>1, <3>2, <4>1 DEF CallInv, Unproposed
    <3>4. \A m \in Node :
            /\ wpc'[m] \in {"begun", "enqueue"} =>
                 hpc'[wid'[m]] = "none" /\ future'[wid'[m]] = "none"
            /\ wpc'[m] = "apply" => hpc'[wid'[m]] = "none" /\ at'[wid'[m]] = m
      BY <2>8, <3>1, <3>2, SMTT(60) DEF EnqueueLocal, Accept, CallInv, WriterLock
    <3> QED
      BY <3>3, <3>4 DEF CallInv
  <2>9. ASSUME NEW l \in Node, Forward(n, l) \/ Redirect(n, l)
        PROVE  CallInv'
    <3>1. wid[n] \in Txn /\ \A m \in Node : wid[m] = wid[n] => m = n
      BY <2>9, <1>OwnTransaction DEF Forward, Redirect
    <3>2. outcome[wid[n]] = "open" /\ future[wid[n]] = "none"
      BY <2>9 DEF Forward, Redirect, WriterLock, CallInv, Unproposed
    <3>3. Send(n, l) /\ wpc'[n] = "forward" /\ UNCHANGED <<outcome, future, wid>>
      BY <2>9 DEF Forward, Redirect
    <3>4. \A m \in Node \ {n} : wpc'[m] = wpc[m]
      BY <2>9 DEF Forward, Redirect
    <3> QED
      BY <3>1, <3>2, <3>3, <3>4, SMTT(60) DEF Send, CallInv, WriterLock, Unproposed
  <2>10. CASE AwaitFSMApplied(n)
    <3>1. wid[n] \in Txn /\ \A m \in Node : wid[m] = wid[n] => m = n
      BY <2>10, <1>OwnTransaction DEF AwaitFSMApplied
    <3> QED
      BY <2>10, <3>1, SMTT(60) DEF AwaitFSMApplied, Forget, CallInv, WriterLock, Unproposed,
                         Running, Status
  <2> QED
    BY <2>1, <2>3, <2>4, <2>5, <2>6, <2>7, <2>8, <2>9, <2>10 DEF Writer
\* handleRequest answers with a refusal only before raft.Apply has the entry.
<1>CallHandler. ASSUME TypeOK, LockInv, CallInv, NEW t \in Txn, Handler(t)
      PROVE  CallInv'
  <2> USE <1>CallHandler
  <2>1. /\ hpc[t] \in Running
        /\ UNCHANGED <<outcome, wpc, wid>>
        /\ \A u \in Txn \ {t} : hpc'[u] = hpc[u] /\ at'[u] = at[u] /\ future'[u] = future[u]
    <3>1. hpc[t] \in Running
      BY DEF Handler, HandleNotLeader, HandleRequest, HandleBusy, HandleStale,
             HandleLocked, HandlePropose, HandleRefused, HandleEnqueue,
             HandleEnqueueFails, HandleApplied, HandleLost, Running
    <3>2. UNCHANGED <<outcome, wpc, wid>>
      BY DEF Handler, HandleNotLeader, HandleRequest, HandleBusy, HandleStale,
             HandleLocked, HandlePropose, HandleRefused, HandleEnqueue,
             HandleEnqueueFails, HandleApplied, HandleLost, Respond, Accept, writerVars
    <3>3. ASSUME NEW u \in Txn \ {t}
          PROVE  hpc'[u] = hpc[u] /\ at'[u] = at[u]
      <4>1. CASE \/ HandleRequest(t) \/ HandleLocked(t) \/ HandlePropose(t)
                 \/ HandleEnqueue(t)
        BY <4>1 DEF TypeOK, HandlerType, HandleRequest, HandleLocked,
                    HandlePropose, HandleEnqueue, Accept
      <4>2. CASE \E status \in Status : Respond(t, status)
        BY <4>2 DEF TypeOK, HandlerType, Respond
      <4> QED
        BY <4>1, <4>2 DEF Handler, HandleNotLeader, HandleBusy, HandleStale,
             HandleRefused, HandleEnqueueFails, HandleApplied, HandleLost, Status
    <3>4. ASSUME NEW u \in Txn \ {t} PROVE future'[u] = future[u]
      BY DEF TypeOK, LogType, Handler, HandleNotLeader, HandleRequest, HandleBusy, HandleStale,
             HandleLocked, HandlePropose, HandleRefused, HandleEnqueue,
             HandleEnqueueFails, HandleApplied, HandleLost, Respond, Accept
    <3> QED
      BY <3>1, <3>2, <3>3, <3>4
  <2>2. hpc'[t] \in Unproposed => future'[t] = "none"
    <3>1. CASE HandleEnqueue(t)
      BY <3>1 DEF TypeOK, HandlerType, HandleEnqueue, Unproposed
    <3>2. CASE HandleApplied(t) \/ HandleLost(t)
      BY <3>2 DEF TypeOK, HandlerType, HandleApplied, HandleLost, Respond, Unproposed
    <3>3. CASE \/ HandleNotLeader(t) \/ HandleRequest(t) \/ HandleBusy(t)
               \/ HandleStale(t) \/ HandleLocked(t) \/ HandlePropose(t)
               \/ HandleRefused(t) \/ HandleEnqueueFails(t)
      <4>1. hpc[t] \in Unproposed /\ UNCHANGED future
        BY <3>3 DEF HandleNotLeader, HandleRequest, HandleBusy, HandleStale,
           HandleLocked, HandlePropose, HandleRefused, HandleEnqueueFails, Respond,
           Unproposed
      <4> QED
        BY <4>1 DEF CallInv
    <3> QED
      BY <3>1, <3>2, <3>3 DEF Handler
  <2>3. outcome[t] \notin {"new", "safe"}
    BY <2>1 DEF CallInv, Running
  <2>4. \A m \in Node : wpc[m] \in {"begun", "enqueue", "apply"} => wid[m] # t
    BY <2>1 DEF CallInv, Running
  <2>5. ASSUME NEW u \in Txn
        PROVE  /\ outcome'[u] \in {"new", "safe"} => hpc'[u] = "none" /\ future'[u] = "none"
               /\ hpc'[u] \in Unproposed => future'[u] = "none"
    BY <2>1, <2>2, <2>3 DEF CallInv
  <2>6. ASSUME NEW m \in Node
        PROVE  /\ wpc'[m] \in {"begun", "enqueue"} =>
                    hpc'[wid'[m]] = "none" /\ future'[wid'[m]] = "none"
               /\ wpc'[m] = "apply" => hpc'[wid'[m]] = "none" /\ at'[wid'[m]] = m
    <3>1. wpc[m] \in {"begun", "enqueue", "apply"} => wid[m] \in Txn \ {t}
      BY <2>4 DEF LockInv, WriterLock
    <3>2. /\ wpc[m] \in {"begun", "enqueue"} => hpc[wid[m]] = "none" /\ future[wid[m]] = "none"
          /\ wpc[m] = "apply" => hpc[wid[m]] = "none" /\ at[wid[m]] = m
      BY DEF CallInv
    <3> QED
      BY <2>1, <3>1, <3>2
  <2> QED
    BY <2>5, <2>6 DEF CallInv
<1>1. ASSUME TypeOK, LockInv, CallInv, Next PROVE CallInv'
  BY <1>1, <1>CallRaft, <1>CallWriter, <1>CallHandler, <1>CallFsm DEF Next
<1>2. ASSUME TypeOK, LockInv, CallInv, UNCHANGED vars PROVE CallInv'
  BY <1>2, <1>CallFrame DEF vars, raftVars, gateVars, writerVars, fsmVars, callVars
<1> QED
  BY <1>1, <1>2

-----------------------------------------------------------------------------
\* LogInv: what is in the logs.

logVars == <<committed, tail, live, current, role, inherited>>

\* Everything in a log is a transaction.
LEMMA EntryTypes ==
  ASSUME TypeOK
  PROVE  /\ \A i \in 1..Len(committed) : committed[i] \in Txn
         /\ \A m \in Node : \A i \in 1..Len(tail[m]) : tail[m][i] \in Txn
PROOF
  <1>1. committed \in Seq(Txn) /\ \A m \in Node : tail[m] \in Seq(Txn)
    BY DEF TypeOK, LogType
  <1>2. ASSUME NEW s \in Seq(Txn), NEW i \in 1..Len(s) PROVE s[i] \in Txn
    BY SMTT(60)
  <1> QED
    BY <1>1, <1>2

\* What a commit moves where.
CommitResult(n, k) ==
  /\ committed' \in Seq(Txn)
  /\ Len(committed') = Len(committed) + k
  /\ \A i \in 1..Len(committed) : committed'[i] = committed[i]
  /\ \A i \in 1..k : committed'[Len(committed) + i] = tail[n][i]
  /\ tail'[n] \in Seq(Txn)
  /\ Len(tail'[n]) = Len(tail[n]) - k
  /\ \A i \in 1..Len(tail'[n]) : tail'[n][i] = tail[n][k + i]
  /\ \A m \in Node \ {n} : tail'[m] = <<>>

\* What committing k entries of a tail does, element by element.
LEMMA CommitEffect ==
  ASSUME TypeOK, NEW n \in Node, NEW k \in 0..Len(tail[n]), CommitTail(n, k)
  PROVE  CommitResult(n, k)
PROOF
  <1>1. tail[n] \in Seq(Txn) /\ committed \in Seq(Txn)
    BY DEF TypeOK, LogType
  <1>2. /\ SubSeq(tail[n], 1, k) \in Seq(Txn)
        /\ Len(SubSeq(tail[n], 1, k)) = k
        /\ \A i \in 1..k : SubSeq(tail[n], 1, k)[i] = tail[n][i]
    BY <1>1, SubSeqTail, SMTT(60)
  <1>3. /\ SubSeq(tail[n], k + 1, Len(tail[n])) \in Seq(Txn)
        /\ Len(SubSeq(tail[n], k + 1, Len(tail[n]))) = Len(tail[n]) - k
        /\ \A i \in 1..Len(tail[n]) - k :
             SubSeq(tail[n], k + 1, Len(tail[n]))[i] = tail[n][k + i]
    BY <1>1, SubSeqTail, SMTT(60)
  <1>4. committed' = committed \o SubSeq(tail[n], 1, k)
    BY DEF CommitTail
  <1>5. /\ tail'[n] = SubSeq(tail[n], k + 1, Len(tail[n]))
        /\ \A m \in Node \ {n} : tail'[m] = <<>>
    BY DEF TypeOK, LogType, CommitTail
  <1>6. /\ committed' \in Seq(Txn)
        /\ Len(committed') = Len(committed) + k
        /\ \A i \in 1..Len(committed) : committed'[i] = committed[i]
        /\ \A i \in 1..k : committed'[Len(committed) + i] = tail[n][i]
    BY <1>1, <1>2, <1>4, ConcatElements, SMTT(60)
  <1> QED
    BY <1>3, <1>5, <1>6 DEF CommitResult

\* Every step keeps what LogInv says of the logs.
LEMMA LogNext ==
  TypeOK /\ LockInv /\ CallInv /\ LogInv /\ [Next]_vars => LogInv'
PROOF
\* What was accepted stays accepted while the logs do not change.
<1>AcceptedFrame. ASSUME TypeOK, LogAccepted, UNCHANGED <<committed, tail>>,
             \A t \in Txn : future[t] # "none" => future'[t] # "none"
      PROVE  LogAccepted'
  <2> USE <1>AcceptedFrame
  <2>1. \A i \in 1..Len(committed) : future'[committed[i]] # "none"
    BY EntryTypes DEF LogAccepted
  <2>2. \A m \in Node : \A i \in 1..Len(tail[m]) : future'[tail[m][i]] # "none"
    BY EntryTypes DEF LogAccepted
  <2> QED
    BY <2>1, <2>2 DEF LogAccepted
\* So does what is in them once.
<1>OnceFrame. ASSUME LogOnce, UNCHANGED <<committed, tail>>
      PROVE  LogOnce'
  <2> USE <1>OnceFrame
  <2> DEFINE Once(c, t) ==
        /\ \A i, j \in 1..Len(c) : c[i] = c[j] => i = j
        /\ \A m \in Node : \A i, j \in 1..Len(t[m]) : t[m][i] = t[m][j] => i = j
        /\ \A m \in Node : \A i \in 1..Len(t[m]), j \in 1..Len(c) : t[m][i] # c[j]
  <2>1. LogOnce = Once(committed, tail)
    BY DEF LogOnce, CommittedOnce
  <2>2. LogOnce' = Once(committed', tail')
    BY DEF LogOnce, CommittedOnce
  <2> HIDE DEF Once
  <2> QED
    BY <2>1, <2>2
\* LogInv speaks of these variables only, and of which futures exist.
<1>LogFrame. ASSUME TypeOK, LogInv, UNCHANGED logVars,
             \A t \in Txn : future[t] # "none" => future'[t] # "none"
      PROVE  LogInv'
  <2> USE <1>LogFrame
  <2>1. LogAccepted'
    BY <1>AcceptedFrame DEF LogInv, logVars
  <2>2. UNCHANGED <<committed, tail, live, current, role, inherited>>
    BY DEF logVars
  <2>3. LogOnce'
    <3>1. committed' = committed /\ tail' = tail
      BY <2>2
    <3>2. LogOnce
      BY DEF LogInv
    <3>3. CommittedOnce'
      BY <3>1, <3>2, SMTT(60) DEF LogOnce, CommittedOnce
    <3> QED
      BY <3>1, <3>2, <3>3, SMTT(60) DEF LogOnce
  <2>4. LogShape'
    BY <2>2 DEF LogInv, LogShape, IsLeader
  <2> QED
    BY <2>1, <2>3, <2>4 DEF LogInv
\* LogOnce after a step that changes the tail of n only.
<1>OnceLocal. ASSUME NEW n \in Node, CommittedOnce', UNCHANGED committed,
             \A i, j \in 1..Len(tail'[n]) : tail'[n][i] = tail'[n][j] => i = j,
             \A i \in 1..Len(tail'[n]), j \in 1..Len(committed) : tail'[n][i] # committed[j],
             LogOnce, \A m \in Node \ {n} : tail'[m] = tail[m]
      PROVE  LogOnce'
  <2> USE <1>OnceLocal
  <2>1. ASSUME NEW m \in Node
        PROVE  /\ \A i, j \in 1..Len(tail'[m]) : tail'[m][i] = tail'[m][j] => i = j
               /\ \A i \in 1..Len(tail'[m]), j \in 1..Len(committed') :
                    tail'[m][i] # committed'[j]
    <3>1. CASE m = n
      BY <3>1
    <3>2. CASE m # n
      <4>1. tail'[m] = tail[m] /\ committed' = committed
        BY <3>2
      <4>2. ASSUME NEW i \in 1..Len(tail'[m]), NEW j \in 1..Len(tail'[m]),
                   tail'[m][i] = tail'[m][j]
            PROVE  i = j
        BY <4>1, <4>2 DEF LogOnce
      <4>3. ASSUME NEW i \in 1..Len(tail'[m]), NEW j \in 1..Len(committed')
            PROVE  tail'[m][i] # committed'[j]
        <5>1. i \in 1..Len(tail[m]) /\ j \in 1..Len(committed)
          BY <4>1, <4>3
        <5>2. tail[m][i] # committed[j]
          BY <5>1 DEF LogOnce
        <5> QED
          BY <4>1, <5>2
      <4> QED
        BY <4>2, <4>3
    <3> QED
      BY <3>1, <3>2
  <2> QED
    BY <2>1 DEF LogOnce
\* A new leader's tail is a prefix of one that kept LogInv.
<1>LogElect. ASSUME TypeOK, LogInv, NEW n \in Node, Elect(n)
      PROVE  LogInv'
  <2> USE <1>LogElect
  <2>1. PICK m \in live \cup {n} : \E k \in 0..Len(tail[m]) :
          /\ tail' = [tail EXCEPT ![n] = SubSeq(tail[m], 1, k)]
          /\ inherited' = k
    BY DEF Elect
  <2>2. PICK k \in 0..Len(tail[m]) :
          /\ tail' = [tail EXCEPT ![n] = SubSeq(tail[m], 1, k)]
          /\ inherited' = k
    BY <2>1
  <2>3. m \in Node /\ tail[m] \in Seq(Txn)
    BY DEF TypeOK, RaftType, LogType
  <2>4. /\ tail'[n] \in Seq(Txn)
        /\ Len(tail'[n]) = k
        /\ \A i \in 1..k : i \in 1..Len(tail[m]) /\ tail'[n][i] = tail[m][i]
    <3>1. tail'[n] = SubSeq(tail[m], 1, k)
      BY <2>2 DEF TypeOK, LogType
    <3>2. /\ SubSeq(tail[m], 1, k) \in Seq(Txn)
          /\ Len(SubSeq(tail[m], 1, k)) = k
          /\ \A i \in 1..k : SubSeq(tail[m], 1, k)[i] = tail[m][i]
      BY <2>3, SubSeqTail, SMTT(60)
    <3>3. \A i \in 1..k : i \in 1..Len(tail[m])
      BY <2>3, SMTT(60)
    <3> QED
      BY <3>1, <3>2, <3>3
  <2>5. /\ \A l \in Node \ {n} : tail'[l] = tail[l]
        /\ UNCHANGED <<committed, future>>
        /\ live' = live \cup {n} /\ current' = n /\ IsLeader(n)'
    BY <2>2 DEF TypeOK, RaftType, LogType, Elect, IsLeader
  <2>6. LogAccepted'
    <3>1. ASSUME NEW i \in 1..Len(tail'[n]) PROVE future'[tail'[n][i]] # "none"
      <4>1. i \in 1..Len(tail[m]) /\ tail'[n][i] = tail[m][i]
        BY <2>4
      <4>2. future[tail[m][i]] # "none"
        BY <2>3, <4>1 DEF LogInv, LogAccepted
      <4> QED
        BY <2>5, <4>1, <4>2
    <3>2. ASSUME NEW l \in Node \ {n}, NEW i \in 1..Len(tail'[l])
          PROVE  future'[tail'[l][i]] # "none"
      <4>1. tail'[l] = tail[l] /\ future' = future
        BY <2>5
      <4>2. \A j \in 1..Len(tail[l]) : future[tail[l][j]] # "none"
        BY DEF LogInv, LogAccepted
      <4> QED
        BY <4>1, <4>2
    <3>3. \A i \in 1..Len(committed') : future'[committed'[i]] # "none"
      BY <2>5 DEF LogInv, LogAccepted
    <3> QED
      BY <3>1, <3>2, <3>3 DEF LogAccepted
  <2>7. LogOnce'
    <3>1. ASSUME NEW i \in 1..Len(tail'[n]), NEW j \in 1..Len(tail'[n]),
                 tail'[n][i] = tail'[n][j]
          PROVE  i = j
      <4>1. i \in 1..k /\ j \in 1..k
        BY <2>4
      <4> QED
        BY <2>3, <2>4, <3>1, <4>1 DEF LogInv, LogOnce
    <3>2. ASSUME NEW i \in 1..Len(tail'[n]), NEW j \in 1..Len(committed)
          PROVE  tail'[n][i] # committed[j]
      BY <2>3, <2>4, SMTT(60) DEF LogInv, LogOnce
    <3>3. CommittedOnce' /\ UNCHANGED committed /\ LogOnce
      BY <2>5 DEF LogInv, LogOnce, CommittedOnce
    <3> QED
      BY <2>5, <3>1, <3>2, <3>3, <1>OnceLocal
  <2>8. LogShape'
    <3>1. inherited' <= Len(tail'[n])
      BY <2>2, <2>3, <2>4, SMTT(60)
    <3> QED
      BY <2>5, <3>1 DEF LogInv, LogShape
  <2> QED
    BY <2>6, <2>7, <2>8 DEF LogInv
\* Committing moves entries from the leader's tail to the log, none twice.
<1>LogCommit. ASSUME TypeOK, LogInv, NEW n \in Node, NEW k \in 0..Len(tail[n]), current = n,
             CommitTail(n, k)
      PROVE  LogInv'
  <2> USE <1>LogCommit
  <2>1. CommitResult(n, k)
    BY CommitEffect
  <2>2. Len(committed) \in Nat /\ Len(tail[n]) \in Nat /\ k \in Nat /\ k <= Len(tail[n])
    BY SMTT(60) DEF TypeOK, LogType
  <2>3. \A i \in 1..Len(committed') :
          \/ i \in 1..Len(committed) /\ committed'[i] = committed[i]
          \/ \E j \in 1..k : i = Len(committed) + j /\ committed'[i] = tail[n][j]
    <3> TAKE i \in 1..Len(committed')
    <3>1. CASE i > Len(committed)
      <4>1. i - Len(committed) \in 1..k /\ i = Len(committed) + (i - Len(committed))
        BY <2>1, <2>2, <3>1, SMTT(60) DEF CommitResult
      <4> QED
        BY <2>1, <4>1 DEF CommitResult
    <3>2. CASE i <= Len(committed)
      BY <2>1, <2>2, <3>2, SMTT(60) DEF CommitResult
    <3> QED
      BY <2>1, <2>2, <3>1, <3>2, SMTT(60) DEF CommitResult
  <2>4. \A i \in 1..Len(tail'[n]) :
          k + i \in 1..Len(tail[n]) /\ tail'[n][i] = tail[n][k + i]
    <3> TAKE i \in 1..Len(tail'[n])
    <3>1. k + i \in 1..Len(tail[n])
      BY <2>1, <2>2, SMTT(60) DEF CommitResult
    <3> QED
      BY <2>1, <3>1 DEF CommitResult
  <2>5. \A m \in Node \ {n} : tail'[m] = <<>>
    BY <2>1 DEF CommitResult
  <2>6. LogAccepted'
    <3>1. \A t \in Txn : future[t] # "none" => future'[t] # "none"
      BY DEF CommitTail
    <3>2. ASSUME NEW i \in 1..Len(tail[n]) PROVE future'[tail[n][i]] # "none"
      BY <3>1, SMTT(60) DEF TypeOK, LogType, LogInv, LogAccepted
    <3>3. ASSUME NEW i \in 1..Len(committed) PROVE future'[committed[i]] # "none"
      BY <3>1, SMTT(60) DEF TypeOK, LogType, LogInv, LogAccepted
    <3>4. ASSUME NEW i \in 1..Len(committed') PROVE future'[committed'[i]] # "none"
      <4>1. CASE committed'[i] = committed[i] /\ i \in 1..Len(committed)
        BY <3>3, <4>1
      <4>2. CASE \E j \in 1..k : committed'[i] = tail[n][j]
        <5>1. PICK j \in 1..k : committed'[i] = tail[n][j]
          BY <4>2
        <5>2. j \in 1..Len(tail[n])
          BY <2>2, SMTT(60)
        <5> QED
          BY <3>2, <5>1, <5>2
      <4> QED
        BY <2>3, <4>1, <4>2
    <3>5. ASSUME NEW i \in 1..Len(tail'[n]) PROVE future'[tail'[n][i]] # "none"
      BY <2>4, <3>2
    <3> QED
      BY <2>5, <3>4, <3>5, SMTT(60) DEF LogAccepted
  <2>7. CommittedOnce'
    <3> SUFFICES ASSUME NEW i \in 1..Len(committed'), NEW j \in 1..Len(committed'),
                        committed'[i] = committed'[j]
                 PROVE  i = j
      BY DEF CommittedOnce
    <3>1. CASE i \in 1..Len(committed) /\ j \in 1..Len(committed)
      BY <2>1, <3>1, SMTT(60) DEF CommitResult, LogInv, LogOnce, CommittedOnce
    <3>2. CASE i \notin 1..Len(committed)
      <4>1. PICK a \in 1..k : i = Len(committed) + a /\ committed'[i] = tail[n][a]
        BY <2>3, <3>2
      <4>2. CASE j \in 1..Len(committed)
        <5>1. a \in 1..Len(tail[n]) /\ committed'[j] = committed[j]
          BY <2>1, <2>2, <4>2, SMTT(60) DEF CommitResult
        <5> QED
          BY <4>1, <4>2, <5>1 DEF LogInv, LogOnce
      <4>3. CASE j \notin 1..Len(committed)
        <5>1. PICK b \in 1..k : j = Len(committed) + b /\ committed'[j] = tail[n][b]
          BY <2>3, <4>3
        <5>2. a \in 1..Len(tail[n]) /\ b \in 1..Len(tail[n])
          BY <2>2, SMTT(60)
        <5> QED
          BY <4>1, <5>1, <5>2 DEF LogInv, LogOnce
      <4> QED
        BY <4>2, <4>3
    <3>3. CASE j \notin 1..Len(committed) /\ i \in 1..Len(committed)
      <4>1. PICK b \in 1..k : j = Len(committed) + b /\ committed'[j] = tail[n][b]
        BY <2>3, <3>3
      <4>2. b \in 1..Len(tail[n]) /\ committed'[i] = committed[i]
        BY <2>1, <2>2, <3>3, SMTT(60) DEF CommitResult
      <4> QED
        BY <3>3, <4>1, <4>2, SMTT(60) DEF LogInv, LogOnce
    <3> QED
      BY <3>1, <3>2, <3>3
  <2>8. ASSUME NEW i \in 1..Len(tail'[n]), NEW j \in 1..Len(committed')
        PROVE  tail'[n][i] # committed'[j]
    <3>1. k + i \in 1..Len(tail[n]) /\ tail'[n][i] = tail[n][k + i]
      BY <2>4
    <3>2. CASE j \in 1..Len(committed)
      BY <2>1, <3>1, <3>2, SMTT(60) DEF CommitResult, LogInv, LogOnce
    <3>3. CASE j \notin 1..Len(committed)
      <4>1. PICK b \in 1..k : committed'[j] = tail[n][b]
        BY <2>3, <3>3
      <4>2. b \in 1..Len(tail[n]) /\ b # k + i
        BY <2>2, SMTT(60)
      <4> QED
        BY <3>1, <4>1, <4>2 DEF LogInv, LogOnce
    <3> QED
      BY <3>2, <3>3
  <2>9. ASSUME NEW i \in 1..Len(tail'[n]), NEW j \in 1..Len(tail'[n]),
               tail'[n][i] = tail'[n][j]
        PROVE  i = j
    <3>1. /\ k + i \in 1..Len(tail[n]) /\ k + j \in 1..Len(tail[n])
          /\ tail[n][k + i] = tail[n][k + j]
      BY <2>4, <2>9
    <3>2. k + i = k + j
      BY <3>1 DEF LogInv, LogOnce
    <3> QED
      BY <2>2, <3>2, SMTT(60)
  <2>10. LogOnce'
    BY <2>5, <2>7, <2>8, <2>9, SMTT(60) DEF LogOnce
  <2>11. LogShape'
    <3>1. live' = {n} /\ current' = n /\ inherited' = 0 /\ IsLeader(n)'
      BY ConstAssumption DEF CommitTail, LogInv, LogShape, IsLeader
    <3>2. Len(tail'[n]) \in Nat
      BY <2>1, SMTT(60) DEF CommitResult
    <3> QED
      BY <2>5, <3>1, <3>2, SMTT(60) DEF LogShape
  <2> QED
    BY <2>6, <2>10, <2>11 DEF LogInv
\* raft.Apply appends an entry that is in no log yet.
<1>LogAccept. ASSUME TypeOK, LogInv, NEW n \in Node, NEW t \in Txn, future[t] = "none", Accept(n, t)
      PROVE  LogInv'
  <2> USE <1>LogAccept
  <2>1. /\ UNCHANGED <<committed, live, current, role, inherited>>
        /\ future'[t] = "inflight"
        /\ \A u \in Txn : future[u] # "none" => future'[u] # "none"
    BY DEF Accept, TypeOK, LogType
  <2>2. \A m \in Node \ {n} : tail'[m] = tail[m]
    BY DEF Accept, TypeOK, LogType
  <2>3. CASE n \notin live
    <3>1. UNCHANGED tail
      BY <2>3 DEF Accept, TypeOK, LogType
    <3> QED
      BY <2>1, <3>1, <1>LogFrame DEF logVars
  <2>4. CASE n \in live
    <3>1. /\ tail[n] \in Seq(Txn) /\ Len(tail[n]) \in Nat /\ committed \in Seq(Txn)
          /\ tail'[n] = Append(tail[n], t)
      BY <2>4, SMTT(60) DEF Accept, TypeOK, LogType
    <3>2. /\ Len(tail'[n]) = Len(tail[n]) + 1
          /\ \A i \in 1..Len(tail[n]) : tail'[n][i] = tail[n][i]
          /\ tail'[n][Len(tail[n]) + 1] = t
      BY <3>1, AppendElements, SMTT(60)
    <3>3. \A i \in 1..Len(tail'[n]) :
            \/ i \in 1..Len(tail[n]) /\ tail'[n][i] = tail[n][i]
            \/ i = Len(tail[n]) + 1 /\ tail'[n][i] = t
      BY <3>1, <3>2, SMTT(60)
    <3>4. ASSUME NEW i \in 1..Len(tail[n]) PROVE tail[n][i] # t /\ tail[n][i] \in Txn
      BY <3>1, SMTT(60) DEF LogInv, LogAccepted
    <3>5. ASSUME NEW i \in 1..Len(committed)
          PROVE  committed[i] # t /\ committed[i] \in Txn
      BY <3>1, SMTT(60) DEF LogInv, LogAccepted
    <3>6. LogAccepted'
      <4>1. ASSUME NEW i \in 1..Len(tail'[n]) PROVE future'[tail'[n][i]] # "none"
        <5>1. CASE tail'[n][i] = t
          BY <2>1, <5>1
        <5>2. CASE i \in 1..Len(tail[n]) /\ tail'[n][i] = tail[n][i]
          <6>1. future[tail[n][i]] # "none"
            BY <5>2 DEF LogInv, LogAccepted
          <6> QED
            BY <2>1, <3>4, <5>2, <6>1
        <5> QED
          BY <3>3, <5>1, <5>2
      <4>2. ASSUME NEW m \in Node \ {n}, NEW i \in 1..Len(tail'[m])
            PROVE  future'[tail'[m][i]] # "none"
        <5>1. tail[m] \in Seq(Txn) /\ tail'[m] = tail[m]
          BY <2>2 DEF TypeOK, LogType
        <5>2. future[tail[m][i]] # "none" /\ tail[m][i] \in Txn
          BY <5>1, SMTT(60) DEF LogInv, LogAccepted
        <5> QED
          BY <2>1, <5>1, <5>2
      <4>3. ASSUME NEW i \in 1..Len(committed) PROVE future'[committed[i]] # "none"
        BY <2>1, <3>5 DEF LogInv, LogAccepted
      <4> QED
        BY <2>1, <4>1, <4>2, <4>3 DEF LogAccepted
    <3>7. LogOnce'
      <4>1. ASSUME NEW i \in 1..Len(tail'[n]), NEW j \in 1..Len(tail'[n]),
                   tail'[n][i] = tail'[n][j]
            PROVE  i = j
        BY <3>3, <3>4, <4>1 DEF LogInv, LogOnce
      <4>2. ASSUME NEW i \in 1..Len(tail'[n]), NEW j \in 1..Len(committed)
            PROVE  tail'[n][i] # committed[j]
        BY <3>3, <3>5 DEF LogInv, LogOnce
      <4>3. CommittedOnce' /\ UNCHANGED committed /\ LogOnce
        BY <2>1 DEF LogInv, LogOnce, CommittedOnce
      <4> QED
        BY <2>2, <4>1, <4>2, <4>3, <1>OnceLocal
    <3>8. LogShape'
      <4>1. current # None => inherited <= Len(tail'[current])
        BY <2>1, <2>2, <3>1, <3>2, SMTT(60) DEF TypeOK, RaftType, LogType, LogInv, LogShape
      <4> QED
        BY <2>1, <2>2, <2>4, <4>1 DEF LogInv, LogShape, IsLeader
    <3> QED
      BY <3>6, <3>7, <3>8 DEF LogInv
  <2> QED
    BY <2>3, <2>4
\* The steps of raft keep the logs in order.
<1>LogRaft. ASSUME TypeOK, LogInv, NEW n \in Node, Raft(n)
      PROVE  LogInv'
  <2> USE <1>LogRaft
  <2>1. CASE Elect(n)
    BY <2>1, <1>LogElect
  <2>2. CASE StepDown(n)
    <3>1. LogShape'
      BY <2>2 DEF StepDown, LogInv, LogShape, IsLeader, TypeOK, RaftType
    <3>2. UNCHANGED <<committed, tail, future>>
      BY <2>2 DEF StepDown
    <3>3. LogAccepted'
      BY <3>2 DEF LogInv, LogAccepted
    <3>4. LogOnce'
      BY <3>2, <1>OnceFrame DEF LogInv
    <3> QED
      BY <3>1, <3>3, <3>4 DEF LogInv
  <2>3. CASE LeaveLeader(n)
    <3>1. LogShape'
      BY <2>3 DEF LeaveLeader, LogInv, LogShape, IsLeader, TypeOK, RaftType
    <3>2. LogAccepted'
      <4>1. \A t \in Txn : future[t] # "none" => future'[t] # "none"
        BY <2>3 DEF LeaveLeader, TypeOK, LogType
      <4> QED
        BY <2>3, <4>1, <1>AcceptedFrame DEF LeaveLeader, LogInv
    <3>3. UNCHANGED <<committed, tail>>
      BY <2>3 DEF LeaveLeader
    <3>4. LogOnce'
      BY <3>3, <1>OnceFrame DEF LogInv
    <3> QED
      BY <3>1, <3>2, <3>4 DEF LogInv
  <2>4. CASE CommitNoop(n)
    <3>1. inherited \in 0..Len(tail[n])
      BY <2>4, ConstAssumption, SMTT(60)
      DEF LogInv, LogShape, CommitNoop, TypeOK, RaftType, LogType
    <3> QED
      BY <2>4, <3>1, <1>LogCommit DEF CommitNoop
  <2>5. CASE CommitNext(n)
    <3>1. 1 \in 0..Len(tail[n])
      BY <2>5, SMTT(60) DEF CommitNext, TypeOK, LogType
    <3> QED
      BY <2>5, <3>1, <1>LogCommit DEF CommitNext
  <2> QED
    BY <2>1, <2>2, <2>3, <2>4, <2>5 DEF Raft
\* watchLeadership and drain do not touch the logs.
<1>LogLeadership. ASSUME TypeOK, LogInv, NEW n \in Node, Leadership(n)
      PROVE  LogInv'
  <2> USE <1>LogLeadership
  <2>1. UNCHANGED <<logVars, future>>
    BY DEF Leadership, WatchLeadership, BarrierPassed, DrainDone, DrainReturn,
           raftVars, logVars
  <2> QED
    BY <2>1, <1>LogFrame
\* ProposeTransaction appends to a log only through raft.Apply.
<1>LogWriter. ASSUME TypeOK, LockInv, CallInv, LogInv, NEW n \in Node,
             Writer(n) \/ \E t \in Txn : BeginWrite(n, t)
      PROVE  LogInv'
  <2> USE <1>LogWriter
  <2>1. CASE EnqueueLocal(n)
    <3>1. wid[n] \in Txn /\ future[wid[n]] = "none" /\ Accept(n, wid[n])
      BY <2>1 DEF EnqueueLocal, LockInv, WriterLock, CallInv
    <3> QED
      BY <3>1, <1>LogAccept
  <2>2. CASE ~EnqueueLocal(n)
    <3>1. UNCHANGED <<logVars, future>>
      BY <2>2 DEF Writer, BeginWrite, ProposeLocal, RejectLocal, EnqueueLocalFails,
         ApplyLost, Publish, Forward, Redirect, ForwardRejected, AwaitFSMApplied,
         AwaitTimeout, AwaitFails, Abort, EndWrite, raftVars, logVars
    <3> QED
      BY <3>1, <1>LogFrame
  <2> QED
    BY <2>1, <2>2
\* handleRequest appends to a log only through raft.Apply.
<1>LogHandler. ASSUME TypeOK, LockInv, CallInv, LogInv, NEW t \in Txn, Handler(t)
      PROVE  LogInv'
  <2> USE <1>LogHandler
  <2>1. CASE HandleEnqueue(t)
    <3>1. at[t] \in Node /\ future[t] = "none" /\ Accept(at[t], t)
      BY <2>1 DEF HandleEnqueue, LockInv, HandlerLock, CallInv, Running, Unproposed
    <3> QED
      BY <3>1, <1>LogAccept
  <2>2. CASE ~HandleEnqueue(t)
    <3>1. UNCHANGED <<logVars, future>>
      BY <2>2 DEF Handler, HandleNotLeader, HandleRequest, HandleBusy, HandleStale,
         HandleLocked, HandlePropose, HandleRefused, HandleEnqueueFails,
         HandleApplied, HandleLost, Respond, raftVars, logVars
    <3> QED
      BY <3>1, <1>LogFrame
  <2> QED
    BY <2>1, <2>2
\* Apply does not touch the logs.
<1>LogFsm. ASSUME TypeOK, LogInv, NEW n \in Node, Fsm(n)
      PROVE  LogInv'
  <2> USE <1>LogFsm
  <2>1. UNCHANGED logVars
    BY DEF Fsm, ConsumeMarker, StartApply, AppendOwnLock, BeginLoanAppend,
           EndLoanAppend, Materialize, ApplyReturns, raftVars, logVars
  <2>2. UNCHANGED future \/ ApplyReturns(n)
    BY DEF Fsm, ConsumeMarker, StartApply, AppendOwnLock, BeginLoanAppend,
           EndLoanAppend, Materialize
  <2> QED
    BY <2>1, <2>2, FutureFsm, <1>LogFrame
<1>1. ASSUME TypeOK, LockInv, CallInv, LogInv, Next PROVE LogInv'
  BY <1>1, <1>LogRaft, <1>LogLeadership, <1>LogWriter, <1>LogHandler, <1>LogFsm DEF Next
<1>2. ASSUME TypeOK, LogInv, UNCHANGED vars PROVE LogInv'
  BY <1>2, <1>LogFrame DEF vars, raftVars, gateVars, writerVars, fsmVars, logVars
<1> QED
  BY <1>1, <1>2

=============================================================================
