---------------------------- MODULE SafetyProofs ----------------------------
(***************************************************************************)
(* Where the FSMs of Replication are in the log, what markers and futures  *)
(* say of it, loans and replicas; and the safety properties that follow    *)
(* from the inductive invariant.                                           *)
(***************************************************************************)
EXTENDS CallProofs

\* Steps that name no prover are left to Zenon.
USE ZenonT(60)

-----------------------------------------------------------------------------
\* What the FSM steps start from.

\* An entry that Apply is about to handle, or is handling, was accepted.
LEMMA NextAccepted ==
  ASSUME TypeOK, LogInv, FsmInv, NEW n \in Node, CanApply(n) \/ fsm[n] \in Applying
  PROVE  /\ lastApplied[n] + 1 \in 1..Len(committed)
         /\ NextEntry(n) \in Txn
         /\ future[NextEntry(n)] # "none"
PROOF
  <1>1. lastApplied[n] \in Nat /\ Len(committed) \in Nat /\ committed \in Seq(Txn)
    BY SMTT(60) DEF TypeOK, LogType, FsmType
  <1>2. lastApplied[n] < Len(committed)
    BY <1>1, SMTT(60) DEF TypeOK, RaftType, FsmInv, FsmIndex, CanApply, Known
  <1>3. lastApplied[n] + 1 \in 1..Len(committed)
    BY <1>1, <1>2, SMTT(60)
  <1> QED
    BY <1>1, <1>3, SMTT(60) DEF NextEntry, LogInv, LogAccepted

\* Whoever publishes on behalf of the FSM has the lock to itself: the local
\* writer, and with it its marker, is out of the way.
LEMMA NoWriter ==
  ASSUME TypeOK, LockInv, LogInv, FsmInv, LoanInv, Clean, NEW n \in Node,
         AppendOwnLock(n) \/ EndLoanAppend(n)
  PROVE  wpc[n] = "idle" /\ marker[n] = "none"
PROOF
  <1>1. wlock[n] # "writer"
    <2>1. CASE AppendOwnLock(n)
      BY <2>1 DEF AppendOwnLock
    <2>2. CASE EndLoanAppend(n)
      <3>1. NextEntry(n) \in Txn /\ Loaned(n)
        BY <2>2, NextAccepted DEF EndLoanAppend, Applying, LoanInv
      <3> QED
        BY <3>1 DEF Loaned, LockInv, HandlerLock
    <2> QED
      BY <2>1, <2>2
  <1> QED
    BY <1>1 DEF LockInv, WriterLock, TypeOK, WriterType

-----------------------------------------------------------------------------
\* FsmInv: where the FSM is, its markers and its futures.

indexVars == <<lastSeen, lastApplied, fsm, committed>>

\* A step of one node's writer leaves the FSMs and the other writers alone.
LEMMA WriterFrame ==
  ASSUME TypeOK, NEW n \in Node, Writer(n) \/ \E t \in Txn : BeginWrite(n, t)
  PROVE  /\ UNCHANGED <<lastSeen, lastApplied, fsm, committed>>
         /\ \A m \in Node \ {n} : /\ wid'[m] = wid[m]
                                  /\ marker'[m] = marker[m]
                                  /\ wpc'[m] = wpc[m]
PROOF
  <1>1. UNCHANGED <<lastSeen, lastApplied, fsm, committed>>
    BY DEF Writer, BeginWrite, ProposeLocal, RejectLocal, EnqueueLocal,
       Accept, EnqueueLocalFails, ApplyLost, Publish, Forward, Redirect,
       ForwardRejected, AwaitFSMApplied, AwaitTimeout, AwaitFails, Abort, EndWrite, raftVars, fsmVars
  <1>2. ASSUME NEW m \in Node \ {n} PROVE wid'[m] = wid[m]
    BY DEF TypeOK, WriterType, Writer, BeginWrite, ProposeLocal, RejectLocal, EnqueueLocal,
       Accept, EnqueueLocalFails, ApplyLost, Publish, Forward, Redirect,
       ForwardRejected, AwaitFSMApplied, AwaitTimeout, AwaitFails, Abort, EndWrite
  <1>3. ASSUME NEW m \in Node \ {n} PROVE marker'[m] = marker[m]
    BY DEF TypeOK, WriterType, Writer, BeginWrite, ProposeLocal, RejectLocal, EnqueueLocal,
       Accept, EnqueueLocalFails, ApplyLost, Publish, Forward, Redirect,
       ForwardRejected, AwaitFSMApplied, AwaitTimeout, AwaitFails, Abort, EndWrite
  <1>4. ASSUME NEW m \in Node \ {n} PROVE wpc'[m] = wpc[m]
    BY DEF TypeOK, WriterType, Writer, BeginWrite, ProposeLocal, RejectLocal, EnqueueLocal,
       Accept, EnqueueLocalFails, ApplyLost, Publish, Forward, Redirect,
       ForwardRejected, AwaitFSMApplied, AwaitTimeout, AwaitFails, Abort, EndWrite
  <1> QED
    BY <1>1, <1>2, <1>3, <1>4

\* A recorded race stays recorded.
LEMMA CleanBefore ==
  ASSUME Next, Clean'
  PROVE  Clean
PROOF
  <1>1. ASSUME NEW n \in Node, Raft(n) PROVE anomaly' = {} => anomaly = {}
    BY <1>1 DEF Raft, Elect, StepDown, LeaveLeader, CommitNoop, CommitNext, CommitTail
  <1>2. ASSUME NEW n \in Node, Leadership(n) PROVE UNCHANGED anomaly
    BY <1>2 DEF Leadership, WatchLeadership, BarrierPassed, DrainDone, DrainReturn
  <1>3. ASSUME NEW n \in Node, Writer(n) PROVE anomaly' = {} => anomaly = {}
    BY <1>3 DEF Writer, ProposeLocal, RejectLocal, EnqueueLocal, EnqueueLocalFails,
       ApplyLost, Publish, Forward, Redirect, ForwardRejected, AwaitFSMApplied,
       AwaitTimeout, AwaitFails
  <1>4. ASSUME NEW n \in Node, NEW t \in Txn, BeginWrite(n, t) PROVE UNCHANGED anomaly
    BY <1>4 DEF BeginWrite
  <1>5. ASSUME NEW t \in Txn, Handler(t) PROVE anomaly' = {} => anomaly = {}
    BY <1>5 DEF Handler, HandleNotLeader, HandleRequest, HandleBusy, HandleStale,
       HandleLocked, HandlePropose, HandleRefused, HandleEnqueue, HandleEnqueueFails,
       HandleApplied, HandleLost
  <1>6. ASSUME NEW n \in Node, Fsm(n) PROVE anomaly' = {} => anomaly = {}
    BY <1>6 DEF Fsm, ConsumeMarker, StartApply, AppendOwnLock, BeginLoanAppend,
       EndLoanAppend, Materialize
  <1> QED
    BY <1>1, <1>2, <1>3, <1>4, <1>5, <1>6 DEF Next, Clean

\* The committed entries stay where they are.
LEMMA LogGrows ==
  ASSUME TypeOK, LogInv, NEW n \in Node, Raft(n)
  PROVE  /\ Len(committed) <= Len(committed')
         /\ \A i \in 1..Len(committed) : committed'[i] = committed[i]
PROOF
  <1>1. ASSUME NEW k \in 0..Len(tail[n]), CommitTail(n, k)
        PROVE  /\ Len(committed) <= Len(committed')
               /\ \A i \in 1..Len(committed) : committed'[i] = committed[i]
    <2>1. CommitResult(n, k)
      BY <1>1, CommitEffect
    <2>2. Len(committed) \in Nat /\ k \in Nat
      BY SMTT(60) DEF TypeOK, LogType
    <2> QED
      BY <2>1, <2>2, SMTT(60) DEF CommitResult
  <1>2. CASE CommitNoop(n)
    <2>1. inherited \in 0..Len(tail[n])
      BY <1>2, ConstAssumption, SMTT(60)
      DEF LogInv, LogShape, CommitNoop, TypeOK, RaftType, LogType
    <2> QED
      BY <1>1, <1>2, <2>1 DEF CommitNoop
  <1>3. CASE CommitNext(n)
    <2>1. 1 \in 0..Len(tail[n])
      BY <1>3, SMTT(60) DEF CommitNext, TypeOK, LogType
    <2> QED
      BY <1>1, <1>3, <2>1 DEF CommitNext
  <1>4. CASE Elect(n) \/ StepDown(n) \/ LeaveLeader(n)
    <2>1. UNCHANGED committed /\ Len(committed) \in Nat
      BY <1>4, SMTT(60) DEF Elect, StepDown, LeaveLeader, TypeOK, LogType
    <2> QED
      BY <2>1, SMTT(60)
  <1> QED
    BY <1>2, <1>3, <1>4 DEF Raft

\* FsmInv is kept by every step.
LEMMA FsmNext ==
  TypeOK /\ LockInv /\ CallInv /\ LogInv /\ FsmInv /\ LoanInv /\ Next
    => FsmInv'
PROOF
\* FsmIndex speaks of these variables only.
<1>IndexFrame. ASSUME FsmIndex, UNCHANGED indexVars
      PROVE  FsmIndex'
  BY <1>IndexFrame DEF FsmIndex, indexVars
\* The log only grows, so the FSM stays inside it.
<1>IndexRaft. ASSUME TypeOK, LogInv, FsmIndex, NEW n \in Node, Raft(n)
      PROVE  FsmIndex'
  <2> USE <1>IndexRaft
  <2> USE DEF TypeOK, RaftType, LogType, FsmType
  <2>1. CASE Elect(n)
    BY <2>1, SMTT(60) DEF Elect, FsmIndex, fsmVars
  <2>2. CASE StepDown(n)
    BY <2>2, SMTT(60) DEF StepDown, FsmIndex, fsmVars
  <2>3. CASE LeaveLeader(n)
    BY <2>3, <1>IndexFrame DEF LeaveLeader, fsmVars, indexVars
  <2>4. ASSUME NEW k \in 0..Len(tail[n]), CommitTail(n, k)
        PROVE  FsmIndex'
    <3>1. Len(committed') = Len(committed) + k
      BY <2>4, CommitEffect DEF CommitResult
    <3>2. UNCHANGED <<lastSeen, lastApplied, fsm>> /\ Len(committed) \in Nat /\ k \in Nat
      BY <2>4, SMTT(60) DEF CommitTail, fsmVars
    <3>3. ASSUME NEW m \in Node
          PROVE  /\ lastSeen[m] <= Len(committed')
                 /\ lastApplied[m] <= Len(committed')
                 /\ fsm[m] \in Applying => lastApplied[m] < Len(committed')
      <4>1. lastSeen[m] \in Nat /\ lastApplied[m] \in Nat
        OBVIOUS
      <4>2. /\ lastSeen[m] <= Len(committed)
            /\ lastApplied[m] <= Len(committed)
            /\ fsm[m] \in Applying => lastApplied[m] < Len(committed)
        BY DEF FsmIndex
      <4> HIDE DEF TypeOK, RaftType, LogType, FsmType
      <4> QED
        BY <3>1, <3>2, <4>1, <4>2, SMTT(60)
    <3> QED
      BY <3>2, <3>3 DEF FsmIndex
  <2>5. CASE CommitNoop(n)
    BY <2>4, <2>5, ConstAssumption, SMTT(60) DEF CommitNoop, LogInv, LogShape
  <2>6. CASE CommitNext(n)
    <3>1. 1 \in 0..Len(tail[n])
      BY <2>6, SMTT(60) DEF CommitNext
    <3> QED
      BY <2>4, <2>6, <3>1 DEF CommitNext
  <2> QED
    BY <2>1, <2>2, <2>3, <2>5, <2>6 DEF Raft
\* Apply handles one committed entry at a time.
<1>IndexFsm. ASSUME TypeOK, LogInv, FsmInv, NEW n \in Node, Fsm(n)
      PROVE  FsmIndex'
  <2> USE <1>IndexFsm
  <2>1. UNCHANGED <<lastSeen, committed>>
    BY DEF Fsm, ConsumeMarker, StartApply, AppendOwnLock, BeginLoanAppend,
           EndLoanAppend, Materialize, ApplyReturns, raftVars
  <2>2. lastApplied[n] + 1 \in 1..Len(committed) \/ fsm[n] \notin Applying
    BY NextAccepted
  <2>3. CASE ApplyReturns(n) /\ lastApplied[n] + 1 \in 1..Len(committed)
    BY <2>1, <2>3, SMTT(60)
    DEF TypeOK, FsmType, ApplyReturns, FsmInv, FsmIndex, Applying
  <2>4. CASE ConsumeMarker(n) \/ AppendOwnLock(n) \/ EndLoanAppend(n)
    BY <2>3, <2>4, NextAccepted DEF ConsumeMarker, AppendOwnLock, EndLoanAppend,
       Materialize, Applying
  <2>5. CASE StartApply(n) \/ BeginLoanAppend(n)
    <3>1. /\ lastApplied[n] + 1 \in 1..Len(committed)
          /\ UNCHANGED lastApplied
          /\ \A m \in Node \ {n} : fsm'[m] = fsm[m]
      BY <2>5, NextAccepted DEF TypeOK, FsmType, StartApply, BeginLoanAppend, Applying
    <3>2. lastApplied[n] < Len(committed)
      BY <3>1, SMTT(60) DEF TypeOK, FsmType, LogType
    <3> QED
      BY <2>1, <3>1, <3>2 DEF FsmInv, FsmIndex
  <2> QED
    BY <2>4, <2>5 DEF Fsm
\* Growing the log moves no entry a marker or the FSM stands at.
<1>MarkerRaft. ASSUME TypeOK, LogInv, FsmInv, NEW n \in Node, Raft(n), Clean' => Clean
      PROVE  FsmMarker'
  <2> USE <1>MarkerRaft
  <2>1. UNCHANGED <<fsm, wid, marker, wpc, lastApplied>>
    BY DEF Raft, Elect, StepDown, LeaveLeader, CommitNoop, CommitNext, CommitTail,
           fsmVars, writerVars
  <2>2. ASSUME NEW m \in Node PROVE MarkerAt(m)'
    <3>1. lastApplied[m] \in Nat /\ Len(committed) \in Nat
      BY SMTT(60) DEF TypeOK, FsmType, LogType
    <3>2. /\ fsm[m] \in Applying => committed'[lastApplied[m] + 1] = committed[lastApplied[m] + 1]
          /\ lastApplied[m] > 0 => committed'[lastApplied[m]] = committed[lastApplied[m]]
      BY <3>1, LogGrows, SMTT(60) DEF FsmInv, FsmIndex
    <3> QED
      BY <2>1, <3>2 DEF FsmInv, FsmMarker, MarkerAt, NextEntry
  <2> QED
    BY <2>2 DEF FsmMarker
\* A step of one node's writer leaves the other nodes alone.
<1>MarkerLocal. ASSUME FsmMarker, Clean' => Clean, NEW n \in Node,
             UNCHANGED <<fsm, lastApplied, committed>>,
             \A m \in Node \ {n} : /\ wid'[m] = wid[m]
                                   /\ marker'[m] = marker[m]
                                   /\ wpc'[m] = wpc[m],
             MarkerAt(n)'
      PROVE  FsmMarker'
  BY <1>MarkerLocal, SMTT(60) DEF FsmMarker, MarkerAt, NextEntry
\* A writer creates its marker before its entry can be in the log, and deletes
\* it when ProposeTransaction returns.
<1>MarkerWriter. ASSUME TypeOK, LockInv, CallInv, LogInv, FsmInv, NEW n \in Node, Clean' => Clean,
             Writer(n) \/ \E t \in Txn : BeginWrite(n, t)
      PROVE  FsmMarker'
  <2> USE <1>MarkerWriter
  <2> USE DEF TypeOK, WriterType
  <2>1. /\ UNCHANGED <<fsm, lastApplied, committed>>
        /\ \A m \in Node \ {n} : /\ wid'[m] = wid[m]
                                 /\ marker'[m] = marker[m]
                                 /\ wpc'[m] = wpc[m]
    BY WriterFrame
  <2>2. MarkerAt(n)
    BY DEF FsmInv, FsmMarker
  <2>3. ASSUME \E t \in Txn : BeginWrite(n, t)
        PROVE  MarkerAt(n)'
    BY <2>3 DEF BeginWrite, LockInv, WriterLock, MarkerAt
  <2>4. ASSUME \/ RejectLocal(n) \/ EnqueueLocalFails(n) \/ ApplyLost(n) \/ Publish(n)
               \/ ForwardRejected(n) \/ AwaitFails(n)
        PROVE  MarkerAt(n)'
    <3>1. marker'[n] = "none"
      BY <2>4 DEF RejectLocal, EnqueueLocalFails, ApplyLost, Publish, ForwardRejected,
                  AwaitFails, Abort, EndWrite
    <3> QED
      BY <3>1 DEF MarkerAt
  <2>5. ASSUME ProposeLocal(n) \/ \E l \in Node : Forward(n, l)
        PROVE  MarkerAt(n)'
    <3>1. future[wid[n]] = "none" /\ UNCHANGED wid /\ marker'[n] = "pending"
      BY <2>5, SMTT(60) DEF ProposeLocal, Forward, CallInv
    <3>2. fsm[n] \in Applying => wid[n] # NextEntry(n)
      BY <3>1, NextAccepted
    <3> QED
      BY <2>1, <3>1, <3>2 DEF MarkerAt, NextEntry
  <2>6. ASSUME EnqueueLocal(n) \/ AwaitFSMApplied(n) \/ \E l \in Node : Redirect(n, l)
        PROVE  MarkerAt(n)'
    <3>1. UNCHANGED <<wid, marker>> /\ wpc'[n] \in {"apply", "forward", "await"}
      BY <2>6 DEF EnqueueLocal, AwaitFSMApplied, Redirect
    <3> QED
      BY <2>1, <2>2, <3>1 DEF MarkerAt, NextEntry
  <2>7. ASSUME AwaitTimeout(n)
        PROVE  MarkerAt(n)'
    BY <2>7 DEF AwaitTimeout, MarkerAt
  <2>8. MarkerAt(n)'
    BY <2>3, <2>4, <2>5, <2>6, <2>7 DEF Writer
  <2> QED
    BY <2>1, <2>8, <1>MarkerLocal DEF FsmInv
\* tryConsumeSkipMarker skips exactly the entry of the waiting writer, and
\* nothing is applied after it until that writer is done.
<1>MarkerFsm. ASSUME TypeOK, LockInv, CallInv, LogInv, FsmInv, LoanInv, NEW n \in Node,
             Clean' => Clean, Fsm(n)
      PROVE  FsmMarker'
  <2> USE <1>MarkerFsm
  <2> USE DEF TypeOK, WriterType, FsmType
  <2>1. UNCHANGED <<committed, wid, wpc>>
    BY DEF Fsm, ConsumeMarker, StartApply, AppendOwnLock, BeginLoanAppend,
           EndLoanAppend, Materialize, ApplyReturns, raftVars, writerVars
  <2>2. ASSUME NEW m \in Node \ {n} PROVE MarkerAt(m)'
    <3>1. /\ marker'[m] = marker[m]
          /\ fsm'[m] = fsm[m]
          /\ lastApplied'[m] = lastApplied[m]
      BY SMTT(60) DEF Fsm, ConsumeMarker, StartApply, AppendOwnLock, BeginLoanAppend,
             EndLoanAppend, Materialize, ApplyReturns, writerVars
    <3> QED
      BY <2>1, <3>1 DEF FsmInv, FsmMarker, MarkerAt, NextEntry
  <2>3. ASSUME ConsumeMarker(n)
        PROVE  MarkerAt(n)'
    <3>1. /\ wid[n] = NextEntry(n) /\ marker[n] = "pending"
          /\ marker'[n] = "skipped" /\ lastApplied'[n] = lastApplied[n] + 1
      BY <2>3 DEF ConsumeMarker, OwnPending, ApplyReturns
    <3>2. wpc[n] # "enqueue"
      <4>1. future[NextEntry(n)] # "none"
        BY <2>3, NextAccepted DEF ConsumeMarker
      <4> QED
        BY <3>1, <4>1, SMTT(60) DEF CallInv
    <3>3. wpc[n] \in {"apply", "forward", "await"}
      BY <3>1, <3>2 DEF LockInv, WriterLock, WriterPc
    <3> QED
      BY <2>1, <3>1, <3>3, SMTT(60) DEF MarkerAt, NextEntry
  <2>4. ASSUME StartApply(n)
        PROVE  MarkerAt(n)'
    <3>1. /\ ~OwnPending(n) /\ UNCHANGED <<marker, lastApplied>>
      BY <2>4 DEF StartApply, writerVars
    <3> QED
      BY <2>1, <3>1 DEF OwnPending, FsmInv, FsmMarker, MarkerAt, NextEntry
  <2>5. ASSUME BeginLoanAppend(n)
        PROVE  MarkerAt(n)'
    <3>1. UNCHANGED <<marker, lastApplied>> /\ fsm[n] \in Applying
      BY <2>5 DEF BeginLoanAppend, writerVars, Applying
    <3> QED
      BY <2>1, <3>1 DEF FsmInv, FsmMarker, MarkerAt, NextEntry
  <2>6. ASSUME AppendOwnLock(n) \/ EndLoanAppend(n)
        PROVE  MarkerAt(n)'
    <3>1. /\ UNCHANGED marker /\ fsm'[n] = "idle"
          /\ lastApplied'[n] = lastApplied[n] + 1
      BY <2>6 DEF AppendOwnLock, EndLoanAppend, Materialize, ApplyReturns
    <3>2. Clean => marker[n] = "none"
      BY <2>6, NoWriter
    <3> QED
      BY <2>1, <3>1, <3>2, SMTT(60) DEF FsmInv, FsmMarker, MarkerAt, Applying
  <2> QED
    BY <2>2, <2>3, <2>4, <2>5, <2>6 DEF Fsm, FsmMarker
\* Raft resolves no future with success; Apply does.
<1>DoneRaft. ASSUME TypeOK, LockInv, LogInv, FsmInv, NEW n \in Node, Raft(n)
      PROVE  FsmDone'
  <2> USE <1>DoneRaft
  <2>1. UNCHANGED <<wpc, wid, marker, hpc, at, lastApplied>>
    BY DEF Raft, Elect, StepDown, LeaveLeader, CommitNoop, CommitNext, CommitTail,
           fsmVars, writerVars
  <2>2. \A t \in Txn : future'[t] = "done" => future[t] = "done"
    BY DEF TypeOK, LogType, Raft, Elect, StepDown, LeaveLeader, CommitNoop,
           CommitNext, CommitTail
  <2>3. \A m \in Node : wpc[m] = "apply" => wid[m] \in Txn
    BY DEF LockInv, WriterLock
  <2>4. \A t \in Txn : hpc[t] = "apply" => at[t] \in Node
    BY DEF LockInv, HandlerLock, Running
  <2>5. ASSUME NEW m \in Node, NEW t \in Txn, HasApplied(m, t) PROVE HasApplied(m, t)'
    <3>1. PICK i \in 1..lastApplied[m] : committed[i] = t
      BY <2>5 DEF HasApplied
    <3>2. lastApplied[m] \in Nat /\ Len(committed) \in Nat
      BY SMTT(60) DEF TypeOK, FsmType, LogType
    <3>3. i \in 1..Len(committed)
      BY <3>2, SMTT(60) DEF FsmInv, FsmIndex
    <3> QED
      BY <2>1, <3>1, <3>3, LogGrows DEF HasApplied
  <2> QED
    BY <2>1, <2>2, <2>3, <2>4, <2>5 DEF FsmInv, FsmDone
\* A writer that enters raft.Apply has a future that is not resolved.
<1>DoneWriter. ASSUME TypeOK, LockInv, CallInv, FsmInv, NEW n \in Node,
             Writer(n) \/ \E t \in Txn : BeginWrite(n, t)
      PROVE  FsmDone'
  <2> USE <1>DoneWriter
  <2> USE DEF TypeOK, WriterType
  <2>1. /\ UNCHANGED <<lastApplied, committed>>
        /\ \A m \in Node \ {n} : /\ wid'[m] = wid[m]
                                 /\ marker'[m] = marker[m]
                                 /\ wpc'[m] = wpc[m]
    BY WriterFrame
  <2>2. CASE EnqueueLocal(n)
    <3>1. wid[n] \in Txn /\ hpc[wid[n]] = "none"
      BY <2>2 DEF EnqueueLocal, LockInv, WriterLock, CallInv
    <3>2. /\ future'[wid[n]] = "inflight"
          /\ \A t \in Txn \ {wid[n]} : future'[t] = future[t] /\ at'[t] = at[t]
          /\ UNCHANGED <<wid, marker, hpc>>
      BY <2>2, <3>1 DEF EnqueueLocal, Accept, LogType, HandlerType
    <3>3. \A m \in Node : wpc[m] = "apply" => wid[m] \in Txn
      BY DEF LockInv, WriterLock
    <3> QED
      BY <2>1, <3>1, <3>2, <3>3, SMTT(60) DEF FsmInv, FsmDone, HasApplied
  <2>3. CASE ~EnqueueLocal(n)
    <3>1. UNCHANGED future /\ wpc'[n] # "apply"
      BY <2>3 DEF Writer, BeginWrite, ProposeLocal, RejectLocal, EnqueueLocalFails,
         ApplyLost, Publish, Forward, Redirect, ForwardRejected, AwaitFSMApplied,
         AwaitTimeout, AwaitFails, Abort, EndWrite
    <3>2. ASSUME NEW t \in Txn, hpc'[t] = "apply"
          PROVE  hpc[t] = "apply" /\ at'[t] = at[t]
      <4>1. CASE UNCHANGED <<hpc, at>>
        BY <3>2, <4>1
      <4>2. CASE Forget(wid[n])
        BY <3>2, <4>2 DEF Forget, Running, HandlerType
      <4>3. CASE \E l \in Node : Send(n, l)
        BY <3>2, <4>3 DEF Send, HandlerType
      <4> QED
        BY <2>3, <4>1, <4>2, <4>3
        DEF Writer, BeginWrite, ProposeLocal, RejectLocal, EnqueueLocalFails,
         ApplyLost, Publish, Forward, Redirect, ForwardRejected, AwaitFSMApplied,
         AwaitTimeout, AwaitFails, Abort, EndWrite
    <3> QED
      BY <2>1, <3>1, <3>2, SMTT(60) DEF FsmInv, FsmDone, HasApplied
  <2> QED
    BY <2>2, <2>3
\* A handler that enters raft.Apply has a future that is not resolved.
<1>DoneHandler. ASSUME TypeOK, LockInv, CallInv, FsmInv, NEW t \in Txn, Handler(t)
      PROVE  FsmDone'
  <2> USE <1>DoneHandler
  <2> USE DEF TypeOK, HandlerType, LogType
  <2>1. UNCHANGED <<wpc, wid, marker, lastApplied, committed>>
    BY DEF Handler, HandleNotLeader, HandleRequest, HandleBusy, HandleStale,
           HandleLocked, HandlePropose, HandleRefused, HandleEnqueue,
           HandleEnqueueFails, HandleApplied, HandleLost, Respond, Accept,
           writerVars, fsmVars, raftVars
  <2>2. \A u \in Txn \ {t} : hpc'[u] = hpc[u] /\ at'[u] = at[u] /\ future'[u] = future[u]
    BY DEF Handler, HandleNotLeader, HandleRequest, HandleBusy, HandleStale,
           HandleLocked, HandlePropose, HandleRefused, HandleEnqueue,
           HandleEnqueueFails, HandleApplied, HandleLost, Respond, Accept
  <2>3. /\ future'[t] = "done" => future[t] = "done"
        /\ hpc'[t] = "apply" => future'[t] = "inflight"
    <3>1. CASE HandleEnqueue(t)
      BY <3>1 DEF HandleEnqueue, Accept
    <3>2. CASE \/ HandleNotLeader(t) \/ HandleRequest(t) \/ HandleBusy(t)
               \/ HandleStale(t) \/ HandleLocked(t) \/ HandlePropose(t)
      BY <3>2 DEF HandleNotLeader, HandleRequest, HandleBusy, HandleStale,
                  HandleLocked, HandlePropose, Respond
    <3>3. CASE \/ HandleRefused(t) \/ HandleEnqueueFails(t) \/ HandleApplied(t)
               \/ HandleLost(t)
      BY <3>3 DEF HandleRefused, HandleEnqueueFails, HandleApplied, HandleLost, Respond
    <3> QED
      BY <3>1, <3>2, <3>3 DEF Handler
  <2>4. \A m \in Node : wpc[m] = "apply" => wid[m] \in Txn
    BY DEF LockInv, WriterLock
  <2> QED
    BY <2>1, <2>2, <2>3, <2>4, SMTT(60) DEF FsmInv, FsmDone, HasApplied
\* A future resolves when Apply has handled its entry on the waiting node, by
\* consuming the marker if the proposer is the local writer.
<1>DoneFsm. ASSUME TypeOK, LockInv, CallInv, LogInv, FsmInv, LoanInv, NEW n \in Node, Fsm(n)
      PROVE  FsmDone'
  <2> USE <1>DoneFsm
  <2> USE DEF TypeOK
  <2>1. UNCHANGED <<committed, wpc, wid, hpc, at>>
    BY DEF Fsm, ConsumeMarker, StartApply, AppendOwnLock, BeginLoanAppend,
           EndLoanAppend, Materialize, ApplyReturns, raftVars, writerVars
  <2>2. CASE StartApply(n) \/ BeginLoanAppend(n)
    <3>1. UNCHANGED <<future, marker, lastApplied>>
      BY <2>2 DEF StartApply, BeginLoanAppend, writerVars
    <3> QED
      BY <2>1, <3>1 DEF FsmInv, FsmDone, HasApplied
  <2>3. CASE ConsumeMarker(n) \/ AppendOwnLock(n) \/ EndLoanAppend(n)
    <3>1. /\ ApplyReturns(n)
          /\ NextEntry(n) \in Txn
          /\ lastApplied[n] + 1 \in 1..Len(committed)
      BY <2>3, NextAccepted DEF ConsumeMarker, AppendOwnLock, EndLoanAppend,
         Materialize, Applying
    <3>2. /\ lastApplied'[n] = lastApplied[n] + 1
          /\ \A m \in Node \ {n} : lastApplied'[m] = lastApplied[m]
          /\ \A m \in Node : lastApplied[m] \in Nat
      BY <3>1 DEF ApplyReturns, FsmType
    <3>3. \A t \in Txn : future'[t] = "done" =>
            future[t] = "done" \/ (t = NextEntry(n) /\ at[t] = n)
      BY <3>1 DEF ApplyReturns, LogType
    <3>4. ASSUME NEW m \in Node, NEW t \in Txn, HasApplied(m, t) PROVE HasApplied(m, t)'
      <4>1. PICK i \in 1..lastApplied[m] : committed[i] = t
        BY <3>4 DEF HasApplied
      <4>2. i \in 1..lastApplied'[m]
        BY <3>2, SMTT(60)
      <4> QED
        BY <2>1, <4>1, <4>2 DEF HasApplied
    <3>5. \E i \in 1..lastApplied'[n] : committed'[i] = NextEntry(n)
      <4>1. lastApplied[n] + 1 \in 1..lastApplied'[n]
        BY <3>2, SMTT(60)
      <4> QED
        BY <2>1, <4>1 DEF NextEntry
    <3>6. ASSUME NEW t \in Txn, hpc'[t] = "apply", future'[t] = "done"
          PROVE  HasApplied(at[t], t)'
      <4>1. at[t] \in Node /\ hpc[t] = "apply"
        BY <2>1, <3>6 DEF LockInv, HandlerLock, Running
      <4>2. CASE future[t] = "done"
        <5>1. HasApplied(at[t], t)
          BY <4>1, <4>2 DEF FsmInv, FsmDone
        <5>2. \E i \in 1..lastApplied'[at[t]] : committed'[i] = t
          BY <3>4, <4>1, <5>1 DEF HasApplied
        <5> QED
          BY <2>1, <5>2 DEF HasApplied
      <4>3. CASE t = NextEntry(n) /\ at[t] = n
        BY <2>1, <3>5, <4>3 DEF HasApplied
      <4> QED
        BY <3>3, <3>6, <4>2, <4>3
    <3>7. ASSUME NEW m \in Node, wpc[m] = "apply", future'[wid[m]] = "done"
          PROVE  marker'[m] = "skipped"
      <4>1. wid[m] \in Txn /\ at[wid[m]] = m /\ marker[m] \in {"pending", "skipped"}
        BY <3>7 DEF LockInv, WriterLock, CallInv, WriterType
      <4>2. marker[m] = "skipped" => marker'[m] = "skipped"
        BY <2>3 DEF ConsumeMarker, AppendOwnLock, EndLoanAppend, Materialize, WriterType
      <4>3. CASE future[wid[m]] = "done"
        BY <3>7, <4>2, <4>3 DEF FsmInv, FsmDone
      <4>4. CASE wid[m] = NextEntry(n) /\ m = n
        <5>1. CASE ConsumeMarker(n)
          BY <4>4, <5>1 DEF ConsumeMarker, WriterType
        <5>2. CASE AppendOwnLock(n) \/ EndLoanAppend(n)
          <6>1. fsm[n] \in Applying
            BY <5>2 DEF AppendOwnLock, EndLoanAppend, Applying
          <6>2. marker[n] # "pending"
            BY <4>4, <6>1 DEF FsmInv, FsmMarker, MarkerAt
          <6> QED
            BY <4>1, <4>2, <4>4, <6>2
        <5> QED
          BY <2>3, <5>1, <5>2
      <4> QED
        BY <3>3, <3>7, <4>1, <4>3, <4>4
    <3> QED
      BY <2>1, <3>6, <3>7 DEF FsmDone
  <2> QED
    BY <2>2, <2>3 DEF Fsm
<1> SUFFICES ASSUME TypeOK, LockInv, CallInv, LogInv, FsmInv, LoanInv, Next PROVE FsmInv'
  OBVIOUS
<1> DEFINE C == Clean' => Clean
<1>1. C
  BY CleanBefore
<1>2. ASSUME NEW n \in Node, Raft(n) PROVE FsmInv'
  BY <1>1, <1>2, <1>IndexRaft, <1>MarkerRaft, <1>DoneRaft DEF FsmInv
<1>3. ASSUME NEW n \in Node, Leadership(n) PROVE FsmInv'
  <2>1. UNCHANGED <<indexVars, wid, marker, wpc, hpc, at, future, anomaly>>
    BY <1>3 DEF Leadership, WatchLeadership, BarrierPassed, DrainDone, DrainReturn,
                raftVars, writerVars, fsmVars, indexVars
  <2> QED
    BY <2>1 DEF indexVars, FsmInv, FsmIndex, FsmMarker, MarkerAt, FsmDone,
                HasApplied, NextEntry, Clean
<1>4. ASSUME NEW n \in Node, Writer(n) \/ \E t \in Txn : BeginWrite(n, t)
      PROVE  FsmInv'
  <2>1. UNCHANGED indexVars
    BY <1>4, WriterFrame DEF indexVars
  <2> QED
    BY <1>1, <1>4, <2>1, <1>IndexFrame, <1>MarkerWriter, <1>DoneWriter DEF FsmInv
<1>5. ASSUME NEW t \in Txn, Handler(t) PROVE FsmInv'
  <2>1. UNCHANGED <<indexVars, wid, marker, wpc>>
    BY <1>5 DEF Handler, HandleNotLeader, HandleRequest, HandleBusy, HandleStale,
       HandleLocked, HandlePropose, HandleRefused, HandleEnqueue,
       HandleEnqueueFails, HandleApplied, HandleLost, Respond, Accept, raftVars,
       writerVars, fsmVars, indexVars
  <2>2. FsmMarker'
    BY <1>1, <2>1 DEF indexVars, FsmInv, FsmMarker, MarkerAt, NextEntry
  <2> QED
    BY <1>5, <2>1, <2>2, <1>IndexFrame, <1>DoneHandler DEF FsmInv
<1>6. ASSUME NEW n \in Node, Fsm(n) PROVE FsmInv'
  BY <1>1, <1>6, <1>IndexFsm, <1>MarkerFsm, <1>DoneFsm DEF FsmInv
<1> QED
  BY <1>2, <1>3, <1>4, <1>5, <1>6 DEF Next

-----------------------------------------------------------------------------
\* LoanInv

\* Until a race is recorded, the loan Apply appends under stays registered.
LEMMA LoanNext ==
  TypeOK /\ LockInv /\ CallInv /\ LogInv /\ FsmInv /\ LoanInv /\ Next
    => LoanInv'
PROOF
\* While the FSM of n is inside an entry, a step that is not its own leaves the
\* entry where it is.
<1>NextEntryStays. ASSUME TypeOK, LogInv, FsmInv, NEW n \in Node, fsm[n] \in Applying,
             NEW m \in Node, Raft(m)
      PROVE  NextEntry(n)' = NextEntry(n) /\ UNCHANGED <<fsm, hpc, at>>
  <2> USE <1>NextEntryStays
  <2>1. UNCHANGED <<lastApplied, fsm, hpc, at>>
    BY DEF Raft, Elect, StepDown, LeaveLeader, CommitNoop, CommitNext, CommitTail,
           fsmVars
  <2>2. lastApplied[n] + 1 \in 1..Len(committed)
    BY NextAccepted
  <2> QED
    BY <2>1, <2>2, LogGrows DEF NextEntry
<1> SUFFICES ASSUME TypeOK, LockInv, CallInv, LogInv, FsmInv, LoanInv, Next PROVE LoanInv'
  OBVIOUS
<1> SUFFICES ASSUME Clean', NEW n \in Node, fsm'[n] = "loanAppend"
             PROVE  Loaned(n)'
  BY DEF LoanInv
<1> USE DEF TypeOK, HandlerType
<1>1. Clean
  BY CleanBefore
<1>2. ASSUME NEW m \in Node, Raft(m) PROVE Loaned(n)'
  <2>1. UNCHANGED fsm
    BY <1>2 DEF Raft, Elect, StepDown, LeaveLeader, CommitNoop, CommitNext,
                CommitTail, fsmVars
  <2>2. Loaned(n) /\ fsm[n] \in Applying
    BY <1>1, <2>1 DEF LoanInv, Applying
  <2> QED
    BY <1>2, <2>2, <1>NextEntryStays DEF Loaned
<1>3. ASSUME NEW m \in Node, Leadership(m) PROVE Loaned(n)'
  <2>1. UNCHANGED <<fsm, lastApplied, committed, hpc, at>>
    BY <1>3 DEF Leadership, WatchLeadership, BarrierPassed, DrainDone, DrainReturn,
                raftVars, fsmVars
  <2> QED
    BY <1>1, <2>1 DEF LoanInv, Loaned, NextEntry
<1>4. ASSUME NEW m \in Node, Writer(m) \/ \E t \in Txn : BeginWrite(m, t)
      PROVE  Loaned(n)'
  <2>1. UNCHANGED <<fsm, lastApplied, committed>>
    BY <1>4, WriterFrame
  <2>2. Loaned(n) /\ NextEntry(n) \in Txn
    BY <1>1, <2>1, NextAccepted DEF LoanInv, Applying
  <2>3. ASSUME NEW t \in Txn, hpc[t] \in Held
        PROVE  hpc'[t] = hpc[t] /\ at'[t] = at[t]
    <3>1. CASE UNCHANGED <<hpc, at>>
      BY <3>1
    <3>2. CASE Forget(wid[m])
      BY <2>3, <3>2 DEF Forget, Held, Running, Status
    <3>3. CASE EnqueueLocal(m)
      <4>1. hpc[wid[m]] = "none"
        BY <3>3 DEF EnqueueLocal, CallInv
      <4> QED
        BY <2>3, <3>3, <4>1 DEF EnqueueLocal, Accept, Held
    <3>4. CASE \E l \in Node : Forward(m, l) \/ Redirect(m, l)
      <4>1. hpc[wid[m]] \in {"none", "NOT_LEADER"}
        BY <3>4 DEF Forward, Redirect, CallInv
      <4> QED
        BY <2>3, <3>4, <4>1 DEF Forward, Redirect, Send, Held
    <3> QED
      BY <1>4, <3>1, <3>2, <3>3, <3>4
      DEF Writer, BeginWrite, ProposeLocal, RejectLocal, EnqueueLocalFails,
       ApplyLost, Publish, ForwardRejected, AwaitFSMApplied, AwaitTimeout,
       AwaitFails, Abort, EndWrite
  <2> QED
    BY <2>1, <2>2, <2>3 DEF Loaned, NextEntry
<1>5. ASSUME NEW t \in Txn, Handler(t) PROVE Loaned(n)'
  <2>1. UNCHANGED <<fsm, lastApplied, committed>>
    BY <1>5 DEF Handler, HandleNotLeader, HandleRequest, HandleBusy, HandleStale,
       HandleLocked, HandlePropose, HandleRefused, HandleEnqueue,
       HandleEnqueueFails, HandleApplied, HandleLost, Respond, Accept, raftVars,
       fsmVars
  <2>2. /\ Loaned(n) /\ NextEntry(n) \in Txn /\ future[NextEntry(n)] # "none"
        /\ lastApplied[n] + 1 \in 1..Len(committed)
    BY <1>1, <2>1, NextAccepted DEF LoanInv, Applying
  <2>3. CASE NextEntry(n) # t
    <3>1. hpc'[NextEntry(n)] = hpc[NextEntry(n)] /\ at'[NextEntry(n)] = at[NextEntry(n)]
      BY <1>5, <2>2, <2>3 DEF Handler, HandleNotLeader, HandleRequest, HandleBusy,
         HandleStale, HandleLocked, HandlePropose, HandleRefused, HandleEnqueue,
         HandleEnqueueFails, HandleApplied, HandleLost, Respond, Accept
    <3> QED
      BY <2>1, <2>2, <3>1 DEF Loaned, NextEntry
  <2>4. CASE NextEntry(n) = t
    <3>1. at[t] = n /\ hpc[t] = "apply"
      BY <2>2, <2>4 DEF Loaned, Held, CallInv, Unproposed
    <3>2. HandleApplied(t) \/ HandleLost(t)
      BY <1>5, <3>1 DEF Handler, HandleNotLeader, HandleRequest, HandleBusy,
         HandleStale, HandleLocked, HandlePropose, HandleRefused, HandleEnqueue,
         HandleEnqueueFails
    <3>3. CASE HandleLost(t)
      BY <2>1, <3>1, <3>3 DEF HandleLost, Clean
    <3>4. CASE HandleApplied(t)
      <4>1. PICK i \in 1..lastApplied[n] : committed[i] = t
        BY <3>1, <3>4 DEF HandleApplied, FsmInv, FsmDone, HasApplied
      <4>2. /\ i \in 1..Len(committed) /\ i # lastApplied[n] + 1
            /\ committed[lastApplied[n] + 1] = t
        BY <2>2, <2>4, SMTT(60) DEF FsmType, LogType, NextEntry
      <4> QED
        BY <2>2, <4>1, <4>2 DEF LogInv, LogOnce, CommittedOnce
    <3> QED
      BY <3>2, <3>3, <3>4
  <2> QED
    BY <2>3, <2>4
<1>6. ASSUME NEW m \in Node, Fsm(m) PROVE Loaned(n)'
  <2>1. UNCHANGED <<committed, hpc, at>>
    BY <1>6 DEF Fsm, ConsumeMarker, StartApply, AppendOwnLock, BeginLoanAppend,
       EndLoanAppend, Materialize, ApplyReturns, raftVars
  <2>2. CASE m # n
    <3>1. fsm'[n] = fsm[n] /\ lastApplied'[n] = lastApplied[n]
      BY <1>6, <2>2 DEF Fsm, ConsumeMarker, StartApply, AppendOwnLock,
         BeginLoanAppend, EndLoanAppend, Materialize, ApplyReturns, FsmType
    <3> QED
      BY <1>1, <2>1, <3>1 DEF LoanInv, Loaned, NextEntry
  <2>3. CASE m = n
    <3>1. BeginLoanAppend(n)
      BY <1>6, <2>3 DEF Fsm, ConsumeMarker, StartApply, AppendOwnLock,
         EndLoanAppend, Materialize, ApplyReturns, FsmType
    <3>2. Loaned(n) /\ UNCHANGED lastApplied
      BY <3>1 DEF BeginLoanAppend, FsmType
    <3> QED
      BY <2>1, <3>2 DEF Loaned, NextEntry
  <2> QED
    BY <2>2, <2>3
<1> QED
  BY <1>2, <1>3, <1>4, <1>5, <1>6 DEF Next

-----------------------------------------------------------------------------
\* ReplicaIsPrefix

\* Every step keeps every replica a prefix of the log.
LEMMA ReplicaNext ==
  TypeOK /\ LockInv /\ CallInv /\ LogInv /\ FsmInv /\ LoanInv /\ ReplicaIsPrefix /\ Next
    => ReplicaIsPrefix'
PROOF
\* A longer log does not change which prefix of it a replica holds.
<1>ReplicaFrame. ASSUME TypeOK, NEW n \in Node, ReplicaAt(n),
             db'[n] = db[n], lastApplied'[n] = lastApplied[n],
             marker'[n] = "skipped" <=> marker[n] = "skipped",
             Len(committed') \in Nat, Len(committed) <= Len(committed'),
             \A i \in 1..Len(committed) : committed'[i] = committed[i]
      PROVE  ReplicaAt(n)'
  <2> USE <1>ReplicaFrame
  <2>1. Len(db[n]) \in Nat /\ Len(committed) \in Nat
    BY SMTT(60) DEF TypeOK, FsmType, LogType
  <2>2. ASSUME NEW i \in 1..Len(db[n]) PROVE db[n][i] = committed'[i]
    <3>1. i \in 1..Len(committed)
      BY <2>1, SMTT(60) DEF ReplicaAt
    <3> QED
      BY <3>1 DEF ReplicaAt
  <2>3. Len(db[n]) <= Len(committed')
    BY <2>1, SMTT(60) DEF ReplicaAt
  <2> QED
    BY <2>2, <2>3 DEF ReplicaAt
\* The next committed entry is published.
<1>ReplicaAppend. ASSUME TypeOK, NEW n \in Node, ReplicaAt(n), NEW t \in Txn,
             Len(db[n]) + 1 \in 1..Len(committed), t = committed[Len(db[n]) + 1],
             db'[n] = Append(db[n], t), lastApplied'[n] = Len(db[n]) + 1,
             marker'[n] = "none", UNCHANGED committed
      PROVE  ReplicaAt(n)'
  <2> USE <1>ReplicaAppend
  <2>1. Len(db[n]) \in Nat /\ db[n] \in Seq(Txn)
    BY SMTT(60) DEF TypeOK, FsmType
  <2>2. /\ Len(db'[n]) = Len(db[n]) + 1
        /\ \A i \in 1..Len(db[n]) : db'[n][i] = db[n][i]
        /\ db'[n][Len(db[n]) + 1] = t
    BY <2>1, AppendElements, SMTT(60)
  <2>3. ASSUME NEW i \in 1..Len(db'[n]) PROVE db'[n][i] = committed[i]
    <3>1. i \in 1..Len(db[n]) \/ i = Len(db[n]) + 1
      BY <2>1, <2>2, SMTT(60)
    <3> QED
      BY <2>2, <3>1 DEF ReplicaAt
  <2> QED
    BY <2>1, <2>2, <2>3, SMTT(60) DEF ReplicaAt
\* The next committed entry is left to its writer.
<1>ReplicaSkip. ASSUME TypeOK, NEW n \in Node, ReplicaAt(n), UNCHANGED <<db, committed>>,
             marker[n] = "pending", marker'[n] = "skipped",
             lastApplied'[n] = lastApplied[n] + 1
      PROVE  ReplicaAt(n)'
  <2> USE <1>ReplicaSkip
  <2>1. Len(db[n]) \in Nat /\ lastApplied[n] \in Nat
    BY SMTT(60) DEF TypeOK, FsmType
  <2>2. Len(db[n]) = lastApplied[n]
    BY <2>1, SMTT(60) DEF ReplicaAt
  <2>3. Len(db[n]) + 1 = lastApplied'[n]
    BY <2>2
  <2> QED
    BY <2>3 DEF ReplicaAt
\* A writer publishes exactly the entry whose marker was consumed, and gives up
\* only if it was not.
<1>ReplicaWriter. ASSUME TypeOK, LockInv, CallInv, LogInv, FsmInv, Clean, Clean', NEW n \in Node,
             ReplicaAt(n), Writer(n) \/ \E t \in Txn : BeginWrite(n, t)
      PROVE  ReplicaAt(n)'
  <2> USE <1>ReplicaWriter
  <2> USE DEF TypeOK, WriterType
  <2>0. UNCHANGED <<lastApplied, committed>>
    BY WriterFrame
  <2>1. /\ UNCHANGED <<lastApplied, committed>>
        /\ Len(committed) \in Nat /\ Len(db[n]) \in Nat /\ lastApplied[n] \in Nat
    BY <2>0, SMTT(60) DEF LogType, FsmType
  <2>2. MarkerAt(n) /\ marker[n] \in {"none", "pending", "skipped", "abandoned"}
    BY DEF FsmInv, FsmMarker
  <2>3. ASSUME UNCHANGED db, marker'[n] = "skipped" <=> marker[n] = "skipped"
        PROVE  ReplicaAt(n)'
    BY <2>1, <2>3, <1>ReplicaFrame, SMTT(60)
  <2>4. ASSUME NEW result \in Outcome, Abort(n, result), marker[n] # "skipped"
        PROVE  ReplicaAt(n)'
    <3>1. UNCHANGED db /\ marker'[n] = "none"
      BY <2>4 DEF Abort, EndWrite
    <3> QED
      BY <2>3, <2>4, <3>1
  <2>5. CASE \/ \E t \in Txn : BeginWrite(n, t)
             \/ EnqueueLocal(n) \/ AwaitFSMApplied(n) \/ \E l \in Node : Redirect(n, l)
    <3>1. UNCHANGED <<db, marker>>
      BY <2>5 DEF BeginWrite, EnqueueLocal, AwaitFSMApplied, Redirect, fsmVars
    <3> QED
      BY <2>3, <3>1
  <2>6. CASE \/ ProposeLocal(n) \/ AwaitTimeout(n) \/ \E l \in Node : Forward(n, l)
    <3>1. /\ UNCHANGED db
          /\ marker[n] # "skipped" /\ marker'[n] \in {"pending", "abandoned"}
      BY <2>2, <2>6 DEF ProposeLocal, AwaitTimeout, Forward, fsmVars, MarkerAt
    <3> QED
      BY <2>3, <3>1
  <2>7. CASE RejectLocal(n) \/ EnqueueLocalFails(n) \/ AwaitFails(n)
    <3>1. marker[n] # "skipped"
      BY <2>2, <2>7 DEF RejectLocal, EnqueueLocalFails, AwaitFails, MarkerAt
    <3> QED
      BY <2>4, <2>7, <3>1
      DEF RejectLocal, EnqueueLocalFails, AwaitFails, Outcome
  <2>8. CASE ApplyLost(n)
    <3>1. marker[n] # "skipped"
      BY <2>8 DEF ApplyLost, Clean
    <3> QED
      BY <2>4, <2>8, <3>1 DEF ApplyLost, Outcome
  <2>9. CASE ForwardRejected(n)
    <3>1. wid[n] \in Txn /\ future[wid[n]] = "none"
      BY <2>9 DEF ForwardRejected, LockInv, WriterLock, CallInv, Unproposed
    <3>2. marker[n] # "skipped"
      <4>1. SUFFICES ASSUME marker[n] = "skipped" PROVE FALSE
        OBVIOUS
      <4>2. lastApplied[n] \in 1..Len(committed) /\ committed[lastApplied[n]] = wid[n]
        BY <2>1, <2>2, <4>1, SMTT(60) DEF MarkerAt, FsmInv, FsmIndex
      <4> QED
        BY <3>1, <4>2 DEF LogInv, LogAccepted
    <3> QED
      BY <2>4, <2>9, <3>2 DEF ForwardRejected, Outcome
  <2>10. CASE Publish(n)
    <3>1. marker[n] = "skipped" /\ wid[n] \in Txn
      BY <2>10 DEF Publish, FsmInv, FsmDone, LockInv, WriterLock
    <3>2. /\ lastApplied[n] = Len(db[n]) + 1 /\ lastApplied[n] \in 1..Len(committed)
          /\ committed[lastApplied[n]] = wid[n]
      BY <2>1, <2>2, <3>1, SMTT(60) DEF ReplicaAt, MarkerAt, FsmInv, FsmIndex
    <3>3. db'[n] = Append(db[n], wid[n]) /\ marker'[n] = "none"
      BY <2>10 DEF Publish, EndWrite, FsmType
    <3> QED
      BY <2>1, <3>1, <3>2, <3>3, <1>ReplicaAppend
  <2> QED
    BY <2>5, <2>6, <2>7, <2>8, <2>9, <2>10 DEF Writer
\* Apply publishes the entry after the last one, or leaves it to the writer.
<1>ReplicaFsm. ASSUME TypeOK, LockInv, CallInv, LogInv, FsmInv, LoanInv, Clean, NEW n \in Node,
             ReplicaAt(n), Fsm(n)
      PROVE  ReplicaAt(n)'
  <2> USE <1>ReplicaFsm
  <2> USE DEF TypeOK, WriterType, FsmType
  <2>1. UNCHANGED committed
    BY DEF Fsm, ConsumeMarker, StartApply, AppendOwnLock, BeginLoanAppend,
           EndLoanAppend, Materialize, ApplyReturns, raftVars
  <2>2. Len(committed) \in Nat /\ Len(db[n]) \in Nat /\ lastApplied[n] \in Nat
    BY SMTT(60) DEF LogType
  <2>3. CASE StartApply(n) \/ BeginLoanAppend(n)
    <3>1. UNCHANGED <<db, marker, lastApplied>>
      BY <2>3 DEF StartApply, BeginLoanAppend, writerVars
    <3> QED
      BY <2>1, <2>2, <3>1, <1>ReplicaFrame, SMTT(60)
  <2>4. CASE ConsumeMarker(n)
    <3>1. /\ UNCHANGED db /\ marker[n] = "pending" /\ marker'[n] = "skipped"
          /\ lastApplied'[n] = lastApplied[n] + 1
      BY <2>4 DEF ConsumeMarker, OwnPending, ApplyReturns
    <3> QED
      BY <2>1, <3>1, <1>ReplicaSkip
  <2>5. CASE AppendOwnLock(n) \/ EndLoanAppend(n)
    <3>1. marker[n] = "none"
      BY <2>5, NoWriter
    <3>2. /\ db'[n] = Append(db[n], NextEntry(n)) /\ UNCHANGED marker
          /\ lastApplied'[n] = lastApplied[n] + 1
      BY <2>5 DEF AppendOwnLock, EndLoanAppend, Materialize, ApplyReturns
    <3>3. lastApplied[n] + 1 \in 1..Len(committed) /\ NextEntry(n) \in Txn
      BY <2>5, NextAccepted DEF AppendOwnLock, EndLoanAppend, Applying
    <3>4. lastApplied[n] = Len(db[n])
      BY <2>2, <3>1, SMTT(60) DEF ReplicaAt
    <3>5. NextEntry(n) = committed[Len(db[n]) + 1]
      BY <3>4 DEF NextEntry
    <3> QED
      BY <2>1, <3>1, <3>2, <3>3, <3>4, <3>5, <1>ReplicaAppend
  <2> QED
    BY <2>3, <2>4, <2>5 DEF Fsm
<1> SUFFICES ASSUME TypeOK, LockInv, CallInv, LogInv, FsmInv, LoanInv, ReplicaIsPrefix, Next PROVE ReplicaIsPrefix'
  OBVIOUS
<1> SUFFICES ASSUME Clean', NEW n \in Node
             PROVE  ReplicaAt(n)'
  BY DEF ReplicaIsPrefix
<1>1. Clean /\ ReplicaAt(n)
  BY CleanBefore DEF ReplicaIsPrefix
<1>2. Len(committed) \in Nat
  BY SMTT(60) DEF TypeOK, LogType
<1>3. ASSUME NEW m \in Node, Raft(m) PROVE ReplicaAt(n)'
  <2>1. UNCHANGED <<db, lastApplied, marker>>
    BY <1>3 DEF Raft, Elect, StepDown, LeaveLeader, CommitNoop, CommitNext,
                CommitTail, fsmVars, writerVars
  <2>2. Len(committed') \in Nat
    BY <1>3, TypeNext, SMTT(60) DEF TypeOK, LogType
  <2> QED
    BY <1>1, <1>3, <2>1, <2>2, LogGrows, <1>ReplicaFrame
<1>4. ASSUME UNCHANGED committed, db'[n] = db[n], lastApplied'[n] = lastApplied[n],
             marker'[n] = marker[n]
      PROVE  ReplicaAt(n)'
  BY <1>1, <1>2, <1>4, <1>ReplicaFrame, SMTT(60)
<1>5. ASSUME NEW m \in Node, Leadership(m) PROVE ReplicaAt(n)'
  <2>1. UNCHANGED <<committed, db, lastApplied, marker>>
    BY <1>5 DEF Leadership, WatchLeadership, BarrierPassed, DrainDone, DrainReturn,
                raftVars, fsmVars, writerVars
  <2> QED
    BY <1>4, <2>1
<1>6. ASSUME NEW t \in Txn, Handler(t) PROVE ReplicaAt(n)'
  <2>1. UNCHANGED <<committed, db, lastApplied, marker>>
    BY <1>6 DEF Handler, HandleNotLeader, HandleRequest, HandleBusy, HandleStale,
       HandleLocked, HandlePropose, HandleRefused, HandleEnqueue,
       HandleEnqueueFails, HandleApplied, HandleLost, Respond, Accept, raftVars,
       fsmVars, writerVars
  <2> QED
    BY <1>4, <2>1
<1>7. ASSUME NEW m \in Node \ {n}, Writer(m) \/ \E t \in Txn : BeginWrite(m, t)
      PROVE  ReplicaAt(n)'
  <2>1. UNCHANGED <<committed, lastApplied>> /\ marker'[n] = marker[n]
    BY <1>7 DEF TypeOK, WriterType, Writer, BeginWrite, ProposeLocal, RejectLocal,
       EnqueueLocal, Accept, EnqueueLocalFails, ApplyLost, Publish, Forward,
       Redirect, ForwardRejected, AwaitFSMApplied, AwaitTimeout, AwaitFails, Abort,
       EndWrite, raftVars, fsmVars
  <2>2. db'[n] = db[n]
    BY <1>7 DEF TypeOK, FsmType, Writer, BeginWrite, ProposeLocal, RejectLocal,
       EnqueueLocal, EnqueueLocalFails, ApplyLost, Publish, Forward,
       Redirect, ForwardRejected, AwaitFSMApplied, AwaitTimeout, AwaitFails, Abort,
       fsmVars
  <2> QED
    BY <1>4, <2>1, <2>2, SMTT(60)
<1>8. ASSUME NEW m \in Node \ {n}, Fsm(m) PROVE ReplicaAt(n)'
  <2>1. marker \in [Node -> {"none", "pending", "skipped", "abandoned"}]
        /\ lastApplied \in [Node -> Nat] /\ db \in [Node -> Seq(Txn)]
    BY DEF TypeOK, FsmType, WriterType
  <2>2. UNCHANGED committed
    BY <1>8 DEF Fsm, ConsumeMarker, StartApply, AppendOwnLock, BeginLoanAppend,
       EndLoanAppend, Materialize, ApplyReturns, raftVars
  <2>3. marker'[n] = marker[n]
    BY <1>8, <2>1 DEF Fsm, ConsumeMarker, StartApply, AppendOwnLock, BeginLoanAppend,
       EndLoanAppend, Materialize, ApplyReturns, writerVars
  <2>4. lastApplied'[n] = lastApplied[n]
    BY <1>8, <2>1 DEF Fsm, ConsumeMarker, StartApply, AppendOwnLock, BeginLoanAppend,
       EndLoanAppend, Materialize, ApplyReturns
  <2>5. db'[n] = db[n]
    BY <1>8, <2>1 DEF Fsm, ConsumeMarker, StartApply, AppendOwnLock, BeginLoanAppend,
       EndLoanAppend, Materialize, ApplyReturns
  <2> QED
    BY <1>4, <2>2, <2>3, <2>4, <2>5
<1> QED
  BY <1>1, <1>3, <1>5, <1>6, <1>7, <1>8, <1>ReplicaWriter, <1>ReplicaFsm DEF Next

-----------------------------------------------------------------------------
\* The invariant as a whole.

SafetyInv == /\ TypeOK /\ LockInv /\ CallInv /\ LogInv /\ FsmInv /\ LoanInv
             /\ ReplicaIsPrefix

\* The invariant holds initially.
LEMMA SafetyInit == Init => SafetyInv
PROOF
  <1> SUFFICES ASSUME Init PROVE SafetyInv
    OBVIOUS
  <1>1. TypeOK
    BY TypeInit
  <1>2. LockInv /\ CallInv
    BY ConstAssumption DEF Init, LockInv, WriterLock, OneWriter, HandlerLock,
       OneHandler, CallInv, Unproposed, Running, Held
  <1>3. LogInv
    BY ConstAssumption, SMTT(60)
    DEF Init, LogInv, LogAccepted, LogOnce, CommittedOnce, LogShape
  <1>4. FsmInv /\ LoanInv
    BY SMTT(60) DEF Init, FsmInv, FsmIndex, FsmMarker, MarkerAt, FsmDone, LoanInv, Applying
  <1>5. ReplicaIsPrefix
    <2>1. ASSUME NEW n \in Node PROVE ReplicaAt(n)
      <3>1. /\ Len(db[n]) = 0 /\ Len(committed) = 0 /\ lastApplied[n] = 0
            /\ marker[n] = "none"
        BY DEF Init
      <3> QED
        BY <3>1, SMTT(60) DEF ReplicaAt
    <2> QED
      BY <2>1 DEF ReplicaIsPrefix
  <1> QED
    BY <1>1, <1>2, <1>3, <1>4, <1>5 DEF SafetyInv

\* Every step keeps the invariant.
LEMMA SafetyNext == SafetyInv /\ [Next]_vars => SafetyInv'
PROOF
  <1> SUFFICES ASSUME SafetyInv, [Next]_vars PROVE SafetyInv'
    OBVIOUS
  <1> USE DEF SafetyInv
  <1>1. TypeOK' /\ LockInv' /\ CallInv' /\ LogInv'
    BY TypeNext, LockNext, CallNext, LogNext
  <1>2. CASE Next
    BY <1>1, <1>2, FsmNext, LoanNext, ReplicaNext
  <1>3. CASE UNCHANGED vars
    <2> USE <1>3 DEF vars, raftVars, gateVars, writerVars, fsmVars
    <2>1. FsmInv'
      BY DEF FsmInv, FsmIndex, FsmMarker, MarkerAt, FsmDone, HasApplied, NextEntry, Clean
    <2>2. LoanInv'
      BY DEF LoanInv, Loaned, NextEntry, Clean
    <2>3. ReplicaIsPrefix'
      BY DEF ReplicaIsPrefix, ReplicaAt, Clean
    <2> QED
      BY <1>1, <2>1, <2>2, <2>3
  <1> QED
    BY <1>2, <1>3

\* The inductive invariant holds in every reachable state: the lock discipline,
\* the life of a call, the logs, the FSM, the loans and the replicas.
THEOREM SafetyInvariant == Spec => []SafetyInv
  BY SafetyInit, SafetyNext, PTL DEF Spec

\* Every variable keeps its type; a write is forwarded at most twice.
THEOREM TypeCorrect == Spec => []TypeOK
PROOF
  <1>1. SafetyInv => TypeOK
    BY DEF SafetyInv
  <1> QED
    BY <1>1, SafetyInvariant, PTL

\* For any number of nodes, writes and elections, every replica is the prefix of
\* the log that its FSM has handled (Apply, the skip markers and the loans of
\* fsm.go), as long as none of the recorded races has happened.
THEOREM ReplicasArePrefixes == Spec => []ReplicaIsPrefix
PROOF
  <1>1. SafetyInv => ReplicaIsPrefix
    BY DEF SafetyInv
  <1> QED
    BY <1>1, SafetyInvariant, PTL

\* No transaction commits twice, whatever is forwarded, redirected or retried by
\* forwardToLeader and handleRequest.
THEOREM EntriesCommitOnce == Spec => []CommittedOnce
PROOF
  <1>1. SafetyInv => CommittedOnce
    BY DEF SafetyInv, LogInv, LogOnce
  <1> QED
    BY <1>1, SafetyInvariant, PTL

\* A write reported as Redirect or Retryable (proto/errors) is in no log: no late
\* handler, redirect or inherited tail can commit it afterwards.
THEOREM RetryIsSafe == Spec => []SafeToRetry
PROOF
  <1>1. SafetyInv => SafeToRetry
    BY SMTT(60) DEF SafetyInv, CallInv, LogInv, LogAccepted, SafeToRetry
  <1> QED
    BY <1>1, SafetyInvariant, PTL

=============================================================================
