---------------------------- MODULE ClusterProofs ----------------------------
(***************************************************************************)
(* For any number of nodes, addresses, elections, restarts and changes of  *)
(* the configuration, answered or not: membership calls do not go round in *)
(* circles, there is one cluster, and a node that announced itself is      *)
(* recorded at its address.                                                *)
(***************************************************************************)
EXTENDS Cluster, TLAPS

\* Steps that name no prover are left to Zenon.
USE ZenonT(60)

\* A node is off exactly when it has no address, and then it has nothing open and
\* knows no leader; no two nodes listen on one address.
ProcInv ==
  /\ pc = [n \in Node |-> pc[n]] /\ fns = [n \in Node |-> fns[n]]
  /\ addr \in [Node -> Addr \cup {NoAddr}]
  /\ \A n \in Node : pc[n] = "off" <=> addr[n] = NoAddr
  /\ \A n \in Node : pc[n] = "off" => fns[n] = <<>> /\ view[n] = NoView
  /\ \A m, n \in Node : addr[m] = addr[n] /\ addr[m] # NoAddr => m = n

\* Node n knows a leader other than itself, and so passes calls on.
Passes(n) == view[n].addr # NoAddr /\ view[n].leader # n

\* The winner of the last election still leads.
Leading ==
  LET l == elected.leader
  IN  l \in Node /\ view[l].leader = l /\ view[l].term = elected.term

\* Who listens where the leader of a term was, and passes calls on, knows the leader
\* of a later term.
ViewInv ==
  /\ view \in [Node -> [term : Nat, leader : Node \cup {NoNode}, addr : Addr \cup {NoAddr}]]
  /\ elected.term \in Nat /\ (elected.term > 0 => elected.leader \in Node)
  /\ \A n \in Node : view[n].term <= elected.term
  /\ \A n \in Node : view[n].addr # NoAddr => view[n].term > 0
  /\ \A n \in Node : view[n].leader = n => view[n].addr = addr[n]
  /\ Leading => \A n \in Node : view[n].term = elected.term /\ view[n].addr # NoAddr
                                => view[n].addr = addr[elected.leader]
  /\ \A n, m \in Node : view[n].addr # NoAddr /\ addr[m] = view[n].addr /\ Passes(m)
                        => view[m].term > view[n].term

\* Who is to pass on a call knows the leader of a later term than the call has hops.
CallFields == {"at", "via", "kind", "id", "addr", "hops", "status"}
CallInv ==
  /\ call = [c \in Client |-> call[c]]
  /\ \A c \in Client : DOMAIN call[c] = CallFields /\ call[c].hops \in Nat
  /\ \A c \in Client : call[c].status # "sent" => call[c].hops = 0
  /\ \A c \in Client : call[c].hops <= elected.term
  /\ \A c \in Client, m \in Node :
       call[c].status = "sent" /\ addr[m] = call[c].at /\ Passes(m)
       => view[m].term > call[c].hops
  /\ \A c \in Client :
       call[c].status = "sent" /\ call[c].hops > 0 /\ call[c].hops = elected.term /\ Leading
       => call[c].at = addr[elected.leader]

HopInv == ProcInv /\ ViewInv /\ CallInv

-----------------------------------------------------------------------------
\* Steps at which nobody learns of a leader

\* Nodes forget, and calls begin, end or begin again.
LEMMA Forgetting ==
  ASSUME HopInv, elected' = elected,
         view' = [n \in Node |-> view'[n]],
         \A n \in Node : (view'[n] = view[n] /\ addr'[n] = addr[n]) \/ view'[n] = NoView
  PROVE  ViewInv'
PROOF
<1>1. NoView \in [term : Nat, leader : Node \cup {NoNode}, addr : Addr \cup {NoAddr}]
  BY DEF NoView
<1>2. view' \in [Node -> [term : Nat, leader : Node \cup {NoNode}, addr : Addr \cup {NoAddr}]]
  BY <1>1 DEF HopInv, ViewInv
<1>3. /\ elected'.term \in Nat /\ (elected'.term > 0 => elected'.leader \in Node)
      /\ \A n \in Node : view'[n].term <= elected'.term
  BY SMTT(60) DEF HopInv, ViewInv, NoView
<1>4. \A n \in Node : view'[n].addr # NoAddr => view'[n] = view[n] /\ addr'[n] = addr[n]
  BY SMTT(60) DEF NoView
<1>5. \A n \in Node : view'[n].leader = n => view'[n] = view[n] /\ addr'[n] = addr[n]
  BY NoneAssumption, SMTT(60) DEF NoView
<1>6. Leading' => Leading /\ addr'[elected.leader] = addr[elected.leader]
  BY <1>5 DEF Leading
<1>7. \A n \in Node : Passes(n)' => Passes(n)
  BY <1>4 DEF Passes
<1>8. \A n \in Node : view'[n].addr # NoAddr => view'[n].term > 0
  BY <1>4 DEF HopInv, ViewInv
<1>9. \A n \in Node : view'[n].leader = n => view'[n].addr = addr'[n]
  BY <1>5 DEF HopInv, ViewInv
<1>10. Leading' => \A n \in Node : view'[n].term = elected'.term /\ view'[n].addr # NoAddr
                                   => view'[n].addr = addr'[elected'.leader]
  BY <1>4, <1>6 DEF HopInv, ViewInv
<1>11. \A n, m \in Node : view'[n].addr # NoAddr /\ addr'[m] = view'[n].addr /\ Passes(m)'
                          => view'[m].term > view'[n].term
  <2> SUFFICES ASSUME NEW n \in Node, NEW m \in Node, view'[n].addr # NoAddr,
                      addr'[m] = view'[n].addr, Passes(m)'
               PROVE  view'[m].term > view'[n].term
    OBVIOUS
  <2>1. /\ view'[n] = view[n] /\ view'[m] = view[m] /\ addr'[m] = addr[m] /\ Passes(m)
    BY <1>4, <1>7 DEF Passes
  <2> QED
    BY <2>1 DEF HopInv, ViewInv
<1> QED
  BY <1>2, <1>3, <1>8, <1>9, <1>10, <1>11 DEF ViewInv

LEMMA ForgettingCalls ==
  ASSUME HopInv, elected' = elected,
         \A n \in Node : (view'[n] = view[n] /\ addr'[n] = addr[n]) \/ view'[n] = NoView,
         call' = [c \in Client |-> call'[c]],
         \A c \in Client : \/ call'[c] = call[c]
                           \/ DOMAIN call'[c] = CallFields /\ call'[c].hops = 0
  PROVE  CallInv'
PROOF
<1>1. \A n \in Node : Passes(n)' => Passes(n) /\ view'[n] = view[n] /\ addr'[n] = addr[n]
  BY SMTT(60) DEF Passes, NoView
<1>2. Leading' => Leading /\ addr'[elected.leader] = addr[elected.leader]
  BY NoneAssumption, SMTT(60) DEF Leading, NoView
<1>3. \A c \in Client : DOMAIN call'[c] = CallFields /\ call'[c].hops \in Nat
  BY SMTT(60) DEF HopInv, CallInv
<1>4. \A c \in Client : call'[c].status # "sent" => call'[c].hops = 0
  BY DEF HopInv, CallInv
<1>5. \A c \in Client : call'[c].hops <= elected'.term
  BY SMTT(60) DEF HopInv, CallInv, ViewInv
<1>6. ASSUME NEW c \in Client, NEW m \in Node,
             call'[c].status = "sent", addr'[m] = call'[c].at, Passes(m)'
      PROVE  view'[m].term > call'[c].hops
  <2>1. view'[m].term > 0 /\ Passes(m) /\ view'[m] = view[m] /\ addr'[m] = addr[m]
    BY <1>1, <1>6 DEF HopInv, ViewInv, Passes
  <2> QED
    BY <1>6, <2>1 DEF HopInv, CallInv
<1>7. ASSUME NEW c \in Client, call'[c].status = "sent", call'[c].hops > 0,
             call'[c].hops = elected'.term, Leading'
      PROVE  call'[c].at = addr'[elected'.leader]
  BY <1>2, <1>7, SMTT(60) DEF HopInv, CallInv
<1> QED
  BY <1>3, <1>4, <1>5, <1>6, <1>7 DEF CallInv

\* A node that is on stays on, and may do anything else.
LEMMA StaysOn ==
  ASSUME ProcInv, addr' = addr,
         pc' = [n \in Node |-> pc'[n]], fns' = [n \in Node |-> fns'[n]],
         \A n \in Node : \/ pc'[n] = pc[n] /\ fns'[n] = fns[n] /\ view'[n] \in {view[n], NoView}
                         \/ pc[n] # "off" /\ pc'[n] # "off"
  PROVE  ProcInv'
BY DEF ProcInv

\* The same for the one node that acts.
LEMMA OneStaysOn ==
  ASSUME ProcInv, addr' = addr, NEW n \in Node, pc[n] # "off", NEW label, label # "off",
         pc' = [pc EXCEPT ![n] = label] \/ pc' = pc,
         NEW open, fns' = [fns EXCEPT ![n] = open] \/ fns' = fns,
         \A m \in Node : m # n => view'[m] = view[m]
  PROVE  ProcInv'
PROOF
<1>1. pc' = [m \in Node |-> pc'[m]] /\ fns' = [m \in Node |-> fns'[m]]
  BY DEF ProcInv
<1>2. pc'[n] # "off" /\ \A m \in Node : m # n => pc'[m] = pc[m] /\ fns'[m] = fns[m]
  BY DEF ProcInv
<1> QED
  BY <1>1, <1>2, StaysOn

\* Steps of a node being built or announced that make no call.
LEMMA QuietStep ==
  ASSUME HopInv, NEW n \in Node,
         \/ Build(n) \/ BuildFails(n) \/ Bootstrap(n) \/ Unmoved(n) \/ Reannounce(n)
         \/ ReannounceFails(n) \/ Stop(n) \/ CloseTransport(n)
  PROVE  HopInv'
PROOF
<1>1. UNCHANGED <<addr, elected, view, call>>
  BY DEF Build, BuildFails, Bootstrap, Unmoved, Reannounce, ReannounceFails, Stop,
         CloseTransport, raftVars
<1>2. ProcInv'
  <2>1. CASE Build(n)
    <3> DEFINE r == Resources[Len(fns[n]) + 1]
               label == IF Len(fns'[n]) = Announcing THEN "announce"
                        ELSE IF r = "db" THEN "serving" ELSE pc[n]
    <3>1. /\ pc[n] \in {"build", "rest"} /\ fns' = [fns EXCEPT ![n] = Append(fns[n], r)]
          /\ pc' = [pc EXCEPT ![n] = label]
      BY <2>1 DEF Build
    <3>2. label # "off"
      BY <3>1
    <3> HIDE DEF label, r
    <3> QED
      BY <1>1, <3>1, <3>2, OneStaysOn DEF HopInv
  <2>2. CASE BuildFails(n) \/ Stop(n)
    <3>1. pc[n] # "off" /\ pc' = [pc EXCEPT ![n] = "shutdown"] /\ fns' = fns
      BY <2>2 DEF BuildFails, Stop
    <3> QED
      BY <1>1, <3>1, OneStaysOn DEF HopInv
  <2>3. CASE Bootstrap(n) \/ Unmoved(n) \/ ReannounceFails(n)
    <3>1. pc[n] # "off" /\ pc' = [pc EXCEPT ![n] = "rest"] /\ fns' = fns
      BY <2>3 DEF Bootstrap, Unmoved, ReannounceFails, Rest
    <3> QED
      BY <1>1, <3>1, OneStaysOn DEF HopInv
  <2>4. CASE Reannounce(n)
    <3>1. pc[n] # "off" /\ pc' = [pc EXCEPT ![n] = "reannounce"] /\ fns' = fns
      BY <2>4 DEF Reannounce
    <3> QED
      BY <1>1, <3>1, OneStaysOn DEF HopInv
  <2>5. CASE CloseTransport(n)
    <3>1. pc[n] # "off" /\ pc' = [pc EXCEPT ![n] = "stopping"] /\ fns' = fns
      BY <2>5 DEF CloseTransport
    <3> QED
      BY <1>1, <3>1, OneStaysOn DEF HopInv
  <2> QED
    BY <2>1, <2>2, <2>3, <2>4, <2>5
<1>3. view = [m \in Node |-> view[m]] /\ call = [c \in Client |-> call[c]]
  BY DEF HopInv, ViewInv, CallInv
<1>4. ViewInv' /\ CallInv'
  BY <1>1, <1>3, Forgetting, ForgettingCalls
<1> QED
  BY <1>2, <1>4 DEF HopInv

\* Steps that replace one call by one without hops, and leave raft alone.
LEMMA CallStep ==
  ASSUME HopInv, NEW c \in Client, NEW k, call' = [call EXCEPT ![c] = k],
         DOMAIN k = CallFields, k.hops = 0,
         UNCHANGED <<addr, elected, view>>, ProcInv'
  PROVE  HopInv'
PROOF
<1>1. call' = [d \in Client |-> call'[d]]
  BY DEF HopInv, CallInv
<1>2. \A d \in Client : call'[d] = IF d = c THEN k ELSE call[d]
  BY DEF HopInv, CallInv
<1>3. view = [m \in Node |-> view[m]]
  BY DEF HopInv, ViewInv
<1>4. ViewInv' /\ CallInv'
  BY <1>1, <1>2, <1>3, Forgetting, ForgettingCalls
<1> QED
  BY <1>4 DEF HopInv

LEMMA JoinStep ==
  ASSUME HopInv, NEW n \in Node, NEW a \in Addr, Join(n, a)
  PROVE  HopInv'
PROOF
<1> DEFINE k == [NoCall EXCEPT !.at = a, !.via = a, !.kind = "add", !.id = n,
                               !.addr = addr[n], !.status = "sent"]
<1>1. DOMAIN k = CallFields /\ k.hops = 0
  BY DEF NoCall, CallFields
<1>2. call' = [call EXCEPT ![n] = k] /\ UNCHANGED <<pc, fns, addr, elected, view>>
  BY DEF Join, raftVars
<1>3. ProcInv'
  BY <1>2 DEF HopInv, ProcInv
<1> HIDE DEF k
<1> QED
  BY <1>1, <1>2, <1>3, CallStep DEF Client

LEMMA JoinedStep ==
  ASSUME HopInv, NEW n \in Node, Joined(n) \/ JoinFails(n)
  PROVE  HopInv'
PROOF
<1>1. DOMAIN NoCall = CallFields /\ NoCall.hops = 0
  BY DEF NoCall, CallFields
<1>2. /\ call' = [call EXCEPT ![n] = NoCall] /\ UNCHANGED <<fns, addr, elected, view>>
      /\ pc[n] # "off"
      /\ \/ pc' = [pc EXCEPT ![n] = "rest"] \/ pc' = [pc EXCEPT ![n] = "shutdown"] \/ pc' = pc
  BY DEF Joined, JoinFails, Rest, raftVars
<1>3. ProcInv'
  BY <1>2, OneStaysOn, SMTT(60) DEF HopInv
<1> QED
  BY <1>1, <1>2, <1>3, CallStep DEF Client

LEMMA LeaveStep ==
  ASSUME HopInv, NEW n \in Node, NEW a \in Addr, Leave(n, a)
  PROVE  HopInv'
PROOF
<1> DEFINE k == [NoCall EXCEPT !.at = a, !.kind = "remove", !.id = n, !.status = "sent"]
<1>1. DOMAIN k = CallFields /\ k.hops = 0
  BY DEF NoCall, CallFields
<1>2. call' = [call EXCEPT ![Admin] = k] /\ UNCHANGED <<pc, fns, addr, elected, view>>
  BY DEF Leave, Put, procVars, raftVars
<1>3. ProcInv'
  BY <1>2 DEF HopInv, ProcInv
<1> HIDE DEF k
<1> QED
  BY <1>1, <1>2, <1>3, CallStep DEF Client

\* What an answer leaves of a call.
LEMMA Answered ==
  ASSUME HopInv, NEW c \in Client, NEW status, Answer(c, status)
  PROVE  \E k : DOMAIN k = CallFields /\ k.hops = 0 /\ call' = [call EXCEPT ![c] = k]
PROOF
<1> DEFINE k == IF c = Admin THEN NoCall ELSE [call[c] EXCEPT !.status = status, !.hops = 0]
<1>1. DOMAIN call[c] = CallFields
  BY DEF HopInv, CallInv
<1>2. DOMAIN k = CallFields /\ k.hops = 0
  BY <1>1 DEF NoCall, CallFields
<1>3. call' = [call EXCEPT ![c] = k]
  BY DEF Answer, Put
<1> HIDE DEF k
<1> QED
  BY <1>2, <1>3

LEMMA AnswerStep ==
  ASSUME HopInv, NEW c \in Client,
         \/ Unavailable(c) \/ CallFails(c) \/ GiveUp(c, "failed") \/ GiveUp(c, "unavailable")
         \/ Retry(c)
  PROVE  HopInv'
PROOF
<1>1. UNCHANGED <<pc, fns, addr, elected, view>>
  BY DEF Unavailable, CallFails, GiveUp, Retry, procVars, raftVars
<1>2. ProcInv'
  BY <1>1 DEF HopInv, ProcInv
<1>3. \E k : DOMAIN k = CallFields /\ k.hops = 0 /\ call' = [call EXCEPT ![c] = k]
  <2>1. CASE Unavailable(c)
    BY <2>1, Answered DEF Unavailable
  <2>2. CASE CallFails(c)
    BY <2>2, Answered DEF CallFails
  <2>3. CASE Retry(c)
    <3> DEFINE k == [call[c] EXCEPT !.at = call[c].via, !.status = "sent"]
    <3>1. call' = [call EXCEPT ![c] = k]
      BY <2>3 DEF Retry, Put
    <3>2. DOMAIN call[c] = CallFields /\ call[c].hops = 0
      BY <2>3 DEF HopInv, CallInv, Retry
    <3>3. DOMAIN k = CallFields /\ k.hops = 0
      BY <3>2 DEF CallFields
    <3> HIDE DEF k
    <3> QED
      BY <3>1, <3>3
  <2>4. CASE GiveUp(c, "failed") \/ GiveUp(c, "unavailable")
    BY <2>4, Answered DEF GiveUp
  <2> QED
    BY <2>1, <2>2, <2>3, <2>4
<1> QED
  BY <1>1, <1>2, <1>3, CallStep

\* A leader that removes itself, or commits another change.
LEMMA CommitView ==
  ASSUME HopInv, NEW n \in Node, NEW k, Commit(n, k)
  PROVE  /\ view' = [m \in Node |-> view'[m]]
         /\ \A m \in Node : view'[m] = view[m] \/ view'[m] = NoView
PROOF
<1>1. view' = view \/ view' = [view EXCEPT ![n] = NoView]
  BY DEF Commit
<1> QED
  BY <1>1 DEF HopInv, ViewInv

LEMMA ChangeStep ==
  ASSUME HopInv, NEW c \in Client, Change(c)
  PROVE  HopInv'
PROOF
<1>1. UNCHANGED <<pc, fns, addr, elected>>
  BY DEF Change, procVars
<1>2. PICK n \in Node : Commit(n, call[c])
  BY DEF Change, At
<1>3. /\ view' = [m \in Node |-> view'[m]]
      /\ \A m \in Node : view'[m] = view[m] \/ view'[m] = NoView
  BY <1>2, CommitView
<1>4. PICK k : DOMAIN k = CallFields /\ k.hops = 0 /\ call' = [call EXCEPT ![c] = k]
  BY Answered DEF Change
<1>5. /\ call' = [d \in Client |-> call'[d]]
      /\ \A d \in Client : call'[d] = IF d = c THEN k ELSE call[d]
  BY <1>4 DEF HopInv, CallInv
<1>6. ProcInv'
  BY <1>1, <1>3 DEF HopInv, ProcInv
<1>7. ViewInv' /\ CallInv'
  BY <1>1, <1>3, <1>4, <1>5, Forgetting, ForgettingCalls
<1> QED
  BY <1>6, <1>7 DEF HopInv

LEMMA CommitLateStep ==
  ASSUME HopInv, NEW i \in 1..MaxLate, CommitLate(i)
  PROVE  HopInv'
PROOF
<1>1. UNCHANGED <<pc, fns, addr, elected, call>>
  BY DEF CommitLate, procVars
<1>2. PICK n \in Node : Commit(n, late[i])
  BY DEF CommitLate
<1>3. /\ view' = [m \in Node |-> view'[m]]
      /\ \A m \in Node : view'[m] = view[m] \/ view'[m] = NoView
  BY <1>2, CommitView
<1>4. ProcInv'
  BY <1>1, <1>3 DEF HopInv, ProcInv
<1>5. call = [c \in Client |-> call[c]]
  BY DEF HopInv, CallInv
<1>6. ViewInv' /\ CallInv'
  BY <1>1, <1>3, <1>5, Forgetting, ForgettingCalls
<1> QED
  BY <1>4, <1>6 DEF HopInv

LEMMA DoubtStep ==
  ASSUME HopInv, NEW n \in Node, Doubt(n)
  PROVE  HopInv'
PROOF
<1>1. UNCHANGED <<pc, fns, addr, elected, call>> /\ view' = [view EXCEPT ![n] = NoView]
  BY DEF Doubt, procVars
<1>2. /\ view' = [m \in Node |-> view'[m]]
      /\ \A m \in Node : view'[m] = view[m] \/ view'[m] = NoView
  BY <1>1 DEF HopInv, ViewInv
<1>3. ProcInv'
  BY <1>1, <1>2 DEF HopInv, ProcInv
<1>4. call = [c \in Client |-> call[c]]
  BY DEF HopInv, CallInv
<1>5. ViewInv' /\ CallInv'
  BY <1>1, <1>2, <1>4, Forgetting, ForgettingCalls
<1> QED
  BY <1>3, <1>5 DEF HopInv

\* A process that ends.
LEMMA GoneStep ==
  ASSUME HopInv, NEW n \in Node, Gone(n), fns' = [fns EXCEPT ![n] = <<>>], elected' = elected
  PROVE  HopInv'
PROOF
<1>1. /\ addr' = [addr EXCEPT ![n] = NoAddr] /\ pc' = [pc EXCEPT ![n] = "off"]
      /\ call' = [call EXCEPT ![n] = NoCall] /\ view' = [view EXCEPT ![n] = NoView]
  BY DEF Gone
<1>2. /\ pc' = [m \in Node |-> pc'[m]] /\ fns' = [m \in Node |-> fns'[m]]
      /\ addr' \in [Node -> Addr \cup {NoAddr}]
  BY <1>1 DEF HopInv, ProcInv
<1>3. /\ pc'[n] = "off" /\ fns'[n] = <<>> /\ addr'[n] = NoAddr
      /\ \A m \in Node : m # n => pc'[m] = pc[m] /\ fns'[m] = fns[m] /\ addr'[m] = addr[m]
  <2>1. pc'[n] = "off" /\ \A m \in Node : m # n => pc'[m] = pc[m]
    BY <1>1 DEF HopInv, ProcInv
  <2>2. fns'[n] = <<>> /\ \A m \in Node : m # n => fns'[m] = fns[m]
    BY DEF HopInv, ProcInv
  <2>3. addr'[n] = NoAddr /\ \A m \in Node : m # n => addr'[m] = addr[m]
    BY <1>1 DEF HopInv, ProcInv
  <2> QED
    BY <2>1, <2>2, <2>3
<1>4. /\ view' = [m \in Node |-> view'[m]] /\ view'[n] = NoView
      /\ \A m \in Node : m # n => view'[m] = view[m]
  BY <1>1 DEF HopInv, ViewInv
<1>5. n \in Client /\ DOMAIN NoCall = CallFields /\ NoCall.hops = 0
  BY DEF Client, NoCall, CallFields
<1>6. /\ call' = [c \in Client |-> call'[c]]
      /\ \A c \in Client : call'[c] = IF c = n THEN NoCall ELSE call[c]
  BY <1>1, <1>5 DEF HopInv, CallInv
<1>7. ProcInv'
  <2>1. \A m \in Node : pc'[m] = "off" <=> addr'[m] = NoAddr
    BY <1>3 DEF HopInv, ProcInv
  <2>2. \A m \in Node : pc'[m] = "off" => fns'[m] = <<>> /\ view'[m] = NoView
    BY <1>3, <1>4 DEF HopInv, ProcInv
  <2>3. ASSUME NEW k \in Node, NEW m \in Node, addr'[k] = addr'[m], addr'[k] # NoAddr
        PROVE  k = m
    <3>1. addr'[k] = addr[k] /\ addr'[m] = addr[m]
      BY <1>3, <2>3
    <3> QED
      BY <2>3, <3>1 DEF HopInv, ProcInv
  <2>4. NoView' = NoView
    BY DEF NoView
  <2> QED
    BY <1>2, <2>1, <2>2, <2>3, <2>4 DEF ProcInv
<1>8. \A m \in Node : (view'[m] = view[m] /\ addr'[m] = addr[m]) \/ view'[m] = NoView
  BY <1>3, <1>4
<1>9. ViewInv' /\ CallInv'
  BY <1>4, <1>5, <1>6, <1>8, Forgetting, ForgettingCalls
<1> QED
  BY <1>7, <1>9 DEF HopInv

LEMMA CloseStep ==
  ASSUME HopInv, NEW n \in Node, Close(n)
  PROVE  HopInv'
PROOF
<1> DEFINE rest == SubSeq(fns[n], 1, Len(fns[n]) - 1)
<1>1. /\ pc[n] = "shutdown" /\ fns' = [fns EXCEPT ![n] = rest]
      /\ view' = [view EXCEPT ![n] = NoView] \/ view' = view
      /\ UNCHANGED <<addr, pc, call, elected>>
  BY DEF Close
<1> HIDE DEF rest
<1>2. /\ view' = [m \in Node |-> view'[m]]
      /\ \A m \in Node : view'[m] = view[m] \/ view'[m] = NoView
      /\ \A m \in Node : m # n => view'[m] = view[m]
  BY <1>1 DEF HopInv, ViewInv
<1>3. ProcInv'
  BY <1>1, <1>2, OneStaysOn DEF HopInv
<1>4. call = [c \in Client |-> call[c]]
  BY DEF HopInv, CallInv
<1>5. ViewInv' /\ CallInv'
  BY <1>1, <1>2, <1>4, Forgetting, ForgettingCalls
<1> QED
  BY <1>3, <1>5 DEF HopInv

LEMMA ListenStep ==
  ASSUME HopInv, NEW n \in Node, NEW a \in Addr, Listen(n, a)
  PROVE  HopInv'
PROOF
<1>1. /\ pc[n] = "off" /\ (\A m \in Node : addr[m] # a)
      /\ addr' = [addr EXCEPT ![n] = a] /\ fns' = [fns EXCEPT ![n] = <<"grpc">>]
      /\ pc' = [pc EXCEPT ![n] = "build"] /\ UNCHANGED <<elected, view, call>>
  BY DEF Listen, raftVars
<1>2. /\ pc' = [m \in Node |-> pc'[m]] /\ fns' = [m \in Node |-> fns'[m]]
      /\ addr' \in [Node -> Addr \cup {NoAddr}]
  BY <1>1 DEF HopInv, ProcInv
<1>3. pc'[n] = "build" /\ \A m \in Node : m # n => pc'[m] = pc[m] /\ fns'[m] = fns[m]
  BY <1>1 DEF HopInv, ProcInv
<1>4. addr'[n] = a /\ \A m \in Node : m # n => addr'[m] = addr[m]
  BY <1>1 DEF HopInv, ProcInv
<1>5. ProcInv'
  BY <1>1, <1>2, <1>3, <1>4, NoneAssumption, SMTT(60) DEF HopInv, ProcInv
<1>6. \A m \in Node : (view'[m] = view[m] /\ addr'[m] = addr[m]) \/ view'[m] = NoView
  BY <1>1, <1>4 DEF HopInv, ProcInv
<1>7. view = [m \in Node |-> view[m]] /\ call = [c \in Client |-> call[c]]
  BY DEF HopInv, ViewInv, CallInv
<1>8. ViewInv' /\ CallInv'
  BY <1>1, <1>6, <1>7, Forgetting, ForgettingCalls
<1> QED
  BY <1>5, <1>8 DEF HopInv

-----------------------------------------------------------------------------
\* Steps at which somebody learns of a leader, or a call is passed on

\* Who serves is on.
LEMMA ServesIsOn ==
  ASSUME HopInv, NEW n \in Node, Serves(n)
  PROVE  pc[n] # "off" /\ addr[n] # NoAddr
PROOF
<1>1. Range(<<>>) = {}
  BY SMTT(60) DEF Range
<1> QED
  BY <1>1 DEF HopInv, ProcInv, Serves

\* The call goes to a node that knows the leader of a later term, or is the leader.
LEMMA ForwardStep ==
  ASSUME HopInv, NEW c \in Client, ForwardCall(c)
  PROVE  HopInv'
PROOF
<1>1. PICK n \in Node : /\ addr[n] = call[c].at /\ Passes(n)
                        /\ call' = [call EXCEPT ![c] = [call[c] EXCEPT !.at = view[n].addr,
                                                                       !.hops = @ + 1]]
  BY DEF ForwardCall, At, Put, LeaderClient, IsLeader, Passes
<1>2. /\ call[c].status = "sent" /\ UNCHANGED <<pc, fns, addr, elected, view>>
  BY DEF ForwardCall, procVars, raftVars
<1>3. DOMAIN call[c] = CallFields /\ call[c].hops \in Nat
  BY DEF HopInv, CallInv
<1>4. /\ DOMAIN call'[c] = CallFields /\ call'[c].hops = call[c].hops + 1
      /\ call'[c].at = view[n].addr /\ call'[c].status = "sent"
  BY <1>1, <1>2, <1>3 DEF HopInv, CallInv, CallFields
<1>5. /\ call' = [d \in Client |-> call'[d]]
      /\ \A d \in Client : d # c => call'[d] = call[d]
  BY <1>1 DEF HopInv, CallInv
<1>6. view[n].term \in Nat /\ elected.term \in Nat
  BY DEF HopInv, ViewInv
<1>7. view[n].term >= call'[c].hops /\ view[n].term <= elected.term
  BY <1>1, <1>2, <1>3, <1>4, <1>6, SMTT(60) DEF HopInv, CallInv, ViewInv
<1>8. ASSUME NEW m \in Node, addr[m] = call'[c].at, Passes(m)
      PROVE  view[m].term > call'[c].hops
  <2>1. view[m].term \in Nat /\ view[m].term > view[n].term
    BY <1>1, <1>4, <1>8 DEF HopInv, ViewInv, Passes
  <2> QED
    BY <1>3, <1>4, <1>6, <1>7, <2>1, SMTT(60)
<1>9. ASSUME call'[c].hops = elected.term, Leading
      PROVE  call'[c].at = addr[elected.leader]
  <2>1. view[n].term = elected.term
    BY <1>3, <1>4, <1>6, <1>7, <1>9, SMTT(60)
  <2> QED
    BY <1>1, <1>4, <1>9, <2>1 DEF HopInv, ViewInv, Passes
<1>10. ProcInv' /\ ViewInv' /\ (Leading' <=> Leading) /\ \A m \in Node : Passes(m)' <=> Passes(m)
  BY <1>2 DEF HopInv, ProcInv, ViewInv, Leading, Passes
<1>11. CallInv'
  BY <1>2, <1>3, <1>4, <1>5, <1>6, <1>7, <1>8, <1>9, <1>10, SMTT(60) DEF HopInv, CallInv
<1> QED
  BY <1>10, <1>11 DEF HopInv

\* The winner leads in a term that nobody and no call has seen yet.
LEMMA ElectStep ==
  ASSUME HopInv, NEW n \in Node, Elect(n)
  PROVE  HopInv'
PROOF
<1> DEFINE new == [term |-> elected.term + 1, leader |-> n, addr |-> addr[n]]
<1>1. /\ Serves(n) /\ UNCHANGED <<pc, fns, addr, call>>
      /\ elected' = [term |-> elected.term + 1, leader |-> n]
      /\ view' = [view EXCEPT ![n] = new]
  BY DEF Elect, procVars
<1>2. pc[n] # "off" /\ addr[n] # NoAddr
  BY <1>1, ServesIsOn
<1>3. elected.term \in Nat /\ elected'.term = elected.term + 1 /\ elected'.leader = n
  BY <1>1 DEF HopInv, ViewInv
<1>4. new \in [term : Nat, leader : Node \cup {NoNode}, addr : Addr \cup {NoAddr}]
  BY <1>3, SMTT(60) DEF HopInv, ProcInv
<1>5. new.term = elected.term + 1 /\ new.leader = n /\ new.addr = addr[n]
  OBVIOUS
<1> HIDE DEF new
<1>6. view' \in [Node -> [term : Nat, leader : Node \cup {NoNode}, addr : Addr \cup {NoAddr}]]
  BY <1>1, <1>4 DEF HopInv, ViewInv
<1>7. view'[n] = new /\ \A m \in Node : m # n => view'[m] = view[m]
  BY <1>1 DEF HopInv, ViewInv
<1>8. \A m \in Node : Passes(m)' => m # n /\ Passes(m)
  BY <1>5, <1>7 DEF Passes
<1>9. \A m \in Node : m # n => view'[m].term \in Nat /\ view'[m].term <= elected.term
  BY <1>7 DEF HopInv, ViewInv
<1>10. ProcInv'
  BY <1>1, <1>2, <1>7, OneStaysOn, SMTT(60) DEF HopInv
<1>11. ViewInv'
  <2>1. elected'.term \in Nat /\ \A m \in Node : view'[m].term <= elected'.term
    BY <1>3, <1>5, <1>7, <1>9, SMTT(60)
  <2>2. \A m \in Node : view'[m].addr # NoAddr => view'[m].term > 0
    BY <1>3, <1>5, <1>7, SMTT(60) DEF HopInv, ViewInv
  <2>3. \A m \in Node : view'[m].leader = m => view'[m].addr = addr'[m]
    BY <1>1, <1>5, <1>7 DEF HopInv, ViewInv
  <2>4. \A m \in Node : view'[m].term = elected'.term => m = n
    BY <1>3, <1>9, SMTT(60)
  <2>5. \A m \in Node : view'[m].term = elected'.term => view'[m].addr = addr'[elected'.leader]
    BY <1>1, <1>3, <1>5, <1>7, <2>4
  <2>6. ASSUME NEW k \in Node, NEW m \in Node, view'[k].addr # NoAddr,
               addr'[m] = view'[k].addr, Passes(m)'
        PROVE  view'[m].term > view'[k].term
    <3>1. m # n /\ Passes(m) /\ view'[m] = view[m] /\ addr[m] = view'[k].addr
      BY <1>1, <1>7, <1>8, <2>6
    <3>2. k # n
      BY <1>2, <1>5, <1>7, <3>1, SMTT(60) DEF HopInv, ProcInv
    <3> QED
      BY <1>7, <2>6, <3>1, <3>2 DEF HopInv, ViewInv
  <2> QED
    BY <1>3, <1>6, <2>1, <2>2, <2>3, <2>5, <2>6 DEF ViewInv
<1>12. CallInv'
  <2>1. \A c \in Client : call[c].hops \in Nat /\ call[c].hops < elected'.term
    BY <1>3, SMTT(60) DEF HopInv, CallInv
  <2>2. \A c \in Client, m \in Node :
          call[c].status = "sent" /\ addr[m] = call[c].at /\ Passes(m)'
          => view'[m].term > call[c].hops
    BY <1>7, <1>8 DEF HopInv, CallInv
  <2> QED
    BY <1>1, <1>3, <2>1, <2>2, SMTT(60) DEF HopInv, CallInv
<1> QED
  BY <1>10, <1>11, <1>12 DEF HopInv

\* Who hears of the last term's leader has another address than that leader.
LEMMA HearStep ==
  ASSUME HopInv, NEW n \in Node, Hear(n)
  PROVE  HopInv'
PROOF
<1> DEFINE l == elected.leader
<1>1. /\ Serves(n) /\ l # n /\ view[l].leader = l /\ view[l].term = elected.term
      /\ elected.term > 0 /\ UNCHANGED <<pc, fns, addr, call, elected>>
      /\ view' = [view EXCEPT ![n] = view[l]]
  BY DEF Hear, procVars, IsLeader
<1>2. pc[n] # "off" /\ addr[n] # NoAddr
  BY <1>1, ServesIsOn
<1>3. l \in Node /\ Leading /\ elected.term \in Nat
  BY <1>1 DEF HopInv, ViewInv, Leading
<1>4. view[l].addr = addr[l] /\ addr[l] # addr[n]
  BY <1>1, <1>2, <1>3 DEF HopInv, ViewInv, ProcInv
<1>5. view' \in [Node -> [term : Nat, leader : Node \cup {NoNode}, addr : Addr \cup {NoAddr}]]
  BY <1>1, <1>3 DEF HopInv, ViewInv
<1>6. view'[n] = view[l] /\ \A m \in Node : m # n => view'[m] = view[m]
  BY <1>1 DEF HopInv, ViewInv
<1> HIDE DEF l
<1>7. elected.leader = l /\ elected'.leader = l /\ elected'.term = elected.term
  BY <1>1 DEF l
<1>8. \A m \in Node : Passes(m)' => m = n \/ Passes(m)
  BY <1>6 DEF Passes
<1>9. ProcInv'
  BY <1>1, <1>2, <1>6, OneStaysOn DEF HopInv
<1>10. Leading'
  BY <1>1, <1>3, <1>6, <1>7 DEF Leading
<1>11. \A m \in Node : /\ view[m].term \in Nat /\ view[m].term <= elected.term
                       /\ view[m].term = elected.term /\ view[m].addr # NoAddr
                          => view[m].addr = addr[l]
  BY <1>3, <1>7 DEF HopInv, ViewInv
<1>12. ViewInv'
  <2>1. \A m \in Node : view'[m].term <= elected'.term
    BY <1>1, <1>3, <1>6, <1>7, <1>11
  <2>2. \A m \in Node : view'[m].addr # NoAddr => view'[m].term > 0
    BY <1>1, <1>6 DEF HopInv, ViewInv
  <2>3. \A m \in Node : view'[m].leader = m => view'[m].addr = addr'[m]
    BY <1>1, <1>6 DEF HopInv, ViewInv
  <2>4. \A m \in Node : view'[m].term = elected'.term /\ view'[m].addr # NoAddr
                        => view'[m].addr = addr'[elected'.leader]
    BY <1>1, <1>4, <1>6, <1>7, <1>11, SMTT(60)
  <2>5. ASSUME NEW k \in Node, NEW m \in Node, view'[k].addr # NoAddr,
               addr'[m] = view'[k].addr, Passes(m)'
        PROVE  view'[m].term > view'[k].term
    <3>1. addr[m] = view'[k].addr
      BY <1>1, <2>5
    <3>2. CASE k = n
      <4>1. m = l
        BY <1>3, <1>4, <1>6, <2>5, <3>1, <3>2, SMTT(60) DEF HopInv, ProcInv
      <4> QED
        BY <1>1, <1>6, <2>5, <4>1 DEF Passes
    <3>3. CASE k # n /\ m = n
      <4>1. view'[k] = view[k] /\ view'[m] = view[l] /\ view[k].addr = addr[n]
        BY <1>6, <3>1, <3>3
      <4>2. view[k].term # elected.term
        BY <1>4, <1>11, <2>5, <4>1
      <4> QED
        BY <1>1, <1>3, <1>11, <4>1, <4>2, SMTT(60)
    <3>4. CASE k # n /\ m # n
      <4>1. view'[k] = view[k] /\ view'[m] = view[m] /\ Passes(m)
        BY <1>6, <1>8, <2>5, <3>4
      <4> QED
        BY <2>5, <3>1, <4>1 DEF HopInv, ViewInv
    <3> QED
      BY <3>2, <3>3, <3>4
  <2> QED
    BY <1>3, <1>5, <1>7, <2>1, <2>2, <2>3, <2>4, <2>5 DEF ViewInv
<1>13. CallInv'
  <2>1. ASSUME NEW c \in Client, NEW m \in Node,
               call[c].status = "sent", addr[m] = call[c].at, Passes(m)'
        PROVE  view'[m].term > call[c].hops
    <3>1. CASE m # n
      BY <1>6, <1>8, <2>1, <3>1 DEF HopInv, CallInv
    <3>2. CASE m = n
      <4>1. call[c].hops \in Nat /\ call[c].hops <= elected.term
        BY DEF HopInv, CallInv
      <4>2. call[c].hops # elected.term
        BY <1>1, <1>3, <1>4, <1>7, <2>1, <3>2 DEF HopInv, CallInv
      <4> QED
        BY <1>1, <1>3, <1>6, <3>2, <4>1, <4>2, SMTT(60)
    <3> QED
      BY <3>1, <3>2
  <2> QED
    BY <1>1, <1>3, <1>7, <2>1 DEF HopInv, CallInv
<1> QED
  BY <1>9, <1>12, <1>13 DEF HopInv

-----------------------------------------------------------------------------

LEMMA HopInvInit == Init => HopInv
PROOF
<1> SUFFICES ASSUME Init PROVE HopInv
  OBVIOUS
<1>1. ProcInv
  BY DEF Init, ProcInv
<1>2. ViewInv
  BY NoneAssumption, SMTT(60) DEF Init, ViewInv, NoView, Leading, Passes
<1>3. CallInv
  <2>1. call = [c \in Client |-> NoCall] /\ elected.term = 0
    BY DEF Init
  <2>2. \A c \in Client : call[c].hops = 0 /\ call[c].status = "none" /\ DOMAIN call[c] = CallFields
    BY <2>1 DEF NoCall, CallFields
  <2> QED
    BY <2>1, <2>2, SMTT(60) DEF CallInv
<1> QED
  BY <1>1, <1>2, <1>3 DEF HopInv

LEMMA HopInvNext == HopInv /\ [Next]_vars => HopInv'
PROOF
<1> SUFFICES ASSUME HopInv, [Next]_vars PROVE HopInv'
  OBVIOUS
<1>1. ASSUME UNCHANGED <<pc, fns, addr, elected, view, call>>
      PROVE  HopInv'
  BY <1>1 DEF HopInv, ProcInv, ViewInv, CallInv, Leading, Passes
<1>2. ASSUME NEW n \in Node, NEW a \in Addr, Listen(n, a) \/ Join(n, a) \/ Leave(n, a)
      PROVE  HopInv'
  BY <1>2, ListenStep, JoinStep, LeaveStep
<1>3. ASSUME NEW n \in Node,
             \/ Build(n) \/ BuildFails(n) \/ Bootstrap(n) \/ Unmoved(n) \/ Reannounce(n)
             \/ ReannounceFails(n) \/ Stop(n) \/ CloseTransport(n)
      PROVE  HopInv'
  BY <1>3, QuietStep
<1>4. ASSUME NEW n \in Node, \/ Joined(n) \/ JoinFails(n) \/ Close(n)
                             \/ Elect(n) \/ Hear(n) \/ Doubt(n)
      PROVE  HopInv'
  BY <1>4, JoinedStep, CloseStep, ElectStep, HearStep, DoubtStep
<1>5. ASSUME NEW n \in Node, GracefulStop(n) \/ Crash(n)
      PROVE  HopInv'
  BY <1>5, GoneStep DEF GracefulStop, Crash
<1>6. ASSUME NEW c \in Client,
             \/ Unavailable(c) \/ CallFails(c)
             \/ GiveUp(c, "failed") \/ GiveUp(c, "unavailable") \/ Retry(c)
      PROVE  HopInv'
  BY <1>6, AnswerStep
<1>7. ASSUME NEW c \in Client, ForwardCall(c) \/ Change(c)
      PROVE  HopInv'
  BY <1>7, ForwardStep, ChangeStep
<1>8. ASSUME NEW i \in 1..MaxLate, CommitLate(i)
      PROVE  HopInv'
  BY <1>8, CommitLateStep
<1>9. CASE UNCHANGED vars
  BY <1>1, <1>9 DEF vars, procVars, raftVars
<1>10. ASSUME NEW i \in 1..MaxLate, DropLate(i)
       PROVE  HopInv'
  BY <1>1, <1>10 DEF DropLate, procVars
<1>11. ASSUME NEW n \in Node, Arrive(n) \/ Respond(n)
       PROVE  HopInv'
  BY <1>1, <1>11 DEF Arrive, Respond, procVars
<1> QED
  BY <1>2, <1>3, <1>4, <1>5, <1>6, <1>7, <1>8, <1>9, <1>10, <1>11 DEF Next

\* A membership call is passed on at most once per term (membership.go:61-112).
THEOREM CallsSettle == Spec => []HopsFollowTerms
PROOF
<1>1. HopInv => HopsFollowTerms
  BY DEF HopInv, CallInv, HopsFollowTerms
<1> QED
  BY <1>1, HopInvInit, HopInvNext, PTL DEF Spec

-----------------------------------------------------------------------------
\* What a node has open

\* The registry is a prefix of the resources, as long as the step of run says.
Depth(label) ==
  CASE label = "off" -> {0}
    [] label = "build" -> 1..4
    [] label \in {"announce", "reannounce"} -> {5}
    [] label = "rest" -> 5..6
    [] label = "serving" -> {7}
    [] label = "shutdown" -> 1..7
    [] label = "stopping" -> {1}

Labels == {"off", "build", "announce", "reannounce", "rest", "serving", "shutdown", "stopping"}
Registry(open, label) ==
  /\ label \in Labels /\ open \in Seq({Resources[i] : i \in 1..7})
  /\ Len(open) \in Depth(label)
  /\ \A i \in 1..Len(open) : open[i] = Resources[i]

BuildInv == \A n \in Node : Registry(fns[n], pc[n])

\* A registry in numbers.
LEMMA DepthIs ==
  /\ Depth("off") = {0} /\ Depth("build") = 1..4 /\ Depth("announce") = {5}
  /\ Depth("reannounce") = {5} /\ Depth("rest") = 5..6 /\ Depth("serving") = {7}
  /\ Depth("shutdown") = 1..7 /\ Depth("stopping") = {1}
  /\ \A label \in Labels : Depth(label) \subseteq 0..7
BY SMTT(60) DEF Depth, Labels

\* The resources by number.
LEMMA ResourceNames ==
  /\ Resources[1] = "grpc" /\ Resources[2] = "store" /\ Resources[3] = "fsm"
  /\ Resources[4] = "raft" /\ Resources[5] = "fwd" /\ Resources[6] = "driver"
  /\ Resources[7] = "db"
BY DEF Resources

\* The next resource is registered.
LEMMA RegistryGrows ==
  ASSUME NEW open, NEW label, Registry(open, label), NEW new, Len(open) + 1 \in Depth(new),
         new \in Labels, Len(open) < 7
  PROVE  Registry(Append(open, Resources[Len(open) + 1]), new)
<1> DEFINE R == {Resources[i] : i \in 1..7}
           r == Resources[Len(open) + 1]
<1>1. open \in Seq(R) /\ Len(open) \in Nat /\ \A i \in 1..Len(open) : open[i] = Resources[i]
  BY SMTT(60) DEF Registry
<1>2. r \in R
  BY <1>1, SMTT(60)
<1> HIDE DEF R, r
<1>3. /\ Append(open, r) \in Seq(R) /\ Len(Append(open, r)) = Len(open) + 1
      /\ \A i \in 1..Len(open) : Append(open, r)[i] = open[i]
      /\ Append(open, r)[Len(open) + 1] = r
  BY <1>1, <1>2, SMTT(60)
<1> QED  BY <1>1, <1>3, SMTT(60) DEF Registry, R, r

\* The last one is closed.
LEMMA RegistryShrinks ==
  ASSUME NEW open, Registry(open, "shutdown"), Len(open) > 1,
         NEW rest, rest = SubSeq(open, 1, Len(open) - 1)
  PROVE  Registry(rest, "shutdown")
<1> DEFINE R == {Resources[i] : i \in 1..7}
<1>1. /\ open \in Seq(R) /\ Len(open) \in 1..7
      /\ \A i \in 1..Len(open) : open[i] = Resources[i]
  BY DepthIs DEF Registry
<1> HIDE DEF R
<1> DEFINE k == Len(open) - 1
<1>2. k \in 1..7 /\ k <= Len(open)
  BY <1>1, SMTT(60)
<1>3. rest \in Seq(R) /\ Len(rest) = k /\ \A i \in 1..k : rest[i] = open[i]
  <2>1. \A i \in 1..k : i \in 1..Len(open) /\ open[i] \in R
    BY <1>1, <1>2, SMTT(60)
  <2>2. rest = [i \in 1..k |-> open[i]]
    BY <1>1, <1>2, SMTT(60)
  <2> HIDE DEF k
  <2> QED  BY <1>2, <2>1, <2>2, SMTT(60)
<1> HIDE DEF k
<1>4. \A i \in 1..k : rest[i] = Resources[i]
  BY <1>1, <1>2, <1>3, SMTT(60)
<1>5. Len(rest) \in Depth("shutdown")
  BY <1>2, <1>3, DepthIs
<1> QED  BY <1>3, <1>4, <1>5 DEF Registry, Labels, R

\* Nothing is registered while the process is not running.
LEMMA RegistryEmpty == Registry(<<>>, "off")
BY DepthIs, SMTT(60) DEF Registry, Labels

\* One node's registry and step change.
LEMMA OneRegistry ==
  ASSUME HopInv, BuildInv, NEW n \in Node, NEW open, NEW label, Registry(open, label),
         fns' = [fns EXCEPT ![n] = open], pc' = [pc EXCEPT ![n] = label]
  PROVE  BuildInv'
<1>1. \A m \in Node : \/ m = n /\ fns'[m] = open /\ pc'[m] = label
                      \/ fns'[m] = fns[m] /\ pc'[m] = pc[m]
  BY DEF HopInv, ProcInv
<1> QED  BY <1>1 DEF BuildInv

\* Only the step changes.
LEMMA OneStep ==
  ASSUME HopInv, BuildInv, NEW n \in Node, NEW label \in Labels, Len(fns[n]) \in Depth(label),
         fns' = fns, pc' = [pc EXCEPT ![n] = label]
  PROVE  BuildInv'
<1>1. Registry(fns[n], label)
  BY DEF BuildInv, Registry
<1>2. \A m \in Node : fns'[m] = fns[m] /\ ((m = n /\ pc'[m] = label) \/ pc'[m] = pc[m])
  BY DEF HopInv, ProcInv
<1> QED  BY <1>1, <1>2 DEF BuildInv

\* Build opens the next resource.
LEMMA BuildKeeps == ASSUME HopInv, BuildInv, NEW n \in Node, Build(n)  PROVE BuildInv'
<1> DEFINE k == Len(fns[n])
           r == Resources[k + 1]
           label == IF Len(fns'[n]) = Announcing THEN "announce"
                    ELSE IF r = "db" THEN "serving" ELSE pc[n]
<1>1. Registry(fns[n], pc[n]) /\ pc[n] \in {"build", "rest"}
  BY DEF BuildInv, Build
<1>2. k \in 1..6 /\ (pc[n] = "build" => k \in 1..4) /\ (pc[n] = "rest" => k \in 5..6)
  <2>1. (pc[n] = "build" => k \in 1..4) /\ (pc[n] = "rest" => k \in 5..6)
    BY <1>1, DepthIs DEF Registry
  <2> HIDE DEF k
  <2> QED  BY <1>1, <2>1, SMTT(60)
<1>3. fns' = [fns EXCEPT ![n] = Append(fns[n], r)] /\ fns'[n] = Append(fns[n], r)
  BY DEF Build, HopInv, ProcInv
<1>4. Len(fns'[n]) = k + 1
  <2>1. fns[n] \in Seq({Resources[i] : i \in 1..7})
    BY <1>1 DEF Registry
  <2> QED  BY <1>3, <2>1, SMTT(60)
<1> HIDE DEF k
<1>5. r = "db" <=> k = 6
  <2>1. k \in {1, 2, 3, 4, 5, 6}
    BY <1>2, SMTT(60)
  <2>2. k + 1 = 2 \/ k + 1 = 3 \/ k + 1 = 4 \/ k + 1 = 5 \/ k + 1 = 6 \/ k + 1 = 7
    BY <2>1, SMTT(60)
  <2>3. k = 6 <=> k + 1 = 7
    BY <2>1, SMTT(60)
  <2> QED  BY <2>2, <2>3, ResourceNames
<1>6. Len(fns'[n]) = 5 <=> k = 4
  BY <1>2, <1>4, SMTT(60)
<1>7. k + 1 \in Depth(label) /\ label \in Labels
  <2>1. CASE k = 4
    <3>1. label = "announce"
      BY <1>6, <2>1 DEF Announcing
    <3> QED  BY <2>1, <3>1, DepthIs, SMTT(60) DEF Labels
  <2>2. CASE k = 6
    <3>1. label = "serving"
      BY <1>5, <1>6, <2>2, SMTT(60) DEF Announcing
    <3> QED  BY <2>2, <3>1, DepthIs, SMTT(60) DEF Labels
  <2>3. CASE k # 4 /\ k # 6
    <3>1. label = pc[n]
      BY <1>5, <1>6, <2>3 DEF Announcing
    <3>2. (pc[n] = "build" => k + 1 \in 1..4) /\ (pc[n] = "rest" => k + 1 \in 5..6)
      BY <1>2, <2>3, SMTT(60)
    <3> HIDE DEF label
    <3> QED  BY <1>1, <3>1, <3>2, DepthIs DEF Labels
  <2> QED  BY <2>1, <2>2, <2>3
<1>8. pc' = [pc EXCEPT ![n] = label]
  BY DEF Build, k
<1> HIDE DEF label
<1>9. Registry(Append(fns[n], r), label)
  <2>1. k < 7
    BY <1>2, SMTT(60)
  <2> QED  BY <1>1, <1>7, <2>1, RegistryGrows DEF k
<1> QED  BY <1>3, <1>8, <1>9, OneRegistry

\* Crash, and the last step of a shutdown.
LEMMA GoneKeeps ==
  ASSUME HopInv, BuildInv, NEW n \in Node, Gone(n), fns' = [fns EXCEPT ![n] = <<>>]
  PROVE  BuildInv'
BY RegistryEmpty, OneRegistry DEF Gone

\* Close removes the last resource.
LEMMA CloseKeeps == ASSUME HopInv, BuildInv, NEW n \in Node, Close(n)  PROVE BuildInv'
<1> DEFINE rest == SubSeq(fns[n], 1, Len(fns[n]) - 1)
<1>1. pc[n] = "shutdown" /\ Registry(fns[n], "shutdown") /\ Len(fns[n]) > 1
  BY DEF Close, BuildInv
<1>2. fns' = [fns EXCEPT ![n] = rest] /\ pc' = pc
  BY DEF Close
<1>3. Registry(rest, "shutdown")
  BY <1>1, RegistryShrinks
<1> HIDE DEF rest
<1>4. pc' = [pc EXCEPT ![n] = "shutdown"]
  BY <1>1, <1>2 DEF HopInv, ProcInv
<1> QED  BY <1>2, <1>3, <1>4, OneRegistry

\* The steps of run after the registry has been filled that far, and its failures.
LEMMA MoveKeeps ==
  ASSUME HopInv, BuildInv, NEW n \in Node,
         \/ BuildFails(n) \/ Bootstrap(n) \/ Unmoved(n) \/ Reannounce(n) \/ Joined(n)
         \/ JoinFails(n) \/ ReannounceFails(n) \/ Stop(n) \/ CloseTransport(n)
  PROVE  BuildInv'
<1>1. Registry(fns[n], pc[n])
  BY DEF BuildInv
<1>2. pc[n] # "off" => Len(fns[n]) \in Depth("shutdown")
  BY <1>1, DepthIs, SMTT(60) DEF Registry, Labels
<1>3. pc[n] \in {"announce", "reannounce"} =>
        Len(fns[n]) \in Depth("rest") /\ Len(fns[n]) \in Depth("reannounce")
  BY <1>1, DepthIs, SMTT(60) DEF Registry
<1>4. {"shutdown", "stopping", "rest", "reannounce"} \subseteq Labels
  BY DEF Labels
<1>5. CASE BuildFails(n) \/ Stop(n)
  BY <1>2, <1>4, <1>5, OneStep DEF BuildFails, Stop
<1>6. CASE Bootstrap(n) \/ Unmoved(n) \/ Joined(n) \/ ReannounceFails(n)
  BY <1>3, <1>4, <1>6, OneStep DEF Bootstrap, Unmoved, Joined, ReannounceFails, Rest
<1>7. CASE Reannounce(n)
  BY <1>3, <1>4, <1>7, OneStep DEF Reannounce
<1>8. CASE JoinFails(n)
  <2>1. CASE pc[n] = "announce"
    BY <1>2, <1>4, <1>8, <2>1, OneStep DEF JoinFails
  <2>2. CASE pc[n] # "announce"
    BY <1>8, <2>2 DEF JoinFails, BuildInv
  <2> QED  BY <2>1, <2>2
<1>9. CASE CloseTransport(n)
  <2>1. fns[n] = <<"grpc">> /\ fns' = fns /\ pc' = [pc EXCEPT ![n] = "stopping"]
    BY <1>9 DEF CloseTransport
  <2>2. Len(fns[n]) \in Depth("stopping")
    BY <2>1, DepthIs, SMTT(60)
  <2> QED  BY <1>4, <2>1, <2>2, OneStep
<1> QED  BY <1>5, <1>6, <1>7, <1>8, <1>9

\* Every step.
LEMMA BuildInvNext == HopInv /\ BuildInv /\ [Next]_vars => BuildInv'
<1> SUFFICES ASSUME HopInv, BuildInv, [Next]_vars  PROVE BuildInv'
  OBVIOUS
<1>1. ASSUME NEW n \in Node, NEW a \in Addr, Listen(n, a)  PROVE BuildInv'
  <2>1. Registry(<<"grpc">>, "build")
    <3>1. <<"grpc">> \in Seq({Resources[i] : i \in 1..7}) /\ Resources[1] = "grpc"
      BY SMTT(60) DEF Resources
    <3> QED  BY <3>1, DepthIs, SMTT(60) DEF Registry, Labels
  <2> QED  BY <1>1, <2>1, OneRegistry DEF Listen
<1>2. ASSUME NEW n \in Node, GracefulStop(n) \/ Crash(n)  PROVE BuildInv'
  BY <1>2, GoneKeeps DEF GracefulStop, Crash
<1>3. CASE UNCHANGED <<pc, fns>>
  BY <1>3 DEF BuildInv
<1>4. ASSUME NEW n \in Node, NEW a \in Addr, Join(n, a) \/ Leave(n, a)  PROVE BuildInv'
  BY <1>3, <1>4 DEF Join, Leave, procVars
<1>5. ASSUME NEW n \in Node, Elect(n) \/ Hear(n) \/ Doubt(n) \/ Arrive(n) \/ Respond(n)
      PROVE  BuildInv'
  BY <1>3, <1>5 DEF Elect, Hear, Doubt, Arrive, Respond, procVars
<1>6. ASSUME NEW c \in Client,
             \/ Unavailable(c) \/ ForwardCall(c) \/ CallFails(c) \/ Retry(c) \/ Change(c)
             \/ GiveUp(c, "failed") \/ GiveUp(c, "unavailable")
      PROVE  BuildInv'
  BY <1>3, <1>6 DEF Unavailable, ForwardCall, CallFails, Retry, Change, GiveUp, procVars
<1>7. ASSUME NEW i \in 1..MaxLate, CommitLate(i) \/ DropLate(i)  PROVE BuildInv'
  BY <1>3, <1>7 DEF CommitLate, DropLate, procVars
<1>8. CASE UNCHANGED vars
  BY <1>3, <1>8 DEF vars, procVars
<1> QED  BY <1>1, <1>2, <1>4, <1>5, <1>6, <1>7, <1>8, BuildKeeps, CloseKeeps, MoveKeeps DEF Next

-----------------------------------------------------------------------------
\* One cluster, and a node's address in it

Configuration == UNION {[S -> Addr \cup {NoAddr}] : S \in SUBSET Node}
KnownInv ==
  /\ confs \in Seq(Configuration)
  /\ known \in [Node -> Nat] /\ \A n \in Node : known[n] <= Len(confs)

\* Who leads knows the whole log, and was the last to be elected if the term says so.
LeadInv ==
  /\ \A n \in Node : view[n].leader = n => known[n] > 0
  /\ \A n \in Node : view[n].leader = n /\ view[n].term = elected.term
                     => n = elected.leader /\ known[n] = Len(confs)

\* After the bootstrap the seed has state, and finds it when it starts again.
BootInv ==
  /\ boots \in {0, 1} /\ hasState = [n \in Node |-> hasState[n]]
  /\ boots = 0 => confs = <<>>
  /\ boots = 1 => /\ known[Seed] > 0
                  /\ pc[Seed] \in {"build", "announce"} /\ Len(fns[Seed]) >= 2
                     => hasState[Seed]

\* The latest configuration has n at its address, or not at all.
Recorded(n) == n \in DOMAIN Conf => Conf[n] = addr[n]

\* What makes n recorded: a call of its own says where it listens, an answered call or
\* an announcement leave it recorded, and until it has announced itself, what it knows
\* of itself is up to date.
AddressOf(n) ==
  /\ call[n].status # "none" =>
       /\ call[n].kind = "add" /\ call[n].id = n /\ call[n].addr = addr[n]
       /\ pc[n] \notin {"off", "build"}
  /\ call[n].status = "ok" /\ n \notin stale => Recorded(n)
  /\ announced[n] =>
       pc[n] \in {"rest", "serving", "shutdown", "stopping"} /\ (n \notin stale => Recorded(n))
  /\ /\ (pc[n] = "build" /\ Len(fns[n]) >= 4) \/ pc[n] = "announce"
     /\ n \notin stale /\ n \in DOMAIN ConfOf(n) /\ ConfOf(n)[n] = addr[n]
     => Recorded(n)

\* What an admin's call asks for.
AdminInv ==
  call[Admin].status # "none" => call[Admin].kind = "remove" /\ call[Admin].id \in Node

AddressInv ==
  /\ announced = [n \in Node |-> announced[n]] /\ AdminInv
  /\ \A n \in Node : AddressOf(n)

MemberInv == KnownInv /\ LeadInv /\ BootInv /\ AddressInv

\* What a change that goes on without its client asks for.
Sound(k) == k.id \in Node /\ (k.kind = "add" => k.addr \in Addr \cup {NoAddr})
LateInv ==
  /\ late = [i \in 1..MaxLate |-> late[i]]
  /\ \A i \in 1..MaxLate : late[i] # NoChange => Sound(late[i])

\* Nothing that a node's address depends on changes.
LEMMA AddressFrame ==
  ASSUME NEW m \in Node, AddressOf(m), confs' = confs, known'[m] = known[m],
         addr'[m] = addr[m], pc'[m] = pc[m], fns'[m] = fns[m],
         announced'[m] = announced[m], m \in stale' <=> m \in stale, call'[m] = call[m]
  PROVE  AddressOf(m)'
<1>1. ConfOf(m)' = ConfOf(m) /\ Recorded(m)' = Recorded(m)
  BY DEF ConfOf, Recorded, Conf
<1> QED  BY <1>1 DEF AddressOf

\* The configurations, who has them and who leads stay as they are.
LEMMA RaftFrame ==
  ASSUME KnownInv, LeadInv, UNCHANGED <<confs, known, elected, view>>
  PROVE  KnownInv' /\ LeadInv'
BY DEF KnownInv, LeadInv

\* Nodes forget whom they took for leader.
LEMMA LeadForgets ==
  ASSUME KnownInv, LeadInv, UNCHANGED <<confs, known, elected>>,
         \A m \in Node : view'[m] = view[m] \/ view'[m] = NoView
  PROVE  KnownInv' /\ LeadInv'
<1>1. \A m \in Node : view'[m].leader = m => view'[m] = view[m]
  BY NoneAssumption, SMTT(60) DEF NoView
<1> QED  BY <1>1 DEF KnownInv, LeadInv

\* The seed finds its state, or found it before.
LEMMA BootFrame ==
  ASSUME BootInv, UNCHANGED <<confs, known, boots>>, hasState' = [n \in Node |-> hasState'[n]],
         pc'[Seed] \in {"build", "announce"} /\ Len(fns'[Seed]) >= 2 =>
           \/ hasState'[Seed] <=> known[Seed] > 0
           \/ /\ pc[Seed] \in {"build", "announce"} /\ Len(fns[Seed]) >= 2
              /\ hasState'[Seed] = hasState[Seed]
  PROVE  BootInv'
BY DEF BootInv

\* Steps of calls: the node's process and raft stay as they are.
LEMMA CallFrame ==
  ASSUME HopInv, MemberInv, NEW c \in Client, NEW k, call' = [call EXCEPT ![c] = k],
         UNCHANGED <<pc, fns, addr, hasState, announced, confs, known, elected, view, histVars>>,
         c = Admin /\ k.status # "none" => k.kind = "remove" /\ k.id \in Node,
         c \in Node /\ k.status # "none" =>
           /\ k.kind = "add" /\ k.id = c /\ k.addr = addr[c] /\ pc[c] \notin {"off", "build"}
           /\ k.status = "ok" => Recorded(c)
  PROVE  MemberInv'
<1>1. UNCHANGED <<confs, known, elected, view, boots, stale>>
  BY DEF histVars
<1>2. KnownInv' /\ LeadInv'
  BY <1>1, RaftFrame DEF MemberInv
<1>3. BootInv'
  BY <1>1 DEF MemberInv, BootInv
<1>4. \A d \in Client : call'[d] = IF d = c THEN k ELSE call[d]
  BY DEF HopInv, CallInv
<1>5. AdminInv'
  BY <1>4 DEF MemberInv, AddressInv, AdminInv, Client
<1>6. ASSUME NEW m \in Node  PROVE AddressOf(m)'
  <2>1. AddressOf(m) /\ m \in Client
    BY DEF MemberInv, AddressInv, Client
  <2>2. CASE m # c
    BY <1>1, <1>4, <2>1, <2>2, AddressFrame
  <2>3. CASE m = c
    <3>1. call'[m] = k
      BY <1>4, <2>1, <2>3
    <3>2. ConfOf(m)' = ConfOf(m) /\ Recorded(m)' = Recorded(m)
      BY <1>1 DEF ConfOf, Recorded, Conf
    <3> QED  BY <1>1, <2>1, <2>3, <3>1, <3>2 DEF AddressOf
  <2> QED  BY <2>2, <2>3
<1> QED  BY <1>2, <1>3, <1>5, <1>6 DEF MemberInv, AddressInv

\* Join and Leave call; a call is passed on, answered without a change, or begun again.
LEMMA CallsKeepMembers ==
  ASSUME HopInv, MemberInv,
         \/ \E n \in Node, a \in Addr : Join(n, a) \/ Leave(n, a)
         \/ \E c \in Client : \/ Unavailable(c) \/ ForwardCall(c) \/ CallFails(c) \/ Retry(c)
                             \/ GiveUp(c, "failed") \/ GiveUp(c, "unavailable")
  PROVE  MemberInv'
<1>1. ASSUME NEW n \in Node, NEW a \in Addr, Join(n, a)  PROVE MemberInv'
  <2> DEFINE k == [NoCall EXCEPT !.at = a, !.via = a, !.kind = "add", !.id = n,
                                 !.addr = addr[n], !.status = "sent"]
  <2>1. call' = [call EXCEPT ![n] = k] /\ pc[n] \notin {"off", "build"}
    BY <1>1 DEF Join
  <2>2. k.kind = "add" /\ k.id = n /\ k.addr = addr[n] /\ k.status = "sent"
    BY DEF NoCall
  <2>3. UNCHANGED <<pc, fns, addr, hasState, announced, confs, known, elected, view, histVars>>
    BY <1>1 DEF Join, raftVars
  <2>4. n \in Client /\ n # Admin
    BY SeedAssumption DEF Client
  <2> HIDE DEF k
  <2> QED  BY <2>1, <2>2, <2>3, <2>4, CallFrame
<1>2. ASSUME NEW n \in Node, NEW a \in Addr, Leave(n, a)  PROVE MemberInv'
  <2> DEFINE k == [NoCall EXCEPT !.at = a, !.kind = "remove", !.id = n, !.status = "sent"]
  <2>1. call' = [call EXCEPT ![Admin] = k]
    BY <1>2 DEF Leave, Put
  <2>2. k.kind = "remove" /\ k.id = n
    BY DEF NoCall
  <2>3. UNCHANGED <<pc, fns, addr, hasState, announced, confs, known, elected, view, histVars>>
    BY <1>2 DEF Leave, procVars, raftVars
  <2>4. Admin \in Client /\ Admin \notin Node
    BY SeedAssumption DEF Client
  <2> HIDE DEF k
  <2> QED  BY <2>1, <2>2, <2>3, <2>4, CallFrame
<1>3. ASSUME NEW c \in Client, NEW k, call' = [call EXCEPT ![c] = k],
             UNCHANGED <<procVars, confs, known, elected, view, histVars>>,
             call[c].status # "none",
             k = NoCall \/ (/\ k.kind = call[c].kind /\ k.id = call[c].id
                            /\ k.addr = call[c].addr /\ k.status # "ok")
      PROVE  MemberInv'
  <2>1. UNCHANGED <<pc, fns, addr, hasState, announced, confs, known, elected, view, histVars>>
    BY <1>3 DEF procVars
  <2>2. c = Admin /\ k.status # "none" => k.kind = "remove" /\ k.id \in Node
    BY <1>3, SMTT(60) DEF MemberInv, AddressInv, AdminInv, NoCall
  <2>3. c \in Node /\ k.status # "none" =>
          /\ k.kind = "add" /\ k.id = c /\ k.addr = addr[c] /\ pc[c] \notin {"off", "build"}
          /\ k.status # "ok"
    BY <1>3, SMTT(60) DEF MemberInv, AddressInv, AddressOf, NoCall
  <2> QED  BY <1>3, <2>1, <2>2, <2>3, CallFrame
<1>4. ASSUME NEW c \in Client, NEW status \in {"unavailable", "failed"}, Answer(c, status),
             UNCHANGED <<procVars, confs, known, elected, view, histVars>>,
             call[c].status # "none"
      PROVE  MemberInv'
  <2> DEFINE k == IF c = Admin THEN NoCall ELSE [call[c] EXCEPT !.status = status, !.hops = 0]
  <2>1. call' = [call EXCEPT ![c] = k]
    BY <1>4 DEF Answer, Put
  <2>2. k = NoCall \/ (/\ k.kind = call[c].kind /\ k.id = call[c].id
                       /\ k.addr = call[c].addr /\ k.status = status)
    BY <1>4 DEF HopInv, CallInv, CallFields
  <2> HIDE DEF k
  <2> QED  BY <1>3, <1>4, <2>1, <2>2
<1>5. ASSUME NEW c \in Client, \/ Unavailable(c) \/ CallFails(c)
                              \/ GiveUp(c, "failed") \/ GiveUp(c, "unavailable")
      PROVE  MemberInv'
  BY <1>4, <1>5 DEF Unavailable, CallFails, GiveUp, raftVars
<1>6. ASSUME NEW c \in Client, Retry(c)  PROVE MemberInv'
  <2> DEFINE k == [call[c] EXCEPT !.at = call[c].via, !.status = "sent"]
  <2>1. /\ call' = [call EXCEPT ![c] = k] /\ call[c].status # "none"
        /\ UNCHANGED <<procVars, confs, known, elected, view, histVars>>
    BY <1>6 DEF Retry, Put, raftVars
  <2>2. k.kind = call[c].kind /\ k.id = call[c].id /\ k.addr = call[c].addr /\ k.status # "ok"
    BY DEF HopInv, CallInv, CallFields
  <2> HIDE DEF k
  <2> QED  BY <1>3, <2>1, <2>2
<1>7. ASSUME NEW c \in Client, ForwardCall(c)  PROVE MemberInv'
  <2>1. PICK n \in At(c) : Put(c, [call[c] EXCEPT !.at = LeaderClient(n), !.hops = @ + 1])
    BY <1>7 DEF ForwardCall
  <2> DEFINE k == [call[c] EXCEPT !.at = LeaderClient(n), !.hops = @ + 1]
  <2>2. /\ call' = [call EXCEPT ![c] = k] /\ call[c].status = "sent"
        /\ UNCHANGED <<procVars, confs, known, elected, view, histVars>>
    BY <1>7, <2>1 DEF ForwardCall, Put, raftVars
  <2>3. k.kind = call[c].kind /\ k.id = call[c].id /\ k.addr = call[c].addr /\ k.status = "sent"
    BY <2>2 DEF HopInv, CallInv, CallFields
  <2> HIDE DEF k
  <2> QED  BY <1>3, <2>2, <2>3
<1> QED  BY <1>1, <1>2, <1>5, <1>6, <1>7

\* Steps of one node's run: raft stays as it is.
LEMMA RunFrame ==
  ASSUME HopInv, MemberInv, NEW n \in Node, UNCHANGED <<confs, known, elected, boots>>,
         \A m \in Node : view'[m] = view[m] \/ view'[m] = NoView,
         \A m \in Node \ {n} :
           /\ addr'[m] = addr[m] /\ pc'[m] = pc[m] /\ fns'[m] = fns[m]
           /\ hasState'[m] = hasState[m] /\ announced'[m] = announced[m]
           /\ call'[m] = call[m] /\ (m \in stale' <=> m \in stale),
         call'[Admin] = call[Admin],
         hasState' = [m \in Node |-> hasState'[m]],
         announced' = [m \in Node |-> announced'[m]],
         pc'[n] \in {"build", "announce"} /\ Len(fns'[n]) >= 2 =>
           \/ hasState'[n] <=> known[n] > 0
           \/ /\ pc[n] \in {"build", "announce"} /\ Len(fns[n]) >= 2
              /\ hasState'[n] = hasState[n],
         AddressOf(n)'
  PROVE  MemberInv'
<1>1. KnownInv' /\ LeadInv'
  BY LeadForgets DEF MemberInv
<1>2. BootInv'
  <2>1. CASE Seed = n
    BY <2>1, BootFrame DEF MemberInv
  <2>2. CASE Seed # n
    BY <2>2, SeedAssumption, BootFrame DEF MemberInv
  <2> QED  BY <2>1, <2>2
<1>3. AdminInv'
  BY DEF MemberInv, AddressInv, AdminInv
<1>4. ASSUME NEW m \in Node \ {n}  PROVE AddressOf(m)'
  BY AddressFrame DEF MemberInv, AddressInv
<1> QED  BY <1>1, <1>2, <1>3, <1>4 DEF MemberInv, AddressInv

\* The steps of run after the announcement, its failures, and what a join call returns.
LEMMA MovesKeepMembers ==
  ASSUME HopInv, BuildInv, MemberInv, NEW n \in Node,
         \/ BuildFails(n) \/ Unmoved(n) \/ Reannounce(n) \/ Joined(n)
         \/ JoinFails(n) \/ ReannounceFails(n) \/ Stop(n) \/ CloseTransport(n)
  PROVE  MemberInv'
<1>1. /\ UNCHANGED <<confs, known, elected, view, boots, addr, fns, hasState, stale>>
      /\ pc' = pc \/ \E label \in Labels \ {"build", "announce"} :
                       pc' = [pc EXCEPT ![n] = label]
      /\ announced' = announced \/ \E ok \in BOOLEAN : announced' = [announced EXCEPT ![n] = ok]
      /\ call' = call \/ call' = [call EXCEPT ![n] = NoCall]
  <2>1. "shutdown" \in Labels \ {"build", "announce"} /\ "rest" \in Labels \ {"build", "announce"}
        /\ "reannounce" \in Labels \ {"build", "announce"}
        /\ "stopping" \in Labels \ {"build", "announce"}
    BY DEF Labels
  <2>2. (n \in DOMAIN ConfOf(n)) \in BOOLEAN
    BY SMTT(60)
  <2> QED
    BY <2>1, <2>2 DEF BuildFails, Unmoved, Reannounce, Joined, JoinFails, ReannounceFails,
                      Stop, CloseTransport, Rest, raftVars, histVars
<1>2. /\ pc = [m \in Node |-> pc[m]] /\ announced = [m \in Node |-> announced[m]]
      /\ hasState = [m \in Node |-> hasState[m]] /\ call = [c \in Client |-> call[c]]
      /\ n \in Client /\ Admin \in Client /\ n # Admin
  BY SeedAssumption DEF HopInv, ProcInv, CallInv, MemberInv, AddressInv, BootInv, Client
<1>3. /\ \A m \in Node \ {n} : /\ pc'[m] = pc[m] /\ announced'[m] = announced[m]
                               /\ m \in Client /\ call'[m] = call[m]
      /\ call'[Admin] = call[Admin] /\ announced' = [m \in Node |-> announced'[m]]
  BY <1>1, <1>2 DEF Client
<1>4. /\ Recorded(n)' = Recorded(n) /\ ConfOf(n)' = ConfOf(n) /\ AddressOf(n)
  BY <1>1 DEF Recorded, ConfOf, Conf, MemberInv, AddressInv
<1>5. AddressOf(n)'
  <2>1. CASE BuildFails(n) \/ Stop(n) \/ CloseTransport(n)
    <3>1. pc'[n] \in {"shutdown", "stopping"} /\ announced' = announced /\ call' = call
      BY <1>2, <2>1 DEF BuildFails, Stop, CloseTransport
    <3> QED  BY <1>1, <1>4, <3>1 DEF AddressOf
  <2>2. CASE Unmoved(n)
    <3>1. /\ pc'[n] = "rest" /\ call' = call /\ pc[n] = "announce" /\ ~Moved(n)
          /\ announced'[n] = (n \in DOMAIN ConfOf(n))
      BY <1>2, <2>2 DEF Unmoved, Rest
    <3>2. announced'[n] /\ n \notin stale => Recorded(n)
      BY <1>4, <3>1 DEF AddressOf, Moved
    <3> QED  BY <1>1, <1>4, <3>1, <3>2 DEF AddressOf
  <2>3. CASE Reannounce(n)
    <3>1. pc'[n] = "reannounce" /\ announced' = announced /\ call' = call /\ pc[n] = "announce"
      BY <1>2, <2>3 DEF Reannounce
    <3> QED  BY <1>1, <1>4, <3>1 DEF AddressOf
  <2>4. CASE Joined(n)
    <3>1. pc'[n] = "rest" /\ call'[n] = NoCall /\ call[n].status = "ok"
      BY <1>2, <2>4 DEF Joined, Rest
    <3>2. call'[n].status = "none"
      BY <3>1, SMTT(60) DEF NoCall
    <3>3. n \notin stale' => Recorded(n)'
      BY <1>1, <1>4, <3>1 DEF AddressOf
    <3> QED  BY <3>1, <3>2, <3>3 DEF AddressOf
  <2>5. CASE JoinFails(n)
    <3>1. /\ call'[n] = NoCall /\ announced' = announced
          /\ pc'[n] = IF pc[n] = "announce" THEN "shutdown" ELSE pc[n]
          /\ pc[n] \in {"announce", "reannounce"}
      BY <1>2, <2>5 DEF JoinFails
    <3>2. call'[n].status = "none"
      BY <3>1, SMTT(60) DEF NoCall
    <3>3. ~announced'[n]
      BY <1>4, <3>1 DEF AddressOf
    <3>4. pc'[n] \in {"shutdown", "reannounce"}
      BY <3>1
    <3> QED  BY <3>2, <3>3, <3>4 DEF AddressOf
  <2>6. CASE ReannounceFails(n)
    <3>1. pc'[n] = "rest" /\ announced'[n] = FALSE /\ call' = call /\ pc[n] = "reannounce"
      BY <1>2, <2>6 DEF ReannounceFails, Rest
    <3> QED  BY <1>1, <1>4, <3>1 DEF AddressOf
  <2> QED  BY <2>1, <2>2, <2>3, <2>4, <2>5, <2>6
<1>6. pc'[n] \in {"build", "announce"} => pc'[n] = pc[n]
  BY <1>1, <1>2
<1> QED  BY <1>1, <1>2, <1>3, <1>5, <1>6, RunFrame

\* Listen: a new process of a node that was off.
LEMMA ListenKeepsMembers ==
  ASSUME HopInv, MemberInv, NEW n \in Node, NEW a \in Addr, Listen(n, a)  PROVE MemberInv'
<1>1. /\ UNCHANGED <<confs, known, elected, view, boots, hasState, stale, announced, call>>
      /\ addr' = [addr EXCEPT ![n] = a] /\ fns' = [fns EXCEPT ![n] = <<"grpc">>]
      /\ pc' = [pc EXCEPT ![n] = "build"] /\ pc[n] = "off"
  BY DEF Listen, raftVars
<1>2. /\ \A m \in Node \ {n} : pc'[m] = pc[m] /\ addr'[m] = addr[m] /\ fns'[m] = fns[m]
      /\ pc'[n] = "build" /\ fns'[n] = <<"grpc">>
  BY <1>1 DEF HopInv, ProcInv
<1>3. Len(fns'[n]) = 1
  BY <1>2, SMTT(60)
<1>4. AddressOf(n)'
  <2>1. call[n].status = "none" /\ ~announced[n]
    BY <1>1 DEF MemberInv, AddressInv, AddressOf
  <2>2. call'[n].status = "none" /\ ~announced'[n]
    BY <1>1, <2>1
  <2>3. ~(Len(fns'[n]) >= 4)
    BY <1>3, SMTT(60)
  <2> QED  BY <1>2, <2>2, <2>3 DEF AddressOf
<1>5. hasState = [m \in Node |-> hasState[m]] /\ announced = [m \in Node |-> announced[m]]
  BY DEF MemberInv, AddressInv, BootInv
<1> QED  BY <1>1, <1>2, <1>3, <1>4, <1>5, RunFrame, SMTT(60)

\* Crash, and the last step of a shutdown.
LEMMA GoneKeepsMembers ==
  ASSUME HopInv, MemberInv, NEW n \in Node, Gone(n), fns' = [fns EXCEPT ![n] = <<>>],
         UNCHANGED <<confs, known, elected, histVars>>
  PROVE  MemberInv'
<1>1. /\ pc = [m \in Node |-> pc[m]] /\ announced = [m \in Node |-> announced[m]]
      /\ hasState = [m \in Node |-> hasState[m]] /\ call = [c \in Client |-> call[c]]
      /\ n \in Client /\ Admin \in Client /\ n # Admin
  BY SeedAssumption DEF HopInv, ProcInv, CallInv, MemberInv, AddressInv, BootInv, Client
<1>2. /\ \A m \in Node \ {n} :
           /\ addr'[m] = addr[m] /\ pc'[m] = pc[m] /\ fns'[m] = fns[m]
           /\ hasState'[m] = hasState[m] /\ announced'[m] = announced[m]
      /\ \A m \in Node : view'[m] = view[m] \/ view'[m] = NoView
      /\ pc'[n] = "off" /\ announced'[n] = FALSE
      /\ hasState' = [m \in Node |-> hasState'[m]]
      /\ announced' = [m \in Node |-> announced'[m]]
  BY <1>1 DEF Gone, HopInv, ProcInv, ViewInv
<1>3. /\ call'[n] = NoCall /\ call'[Admin] = call[Admin]
      /\ \A m \in Node \ {n} : call'[m] = call[m]
  BY <1>1 DEF Gone, Client
<1>4. AddressOf(n)'
  BY <1>2, <1>3, SMTT(60) DEF AddressOf, NoCall
<1>5. boots' = boots /\ stale' = stale
  BY DEF histVars
<1> QED  BY <1>2, <1>3, <1>4, <1>5, RunFrame

\* Close.
LEMMA CloseKeepsMembers ==
  ASSUME HopInv, MemberInv, NEW n \in Node, Close(n)  PROVE MemberInv'
<1> DEFINE rest == SubSeq(fns[n], 1, Len(fns[n]) - 1)
<1>1. /\ pc[n] = "shutdown" /\ fns' = [fns EXCEPT ![n] = rest]
      /\ view' = view \/ view' = [view EXCEPT ![n] = NoView]
      /\ UNCHANGED <<addr, pc, call, hasState, announced, confs, known, elected, histVars>>
  BY DEF Close
<1> HIDE DEF rest
<1>2. /\ \A m \in Node \ {n} : fns'[m] = fns[m]
      /\ \A m \in Node : view'[m] = view[m] \/ view'[m] = NoView
  BY <1>1 DEF HopInv, ProcInv, ViewInv
<1>3. boots' = boots /\ stale' = stale
  BY <1>1 DEF histVars
<1>4. ConfOf(n)' = ConfOf(n) /\ Recorded(n)' = Recorded(n)
  BY <1>1 DEF ConfOf, Recorded, Conf
<1>5. AddressOf(n)'
  BY <1>1, <1>3, <1>4, SMTT(60) DEF MemberInv, AddressInv, AddressOf
<1>6. hasState = [m \in Node |-> hasState[m]] /\ announced = [m \in Node |-> announced[m]]
  BY DEF MemberInv, AddressInv, BootInv
<1> QED  BY <1>1, <1>2, <1>3, <1>5, <1>6, RunFrame

\* Build.
LEMMA BuildKeepsMembers ==
  ASSUME HopInv, BuildInv, MemberInv, NEW n \in Node, Build(n)  PROVE MemberInv'
<1> DEFINE k == Len(fns[n])
           r == Resources[k + 1]
           label == IF Len(fns'[n]) = Announcing THEN "announce"
                    ELSE IF r = "db" THEN "serving" ELSE pc[n]
<1>1. /\ UNCHANGED <<confs, known, elected, view, boots, addr, announced, call>>
      /\ fns' = [fns EXCEPT ![n] = Append(fns[n], r)] /\ pc' = [pc EXCEPT ![n] = label]
      /\ hasState' = IF r = "store" THEN [hasState EXCEPT ![n] = known[n] > 0] ELSE hasState
      /\ stale' = IF r = "raft" THEN IF Outdated(n) THEN stale \cup {n} ELSE stale \ {n}
                  ELSE stale
      /\ pc[n] \in {"build", "rest"}
  BY DEF Build, raftVars, HasExistingState
<1>2. fns[n] \in Seq({Resources[i] : i \in 1..7}) /\ k \in Nat
      /\ (pc[n] = "build" => k \in 1..4) /\ (pc[n] = "rest" => k \in 5..6)
  <2>1. Registry(fns[n], pc[n])
    BY DEF BuildInv
  <2>2. fns[n] \in Seq({Resources[i] : i \in 1..7})
    BY <2>1 DEF Registry
  <2>3. (pc[n] = "build" => k \in 1..4) /\ (pc[n] = "rest" => k \in 5..6)
    BY <2>1, DepthIs DEF Registry
  <2> QED  BY <2>2, <2>3, SMTT(60)
<1>3. fns'[n] = Append(fns[n], r) /\ pc'[n] = label /\ \A m \in Node \ {n} :
        fns'[m] = fns[m] /\ pc'[m] = pc[m]
  BY <1>1 DEF HopInv, ProcInv
<1>4. Len(fns'[n]) = k + 1
  BY <1>2, <1>3, SMTT(60)
<1> HIDE DEF k
<1>5. /\ k = 1 \/ k = 2 \/ k = 3 \/ k = 4 \/ k = 5 \/ k = 6
      /\ k = 1 => k + 1 = 2
      /\ k = 2 => k + 1 = 3
      /\ k = 3 => k + 1 = 4
      /\ k = 4 => k + 1 = 5
      /\ k = 5 => k + 1 = 6
      /\ k = 6 => k + 1 = 7
  BY <1>1, <1>2, SMTT(60)
<1>6. (r = "store" <=> k = 1) /\ (r = "raft" <=> k = 3) /\ (r = "db" <=> k = 6)
  <2>1. CASE k = 1
    BY <1>5, <2>1, ResourceNames
  <2>2. CASE k = 2
    BY <1>5, <2>2, ResourceNames
  <2>3. CASE k = 3
    BY <1>5, <2>3, ResourceNames
  <2>4. CASE k = 4
    BY <1>5, <2>4, ResourceNames
  <2>5. CASE k = 5
    BY <1>5, <2>5, ResourceNames
  <2>6. CASE k = 6
    BY <1>5, <2>6, ResourceNames
  <2> QED  BY <1>5, <2>1, <2>2, <2>3, <2>4, <2>5, <2>6
<1>7. Len(fns'[n]) = 5 <=> k = 4
  BY <1>2, <1>4, SMTT(60)
<1>8. /\ k = 4 => label = "announce"
      /\ k = 6 => label = "serving"
      /\ k # 4 /\ k # 6 => label = pc[n]
  BY <1>6, <1>7, SMTT(60) DEF Announcing
<1> HIDE DEF r, label
<1>9. hasState = [m \in Node |-> hasState[m]] /\ announced = [m \in Node |-> announced[m]]
  BY DEF MemberInv, AddressInv, BootInv
<1>10. /\ \A m \in Node \ {n} : hasState'[m] = hasState[m]
       /\ hasState' = [m \in Node |-> hasState'[m]]
       /\ hasState'[n] = IF k = 1 THEN known[n] > 0 ELSE hasState[n]
  BY <1>1, <1>6, <1>9
<1>11. \A m \in Node \ {n} : m \in stale' <=> m \in stale
  BY <1>1
<1>12. label \in {"build", "announce"} => pc[n] = "build" /\ k \in 1..4
  BY <1>1, <1>2, <1>8, SMTT(60)
<1>13. label \in {"build", "announce"} => (k = 1 \/ k >= 2)
  BY <1>12, SMTT(60)
<1>14. Recorded(n)' = Recorded(n) /\ ConfOf(n)' = ConfOf(n) /\ AddressOf(n)
  BY <1>1 DEF Recorded, ConfOf, Conf, MemberInv, AddressInv
<1>15. AddressOf(n)'
  <2>1. announced[n] \/ call[n].status # "none" =>
          pc[n] = "rest" /\ label \in {"rest", "serving"} /\ stale' = stale
    <3>1. announced[n] \/ call[n].status # "none" => pc[n] = "rest" /\ k \in 5..6
      BY <1>1, <1>2, <1>14 DEF AddressOf
    <3>2. k \in 5..6 => k # 4 /\ k # 3
      BY <1>2, SMTT(60)
    <3> QED  BY <1>1, <1>6, <1>8, <3>1, <3>2
  <2>2. ASSUME (label = "build" /\ Len(fns'[n]) >= 4) \/ label = "announce",
               n \notin stale', n \in DOMAIN ConfOf(n), ConfOf(n)[n] = addr[n]
        PROVE  Recorded(n)
    <3>1. pc[n] = "build" /\ (k = 3 \/ k = 4)
      <4>1. pc[n] = "build" /\ k \in 1..4
        BY <1>12, <2>2
      <4>2. label = "announce" => k = 4
        BY <1>8, <4>1
      <4>3. label = "build" => k >= 3
        BY <1>2, <1>4, <2>2, <4>1, SMTT(60)
      <4> QED  BY <2>2, <4>1, <4>2, <4>3, SMTT(60)
    <3>2. CASE k = 3
      BY <1>1, <1>6, <2>2, <3>2 DEF Outdated, Recorded
    <3>3. CASE k = 4
      <4>1. stale' = stale /\ k >= 4
        BY <1>1, <1>6, <3>3, SMTT(60)
      <4> QED  BY <1>14, <2>2, <3>1, <4>1 DEF AddressOf, k
    <3> QED  BY <3>1, <3>2, <3>3
  <2> QED  BY <1>1, <1>3, <1>14, <2>1, <2>2 DEF AddressOf
<1>16. label \in {"build", "announce"} =>
         \/ hasState'[n] <=> known[n] > 0
         \/ /\ pc[n] \in {"build", "announce"} /\ Len(fns[n]) >= 2
            /\ hasState'[n] = hasState[n]
  <2>1. k = 1 => hasState'[n] = (known[n] > 0)
    BY <1>10
  <2>2. k >= 2 => hasState'[n] = hasState[n]
    BY <1>2, <1>10, SMTT(60)
  <2> QED  BY <1>12, <1>13, <2>1, <2>2 DEF k
<1> QED
  BY <1>1, <1>3, <1>9, <1>10, <1>11, <1>15, <1>16, RunFrame

\* Elections and their loss.
LEMMA DoubtKeepsMembers ==
  ASSUME HopInv, MemberInv, NEW n \in Node, Doubt(n)  PROVE MemberInv'
<1>1. /\ UNCHANGED <<pc, fns, addr, hasState, announced, confs, known, elected, call, boots, stale>>
      /\ view' = [view EXCEPT ![n] = NoView]
  BY DEF Doubt, procVars, histVars
<1>2. \A m \in Node : view'[m] = view[m] \/ view'[m] = NoView
  BY <1>1 DEF HopInv, ViewInv
<1>3. KnownInv' /\ LeadInv'
  BY <1>1, <1>2, LeadForgets DEF MemberInv
<1>4. BootInv' /\ AdminInv'
  BY <1>1 DEF MemberInv, BootInv, AddressInv, AdminInv
<1>5. \A m \in Node : AddressOf(m)'
  BY <1>1, AddressFrame DEF MemberInv, AddressInv
<1> QED  BY <1>1, <1>3, <1>4, <1>5 DEF MemberInv, AddressInv

LEMMA ElectKeepsMembers ==
  ASSUME HopInv, MemberInv, NEW n \in Node, Elect(n)  PROVE MemberInv'
<1>1. /\ UNCHANGED <<pc, fns, addr, hasState, announced, confs, known, call, boots, stale>>
      /\ elected' = [term |-> elected.term + 1, leader |-> n]
      /\ view' = [view EXCEPT ![n] = [term |-> elected.term + 1, leader |-> n, addr |-> addr[n]]]
      /\ n \in DOMAIN Conf /\ known[n] = Len(confs)
  BY DEF Elect, procVars, histVars
<1>2. BootInv' /\ AdminInv'
  BY <1>1 DEF MemberInv, BootInv, AddressInv, AdminInv
<1>3. \A m \in Node : AddressOf(m)'
  BY <1>1, AddressFrame DEF MemberInv, AddressInv
<1>4. KnownInv'
  BY <1>1 DEF MemberInv, KnownInv
<1>5. known[n] > 0
  <2>1. confs # <<>>
    BY <1>1, SMTT(60) DEF Conf
  <2>2. confs \in Seq(Configuration)
    BY DEF MemberInv, KnownInv
  <2> QED  BY <1>1, <2>1, <2>2, SMTT(60)
<1>6. \A m \in Node \ {n} : view'[m] = view[m] /\ view'[m].term # elected'.term
  <2>1. TAKE m \in Node \ {n}
  <2>2. view'[m] = view[m]
    BY <1>1 DEF HopInv, ViewInv
  <2>3. elected.term \in Nat /\ view[m].term \in Nat /\ view[m].term <= elected.term
    BY DEF HopInv, ViewInv
  <2>4. elected'.term = elected.term + 1
    BY <1>1
  <2>5. view[m].term # elected.term + 1
    BY <2>3, SMTT(60)
  <2> QED  BY <2>2, <2>4, <2>5
<1>7. elected'.leader = n
  BY <1>1
<1>8. LeadInv'
  BY <1>1, <1>5, <1>6, <1>7 DEF MemberInv, LeadInv
<1> QED  BY <1>1, <1>2, <1>3, <1>4, <1>8 DEF MemberInv, AddressInv

\* The leader has the whole log, so that who hears of it has it too.
LEMMA HearKeepsMembers ==
  ASSUME HopInv, MemberInv, NEW n \in Node, Hear(n)  PROVE MemberInv'
<1> DEFINE l == elected.leader
<1>1. /\ UNCHANGED <<pc, fns, addr, hasState, announced, confs, elected, call, boots, stale>>
      /\ view' = [view EXCEPT ![n] = view[l]] /\ known' = [known EXCEPT ![n] = known[l]]
      /\ l # n /\ view[l].leader = l /\ view[l].term = elected.term /\ elected.term > 0
  BY DEF Hear, procVars, histVars, IsLeader
<1>2. l \in Node
  BY <1>1 DEF HopInv, ViewInv
<1> HIDE DEF l
<1>3. known[l] = Len(confs) /\ known[l] > 0 /\ KnownInv
  BY <1>1, <1>2 DEF MemberInv, LeadInv
<1>4. /\ known'[n] = Len(confs) /\ known'[n] > 0
      /\ \A m \in Node \ {n} : known'[m] = known[m] /\ view'[m] = view[m]
      /\ view'[n].leader # n
  BY <1>1, <1>3 DEF KnownInv, HopInv, ViewInv
<1>5. KnownInv'
  <2>1. known' \in [Node -> Nat]
    BY <1>1, <1>2, <1>3 DEF KnownInv
  <2>2. Len(confs) \in Nat
    BY <1>3, SMTT(60) DEF KnownInv
  <2>3. \A m \in Node : known'[m] <= Len(confs)
    BY <1>3, <1>4, <2>2, SMTT(60) DEF KnownInv
  <2> QED  BY <1>1, <1>3, <2>1, <2>3 DEF KnownInv
<1>6. LeadInv'
  BY <1>1, <1>4 DEF MemberInv, LeadInv
<1>7. BootInv'
  BY <1>1, <1>4, SeedAssumption DEF MemberInv, BootInv
<1>8. AdminInv'
  BY <1>1 DEF MemberInv, AddressInv, AdminInv
<1>9. ASSUME NEW m \in Node  PROVE AddressOf(m)'
  <2>1. CASE m # n
    BY <1>1, <1>4, <2>1, AddressFrame DEF MemberInv, AddressInv
  <2>2. CASE m = n
    <3>1. ConfOf(n)' = Conf /\ Recorded(n)' = Recorded(n)
      <4>1. confs # <<>>
        BY <1>3, SMTT(60) DEF KnownInv
      <4> QED  BY <1>1, <1>4, <4>1, SMTT(60) DEF ConfOf, Conf, Recorded
    <3>2. AddressOf(n)
      BY DEF MemberInv, AddressInv
    <3>3. ConfOf(n)'[n] = addr[n] => Recorded(n)
      BY <3>1 DEF Recorded
    <3> QED  BY <1>1, <2>2, <3>1, <3>2, <3>3 DEF AddressOf
  <2> QED  BY <2>1, <2>2
<1> QED  BY <1>1, <1>5, <1>6, <1>7, <1>8, <1>9 DEF MemberInv, AddressInv

\* The seed bootstraps only while there is nothing: with state on its disk, it would
\* have found it.
LEMMA BootstrapIsFirst ==
  ASSUME HopInv, BuildInv, MemberInv, NEW n \in Node, Bootstrap(n)
  PROVE  boots = 0 /\ confs = <<>> /\ \A m \in Node : known[m] = 0
<1>1. pc[Seed] = "announce" /\ ~hasState[Seed]
  BY DEF Bootstrap
<1>2. Len(fns[Seed]) = 5
  BY <1>1, SeedAssumption, DepthIs DEF BuildInv, Registry
<1>3. Len(fns[Seed]) >= 2
  BY <1>2, SMTT(60)
<1>4. boots = 0 /\ confs = <<>>
  BY <1>1, <1>3 DEF MemberInv, BootInv
<1>5. Len(confs) = 0
  BY <1>4
<1> QED  BY <1>4, <1>5, SMTT(60) DEF MemberInv, KnownInv

LEMMA BootstrapKeepsMembers ==
  ASSUME HopInv, BuildInv, MemberInv, NEW n \in Node, Bootstrap(n)  PROVE MemberInv'
<1> DEFINE conf == [m \in {n} |-> addr[m]]
<1>1. /\ UNCHANGED <<fns, addr, hasState, elected, view, call, stale>>
      /\ pc' = [pc EXCEPT ![n] = "rest"] /\ announced' = [announced EXCEPT ![n] = TRUE]
      /\ confs' = <<conf>> /\ known' = [known EXCEPT ![n] = 1] /\ boots' = boots + 1
      /\ n = Seed /\ pc[n] = "announce"
  BY DEF Bootstrap, Rest
<1>2. boots = 0 /\ confs = <<>> /\ \A m \in Node : known[m] = 0
  BY BootstrapIsFirst
<1>3. conf \in Configuration
  <2>1. conf \in [{n} -> Addr \cup {NoAddr}] /\ {n} \in SUBSET Node
    BY DEF HopInv, ProcInv
  <2> HIDE DEF conf
  <2> QED  BY <2>1 DEF Configuration
<1>4. DOMAIN conf = {n} /\ conf[n] = addr[n]
  OBVIOUS
<1> HIDE DEF conf
<1>5. /\ known'[n] = 1 /\ known' \in [Node -> Nat] /\ \A m \in Node \ {n} : known'[m] = 0
      /\ pc'[n] = "rest" /\ announced'[n] = TRUE
      /\ announced' = [m \in Node |-> announced'[m]]
      /\ \A m \in Node \ {n} : pc'[m] = pc[m] /\ announced'[m] = announced[m]
  BY <1>1, <1>2 DEF MemberInv, KnownInv, AddressInv, HopInv, ProcInv
<1>6. /\ Len(confs') = 1 /\ confs' \in Seq(Configuration) /\ confs' # <<>> /\ confs'[1] = conf
  BY <1>1, <1>3, SMTT(60)
<1>7. KnownInv'
  BY <1>5, <1>6, SMTT(60) DEF KnownInv
<1>8. LeadInv'
  <2>1. \A m \in Node : view[m].leader # m
    BY <1>2, SMTT(60) DEF MemberInv, LeadInv
  <2> QED  BY <1>1, <2>1 DEF LeadInv
<1>9. BootInv'
  BY <1>1, <1>2, <1>5, SMTT(60) DEF MemberInv, BootInv
<1>10. AdminInv'
  BY <1>1 DEF MemberInv, AddressInv, AdminInv
<1>11. Conf' = conf
  BY <1>6 DEF Conf
<1>12. ASSUME NEW m \in Node  PROVE AddressOf(m)'
  <2>1. Recorded(m)'
    BY <1>1, <1>4, <1>11 DEF Recorded
  <2>2. AddressOf(m)
    BY DEF MemberInv, AddressInv
  <2>3. CASE m # n
    BY <1>1, <1>5, <2>1, <2>2, <2>3 DEF AddressOf
  <2>4. CASE m = n
    BY <1>1, <1>5, <2>1, <2>2, <2>4 DEF AddressOf
  <2> QED  BY <2>3, <2>4
<1> QED  BY <1>5, <1>7, <1>8, <1>9, <1>10, <1>12 DEF MemberInv, AddressInv

\* A change touches the entry of the node it is about, and no other.
LEMMA ChangedEntries ==
  ASSUME NEW conf, NEW k, DOMAIN conf \subseteq Node, k.id \in Node,
         \A m \in DOMAIN conf : conf[m] \in Addr \cup {NoAddr},
         k.kind = "add" => k.addr \in Addr \cup {NoAddr}
  PROVE  LET new == Changed(conf, k)
         IN  /\ new \in Configuration
             /\ \A m \in DOMAIN new \ {k.id} : m \in DOMAIN conf /\ new[m] = conf[m]
             /\ k.id \in DOMAIN new /\ k.kind = "add" => new[k.id] = k.addr
             /\ k.kind # "add" => k.id \notin DOMAIN new
<1> DEFINE new == Changed(conf, k)
<1>1. CASE k.kind = "add"
  <2> DEFINE S == DOMAIN conf \cup {k.id}
  <2>1. new = [m \in S |-> IF m = k.id THEN k.addr ELSE conf[m]]
    BY <1>1 DEF Changed
  <2>2. S \in SUBSET Node
    OBVIOUS
  <2>3. \A m \in S : (IF m = k.id THEN k.addr ELSE conf[m]) \in Addr \cup {NoAddr}
    BY <1>1
  <2>4. \A m \in S \ {k.id} : m \in DOMAIN conf
    OBVIOUS
  <2> HIDE DEF new, S
  <2>5. new \in [S -> Addr \cup {NoAddr}]
    BY <2>1, <2>3
  <2>6. new \in Configuration
    BY <2>2, <2>5 DEF Configuration
  <2>7. DOMAIN new = S /\ \A m \in S : new[m] = IF m = k.id THEN k.addr ELSE conf[m]
    BY <2>1
  <2> QED  BY <1>1, <2>4, <2>6, <2>7 DEF new
<1>2. CASE k.kind # "add"
  <2> DEFINE S == DOMAIN conf \ {k.id}
  <2>1. new = [m \in S |-> conf[m]]
    BY <1>2 DEF Changed
  <2>2. S \in SUBSET Node /\ k.id \notin S /\ \A m \in S : m \in DOMAIN conf
    OBVIOUS
  <2>3. \A m \in S : conf[m] \in Addr \cup {NoAddr}
    OBVIOUS
  <2> HIDE DEF new, S
  <2>4. new \in [S -> Addr \cup {NoAddr}] /\ DOMAIN new = S /\ \A m \in S : new[m] = conf[m]
    BY <2>1, <2>3
  <2>5. new \in Configuration
    BY <2>2, <2>4 DEF Configuration
  <2> QED  BY <1>2, <2>2, <2>4, <2>5 DEF new
<1> QED  BY <1>1, <1>2

\* The committed configuration has nodes and their addresses.
LEMMA ConfEntries ==
  ASSUME KnownInv
  PROVE  DOMAIN Conf \subseteq Node /\ \A m \in DOMAIN Conf : Conf[m] \in Addr \cup {NoAddr}
<1>1. CASE confs = <<>>
  <2>1. Conf = <<>> /\ DOMAIN Conf = {}
    BY <1>1, SMTT(60) DEF Conf
  <2> QED  BY <2>1
<1>2. CASE confs # <<>>
  <2>1. confs \in Seq(Configuration) /\ Conf = confs[Len(confs)] /\ Len(confs) \in 1..Len(confs)
    BY <1>2, SMTT(60) DEF KnownInv, Conf
  <2>2. Conf \in Configuration
    BY <2>1, SMTT(60)
  <2>3. PICK S \in SUBSET Node : Conf \in [S -> Addr \cup {NoAddr}]
    BY <2>2 DEF Configuration
  <2> QED  BY <2>3
<1> QED  BY <1>1, <1>2

\* What a committed change does: the log grows by it, and the leader and a quorum have it.
LEMMA CommitEffect ==
  ASSUME HopInv, MemberInv, NEW n \in Node, NEW k, Commit(n, k), Sound(k)
  PROVE  /\ confs' \in Seq(Configuration) /\ Len(confs') > 0 /\ confs # <<>>
         /\ Len(confs') >= Len(confs) /\ \A i \in 1..Len(confs) : confs'[i] = confs[i]
         /\ Conf' = Changed(Conf, k)
         /\ view[n].leader = n /\ view[n].term = elected.term /\ n = elected.leader
         /\ known'[n] = Len(confs')
         /\ view' = view \/ view' = [view EXCEPT ![n] = NoView]
         /\ known' = [m \in Node |-> known'[m]]
         /\ \A m \in Node : known'[m] = known[m] \/ known'[m] = Len(confs')
<1> DEFINE new == Changed(Conf, k)
<1>1. KnownInv
  BY DEF MemberInv
<1>2. /\ IsLeader(n) /\ view[n].term = elected.term /\ known[n] = Len(confs)
      /\ confs' = IF new = Conf THEN confs ELSE Append(confs, new)
      /\ \E q \in Quorums(n, new) :
           known' = [m \in Node |-> IF m \in q \cup {n} THEN Len(confs') ELSE known[m]]
      /\ view' = IF n \in DOMAIN new THEN view ELSE [view EXCEPT ![n] = NoView]
  BY DEF Commit
<1>3. view[n].leader = n
  BY <1>2 DEF IsLeader
<1>4. n = elected.leader /\ Len(confs) > 0
  BY <1>2, <1>3 DEF MemberInv, LeadInv
<1>6. new \in Configuration
  BY <1>1, ConfEntries, ChangedEntries DEF Sound
<1> HIDE DEF new
<1>7. confs \in Seq(Configuration) /\ Len(confs) \in Nat /\ confs # <<>>
  BY <1>4, SMTT(60) DEF MemberInv, KnownInv
<1>8. /\ confs' \in Seq(Configuration) /\ Len(confs') \in Nat /\ Len(confs') >= Len(confs)
      /\ \A i \in 1..Len(confs) : confs'[i] = confs[i]
      /\ Conf' = new
  <2>1. CASE new = Conf
    <3>1. confs' = confs
      BY <1>2, <2>1
    <3> QED  BY <1>7, <2>1, <3>1, SMTT(60) DEF Conf
  <2>2. CASE new # Conf
    <3>1. confs' = Append(confs, new)
      BY <1>2, <2>2
    <3>2. /\ confs' \in Seq(Configuration) /\ Len(confs') = Len(confs) + 1
          /\ \A i \in 1..Len(confs) : confs'[i] = confs[i]
          /\ confs'[Len(confs) + 1] = new
      BY <1>6, <1>7, <3>1, SMTT(60)
    <3>3. confs' # <<>> /\ Len(confs') >= Len(confs)
      BY <1>7, <3>2, SMTT(60)
    <3> QED  BY <1>7, <3>2, <3>3, SMTT(60) DEF Conf
  <2> QED  BY <2>1, <2>2
<1>9. Len(confs') > 0
  BY <1>4, <1>7, <1>8, SMTT(60)
<1>10. /\ known' = [m \in Node |-> known'[m]] /\ known'[n] = Len(confs')
       /\ \A m \in Node : known'[m] = known[m] \/ known'[m] = Len(confs')
  BY <1>2, <1>3
<1>11. view' = view \/ view' = [view EXCEPT ![n] = NoView]
  BY <1>2
<1> QED
  BY <1>2, <1>3, <1>4, <1>7, <1>8, <1>9, <1>10, <1>11 DEF new

\* A change that moves m away from where it listens.
Misplaces(k, m) == m = k.id /\ k.kind = "add" /\ k.addr # addr[m]

\* Any other leaves m recorded if it was, and records it if it is about its address.
LEMMA CommitRecords ==
  ASSUME HopInv, MemberInv, NEW n \in Node, NEW k, Commit(n, k), Sound(k),
         NEW m \in Node, addr' = addr, ~Misplaces(k, m)
  PROVE  (Recorded(m) => Recorded(m)') /\ (m = k.id => Recorded(m)')
<1> DEFINE new == Changed(Conf, k)
<1>1. Conf' = new
  BY CommitEffect
<1>2. DOMAIN Conf \subseteq Node /\ \A i \in DOMAIN Conf : Conf[i] \in Addr \cup {NoAddr}
  BY ConfEntries DEF MemberInv
<1>3. /\ \A i \in DOMAIN new \ {k.id} : i \in DOMAIN Conf /\ new[i] = Conf[i]
      /\ k.id \in DOMAIN new /\ k.kind = "add" => new[k.id] = k.addr
      /\ k.kind # "add" => k.id \notin DOMAIN new
  BY <1>2, ChangedEntries DEF Sound
<1> HIDE DEF new
<1>4. CASE m # k.id
  BY <1>1, <1>3, <1>4 DEF Recorded
<1>5. CASE m = k.id
  BY <1>1, <1>3, <1>5 DEF Recorded, Misplaces
<1> QED  BY <1>4, <1>5

\* A change is committed, and whoever it misplaces, is stale from then on.
LEMMA CommitKeepsMembers ==
  ASSUME HopInv, MemberInv, NEW n \in Node, NEW k, Commit(n, k), Sound(k),
         UNCHANGED <<pc, fns, addr, hasState, announced, elected, boots>>, AdminInv',
         \A m \in Node : m \notin stale' =>
           ~Misplaces(k, m) /\ (m \notin stale \/ m = k.id),
         \A m \in Node : call'[m].status # "none" =>
           /\ call'[m].kind = "add" /\ call'[m].id = m /\ call'[m].addr = addr[m]
           /\ pc[m] \notin {"off", "build"}
           /\ call'[m].status = "ok" => call[m].status = "ok" \/ m = k.id
  PROVE  MemberInv'
<1>2. /\ view[n].leader = n /\ view[n].term = elected.term /\ n = elected.leader
      /\ known'[n] = Len(confs')
      /\ view' = view \/ view' = [view EXCEPT ![n] = NoView]
  BY CommitEffect
<1>3. /\ confs' \in Seq(Configuration) /\ Len(confs') > 0 /\ confs # <<>>
      /\ Len(confs') >= Len(confs) /\ \A i \in 1..Len(confs) : confs'[i] = confs[i]
      /\ known' = [m \in Node |-> known'[m]]
      /\ \A m \in Node : known'[m] = known[m] \/ known'[m] = Len(confs')
  BY CommitEffect, SMTT(60)
<1>4. /\ Len(confs') \in Nat /\ Len(confs) \in Nat /\ known \in [Node -> Nat]
      /\ \A m \in Node : known[m] <= Len(confs)
  BY <1>3, SMTT(60) DEF MemberInv, KnownInv
<1>5. KnownInv'
  <2>1. \A m \in Node : known'[m] \in Nat /\ known'[m] <= Len(confs')
    BY <1>3, <1>4, SMTT(60)
  <2>2. known' \in [Node -> Nat]
    BY <1>3, <2>1
  <2> QED  BY <1>3, <2>1, <2>2 DEF KnownInv
<1>6. LeadInv'
  <2>1. \A m \in Node : view'[m].leader = m => view'[m] = view[m]
    BY <1>2, NoneAssumption, SMTT(60) DEF HopInv, ViewInv, NoView
  <2>2. \A m \in Node : view'[m].leader = m => known'[m] > 0
    BY <1>3, <1>4, <2>1 DEF MemberInv, LeadInv
  <2>3. \A m \in Node : view'[m].leader = m /\ view'[m].term = elected.term => m = n
    BY <1>2, <2>1, SMTT(60) DEF MemberInv, LeadInv
  <2> QED  BY <1>2, <2>2, <2>3 DEF LeadInv
<1>7. BootInv'
  <2>1. boots = 1
    BY <1>3 DEF MemberInv, BootInv
  <2>2. known'[Seed] > 0
    BY <1>3, <1>4, <2>1, SeedAssumption DEF MemberInv, BootInv
  <2> QED  BY <2>1, <2>2, SMTT(60) DEF MemberInv, BootInv
<1>8. ASSUME NEW m \in Node  PROVE AddressOf(m)'
  <2>1. AddressOf(m)
    BY DEF MemberInv, AddressInv
  <2>2. m \notin stale' => /\ Recorded(m) => Recorded(m)'
                           /\ m = k.id => Recorded(m)'
                           /\ m \notin stale \/ m = k.id
    BY CommitRecords
  <2>3. call'[m].status = "ok" /\ m \notin stale' => Recorded(m)'
    BY <2>1, <2>2 DEF AddressOf
  <2>4. ASSUME m \in DOMAIN ConfOf(m)', ConfOf(m)'[m] = addr[m]
        PROVE  Recorded(m)' \/ (m \in DOMAIN ConfOf(m) /\ ConfOf(m)[m] = addr[m])
    <3>1. CASE known'[m] = Len(confs')
      <4>1. ConfOf(m)' = Conf'
        <5>1. confs' # <<>> /\ known'[m] # 0
          BY <1>3, <3>1, SMTT(60)
        <5> QED  BY <3>1, <5>1 DEF ConfOf, Conf
      <4> QED  BY <2>4, <4>1 DEF Recorded
    <3>2. CASE known'[m] = known[m] /\ known[m] # 0
      <4>1. known[m] \in 1..Len(confs)
        BY <1>4, <3>2, SMTT(60)
      <4>2. ConfOf(m)' = ConfOf(m)
        BY <1>3, <3>2, <4>1, SMTT(60) DEF ConfOf
      <4> QED  BY <2>4, <4>2
    <3>3. CASE known'[m] = 0
      <4>1. ConfOf(m)' = <<>> /\ DOMAIN ConfOf(m)' = {}
        BY <3>3, SMTT(60) DEF ConfOf
      <4> QED  BY <2>4, <4>1
    <3> QED  BY <1>3, <3>1, <3>2, <3>3
  <2> QED  BY <2>1, <2>2, <2>3, <2>4 DEF AddressOf
<1>9. announced' = [m \in Node |-> announced'[m]]
  BY DEF MemberInv, AddressInv
<1> QED  BY <1>5, <1>6, <1>7, <1>8, <1>9 DEF MemberInv, AddressInv

\* What a client asks for.
LEMMA CallIsSound ==
  ASSUME HopInv, MemberInv, NEW c \in Client, call[c].status = "sent"
  PROVE  /\ Sound(call[c])
         /\ c \in Node => call[c].kind = "add" /\ call[c].id = c /\ call[c].addr = addr[c]
         /\ c = Admin => call[c].kind = "remove"
<1>1. /\ c \in Node => call[c].kind = "add" /\ call[c].id = c /\ call[c].addr = addr[c]
      /\ c = Admin => call[c].kind = "remove" /\ call[c].id \in Node
  BY DEF MemberInv, AddressInv, AdminInv, AddressOf
<1> QED  BY <1>1 DEF Sound, Client, HopInv, ProcInv

LEMMA ChangeKeepsMembers ==
  ASSUME HopInv, MemberInv, NEW c \in Client, Change(c)  PROVE MemberInv'
<1> DEFINE k == IF c = Admin THEN NoCall ELSE [call[c] EXCEPT !.status = "ok", !.hops = 0]
<1>1. /\ UNCHANGED <<pc, fns, addr, hasState, announced, elected, boots>>
      /\ call' = [call EXCEPT ![c] = k] /\ call[c].status = "sent"
      /\ stale' = IF call[c].kind = "add" THEN stale \ {call[c].id} ELSE stale
  BY DEF Change, procVars, Answer, Put
<1>2. PICK n \in Node : Commit(n, call[c])
  BY DEF Change, At
<1>3. /\ Sound(call[c])
      /\ c \in Node => call[c].kind = "add" /\ call[c].id = c /\ call[c].addr = addr[c]
      /\ c = Admin => call[c].kind = "remove"
  BY <1>1, CallIsSound
<1>4. \A d \in Client : call'[d] = IF d = c THEN k ELSE call[d]
  BY <1>1 DEF HopInv, CallInv
<1>5. c = Admin => k.status = "none"
  BY DEF NoCall
<1>6. c # Admin => k.kind = call[c].kind /\ k.id = call[c].id /\ k.addr = call[c].addr
  BY DEF HopInv, CallInv, CallFields
<1> HIDE DEF k
<1>7. AdminInv'
  BY <1>4, <1>5 DEF MemberInv, AddressInv, AdminInv, Client
<1>8. ASSUME NEW m \in Node, m \notin stale'
      PROVE  ~Misplaces(call[c], m) /\ (m \notin stale \/ m = call[c].id)
  BY <1>1, <1>3, <1>8 DEF Misplaces, Client
<1>9. ASSUME NEW m \in Node, call'[m].status # "none"
      PROVE  /\ call'[m].kind = "add" /\ call'[m].id = m /\ call'[m].addr = addr[m]
             /\ pc[m] \notin {"off", "build"}
             /\ call'[m].status = "ok" => call[m].status = "ok" \/ m = call[c].id
  <2>1. AddressOf(m) /\ m \in Client /\ m # Admin
    BY SeedAssumption DEF MemberInv, AddressInv, Client
  <2>2. CASE m = c
    BY <1>1, <1>3, <1>4, <1>6, <2>1, <2>2 DEF AddressOf
  <2>3. CASE m # c
    BY <1>4, <1>9, <2>1, <2>3 DEF AddressOf
  <2> QED  BY <2>2, <2>3
<1> QED  BY <1>1, <1>2, <1>3, <1>7, <1>8, <1>9, CommitKeepsMembers

LEMMA CommitLateKeepsMembers ==
  ASSUME HopInv, MemberInv, LateInv, NEW i \in 1..MaxLate, CommitLate(i)  PROVE MemberInv'
<1>1. /\ UNCHANGED <<pc, fns, addr, hasState, announced, elected, boots, call>>
      /\ stale' = IF late[i].kind = "add" /\ late[i].addr # addr[late[i].id]
                  THEN stale \cup {late[i].id} ELSE stale
  BY DEF CommitLate, procVars
<1>2. PICK n \in Node : Commit(n, late[i])
  BY DEF CommitLate
<1>3. Sound(late[i])
  BY DEF CommitLate, LateInv
<1>4. AdminInv'
  BY <1>1 DEF MemberInv, AddressInv, AdminInv
<1>5. \A m \in Node : m \notin stale' => ~Misplaces(late[i], m) /\ m \notin stale
  BY <1>1 DEF Misplaces
<1>6. ASSUME NEW m \in Node, call'[m].status # "none"
      PROVE  /\ call'[m].kind = "add" /\ call'[m].id = m /\ call'[m].addr = addr[m]
             /\ pc[m] \notin {"off", "build"} /\ call'[m].status = call[m].status
  BY <1>1, <1>6 DEF MemberInv, AddressInv, AddressOf
<1> QED  BY <1>1, <1>2, <1>3, <1>4, <1>5, <1>6, CommitKeepsMembers

LEMMA MemberInvInit == Init => MemberInv
<1> SUFFICES ASSUME Init  PROVE MemberInv
  OBVIOUS
<1>1. KnownInv
  <2>1. confs = <<>> /\ known = [n \in Node |-> 0]
    BY DEF Init
  <2> QED  BY <2>1, SMTT(60) DEF KnownInv
<1>2. LeadInv
  BY NoneAssumption DEF Init, LeadInv, NoView
<1>3. BootInv
  BY SMTT(60) DEF Init, BootInv
<1>4. \A c \in Client : call[c].status = "none"
  BY DEF Init, NoCall
<1>5. AddressInv
  BY <1>4, SeedAssumption DEF Init, AddressInv, AdminInv, AddressOf, Client
<1> QED  BY <1>1, <1>2, <1>3, <1>5 DEF MemberInv

LEMMA MemberInvNext == HopInv /\ BuildInv /\ MemberInv /\ LateInv /\ [Next]_vars => MemberInv'
<1> SUFFICES ASSUME HopInv, BuildInv, MemberInv, LateInv, [Next]_vars  PROVE MemberInv'
  OBVIOUS
<1>1. ASSUME NEW n \in Node, NEW a \in Addr, Listen(n, a)  PROVE MemberInv'
  BY <1>1, ListenKeepsMembers
<1>2. ASSUME NEW n \in Node, NEW a \in Addr, Join(n, a) \/ Leave(n, a)  PROVE MemberInv'
  BY <1>2, CallsKeepMembers
<1>3. ASSUME NEW n \in Node,
             \/ Build(n) \/ BuildFails(n) \/ Bootstrap(n) \/ Unmoved(n) \/ Reannounce(n)
             \/ Joined(n) \/ JoinFails(n) \/ ReannounceFails(n) \/ Stop(n) \/ Close(n)
             \/ CloseTransport(n)
      PROVE  MemberInv'
  BY <1>3, BuildKeepsMembers, BootstrapKeepsMembers, MovesKeepMembers, CloseKeepsMembers
<1>4. ASSUME NEW n \in Node, GracefulStop(n) \/ Crash(n)  PROVE MemberInv'
  BY <1>4, GoneKeepsMembers DEF GracefulStop, Crash
<1>5. ASSUME NEW n \in Node, Elect(n) \/ Hear(n) \/ Doubt(n)  PROVE MemberInv'
  BY <1>5, ElectKeepsMembers, HearKeepsMembers, DoubtKeepsMembers
<1>6. ASSUME NEW c \in Client,
             \/ Unavailable(c) \/ ForwardCall(c) \/ CallFails(c) \/ Retry(c)
             \/ GiveUp(c, "failed") \/ GiveUp(c, "unavailable")
      PROVE  MemberInv'
  BY <1>6, CallsKeepMembers
<1>7. ASSUME NEW c \in Client, Change(c)  PROVE MemberInv'
  BY <1>7, ChangeKeepsMembers
<1>8. ASSUME NEW i \in 1..MaxLate, CommitLate(i)  PROVE MemberInv'
  BY <1>8, CommitLateKeepsMembers
<1>9. ASSUME UNCHANGED <<procVars, confs, known, elected, view, call, histVars>>
      PROVE  MemberInv'
  <2>1. UNCHANGED <<pc, fns, addr, hasState, announced, confs, known, elected, view, call,
                    stale, boots>>
    BY <1>9 DEF procVars, histVars
  <2>2. \A m \in Node : AddressOf(m)'
    BY <2>1, AddressFrame DEF MemberInv, AddressInv
  <2> QED
    BY <2>1, <2>2, RaftFrame DEF MemberInv, BootInv, AddressInv, AdminInv
<1>10. ASSUME NEW i \in 1..MaxLate, DropLate(i)  PROVE MemberInv'
  BY <1>9, <1>10 DEF DropLate
<1>11. ASSUME NEW n \in Node, Arrive(n) \/ Respond(n)  PROVE MemberInv'
  BY <1>9, <1>11 DEF Arrive, Respond
<1>12. CASE UNCHANGED vars
  BY <1>9, <1>12 DEF vars, raftVars
<1> QED
  BY <1>1, <1>2, <1>3, <1>4, <1>5, <1>6, <1>7, <1>8, <1>10, <1>11, <1>12 DEF Next

\* What goes on without its client was once a client's call.
LEMMA GiveUpKeepsLate ==
  ASSUME HopInv, MemberInv, LateInv, NEW c \in Client, NEW status, GiveUp(c, status)
  PROVE  LateInv'
<1> DEFINE k == [kind |-> call[c].kind, id |-> call[c].id, addr |-> call[c].addr]
<1>1. PICK i \in 1..MaxLate : late' = [late EXCEPT ![i] = k]
  BY DEF GiveUp
<1>2. Sound(call[c]) /\ addr' = addr
  BY CallIsSound DEF GiveUp, procVars
<1>3. Sound(k)
  BY <1>2 DEF Sound
<1> HIDE DEF k
<1>4. /\ late' = [j \in 1..MaxLate |-> late'[j]]
      /\ \A j \in 1..MaxLate : late'[j] = k \/ late'[j] = late[j]
  BY <1>1 DEF LateInv
<1> QED  BY <1>3, <1>4 DEF LateInv

LEMMA LateInvNext == HopInv /\ MemberInv /\ LateInv /\ [Next]_vars => LateInv'
<1> SUFFICES ASSUME HopInv, MemberInv, LateInv, [Next]_vars  PROVE LateInv'
  OBVIOUS
<1>1. ASSUME late' = late  PROVE LateInv'
  BY <1>1 DEF LateInv
<1>2. ASSUME NEW n \in Node, NEW a \in Addr, Listen(n, a) \/ Join(n, a) \/ Leave(n, a)
      PROVE  LateInv'
  BY <1>1, <1>2 DEF Listen, Join, Leave, raftVars
<1>3. ASSUME NEW n \in Node,
             \/ Build(n) \/ BuildFails(n) \/ Bootstrap(n) \/ Unmoved(n) \/ Reannounce(n)
             \/ Joined(n) \/ JoinFails(n) \/ ReannounceFails(n) \/ Stop(n)
      PROVE  LateInv'
  BY <1>1, <1>3 DEF Build, BuildFails, Bootstrap, Unmoved, Reannounce, Joined, JoinFails,
                    ReannounceFails, Stop, raftVars
<1>4. ASSUME NEW n \in Node, \/ Close(n) \/ CloseTransport(n) \/ GracefulStop(n) \/ Crash(n)
                             \/ Elect(n) \/ Hear(n) \/ Doubt(n) \/ Arrive(n) \/ Respond(n)
      PROVE  LateInv'
  BY <1>1, <1>4 DEF Close, CloseTransport, GracefulStop, Crash, Elect, Hear, Doubt, Arrive,
                    Respond
<1>5. ASSUME NEW c \in Client,
             Unavailable(c) \/ ForwardCall(c) \/ Change(c) \/ CallFails(c) \/ Retry(c)
      PROVE  LateInv'
  BY <1>1, <1>5 DEF Unavailable, ForwardCall, Change, CallFails, Retry, raftVars
<1>6. ASSUME NEW c \in Client, GiveUp(c, "failed") \/ GiveUp(c, "unavailable")
      PROVE  LateInv'
  BY <1>6, GiveUpKeepsLate
<1>7. ASSUME NEW i \in 1..MaxLate, CommitLate(i) \/ DropLate(i)  PROVE LateInv'
  <2>1. late' = [late EXCEPT ![i] = NoChange]
    BY <1>7 DEF CommitLate, DropLate
  <2>2. /\ late' = [j \in 1..MaxLate |-> late'[j]]
        /\ \A j \in 1..MaxLate : late'[j] = NoChange \/ late'[j] = late[j]
    BY <2>1 DEF LateInv
  <2> QED  BY <2>2 DEF LateInv
<1>8. CASE UNCHANGED vars
  BY <1>1, <1>8 DEF vars, raftVars
<1> QED  BY <1>2, <1>3, <1>4, <1>5, <1>6, <1>7, <1>8 DEF Next

LEMMA MemberInvariant == Spec => []MemberInv
<1>1. Init => BuildInv
  BY RegistryEmpty DEF Init, BuildInv
<1>2. Init => LateInv
  BY DEF Init, LateInv
<1> QED
  BY <1>1, <1>2, HopInvInit, HopInvNext, BuildInvNext, MemberInvInit, MemberInvNext,
     LateInvNext, PTL DEF Spec

\* A restart never bootstraps again (main.go:158-167): there is one cluster, however
\* often and wherever its nodes crash.
THEOREM OneClusterOnly == Spec => []OneCluster
<1>1. MemberInv => OneCluster
  BY SMTT(60) DEF MemberInv, BootInv, OneCluster
<1> QED  BY <1>1, MemberInvariant, PTL

\* A node that announced itself is recorded at the address it listens on
\* (main.go:227-234), unless it was removed, or the cluster has recorded another one
\* without its knowledge: while it was down, or by a late change of its own.
THEOREM AnnouncedIsRecorded == Spec => []ReachableAtAddress
<1>1. MemberInv => ReachableAtAddress
  BY DEF MemberInv, AddressInv, AddressOf, Recorded, ReachableAtAddress
<1> QED  BY <1>1, MemberInvariant, PTL

=============================================================================
