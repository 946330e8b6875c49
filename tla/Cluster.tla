------------------------------- MODULE Cluster -------------------------------
(***************************************************************************)
(* The nodes of a cluster as processes: how cmd/literaft/main.go builds a  *)
(* node and tears it down, how a node bootstraps, joins, comes back or     *)
(* re-announces a new address, and how membership calls find the leader.   *)
(* Elections and the replication of configurations are raft's (external).  *)
(***************************************************************************)
EXTENDS Integers, Sequences, FiniteSets, Functions

CONSTANTS Node, Addr,
          Seed,        \* the node that is started without -join
          Admin,       \* runs literaft -leave
          NoNode, NoAddr,
          MaxTerm, MaxConfs, MaxStarts,  \* bounds
          MaxLate      \* bound: changes under way that nobody waits for

ASSUME SeedAssumption == Seed \in Node /\ Admin \notin Node
ASSUME NoneAssumption == NoNode \notin Node /\ NoAddr \notin Addr

VARIABLES
  \* the processes: step of run, registered resources in order, address, whether
  \* raft state was found, targets still to be asked, and the outcome
  pc, fns, addr, hasState, targets, announced,
  \* raft: the committed configurations (node -> address), how many of them each
  \* node has, who was elected in the last term, whom a node takes for leader, changes
  \* that go on although their client gave up, nodes at which an RPC waits for raft
  confs, known, elected, view, late, parked,
  \* membership calls by client, and history: starts, nodes removed on request,
  \* nodes that what they have recorded of themselves is outdated for, bootstraps
  call, starts, left, stale, boots

procVars == <<pc, fns, addr, hasState, targets, announced>>
raftVars == <<confs, known, elected, view, late, parked>>
histVars == <<starts, left, stale, boots>>
vars == <<procVars, raftVars, call, histVars>>

-----------------------------------------------------------------------------
\* Resources, in the order in which run registers their cleanup.
Resources == <<"grpc", "store", "fsm", "raft", "fwd", "driver", "db">>
Announcing == 5     \* resources that are there when the node announces itself

Conf == IF confs = <<>> THEN <<>> ELSE confs[Len(confs)]
ConfOf(n) == IF known[n] = 0 THEN <<>> ELSE confs[known[n]]
Serves(n) == "raft" \in Range(fns[n]) /\ pc[n] # "build"
NoView == [term |-> 0, leader |-> NoNode, addr |-> NoAddr]
IsLeader(n) == view[n].leader = n

NoChange == [kind |-> "none", id |-> NoNode, addr |-> NoAddr]
NoCall == [at |-> NoAddr, via |-> NoAddr, kind |-> "none", id |-> NoNode,
           addr |-> NoAddr, hops |-> 0, status |-> "none"]

-----------------------------------------------------------------------------
\* A node starts

\* net.Listen on an address that is free; the registry begins with closeGRPC.
Listen(n, a) ==
  /\ pc[n] = "off" /\ starts < MaxStarts
  /\ \A m \in Node : addr[m] # a
  /\ starts' = starts + 1
  /\ addr' = [addr EXCEPT ![n] = a]
  /\ fns' = [fns EXCEPT ![n] = <<"grpc">>]
  /\ pc' = [pc EXCEPT ![n] = "build"]
  /\ UNCHANGED <<hasState, targets, announced, raftVars, call, left, stale, boots>>

\* Mutation: only a bootstrap or join that got through counts as state.
HasExistingStateAnnounced(n) == announced[n]

\* HasExistingState (external) over the raft store and the snapshots.
HasExistingState(n) == known[n] > 0

\* What the node has on disk about itself is no longer so.
Outdated(n) ==
  /\ n \in DOMAIN ConfOf(n)
  /\ n \in DOMAIN Conf => Conf[n] # ConfOf(n)[n]

\* The next resource is opened; after the store, hasState is read, and once raft
\* and the gRPC server run, the node announces itself.
Build(n) ==
  LET r == Resources[Len(fns[n]) + 1]
  IN  /\ pc[n] \in {"build", "rest"}
      /\ fns' = [fns EXCEPT ![n] = Append(@, r)]
      /\ hasState' = IF r = "store" THEN [hasState EXCEPT ![n] = HasExistingState(n)]
                     ELSE hasState
      /\ stale' = IF r = "raft" THEN IF Outdated(n) THEN stale \cup {n} ELSE stale \ {n}
                  ELSE stale
      /\ pc' = [pc EXCEPT ![n] = IF Len(fns'[n]) = Announcing THEN "announce"
                                 ELSE IF r = "db" THEN "serving" ELSE @]
      /\ UNCHANGED <<addr, targets, announced, raftVars, call, starts, left, boots>>

\* A step that can fail does, the bootstrap included: reg.shutdown.
BuildFails(n) ==
  /\ IF pc[n] = "announce" THEN ~hasState[n] /\ n = Seed
     ELSE /\ pc[n] \in {"build", "rest"}
          /\ Resources[Len(fns[n]) + 1] \in {"store", "fsm", "raft", "db"}
  /\ pc' = [pc EXCEPT ![n] = "shutdown"]
  /\ UNCHANGED <<fns, addr, hasState, targets, announced, raftVars, call, histVars>>

-----------------------------------------------------------------------------
\* A node announces itself

Rest(n, ok) ==
  /\ pc' = [pc EXCEPT ![n] = "rest"]
  /\ announced' = [announced EXCEPT ![n] = ok]

\* First start without -join: a cluster of its own.
Bootstrap(n) ==
  /\ pc[n] = "announce" /\ ~hasState[n] /\ n = Seed
  /\ Rest(n, TRUE)
  /\ confs' = <<[m \in {n} |-> addr[m]]>>
  /\ known' = [known EXCEPT ![n] = 1]
  /\ boots' = boots + 1
  /\ UNCHANGED <<fns, addr, hasState, targets, elected, view, late, parked, call, starts,
                 left, stale>>

\* Mutation: a restart trusts that its address is the recorded one.
MovedNever(n) == n \notin Node

\* reannounceTargets
Moved(n) == n \in DOMAIN ConfOf(n) /\ ConfOf(n)[n] # addr[n]
Peers(n) == {ConfOf(n)[m] : m \in DOMAIN ConfOf(n) \ {n}}

\* Restart at the recorded address, or out of the recovered configuration.
Unmoved(n) ==
  /\ pc[n] = "announce" /\ hasState[n] /\ ~Moved(n)
  /\ Rest(n, n \in DOMAIN ConfOf(n))
  /\ UNCHANGED <<fns, addr, hasState, targets, raftVars, call, histVars>>

\* -join, if it is given: someone who listens.
Listening(n) == {addr[m] : m \in Node \ {n}} \ {NoAddr}

\* Restart at another address: whom to tell is read off the configuration once.
Reannounce(n) ==
  /\ pc[n] = "announce" /\ hasState[n] /\ Moved(n)
  /\ pc' = [pc EXCEPT ![n] = "reannounce"]
  /\ \E hint \in {{}} \cup {{a} : a \in Listening(n)} :
       targets' = [targets EXCEPT ![n] = hint \cup Peers(n)]
  /\ UNCHANGED <<fns, addr, hasState, announced, raftVars, call, histVars>>

\* Join through -join, or through the next of the targets.
Join(n, a) ==
  /\ call[n] = NoCall
  /\ \/ pc[n] = "announce" /\ ~hasState[n] /\ n # Seed /\ a \in Listening(n)
     \/ pc[n] = "reannounce" /\ a \in targets[n]
  /\ call' = [call EXCEPT ![n] = [NoCall EXCEPT !.at = a, !.via = a, !.kind = "add", !.id = n,
                                                !.addr = addr[n], !.status = "sent"]]
  /\ targets' = [targets EXCEPT ![n] = @ \ {a}]
  /\ UNCHANGED <<pc, fns, addr, hasState, announced, raftVars, histVars>>

Joined(n) ==
  /\ pc[n] \in {"announce", "reannounce"} /\ call[n].status = "ok"
  /\ Rest(n, TRUE)
  /\ call' = [call EXCEPT ![n] = NoCall]
  /\ targets' = [targets EXCEPT ![n] = {}]
  /\ UNCHANGED <<fns, addr, hasState, raftVars, histVars>>

\* Join returns an error.  A first start is over; a restart asks the next target.
JoinFails(n) ==
  /\ pc[n] \in {"announce", "reannounce"} /\ call[n].status = "failed"
  /\ call' = [call EXCEPT ![n] = NoCall]
  /\ pc' = IF pc[n] = "announce" THEN [pc EXCEPT ![n] = "shutdown"] ELSE pc
  /\ UNCHANGED <<fns, addr, hasState, targets, announced, raftVars, histVars>>

\* No target is left: a warning, and the node goes on.
ReannounceFails(n) ==
  /\ pc[n] = "reannounce" /\ targets[n] = {} /\ call[n] = NoCall
  /\ Rest(n, FALSE)
  /\ UNCHANGED <<fns, addr, hasState, targets, raftVars, call, histVars>>

-----------------------------------------------------------------------------
\* Membership calls.  Client c's call is at an address; who listens there handles it.

Client == Node \cup {Admin}
At(c) == {n \in Node : addr[n] = call[c].at /\ Serves(n)}
Put(c, value) == call' = [call EXCEPT ![c] = value]
Answer(c, status) ==
  Put(c, IF c = Admin THEN NoCall ELSE [call[c] EXCEPT !.status = status, !.hops = 0])

\* Leave, an admin's call to any member.
Leave(n, a) ==
  /\ call[Admin] = NoCall /\ n \in DOMAIN Conf /\ n \notin left
  /\ \E m \in Node : addr[m] = a
  /\ Put(Admin, [NoCall EXCEPT !.at = a, !.kind = "remove", !.id = n, !.status = "sent"])
  /\ UNCHANGED <<procVars, raftVars, histVars>>

\* Mutation: without a leader, some other member will do.
LeaderClientAny(n) ==
  IF view[n].addr # NoAddr \/ DOMAIN ConfOf(n) \subseteq {n} THEN view[n].addr
  ELSE ConfOf(n)[CHOOSE m \in DOMAIN ConfOf(n) : m # n]

\* The leader's address as far as node n knows it.
LeaderClient(n) == view[n].addr

\* Nobody listens there, or the node knows no leader: Unavailable.
Unavailable(c) ==
  /\ call[c].status = "sent"
  /\ At(c) = {} \/ \E n \in At(c) : ~IsLeader(n) /\ LeaderClient(n) = NoAddr
  /\ Answer(c, "unavailable")
  /\ UNCHANGED <<procVars, raftVars, histVars>>

\* AddVoter and RemoveVoter on a node that is not the leader.
ForwardCall(c) ==
  /\ call[c].status = "sent"
  /\ \E n \in At(c) :
       /\ ~IsLeader(n) /\ LeaderClient(n) # NoAddr
       /\ Put(c, [call[c] EXCEPT !.at = LeaderClient(n), !.hops = @ + 1])
  /\ UNCHANGED <<procVars, raftVars, histVars>>

\* What raft makes of a change, if it accepts it (external).
Changed(conf, k) ==
  IF k.kind = "add"
  THEN [m \in DOMAIN conf \cup {k.id} |-> IF m = k.id THEN k.addr ELSE conf[m]]
  ELSE [m \in DOMAIN conf \ {k.id} |-> conf[m]]
Accepts(conf, k) ==
  IF k.kind = "add" THEN \A m \in DOMAIN conf \ {k.id} : conf[m] # k.addr
  ELSE DOMAIN conf # {k.id}

\* Majorities of conf that n reaches at the addresses it has for them (external).
Quorums(n, conf) ==
  {q \in SUBSET {m \in DOMAIN conf : m = n \/ (Serves(m) /\ conf[m] = addr[m])} :
     (n \in DOMAIN conf => n \in q) /\ 2 * Cardinality(q) > Cardinality(DOMAIN conf)}

\* Leader n appends and commits change k (external).  A change that changes nothing is
\* committed all the same.
Commit(n, k) ==
  LET new == Changed(Conf, k)
  IN  /\ IsLeader(n) /\ view[n].term = elected.term /\ known[n] = Len(confs)
      /\ Accepts(Conf, k)
      /\ confs' = IF new = Conf THEN confs ELSE Append(confs, new)
      /\ Len(confs') <= MaxConfs
      /\ \E q \in Quorums(n, new) :
           known' = [m \in Node |-> IF m \in q \cup {n} THEN Len(confs') ELSE known[m]]
      /\ view' = IF n \in DOMAIN new THEN view ELSE [view EXCEPT ![n] = NoView]
      /\ left' = IF k.kind = "remove" THEN left \cup {k.id} ELSE left

\* On the leader: the change is committed and the client told so.
Change(c) ==
  /\ call[c].status = "sent"
  /\ \E n \in At(c) : Commit(n, call[c])
  /\ stale' = IF call[c].kind = "add" THEN stale \ {call[c].id} ELSE stale
  /\ Answer(c, "ok")
  /\ UNCHANGED <<procVars, elected, late, parked, starts, boots>>

\* The leader's raft refuses it, or the caller's context ends before it got there.
CallFails(c) ==
  /\ call[c].status \in {"sent", "unavailable"}
  /\ Answer(c, "failed")
  /\ UNCHANGED <<procVars, raftVars, histVars>>

\* A node that takes itself for the leader has the change, and its client will not hear
\* of it: a deadline, a lost connection or leadership, the end of either process.  The
\* handler waits for raft with a timeout of its own, and raft may have appended it.
GiveUp(c, status) ==
  /\ call[c].status = "sent"
  /\ \E n \in At(c) : IsLeader(n)
  /\ \E i \in 1..MaxLate :
       /\ late[i] = NoChange
       /\ late' = [late EXCEPT ![i] = [kind |-> call[c].kind, id |-> call[c].id,
                                       addr |-> call[c].addr]]
  /\ Answer(c, status)
  /\ UNCHANGED <<procVars, confs, known, elected, view, parked, histVars>>

\* It is committed after all, there or by a later leader that has it in its log ...
CommitLate(i) ==
  /\ late[i] # NoChange
  /\ \E n \in Node : Commit(n, late[i])
  /\ stale' = IF late[i].kind = "add" /\ late[i].addr # addr[late[i].id]
              THEN stale \cup {late[i].id} ELSE stale
  /\ late' = [late EXCEPT ![i] = NoChange]
  /\ UNCHANGED <<procVars, elected, parked, call, starts, boots>>

\* ... or refused, or overwritten.
DropLate(i) ==
  /\ late[i] # NoChange
  /\ late' = [late EXCEPT ![i] = NoChange]
  /\ UNCHANGED <<procVars, confs, known, elected, view, parked, call, histVars>>

\* Join retries what was Unavailable, from the start; Leave does not.
Retry(c) ==
  /\ call[c].status = "unavailable"
  /\ Put(c, [call[c] EXCEPT !.at = call[c].via, !.status = "sent"])
  /\ UNCHANGED <<procVars, raftVars, histVars>>

-----------------------------------------------------------------------------
\* A node stops

\* A signal or .exit.
Stop(n) ==
  /\ pc[n] = "serving"
  /\ pc' = [pc EXCEPT ![n] = "shutdown"]
  /\ UNCHANGED <<fns, addr, hasState, targets, announced, raftVars, call, histVars>>

Gone(n) ==
  /\ addr' = [addr EXCEPT ![n] = NoAddr]
  /\ pc' = [pc EXCEPT ![n] = "off"]
  /\ targets' = [targets EXCEPT ![n] = {}]
  /\ call' = [call EXCEPT ![n] = NoCall]
  /\ hasState' = [hasState EXCEPT ![n] = FALSE]
  /\ announced' = [announced EXCEPT ![n] = FALSE]
  /\ view' = [view EXCEPT ![n] = NoView]
  /\ parked' = parked \ {n}

\* shutdown: one cleanup after the other, the last registered first, up to closeGRPC.
Close(n) ==
  LET k == Len(fns[n])
  IN  /\ pc[n] = "shutdown" /\ k > 1
      /\ fns' = [fns EXCEPT ![n] = SubSeq(@, 1, k - 1)]
      /\ view' = IF fns[n][k] = "raft" THEN [view EXCEPT ![n] = NoView] ELSE view
      /\ UNCHANGED <<addr, pc, targets, hasState, announced, confs, known, elected, late,
                     parked, call, histVars>>

\* Mutation: the server is stopped first, and handlers are let go only then.
CloseTransportLate(n) ==
  /\ pc[n] = "shutdown" /\ fns[n] = <<"grpc">>
  /\ pc' = [pc EXCEPT ![n] = "stopping"]
  /\ UNCHANGED <<fns, addr, hasState, targets, announced, raftVars, call, histVars>>

\* closeGRPC: the transport is closed, which lets waiting handlers go; those that come
\* later do not wait.
CloseTransport(n) ==
  /\ pc[n] = "shutdown" /\ fns[n] = <<"grpc">>
  /\ pc' = [pc EXCEPT ![n] = "stopping"]
  /\ parked' = parked \ {n}
  /\ UNCHANGED <<fns, addr, hasState, targets, announced, confs, known, elected, view, late,
                 call, histVars>>

\* Then GracefulStop waits for the handlers, and the process ends.
GracefulStop(n) ==
  /\ pc[n] = "stopping" /\ n \notin parked
  /\ fns' = [fns EXCEPT ![n] = <<>>]
  /\ Gone(n)
  /\ UNCHANGED <<confs, known, elected, late, histVars>>

Crash(n) ==
  /\ pc[n] # "off"
  /\ fns' = [fns EXCEPT ![n] = <<>>]
  /\ Gone(n)
  /\ UNCHANGED <<confs, known, elected, late, histVars>>

-----------------------------------------------------------------------------
\* Raft (external)

\* A voter with the whole log wins the next term.
Elect(n) ==
  /\ Serves(n) /\ elected.term < MaxTerm
  /\ n \in DOMAIN Conf /\ known[n] = Len(confs) /\ Quorums(n, Conf) # {}
  /\ elected' = [term |-> elected.term + 1, leader |-> n]
  /\ view' = [view EXCEPT ![n] = [term |-> elected.term + 1, leader |-> n, addr |-> addr[n]]]
  /\ UNCHANGED <<procVars, confs, known, late, parked, call, histVars>>

\* The leader reaches a node at the address it has for it.  A simplification: only the
\* leader of the last term is heard, a deposed one that still sends is not.
Hear(n) ==
  LET l == elected.leader
  IN  /\ Serves(n) /\ elected.term > 0
      /\ l # n /\ IsLeader(l) /\ view[l].term = elected.term
      /\ n \in DOMAIN ConfOf(l) /\ ConfOf(l)[n] = addr[n]
      /\ view' = [view EXCEPT ![n] = view[l]]
      /\ known' = [known EXCEPT ![n] = known[l]]
      /\ UNCHANGED <<procVars, confs, elected, late, parked, call, histVars>>

\* A node hears nothing for a while, or a leader steps down.
Doubt(n) ==
  /\ view[n] # NoView
  /\ view' = [view EXCEPT ![n] = NoView]
  /\ UNCHANGED <<procVars, confs, known, elected, late, parked, call, histVars>>

\* A raft RPC comes in and its handler waits for raft's main loop, which answers as long
\* as raft is open.  One that comes in after that waits like one that came in before.
Arrive(n) ==
  /\ Serves(n) /\ n \notin parked
  /\ parked' = parked \cup {n}
  /\ UNCHANGED <<procVars, confs, known, elected, view, late, call, histVars>>

Respond(n) ==
  /\ Serves(n) /\ n \in parked
  /\ parked' = parked \ {n}
  /\ UNCHANGED <<procVars, confs, known, elected, view, late, call, histVars>>

Init ==
  /\ pc = [n \in Node |-> "off"] /\ fns = [n \in Node |-> <<>>]
  /\ addr = [n \in Node |-> NoAddr] /\ hasState = [n \in Node |-> FALSE]
  /\ targets = [n \in Node |-> {}] /\ announced = [n \in Node |-> FALSE]
  /\ confs = <<>> /\ known = [n \in Node |-> 0]
  /\ elected = [term |-> 0, leader |-> NoNode] /\ view = [n \in Node |-> NoView]
  /\ late = [i \in 1..MaxLate |-> NoChange] /\ parked = {}
  /\ call = [c \in Client |-> NoCall]
  /\ starts = 0 /\ left = {} /\ stale = {} /\ boots = 0

Next ==
  \/ \E n \in Node, a \in Addr : Listen(n, a) \/ Join(n, a) \/ Leave(n, a)
  \/ \E n \in Node : \/ Build(n) \/ BuildFails(n)
                     \/ Bootstrap(n) \/ Unmoved(n) \/ Reannounce(n)
                     \/ Joined(n) \/ JoinFails(n) \/ ReannounceFails(n)
                     \/ Stop(n) \/ Close(n) \/ CloseTransport(n) \/ GracefulStop(n)
                     \/ Crash(n)
                     \/ Elect(n) \/ Hear(n) \/ Doubt(n) \/ Arrive(n) \/ Respond(n)
  \/ \E c \in Client : \/ Unavailable(c) \/ ForwardCall(c) \/ Change(c) \/ CallFails(c)
                       \/ GiveUp(c, "failed") \/ GiveUp(c, "unavailable") \/ Retry(c)
  \/ \E i \in 1..MaxLate : CommitLate(i) \/ DropLate(i)

Spec == Init /\ [][Next]_vars

-----------------------------------------------------------------------------
\* Properties

\* Whatever step of run failed, and whatever raft RPCs came in meanwhile, a node that
\* shuts down is never left waiting for a handler that waits for a raft that is closed
\* (main.go:378-394).
ShutdownProceeds ==
  \A n \in Node : pc[n] \in {"shutdown", "stopping"} =>
    ENABLED (Close(n) \/ CloseTransport(n) \/ GracefulStop(n))

\* A call is passed on at most once per term, although nobody counts hops: each
\* node that passes it on knows a later leader than the one before, so the call
\* cannot go round in circles (membership.go:61-112).
HopsFollowTerms ==
  \A c \in Client : call[c].hops <= elected.term

\* A restart never bootstraps again, also after a crash right behind the bootstrap:
\* there is one cluster (main.go:158-167).
OneCluster == boots <= 1

\* A node that announced itself is recorded at the address it listens on, so that the
\* leader reaches it, unless it was removed (main.go:227-234), through lost answers,
\* retries, crashes and calls that go on without their client.  Excepted is a node of
\* which the cluster has recorded, without its knowledge, another address than it goes by:
\* while it was down, or by a late change it had asked for at an address that it has left;
\* until it gets through with a call again.
ReachableAtAddress ==
  \A n \in Node :
    /\ pc[n] = "serving" /\ announced[n] /\ n \notin stale /\ n \in DOMAIN Conf
    => Conf[n] = addr[n]

\* A node that was explicitly decommissioned before it came up stays out rather than
\* silently re-adding itself (main.go:161-163).
StaysOut ==
  [][\A n \in left \cap stale :
       hasState[n] /\ n \notin DOMAIN Conf => n \notin DOMAIN Conf']_vars

=============================================================================
