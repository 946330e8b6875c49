------------------------------ MODULE MCCluster ------------------------------
(***************************************************************************)
(* Cluster on a small instance.                                            *)
(***************************************************************************)
EXTENDS Cluster, TLC

\* One node at a time is being built or torn down, and none while a call to leave is
\* open: these steps touch nothing that the other nodes see.
OneAtATime ==
  Cardinality({n \in Node : pc[n] \in {"build", "rest", "shutdown", "stopping"}})
    <= IF call[Admin] = NoCall THEN 1 ELSE 0

\* Raft RPCs that wait matter when the node shuts down.
Waiting == \A n \in parked : pc[n] \in {"shutdown", "stopping"}

\* A third node comes into a cluster of two in which nothing went wrong so far, and
\* then one node at a time is down or starting, and at most one other knows no leader.
Started == {n \in Node : pc[n] # "off" \/ known[n] > 0}
Orderly ==
  Cardinality(Started) = 3 =>
    /\ call[Admin] = NoCall
    /\ \E n \in Node : \A m \in Node \ {n} : pc[m] = "serving"
    /\ \A n \in Node : pc[n] \notin {"shutdown", "stopping"} /\ (known[n] = 0 => pc[n] # "off")
    /\ Cardinality({n \in Node : pc[n] = "serving" /\ view[n] = NoView}) <= 1
    /\ Len(confs) < 3 => /\ Len(confs) = 2 /\ elected.term = 1 /\ starts = 3
                         /\ \A n \in DOMAIN Conf : view[n].leader = Seed

\* Two nodes alone change the configuration twice, and start three times, or once more
\* behind a change that goes on without its client.
UnderWay == \E i \in 1..MaxLate : late[i] # NoChange
Alone ==
  Cardinality(Started) < 3 => /\ Len(confs) < 4
                              /\ starts = 4 => UnderWay \/ stale # {}

\* Changes go on without their client among two nodes, while the first one is up.
Apart == UnderWay => pc[Seed] = "serving" /\ Cardinality(Started) < 3 /\ call[Admin] = NoCall

\* Nodes and addresses are interchangeable; the second node is always the same one.
Second == CHOOSE n \in Node : n # Seed
InTurn == Started \subseteq {Seed, Second} \/ Second \in Started
Symmetry == Permutations(Addr)

=============================================================================
