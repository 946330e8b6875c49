--------------------------- MODULE MCReplication ---------------------------
(***************************************************************************)
(* Replication on small sets of nodes and transactions, which are          *)
(* interchangeable.                                                        *)
(***************************************************************************)
EXTENDS ReplicationInv, FiniteSets, TLC

\* A third term only for behaviours in which nothing is forwarded, and only for a leader
\* that comes back while its drain of an earlier term is still running.
FewTerms ==
  \/ lastTerm <= 2
  \/ /\ \A n \in Node : wpc[n] \notin {"forward", "await", "failed"}
     /\ \A t \in Txn : hpc[t] = "none" /\ baseIndex[t] = 0
     /\ \E n \in Node : current = n /\ drain[n] # NoDrain /\ drain[n].term < 3

\* Once there was a second election, one forwarded call is open at a time, and no
\* write begins while a handler goes on whose caller has given up.
FewCalls ==
  lastTerm > 1 =>
    /\ Cardinality({t \in Txn : hpc[t] # "none"}) <= 1
    /\ \A t \in Txn : hpc[t] # "none" /\ (\A n \in Node : wid[n] # t)
                       => \A n \in Node : wpc[n] = "idle"

Symmetry == Permutations(Node) \cup Permutations(Txn)

=============================================================================
