---------------------------- MODULE ReplicatedDB ----------------------------
(***************************************************************************)
(* What a literaft cluster promises its clients (README, "Consistency      *)
(* guarantees"; proto/errors): one totally ordered log of transactions,    *)
(* replicas that publish it entry by entry, and an outcome per write that  *)
(* never contradicts the log.                                              *)
(***************************************************************************)
EXTENDS Naturals, Sequences

CONSTANTS Node, Txn

VARIABLES
  log,      \* committed transactions
  view,     \* what readers of each node see: transactions in order
  outcome   \* "new", "open", "ok", "safe" (to retry) or "ambiguous"

vars == <<log, view, outcome>>

InLog(t) == \E i \in DOMAIN log : log[i] = t

Init ==
  /\ log = <<>>
  /\ view = [n \in Node |-> <<>>]
  /\ outcome = [t \in Txn |-> "new"]

Begin(t) ==
  /\ outcome[t] = "new"
  /\ outcome' = [outcome EXCEPT ![t] = "open"]
  /\ UNCHANGED <<log, view>>

\* The log grows by writes that nobody was told to retry, each at most once.
Commit ==
  /\ Len(log') > Len(log)
  /\ SubSeq(log', 1, Len(log)) = log
  /\ \A i \in Len(log) + 1 .. Len(log') :
       /\ outcome[log'[i]] \in {"open", "ambiguous"}
       /\ \A j \in 1 .. i - 1 : log'[j] # log'[i]
  /\ UNCHANGED <<view, outcome>>

\* A replica publishes the next entry of the log.
Show(n) ==
  /\ Len(view[n]) < Len(log)
  /\ view' = [view EXCEPT ![n] = Append(@, log[Len(@) + 1])]
  /\ UNCHANGED log

\* A write is acknowledged in the step that shows it to the node's readers.
Acknowledge(n) ==
  /\ Show(n)
  /\ outcome[log[Len(view[n]) + 1]] = "open"
  /\ outcome' = [outcome EXCEPT ![log[Len(view[n]) + 1]] = "ok"]

\* A write is rejected as safe to retry: it is not in the log and, by Commit,
\* never will be.
Reject(t) ==
  /\ outcome[t] = "open"
  /\ ~InLog(t)
  /\ outcome' = [outcome EXCEPT ![t] = "safe"]
  /\ UNCHANGED <<log, view>>

GiveUp(t) ==
  /\ outcome[t] = "open"
  /\ outcome' = [outcome EXCEPT ![t] = "ambiguous"]
  /\ UNCHANGED <<log, view>>

Next ==
  \/ Commit
  \/ \E n \in Node : Show(n) /\ UNCHANGED outcome
  \/ \E n \in Node : Acknowledge(n)
  \/ \E t \in Txn : Begin(t) \/ Reject(t) \/ GiveUp(t)

Spec == Init /\ [][Next]_vars

=============================================================================
