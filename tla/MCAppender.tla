----------------------------- MODULE MCAppender -----------------------------
(***************************************************************************)
(* WALAppender on small instances.                                         *)
(***************************************************************************)
EXTENDS WALAppender

MCPage == 1..2
MCThreePages == 1..3
MCMark == {1}

\* Bound: two writers are busy at a time, and one after the process started again.
Busy == Cardinality({w \in Writer : pc[w] # "idle"}) <= 2 - starts

\* Bound: transactions of one page, one after the other.
SmallInTurn ==
  /\ Cardinality({w \in Writer : pc[w] # "idle"}) <= 1
  /\ \A w \in Writer : Cardinality(loc[w].pages) <= 1

=============================================================================
