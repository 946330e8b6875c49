----------------------------- MODULE MCRecovery -----------------------------
(***************************************************************************)
(* Recovery on a small instance: MCRecovery.cfg for what holds,            *)
(* MCEarlySnapshot.cfg for a snapshot that falls between the consumption   *)
(* of a marker and the publication of its transaction.                     *)
(***************************************************************************)
EXTENDS Recovery

\* Pages are interchangeable: the first entry that writes only one page writes this one.
First == CHOOSE p \in Page : TRUE
InTurn ==
  LET single == {i \in DOMAIN chosen : Cardinality(chosen[i].pages) = 1}
  IN  single # {} => chosen[Min(single)].pages = {First}

=============================================================================
