---------------------------- MODULE MCGatedWAL ------------------------------
(***************************************************************************)
(* GatedWAL for TLC.  Pages and contents are interchangeable.              *)
(***************************************************************************)
EXTENDS GatedWAL, TLC

\* Three frames until the log is first started again, two from then on; and a third
\* frame only where none of the frames, or all of them, are published.
Shorter == file[3] # NoFrame => epoch = 1 /\ Len(pub) \in {0, 3}

Symmetry == Permutations(Page) \cup Permutations(Val)

=============================================================================
