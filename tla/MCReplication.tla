---------------------------- MODULE MCReplication ---------------------------
(***************************************************************************)
(* An instance of Replication for TLC.                                     *)
(***************************************************************************)
EXTENDS Replication, TLC

OneChunk == {0}

\* Snapshots alone, and an append-only file whose rewrites start with a snapshot.
Sound ==
  {[appendOnly |-> FALSE, preamble |-> FALSE, savePoints |-> TRUE],
   [appendOnly |-> TRUE, preamble |-> TRUE, savePoints |-> FALSE]}

KeySymmetry == Permutations(Key)

=============================================================================
