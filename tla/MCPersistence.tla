---------------------------- MODULE MCPersistence ---------------------------
(***************************************************************************)
(* An instance of Persistence for TLC.                                     *)
(***************************************************************************)
EXTENDS Persistence

OneChunk == {0}

\* An append-only file that is rewritten as commands.
Rewritten == {[appendOnly |-> TRUE, preamble |-> FALSE, savePoints |-> FALSE]}

=============================================================================
