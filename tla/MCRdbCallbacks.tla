--------------------------- MODULE MCRdbCallbacks ---------------------------
(***************************************************************************)
(* An instance of RdbCallbacks for TLC.                                    *)
(***************************************************************************)
EXTENDS RdbCallbacks

AllThree == 0 .. 2

=============================================================================
