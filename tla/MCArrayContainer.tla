--------------------------- MODULE MCArrayContainer -------------------------
(***************************************************************************)
(* Instances of ArrayContainer for TLC.                                    *)
(***************************************************************************)
EXTENDS ArrayContainer

\* Memory that was zero when it was allocated.
Zeroed == {0}

=============================================================================
