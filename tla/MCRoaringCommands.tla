------------------------- MODULE MCRoaringCommands --------------------------
(***************************************************************************)
(* Instances of RoaringCommands for TLC.                                   *)
(***************************************************************************)
EXTENDS RoaringCommands, TLC

\* Two container keys in use out of three, the last one among them.
TwoOfThree == {0, 2}

\* Every container key in use.
AllTwo == {0, 1}

OnlyLast == {1}

InRange == {0}

AnyWord == {0, 1}

\* ISMEMBER about every integer, and about what is none.
AnyInteger == Integer64

OnlyText == {NotInt}

KeySymmetry == Permutations(Key)

=============================================================================
