-------------------------- MODULE MCSharedBitmaps --------------------------
\* Two containers of two values each, of which the second is only ever half full.
EXTENDS SharedBitmaps

\* Which bitmap is which does not matter.
MCSymmetry == Permutations(Slots)

MCFlipRanges == {<<0, 3>>, <<1, 2>>}

=============================================================================
