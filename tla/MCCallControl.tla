--------------------------- MODULE MCCallControl ---------------------------
EXTENDS CallControl, TLC

CONSTANTS i1, i2, i3, e1, e2

MCInvites == {i1, i2, i3}
MCTwoInvites == {i1, i2}
MCExts == {e1, e2}
MCSymmetry == Permutations(MCInvites) \cup Permutations(MCExts)
=============================================================================
