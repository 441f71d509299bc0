--------------------------- MODULE MCConference ---------------------------
EXTENDS Conference

CONSTANTS c1, c2, c3

MCCallers == {c1, c2, c3}
MCMixable == {c1, c2}
===========================================================================
