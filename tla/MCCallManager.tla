--------------------------- MODULE MCCallManager ---------------------------
(* Two extensions, one of them with call waiting, three racing INVITEs.    *)
EXTENDS CallManager, TLC

CONSTANTS e1, e2, c1, c2, c3

MCExts == {e1, e2}
MCCalls == {c1, c2, c3}
MCMaxSimultaneousCalls == e1 :> 1 @@ e2 :> 0
MCCallWaiting == e1 :> FALSE @@ e2 :> TRUE
\* Ordinary calls, a phone that dials itself, a call to a number that is no
\* extension and one whose From header has no user.
MCRequests ==
    {[caller |-> e1, callee |-> e2], [caller |-> e2, callee |-> e1],
     [caller |-> e2, callee |-> e2], [caller |-> e1, callee |-> Outside],
     [caller |-> NoUser, callee |-> e2]}

CallSymmetry == Permutations(MCCalls)

=============================================================================
