------------------------------- MODULE MCHold -------------------------------
(* One call whose phones send a few re-INVITEs. *)
EXTENDS HoldControl

Ways == {"sendrecv", "recvonly"}

\* Hold, release and hold again by one phone, or with the other in between.
Phones == {[in |-> 3, out |-> 0], [in |-> 2, out |-> 1], [in |-> 0, out |-> 3]}
=============================================================================
