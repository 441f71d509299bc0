--------------------------- MODULE CallAdmission ---------------------------
(***************************************************************************)
(* What the call manager promises the rest of the PBX about the            *)
(* system-wide call limit: a call holds at most one slot, a slot is taken  *)
(* only while fewer than MaxCalls are held, and a slot, once given back,   *)
(* is not used again by the same call.  Nothing is said here about how     *)
(* concurrent INVITEs agree on who gets the last slot.                     *)
(***************************************************************************)
EXTENDS Naturals, FiniteSets

CONSTANTS Calls,      \* dialog ids of the INVITEs the server may receive
          MaxCalls    \* limits.max_calls

VARIABLES admitted,   \* calls holding a slot
          finished    \* calls that gave their slot back

avars == <<admitted, finished>>

AInit == admitted = {} /\ finished = {}

Admit(c) ==
    /\ c \notin admitted \cup finished
    /\ Cardinality(admitted) < MaxCalls
    /\ admitted' = admitted \cup {c}
    /\ UNCHANGED finished

GiveBack(c) ==
    /\ c \in admitted
    /\ admitted' = admitted \ {c}
    /\ finished' = finished \cup {c}

ANext == \E c \in Calls : Admit(c) \/ GiveBack(c)

ASpec == AInit /\ [][ANext]_avars
=============================================================================
