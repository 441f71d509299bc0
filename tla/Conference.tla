---------------------------- MODULE Conference ----------------------------
(***************************************************************************)
(* One conference room of internal/conference/conference.go: the capacity  *)
(* gate, the PIN gate, and the switch between hold music for a sole        *)
(* participant and the mixer for two or more.                              *)
(*                                                                         *)
(* HandleJoin runs in one goroutine per caller.  room.mu is held inside a  *)
(* step only: every Lock ... Unlock region of the code is one step, and a  *)
(* region that follows another one is a step of its own.                   *)
(***************************************************************************)
EXTENDS Naturals, FiniteSets

CONSTANTS
    Callers,        \* dialogs that may dial the room
    Mixable,        \* those whose codec the mixer can transcode
    Max,            \* Room.max
    MaxPINAttempts,
    NoCaller        \* r.moh = nil

ASSUME CallersAssumption ==
    IsFiniteSet(Callers) /\ Mixable \subseteq Callers /\ NoCaller \notin Callers
ASSUME BoundsAssumption == Max \in Nat /\ MaxPINAttempts \in Nat \ {0}

VARIABLES
    pc,         \* where a caller's HandleJoin stands
    dialog,     \* state of the caller's dialog
    count,      \* Room.count
    reserved,   \* Room.reserved
    sessions,   \* Room.sessions
    moh,        \* the caller Room.moh plays to
    mixer,      \* legs of Room.Mixer
    tracks,     \* MOHTracks finds hold music; its directory stays as it is
    wrong,      \* wrongAttempts of collectPIN
    late,       \* callers whose PIN deadline has passed
    refresh     \* callers with an onParticipantMediaUpdate past its check

room  == <<count, reserved, sessions>>
media == <<moh, mixer, tracks>>
pin   == <<wrong, late>>
vars  == <<pc, dialog, room, media, pin, refresh>>

Reserving == {"answer", "pin", "read", "admit", "undo"}
Inside    == {"reconcile", "inRoom"}

TypeOK ==
    /\ pc \in [Callers -> {"idle", "reserve", "leaveReconcile", "done"}
                          \cup Reserving \cup Inside]
    /\ dialog \in [Callers -> {"none", "early", "up", "ended"}]
    /\ count \in Nat /\ reserved \in Nat
    /\ sessions \subseteq Callers
    /\ moh \in Callers \cup {NoCaller}
    /\ mixer \subseteq Mixable /\ tracks \in BOOLEAN
    /\ wrong \in [Callers -> 0..(MaxPINAttempts - 1)]
    /\ late \subseteq Callers
    /\ refresh \subseteq Callers

Init ==
    /\ pc = [c \in Callers |-> "idle"]
    /\ dialog = [c \in Callers |-> "none"]
    /\ count = 0 /\ reserved = 0 /\ sessions = {}
    /\ moh = NoCaller /\ mixer = {} /\ tracks \in BOOLEAN
    /\ wrong = [c \in Callers |-> 0]
    /\ late = {} /\ refresh = {}

Goto(c, p) == pc' = [pc EXCEPT ![c] = p]

-----------------------------------------------------------------------------
(* Phones *)

Dial(c) ==
    /\ pc[c] = "idle"
    /\ Goto(c, "reserve")
    /\ dialog' = [dialog EXCEPT ![c] = "early"]
    /\ UNCHANGED <<room, media, pin, refresh>>

PhoneHangup(c) ==
    /\ dialog[c] \in {"early", "up"}
    /\ dialog' = [dialog EXCEPT ![c] = "ended"]
    /\ UNCHANGED <<pc, room, media, pin, refresh>>

-----------------------------------------------------------------------------
(* The capacity gate *)

HasRoom_participantsOnly == count < Max

HasRoom == count + reserved < Max

Reserve(c) ==
    /\ pc[c] = "reserve"
    /\ HasRoom
    /\ reserved' = reserved + 1
    /\ Goto(c, "answer")
    /\ UNCHANGED <<dialog, count, sessions, media, pin, refresh>>

\* Busy tone; the handler returns and the dialog is hung up.
RoomFull(c) ==
    /\ pc[c] = "reserve"
    /\ ~HasRoom
    /\ dialog' = [dialog EXCEPT ![c] = "ended"]
    /\ Goto(c, "done")
    /\ UNCHANGED <<room, media, pin, refresh>>

\* The room's row is read for every INVITE; it may or may not ask for a PIN.
Answer(c) ==
    /\ pc[c] = "answer"
    /\ dialog[c] = "early"
    /\ dialog' = [dialog EXCEPT ![c] = "up"]
    /\ \/ Goto(c, "pin")
       \/ Goto(c, "admit")
    /\ UNCHANGED <<room, media, pin, refresh>>

AnswerFails(c) ==
    /\ pc[c] = "answer"
    /\ dialog[c] = "ended"
    /\ Goto(c, "undo")
    /\ UNCHANGED <<dialog, room, media, pin, refresh>>

-----------------------------------------------------------------------------
(* collectPIN *)

\* wrongAttempts and deadline are local to collectPIN.
EndCollect(c) ==
    /\ wrong' = [wrong EXCEPT ![c] = 0]
    /\ late' = late \ {c}

DeadlinePasses(c) ==
    /\ pc[c] \in {"pin", "read"}
    /\ c \notin late
    /\ late' = late \cup {c}
    /\ UNCHANGED <<pc, dialog, room, media, wrong, refresh>>

NextAttempt_noDeadline(c) ==
    /\ pc[c] = "pin"
    /\ Goto(c, IF dialog[c] = "ended" THEN "undo" ELSE "read")
    /\ UNCHANGED <<dialog, room, media, pin, refresh>>

\* The head of the loop.
NextAttempt(c) ==
    /\ pc[c] = "pin"
    /\ IF dialog[c] = "ended" \/ c \in late
       THEN Goto(c, "undo") /\ EndCollect(c)
       ELSE Goto(c, "read") /\ UNCHANGED pin
    /\ UNCHANGED <<dialog, room, media, refresh>>

ReadTimesOut(c) ==
    /\ pc[c] = "read"
    /\ Goto(c, "pin")
    /\ UNCHANGED <<dialog, room, media, pin, refresh>>

PINRight(c) ==
    /\ pc[c] = "read"
    /\ Goto(c, "admit")
    /\ EndCollect(c)
    /\ UNCHANGED <<dialog, room, media, refresh>>

PINWrong_retriesForever(c) ==
    /\ pc[c] = "read"
    /\ wrong' = [wrong EXCEPT ![c] = @ + 1]
    /\ Goto(c, "pin")
    /\ UNCHANGED <<dialog, room, media, late, refresh>>

PINWrong(c) ==
    /\ pc[c] = "read"
    /\ IF wrong[c] + 1 >= MaxPINAttempts
       THEN Goto(c, "undo") /\ EndCollect(c)
       ELSE /\ Goto(c, "pin")
            /\ wrong' = [wrong EXCEPT ![c] = @ + 1]
            /\ UNCHANGED late
    /\ UNCHANGED <<dialog, room, media, refresh>>

\* Not admitted: hang up and give the reservation back.
Undo(c) ==
    /\ pc[c] = "undo"
    /\ reserved' = reserved - 1
    /\ dialog' = [dialog EXCEPT ![c] = "ended"]
    /\ Goto(c, "done")
    /\ UNCHANGED <<count, sessions, media, pin, refresh>>

-----------------------------------------------------------------------------
(* The room *)

Admit(c) ==
    /\ pc[c] = "admit"
    /\ reserved' = reserved - 1
    /\ count' = count + 1
    /\ sessions' = sessions \cup {c}
    /\ Goto(c, "reconcile")
    /\ UNCHANGED <<dialog, media, pin, refresh>>

Alive_everyLeg == {c \in Callers : dialog[c] = "up"}

\* aliveSessionsLocked
Alive == {c \in sessions : dialog[c] # "ended"}

\* admitted of applyMediaLocked
Admitted == IF count = 0 THEN Cardinality(Alive) ELSE count

\* applyMediaLocked: all audio is stopped, then mixer for two or more
\* admitted participants, hold music, if there is any, for a sole one that is
\* still there.
ApplyMedia_byAlive ==
    /\ mixer' = IF Cardinality(Alive) >= 2 THEN Alive \cap Mixable ELSE {}
    /\ IF tracks /\ Cardinality(Alive) = 1 THEN moh' \in Alive ELSE moh' = NoCaller
    /\ UNCHANGED tracks

ApplyMedia_mohNotStopped ==
    /\ mixer' = IF Admitted >= 2 THEN Alive \cap Mixable ELSE {}
    /\ IF tracks /\ Admitted = 1 /\ Cardinality(Alive) = 1 THEN moh' \in Alive ELSE UNCHANGED moh
    /\ UNCHANGED tracks

ApplyMedia ==
    /\ mixer' = IF Admitted >= 2 THEN Alive \cap Mixable ELSE {}
    /\ IF tracks /\ Admitted = 1 /\ Cardinality(Alive) = 1 THEN moh' \in Alive ELSE moh' = NoCaller
    /\ UNCHANGED tracks

Reconcile(c) ==
    /\ pc[c] = "reconcile"
    /\ ApplyMedia
    /\ Goto(c, "inRoom")
    /\ UNCHANGED <<dialog, room, pin, refresh>>

\* A hold or resume re-INVITE: the check under the lock, then the reconcile
\* in a second lock region of the same goroutine.
MediaUpdate(c) ==
    /\ dialog[c] = "up"
    /\ c \in sessions
    /\ refresh' = refresh \cup {c}
    /\ UNCHANGED <<pc, dialog, room, media, pin>>

Refresh(c) ==
    /\ c \in refresh
    /\ ApplyMedia
    /\ refresh' = refresh \ {c}
    /\ UNCHANGED <<pc, dialog, room, pin>>

\* HandleJoin wakes when the dialog is done; leave, first region.
Leave(c) ==
    /\ pc[c] = "inRoom"
    /\ dialog[c] = "ended"
    /\ count' = count - 1
    /\ sessions' = sessions \ {c}
    /\ Goto(c, "leaveReconcile")
    /\ UNCHANGED <<dialog, reserved, media, pin, refresh>>

LeaveReconcile_skipped(c) ==
    /\ pc[c] = "leaveReconcile"
    /\ Goto(c, "done")
    /\ UNCHANGED <<dialog, room, media, pin, refresh>>

LeaveReconcile(c) ==
    /\ pc[c] = "leaveReconcile"
    /\ ApplyMedia
    /\ Goto(c, "done")
    /\ UNCHANGED <<dialog, room, pin, refresh>>

-----------------------------------------------------------------------------

\* What the server does for a caller by itself; a read ends at its timeout.
ServerStep(c) ==
    \/ Reserve(c) \/ RoomFull(c) \/ Answer(c) \/ AnswerFails(c)
    \/ NextAttempt(c) \/ ReadTimesOut(c) \/ Undo(c) \/ Admit(c)
    \/ Reconcile(c) \/ Leave(c) \/ LeaveReconcile(c)

PhoneStep(c) ==
    Dial(c) \/ PhoneHangup(c) \/ PINRight(c) \/ PINWrong(c) \/ MediaUpdate(c)

Next == \E c \in Callers :
            ServerStep(c) \/ PhoneStep(c) \/ Refresh(c) \/ DeadlinePasses(c)

Spec == Init /\ [][Next]_vars

\* Goroutines are scheduled and clocks run.
FairSpec ==
    /\ Spec
    /\ \A c \in Callers :
          WF_vars(ServerStep(c)) /\ WF_vars(Refresh(c)) /\ WF_vars(DeadlinePasses(c))

-----------------------------------------------------------------------------
(* Properties *)

\* Seats are never overbooked, counting callers who are still typing their
\* PIN, and the two counters are exactly the callers inside and the callers
\* at the gate (HandleJoin, leave).
SeatsAccounted ==
    /\ count + reserved <= Max
    /\ count = Cardinality(sessions)
    /\ reserved = Cardinality({c \in Callers : pc[c] \in Reserving})

\* A caller at the PIN gate, or refused there, neither hears the room nor is
\* heard in it; who has left is off the air unless the line is dead already.
OnlyParticipantsOnAir ==
    \A c \in Callers :
        c \in mixer \cup {moh} /\ dialog[c] # "ended" => c \in sessions

\* REQ-CONF-1: hold music and the mixer are never on at the same time.
NoMusicInMixer == moh = NoCaller \/ mixer = {}

Settled ==
    /\ refresh = {}
    /\ \A c \in Callers : pc[c] \notin {"reconcile", "leaveReconcile"}
    /\ \A c \in sessions : dialog[c] # "ended"

\* REQ-CONF-2, 3 and 5: whenever no join, leave or re-INVITE is being dealt
\* with, a sole participant hears hold music, if any is installed, and two or
\* more are mixed, whatever order the goroutines reconciled in (applyMediaLocked).
MediaMatchesRoom ==
    Settled =>
        /\ Cardinality(sessions) >= 2 => mixer = sessions \cap Mixable /\ moh = NoCaller
        /\ \A c \in Callers : sessions = {c} => (tracks => moh = c) /\ mixer = {}
        /\ sessions = {} => moh = NoCaller /\ mixer = {}

\* REQ-CONF-5: a re-INVITE alone never brings hold music into a room with two
\* admitted participants, even if one of them has just hung up.
HoldStartsNoMusic ==
    [][\A c \in Callers : Refresh(c) /\ count >= 2 => moh' = NoCaller]_vars

\* REQ-CONF-4: a participant whom everyone else has left gets hold music, when
\* there is any, unless someone joins or the participant leaves too.
LastOneHearsMusic ==
    \A c \in Callers :
        (tracks /\ sessions = {c}) ~> (moh = c \/ dialog[c] = "ended" \/ sessions # {c})

\* A seat reserved at the gate is filled or given back: a caller who never
\* enters a PIN cannot keep it (pinSessionDeadline, maxPINAttempts).
ReservationEnds ==
    \A c \in Callers : (pc[c] \in Reserving) ~> (pc[c] \notin Reserving)
=============================================================================
