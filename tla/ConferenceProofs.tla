------------------------- MODULE ConferenceProofs -------------------------
(***************************************************************************)
(* The conference room's seat accounting and its switch between hold music *)
(* and mixer, proved for any finite set of callers and any capacity.       *)
(***************************************************************************)
EXTENDS Conference, FiniteSetTheorems, TLAPS

(***************************************************************************)
(* MediaMatchesRoom speaks of settled states only, so it says nothing      *)
(* about the state before the step that settles the room.  LastReconcile   *)
(* bridges the gap: while no join or leave waits for its reconcile, the    *)
(* media are what some reconcile of the present roster made them, and a    *)
(* participant that has hung up since then may still be in the mixer.      *)
(***************************************************************************)
AtGate == {c \in Callers : pc[c] \in Reserving}
Roster == sessions = {c \in Callers : pc[c] \in Inside}
Seats == /\ count + reserved <= Max
         /\ count = Cardinality(sessions)
         /\ reserved = Cardinality(AtGate)
DialogFits == \A c \in Callers :
                 /\ pc[c] = "idle" => dialog[c] = "none"
                 /\ pc[c] \in {"leaveReconcile", "done"} => dialog[c] = "ended"
OnAir == \A c \in Callers : c \in mixer \/ c = moh => c \in sessions \/ dialog[c] = "ended"
LastReconcile ==
    (\A c \in Callers : pc[c] \notin {"reconcile", "leaveReconcile"}) =>
        /\ count >= 2 => /\ moh = NoCaller
                         /\ Alive \cap Mixable \subseteq mixer
                         /\ mixer \subseteq sessions
        /\ count = 1 => mixer = {} /\ \A c \in Alive : tracks => moh = c
        /\ count = 0 => mixer = {} /\ moh = NoCaller

IInv == TypeOK /\ Roster /\ Seats /\ DialogFits /\ OnAir /\ NoMusicInMixer /\ LastReconcile

\* Every set of callers is finite.
LEMMA FiniteCallers ==
    ASSUME NEW S \in SUBSET Callers
    PROVE  IsFiniteSet(S) /\ Cardinality(S) \in Nat
  BY CallersAssumption, FS_Subset, FS_CardinalityType

\* One more caller and one caller less change a cardinality by one.
LEMMA CardinalityStep ==
    ASSUME NEW S \in SUBSET Callers, NEW c \in Callers
    PROVE  /\ c \notin S => Cardinality(S \cup {c}) = Cardinality(S) + 1
           /\ c \in S => /\ Cardinality(S \ {c}) = Cardinality(S) - 1
                         /\ Cardinality(S) > 0
  <1>1. IsFiniteSet(S) /\ Cardinality(S) \in Nat
    BY FiniteCallers
  <1>2. c \notin S => Cardinality(S \cup {c}) = Cardinality(S) + 1
    BY <1>1, FS_AddElement
  <1>3. ASSUME c \in S
        PROVE  Cardinality(S \ {c}) = Cardinality(S) - 1 /\ Cardinality(S) > 0
    <2>1. Cardinality(S \ {c}) = Cardinality(S) - 1
      BY <1>1, <1>3, FS_RemoveElement
    <2>2. Cardinality(S \ {c}) \in Nat
      BY FiniteCallers
    <2> QED BY <1>1, <2>1, <2>2
  <1> QED BY <1>2, <1>3

\* How many participants are alive, for the roster sizes applyMediaLocked
\* tells apart.
LEMMA AliveCount ==
    ASSUME IInv
    PROVE  /\ Alive \subseteq sessions
           /\ count = 0 => Alive = {} /\ Cardinality(Alive) = 0
           /\ count = 1 => Alive = {} \/ (Cardinality(Alive) = 1 /\ \E x \in Callers : Alive = {x})
  <1> USE DEF IInv, TypeOK, Seats
  <1>1. Alive \subseteq sessions /\ Alive \subseteq Callers
    BY DEF Alive
  <1>2. IsFiniteSet(sessions) /\ IsFiniteSet(Alive)
    BY <1>1, FiniteCallers
  <1>3. ASSUME count = 0 PROVE Alive = {} /\ Cardinality(Alive) = 0
    <2>1. sessions = {}
      BY <1>2, <1>3, FS_EmptySet
    <2>2. Alive = {}
      BY <1>1, <2>1
    <2> QED BY <2>2, FS_EmptySet
  <1>4. ASSUME count = 1, Alive # {}
        PROVE  Cardinality(Alive) = 1 /\ \E x \in Callers : Alive = {x}
    <2>1. PICK x : sessions = {x}
      BY <1>2, <1>4, FS_Singleton
    <2>2. Alive = {x} /\ x \in Callers
      BY <1>1, <1>4, <2>1
    <2> QED BY <2>2, FS_Singleton
  <1> QED BY <1>1, <1>3, <1>4

\* applyMediaLocked restores everything that is said about the media.
LEMMA ApplyMediaInv ==
    ASSUME IInv, ApplyMedia, UNCHANGED <<dialog, room>>
    PROVE  /\ moh' \in Callers \cup {NoCaller} /\ mixer' \subseteq Mixable /\ tracks' = tracks
           /\ OnAir' /\ NoMusicInMixer' /\ LastReconcile'
  <1> USE DEF IInv, TypeOK, room
  <1>1. Alive \subseteq sessions /\ Alive' = Alive /\ sessions' = sessions /\ count' = count
    BY DEF Alive
  <1>2. /\ count = 0 => Alive = {} /\ Cardinality(Alive) = 0
        /\ count = 1 => Alive = {} \/ (Cardinality(Alive) = 1 /\ \E x \in Callers : Alive = {x})
    BY AliveCount
  <1>3. Admitted = count
    BY <1>2 DEF Admitted
  <1>4. /\ mixer' = IF count >= 2 THEN Alive \cap Mixable ELSE {}
        /\ IF tracks /\ count = 1 /\ Cardinality(Alive) = 1 THEN moh' \in Alive ELSE moh' = NoCaller
        /\ tracks' = tracks
    BY <1>3 DEF ApplyMedia
  <1>5. moh' \in Callers \cup {NoCaller} /\ mixer' \subseteq Mixable
    BY <1>1, <1>4
  <1>6. OnAir'
    BY <1>1, <1>4, CallersAssumption DEF OnAir
  <1>7. NoMusicInMixer'
    BY <1>4 DEF NoMusicInMixer
  <1>8. LastReconcile'
    <2>1. count >= 2 => moh' = NoCaller /\ Alive \cap Mixable \subseteq mixer' /\ mixer' \subseteq sessions
      BY <1>1, <1>4
    <2>2. count = 1 => mixer' = {} /\ \A c \in Alive : tracks => moh' = c
      BY <1>2, <1>4
    <2>3. count = 0 => mixer' = {} /\ moh' = NoCaller
      BY <1>4
    <2> QED BY <1>1, <1>4, <2>1, <2>2, <2>3 DEF LastReconcile
  <1> QED BY <1>4, <1>5, <1>6, <1>7, <1>8

\* A step that leaves roster, seats and media alone, moves one goroutine
\* between points of the same kind and revives no dialog.
LEMMA QuietStep ==
    ASSUME IInv, NEW c \in Callers, TypeOK', UNCHANGED <<room, media>>,
           \A d \in Callers \ {c} : pc'[d] = pc[d] /\ dialog'[d] = dialog[d],
           pc[c] \in Reserving <=> pc'[c] \in Reserving,
           pc[c] \in Inside <=> pc'[c] \in Inside,
           pc'[c] \in {"reconcile", "leaveReconcile"} <=> pc[c] \in {"reconcile", "leaveReconcile"},
           dialog[c] = "ended" => dialog'[c] = "ended",
           pc'[c] \in {"leaveReconcile", "done"} => dialog'[c] = "ended",
           pc'[c] = "idle" => dialog'[c] = "none"
    PROVE  IInv'
  <1> USE DEF IInv, room, media
  <1>1. Roster'
    BY DEF Roster, TypeOK
  <1>2. AtGate' = AtGate
    BY DEF AtGate
  <1>3. Seats'
    BY <1>2 DEF Seats
  <1>4. DialogFits'
    BY DEF DialogFits
  <1>5. OnAir' /\ NoMusicInMixer'
    BY DEF OnAir, NoMusicInMixer
  <1>6. LastReconcile'
    <2>1. Alive' \subseteq Alive
      BY DEF Alive, TypeOK
    <2> QED BY <2>1 DEF LastReconcile
  <1> QED BY <1>1, <1>3, <1>4, <1>5, <1>6

\* The initial state satisfies the inductive invariant.
LEMMA InitInv == Init => IInv
  <1> SUFFICES ASSUME Init PROVE IInv
    OBVIOUS
  <1> USE DEF Init
  <1>1. TypeOK
    BY BoundsAssumption DEF TypeOK
  <1>2. Roster /\ DialogFits /\ OnAir /\ NoMusicInMixer /\ LastReconcile
    BY CallersAssumption DEF Roster, Inside, DialogFits, OnAir, NoMusicInMixer, LastReconcile
  <1>3. AtGate = {}
    BY DEF AtGate, Reserving
  <1>4. Seats
    BY <1>3, FS_EmptySet, BoundsAssumption DEF Seats
  <1> QED BY <1>1, <1>2, <1>4 DEF IInv

\* The gate: a reservation is made only while there is room, counting the
\* callers still at the gate.
LEMMA ReserveInv == ASSUME IInv, NEW c \in Callers, Reserve(c) PROVE IInv'
  <1> USE DEF IInv, Reserve, Goto
  <1>1. TypeOK'
    BY DEF TypeOK, media, pin, Reserving
  <1>2. Roster' /\ DialogFits' /\ OnAir' /\ NoMusicInMixer'
    BY DEF Roster, TypeOK, Inside, DialogFits, OnAir, NoMusicInMixer, media
  <1>3. AtGate' = AtGate \cup {c} /\ c \notin AtGate
    BY DEF AtGate, TypeOK, Reserving
  <1>4. Cardinality(AtGate') = Cardinality(AtGate) + 1
    BY <1>3, CardinalityStep DEF AtGate
  <1>5. Seats'
    BY <1>4, BoundsAssumption DEF Seats, HasRoom, TypeOK
  <1>6. LastReconcile'
    BY DEF LastReconcile, TypeOK, Alive, media
  <1> QED BY <1>1, <1>2, <1>5, <1>6

\* A caller who is refused gives the reservation back.
LEMMA UndoInv == ASSUME IInv, NEW c \in Callers, Undo(c) PROVE IInv'
  <1> USE DEF IInv, Undo, Goto
  <1>3. AtGate' = AtGate \ {c} /\ c \in AtGate
    BY DEF AtGate, TypeOK, Reserving
  <1>4. Cardinality(AtGate') = Cardinality(AtGate) - 1 /\ Cardinality(AtGate) > 0
    BY <1>3, CardinalityStep DEF AtGate
  <1>1. TypeOK'
    BY <1>4 DEF TypeOK, media, pin, Seats
  <1>2. Roster' /\ DialogFits' /\ OnAir' /\ NoMusicInMixer'
    BY DEF Roster, TypeOK, Inside, DialogFits, OnAir, NoMusicInMixer, media
  <1>5. Seats'
    BY <1>4, BoundsAssumption DEF Seats, TypeOK
  <1>6. LastReconcile'
    <2>1. Alive' \subseteq Alive
      BY DEF Alive, TypeOK
    <2>2. c \notin sessions
      BY DEF Roster, Inside
    <2> QED BY <2>1, <2>2 DEF LastReconcile, TypeOK, Alive, media
  <1> QED BY <1>1, <1>2, <1>5, <1>6

\* Admission turns a reservation into a seat.
LEMMA AdmitInv == ASSUME IInv, NEW c \in Callers, Admit(c) PROVE IInv'
  <1> USE DEF IInv, Admit, Goto
  <1>3. AtGate' = AtGate \ {c} /\ c \in AtGate /\ c \notin sessions
    BY DEF AtGate, TypeOK, Reserving, Roster, Inside
  <1>4. Cardinality(AtGate') = Cardinality(AtGate) - 1 /\ Cardinality(AtGate) > 0
    BY <1>3, CardinalityStep DEF AtGate
  <1>5. Cardinality(sessions') = Cardinality(sessions) + 1
    BY <1>3, CardinalityStep DEF TypeOK
  <1>1. TypeOK'
    BY <1>4 DEF TypeOK, media, pin, Seats, Inside
  <1>2. Roster' /\ DialogFits' /\ OnAir' /\ NoMusicInMixer' /\ LastReconcile'
    BY DEF Roster, TypeOK, Inside, DialogFits, OnAir, NoMusicInMixer, LastReconcile, media
  <1>6. Seats'
    BY <1>4, <1>5, BoundsAssumption DEF Seats, TypeOK
  <1> QED BY <1>1, <1>2, <1>6

\* Leaving gives the seat up.
LEMMA LeaveInv == ASSUME IInv, NEW c \in Callers, Leave(c) PROVE IInv'
  <1> USE DEF IInv, Leave, Goto
  <1>3. AtGate' = AtGate /\ c \in sessions
    BY DEF AtGate, TypeOK, Reserving, Roster, Inside
  <1>4. Cardinality(sessions') = Cardinality(sessions) - 1 /\ Cardinality(sessions) > 0
    BY <1>3, CardinalityStep DEF TypeOK
  <1>1. TypeOK'
    BY <1>4 DEF TypeOK, media, pin, Seats
  <1>2. Roster' /\ DialogFits' /\ OnAir' /\ NoMusicInMixer' /\ LastReconcile'
    BY DEF Roster, TypeOK, Inside, DialogFits, OnAir, NoMusicInMixer, LastReconcile, media
  <1>5. Seats'
    BY <1>3, <1>4, BoundsAssumption DEF Seats, TypeOK
  <1> QED BY <1>1, <1>2, <1>5

\* Every step keeps the inductive invariant.
LEMMA StepInv == IInv /\ [Next]_vars => IInv'
  <1> SUFFICES ASSUME IInv, [Next]_vars PROVE IInv'
    OBVIOUS
  <1> USE DEF IInv
  <1>0. CASE UNCHANGED vars
    BY <1>0 DEF vars, room, media, pin, TypeOK, Roster, Seats, AtGate, DialogFits,
                OnAir, NoMusicInMixer, LastReconcile, Alive
  <1>1. ASSUME NEW c \in Callers,
               Dial(c) \/ PhoneHangup(c) \/ RoomFull(c) \/ Answer(c) \/ AnswerFails(c)
        PROVE  IInv'
    <2>1. TypeOK'
      BY <1>1 DEF TypeOK, Dial, PhoneHangup, RoomFull, Answer, AnswerFails, Goto,
                  room, media, pin, Reserving
    <2>2. /\ UNCHANGED <<room, media>>
          /\ \A d \in Callers \ {c} : pc'[d] = pc[d] /\ dialog'[d] = dialog[d]
      BY <1>1 DEF TypeOK, Dial, PhoneHangup, RoomFull, Answer, AnswerFails, Goto
    <2>3. /\ pc[c] \in Reserving <=> pc'[c] \in Reserving
          /\ pc[c] \in Inside <=> pc'[c] \in Inside
          /\ pc'[c] \in {"reconcile", "leaveReconcile"} <=> pc[c] \in {"reconcile", "leaveReconcile"}
      BY <1>1 DEF TypeOK, Dial, PhoneHangup, RoomFull, Answer, AnswerFails, Goto, Reserving, Inside
    <2>4. /\ dialog[c] = "ended" => dialog'[c] = "ended"
          /\ pc'[c] \in {"leaveReconcile", "done"} => dialog'[c] = "ended"
          /\ pc'[c] = "idle" => dialog'[c] = "none"
      BY <1>1 DEF TypeOK, DialogFits, Dial, PhoneHangup, RoomFull, Answer, AnswerFails, Goto
    <2> QED BY <2>1, <2>2, <2>3, <2>4, QuietStep
  <1>2. ASSUME NEW c \in Callers,
               \/ DeadlinePasses(c) \/ NextAttempt(c) \/ ReadTimesOut(c)
               \/ PINRight(c) \/ PINWrong(c) \/ MediaUpdate(c)
        PROVE  IInv'
    <2> USE DEF DeadlinePasses, NextAttempt, ReadTimesOut, PINRight, PINWrong, MediaUpdate, Goto
    <2>1. TypeOK'
      BY <1>2, BoundsAssumption DEF TypeOK, EndCollect, room, media, pin, Reserving
    <2>2. UNCHANGED <<dialog, room, media>>
      BY <1>2
    <2>3. /\ \A d \in Callers \ {c} : pc'[d] = pc[d]
          /\ pc'[c] = pc[c] \/ (pc[c] \in {"pin", "read"} /\ pc'[c] \in {"pin", "read", "undo", "admit"})
      BY <1>2 DEF TypeOK
    <2> QED BY <2>1, <2>2, <2>3, QuietStep DEF Reserving, Inside, DialogFits
  <1>3. ASSUME NEW c \in Callers, Reconcile(c) \/ LeaveReconcile(c) \/ Refresh(c)
        PROVE  IInv'
    <2>1. ApplyMedia /\ UNCHANGED <<dialog, room>>
      BY <1>3 DEF Reconcile, LeaveReconcile, Refresh
    <2>2. /\ moh' \in Callers \cup {NoCaller} /\ mixer' \subseteq Mixable /\ tracks' = tracks
          /\ OnAir' /\ NoMusicInMixer' /\ LastReconcile'
      BY <2>1, ApplyMediaInv
    <2>3. /\ pc' = pc \/ (pc[c] = "reconcile" /\ pc' = [pc EXCEPT ![c] = "inRoom"])
                     \/ (pc[c] = "leaveReconcile" /\ pc' = [pc EXCEPT ![c] = "done"])
          /\ UNCHANGED pin /\ refresh' \subseteq refresh
      BY <1>3 DEF Reconcile, LeaveReconcile, Refresh, Goto
    <2>4. TypeOK'
      BY <2>1, <2>2, <2>3 DEF TypeOK, room, pin, Inside
    <2>5. Roster' /\ DialogFits'
      BY <2>1, <2>3 DEF Roster, DialogFits, TypeOK, room, Inside
    <2>6. AtGate' = AtGate
      BY <2>3 DEF AtGate, TypeOK, Reserving
    <2>7. Seats'
      BY <2>1, <2>6 DEF Seats, room
    <2> QED BY <2>2, <2>4, <2>5, <2>7
  <1>4. ASSUME NEW c \in Callers, Reserve(c) \/ Undo(c) \/ Admit(c) \/ Leave(c)
        PROVE  IInv'
    BY <1>4, ReserveInv, UndoInv, AdmitInv, LeaveInv
  <1> QED BY <1>0, <1>1, <1>2, <1>3, <1>4 DEF Next, ServerStep, PhoneStep

\* The inductive invariant holds in every reachable state.
THEOREM Invariance == Spec => []IInv
  BY InitInv, StepInv, PTL DEF Spec

\* The types of the room's state; wrongAttempts stays below its limit and
\* neither counter goes below zero.
THEOREM Typing == Spec => []TypeOK
  <1>1. IInv => TypeOK
    BY DEF IInv
  <1> QED BY <1>1, Invariance, PTL

\* No overbooking: participants and callers at the PIN gate together never
\* exceed Room.max, and count and reserved say exactly who they are.
THEOREM Capacity == Spec => []SeatsAccounted
  <1>1. IInv => SeatsAccounted
    BY DEF IInv, Seats, AtGate, SeatsAccounted
  <1> QED BY <1>1, Invariance, PTL

\* Nobody who has not passed the gate hears the room or is heard in it.
THEOREM Privacy == Spec => []OnlyParticipantsOnAir
  <1>1. IInv => OnlyParticipantsOnAir
    BY DEF IInv, OnAir, OnlyParticipantsOnAir
  <1> QED BY <1>1, Invariance, PTL

\* REQ-CONF-1: hold music is off whenever a leg is in the mixer.
THEOREM MusicOff == Spec => []NoMusicInMixer
  <1>1. IInv => NoMusicInMixer
    BY DEF IInv
  <1> QED BY <1>1, Invariance, PTL

\* REQ-CONF-2, 3: a settled room plays what its roster calls for.
THEOREM Media == Spec => []MediaMatchesRoom
  <1>1. IInv => MediaMatchesRoom
    <2> SUFFICES ASSUME IInv, Settled PROVE
            /\ Cardinality(sessions) >= 2 => mixer = sessions \cap Mixable /\ moh = NoCaller
            /\ \A c \in Callers : sessions = {c} => (tracks => moh = c) /\ mixer = {}
            /\ sessions = {} => moh = NoCaller /\ mixer = {}
      BY DEF MediaMatchesRoom
    <2> USE DEF IInv, Seats
    <2>1. Alive = sessions
      BY DEF Settled, Alive
    <2>2. /\ count >= 2 => /\ moh = NoCaller
                           /\ Alive \cap Mixable \subseteq mixer
                           /\ mixer \subseteq sessions
          /\ count = 1 => mixer = {} /\ \A c \in Alive : tracks => moh = c
          /\ count = 0 => mixer = {} /\ moh = NoCaller
      BY DEF Settled, LastReconcile
    <2>3. Cardinality(sessions) >= 2 => mixer = sessions \cap Mixable /\ moh = NoCaller
      BY <2>1, <2>2 DEF TypeOK
    <2>4. \A c \in Callers : sessions = {c} => (tracks => moh = c) /\ mixer = {}
      BY <2>1, <2>2, FS_Singleton
    <2>5. sessions = {} => moh = NoCaller /\ mixer = {}
      BY <2>2, FS_EmptySet
    <2> QED BY <2>3, <2>4, <2>5
  <1> QED BY <1>1, Invariance, PTL

\* REQ-CONF-5: a re-INVITE starts no hold music while two are admitted.
THEOREM Hold == Spec => HoldStartsNoMusic
  <1>1. IInv => [\A c \in Callers : Refresh(c) /\ count >= 2 => moh' = NoCaller]_vars
    BY DEF IInv, TypeOK, Refresh, ApplyMedia, Admitted
  <1> QED BY <1>1, Invariance, PTL DEF HoldStartsNoMusic
=============================================================================
