---------------------------- MODULE HuntProofs ----------------------------
(***************************************************************************)
(* What a hunt guarantees for a group of any size: which answered legs can *)
(* be left over, and a sequential group rings one phone at a time.         *)
(***************************************************************************)
EXTENDS Hunt, TLAPS

\* What a sequential hunt has to remember: it uses neither dialers nor the
\* channel, and the member it joins is the one its loop stands at, and has answered.
SequentialShape ==
    /\ pc = "ringing" => next \in Members
    /\ pc \in {"join", "bridge", "talk"} => winner \in Members
    /\ strategy = "sequential" =>
          /\ pc # "select"
          /\ \A m \in Members : dialer[m] = "idle"
          /\ answered = NoMember
          /\ pc \in {"join", "bridge", "talk"} => winner = next /\ out[winner] # "early"

\* A member is in one place: dialled, offered, in the channel or joined; and an
\* abandoned leg is in none of them any more.
OnePlace ==
    /\ pc = "idle" => /\ winner = NoMember /\ answered = NoMember
                      /\ \A m \in Members : dialer[m] = "idle"
    /\ pc \in {"dial", "ringing"} => strategy = "sequential"
    /\ pc \in {"select", "dial", "ringing"} => winner = NoMember
    /\ answered # NoMember => answered # winner
    /\ \A m \in Members : dialer[m] \in {"dialing", "answered"} => m # winner /\ m # answered
    /\ \A m \in Members : out[m] = "abandoned" => ~Watched(m) /\ m # answered

IInv == TypeOK /\ SequentialShape /\ OnePlace /\ EveryLegOwned /\ OneAtATime

USE DEF Members, NoMember, Live, Ended, Open

\* A hunt that has not started satisfies the invariant.
LEMMA InitIInv == Init => IInv
<1> SUFFICES ASSUME Init PROVE IInv
  OBVIOUS
<1>1. TypeOK
  <2>1. next \in 1..(N + 1)
    BY NAssumption DEF Init
  <2>2. late \in BOOLEAN /\ cancelled \in BOOLEAN
    BY Zenon DEF Init
  <2> QED
    BY <2>1, <2>2, Zenon DEF Init, TypeOK
<1>2. SequentialShape /\ OnePlace /\ EveryLegOwned /\ OneAtATime
  BY DEF Init, OnePlace, SequentialShape, EveryLegOwned, OneAtATime, Watched
<1> QED
  BY <1>1, <1>2 DEF IInv

\* Every step of the handler, of a dialer, of a phone and of the clock keeps
\* the types.
LEMMA TypeStep == IInv /\ [Next]_vars => TypeOK'
<1> SUFFICES ASSUME IInv, [Next]_vars PROVE TypeOK'
  OBVIOUS
<1> USE NAssumption DEF IInv, TypeOK
<1>1. CASE Run
  BY <1>1 DEF Run
<1>2. CASE CallerHangup \/ RingTimeout
  BY <1>2 DEF CallerHangup, RingTimeout
<1>3. CASE TryNext \/ MemberFails \/ MemberAnswers \/ Busy
  BY <1>3 DEF TryNext, MemberFails, MemberAnswers, Busy, Drop, SequentialShape
<1>4. CASE Receive \/ GiveUp
  BY <1>4 DEF Receive, GiveUp, Drop
<1>5. CASE Answer \/ StartBridge \/ TalkEnds
  BY <1>5 DEF Answer, StartBridge, TalkEnds, JoinFails, Drop, Abandon
<1>6. ASSUME NEW m \in Members,
             MemberHangup(m) \/ DialAnswered(m) \/ DialFails(m) \/ Offer(m)
      PROVE  TypeOK'
  BY <1>6 DEF MemberHangup, DialAnswered, DialFails, Offer, Drop, Abandon
<1>7. CASE UNCHANGED vars
  BY <1>7 DEF vars
<1> QED
  BY <1>1, <1>2, <1>3, <1>4, <1>5, <1>6, <1>7 DEF Next, Handler, Dialer

\* No step of the simultaneous search is taken by a sequential hunt (Run).
LEMMA ShapeStep == IInv /\ [Next]_vars => SequentialShape'
<1> SUFFICES ASSUME IInv, [Next]_vars PROVE SequentialShape'
  OBVIOUS
<1> USE NAssumption DEF IInv, TypeOK, SequentialShape
<1>1. CASE Run
  BY <1>1 DEF Run
<1>2. CASE CallerHangup \/ RingTimeout
  BY <1>2 DEF CallerHangup, RingTimeout
<1>3. CASE TryNext \/ MemberFails \/ MemberAnswers \/ Busy
  BY <1>3 DEF TryNext, MemberFails, MemberAnswers, Busy
<1>4. CASE Receive \/ GiveUp
  BY <1>4 DEF Receive, GiveUp
<1>5. CASE Answer \/ StartBridge \/ TalkEnds
  BY <1>5 DEF Answer, StartBridge, TalkEnds, JoinFails, Drop, Abandon
<1>6. ASSUME NEW m \in Members,
             MemberHangup(m) \/ DialAnswered(m) \/ DialFails(m) \/ Offer(m)
      PROVE  SequentialShape'
  BY <1>6 DEF MemberHangup, DialAnswered, DialFails, Offer, Drop, Abandon
<1>7. CASE UNCHANGED vars
  BY <1>7 DEF vars
<1> QED
  BY <1>1, <1>2, <1>3, <1>4, <1>5, <1>6, <1>7 DEF Next, Handler, Dialer

\* A leg moves on from the dialer to the channel to the call, and is never taken
\* up again (Offer, Receive).
LEMMA PlaceStep == IInv /\ [Next]_vars => OnePlace'
<1> SUFFICES ASSUME IInv, [Next]_vars PROVE OnePlace'
  OBVIOUS
<1> USE NAssumption DEF IInv, TypeOK, SequentialShape, OnePlace, Watched
<1>1. CASE Run
  BY <1>1 DEF Run
<1>2. CASE CallerHangup \/ RingTimeout
  BY <1>2 DEF CallerHangup, RingTimeout
<1>3. CASE TryNext \/ MemberFails \/ MemberAnswers \/ Busy
  <2>1. CASE TryNext
    BY <2>1 DEF TryNext
  <2>2. CASE MemberFails
    BY <2>2 DEF MemberFails
  <2>3. CASE MemberAnswers
    BY <2>3 DEF MemberAnswers
  <2>4. CASE Busy
    BY <2>4 DEF Busy
  <2> QED
    BY <1>3, <2>1, <2>2, <2>3, <2>4
<1>4. CASE Receive \/ GiveUp
  BY <1>4 DEF Receive, GiveUp
<1>5. CASE Answer \/ StartBridge \/ TalkEnds
  <2>1. winner' = winner /\ answered' = answered /\ dialer' = dialer
    BY <1>5 DEF Answer, StartBridge, TalkEnds
  <2>2. CASE Answer
    BY <2>1, <2>2 DEF Answer, JoinFails, Abandon
  <2>3. CASE StartBridge
    BY <2>1, <2>3 DEF StartBridge, JoinFails, Abandon
  <2>4. CASE TalkEnds
    BY <2>1, <2>4 DEF TalkEnds, Drop
  <2> QED
    BY <1>5, <2>2, <2>3, <2>4
<1>6. ASSUME NEW m \in Members,
             MemberHangup(m) \/ DialAnswered(m) \/ DialFails(m) \/ Offer(m)
      PROVE  OnePlace'
  <2>1. CASE MemberHangup(m)
    BY <2>1 DEF MemberHangup
  <2>2. CASE DialAnswered(m)
    BY <2>2 DEF DialAnswered
  <2>3. CASE DialFails(m)
    BY <2>3 DEF DialFails
  <2>4. CASE Offer(m)
    <3>1. m # winner /\ m # answered /\ Watched(m)
      BY <2>4 DEF Offer
    <3>2. CASE answered = NoMember
      <4>1. /\ answered' = m /\ winner' = winner /\ pc' = pc /\ out' = out
            /\ strategy' = strategy
            /\ dialer' = [dialer EXCEPT ![m] = "done"]
        BY <2>4, <3>2 DEF Offer
      <4>2. out[m] # "abandoned" /\ pc # "idle"
        BY <2>4, <3>1 DEF Offer
      <4> QED
        BY <3>1, <4>1, <4>2
    <3>3. CASE answered # NoMember
      <4>1. /\ answered' = answered /\ winner' = winner /\ pc' = pc
            /\ dialer' = [dialer EXCEPT ![m] = "done"]
            /\ \A k \in Members \ {m} : out'[k] = out[k]
        BY <2>4, <3>3 DEF Offer
      <4> QED
        BY <3>1, <3>3, <4>1
    <3> QED
      BY <3>2, <3>3
  <2> QED
    BY <1>6, <2>1, <2>2, <2>3, <2>4
<1>7. CASE UNCHANGED vars
  BY <1>7 DEF vars
<1> QED
  BY <1>1, <1>2, <1>3, <1>4, <1>5, <1>6, <1>7 DEF Next, Handler, Dialer

\* An answered leg is handed on, joined or hung up; it is dropped only where
\* EveryLegOwned says so (Offer, Receive, GiveUp, JoinFails).
LEMMA OwnerStep == IInv /\ [Next]_vars => EveryLegOwned'
<1> SUFFICES ASSUME IInv, [Next]_vars PROVE EveryLegOwned'
  OBVIOUS
<1> USE NAssumption DEF IInv, TypeOK, SequentialShape, OnePlace, EveryLegOwned, Watched
<1>1. CASE Run
  BY <1>1 DEF Run
<1>2. CASE CallerHangup \/ RingTimeout
  BY <1>2 DEF CallerHangup, RingTimeout
<1>3. CASE TryNext \/ MemberFails \/ MemberAnswers \/ Busy
  BY <1>3 DEF TryNext, MemberFails, MemberAnswers, Busy
<1>4. CASE Receive \/ GiveUp
  BY <1>4 DEF Receive, GiveUp
<1>5. CASE Answer \/ StartBridge \/ TalkEnds
  <2> SUFFICES ASSUME NEW m \in Members, out'[m] \in Open
               PROVE  \/ Watched(m)'
                      \/ m = winner' /\ pc' = "failed"
                      \/ m = answered'
                      \/ m # winner' /\ out'[m] = "abandoned" /\ cancelled'
    BY DEF EveryLegOwned
  <2>1. winner' = winner /\ answered' = answered /\ dialer' = dialer /\ cancelled' = cancelled
    BY <1>5 DEF Answer, StartBridge, TalkEnds
  <2>2. CASE Answer
    BY <2>1, <2>2 DEF Answer, JoinFails, Abandon
  <2>3. CASE StartBridge
    BY <2>1, <2>3 DEF StartBridge, JoinFails, Abandon
  <2>4. CASE TalkEnds
    BY <2>1, <2>4 DEF TalkEnds, Drop
  <2> QED
    BY <1>5, <2>2, <2>3, <2>4
<1>6. ASSUME NEW m \in Members,
             MemberHangup(m) \/ DialAnswered(m) \/ DialFails(m) \/ Offer(m)
      PROVE  EveryLegOwned'
  <2>1. CASE MemberHangup(m)
    BY <2>1 DEF MemberHangup
  <2>2. CASE DialAnswered(m)
    BY <2>2 DEF DialAnswered
  <2>3. CASE DialFails(m)
    BY <2>3 DEF DialFails
  <2>4. CASE Offer(m)
    BY <2>4 DEF Offer, Drop, Abandon
  <2> QED
    BY <1>6, <2>1, <2>2, <2>3, <2>4
<1>7. CASE UNCHANGED vars
  BY <1>7 DEF vars
<1> QED
  BY <1>1, <1>2, <1>3, <1>4, <1>5, <1>6, <1>7 DEF Next, Handler, Dialer

\* The loop leaves a member only when its dial has failed (MemberFails).
LEMMA OrderStep == IInv /\ [Next]_vars => OneAtATime'
<1> SUFFICES ASSUME IInv, [Next]_vars PROVE OneAtATime'
  OBVIOUS
<1> USE NAssumption DEF IInv, TypeOK, SequentialShape, OneAtATime
<1>1. CASE Run
  BY <1>1 DEF Run
<1>2. CASE CallerHangup \/ RingTimeout
  BY <1>2 DEF CallerHangup, RingTimeout
<1>3. CASE TryNext \/ MemberFails \/ MemberAnswers \/ Busy
  BY <1>3 DEF TryNext, MemberFails, MemberAnswers, Busy
<1>4. CASE Receive \/ GiveUp
  BY <1>4 DEF Receive, GiveUp
<1>5. CASE Answer \/ StartBridge \/ TalkEnds
  <2> SUFFICES ASSUME strategy = "sequential", NEW m \in Members, out'[m] \in Live
               PROVE  m = next' /\ pc' \in {"ringing", "join", "bridge", "talk"}
    BY <1>5 DEF Answer, StartBridge, TalkEnds, JoinFails
  <2>1. winner = next /\ next' = next
    BY <1>5 DEF Answer, StartBridge, TalkEnds, JoinFails
  <2>2. CASE Answer
    BY <2>1, <2>2 DEF Answer, JoinFails, Abandon
  <2>3. CASE StartBridge
    BY <2>1, <2>3 DEF StartBridge, JoinFails, Abandon
  <2>4. CASE TalkEnds
    BY <2>1, <2>4 DEF TalkEnds, Drop
  <2> QED
    BY <1>5, <2>2, <2>3, <2>4
<1>6. ASSUME NEW m \in Members,
             MemberHangup(m) \/ DialAnswered(m) \/ DialFails(m) \/ Offer(m)
      PROVE  OneAtATime'
  BY <1>6 DEF MemberHangup, DialAnswered, DialFails, Offer, Drop, Abandon
<1>7. CASE UNCHANGED vars
  BY <1>7 DEF vars
<1> QED
  BY <1>1, <1>2, <1>3, <1>4, <1>5, <1>6, <1>7 DEF Next, Handler, Dialer

-----------------------------------------------------------------------------

\* The invariant holds throughout, for a group of any size.
THEOREM Invariance == Spec => []IInv
<1>1. IInv /\ [Next]_vars => IInv'
  BY TypeStep, ShapeStep, PlaceStep, OwnerStep, OrderStep DEF IInv
<1> QED
  BY <1>1, InitIInv, PTL DEF Spec

\* Types of the hunt's state: the loop index never runs past the end.
THEOREM Typing == Spec => []TypeOK
<1>1. IInv => TypeOK
  BY DEF IInv
<1> QED
  BY <1>1, Invariance, PTL

\* A phone that still has the call is watched by someone (the joined call, a
\* dialer, or a handler that reads the channel), or it is one of the leftovers
\* of the code: the winner of a Join that failed, the one leg in a channel that
\* is not read any more, a loser hung up under the cancelled context.
THEOREM Ownership == Spec => []EveryLegOwned
<1>1. IInv => EveryLegOwned
  BY DEF IInv
<1> QED
  BY <1>1, Invariance, PTL

\* A sequential hunt has one live member leg at most, the loop's current one.
THEOREM InOrder == Spec => []OneAtATime
<1>1. IInv => OneAtATime
  BY DEF IInv
<1> QED
  BY <1>1, Invariance, PTL
=============================================================================
