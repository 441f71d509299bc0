------------------------- MODULE CallControlProofs -------------------------
(***************************************************************************)
(* What CallControl guarantees for any number of INVITEs, extensions and   *)
(* call slots: registry, index and slots of a call that is over are gone,  *)
(* a park slot holds the right party, a retrieved party is released, and   *)
(* no leg that was ever bridged stays on a line that nobody watches.       *)
(***************************************************************************)
EXTENDS CallControl, TLAPS

\* Control points, by what the goroutine has at them.
Recorded == {"bridge", "wait", "teardown"}
Settled  == Recorded \cup {"done"}
WithSlot == Recorded \cup {"ringOnly", "dialing", "release", "rBridge", "rWait",
                           "xStart", "xDial", "xHangup", "xWait"}
Parking  == {"steal", "store", "dropParker"}
Transferring == {"xAcquire", "xStart", "xDial", "xHangup", "xWait"}
Retrieving == {"retrieve", "rAcquire", "rBridge", "rWait"}

\* Where the goroutine of a call from outside can be.
Outside == Settled \cup {"idle", "inbound", "ringOnly", "dialing", "release"}

-----------------------------------------------------------------------------
(* The inductive invariant *)

\* An INVITE that has been dialled has a number, and one that is not from outside
\* a caller; a retrieve has a slot, and a goroutine that works on a call or on a leg has one.
Locals == \A i \in Invites :
    /\ pc[i] # "idle" => dial[i] \in Dials
    /\ pc[i] \notin Outside => from[i] \in Exts
    /\ pc[i] \in {"idle", "inbound"} => from[i] = NoExt
    /\ pc[i] \in Retrieving => dial[i].kind = "retrieve"
    /\ pc[i] \in Parking \cup Transferring \cup {"armHold"} => acOf[i] \in Invites
    /\ pc[i] \in {"rWait", "xDial", "xHangup", "xWait"} => held[i] \in Legs

\* The calls on record and the slots taken are those of the goroutines that
\* still have to give them back.
Books == /\ byDialog = {i \in Invites : pc[i] \in Recorded}
         /\ acquired = {i \in Invites : pc[i] \in WithSlot /\ from[i] # NoExt}

\* A call that a feature has found was on record; its two fields hold its own
\* legs, and a callee's leg that is gone from it was taken by a park.
Fields == \A i \in Invites :
    /\ acIn[i] \in {NoLeg, In(i)} /\ acOut[i] \in {NoLeg, Out(i)}
    /\ i \in parkedFlag => pc[i] \in Settled
    /\ pc[i] \in Recorded => acOut[i] = Out(i) \/ i \in parkedFlag
    /\ acOf[i] \in Invites =>
          /\ pc[acOf[i]] \in Settled
          /\ acOut[acOf[i]] = Out(acOf[i]) \/ acOf[i] \in parkedFlag

\* Whoever parks has a part in the call and takes the leg of the other party.
Parkers == \A i \in Invites :
    /\ pc[i] \in Parking => from[i] \in {CallerExt(acOf[i]), CalleeExt(acOf[i])}
    /\ pc[i] \in {"store", "dropParker"} => acOf[i] \in parkedFlag
    /\ pc[i] = "store" =>
          IF ParksCallee(i)
          THEN /\ held[i] \in {NoLeg, Out(acOf[i])}
               /\ acOut[acOf[i]] # NoLeg => held[i] = Out(acOf[i])
          ELSE held[i] \in {NoLeg, In(acOf[i])}

\* Legs that are kept anywhere belong to calls that have been set up.
KeptLeg(l) == l \in Legs => l[2] \in {"in", "out"} /\ pc[l[1]] \in Settled
Kept == /\ \A i \in Invites : KeptLeg(held[i])
        /\ \A e \in Exts : KeptLeg(lot[e])

\* A leg of a goroutine that is through, or that is not to be answered any more.
LegsOver == \A i \in Invites :
    /\ pc[i] = "done" => leg[In(i)] \notin Live
    /\ pc[i] \in Recorded => leg[Out(i)] # "early"
    /\ pc[i] \notin Settled \cup {"dialing", "xDial", "xHangup", "xWait"} =>
          leg[Out(i)] \notin Live

\* A retriever has nothing before it looks into the lot, and gives up only
\* after it has released what it took.
Retrieved == \A i \in Invites :
    /\ pc[i] \in {"idle", "route", "link", "setConsult", "retrieve"} => held[i] = NoLeg
    /\ dial[i].kind = "retrieve" =>
          pc[i] \in Retrieving \cup {"route", "link", "setConsult", "release", "done"}
    /\ pc[i] \in {"release", "done"} /\ dial[i].kind = "retrieve" /\ held[i] # NoLeg =>
          leg[held[i]] \notin Live

\* Somebody is to release the callee's leg of call i.
Claimed(i) ==
    \/ \E e \in Exts : lot[e] = Out(i)
    \/ \E j \in Invites :
          /\ held[j] = Out(i)
          /\ pc[j] \in {"store", "rAcquire", "rBridge", "rWait"}
    \/ \E j \in Invites :
          /\ pc[j] \in {"store", "dropParker"} /\ acOf[j] = i
          /\ ~ParksCallee(j) /\ acOut[i] = Out(i)

\* That is so for every callee that a park has taken or that has outlived its
\* call.
Claims == \A i \in Invites :
    /\ pc[i] \in Settled /\ leg[Out(i)] \in Live
    /\ i \in parkedFlag \/ pc[i] = "done"
    => Claimed(i)

\* A leg that has been bridged is never abandoned, because its call reaches its
\* end only after the wait that hangs it up.
Bridged == {"wait", "teardown", "done", "xHangup", "xWait", "release"}

Joined == \A i \in Invites :
    /\ leg[In(i)] # "abandoned"
    /\ pc[i] = "bridge" => leg[Out(i)] # "abandoned"
    /\ Out(i) \in joined =>
          /\ pc[i] \in Bridged
          /\ leg[Out(i)] # "abandoned"
          /\ pc[i] = "teardown" => leg[Out(i)] \notin Live
    /\ ReferLeg(i) \in joined =>
          /\ rpc[i] \in {"wait", "done"}
          /\ leg[ReferLeg(i)] # "abandoned"
          /\ rpc[i] = "done" => leg[ReferLeg(i)] \notin Live

CInv == /\ Locals /\ Books /\ IndexAgrees /\ Fields /\ Parkers /\ Kept
        /\ LegsOver /\ SlotHoldsPeer /\ Retrieved /\ Claims /\ Joined

-----------------------------------------------------------------------------
(* Operators *)

\* The two kinds of number a phone can dial.
LEMMA DialFields ==
    ASSUME NEW d \in Dials \cup {NoDial}
    PROVE  /\ d.num \in Exts \cup {NoExt}
           /\ d.kind = "retrieve" => d.num \in Exts
           /\ d \notin Dials => d.kind = "none"
BY NilAssumption DEF Dials, NoDial

\* The legs of an INVITE are three, and all legs are those of some INVITE.
LEMMA LegNames ==
    /\ \A i \in Invites : {In(i), Out(i), ReferLeg(i)} \subseteq Legs
    /\ \A i, j \in Invites :
          /\ (In(i) = In(j)) <=> i = j
          /\ (Out(i) = Out(j)) <=> i = j
          /\ (ReferLeg(i) = ReferLeg(j)) <=> i = j
          /\ In(i) # Out(j) /\ In(i) # ReferLeg(j) /\ Out(i) # ReferLeg(j)
    /\ \A i \in Invites : /\ In(i)[1] = i /\ In(i)[2] = "in"
                          /\ Out(i)[1] = i /\ Out(i)[2] = "out"
                          /\ ReferLeg(i)[1] = i /\ ReferLeg(i)[2] = "refer"
    /\ \A l \in Legs : /\ l[1] \in Invites
                       /\ l[2] = "in" => l = In(l[1])
                       /\ l[2] = "out" => l = Out(l[1])
                       /\ l[2] = "refer" => l = ReferLeg(l[1])
BY DEF Legs, In, Out, ReferLeg

\* FindByExtension finds a call on record in which e has a part.
LEMMA FindRecorded ==
    ASSUME TypeOK, IndexAgrees, NEW e \in Exts, NEW ac \in Find(e)
    PROVE  /\ ac \in Invites \cup {NoInvite}
           /\ ac # NoInvite => ac \in byDialog /\ e \in {CallerExt(ac), CalleeExt(ac)}
BY DEF Find, TypeOK, IndexAgrees

-----------------------------------------------------------------------------
(* Types *)

\* A step of an INVITE's goroutine keeps the types.
LEMMA ServerTypes ==
    ASSUME TypeOK, Locals, IndexAgrees, NEW i \in Invites, ServerStep(i)
    PROVE  TypeOK'
<1> USE NilAssumption DEF TypeOK, Goto, GiveUp, TryAcquire, Hungup, Live, Ended, reg, flags, media, local
<1>0. /\ pc[i] \notin Outside => from[i] \in Exts
      /\ pc[i] \in Parking \cup Transferring \cup {"armHold"} => acOf[i] \in Invites
  BY DEF Locals
<1>1. CASE Route(i)
  <2>1. from[i] \in Exts
    BY <1>0, <1>1 DEF Route, Outside, Settled, Recorded
  <2>2. PICK ac \in Find(from[i]) :
          acOf' = acOf \/ (ac \in ready /\ acOf' = [acOf EXCEPT ![i] = ac])
    BY <1>1 DEF Route
  <2>3. ac \in Invites \cup {NoInvite}
    BY <2>1, FindRecorded
  <2>4. \E p \in {"xAcquire", "link"} : pc' = [pc EXCEPT ![i] = p]
    BY <1>1 DEF Route
  <2> QED
    BY <1>1, <2>1, <2>2, <2>3, <2>4 DEF Route
<1>2. CASE Refuse(i)
  BY <1>0, <1>2 DEF Refuse
<1>3. CASE Acquire(i)
  BY <1>0, <1>3 DEF Acquire, RingCallee
<1>4. CASE RingOnlyEnds(i)
  BY <1>0, <1>4 DEF RingOnlyEnds
<1>5. CASE OutFailed(i)
  BY <1>0, <1>5 DEF OutFailed
<1>6. CASE StartBridge(i)
  BY <1>0, <1>6, LegNames DEF StartBridge
<1>7. CASE WaitEnds(i)
  BY <1>0, <1>7 DEF WaitEnds, PairEnds
<1>8. CASE Teardown(i)
  BY <1>0, <1>8 DEF Teardown, UnregisterCall
<1>9. CASE Release(i)
  BY <1>0, <1>9 DEF Release
<1>10. CASE StealHeldLeg(i)
  BY <1>0, <1>10 DEF StealHeldLeg, Parking
<1>11. CASE Park(i)
  BY <1>0, <1>11 DEF Park, Parking, Outside, Settled, Recorded
<1>12. CASE DropParker(i)
  BY <1>0, <1>12 DEF DropParker
<1>13. CASE Retrieve(i)
  <2>1. dial[i].num \in Exts
    BY <1>13, DialFields DEF Retrieve, Locals, Retrieving
  <2> QED
    BY <1>13, <2>1 DEF Retrieve
<1>14. CASE RetrieveRefused(i)
  BY <1>0, <1>14 DEF RetrieveRefused
<1>15. CASE RetrieveAcquire(i)
  BY <1>0, <1>15 DEF RetrieveAcquire
<1>16. CASE BridgeParked(i)
  BY <1>0, <1>16 DEF BridgeParked
<1>17. CASE RetrieveEnds(i)
  BY <1>0, <1>17 DEF RetrieveEnds, PairEnds
<1>18. CASE TransferRefused(i)
  BY <1>0, <1>18 DEF TransferRefused
<1>19. CASE TransferAcquire(i)
  BY <1>0, <1>19 DEF TransferAcquire
<1>20. CASE CompleteTransfer(i)
  BY <1>0, <1>20 DEF CompleteTransfer, Transferring
<1>21. CASE TargetFailed(i)
  BY <1>0, <1>21 DEF TargetFailed
<1>22. CASE HangupTransferor(i)
  BY <1>0, <1>22 DEF HangupTransferor
<1>23. CASE TransferEnds(i)
  BY <1>0, <1>23 DEF TransferEnds, PairEnds
<1>24. CASE FindForPark(i)
  <2>1. \A ac \in Find(from[i]) : ac \in Invites \cup {NoInvite}
    BY <1>0, <1>24, FindRecorded DEF FindForPark, Outside, Settled, Recorded
  <2> QED
    BY <1>0, <1>24, <2>1 DEF FindForPark
<1>25. CASE Arm(i)
  <2>1. \A ac \in Find(from[i]) : ac \in Invites \cup {NoInvite}
    BY <1>0, <1>25, FindRecorded DEF Arm, Outside, Settled, Recorded
  <2> QED
    BY <1>0, <1>25, <2>1 DEF Arm
<1>26. CASE SetTransferReady(i)
  <2>1. \A ac \in Find(from[i]) : ac \in Invites \cup {NoInvite}
    BY <1>0, <1>26, FindRecorded DEF SetTransferReady, Outside, Settled, Recorded
  <2> QED
    BY <1>0, <1>26, <2>1 DEF SetTransferReady
<1>27. CASE Link(i)
  BY <1>27 DEF Link, Plan
<1>28. CASE SetConsult(i)
  <2>1. from[i] \in Exts
    BY <1>0, <1>28 DEF SetConsult, Outside, Settled, Recorded
  <2> QED
    BY <1>28, <2>1 DEF SetConsult, Plan
<1>29. CASE Inbound(i)
  BY <1>29 DEF Inbound, RingCallee
<1> QED
  BY <1>1, <1>2, <1>3, <1>4, <1>5, <1>6, <1>7, <1>8, <1>9, <1>10, <1>11, <1>12, <1>13,
     <1>14, <1>15, <1>16, <1>17, <1>18, <1>19, <1>20, <1>21, <1>22, <1>23, <1>24, <1>25, <1>26,
     <1>27, <1>28, <1>29
     DEF ServerStep

\* So does a step of a phone or of a REFER handler.
LEMMA PhoneTypes ==
    ASSUME TypeOK, NEW i \in Invites, ReferStep(i) \/ PhoneStep(i)
    PROVE  TypeOK'
<1> USE NilAssumption DEF TypeOK, Goto, Hungup, Live, Ended, reg, flags, media, local
<1>1. ASSUME NEW e \in Exts, NEW d \in Dials, Dial(i, e, d) PROVE TypeOK'
  BY <1>1 DEF Dial
<1>2. ASSUME NEW l \in Legs, PhoneHangup(l) PROVE TypeOK'
  BY <1>2 DEF PhoneHangup
<1>3. CASE OutAnswered(i)
  <2>1. leg' \in [Legs -> {"none", "abandoned"} \cup Live \cup Ended]
    BY <1>3 DEF OutAnswered
  <2>2. acIn' \in [Invites -> Legs \cup {NoLeg}] /\ acOut' \in [Invites -> Legs \cup {NoLeg}]
    BY <1>3, LegNames DEF OutAnswered
  <2>3. byDialog' \subseteq Invites /\ byExt' \in [Exts -> Invites \cup {NoInvite}]
    BY <1>3 DEF OutAnswered
  <2> QED
    BY <1>3, <2>1, <2>2, <2>3 DEF OutAnswered
<1>4. CASE TargetAnswered(i)
  <2>1. joined' \subseteq Legs
    BY <1>4, LegNames DEF TargetAnswered
  <2>2. leg' \in [Legs -> {"none", "abandoned"} \cup Live \cup Ended]
    BY <1>4 DEF TargetAnswered
  <2> QED
    BY <1>4, <2>1, <2>2 DEF TargetAnswered
<1>5. CASE ReferStart(i)
  BY <1>5 DEF ReferStart
<1>6. CASE ReferFailed(i)
  BY <1>6 DEF ReferFailed
<1>7. CASE ReferAnswered(i)
  <2>1. leg' \in [Legs -> {"none", "abandoned"} \cup Live \cup Ended]
    BY <1>7 DEF ReferAnswered
  <2>2. joined' \subseteq Legs
    BY <1>7, LegNames DEF ReferAnswered
  <2> QED
    BY <1>7, <2>1, <2>2 DEF ReferAnswered
<1>8. CASE ReferEnds(i)
  BY <1>8 DEF ReferEnds
<1>9. ASSUME NEW t \in Exts, TrunkInvite(i, t) PROVE TypeOK'
  <2>1. dial' \in [Invites -> Dials \cup {NoDial}]
    BY <1>9 DEF TrunkInvite, Dials
  <2> QED
    BY <1>9, <2>1 DEF TrunkInvite
<1> QED
  BY <1>1, <1>2, <1>3, <1>4, <1>5, <1>6, <1>7, <1>8, <1>9 DEF PhoneStep, ReferStep

-----------------------------------------------------------------------------
(* How goroutines move and legs end *)

AnyStep(i) == ServerStep(i) \/ ReferStep(i) \/ PhoneStep(i)

\* A step moves one goroutine; a call that has been set up stays so until it
\* is done, and only Connect sets one up.
LEMMA Moves ==
    ASSUME TypeOK, NEW i \in Invites, AnyStep(i)
    PROVE  /\ \A j \in Invites \ {i} : pc'[j] = pc[j]
           /\ pc[i] \in Settled => pc'[i] \in Settled
           /\ pc'[i] \in Recorded => pc[i] \in Recorded \/ acOut'[i] = Out(i)
           /\ pc[i] = "done" => pc'[i] = "done"
           /\ \A j \in Invites : pc[j] # "idle" => from'[j] = from[j] /\ dial'[j] = dial[j]
<1> DEFINE Goal == /\ \A j \in Invites \ {i} : pc'[j] = pc[j]
                   /\ pc[i] \in Settled => pc'[i] \in Settled
                   /\ pc'[i] \in Recorded => pc[i] \in Recorded \/ acOut'[i] = Out(i)
                   /\ pc[i] = "done" => pc'[i] = "done"
                   /\ \A j \in Invites : pc[j] # "idle" => from'[j] = from[j] /\ dial'[j] = dial[j]
<1> SUFFICES Goal
  OBVIOUS
<1> USE DEF TypeOK, Goto, GiveUp, Settled, Recorded
<1>1. CASE Route(i)
  BY <1>1 DEF Route
<1>2. CASE Refuse(i)
  BY <1>2 DEF Refuse
<1>3. CASE Acquire(i)
  BY <1>3 DEF Acquire, RingCallee
<1>4. CASE RingOnlyEnds(i)
  BY <1>4 DEF RingOnlyEnds
<1>5. CASE OutFailed(i)
  BY <1>5 DEF OutFailed
<1>6. CASE StartBridge(i)
  BY <1>6 DEF StartBridge
<1>7. CASE WaitEnds(i)
  BY <1>7 DEF WaitEnds
<1>8. CASE Teardown(i)
  BY <1>8 DEF Teardown
<1>9. CASE Release(i)
  BY <1>9 DEF Release
<1>10. CASE FindForPark(i)
  BY <1>10 DEF FindForPark
<1>11. CASE StealHeldLeg(i)
  BY <1>11 DEF StealHeldLeg
<1>12. CASE Park(i)
  BY <1>12 DEF Park
<1>13. CASE DropParker(i)
  BY <1>13 DEF DropParker
<1>14. CASE Retrieve(i)
  BY <1>14 DEF Retrieve
<1>15. CASE RetrieveRefused(i)
  BY <1>15 DEF RetrieveRefused
<1>16. CASE RetrieveAcquire(i)
  BY <1>16 DEF RetrieveAcquire
<1>17. CASE BridgeParked(i)
  BY <1>17 DEF BridgeParked
<1>18. CASE RetrieveEnds(i)
  BY <1>18 DEF RetrieveEnds
<1>19. CASE Arm(i)
  BY <1>19 DEF Arm
<1>20. CASE SetTransferReady(i)
  BY <1>20 DEF SetTransferReady
<1>21. CASE TransferRefused(i)
  BY <1>21 DEF TransferRefused
<1>22. CASE TransferAcquire(i)
  BY <1>22 DEF TransferAcquire
<1>23. CASE CompleteTransfer(i)
  BY <1>23 DEF CompleteTransfer
<1>24. CASE TargetFailed(i)
  BY <1>24 DEF TargetFailed
<1>25. CASE HangupTransferor(i)
  BY <1>25 DEF HangupTransferor
<1>26. CASE TransferEnds(i)
  BY <1>26 DEF TransferEnds
<1>27. CASE OutAnswered(i)
  BY <1>27 DEF OutAnswered
<1>28. CASE TargetAnswered(i)
  BY <1>28 DEF TargetAnswered
<1>29. CASE ReferStart(i)
  BY <1>29 DEF ReferStart
<1>30. CASE ReferAnswered(i)
  BY <1>30 DEF ReferAnswered
<1>31. CASE ReferFailed(i)
  BY <1>31 DEF ReferFailed
<1>32. CASE ReferEnds(i)
  BY <1>32 DEF ReferEnds
<1>33. ASSUME NEW e \in Exts, NEW d \in Dials, Dial(i, e, d) PROVE Goal
  BY <1>33 DEF Dial
<1>34. ASSUME NEW l \in Legs, PhoneHangup(l) PROVE Goal
  BY <1>34 DEF PhoneHangup
<1>35. CASE Link(i)
  BY <1>35 DEF Link, Plan
<1>36. CASE SetConsult(i)
  BY <1>36 DEF SetConsult, Plan
<1>37. CASE Inbound(i)
  BY <1>37 DEF Inbound, RingCallee
<1>38. ASSUME NEW t \in Exts, TrunkInvite(i, t) PROVE Goal
  BY <1>38 DEF TrunkInvite
<1> QED
  BY <1>1, <1>2, <1>3, <1>4, <1>5, <1>6, <1>7, <1>8, <1>9, <1>10, <1>11, <1>12, <1>13,
     <1>14, <1>15, <1>16, <1>17, <1>18, <1>19, <1>20, <1>21, <1>22, <1>23, <1>24,
     <1>25, <1>26, <1>27, <1>28, <1>29, <1>30, <1>31, <1>32, <1>33, <1>34, <1>35, <1>36,
     <1>37, <1>38
     DEF AnyStep, ServerStep, ReferStep, PhoneStep

\* Nobody but the goroutine of a call brings the legs of the call to life, and
\* once the call has been set up that does not happen again.
LEMMA NoRevival ==
    ASSUME TypeOK, NEW i \in Invites, AnyStep(i),
           NEW k \in Invites, k # i \/ pc[k] \in Settled
    PROVE  /\ leg'[In(k)] \in Live => leg'[In(k)] = leg[In(k)]
           /\ leg'[Out(k)] \in Live => leg'[Out(k)] = leg[Out(k)]
<1> DEFINE Goal == /\ leg'[In(k)] \in Live => leg'[In(k)] = leg[In(k)]
                   /\ leg'[Out(k)] \in Live => leg'[Out(k)] = leg[Out(k)]
<1> SUFFICES Goal
  OBVIOUS
<1>a. /\ In(k) \in Legs /\ Out(k) \in Legs
      /\ In(k) = In(i) => i = k
      /\ Out(k) = Out(i) => i = k
      /\ In(k) # Out(i) /\ Out(k) # In(i) /\ In(k) # ReferLeg(i) /\ Out(k) # ReferLeg(i)
  BY LegNames
<1> USE <1>a DEF TypeOK, Goto, GiveUp, Settled, Recorded, Live
<1>1. CASE Route(i)
  BY <1>1 DEF Route, Hungup
<1>2. CASE Refuse(i)
  BY <1>2 DEF Refuse, Hungup
<1>3. CASE Acquire(i)
  BY <1>3 DEF Acquire, RingCallee, Hungup
<1>4. CASE RingOnlyEnds(i)
  BY <1>4 DEF RingOnlyEnds, Hungup
<1>5. CASE OutFailed(i)
  BY <1>5 DEF OutFailed, Hungup
<1>6. CASE StartBridge(i)
  BY <1>6 DEF StartBridge, Hungup
<1>7. CASE WaitEnds(i)
  BY <1>7 DEF WaitEnds, PairEnds, Hungup
<1>8. CASE Teardown(i)
  BY <1>8 DEF Teardown, Hungup
<1>9. CASE Release(i)
  BY <1>9 DEF Release, Hungup
<1>10. CASE FindForPark(i)
  BY <1>10 DEF FindForPark, Hungup
<1>11. CASE StealHeldLeg(i)
  BY <1>11 DEF StealHeldLeg, Hungup
<1>12. CASE Park(i)
  BY <1>12 DEF Park, Hungup
<1>13. CASE DropParker(i)
  BY <1>13 DEF DropParker, Hungup
<1>14. CASE Retrieve(i)
  BY <1>14 DEF Retrieve, Hungup
<1>15. CASE RetrieveRefused(i)
  BY <1>15 DEF RetrieveRefused, Hungup
<1>16. CASE RetrieveAcquire(i)
  BY <1>16 DEF RetrieveAcquire, Hungup
<1>17. CASE BridgeParked(i)
  BY <1>17 DEF BridgeParked, Hungup
<1>18. CASE RetrieveEnds(i)
  BY <1>18 DEF RetrieveEnds, PairEnds, Hungup
<1>19. CASE Arm(i)
  BY <1>19 DEF Arm, Hungup
<1>20. CASE SetTransferReady(i)
  BY <1>20 DEF SetTransferReady, Hungup
<1>21. CASE TransferRefused(i)
  BY <1>21 DEF TransferRefused, Hungup
<1>22. CASE TransferAcquire(i)
  BY <1>22 DEF TransferAcquire, Hungup
<1>23. CASE CompleteTransfer(i)
  BY <1>23 DEF CompleteTransfer, Hungup
<1>24. CASE TargetFailed(i)
  BY <1>24 DEF TargetFailed, Hungup
<1>25. CASE HangupTransferor(i)
  BY <1>25 DEF HangupTransferor, Hungup
<1>26. CASE TransferEnds(i)
  BY <1>26 DEF TransferEnds, PairEnds, Hungup
<1>27. CASE OutAnswered(i)
  BY <1>27 DEF OutAnswered, Hungup
<1>28. CASE TargetAnswered(i)
  BY <1>28 DEF TargetAnswered, Hungup
<1>29. CASE ReferStart(i)
  BY <1>29 DEF ReferStart, Hungup
<1>30. CASE ReferAnswered(i)
  BY <1>30 DEF ReferAnswered, Hungup
<1>31. CASE ReferFailed(i)
  BY <1>31 DEF ReferFailed, Hungup
<1>32. CASE ReferEnds(i)
  BY <1>32 DEF ReferEnds, Hungup
<1>33. ASSUME NEW e \in Exts, NEW d \in Dials, Dial(i, e, d) PROVE Goal
  BY <1>33 DEF Dial
<1>34. ASSUME NEW l \in Legs, PhoneHangup(l) PROVE Goal
  BY <1>34 DEF PhoneHangup
<1>35. CASE Link(i)
  BY <1>35 DEF Link, Plan, Hungup
<1>36. CASE SetConsult(i)
  BY <1>36 DEF SetConsult, Plan, Hungup
<1>37. CASE Inbound(i)
  BY <1>37 DEF Inbound, RingCallee, Hungup
<1>38. ASSUME NEW t \in Exts, TrunkInvite(i, t) PROVE Goal
  BY <1>38 DEF TrunkInvite
<1> QED
  BY <1>1, <1>2, <1>3, <1>4, <1>5, <1>6, <1>7, <1>8, <1>9, <1>10, <1>11, <1>12, <1>13,
     <1>14, <1>15, <1>16, <1>17, <1>18, <1>19, <1>20, <1>21, <1>22, <1>23, <1>24,
     <1>25, <1>26, <1>27, <1>28, <1>29, <1>30, <1>31, <1>32, <1>33, <1>34, <1>35, <1>36,
     <1>37, <1>38
     DEF AnyStep, ServerStep, ReferStep, PhoneStep

-----------------------------------------------------------------------------
(* Every step keeps the parts of the invariant *)

\* Whoever works on a call or on a leg goes on having one.
LEMMA LocalsKept ==
    ASSUME TypeOK, CInv, NEW i \in Invites, AnyStep(i)
    PROVE  Locals'
<1> USE NilAssumption DEF TypeOK, Goto, GiveUp, Locals, Parking, Transferring, Retrieving, Outside,
        Settled, Recorded
<1>a. Locals /\ IndexAgrees
  BY DEF CInv
<1> USE <1>a
<1>1. CASE Route(i)
  BY <1>1 DEF Route
<1>2. CASE Refuse(i)
  BY <1>2 DEF Refuse, local
<1>3. CASE Acquire(i)
  BY <1>3 DEF Acquire, RingCallee, local
<1>4. CASE RingOnlyEnds(i)
  BY <1>4 DEF RingOnlyEnds, local
<1>5. CASE OutFailed(i)
  BY <1>5 DEF OutFailed, local
<1>6. CASE StartBridge(i)
  BY <1>6 DEF StartBridge, local
<1>7. CASE WaitEnds(i)
  BY <1>7 DEF WaitEnds, local
<1>8. CASE Teardown(i)
  BY <1>8 DEF Teardown, local
<1>9. CASE Release(i)
  BY <1>9 DEF Release, local
<1>10. CASE FindForPark(i)
  <2>1. from[i] \in Exts
    BY <1>10 DEF FindForPark
  <2>2. \A ac \in Find(from[i]) : ac # NoInvite => ac \in Invites
    BY <2>1, FindRecorded
  <2> QED
    BY <1>10, <2>2 DEF FindForPark
<1>11. CASE StealHeldLeg(i)
  BY <1>11 DEF StealHeldLeg, local
<1>12. CASE Park(i)
  BY <1>12 DEF Park, local
<1>13. CASE DropParker(i)
  BY <1>13 DEF DropParker, local
<1>14. CASE Retrieve(i)
  BY <1>14 DEF Retrieve, local
<1>15. CASE RetrieveRefused(i)
  BY <1>15 DEF RetrieveRefused, local
<1>16. CASE RetrieveAcquire(i)
  BY <1>16 DEF RetrieveAcquire, local
<1>17. CASE BridgeParked(i)
  BY <1>17 DEF BridgeParked, local
<1>18. CASE RetrieveEnds(i)
  BY <1>18 DEF RetrieveEnds, local
<1>19. CASE Arm(i)
  <2>1. from[i] \in Exts
    BY <1>19 DEF Arm
  <2>2. \A ac \in Find(from[i]) : ac # NoInvite => ac \in Invites
    BY <2>1, FindRecorded
  <2> QED
    BY <1>19, <2>2 DEF Arm
<1>20. CASE SetTransferReady(i)
  BY <1>20 DEF SetTransferReady, local
<1>21. CASE TransferRefused(i)
  BY <1>21 DEF TransferRefused, local
<1>22. CASE TransferAcquire(i)
  BY <1>22 DEF TransferAcquire, local
<1>23. CASE CompleteTransfer(i)
  BY <1>23 DEF CompleteTransfer, local
<1>24. CASE TargetFailed(i)
  BY <1>24 DEF TargetFailed, local
<1>25. CASE HangupTransferor(i)
  BY <1>25 DEF HangupTransferor, local
<1>26. CASE TransferEnds(i)
  BY <1>26 DEF TransferEnds, local
<1>27. CASE OutAnswered(i)
  BY <1>27 DEF OutAnswered, local
<1>28. CASE TargetAnswered(i)
  BY <1>28 DEF TargetAnswered, local
<1>29. CASE ReferStart(i)
  BY <1>29 DEF ReferStart, local
<1>30. CASE ReferAnswered(i)
  BY <1>30 DEF ReferAnswered, local
<1>31. CASE ReferFailed(i)
  BY <1>31 DEF ReferFailed, local
<1>32. CASE ReferEnds(i)
  BY <1>32 DEF ReferEnds, local
<1>33. ASSUME NEW e \in Exts, NEW d \in Dials, Dial(i, e, d) PROVE Locals'
  BY <1>33 DEF Dial, local
<1>34. ASSUME NEW l \in Legs, PhoneHangup(l) PROVE Locals'
  BY <1>34 DEF PhoneHangup, local
<1>35. CASE Link(i)
  BY <1>35 DEF Link, Plan, local
<1>36. CASE SetConsult(i)
  <2>1. /\ Plan(i) \in {"arm", "park", "acquire", "retrieve"}
        /\ Plan(i) = "retrieve" => dial[i].kind = "retrieve"
    BY DEF Plan
  <2>2. pc[i] = "setConsult" /\ pc' = [pc EXCEPT ![i] = Plan(i)] /\ UNCHANGED <<from, dial, local>>
    BY <1>36 DEF SetConsult
  <2> QED
    BY <2>1, <2>2 DEF local
<1>37. CASE Inbound(i)
  BY <1>37 DEF Inbound, RingCallee, local
<1>38. ASSUME NEW t \in Exts, TrunkInvite(i, t) PROVE Locals'
  <2>1. dial'[i] \in Dials
    BY <1>38 DEF TrunkInvite, Dials
  <2> QED
    BY <1>38, <2>1 DEF TrunkInvite, local
<1> QED
  BY <1>1, <1>2, <1>3, <1>4, <1>5, <1>6, <1>7, <1>8, <1>9, <1>10, <1>11, <1>12, <1>13,
     <1>14, <1>15, <1>16, <1>17, <1>18, <1>19, <1>20, <1>21, <1>22, <1>23, <1>24,
     <1>25, <1>26, <1>27, <1>28, <1>29, <1>30, <1>31, <1>32, <1>33, <1>34, <1>35, <1>36,
     <1>37, <1>38
     DEF AnyStep, ServerStep, ReferStep, PhoneStep

\* Connect and the deferred calls of the handlers keep the books.
LEMMA BooksKept ==
    ASSUME TypeOK, CInv, NEW i \in Invites, AnyStep(i)
    PROVE  Books'
<1> USE DEF TypeOK, Goto, GiveUp, TryAcquire, Books, Recorded, WithSlot, reg
<1>a. /\ Books
      /\ pc[i] \in {"acquire", "rAcquire", "xAcquire"} => from[i] # NoExt
      /\ pc[i] \in {"idle", "inbound"} => from[i] = NoExt
  BY NilAssumption DEF CInv, Locals, Outside, Settled
<1> USE <1>a
<1>1. CASE Route(i)
  BY <1>1 DEF Route
<1>2. CASE Refuse(i)
  BY <1>2 DEF Refuse
<1>3. CASE Acquire(i)
  BY <1>3 DEF Acquire, RingCallee
<1>4. CASE RingOnlyEnds(i)
  BY <1>4 DEF RingOnlyEnds
<1>5. CASE OutFailed(i)
  BY <1>5 DEF OutFailed
<1>6. CASE StartBridge(i)
  BY <1>6 DEF StartBridge
<1>7. CASE WaitEnds(i)
  BY <1>7 DEF WaitEnds
<1>8. CASE Teardown(i)
  BY <1>8 DEF Teardown, UnregisterCall
<1>9. CASE Release(i)
  BY <1>9 DEF Release
<1>10. CASE FindForPark(i)
  BY <1>10 DEF FindForPark
<1>11. CASE StealHeldLeg(i)
  BY <1>11 DEF StealHeldLeg
<1>12. CASE Park(i)
  BY <1>12 DEF Park
<1>13. CASE DropParker(i)
  BY <1>13 DEF DropParker
<1>14. CASE Retrieve(i)
  BY <1>14 DEF Retrieve
<1>15. CASE RetrieveRefused(i)
  BY <1>15 DEF RetrieveRefused
<1>16. CASE RetrieveAcquire(i)
  BY <1>16 DEF RetrieveAcquire
<1>17. CASE BridgeParked(i)
  BY <1>17 DEF BridgeParked
<1>18. CASE RetrieveEnds(i)
  BY <1>18 DEF RetrieveEnds
<1>19. CASE Arm(i)
  BY <1>19 DEF Arm
<1>20. CASE SetTransferReady(i)
  BY <1>20 DEF SetTransferReady
<1>21. CASE TransferRefused(i)
  BY <1>21 DEF TransferRefused
<1>22. CASE TransferAcquire(i)
  BY <1>22 DEF TransferAcquire
<1>23. CASE CompleteTransfer(i)
  BY <1>23 DEF CompleteTransfer
<1>24. CASE TargetFailed(i)
  BY <1>24 DEF TargetFailed
<1>25. CASE HangupTransferor(i)
  BY <1>25 DEF HangupTransferor
<1>26. CASE TransferEnds(i)
  BY <1>26 DEF TransferEnds
<1>27. CASE OutAnswered(i)
  BY <1>27 DEF OutAnswered
<1>28. CASE TargetAnswered(i)
  BY <1>28 DEF TargetAnswered
<1>29. CASE ReferStart(i)
  BY <1>29 DEF ReferStart
<1>30. CASE ReferAnswered(i)
  BY <1>30 DEF ReferAnswered
<1>31. CASE ReferFailed(i)
  BY <1>31 DEF ReferFailed
<1>32. CASE ReferEnds(i)
  BY <1>32 DEF ReferEnds
<1>33. ASSUME NEW e \in Exts, NEW d \in Dials, Dial(i, e, d) PROVE Books'
  BY <1>33 DEF Dial
<1>34. ASSUME NEW l \in Legs, PhoneHangup(l) PROVE Books'
  BY <1>34 DEF PhoneHangup
<1>35. CASE Link(i)
  BY <1>35 DEF Link, Plan
<1>36. CASE SetConsult(i)
  BY <1>36 DEF SetConsult, Plan
<1>37. CASE Inbound(i)
  BY <1>37 DEF Inbound, RingCallee
<1>38. ASSUME NEW t \in Exts, TrunkInvite(i, t) PROVE Books'
  BY <1>38 DEF TrunkInvite
<1> QED
  BY <1>1, <1>2, <1>3, <1>4, <1>5, <1>6, <1>7, <1>8, <1>9, <1>10, <1>11, <1>12, <1>13,
     <1>14, <1>15, <1>16, <1>17, <1>18, <1>19, <1>20, <1>21, <1>22, <1>23, <1>24,
     <1>25, <1>26, <1>27, <1>28, <1>29, <1>30, <1>31, <1>32, <1>33, <1>34, <1>35, <1>36,
     <1>37, <1>38
     DEF AnyStep, ServerStep, ReferStep, PhoneStep

\* Register and Unregister keep the caller index in step with the registry.
LEMMA IndexKept ==
    ASSUME TypeOK, CInv, NEW i \in Invites, AnyStep(i)
    PROVE  IndexAgrees'
<1>a. Books /\ IndexAgrees
  BY DEF CInv
<1>b. ASSUME UNCHANGED <<byDialog, byExt, from>> PROVE IndexAgrees'
  BY <1>a, <1>b DEF IndexAgrees, CallerExt
<1>1. CASE \/ Route(i) \/ Link(i) \/ SetConsult(i) \/ Inbound(i) \/ Refuse(i) \/ Acquire(i)
         \/ RingOnlyEnds(i) \/ OutFailed(i)
         \/ StartBridge(i) \/ WaitEnds(i) \/ Release(i) \/ FindForPark(i)
  BY <1>1, <1>b DEF Route, Link, SetConsult, Inbound, Refuse, Acquire, RingCallee, RingOnlyEnds, OutFailed, StartBridge, WaitEnds, Release,
     FindForPark, reg
<1>2. CASE \/ StealHeldLeg(i) \/ Park(i) \/ DropParker(i) \/ Retrieve(i) \/ RetrieveRefused(i)
         \/ RetrieveAcquire(i) \/ BridgeParked(i) \/ RetrieveEnds(i)
  BY <1>2, <1>b DEF StealHeldLeg, Park, DropParker, Retrieve, RetrieveRefused, RetrieveAcquire,
     BridgeParked, RetrieveEnds, reg
<1>3. CASE \/ Arm(i) \/ SetTransferReady(i) \/ TransferRefused(i) \/ TransferAcquire(i) \/ CompleteTransfer(i)
         \/ TargetFailed(i) \/ HangupTransferor(i) \/ TransferEnds(i)
  BY <1>3, <1>b DEF Arm, SetTransferReady, TransferRefused, TransferAcquire, CompleteTransfer,
     TargetFailed, HangupTransferor, TransferEnds, reg
<1>4. CASE TargetAnswered(i) \/ ReferStart(i) \/ ReferAnswered(i) \/ ReferFailed(i) \/ ReferEnds(i)
  BY <1>4, <1>b DEF TargetAnswered, ReferStart, ReferAnswered, ReferFailed, ReferEnds, reg
<1>5. CASE Teardown(i)
  BY <1>a, <1>5 DEF TypeOK, Teardown, UnregisterCall, IndexAgrees, CallerExt, Books, Recorded
<1>6. CASE OutAnswered(i)
  BY <1>a, <1>6, NilAssumption DEF TypeOK, OutAnswered, IndexAgrees, CallerExt, reg
<1>7. ASSUME NEW e \in Exts, NEW d \in Dials, Dial(i, e, d) PROVE IndexAgrees'
  BY <1>a, <1>7, NilAssumption DEF TypeOK, Dial, IndexAgrees, CallerExt, Books, Recorded, reg
<1>8. ASSUME NEW l \in Legs, PhoneHangup(l) PROVE IndexAgrees'
  BY <1>b, <1>8 DEF PhoneHangup, reg
<1>9. ASSUME NEW t \in Exts, TrunkInvite(i, t) PROVE IndexAgrees'
  BY <1>a, <1>9, NilAssumption DEF TypeOK, TrunkInvite, IndexAgrees, CallerExt, Books, Recorded, reg
<1> QED
  BY <1>1, <1>2, <1>3, <1>4, <1>5, <1>6, <1>7, <1>8, <1>9
     DEF AnyStep, ServerStep, ReferStep, PhoneStep

\* A call that a feature found stays a call that has been set up.
LEMMA FieldsKept ==
    ASSUME TypeOK, CInv, NEW i \in Invites, AnyStep(i)
    PROVE  Fields'
<1>a. Fields /\ Locals /\ Books /\ IndexAgrees /\ Parkers
  BY DEF CInv
<1>b. /\ \A j \in Invites : pc[j] \in Settled => pc'[j] \in Settled
      /\ \A j \in Invites : pc'[j] \in Recorded => pc[j] \in Recorded \/ acOut'[j] = Out(j)
  BY Moves
<1>c. ASSUME UNCHANGED <<acIn, acOut, parkedFlag, acOf>> PROVE Fields'
  BY <1>a, <1>b, <1>c DEF Fields
<1>d. ASSUME UNCHANGED <<acIn, acOut, parkedFlag>>,
             acOf' = acOf \/ (\E ac \in byDialog : acOf' = [acOf EXCEPT ![i] = ac])
      PROVE  Fields'
  BY <1>a, <1>b, <1>d DEF TypeOK, Fields, Books, Recorded, Settled
<1>1. CASE \/ Link(i) \/ SetConsult(i) \/ Inbound(i)
         \/ Refuse(i) \/ Acquire(i) \/ RingOnlyEnds(i) \/ OutFailed(i) \/ StartBridge(i)
         \/ WaitEnds(i) \/ Teardown(i) \/ Release(i)
  BY <1>1, <1>c DEF Link, SetConsult, Inbound, Refuse, Acquire, RingCallee, RingOnlyEnds, OutFailed, StartBridge, WaitEnds, Teardown,
     Release, flags, local
<1>2. CASE \/ DropParker(i) \/ Retrieve(i) \/ RetrieveRefused(i) \/ RetrieveAcquire(i) \/ BridgeParked(i)
         \/ RetrieveEnds(i) \/ SetTransferReady(i) \/ TransferRefused(i)
  BY <1>2, <1>c DEF DropParker, Retrieve, RetrieveRefused, RetrieveAcquire, BridgeParked,
     RetrieveEnds, SetTransferReady, TransferRefused, flags, local
<1>3. CASE \/ TransferAcquire(i) \/ CompleteTransfer(i) \/ TargetFailed(i) \/ HangupTransferor(i) \/ TransferEnds(i)
         \/ TargetAnswered(i) \/ ReferStart(i) \/ ReferAnswered(i) \/ ReferFailed(i) \/ ReferEnds(i)
  BY <1>3, <1>c DEF TransferAcquire, CompleteTransfer, TargetFailed, HangupTransferor, TransferEnds,
     TargetAnswered, ReferStart, ReferAnswered, ReferFailed, ReferEnds, flags, local
<1>4. CASE Route(i)
  <2>1. from[i] \in Exts
    BY <1>a, <1>4 DEF Route, Locals, Outside, Settled, Recorded
  <2>2. \A ac \in Find(from[i]) : ac # NoInvite => ac \in byDialog
    BY <1>a, <2>1, FindRecorded
  <2>3. UNCHANGED <<acIn, acOut, parkedFlag>>
    BY <1>4 DEF Route, flags
  <2>4. \E ac \in Find(from[i]) :
          acOf' = IF ac \in ready /\ dial[i].kind = "ext" THEN [acOf EXCEPT ![i] = ac] ELSE acOf
    BY <1>4, Zenon DEF Route
  <2>5. \A ac \in ready : ac # NoInvite
    BY NilAssumption DEF TypeOK
  <2> QED
    BY <1>d, <2>2, <2>3, <2>4, <2>5
<1>5. CASE FindForPark(i)
  <2>1. from[i] \in Exts
    BY <1>a, <1>5 DEF FindForPark, Locals, Outside, Settled, Recorded
  <2>2. \A ac \in Find(from[i]) : ac # NoInvite => ac \in byDialog
    BY <1>a, <2>1, FindRecorded
  <2> QED
    BY <1>d, <1>5, <2>2, NilAssumption DEF FindForPark, TypeOK, flags
<1>6. CASE StealHeldLeg(i)
  BY <1>a, <1>b, <1>6 DEF TypeOK, StealHeldLeg, Fields, Locals, Parking
<1>7. CASE Park(i)
  BY <1>a, <1>b, <1>7 DEF TypeOK, Park, Fields, Parkers, flags, local
<1>8. CASE Arm(i)
  <2>1. from[i] \in Exts
    BY <1>a, <1>8 DEF Arm, Locals, Outside, Settled, Recorded
  <2>2. \A ac \in Find(from[i]) : ac # NoInvite => ac \in byDialog
    BY <1>a, <2>1, FindRecorded
  <2> QED
    BY <1>d, <1>8, <2>2, NilAssumption DEF Arm, TypeOK, flags
<1>9. CASE OutAnswered(i)
  BY <1>a, <1>b, <1>9 DEF TypeOK, OutAnswered, Fields, flags, local
<1>10. ASSUME NEW e \in Exts, NEW d \in Dials, Dial(i, e, d) PROVE Fields'
  BY <1>c, <1>10 DEF Dial, flags, local
<1>11. ASSUME NEW l \in Legs, PhoneHangup(l) PROVE Fields'
  BY <1>c, <1>11 DEF PhoneHangup, flags, local
<1>12. ASSUME NEW t \in Exts, TrunkInvite(i, t) PROVE Fields'
  BY <1>c, <1>12 DEF TrunkInvite, flags, local
<1> QED
  BY <1>1, <1>2, <1>3, <1>4, <1>5, <1>6, <1>7, <1>8, <1>9, <1>10, <1>11, <1>12
     DEF AnyStep, ServerStep, ReferStep, PhoneStep

\* A parker finds a call of its own and takes the other party's leg.
LEMMA ParkersKept ==
    ASSUME TypeOK, CInv, NEW i \in Invites, AnyStep(i)
    PROVE  Parkers'
<1> USE DEF Parking, ParksCallee, CallerExt, CalleeExt
<1>a. Parkers /\ Fields /\ Locals /\ IndexAgrees /\ Books
  BY DEF CInv
<1>b. /\ \A j \in Invites \ {i} : pc'[j] = pc[j]
      /\ \A j \in Invites : pc[j] # "idle" => from'[j] = from[j] /\ dial'[j] = dial[j]
  BY Moves
<1>c. \A j \in Invites : pc[j] \in Parking =>
          /\ acOf[j] \in Invites /\ pc[acOf[j]] \in Settled
          /\ from'[acOf[j]] = from[acOf[j]] /\ dial'[acOf[j]] = dial[acOf[j]]
  BY <1>a, <1>b DEF Fields, Locals, Settled, Recorded
<1>d. ASSUME parkedFlag \subseteq parkedFlag',
             \A j \in Invites : pc[j] \in Settled => acOut'[j] \in {acOut[j], NoLeg},
             \A j \in Invites \ {i} : acOf'[j] = acOf[j] /\ held'[j] = held[j],
             \/ pc'[i] \notin Parking
             \/ pc'[i] = pc[i] /\ acOf'[i] = acOf[i] /\ held'[i] = held[i]
      PROVE  Parkers'
  BY <1>a, <1>b, <1>c, <1>d DEF Parkers
<1>1. CASE Route(i) \/ Link(i) \/ SetConsult(i) \/ Inbound(i) \/ Refuse(i) \/ Acquire(i)
         \/ RingOnlyEnds(i)
  BY <1>1, <1>d DEF Route, Link, SetConsult, Plan, Inbound, Refuse, Acquire, RingCallee,
     RingOnlyEnds, TypeOK, Goto, GiveUp, flags, local
<1>2. CASE OutFailed(i) \/ StartBridge(i) \/ WaitEnds(i) \/ Teardown(i)
  BY <1>2, <1>d DEF OutFailed, StartBridge, WaitEnds, Teardown, TypeOK, Goto, GiveUp, flags, local
<1>3. CASE Release(i) \/ DropParker(i) \/ Retrieve(i) \/ RetrieveRefused(i)
  BY <1>3, <1>d DEF Release, DropParker, Retrieve, RetrieveRefused, TypeOK, Goto, GiveUp, flags,
     local
<1>4. CASE RetrieveAcquire(i) \/ BridgeParked(i) \/ RetrieveEnds(i) \/ Arm(i)
  BY <1>4, <1>d DEF RetrieveAcquire, BridgeParked, RetrieveEnds, Arm, TypeOK, Goto, GiveUp, flags,
     local
<1>5. CASE SetTransferReady(i) \/ TransferRefused(i) \/ TransferAcquire(i) \/ CompleteTransfer(i)
  BY <1>5, <1>d DEF SetTransferReady, TransferRefused, TransferAcquire, CompleteTransfer, TypeOK,
     Goto, GiveUp, flags, local
<1>6. CASE TargetFailed(i) \/ HangupTransferor(i) \/ TransferEnds(i) \/ TargetAnswered(i)
  BY <1>6, <1>d DEF TargetFailed, HangupTransferor, TransferEnds, TargetAnswered, TypeOK, Goto,
     GiveUp, flags, local
<1>7. CASE ReferStart(i) \/ ReferAnswered(i) \/ ReferFailed(i) \/ ReferEnds(i)
  BY <1>7, <1>d DEF ReferStart, ReferAnswered, ReferFailed, ReferEnds, TypeOK, Goto, GiveUp, flags,
     local
<1>8. CASE FindForPark(i)
  <2>1. from[i] \in Exts
    BY <1>a, <1>8 DEF FindForPark, Locals, Outside, Settled, Recorded
  <2>2. PICK ac \in Find(from[i]) :
          IF ac = NoInvite THEN GiveUp(i) /\ UNCHANGED acOf
          ELSE Goto(i, "steal") /\ acOf' = [acOf EXCEPT ![i] = ac]
    BY <1>8 DEF FindForPark
  <2>3. CASE ac = NoInvite
    BY <1>d, <1>8, <2>2, <2>3 DEF FindForPark, TypeOK, GiveUp, Goto, flags
  <2>4. CASE ac # NoInvite
    <3>1. ac \in Invites /\ ac \in byDialog /\ from[i] \in {from[ac], dial[ac].num}
      BY <1>a, <2>1, <2>4, FindRecorded
    <3>2. from' = from /\ dial' = dial /\ held' = held /\ acOut' = acOut /\ parkedFlag' = parkedFlag
      BY <1>8 DEF FindForPark, flags
    <3> QED
      BY <1>a, <1>b, <1>c, <2>2, <2>4, <3>1, <3>2 DEF Parkers, TypeOK, Goto
  <2> QED
    BY <2>3, <2>4
<1>9. CASE StealHeldLeg(i)
  <2>1. acOf[i] \in Invites /\ acOut[acOf[i]] \in {NoLeg, Out(acOf[i])}
        /\ acIn[acOf[i]] \in {NoLeg, In(acOf[i])}
    BY <1>a, <1>c, <1>9 DEF StealHeldLeg, Fields
  <2> QED
    BY <1>a, <1>b, <1>c, <1>9, <2>1 DEF StealHeldLeg, Parkers, TypeOK, Goto
<1>10. CASE Park(i)
  BY <1>a, <1>b, <1>c, <1>10 DEF Park, Parkers, TypeOK, Goto, flags, local
<1>11. CASE OutAnswered(i)
  BY <1>d, <1>11 DEF TypeOK, OutAnswered, Goto, Settled, Recorded, flags, local
<1>12. ASSUME NEW e \in Exts, NEW d \in Dials, Dial(i, e, d) PROVE Parkers'
  BY <1>d, <1>12 DEF Dial, TypeOK, flags, local
<1>13. ASSUME NEW l \in Legs, PhoneHangup(l) PROVE Parkers'
  BY <1>d, <1>13 DEF PhoneHangup, flags, local
<1>14. ASSUME NEW t \in Exts, TrunkInvite(i, t) PROVE Parkers'
  BY <1>d, <1>14 DEF TrunkInvite, TypeOK, flags, local
<1> QED
  BY <1>1, <1>2, <1>3, <1>4, <1>5, <1>6, <1>7, <1>8, <1>9, <1>10, <1>11, <1>12, <1>13, <1>14
     DEF AnyStep, ServerStep, ReferStep, PhoneStep

\* Legs are taken from calls that have been set up, and from the lot.
LEMMA KeptKept ==
    ASSUME TypeOK, CInv, NEW i \in Invites, AnyStep(i)
    PROVE  Kept'
<1> USE DEF Kept, KeptLeg
<1>a. Kept /\ Fields /\ Locals
  BY DEF CInv
<1>b. \A j \in Invites : pc[j] \in Settled => pc'[j] \in Settled
  BY Moves
<1>c. \A l \in Legs : l[1] \in Invites
  BY LegNames
<1>d. ASSUME UNCHANGED <<held, lot>> PROVE Kept'
  BY <1>a, <1>b, <1>c, <1>d
<1>e. ASSUME acOf[i] \in Invites, NEW l \in {acIn[acOf[i]], acOut[acOf[i]]}
      PROVE  KeptLeg(l)
  <2>1. l \in {NoLeg, In(acOf[i]), Out(acOf[i])} /\ pc[acOf[i]] \in Settled
    BY <1>a, <1>e DEF Fields
  <2> QED
    BY <1>e, <2>1, LegNames, NilAssumption
<1>1. CASE \/ Route(i) \/ Link(i) \/ SetConsult(i) \/ Inbound(i) \/ Refuse(i) \/ Acquire(i)
         \/ RingOnlyEnds(i) \/ OutFailed(i)
         \/ StartBridge(i) \/ WaitEnds(i) \/ Teardown(i) \/ Release(i) \/ FindForPark(i)
  BY <1>1, <1>d DEF Route, Link, SetConsult, Inbound, Refuse, Acquire, RingCallee, RingOnlyEnds, OutFailed, StartBridge, WaitEnds, Teardown,
     Release, FindForPark, local
<1>2. CASE \/ DropParker(i) \/ RetrieveRefused(i) \/ RetrieveAcquire(i) \/ BridgeParked(i) \/ RetrieveEnds(i)
         \/ Arm(i) \/ SetTransferReady(i) \/ TransferRefused(i) \/ TransferAcquire(i) \/ TargetFailed(i)
  BY <1>2, <1>d DEF DropParker, RetrieveRefused, RetrieveAcquire, BridgeParked, RetrieveEnds, Arm,
     SetTransferReady, TransferRefused, TransferAcquire, TargetFailed, local
<1>3. CASE \/ HangupTransferor(i) \/ TransferEnds(i) \/ OutAnswered(i) \/ TargetAnswered(i) \/ ReferStart(i)
         \/ ReferAnswered(i) \/ ReferFailed(i) \/ ReferEnds(i)
  BY <1>3, <1>d DEF HangupTransferor, TransferEnds, OutAnswered, TargetAnswered, ReferStart,
     ReferAnswered, ReferFailed, ReferEnds, local
<1>4. CASE StealHeldLeg(i)
  <2>1. acOf[i] \in Invites
    BY <1>a, <1>4 DEF StealHeldLeg, Locals, Parking
  <2>2. KeptLeg(held'[i])
    BY <1>e, <1>4, <2>1 DEF StealHeldLeg, TypeOK
  <2> QED
    BY <1>a, <1>b, <1>c, <1>4, <2>2 DEF StealHeldLeg, TypeOK
<1>5. CASE Park(i)
  BY <1>a, <1>b, <1>c, <1>5 DEF Park, TypeOK, local
<1>6. CASE Retrieve(i)
  <2>1. dial[i].num \in Exts
    BY <1>a, <1>6, DialFields DEF Retrieve, Locals, Retrieving, TypeOK
  <2>2. /\ \A j \in Invites \ {i} : held'[j] = held[j]
        /\ held'[i] \in {held[i], lot[dial[i].num]}
        /\ \A e \in Exts : lot'[e] \in {lot[e], Absent}
    BY <1>6, <2>1 DEF Retrieve, TypeOK
  <2>3. \A l : KeptLeg(l) => KeptLeg(l)'
    BY <1>b, <1>c
  <2>4. KeptLeg(Absent)'
    BY NilAssumption
  <2> HIDE DEF KeptLeg
  <2> QED
    BY <1>a, <2>1, <2>2, <2>3, <2>4
<1>7. CASE CompleteTransfer(i)
  <2>1. acOf[i] \in Invites
    BY <1>a, <1>7 DEF CompleteTransfer, Locals, Transferring
  <2>2. KeptLeg(held'[i])
    BY <1>e, <1>7, <2>1 DEF CompleteTransfer, TypeOK
  <2> QED
    BY <1>a, <1>b, <1>c, <1>7, <2>2 DEF CompleteTransfer, TypeOK
<1>8. ASSUME NEW e \in Exts, NEW d \in Dials, Dial(i, e, d) PROVE Kept'
  BY <1>d, <1>8 DEF Dial, local
<1>9. ASSUME NEW l \in Legs, PhoneHangup(l) PROVE Kept'
  BY <1>d, <1>9 DEF PhoneHangup, local
<1>10. ASSUME NEW t \in Exts, TrunkInvite(i, t) PROVE Kept'
  BY <1>d, <1>10 DEF TrunkInvite, local
<1> QED
  BY <1>1, <1>2, <1>3, <1>4, <1>5, <1>6, <1>7, <1>8, <1>9, <1>10
     DEF AnyStep, ServerStep, ReferStep, PhoneStep

\* A goroutine is through only after its caller's leg has ended.
LEMMA LegsOverKept ==
    ASSUME TypeOK, CInv, NEW i \in Invites, AnyStep(i)
    PROVE  LegsOver'
<1> DEFINE Fine(k) == /\ pc[k] = "done" => leg[In(k)] \notin Live
                      /\ pc[k] \in Recorded => leg[Out(k)] # "early"
                      /\ pc[k] \notin Settled \cup {"dialing", "xDial", "xHangup", "xWait"} =>
                            leg[Out(k)] \notin Live
<1>a. \A k \in Invites : Fine(k)
  BY DEF CInv, LegsOver
<1>b. \A k \in Invites \ {i} : Fine(k)'
  BY <1>a, Moves, NoRevival DEF Live
<1>c. In(i) \in Legs /\ Out(i) \in Legs /\ ReferLeg(i) \in Legs
      /\ In(i) # Out(i) /\ In(i) # ReferLeg(i) /\ Out(i) # ReferLeg(i)
  BY LegNames
<1> SUFFICES Fine(i)'
  BY <1>b DEF LegsOver
<1> USE <1>a, <1>c DEF TypeOK, Settled, Recorded, Live
<1>1. CASE Route(i)
  BY <1>1 DEF Route, Goto, GiveUp, Hungup
<1>2. CASE Refuse(i)
  BY <1>2 DEF Refuse, Goto, GiveUp, Hungup
<1>3. CASE Acquire(i)
  BY <1>3 DEF Acquire, RingCallee, Goto, GiveUp, Hungup
<1>4. CASE RingOnlyEnds(i)
  BY <1>4 DEF RingOnlyEnds, Goto, GiveUp, Hungup
<1>5. CASE OutFailed(i)
  BY <1>5 DEF OutFailed, Goto, GiveUp, Hungup
<1>6. CASE StartBridge(i)
  BY <1>6 DEF StartBridge, Goto, GiveUp, Hungup
<1>7. CASE WaitEnds(i)
  BY <1>7 DEF WaitEnds, Goto, GiveUp, Hungup, PairEnds
<1>8. CASE Teardown(i)
  BY <1>8 DEF Teardown, Goto, GiveUp, Hungup
<1>9. CASE Release(i)
  BY <1>9 DEF Release, Goto, GiveUp, Hungup
<1>10. CASE FindForPark(i)
  BY <1>10 DEF FindForPark, Goto, GiveUp, Hungup
<1>11. CASE StealHeldLeg(i)
  BY <1>11 DEF StealHeldLeg, Goto, GiveUp, Hungup
<1>12. CASE Park(i)
  BY <1>12 DEF Park, Goto, GiveUp, Hungup
<1>13. CASE DropParker(i)
  BY <1>13 DEF DropParker, Goto, GiveUp, Hungup
<1>14. CASE Retrieve(i)
  BY <1>14 DEF Retrieve, Goto, GiveUp, Hungup
<1>15. CASE RetrieveRefused(i)
  BY <1>15 DEF RetrieveRefused, Goto, GiveUp, Hungup
<1>16. CASE RetrieveAcquire(i)
  BY <1>16 DEF RetrieveAcquire, Goto, GiveUp, Hungup
<1>17. CASE BridgeParked(i)
  BY <1>17 DEF BridgeParked, Goto, GiveUp, Hungup
<1>18. CASE RetrieveEnds(i)
  BY <1>18 DEF RetrieveEnds, Goto, GiveUp, Hungup, PairEnds
<1>19. CASE Arm(i)
  BY <1>19 DEF Arm, Goto, GiveUp, Hungup
<1>20. CASE SetTransferReady(i)
  BY <1>20 DEF SetTransferReady, Goto, GiveUp, Hungup
<1>21. CASE TransferRefused(i)
  BY <1>21 DEF TransferRefused, Goto, GiveUp, Hungup
<1>22. CASE TransferAcquire(i)
  BY <1>22 DEF TransferAcquire, Goto, GiveUp, Hungup
<1>23. CASE CompleteTransfer(i)
  BY <1>23 DEF CompleteTransfer, Goto, GiveUp, Hungup
<1>24. CASE TargetFailed(i)
  BY <1>24 DEF TargetFailed, Goto, GiveUp, Hungup
<1>25. CASE HangupTransferor(i)
  BY <1>25 DEF HangupTransferor, Goto, GiveUp, Hungup
<1>26. CASE TransferEnds(i)
  BY <1>26 DEF TransferEnds, Goto, GiveUp, Hungup, PairEnds
<1>27. CASE OutAnswered(i)
  BY <1>27 DEF OutAnswered, Goto, GiveUp, Hungup
<1>28. CASE TargetAnswered(i)
  BY <1>28 DEF TargetAnswered, Goto, GiveUp, Hungup
<1>29. CASE ReferStart(i)
  BY <1>29 DEF ReferStart, Goto, GiveUp, Hungup
<1>30. CASE ReferAnswered(i)
  BY <1>30 DEF ReferAnswered, Goto, GiveUp, Hungup
<1>31. CASE ReferFailed(i)
  BY <1>31 DEF ReferFailed, Goto, GiveUp, Hungup
<1>32. CASE ReferEnds(i)
  BY <1>32 DEF ReferEnds, Goto, GiveUp, Hungup
<1>33. ASSUME NEW e \in Exts, NEW d \in Dials, Dial(i, e, d) PROVE Fine(i)'
  BY <1>33 DEF Dial
<1>34. ASSUME NEW l \in Legs, PhoneHangup(l) PROVE Fine(i)'
  BY <1>34 DEF PhoneHangup
<1>35. CASE Link(i)
  BY <1>35 DEF Link, Plan, Goto, GiveUp, Hungup
<1>36. CASE SetConsult(i)
  BY <1>36 DEF SetConsult, Plan, Goto, GiveUp, Hungup
<1>37. CASE Inbound(i)
  BY <1>37 DEF Inbound, RingCallee, Goto, GiveUp, Hungup
<1>38. ASSUME NEW t \in Exts, TrunkInvite(i, t) PROVE Fine(i)'
  BY <1>38 DEF TrunkInvite
<1> QED
  BY <1>1, <1>2, <1>3, <1>4, <1>5, <1>6, <1>7, <1>8, <1>9, <1>10, <1>11, <1>12, <1>13,
     <1>14, <1>15, <1>16, <1>17, <1>18, <1>19, <1>20, <1>21, <1>22, <1>23, <1>24,
     <1>25, <1>26, <1>27, <1>28, <1>29, <1>30, <1>31, <1>32, <1>33, <1>34, <1>35, <1>36,
     <1>37, <1>38
     DEF AnyStep, ServerStep, ReferStep, PhoneStep

\* A step bridges or abandons only legs of its own call, and never both.
LEMMA JoinedKept ==
    ASSUME TypeOK, CInv, NEW i \in Invites, AnyStep(i)
    PROVE  Joined'
<1> DEFINE Fine(k) ==
      /\ leg[In(k)] # "abandoned"
      /\ pc[k] = "bridge" => leg[Out(k)] # "abandoned"
      /\ Out(k) \in joined =>
            /\ pc[k] \in Bridged
            /\ leg[Out(k)] # "abandoned"
            /\ pc[k] = "teardown" => leg[Out(k)] \notin Live
      /\ ReferLeg(k) \in joined =>
            /\ rpc[k] \in {"wait", "done"}
            /\ leg[ReferLeg(k)] # "abandoned"
            /\ rpc[k] = "done" => leg[ReferLeg(k)] \notin Live
      Apart == \A k \in Invites \ {i} :
            /\ rpc'[k] = rpc[k]
            /\ \A l \in {In(k), Out(k), ReferLeg(k)} :
                  leg'[l] \in {leg[l], "byServer"} /\ (l \in joined' => l \in joined)
      Goal == Fine(i)' /\ Apart
<1>a. \A k \in Invites : Fine(k)
  BY DEF CInv, Joined
<1>b. Apart => \A k \in Invites \ {i} : Fine(k)'
  BY <1>a, Moves DEF Live
<1>c. /\ In(i) \in Legs /\ Out(i) \in Legs /\ ReferLeg(i) \in Legs
      /\ In(i) # Out(i) /\ In(i) # ReferLeg(i) /\ Out(i) # ReferLeg(i)
      /\ \A k \in Invites \ {i} : \A l \in {In(k), Out(k), ReferLeg(k)} :
            l \in Legs /\ l \notin {In(i), Out(i), ReferLeg(i)} /\ l[1] # i
  BY LegNames
<1>d. LegsOver
  BY DEF CInv
<1> SUFFICES Goal
  BY <1>b DEF Joined
<1> USE <1>a, <1>c DEF TypeOK, Bridged, Live, Ended, flags, media
<1>1. CASE Route(i)
  BY <1>1 DEF Route, Goto, GiveUp, Hungup
<1>2. CASE Refuse(i)
  BY <1>2 DEF Refuse, Goto, GiveUp, Hungup
<1>3. CASE Acquire(i)
  BY <1>3 DEF Acquire, RingCallee, Goto, GiveUp, Hungup
<1>4. CASE RingOnlyEnds(i)
  BY <1>4 DEF RingOnlyEnds, Goto, GiveUp, Hungup
<1>5. CASE OutFailed(i)
  BY <1>5 DEF OutFailed, Goto, GiveUp, Hungup
<1>6. CASE StartBridge(i)
  BY <1>6 DEF StartBridge, Goto, GiveUp, Hungup
<1>7. CASE WaitEnds(i)
  BY <1>7 DEF WaitEnds, Goto, GiveUp, Hungup, PairEnds
<1>8. CASE Teardown(i)
  <2>1. pc'[i] = "done" /\ UNCHANGED <<joined, rpc>> /\ pc[i] = "teardown"
    BY <1>8 DEF Teardown, Goto
  <2>2. \A l \in Legs \ {Out(i)} : leg'[l] \in {leg[l], "byServer"}
    BY <1>8 DEF Teardown, Hungup
  <2>3. leg'[Out(i)] = IF Up(Out(i)) /\ i \notin parkedFlag THEN "abandoned" ELSE leg[Out(i)]
    BY <1>8 DEF Teardown, Hungup
  <2> QED
    BY <2>1, <2>2, <2>3 DEF Up
<1>9. CASE Release(i)
  BY <1>9 DEF Release, Goto, GiveUp, Hungup
<1>10. CASE FindForPark(i)
  BY <1>10 DEF FindForPark, Goto, GiveUp, Hungup
<1>11. CASE StealHeldLeg(i)
  BY <1>11 DEF StealHeldLeg, Goto, GiveUp, Hungup
<1>12. CASE Park(i)
  BY <1>12 DEF Park, Goto, GiveUp, Hungup
<1>13. CASE DropParker(i)
  BY <1>13 DEF DropParker, Goto, GiveUp, Hungup
<1>14. CASE Retrieve(i)
  BY <1>14 DEF Retrieve, Goto, GiveUp, Hungup
<1>15. CASE RetrieveRefused(i)
  BY <1>15 DEF RetrieveRefused, Goto, GiveUp, Hungup
<1>16. CASE RetrieveAcquire(i)
  BY <1>16 DEF RetrieveAcquire, Goto, GiveUp, Hungup
<1>17. CASE BridgeParked(i)
  BY <1>17 DEF BridgeParked, Goto, GiveUp, Hungup
<1>18. CASE RetrieveEnds(i)
  BY <1>18 DEF RetrieveEnds, Goto, GiveUp, Hungup, PairEnds
<1>19. CASE Arm(i)
  BY <1>19 DEF Arm, Goto, GiveUp, Hungup
<1>20. CASE SetTransferReady(i)
  BY <1>20 DEF SetTransferReady, Goto, GiveUp, Hungup
<1>21. CASE TransferRefused(i)
  BY <1>21 DEF TransferRefused, Goto, GiveUp, Hungup
<1>22. CASE TransferAcquire(i)
  BY <1>22 DEF TransferAcquire, Goto, GiveUp, Hungup
<1>23. CASE CompleteTransfer(i)
  BY <1>23 DEF CompleteTransfer, Goto, GiveUp, Hungup
<1>24. CASE TargetFailed(i)
  BY <1>24 DEF TargetFailed, Goto, GiveUp, Hungup
<1>25. CASE HangupTransferor(i)
  BY <1>25 DEF HangupTransferor, Goto, GiveUp, Hungup
<1>26. CASE TransferEnds(i)
  BY <1>26 DEF TransferEnds, Goto, GiveUp, Hungup, PairEnds
<1>27. CASE OutAnswered(i)
  BY <1>27 DEF OutAnswered, Goto, GiveUp, Hungup
<1>28. CASE TargetAnswered(i)
  BY <1>28 DEF TargetAnswered, Goto, GiveUp, Hungup
<1>29. CASE ReferStart(i)
  BY <1>29 DEF ReferStart, Goto, GiveUp, Hungup
<1>30. CASE ReferAnswered(i)
  <2>1. /\ rpc[i] = "dialing" /\ UNCHANGED pc
        /\ \A k \in Invites \ {i} : rpc'[k] = rpc[k]
    BY <1>30 DEF ReferAnswered
  <2>2. \A l \in Legs \ {ReferLeg(i)} : leg'[l] \in {leg[l], "byServer"}
    BY <1>30 DEF ReferAnswered, Hungup
  <2>3. \/ leg'[ReferLeg(i)] = "up" /\ joined' = joined \cup {ReferLeg(i)} /\ rpc'[i] = "wait"
        \/ leg'[ReferLeg(i)] = "abandoned" /\ joined' = joined /\ rpc'[i] = "done"
    BY <1>30 DEF ReferAnswered, Hungup
  <2> QED
    BY <2>1, <2>2, <2>3
<1>31. CASE ReferFailed(i)
  BY <1>31 DEF ReferFailed, Goto, GiveUp, Hungup
<1>32. CASE ReferEnds(i)
  BY <1>32 DEF ReferEnds, Goto, GiveUp, Hungup
<1>33. ASSUME NEW e \in Exts, NEW d \in Dials, Dial(i, e, d) PROVE Goal
  BY <1>33 DEF Dial
<1>34. ASSUME NEW l \in Legs, l[1] = i, PhoneHangup(l) PROVE Goal
  BY <1>34 DEF PhoneHangup
<1>35. CASE Link(i)
  BY <1>35 DEF Link, Plan, Goto, GiveUp, Hungup
<1>36. CASE SetConsult(i)
  BY <1>36 DEF SetConsult, Plan, Goto, GiveUp, Hungup
<1>37. CASE Inbound(i)
  BY <1>37 DEF Inbound, RingCallee, Goto, GiveUp, Hungup
<1>38. ASSUME NEW t \in Exts, TrunkInvite(i, t) PROVE Goal
  BY <1>38 DEF TrunkInvite
<1> QED
  BY <1>1, <1>2, <1>3, <1>4, <1>5, <1>6, <1>7, <1>8, <1>9, <1>10, <1>11, <1>12, <1>13,
     <1>14, <1>15, <1>16, <1>17, <1>18, <1>19, <1>20, <1>21, <1>22, <1>23, <1>24,
     <1>25, <1>26, <1>27, <1>28, <1>29, <1>30, <1>31, <1>32, <1>33, <1>34, <1>35, <1>36,
     <1>37, <1>38
     DEF AnyStep, ServerStep, ReferStep, PhoneStep

\* What Park stores is the peer of the parker.
LEMMA SlotKept ==
    ASSUME TypeOK, CInv, NEW i \in Invites, AnyStep(i)
    PROVE  SlotHoldsPeer'
<1> USE DEF SlotHoldsPeer, CallerExt, CalleeExt
<1>a. SlotHoldsPeer /\ Parkers /\ Kept /\ Locals
  BY DEF CInv
<1>b. \A e \in Exts, k \in Invites : lot[e] \in {In(k), Out(k)} =>
          from'[k] = from[k] /\ dial'[k] = dial[k]
  <2>1. \A e \in Exts, k \in Invites : lot[e] \in {In(k), Out(k)} => pc[k] \in Settled
    BY <1>a, LegNames DEF Kept, KeptLeg
  <2> QED
    BY <2>1, Moves DEF Settled, Recorded
<1>c. ASSUME UNCHANGED lot PROVE SlotHoldsPeer'
  BY <1>a, <1>b, <1>c
<1>1. CASE \/ Route(i) \/ Link(i) \/ SetConsult(i) \/ Inbound(i) \/ Refuse(i) \/ Acquire(i)
         \/ RingOnlyEnds(i) \/ OutFailed(i)
         \/ StartBridge(i) \/ WaitEnds(i) \/ Teardown(i) \/ Release(i) \/ FindForPark(i)
  BY <1>1, <1>c DEF Route, Link, SetConsult, Inbound, Refuse, Acquire, RingCallee, RingOnlyEnds, OutFailed, StartBridge, WaitEnds, Teardown,
     Release, FindForPark
<1>2. CASE \/ StealHeldLeg(i) \/ DropParker(i) \/ RetrieveRefused(i) \/ RetrieveAcquire(i) \/ BridgeParked(i)
         \/ RetrieveEnds(i) \/ Arm(i) \/ SetTransferReady(i) \/ TransferRefused(i) \/ TransferAcquire(i)
  BY <1>2, <1>c DEF StealHeldLeg, DropParker, RetrieveRefused, RetrieveAcquire, BridgeParked,
     RetrieveEnds, Arm, SetTransferReady, TransferRefused, TransferAcquire
<1>3. CASE \/ CompleteTransfer(i) \/ TargetFailed(i) \/ HangupTransferor(i) \/ TransferEnds(i) \/ OutAnswered(i)
         \/ TargetAnswered(i) \/ ReferStart(i) \/ ReferAnswered(i) \/ ReferFailed(i) \/ ReferEnds(i)
  BY <1>3, <1>c DEF CompleteTransfer, TargetFailed, HangupTransferor, TransferEnds, OutAnswered,
     TargetAnswered, ReferStart, ReferAnswered, ReferFailed, ReferEnds
<1>4. CASE Park(i)
  <2>1. acOf[i] \in Invites /\ from[i] \in {from[acOf[i]], dial[acOf[i]].num}
    BY <1>a, <1>4 DEF Park, Parkers, Locals, Parking
  <2>2. \/ held[i] = NoLeg
        \/ held[i] = Out(acOf[i]) /\ from[i] = from[acOf[i]]
        \/ held[i] = In(acOf[i]) /\ from[i] = dial[acOf[i]].num
    BY <1>a, <1>4, <2>1 DEF Park, Parkers, ParksCallee
  <2>3. \A k \in Invites : /\ held[i] = Out(k) => from[i] = from[k]
                           /\ held[i] = In(k) => from[i] = dial[k].num
    BY <2>1, <2>2, LegNames, NilAssumption
  <2>4. UNCHANGED <<from, dial>> /\ lot' = [lot EXCEPT ![from[i]] = held[i]]
    BY <1>4 DEF Park
  <2>5. \A e \in Exts : lot'[e] = IF e = from[i] THEN held[i] ELSE lot[e]
    BY <2>4 DEF TypeOK
  <2> QED
    BY <1>a, <2>3, <2>4, <2>5
<1>5. CASE Retrieve(i)
  <2>1. \A k \in Invites : Absent # In(k) /\ Absent # Out(k)
    BY LegNames, NilAssumption
  <2> QED
    BY <1>a, <1>c, <1>5, <2>1 DEF Retrieve, TypeOK
<1>6. ASSUME NEW e \in Exts, NEW d \in Dials, Dial(i, e, d) PROVE SlotHoldsPeer'
  BY <1>c, <1>6 DEF Dial
<1>7. ASSUME NEW l \in Legs, PhoneHangup(l) PROVE SlotHoldsPeer'
  BY <1>c, <1>7 DEF PhoneHangup
<1>8. ASSUME NEW t \in Exts, TrunkInvite(i, t) PROVE SlotHoldsPeer'
  BY <1>c, <1>8 DEF TrunkInvite
<1> QED
  BY <1>1, <1>2, <1>3, <1>4, <1>5, <1>6, <1>7, <1>8
     DEF AnyStep, ServerStep, ReferStep, PhoneStep

\* A retriever ends only with the party it took.
LEMMA RetrievedKept ==
    ASSUME TypeOK, CInv, NEW i \in Invites, AnyStep(i)
    PROVE  Retrieved'
<1> DEFINE Fine(k) ==
      /\ pc[k] \in {"idle", "route", "link", "setConsult", "retrieve"} => held[k] = NoLeg
      /\ dial[k].kind = "retrieve" =>
            pc[k] \in Retrieving \cup {"route", "link", "setConsult", "release", "done"}
      /\ pc[k] \in {"release", "done"} /\ dial[k].kind = "retrieve" /\ held[k] # NoLeg =>
            leg[held[k]] \notin Live
<1>a. \A k \in Invites : Fine(k)
  BY DEF CInv, Retrieved
<1>b. \A k \in Invites : held[k] \in Legs /\ leg'[held[k]] \in Live => leg[held[k]] \in Live
  <2> SUFFICES ASSUME NEW k \in Invites, held[k] \in Legs, leg'[held[k]] \in Live
               PROVE  leg[held[k]] \in Live
    OBVIOUS
  <2>1. PICK j \in Invites : held[k] \in {In(j), Out(j)} /\ pc[j] \in Settled
    BY LegNames DEF CInv, Kept, KeptLeg
  <2> QED
    BY <2>1, NoRevival
<1>c. Locals
  BY DEF CInv
<1> SUFFICES Fine(i)' /\ \A k \in Invites \ {i} : held'[k] = held[k] /\ dial'[k] = dial[k]
  BY <1>a, <1>b, Moves DEF Retrieved, TypeOK
<1> DEFINE Goal == Fine(i)' /\ \A k \in Invites \ {i} : held'[k] = held[k] /\ dial'[k] = dial[k]
<1> SUFFICES Goal
  OBVIOUS
<1> USE <1>a, <1>b DEF TypeOK, Retrieving
<1>1. CASE Route(i)
  BY <1>1 DEF Route, Goto, GiveUp, local
<1>2. CASE Refuse(i)
  BY <1>2 DEF Refuse, Goto, GiveUp, local
<1>3. CASE Acquire(i)
  BY <1>3 DEF Acquire, RingCallee, Goto, GiveUp, local
<1>4. CASE RingOnlyEnds(i)
  BY <1>4 DEF RingOnlyEnds, Goto, GiveUp, local
<1>5. CASE OutFailed(i)
  BY <1>5 DEF OutFailed, Goto, GiveUp, local
<1>6. CASE StartBridge(i)
  BY <1>6 DEF StartBridge, Goto, GiveUp, local
<1>7. CASE WaitEnds(i)
  BY <1>7 DEF WaitEnds, Goto, GiveUp, local, PairEnds
<1>8. CASE Teardown(i)
  BY <1>8 DEF Teardown, Goto, GiveUp, local
<1>9. CASE Release(i)
  BY <1>9 DEF Release, Goto, GiveUp, local
<1>10. CASE FindForPark(i)
  BY <1>10 DEF FindForPark, Goto, GiveUp, local
<1>11. CASE StealHeldLeg(i)
  BY <1>11 DEF StealHeldLeg, Goto, GiveUp, local
<1>12. CASE Park(i)
  BY <1>12 DEF Park, Goto, GiveUp, local
<1>13. CASE DropParker(i)
  BY <1>13 DEF DropParker, Goto, GiveUp, local
<1>14. CASE Retrieve(i)
  BY <1>14 DEF Retrieve, Goto, GiveUp, local
<1>15. CASE RetrieveRefused(i)
  BY <1>15 DEF RetrieveRefused, Goto, GiveUp, local, Hungup, Live
<1>16. CASE RetrieveAcquire(i)
  BY <1>16 DEF RetrieveAcquire, Goto, GiveUp, local
<1>17. CASE BridgeParked(i)
  BY <1>17 DEF BridgeParked, Goto, GiveUp, local, Hungup, Live
<1>18. CASE RetrieveEnds(i)
  BY <1>18 DEF RetrieveEnds, Goto, GiveUp, local, Hungup, PairEnds, Live, Ended
<1>19. CASE Arm(i)
  BY <1>19 DEF Arm, Goto, GiveUp, local
<1>20. CASE SetTransferReady(i)
  BY <1>20 DEF SetTransferReady, Goto, GiveUp, local
<1>21. CASE TransferRefused(i)
  BY <1>21 DEF TransferRefused, Goto, GiveUp, local
<1>22. CASE TransferAcquire(i)
  BY <1>22 DEF TransferAcquire, Goto, GiveUp, local
<1>23. CASE CompleteTransfer(i)
  BY <1>23 DEF CompleteTransfer, Goto, GiveUp, local
<1>24. CASE TargetFailed(i)
  BY <1>24 DEF TargetFailed, Goto, GiveUp, local
<1>25. CASE HangupTransferor(i)
  BY <1>25 DEF HangupTransferor, Goto, GiveUp, local
<1>26. CASE TransferEnds(i)
  BY <1>26 DEF TransferEnds, Goto, GiveUp, local, PairEnds
<1>27. CASE OutAnswered(i)
  BY <1>27 DEF OutAnswered, Goto, GiveUp, local
<1>28. CASE TargetAnswered(i)
  BY <1>28 DEF TargetAnswered, Goto, GiveUp, local
<1>29. CASE ReferStart(i)
  BY <1>29 DEF ReferStart, Goto, GiveUp, local
<1>30. CASE ReferAnswered(i)
  BY <1>30 DEF ReferAnswered, Goto, GiveUp, local
<1>31. CASE ReferFailed(i)
  BY <1>31 DEF ReferFailed, Goto, GiveUp, local
<1>32. CASE ReferEnds(i)
  BY <1>32 DEF ReferEnds, Goto, GiveUp, local
<1>33. ASSUME NEW e \in Exts, NEW d \in Dials, Dial(i, e, d) PROVE Goal
  BY <1>33 DEF Dial, local
<1>34. ASSUME NEW l \in Legs, PhoneHangup(l) PROVE Goal
  BY <1>34 DEF PhoneHangup, local
<1>35. CASE Link(i)
  BY <1>35 DEF Link, Plan, Goto, GiveUp, local
<1>36. CASE SetConsult(i)
  BY <1>36 DEF SetConsult, Plan, Goto, GiveUp, local
<1>37. CASE Inbound(i)
  BY <1>37 DEF Inbound, RingCallee, Goto, GiveUp, local
<1>38. ASSUME NEW t \in Exts, TrunkInvite(i, t) PROVE Goal
  BY <1>38 DEF TrunkInvite, local
<1> QED
  BY <1>1, <1>2, <1>3, <1>4, <1>5, <1>6, <1>7, <1>8, <1>9, <1>10, <1>11, <1>12, <1>13,
     <1>14, <1>15, <1>16, <1>17, <1>18, <1>19, <1>20, <1>21, <1>22, <1>23, <1>24,
     <1>25, <1>26, <1>27, <1>28, <1>29, <1>30, <1>31, <1>32, <1>33, <1>34, <1>35, <1>36,
     <1>37, <1>38
     DEF AnyStep, ServerStep, ReferStep, PhoneStep

\* Only the goroutine that takes the step changes what it has found.
LEMMA OwnLocals ==
    ASSUME TypeOK, NEW i \in Invites, AnyStep(i)
    PROVE  \A j \in Invites \ {i} : held'[j] = held[j] /\ acOf'[j] = acOf[j]
<1> DEFINE Goal == \A j \in Invites \ {i} : held'[j] = held[j] /\ acOf'[j] = acOf[j]
<1> SUFFICES Goal
  OBVIOUS
<1> USE DEF TypeOK, local
<1>1. CASE \/ Route(i) \/ Link(i) \/ SetConsult(i) \/ Inbound(i) \/ Refuse(i) \/ Acquire(i)
         \/ RingOnlyEnds(i) \/ OutFailed(i)
         \/ StartBridge(i) \/ WaitEnds(i) \/ Teardown(i) \/ Release(i)
  BY <1>1 DEF Route, Link, SetConsult, Inbound, Refuse, Acquire, RingCallee, RingOnlyEnds, OutFailed, StartBridge, WaitEnds, Teardown,
     Release
<1>2. CASE \/ FindForPark(i) \/ StealHeldLeg(i) \/ Park(i) \/ DropParker(i) \/ Retrieve(i)
         \/ RetrieveRefused(i) \/ RetrieveAcquire(i) \/ BridgeParked(i) \/ RetrieveEnds(i)
  BY <1>2 DEF FindForPark, StealHeldLeg, Park, DropParker, Retrieve, RetrieveRefused,
     RetrieveAcquire, BridgeParked, RetrieveEnds
<1>3. CASE \/ Arm(i) \/ SetTransferReady(i) \/ TransferRefused(i) \/ TransferAcquire(i) \/ CompleteTransfer(i)
         \/ TargetFailed(i) \/ HangupTransferor(i) \/ TransferEnds(i)
  BY <1>3 DEF Arm, SetTransferReady, TransferRefused, TransferAcquire, CompleteTransfer,
     TargetFailed, HangupTransferor, TransferEnds
<1>4. CASE \/ OutAnswered(i) \/ TargetAnswered(i) \/ ReferStart(i) \/ ReferAnswered(i) \/ ReferFailed(i)
         \/ ReferEnds(i)
  BY <1>4 DEF OutAnswered, TargetAnswered, ReferStart, ReferAnswered, ReferFailed, ReferEnds
<1>5. ASSUME NEW e \in Exts, NEW d \in Dials, Dial(i, e, d) PROVE Goal
  BY <1>5 DEF Dial
<1>6. ASSUME NEW l \in Legs, PhoneHangup(l) PROVE Goal
  BY <1>6 DEF PhoneHangup
<1>7. ASSUME NEW t \in Exts, TrunkInvite(i, t) PROVE Goal
  BY <1>7 DEF TrunkInvite
<1> QED
  BY <1>1, <1>2, <1>3, <1>4, <1>5, <1>6, <1>7
     DEF AnyStep, ServerStep, ReferStep, PhoneStep

\* A callee that is to be claimed after a step had been set up before it.
LEMMA Outlives ==
    ASSUME TypeOK, CInv, NEW i \in Invites, AnyStep(i), NEW k \in Invites,
           pc'[k] \in Settled, leg'[Out(k)] \in Live, k \in parkedFlag' \/ pc'[k] = "done"
    PROVE  pc[k] \in Settled /\ leg[Out(k)] \in Live
<1>x. CASE k # i
  BY <1>x, Moves, NoRevival
<1>y. CASE pc[k] \in Settled
  BY <1>y, NoRevival
<1> SUFFICES ASSUME k = i, pc[i] \notin Settled PROVE FALSE
  BY <1>x, <1>y
<1>a. /\ i \notin parkedFlag /\ (pc[i] \in Parking => acOf[i] # i)
      /\ pc[i] \notin {"dialing", "xDial", "xHangup", "xWait"} => leg[Out(i)] \notin Live
  <2>1. pc[i] \in Parking => acOf[i] \in Invites
    BY DEF CInv, Locals
  <2> QED
    BY <2>1 DEF CInv, Fields, LegsOver
<1>b. In(i) # Out(i) /\ Out(i) \in Legs
  BY LegNames
<1> DEFINE Goal == FALSE
<1> SUFFICES Goal
  OBVIOUS
<1> USE <1>a, <1>b DEF TypeOK, Goto, GiveUp, Settled, Recorded, Parking
<1>1. CASE Route(i)
  BY <1>1 DEF Route, Hungup, flags
<1>2. CASE Refuse(i)
  BY <1>2 DEF Refuse, Hungup, flags
<1>3. CASE Acquire(i)
  BY <1>3 DEF Acquire, RingCallee, Hungup, flags
<1>4. CASE RingOnlyEnds(i)
  BY <1>4 DEF RingOnlyEnds, Hungup, flags
<1>5. CASE OutFailed(i)
  BY <1>5 DEF OutFailed, Hungup, flags
<1>6. CASE StartBridge(i)
  BY <1>6 DEF StartBridge, Hungup, flags
<1>7. CASE WaitEnds(i)
  BY <1>7 DEF WaitEnds, Hungup, PairEnds, flags
<1>8. CASE Teardown(i)
  BY <1>8 DEF Teardown, Hungup, flags
<1>9. CASE Release(i)
  BY <1>9 DEF Release, Hungup, flags
<1>10. CASE FindForPark(i)
  BY <1>10 DEF FindForPark, Hungup, flags
<1>11. CASE StealHeldLeg(i)
  BY <1>11 DEF StealHeldLeg, Hungup, flags
<1>12. CASE Park(i)
  BY <1>12 DEF Park, Hungup, flags
<1>13. CASE DropParker(i)
  BY <1>13 DEF DropParker, Hungup, flags
<1>14. CASE Retrieve(i)
  BY <1>14 DEF Retrieve, Hungup, flags
<1>15. CASE RetrieveRefused(i)
  BY <1>15 DEF RetrieveRefused, Hungup, flags
<1>16. CASE RetrieveAcquire(i)
  BY <1>16 DEF RetrieveAcquire, Hungup, flags
<1>17. CASE BridgeParked(i)
  BY <1>17 DEF BridgeParked, Hungup, flags
<1>18. CASE RetrieveEnds(i)
  BY <1>18 DEF RetrieveEnds, Hungup, PairEnds, flags
<1>19. CASE Arm(i)
  BY <1>19 DEF Arm, Hungup, flags
<1>20. CASE SetTransferReady(i)
  BY <1>20 DEF SetTransferReady, Hungup, flags
<1>21. CASE TransferRefused(i)
  BY <1>21 DEF TransferRefused, Hungup, flags
<1>22. CASE TransferAcquire(i)
  BY <1>22 DEF TransferAcquire, Hungup, flags
<1>23. CASE CompleteTransfer(i)
  BY <1>23 DEF CompleteTransfer, Hungup, flags
<1>24. CASE TargetFailed(i)
  BY <1>24 DEF TargetFailed, Hungup, flags
<1>25. CASE HangupTransferor(i)
  BY <1>25 DEF HangupTransferor, Hungup, flags
<1>26. CASE TransferEnds(i)
  BY <1>26 DEF TransferEnds, Hungup, PairEnds, flags
<1>27. CASE OutAnswered(i)
  BY <1>27 DEF OutAnswered, Hungup, flags
<1>28. CASE TargetAnswered(i)
  BY <1>28 DEF TargetAnswered, Hungup, flags
<1>29. CASE ReferStart(i)
  BY <1>29 DEF ReferStart, Hungup, flags
<1>30. CASE ReferAnswered(i)
  BY <1>30 DEF ReferAnswered, Hungup, flags
<1>31. CASE ReferFailed(i)
  BY <1>31 DEF ReferFailed, Hungup, flags
<1>32. CASE ReferEnds(i)
  BY <1>32 DEF ReferEnds, Hungup, flags
<1>33. ASSUME NEW e \in Exts, NEW d \in Dials, Dial(i, e, d) PROVE Goal
  BY <1>33 DEF Dial, flags
<1>34. ASSUME NEW l \in Legs, PhoneHangup(l) PROVE Goal
  BY <1>34 DEF PhoneHangup, flags
<1>35. CASE Link(i)
  BY <1>35 DEF Link, Plan, Hungup, flags
<1>36. CASE SetConsult(i)
  BY <1>36 DEF SetConsult, Plan, Hungup, flags
<1>37. CASE Inbound(i)
  BY <1>37 DEF Inbound, RingCallee, Hungup, flags
<1>38. ASSUME NEW t \in Exts, TrunkInvite(i, t) PROVE Goal
  BY <1>38 DEF TrunkInvite, flags
<1> QED
  BY <1>1, <1>2, <1>3, <1>4, <1>5, <1>6, <1>7, <1>8, <1>9, <1>10, <1>11, <1>12, <1>13,
     <1>14, <1>15, <1>16, <1>17, <1>18, <1>19, <1>20, <1>21, <1>22, <1>23, <1>24,
     <1>25, <1>26, <1>27, <1>28, <1>29, <1>30, <1>31, <1>32, <1>33, <1>34, <1>35, <1>36,
     <1>37, <1>38
     DEF AnyStep, ServerStep, ReferStep, PhoneStep

\* A step hands every claim on, or ends the leg.
LEMMA ClaimsKept ==
    ASSUME TypeOK, CInv, NEW i \in Invites, AnyStep(i)
    PROVE  Claims'
<1> SUFFICES ASSUME NEW k \in Invites, pc'[k] \in Settled, leg'[Out(k)] \in Live,
                    k \in parkedFlag' \/ pc'[k] = "done"
             PROVE  Claimed(k)'
  BY DEF Claims
<1> DEFINE Taker(j) == held[j] = Out(k) /\ pc[j] \in {"store", "rAcquire", "rBridge", "rWait"}
           Parker(j) == /\ pc[j] \in {"store", "dropParker"} /\ acOf[j] = k
                        /\ ~ParksCallee(j) /\ acOut[k] = Out(k)
<1>a. pc[k] \in Settled /\ leg[Out(k)] \in Live /\ Out(k) \in Legs /\ Out(k) # NoLeg
  BY Outlives, LegNames, NilAssumption
<1>b. k \in parkedFlag \/ pc[k] = "done" => Claimed(k)
  BY <1>a DEF CInv, Claims
<1>c. Locals /\ Fields /\ Parkers /\ LegsOver
  BY DEF CInv
<1>d. \A j \in Invites \ {i} : Taker(j) => Taker(j)'
  BY Moves, OwnLocals
<1>e. \A j \in Invites : acOf[j] \in Invites /\ pc[j] # "idle" /\ acOf'[j] = acOf[j] =>
          ParksCallee(j)' = ParksCallee(j)
  <2> SUFFICES ASSUME NEW j \in Invites, acOf[j] \in Invites, pc[j] # "idle", acOf'[j] = acOf[j]
               PROVE  ParksCallee(j)' = ParksCallee(j)
    OBVIOUS
  <2>1. pc[acOf[j]] # "idle"
    BY <1>c DEF Fields, Settled, Recorded
  <2> QED
    BY <2>1, Moves DEF ParksCallee, CallerExt
<1>f. ASSUME acOut'[k] = acOut[k] PROVE \A j \in Invites \ {i} : Parker(j) => Parker(j)'
  BY <1>e, <1>f, Moves, OwnLocals
<1>g. Claimed(k) <=> \/ \E e \in Exts : lot[e] = Out(k)
                     \/ \E j \in Invites : Taker(j) \/ Parker(j)
  BY DEF Claimed
<1>h. Claimed(k)' <=> \/ \E e \in Exts : lot'[e] = Out(k)
                      \/ \E j \in Invites : Taker(j)' \/ Parker(j)'
  BY DEF Claimed
<1>i. ASSUME Claimed(k), lot' = lot, acOut'[k] = acOut[k],
             Taker(i) \/ Parker(i) => (Taker(i) \/ Parker(i))'
      PROVE  Claimed(k)'
  BY <1>d, <1>f, <1>g, <1>h, <1>i
<1>j. ASSUME lot' = lot, acOut'[k] = acOut[k], parkedFlag' = parkedFlag, pc[i] \notin Settled,
             Taker(i) \/ Parker(i) => (Taker(i) \/ Parker(i))'
      PROVE  Claimed(k)'
  BY <1>a, <1>b, <1>i, <1>j, Moves
<1>k. ASSUME lot' = lot, acOut' = acOut, parkedFlag' = parkedFlag, pc' = pc, held' = held, acOf' = acOf
      PROVE  Claimed(k)'
  <2>1. Taker(i) => Taker(i)'
    BY <1>k
  <2>2. Parker(i) => Parker(i)'
    BY <1>e, <1>k
  <2> QED
    BY <1>b, <1>i, <1>k, <2>1, <2>2
<1> HIDE DEF Taker, Parker
<1>l. pc[i] \notin {"store", "dropParker", "rAcquire", "rBridge", "rWait"} => ~Taker(i) /\ ~Parker(i)
  BY DEF Taker, Parker
<1>1. CASE \/ Route(i) \/ Link(i) \/ SetConsult(i) \/ Inbound(i) \/ Refuse(i) \/ Acquire(i)
         \/ RingOnlyEnds(i) \/ OutFailed(i)
         \/ Release(i)
  BY <1>j, <1>l, <1>1 DEF Route, Link, SetConsult, Inbound, Refuse, Acquire, RingCallee, RingOnlyEnds, OutFailed, Release, flags, Settled,
     Recorded
<1>2. CASE \/ FindForPark(i) \/ Arm(i) \/ SetTransferReady(i) \/ TransferRefused(i) \/ TransferAcquire(i)
         \/ CompleteTransfer(i)
  BY <1>j, <1>l, <1>2 DEF FindForPark, Arm, SetTransferReady, TransferRefused, TransferAcquire,
     CompleteTransfer, flags, Settled, Recorded
<1>3. CASE TargetFailed(i) \/ HangupTransferor(i) \/ TransferEnds(i) \/ TargetAnswered(i)
  BY <1>j, <1>l, <1>3 DEF TargetFailed, HangupTransferor, TransferEnds, TargetAnswered, flags, Settled,
     Recorded
<1>4. CASE ReferStart(i) \/ ReferAnswered(i) \/ ReferFailed(i) \/ ReferEnds(i)
  BY <1>k, <1>4 DEF ReferStart, ReferAnswered, ReferFailed, ReferEnds, flags, local
<1>5. CASE StartBridge(i)
  <2>1. k \in parkedFlag \/ pc[k] = "done"
    BY <1>5, Moves DEF StartBridge, flags, Goto, TypeOK
  <2> QED
    BY <1>b, <1>i, <1>l, <1>5, <2>1 DEF StartBridge
<1>6. CASE WaitEnds(i)
  <2>1. k \in parkedFlag \/ pc[k] = "done"
    BY <1>6, Moves DEF WaitEnds, flags, Goto, TypeOK
  <2> QED
    BY <1>b, <1>i, <1>l, <1>6, <2>1 DEF WaitEnds
<1>7. CASE Teardown(i)
  <2>1. k \in parkedFlag \/ pc[k] = "done"
    <3>1. k # i => pc'[k] = pc[k]
      BY Moves
    <3>2. k = i => leg[Out(k)] = "up"
      BY <1>a, <1>c, <1>7 DEF Teardown, LegsOver, Recorded, Live
    <3>3. UNCHANGED parkedFlag /\ (k = i /\ leg[Out(k)] = "up" /\ i \notin parkedFlag =>
              leg'[Out(k)] = "abandoned")
      BY <1>a, <1>7 DEF Teardown, flags, Up, Hungup
    <3> QED
      BY <3>1, <3>2, <3>3 DEF Live
  <2> QED
    BY <1>b, <1>i, <1>l, <1>7, <2>1 DEF Teardown
<1>8. CASE StealHeldLeg(i)
  <2>1. /\ pc[i] = "steal" /\ acOf[i] \in Invites /\ UNCHANGED <<lot, acOut, acOf, from>>
        /\ parkedFlag' = parkedFlag \cup {acOf[i]} /\ pc'[i] = "store"
        /\ held'[i] = IF ParksCallee(i) THEN acOut[acOf[i]] ELSE acIn[acOf[i]]
    BY <1>c, <1>8 DEF StealHeldLeg, Locals, Parking, TypeOK, Goto
  <2>2. CASE k \in parkedFlag \/ pc[k] = "done"
    BY <1>b, <1>i, <1>l, <2>1, <2>2
  <2>3. CASE k \notin parkedFlag /\ pc[k] # "done"
    <3>1. acOf[i] = k
      BY <2>1, <2>3, Moves
    <3>2. acOut[k] = Out(k)
      BY <1>a, <1>c, <2>3 DEF Fields, Settled
    <3>3. Taker(i)' \/ Parker(i)'
      <4>1. CASE ParksCallee(i)
        BY <2>1, <3>1, <3>2, <4>1 DEF Taker
      <4>2. CASE ~ParksCallee(i)
        BY <1>e, <2>1, <3>1, <3>2, <4>2 DEF Parker
      <4> QED
        BY <4>1, <4>2
    <3> QED
      BY <1>h, <3>3
  <2> QED
    BY <2>2, <2>3
<1>9. CASE Park(i)
  <2>1. /\ pc[i] = "store" /\ pc'[i] = "dropParker" /\ acOf[i] \in Invites /\ from[i] \in Exts
        /\ UNCHANGED <<parkedFlag, held, acOf, from>>
        /\ lot' = [lot EXCEPT ![from[i]] = held[i]]
        /\ leg' = Hungup({lot[from[i]]})
        /\ ParksCallee(i) => acOut' = [acOut EXCEPT ![acOf[i]] = NoLeg]
        /\ ~ParksCallee(i) => acOut' = acOut
    BY <1>c, <1>9 DEF Park, Locals, Parking, Outside, Settled, Recorded, TypeOK, Goto, flags, local
  <2>2. lot[from[i]] # Out(k)
    BY <1>a, <2>1 DEF Hungup, Live
  <2>3. \A e \in Exts : lot'[e] = IF e = from[i] THEN held[i] ELSE lot[e]
    BY <2>1 DEF TypeOK
  <2>4. Claimed(k)
    BY <1>a, <1>b, <2>1, Moves DEF Settled, Recorded
  <2>5. CASE held[i] = Out(k)
    BY <1>h, <2>1, <2>3, <2>5
  <2>6. CASE held[i] # Out(k)
    <3>1. acOut'[k] = acOut[k]
      <4>1. CASE ParksCallee(i) /\ acOf[i] = k
        BY <1>c, <2>1, <2>6, <4>1 DEF Parkers, TypeOK
      <4>2. CASE ~ParksCallee(i) \/ acOf[i] # k
        BY <2>1, <4>2 DEF TypeOK
      <4> QED
        BY <4>1, <4>2
    <3>2. ~Taker(i)
      BY <2>6 DEF Taker
    <3>3. Parker(i) => Parker(i)'
      BY <1>e, <2>1, <3>1 DEF Parker
    <3> QED
      BY <1>d, <1>f, <1>g, <1>h, <2>2, <2>3, <2>4, <3>1, <3>2, <3>3
  <2> QED
    BY <2>5, <2>6
<1>10. CASE DropParker(i)
  <2>1. /\ UNCHANGED <<lot, acOut, parkedFlag>> /\ pc[i] = "dropParker"
        /\ ~ParksCallee(i) => leg' = Hungup({acOut[acOf[i]], In(i)})
    BY <1>10 DEF DropParker, flags
  <2>2. ~Taker(i)
    BY <2>1 DEF Taker
  <2>3. ~Parker(i)
    BY <1>a, <2>1 DEF Parker, Hungup, Live
  <2> QED
    BY <1>j, <2>1, <2>2, <2>3 DEF Settled, Recorded
<1>11. CASE Retrieve(i)
  <2>1. CASE lot[dial[i].num] = Absent
    BY <1>j, <1>l, <1>11, <2>1 DEF Retrieve, flags, Settled, Recorded
  <2>2. CASE lot[dial[i].num] # Absent
    <3>1. /\ pc[i] = "retrieve" /\ pc'[i] = "rAcquire" /\ dial[i].num \in Exts
          /\ UNCHANGED <<acOut, parkedFlag>>
          /\ held'[i] = lot[dial[i].num] /\ lot' = [lot EXCEPT ![dial[i].num] = Absent]
      BY <1>c, <1>11, <2>2, DialFields DEF Retrieve, TypeOK, Goto, flags, Locals, Retrieving
    <3>2. Claimed(k)
      BY <1>a, <1>b, <3>1, Moves DEF Settled, Recorded
    <3>3. CASE lot[dial[i].num] = Out(k)
      <4>1. Taker(i)'
        BY <3>1, <3>3 DEF Taker
      <4> QED
        BY <1>h, <4>1
    <3>4. CASE lot[dial[i].num] # Out(k)
      <4>1. \A e \in Exts : lot[e] = Out(k) => lot'[e] = Out(k)
        BY <3>1, <3>4 DEF TypeOK
      <4> QED
        BY <1>d, <1>f, <1>g, <1>h, <1>l, <3>1, <3>2, <4>1
    <3> QED
      BY <3>3, <3>4
  <2> QED
    BY <2>1, <2>2
<1>12. CASE RetrieveRefused(i)
  <2>1. /\ UNCHANGED <<lot, acOut, parkedFlag>> /\ pc[i] = "rAcquire"
        /\ leg'[held[i]] \in Live => held[i] \notin Legs
    BY <1>12 DEF RetrieveRefused, flags, Hungup, Live
  <2>2. ~Taker(i) /\ ~Parker(i)
    BY <1>a, <2>1 DEF Taker, Parker
  <2> QED
    BY <1>j, <2>1, <2>2 DEF Settled, Recorded
<1>13. CASE RetrieveAcquire(i)
  <2>1. /\ UNCHANGED <<lot, acOut, parkedFlag, held>> /\ pc[i] = "rAcquire" /\ pc'[i] = "rBridge"
    BY <1>13 DEF RetrieveAcquire, flags, local, Goto, TypeOK
  <2>2. Taker(i) \/ Parker(i) => Taker(i)'
    BY <2>1 DEF Taker, Parker
  <2> QED
    BY <1>j, <2>1, <2>2 DEF Settled, Recorded
<1>14. CASE BridgeParked(i)
  <2>1. /\ UNCHANGED <<lot, acOut, parkedFlag, held>> /\ pc[i] = "rBridge"
        /\ pc'[i] = "rWait" \/ (leg'[held[i]] \in Live => held[i] \notin Legs)
    BY <1>14 DEF BridgeParked, flags, local, Goto, TypeOK, Hungup, Live
  <2>2. Taker(i) \/ Parker(i) => Taker(i)'
    BY <1>a, <2>1 DEF Taker, Parker
  <2> QED
    BY <1>j, <2>1, <2>2 DEF Settled, Recorded
<1>15. CASE RetrieveEnds(i)
  <2>1. /\ UNCHANGED <<lot, acOut, parkedFlag>> /\ pc[i] = "rWait"
        /\ leg'[held[i]] \in Live => held[i] \notin Legs
    BY <1>15 DEF RetrieveEnds, flags, Hungup, Live, PairEnds, Ended
  <2>2. ~Taker(i) /\ ~Parker(i)
    BY <1>a, <2>1 DEF Taker, Parker
  <2> QED
    BY <1>j, <2>1, <2>2 DEF Settled, Recorded
<1>16. CASE OutAnswered(i)
  <2>1. pc[i] = "dialing" /\ acOut' = [acOut EXCEPT ![i] = Out(i)] /\ UNCHANGED <<lot, parkedFlag>>
    BY <1>16 DEF OutAnswered, flags
  <2>2. k # i
    BY <1>a, <2>1 DEF Settled, Recorded
  <2>3. acOut'[k] = acOut[k] /\ pc[i] \notin Settled
    BY <2>1, <2>2 DEF TypeOK, Settled, Recorded
  <2> QED
    BY <1>j, <1>l, <2>1, <2>3
<1>17. ASSUME NEW e \in Exts, NEW d \in Dials, Dial(i, e, d) PROVE Claimed(k)'
  BY <1>j, <1>l, <1>17 DEF Dial, flags, Settled, Recorded
<1>18. ASSUME NEW l \in Legs, PhoneHangup(l) PROVE Claimed(k)'
  BY <1>k, <1>18 DEF PhoneHangup, flags, local
<1>19. ASSUME NEW t \in Exts, TrunkInvite(i, t) PROVE Claimed(k)'
  BY <1>j, <1>l, <1>19 DEF TrunkInvite, flags, Settled, Recorded
<1> QED
  BY <1>1, <1>2, <1>3, <1>4, <1>5, <1>6, <1>7, <1>8, <1>9, <1>10, <1>11, <1>12, <1>13,
     <1>14, <1>15, <1>16, <1>17, <1>18, <1>19
     DEF AnyStep, ServerStep, ReferStep, PhoneStep

-----------------------------------------------------------------------------
(* The theorems *)

\* The server starts without calls, slots and parked parties.
LEMMA Initially == Init => TypeOK /\ CInv
<1> SUFFICES ASSUME Init PROVE TypeOK /\ CInv
  OBVIOUS
<1> USE DEF Init
<1>1. TypeOK
  BY DEF TypeOK, NoDial
<1>2. NoDial.kind = "none"
  BY DEF NoDial
<1>3. Locals /\ Books /\ Retrieved
  BY <1>2 DEF Outside, Settled, Locals, Books, Retrieved, Recorded, WithSlot, Parking, Transferring, Retrieving
<1>4. IndexAgrees /\ Fields /\ Parkers
  BY NilAssumption DEF IndexAgrees, Fields, Parkers, Recorded, Settled, Parking
<1>5. Kept /\ SlotHoldsPeer
  BY NilAssumption, LegNames DEF Kept, KeptLeg, SlotHoldsPeer
<1>6. LegsOver /\ Claims /\ Joined
  BY LegNames DEF LegsOver, Claims, Joined, Live, Recorded, Settled
<1> QED
  BY <1>1, <1>3, <1>4, <1>5, <1>6 DEF CInv

\* A step that changes nothing keeps the invariant.
LEMMA Stutters == TypeOK /\ CInv /\ UNCHANGED vars => (TypeOK /\ CInv)'
<1> SUFFICES ASSUME TypeOK, CInv, UNCHANGED vars PROVE (TypeOK /\ CInv)'
  OBVIOUS
<1>1. TypeOK'
  BY DEF TypeOK, vars, reg, flags, media, local
<1>2. (Locals /\ Books /\ IndexAgrees /\ Fields)'
  BY DEF CInv, vars, reg, flags, local, Locals, Books, IndexAgrees, Fields, CallerExt
<1>3. (Parkers /\ Kept /\ LegsOver)'
  BY DEF CInv, vars, reg, flags, local, Parkers, Kept, KeptLeg, LegsOver, ParksCallee, CallerExt,
     CalleeExt
<1>4. (SlotHoldsPeer /\ Retrieved /\ Claims /\ Joined)'
  BY DEF CInv, vars, reg, flags, media, local, SlotHoldsPeer, Retrieved, Claims, Claimed, Joined,
     ParksCallee, CallerExt, CalleeExt
<1> QED
  BY <1>1, <1>2, <1>3, <1>4 DEF CInv

\* The inductive invariant holds in every reachable state.
THEOREM Inductive == Spec => [](TypeOK /\ CInv)
<1>1. Init => TypeOK /\ CInv
  BY Initially
<1>2. TypeOK /\ CInv /\ [Next]_vars => (TypeOK /\ CInv)'
  <2> SUFFICES ASSUME TypeOK, CInv, [Next]_vars PROVE (TypeOK /\ CInv)'
    OBVIOUS
  <2>1. CASE UNCHANGED vars
    BY <2>1, Stutters
  <2>2. ASSUME NEW i \in Invites, AnyStep(i) PROVE (TypeOK /\ CInv)'
    <3>1. TypeOK'
      BY <2>2, ServerTypes, PhoneTypes DEF AnyStep, CInv
    <3> QED
      BY <2>2, <3>1, LocalsKept, BooksKept, IndexKept, FieldsKept, ParkersKept, KeptKept,
         LegsOverKept, SlotKept, RetrievedKept, ClaimsKept, JoinedKept DEF CInv
  <2> QED
    BY <2>1, <2>2 DEF Next, AnyStep
<1> QED
  BY <1>1, <1>2, PTL DEF Spec

\* All variables of the call handlers keep their types, whatever phones dial
\* and whenever they hang up.
THEOREM Typing == Spec => []TypeOK
BY Inductive, PTL

\* The caller index leads to calls on record only, and to the caller's own
\* (Registry.Register, Unregister).
THEOREM Index == Spec => []IndexAgrees
<1>1. CInv => IndexAgrees
  BY DEF CInv
<1> QED
  BY <1>1, Inductive, PTL

\* A slot of the lot holds the party its extension was talking to
\* (handlePark, StealHeldLeg, ParkLot.Park).
THEOREM SlotPeer == Spec => []SlotHoldsPeer
<1>1. CInv => SlotHoldsPeer
  BY DEF CInv
<1> QED
  BY <1>1, Inductive, PTL

\* No retriever is through while the party it took out of the lot is on the
\* line (ParkLot.Retrieve, BridgeParked, Release).
THEOREM RetrievedReleased == Spec => []RetrievedPartyReleased
<1>1. CInv => RetrievedPartyReleased
  BY DEF CInv, Retrieved, RetrievedPartyReleased
<1> QED
  BY <1>1, Inductive, PTL

\* A call that is over leaves no registry or index entry, no slot of the call
\* manager and no caller's dialog; of a leg that was bridged nothing is left at the
\* phone, unless a park, a retrieve or a transfer holds it.  Legs that are closed
\* without a BYE are therefore always legs whose bridge or whose caller's answer
\* failed (Connect's and handleInvite's deferred calls, however parks, retrieves,
\* transfers, REFERs and hangups fall between them).
THEOREM Clean == Spec => []NothingLeftBehind
<1>1. TypeOK /\ CInv => NothingLeftBehind
  <2> SUFFICES ASSUME TypeOK, CInv PROVE NothingLeftBehind
    OBVIOUS
  <2>a. Joined /\ \A i \in Invites : Out(i) \in Legs
    BY LegNames DEF CInv
  <2>1. ASSUME NEW i \in Invites, pc[i] = "done"
        PROVE  i \notin byDialog /\ i \notin acquired
    BY <2>1 DEF CInv, Books, Recorded, WithSlot
  <2>2. ASSUME NEW i \in Invites, pc[i] = "done", NEW e \in Exts PROVE byExt[e] # i
    BY <2>1, <2>2, NilAssumption DEF CInv, IndexAgrees
  <2>3. ASSUME NEW i \in Invites, pc[i] = "done" PROVE leg[In(i)] \notin Open
    BY <2>a, <2>3 DEF CInv, LegsOver, Joined, Open
  <2>4. ASSUME NEW i \in Invites, pc[i] = "done",
               leg[Out(i)] \in (IF Out(i) \in joined THEN Open ELSE Live)
        PROVE  \/ \E e \in Exts : lot[e] = Out(i)
               \/ \E j \in Invites : pc[j] # "done" /\ (held[j] = Out(i) \/ acOf[j] = i)
    <3>1. leg[Out(i)] \in Live
      BY <2>a, <2>4 DEF Joined, Open
    <3>2. Claimed(i)
      BY <2>4, <3>1 DEF CInv, Claims, Settled
    <3> QED
      BY <3>2 DEF Claimed
  <2>5. ASSUME NEW i \in Invites, rpc[i] = "done", ReferLeg(i) \in joined
        PROVE  leg[ReferLeg(i)] \notin Open
    BY <2>a, <2>5 DEF Joined, Open
  <2> QED
    BY <2>1, <2>2, <2>3, <2>4, <2>5 DEF NothingLeftBehind
<1> QED
  BY <1>1, Inductive, PTL
=============================================================================
