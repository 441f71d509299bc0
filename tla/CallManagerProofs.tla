------------------------- MODULE CallManagerProofs -------------------------
(***************************************************************************)
(* The call manager's accounting and its system-wide limit, proved for any *)
(* finite set of calls, any extensions and any limits, and the proof that  *)
(* it implements CallAdmission.                                            *)
(***************************************************************************)
EXTENDS CallManager, FiniteSetTheorems, TLAPS

(***************************************************************************)
(* The limit is not inductive by itself.  A goroutine that has read the    *)
(* counter must still know a value below the limit when it swaps, and a    *)
(* session must be on record exactly while its goroutine is "active".      *)
(***************************************************************************)
SwapBelowLimit == \A c \in Calls : pc[c] = "cas" => cur[c] < MaxCalls
OnRecord == \A c \in Calls : byID[c] # NoSession <=> pc[c] = "active"
SlotCount == active = Cardinality(Holders) /\ active <= MaxCalls
LegCount ==
    \A p \in Parties \ {NoUser} :
        extCalls[p] = Cardinality(CallerLegs(p)) + Cardinality(CalleeLegs(p))

IInv == TypeOK /\ SwapBelowLimit /\ OnRecord /\ SlotCount /\ LegCount

\* NewManager always ends up with a positive limit.
LEMMA MaxCallsType == MaxCalls \in Nat /\ MaxCalls > 0
  BY LimitsAssumption DEF MaxCalls

\* Every set of calls that the accounting counts is finite.
LEMMA FiniteCalls ==
    ASSUME NEW S \in SUBSET Calls
    PROVE  IsFiniteSet(S) /\ Cardinality(S) \in Nat
  BY CallsAssumption, FS_Subset, FS_CardinalityType

\* One more element and one element less change a cardinality by one.
LEMMA CardinalityStep ==
    ASSUME NEW S \in SUBSET Calls, NEW c \in Calls
    PROVE  /\ c \notin S => Cardinality(S \cup {c}) = Cardinality(S) + 1
           /\ c \in S => /\ Cardinality(S \ {c}) = Cardinality(S) - 1
                         /\ Cardinality(S) > 0
  <1>1. IsFiniteSet(S) /\ Cardinality(S) \in Nat
    BY FiniteCalls
  <1>2. c \notin S => Cardinality(S \cup {c}) = Cardinality(S) + 1
    BY <1>1, FS_AddElement
  <1>3. ASSUME c \in S
        PROVE  Cardinality(S \ {c}) = Cardinality(S) - 1 /\ Cardinality(S) > 0
    <2>1. Cardinality(S \ {c}) = Cardinality(S) - 1
      BY <1>1, <1>3, FS_RemoveElement
    <2>2. Cardinality(S \ {c}) \in Nat
      BY FiniteCalls
    <2> QED BY <1>1, <2>1, <2>2
  <1> QED BY <1>2, <1>3

\* A step that moves one goroutine between two points outside the slot-holding
\* ones, and touches neither counter nor session, keeps the accounting.
LEMMA QuietStep ==
    ASSUME IInv, NEW c \in Calls, NEW p \in Points,
           pc' = [pc EXCEPT ![c] = p],
           pc[c] \notin {"record", "active"}, p \notin {"record", "active"},
           UNCHANGED <<active, byID, extCalls>>
    PROVE  OnRecord' /\ SlotCount' /\ LegCount'
  <1>1. OnRecord'
    BY DEF IInv, TypeOK, OnRecord
  <1>2. Holders' = Holders
    BY DEF IInv, TypeOK, Holders
  <1>3. SlotCount'
    BY <1>2 DEF IInv, SlotCount
  <1>4. LegCount'
    BY DEF IInv, LegCount, CallerLegs, CalleeLegs, Recorded
  <1> QED BY <1>1, <1>3, <1>4

\* The initial state satisfies the inductive invariant.
LEMMA InitInv == Init => IInv
  <1> SUFFICES ASSUME Init PROVE IInv
    OBVIOUS
  <1>1. TypeOK
    BY DEF Init, TypeOK, Points, Session, Parties
  <1>2. SwapBelowLimit /\ OnRecord
    BY DEF Init, SwapBelowLimit, OnRecord
  <1>3. Holders = {} /\ Recorded = {}
    BY DEF Init, Holders, Recorded
  <1>4. SlotCount
    BY <1>3, FS_EmptySet, MaxCallsType DEF Init, SlotCount
  <1>5. LegCount
    BY <1>3, FS_EmptySet DEF Init, LegCount, CallerLegs, CalleeLegs
  <1> QED BY <1>1, <1>2, <1>4, <1>5 DEF IInv

\* Taking a slot: the swap succeeds only on the value that was tested.
LEMMA CompareAndSwapInv ==
    ASSUME IInv, NEW c \in Calls, CompareAndSwap(c)
    PROVE  IInv'
  <1> USE DEF IInv
  <1>1. TypeOK'
    BY DEF TypeOK, CompareAndSwap, Points
  <1>2. SwapBelowLimit'
    BY DEF TypeOK, CompareAndSwap, SwapBelowLimit
  <1>3. CASE active # cur[c]
    <2>1. pc' = [pc EXCEPT ![c] = "load"] /\ pc[c] = "cas"
          /\ UNCHANGED <<active, byID, extCalls>>
      BY <1>3 DEF CompareAndSwap
    <2> QED BY <1>1, <1>2, <2>1, QuietStep DEF Points
  <1>4. CASE active = cur[c]
    <2>1. /\ pc[c] = "cas" /\ pc' = [pc EXCEPT ![c] = "record"]
          /\ active' = active + 1 /\ UNCHANGED <<byID, extCalls>>
      BY <1>4 DEF CompareAndSwap
    <2>2. OnRecord'
      BY <2>1 DEF TypeOK, OnRecord
    <2>3. Holders' = Holders \cup {c} /\ c \notin Holders
      BY <2>1 DEF TypeOK, Holders
    <2>4. Cardinality(Holders') = Cardinality(Holders) + 1
      BY <2>3, CardinalityStep DEF Holders
    <2>5. active < MaxCalls
      BY <1>4, <2>1 DEF SwapBelowLimit
    <2>6. SlotCount'
      BY <2>1, <2>4, <2>5, MaxCallsType DEF SlotCount, TypeOK
    <2>7. LegCount'
      BY <2>1 DEF LegCount, CallerLegs, CalleeLegs, Recorded
    <2> QED BY <1>1, <1>2, <2>2, <2>6, <2>7
  <1> QED BY <1>3, <1>4

\* Putting the session and its two legs on record.
LEMMA RecordInv ==
    ASSUME IInv, NEW c \in Calls, Record(c)
    PROVE  IInv'
  <1> USE DEF IInv
  <1>1. req[c] \in Session /\ req[c].caller \in Parties /\ req[c].callee \in Parties
    BY DEF TypeOK, Session
  <1>2. TypeOK'
    BY <1>1 DEF TypeOK, Record, Points, Incremented
  <1>3. SwapBelowLimit'
    BY DEF TypeOK, Record, SwapBelowLimit
  <1>4. req[c] # NoSession
    BY <1>1, PartiesAssumption
  <1>5. byID[c] = NoSession /\ byID' = [byID EXCEPT ![c] = req[c]]
    BY DEF OnRecord, Record
  <1>6. OnRecord'
    BY <1>4, <1>5 DEF TypeOK, OnRecord, Record
  <1>7. Holders' = Holders
    BY DEF TypeOK, Holders, Record
  <1>8. SlotCount'
    BY <1>7 DEF SlotCount, Record
  <1>9. LegCount'
    <2> SUFFICES ASSUME NEW p \in Parties \ {NoUser}
                 PROVE  extCalls'[p] = Cardinality(CallerLegs(p)')
                                       + Cardinality(CalleeLegs(p)')
      BY DEF LegCount
    <2>1. /\ CallerLegs(p) \in SUBSET Calls /\ c \notin CallerLegs(p)
          /\ CalleeLegs(p) \in SUBSET Calls /\ c \notin CalleeLegs(p)
      BY <1>5 DEF CallerLegs, CalleeLegs, Recorded
    <2>2. CallerLegs(p)' = IF req[c].caller = p THEN CallerLegs(p) \cup {c}
                                                ELSE CallerLegs(p)
      BY <1>4, <1>5 DEF TypeOK, CallerLegs, Recorded
    <2>3. CalleeLegs(p)' = IF req[c].callee = p THEN CalleeLegs(p) \cup {c}
                                                ELSE CalleeLegs(p)
      BY <1>4, <1>5 DEF TypeOK, CalleeLegs, Recorded
    <2>4. /\ Cardinality(CallerLegs(p)') = Cardinality(CallerLegs(p))
                + (IF req[c].caller = p THEN 1 ELSE 0)
          /\ Cardinality(CalleeLegs(p)') = Cardinality(CalleeLegs(p))
                + (IF req[c].callee = p THEN 1 ELSE 0)
      BY <2>1, <2>2, <2>3, CardinalityStep, FiniteCalls
    <2>5. extCalls'[p] = extCalls[p] + (IF req[c].caller = p THEN 1 ELSE 0)
                                     + (IF req[c].callee = p THEN 1 ELSE 0)
      BY <1>1 DEF TypeOK, Record, Incremented
    <2> QED BY <2>1, <2>4, <2>5, FiniteCalls DEF LegCount
  <1> QED BY <1>2, <1>3, <1>6, <1>8, <1>9

\* Giving everything back: no count reaches the floor of Decremented early.
LEMMA ReleaseInv ==
    ASSUME IInv, NEW c \in Calls, Release(c)
    PROVE  IInv'
  <1> USE DEF IInv
  <1>1. /\ byID[c] \in Session
        /\ byID[c].caller \in Parties /\ byID[c].callee \in Parties
    BY DEF TypeOK, Release, Session
  <1>2. Holders' = Holders \ {c} /\ c \in Holders
    BY DEF TypeOK, Holders, Release
  <1>3. Cardinality(Holders') = Cardinality(Holders) - 1 /\ Cardinality(Holders) > 0
    BY <1>2, CardinalityStep DEF Holders
  <1>4. SlotCount'
    BY <1>3, MaxCallsType DEF SlotCount, Release, TypeOK
  <1>5. TypeOK'
    <2>1. active' \in Nat
      BY <1>3 DEF SlotCount, Release, TypeOK
    <2>2. extCalls' \in [Parties -> Nat]
      BY <1>1 DEF TypeOK, Release, Decremented
    <2> QED BY <2>1, <2>2 DEF TypeOK, Release, Points
  <1>6. SwapBelowLimit'
    BY DEF TypeOK, Release, SwapBelowLimit
  <1>7. OnRecord'
    BY DEF TypeOK, OnRecord, Release
  <1>8. LegCount'
    <2> SUFFICES ASSUME NEW p \in Parties \ {NoUser}
                 PROVE  extCalls'[p] = Cardinality(CallerLegs(p)')
                                       + Cardinality(CalleeLegs(p)')
      BY DEF LegCount
    <2> DEFINE a == IF byID[c].caller = p THEN 1 ELSE 0
               b == IF byID[c].callee = p THEN 1 ELSE 0
    <2>1. /\ CallerLegs(p) \in SUBSET Calls
          /\ CalleeLegs(p) \in SUBSET Calls
          /\ c \in CallerLegs(p) <=> byID[c].caller = p
          /\ c \in CalleeLegs(p) <=> byID[c].callee = p
      BY DEF CallerLegs, CalleeLegs, Recorded, Release
    <2>2. /\ CallerLegs(p)' = CallerLegs(p) \ {c}
          /\ CalleeLegs(p)' = CalleeLegs(p) \ {c}
      BY DEF TypeOK, CallerLegs, CalleeLegs, Recorded, Release
    <2>3. /\ Cardinality(CallerLegs(p)') = Cardinality(CallerLegs(p)) - a
          /\ Cardinality(CallerLegs(p)) >= a
      <3>1. CASE byID[c].caller = p
        BY <2>1, <2>2, <3>1, CardinalityStep, FiniteCalls
      <3>2. CASE byID[c].caller # p
        <4>1. CallerLegs(p)' = CallerLegs(p)
          BY <2>1, <2>2, <3>2
        <4> QED BY <2>1, <3>2, <4>1, FiniteCalls
      <3> QED BY <3>1, <3>2
    <2>4. /\ Cardinality(CalleeLegs(p)') = Cardinality(CalleeLegs(p)) - b
          /\ Cardinality(CalleeLegs(p)) >= b
      <3>1. CASE byID[c].callee = p
        BY <2>1, <2>2, <3>1, CardinalityStep, FiniteCalls
      <3>2. CASE byID[c].callee # p
        <4>1. CalleeLegs(p)' = CalleeLegs(p)
          BY <2>1, <2>2, <3>2
        <4> QED BY <2>1, <3>2, <4>1, FiniteCalls
      <3> QED BY <3>1, <3>2
    <2>5. /\ extCalls[p] \in Nat
          /\ extCalls[p] = Cardinality(CallerLegs(p)) + Cardinality(CalleeLegs(p))
          /\ Cardinality(CallerLegs(p)) \in Nat /\ Cardinality(CalleeLegs(p)) \in Nat
      BY <2>1, FiniteCalls DEF TypeOK, LegCount
    <2>6. extCalls[p] >= a + b
      BY <2>3, <2>4, <2>5
    <2>7. extCalls'[p] = extCalls[p] - (a + b)
      <3>1. extCalls \in [Parties -> Nat] /\ p \in Parties /\ p # NoUser
        BY DEF TypeOK
      <3>2. Decremented(extCalls, byID[c].caller) \in [Parties -> Nat]
        BY <1>1, <3>1 DEF Decremented
      <3>3. Decremented(extCalls, byID[c].caller)[p] = extCalls[p] - a
        BY <1>1, <3>1, <2>6 DEF Decremented
      <3>4. Decremented(Decremented(extCalls, byID[c].caller), byID[c].callee)[p]
              = extCalls[p] - a - b
        BY <1>1, <3>1, <3>2, <3>3, <2>6 DEF Decremented
      <3> QED BY <3>1, <3>4 DEF Release
    <2> QED BY <2>3, <2>4, <2>5, <2>6, <2>7
  <1> QED BY <1>4, <1>5, <1>6, <1>7, <1>8
\* Every step of the specification keeps the inductive invariant.
LEMMA NextInv == IInv /\ [Next]_vars => IInv'
  <1> SUFFICES ASSUME IInv, [Next]_vars PROVE IInv'
    OBVIOUS
  <1>1. ASSUME NEW c \in Calls, NEW r \in Requests, Invite(c, r)
        PROVE  IInv'
    <2>1. OnRecord' /\ SlotCount' /\ LegCount'
      BY <1>1, QuietStep DEF Invite, Points
    <2>2. TypeOK'
      BY <1>1, PartiesAssumption DEF IInv, TypeOK, Invite, Points
    <2>3. SwapBelowLimit'
      BY <1>1 DEF IInv, TypeOK, SwapBelowLimit, Invite
    <2> QED BY <2>1, <2>2, <2>3 DEF IInv
  <1>2. ASSUME NEW c \in Calls, CheckCaller(c) \/ CheckCallee(c) \/ Load(c)
        PROVE  IInv'
    <2>1. OnRecord' /\ SlotCount' /\ LegCount'
      <3>1. PICK p \in {"callee", "load", "cas", "rejected"} :
                pc' = [pc EXCEPT ![c] = p]
        BY <1>2 DEF CheckCaller, CheckCallee, Load
      <3>2. pc[c] \in {"caller", "callee", "load"}
            /\ UNCHANGED <<active, byID, extCalls>>
        BY <1>2 DEF CheckCaller, CheckCallee, Load
      <3> QED BY <3>1, <3>2, QuietStep DEF Points
    <2>2. TypeOK'
      BY <1>2 DEF IInv, TypeOK, CheckCaller, CheckCallee, Load, Points
    <2>3. SwapBelowLimit'
      BY <1>2, MaxCallsType
      DEF IInv, TypeOK, SwapBelowLimit, CheckCaller, CheckCallee, Load
    <2> QED BY <2>1, <2>2, <2>3 DEF IInv
  <1>3. ASSUME NEW c \in Calls, InboundTrunk(c) \/ EndTrunkCall(c)
        PROVE  IInv'
    <2>1. OnRecord' /\ SlotCount' /\ LegCount'
      BY <1>3, QuietStep DEF InboundTrunk, EndTrunkCall, Points
    <2>2. TypeOK' /\ SwapBelowLimit'
      BY <1>3 DEF IInv, TypeOK, SwapBelowLimit, InboundTrunk, EndTrunkCall, Points
    <2> QED BY <2>1, <2>2 DEF IInv
  <1>4. CASE UNCHANGED vars
    BY <1>4 DEF vars, IInv, TypeOK, SwapBelowLimit, OnRecord, SlotCount,
                LegCount, Holders, CallerLegs, CalleeLegs, Recorded
  <1> QED
    BY <1>1, <1>2, <1>3, <1>4, CompareAndSwapInv, RecordInv, ReleaseInv
    DEF Next, TryAcquire

\* The inductive invariant holds in every reachable state.
THEOREM Invariance == Spec => []IInv
  BY InitInv, NextInv, PTL DEF Spec

\* Types: in particular no counter of the manager ever becomes negative.
THEOREM Typing == Spec => []TypeOK
  <1>1. IInv => TypeOK
    BY DEF IInv
  <1> QED BY <1>1, Invariance, PTL

\* TryAcquire never lets more than max_calls calls hold a slot, for any
\* number of goroutines racing in its compare-and-swap loop.
THEOREM SystemLimit == Spec => []WithinSystemLimit
  <1>1. IInv => WithinSystemLimit
    BY DEF IInv, SlotCount, WithinSystemLimit
  <1> QED BY <1>1, Invariance, PTL

\* TryAcquire and Release never lose a slot or a count, nor return one twice.
THEOREM Accounting == Spec => []CountersMatchSessions
  <1>1. IInv => CountersMatchSessions
    BY DEF IInv, SlotCount, LegCount, CountersMatchSessions
  <1> QED BY <1>1, Invariance, PTL

\* The racing goroutines implement the one-step admission of CallAdmission.
THEOREM Refinement == Spec => ImplementsAdmission
  <1>1. Init => Admission!AInit
    BY DEF Init, Admission!AInit, Holders
  <1>2. IInv /\ [Next]_vars => [Admission!ANext]_(Admission!avars)
    <2> SUFFICES ASSUME IInv, [Next]_vars
                 PROVE  Admission!ANext \/ UNCHANGED Admission!avars
      OBVIOUS
    <2> DEFINE Done == {c \in Calls : pc[c] = "done"}
    <2>1. ASSUME NEW c \in Calls, CompareAndSwap(c), active = cur[c]
          PROVE  Admission!Admit(c)
      <3>1. pc[c] = "cas" /\ pc' = [pc EXCEPT ![c] = "record"]
            /\ active < MaxCalls
        BY <2>1 DEF CompareAndSwap, IInv, SwapBelowLimit
      <3>2. Cardinality(Holders) < MaxCalls
        BY <3>1 DEF IInv, SlotCount
      <3>3. c \notin Holders \cup Done
        BY <3>1 DEF Holders
      <3>4. Holders' = Holders \cup {c} /\ Done' = Done
        BY <3>1 DEF IInv, TypeOK, Holders
      <3>5. Admission!Cardinality(Holders) = Cardinality(Holders)
        BY DEF Admission!Cardinality, Cardinality
      <3> QED BY <3>2, <3>3, <3>4, <3>5 DEF Admission!Admit
    <2>2. ASSUME NEW c \in Calls, Release(c)
          PROVE  Admission!GiveBack(c)
      <3>1. pc[c] = "active" /\ pc' = [pc EXCEPT ![c] = "done"]
        BY <2>2 DEF Release
      <3>2. c \in Holders /\ Holders' = Holders \ {c} /\ Done' = Done \cup {c}
        BY <3>1 DEF IInv, TypeOK, Holders
      <3> QED BY <3>2 DEF Admission!GiveBack
    <2>3. ASSUME NEW c \in Calls,
                 \/ \E r \in Requests : Invite(c, r)
                 \/ CheckCaller(c) \/ CheckCallee(c) \/ Load(c) \/ Record(c)
                 \/ CompareAndSwap(c) /\ active # cur[c]
                 \/ InboundTrunk(c) \/ EndTrunkCall(c)
          PROVE  UNCHANGED Admission!avars
      <3>1. Holders' = Holders /\ Done' = Done
        BY <2>3 DEF IInv, TypeOK, Holders, Invite, CheckCaller, CheckCallee,
                    Load, Record, CompareAndSwap, InboundTrunk, EndTrunkCall
      <3> QED BY <3>1 DEF Admission!avars
    <2>4. CASE UNCHANGED vars
      BY <2>4 DEF vars, Admission!avars, Holders
    <2> QED
      BY <2>1, <2>2, <2>3, <2>4 DEF Next, TryAcquire, Admission!ANext
  <1> QED
    BY <1>1, <1>2, Invariance, PTL DEF Spec, ImplementsAdmission, Admission!ASpec
=============================================================================
