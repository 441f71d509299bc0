----------------------------- MODULE HoldProofs -----------------------------
(***************************************************************************)
(* What HoldControl guarantees for any number of goroutines and of         *)
(* re-INVITEs: nothing is played into a call that is not on hold.          *)
(***************************************************************************)
EXTENDS HoldControl, FiniteSetTheorems, TLAPS

\* The types of the flags, of the other goroutines and of the entry.
Flags == [HoldActive : BOOLEAN, holder : Legs \cup {NoLeg},
          holdEntering : BOOLEAN, holdEnterAborted : BOOLEAN,
          holderPhoneHold : BOOLEAN, holderSawRecvonly : BOOLEAN,
          holderLegHeld : BOOLEAN, prevHeld : BOOLEAN,
          holderReasserting : BOOLEAN, dialTonePending : BOOLEAN,
          pendingHold : Legs \cup {NoLeg}, bridgeReady : BOOLEAN,
          heldPartyMOHSendonly : BOOLEAN, holdMediaRoot : BOOLEAN,
          bridgeStop : BOOLEAN]
Work == [job : Jobs, at : Points, leg : Legs \cup {NoLeg},
         holder : Legs \cup {NoLeg}, flag : BOOLEAN, rounds : 0..WatchRounds]
Steps == [at : {"idle", "seed", "stop", "root", "media", "clear"},
          leg : Legs \cup {NoLeg},
          tone : {"-", "wait", "pend", "enable", "override", "stale",
                  "reinvite", "start", "unpendOK", "unpendFail", "ok", "fail"},
          moh : {"-", "enable", "reinvite", "check", "start", "ok", "fail"}]

-----------------------------------------------------------------------------
(* The inductive invariant *)

\* A goroutine inside enter() has the holder's leg and has set holdEntering.
Entering ==
    /\ entry.at # "idle" => entry.leg \in Legs /\ ac.holdEntering
    /\ entry.at = "idle" => entry.tone = "-" /\ entry.moh = "-"

\* All other goroutines have a leg too, except those that restart the bridge.
HasLeg(w) == w.leg \in Legs \/ (/\ w.job \in {"free", "restart", "ensure"}
                                /\ w.at \in {"-", "start", "unheld", "recheck", "wait"})
Located == \A s \in Slots : HasLeg(go[s])

\* What plays does so under a context that is not cancelled.  There is one only
\* in a hold or in the part of enter() that starts the playback, and a watchdog
\* that has captured a context has this one.
Captured(w) == w.job = "watch" /\ w.flag
Playing ==
    /\ media # {} => live
    /\ live => ended = "no" /\ (ac.HoldActive \/ entry.at = "media")
    /\ \A s \in Slots : Captured(go[s]) => live

HInv == Entering /\ Located /\ Playing /\ left \in [Legs -> Nat]
-----------------------------------------------------------------------------
(* Operators *)

\* The two legs of a call.
LEMMA OtherLeg == \A x : Other(x) \in Legs
BY DEF Other, Legs

\* Whatever a re-INVITE of the server comes to is a direction.
LEMMA ResultTypes ==
    ASSUME TypeOK, NEW x \in Legs
    PROVE  \A r \in HoldResults(x) \cup UnholdResults(x) \cup HeldPartyResults(x) :
              r[1] \in Directions
<1>1. dir[x] \in Directions
  BY DEF TypeOK
<1>2. \A d \in Directions, b \in BOOLEAN : <<d, b>>[1] \in Directions
  OBVIOUS
<1>3. /\ {"sendonly", "inactive", "sendrecv", "recvonly"} \subseteq Directions
      /\ TRUE \in BOOLEAN /\ FALSE \in BOOLEAN
  BY DEF Directions
<1>4. \A r \in HoldResults(x) \cup UnholdResults(x) : r[1] \in Directions
  <2> SUFFICES ASSUME NEW r \in HoldResults(x) \cup UnholdResults(x)
               PROVE  \E d \in Directions, b \in BOOLEAN : r = <<d, b>>
    BY <1>2
  <2>1. r \in {<<"sendonly", TRUE>>, <<"inactive", TRUE>>, <<dir[x], FALSE>>,
               <<"sendrecv", TRUE>>, <<"recvonly", TRUE>>}
    BY DEF HoldResults, UnholdResults, Unanswered
  <2> QED
    BY <1>1, <1>3, <2>1
<1> QED
  BY <1>4 DEF HeldPartyResults

\* What Spawn starts.
Fresh(j, x) == [Free EXCEPT !.job = j, !.at = "start", !.leg = x]

\* A goroutine that starts has its job, and nothing captured.
LEMMA FreshWork ==
    /\ Free \in Work /\ HasLeg(Free) /\ ~Captured(Free)
    /\ \A j \in Jobs, x \in Legs \cup {NoLeg} : x \in Legs \/ j \in {"restart", "ensure"} =>
          Fresh(j, x) \in Work /\ HasLeg(Fresh(j, x)) /\ ~Captured(Fresh(j, x))
<1>1. Free \in Work /\ HasLeg(Free) /\ ~Captured(Free)
  BY HoldAssumption DEF Free, Work, HasLeg, Captured, Jobs, Points
<1>2. ASSUME NEW j \in Jobs, NEW x \in Legs \cup {NoLeg}, x \in Legs \/ j \in {"restart", "ensure"}
      PROVE  Fresh(j, x) \in Work /\ HasLeg(Fresh(j, x)) /\ ~Captured(Fresh(j, x))
  <2>1. Fresh(j, x) \in Work
    BY <1>1 DEF Fresh, Work, Points
  <2>2. /\ Fresh(j, x).job = j /\ Fresh(j, x).at = "start"
        /\ Fresh(j, x).leg = x /\ Fresh(j, x).flag = FALSE
    BY DEF Free, Fresh
  <2> QED
    BY <1>2, <2>1, <2>2 DEF HasLeg, Captured
<1> QED
  BY <1>1, <1>2

\* Spawn changes no goroutine that runs.
LEMMA Spawned ==
    ASSUME NEW g \in [Slots -> Work], NEW j, NEW x, Fresh(j, x) \in Work
    PROVE  /\ Spawn(g, j, x) \in [Slots -> Work]
           /\ \A t \in Slots : Spawn(g, j, x)[t] \in {g[t], Fresh(j, x)}
BY DEF Spawn, Fresh

-----------------------------------------------------------------------------
(* The flags *)

\* The flags are assigned one at a time.
LEMMA FlagSet ==
    ASSUME NEW a \in Flags, NEW b \in BOOLEAN, NEW x \in Legs \cup {NoLeg}
    PROVE  /\ [a EXCEPT !.prevHeld = b] \in Flags
           /\ [a EXCEPT !.holderSawRecvonly = b] \in Flags
           /\ [a EXCEPT !.holderPhoneHold = b] \in Flags
           /\ [a EXCEPT !.holdEntering = b] \in Flags
           /\ [a EXCEPT !.holdEnterAborted = b] \in Flags
           /\ [a EXCEPT !.bridgeStop = b] \in Flags
           /\ [a EXCEPT !.holderReasserting = b] \in Flags
           /\ [a EXCEPT !.holdMediaRoot = b] \in Flags
           /\ [a EXCEPT !.holder = x] \in Flags
<1>1. [a EXCEPT !.prevHeld = b] \in Flags
  BY DEF Flags
<1>2. [a EXCEPT !.holderSawRecvonly = b] \in Flags
  BY DEF Flags
<1>3. [a EXCEPT !.holderPhoneHold = b] \in Flags
  BY DEF Flags
<1>4. [a EXCEPT !.holdEntering = b] \in Flags
  BY DEF Flags
<1>5. [a EXCEPT !.holdEnterAborted = b] \in Flags
  BY DEF Flags
<1>6. [a EXCEPT !.bridgeStop = b] \in Flags
  BY DEF Flags
<1>7. [a EXCEPT !.holderReasserting = b] \in Flags
  BY DEF Flags
<1>8. [a EXCEPT !.holdMediaRoot = b] \in Flags
  BY DEF Flags
<1>9. [a EXCEPT !.holder = x] \in Flags
  BY DEF Flags
<1> QED
  BY <1>1, <1>2, <1>3, <1>4, <1>5, <1>6, <1>7, <1>8, <1>9

\* What leave() and a failed entry make of the flags, and a start of the bridge.
LEMMA FlagOps ==
    ASSUME NEW a \in Flags
    PROVE  /\ Cleared(a) \in Flags /\ Forget(a) \in Flags
           /\ [a EXCEPT !.HoldActive = FALSE] \in Flags
           /\ [a EXCEPT !.HoldActive = FALSE, !.bridgeStop = FALSE] \in Flags
           /\ [a EXCEPT !.dialTonePending = FALSE] \in Flags
           /\ \A x \in Legs : [a EXCEPT !.pendingHold = x] \in Flags
           /\ recoverBridge(a) => ac' \in Flags
<1>1. Cleared(a) \in Flags
  BY DEF Cleared, Flags
<1>2. Forget(a) \in Flags
  <2>1. Cleared(a) \in Flags
    BY <1>1
  <2>2. \A c \in Flags : [c EXCEPT !.prevHeld = FALSE, !.holderReasserting = FALSE,
                                      !.holdMediaRoot = FALSE, !.holder = NoLeg] \in Flags
    <3> SUFFICES ASSUME NEW c \in Flags
                 PROVE  [[[[c EXCEPT !.prevHeld = FALSE] EXCEPT !.holderReasserting = FALSE]
                            EXCEPT !.holdMediaRoot = FALSE] EXCEPT !.holder = NoLeg] \in Flags
      BY Zenon
    <3>1. FALSE \in BOOLEAN /\ NoLeg \in Legs \cup {NoLeg}
      OBVIOUS
    <3> QED
      BY <3>1, FlagSet, Zenon
  <2> HIDE DEF Cleared
  <2> QED
    BY <2>1, <2>2 DEF Forget
<1>3. /\ [a EXCEPT !.HoldActive = FALSE] \in Flags
      /\ [a EXCEPT !.HoldActive = FALSE, !.bridgeStop = FALSE] \in Flags
      /\ [a EXCEPT !.dialTonePending = FALSE] \in Flags
  BY DEF Flags
<1>4. \A x \in Legs : [a EXCEPT !.pendingHold = x] \in Flags
  BY DEF Flags
<1>5. recoverBridge(a) => ac' \in Flags
  BY DEF recoverBridge, Flags
<1> QED
  BY <1>1, <1>2, <1>3, <1>4, <1>5

\* What a re-INVITE of the holder makes of them.
LEMMA SeenFlags ==
    ASSUME NEW a \in Flags, NEW p \in BOOLEAN, NEW q \in BOOLEAN
    PROVE  /\ [a EXCEPT !.prevHeld = p, !.holderSawRecvonly = @ \/ q] \in Flags
           /\ [a EXCEPT !.prevHeld = p, !.holderSawRecvonly = @ \/ q,
                        !.holderPhoneHold = @ \/ q] \in Flags
<1>1. /\ a.holderSawRecvonly \in BOOLEAN /\ a.holderPhoneHold \in BOOLEAN
      /\ (a.holderSawRecvonly \/ q) \in BOOLEAN /\ (a.holderPhoneHold \/ q) \in BOOLEAN
  BY DEF Flags
<1>2. \A b, c \in BOOLEAN : /\ [a EXCEPT !.prevHeld = p, !.holderSawRecvonly = b] \in Flags
                            /\ [a EXCEPT !.prevHeld = p, !.holderSawRecvonly = b,
                                         !.holderPhoneHold = c] \in Flags
  <2> SUFFICES ASSUME NEW b \in BOOLEAN, NEW c \in BOOLEAN
               PROVE  LET v == [[a EXCEPT !.prevHeld = p] EXCEPT !.holderSawRecvonly = b]
                      IN  v \in Flags /\ [v EXCEPT !.holderPhoneHold = c] \in Flags
    BY Zenon
  <2>1. NoLeg \in Legs \cup {NoLeg}
    OBVIOUS
  <2> QED
    BY <2>1, FlagSet, Zenon
<1> QED
  BY <1>1, <1>2, Zenon

\* All writers of the ActiveCall keep the types of its fields.
LEMMA FlagsKept ==
    ASSUME TypeOK, HInv, Next
    PROVE  ac' \in Flags
<1>a. ac \in Flags /\ entry.leg \in Legs \cup {NoLeg} /\ go \in [Slots -> Work]
  BY DEF TypeOK, Flags, Work
<1> DEFINE Goal == ac' \in Flags
<1> SUFFICES Goal
  OBVIOUS
<1> USE <1>a
<1>1. CASE markBridgeReady
  BY <1>1 DEF markBridgeReady, Flags
<1>2. CASE EndCall
  BY <1>2 DEF EndCall
<1>3. ASSUME NEW x \in Legs, NEW d \in PhoneDirs, Reinvite(x, d) PROVE Goal
  BY <1>3 DEF Reinvite
<1>4. CASE \/ StopForHold \/ MohEnable \/ MohCheck
  BY <1>4, <1>a DEF StopForHold, MohEnable, MohCheck
<1>5. CASE seedHolderHoldDirection
  <2>1. /\ (dir[entry.leg] \in {"recvonly", "inactive"}) \in BOOLEAN
        /\ remoteHoldMode(dir[entry.leg]) \in BOOLEAN
    BY DEF remoteHoldMode
  <2>2. ac' = [ac EXCEPT !.prevHeld = dir[entry.leg] \in {"recvonly", "inactive"},
                         !.holderSawRecvonly = @ \/ remoteHoldMode(dir[entry.leg])]
    BY <1>5 DEF seedHolderHoldDirection
  <2> QED
    BY <1>a, <2>1, <2>2, SeenFlags, Zenon
<1>6. CASE StartHoldMedia
  BY <1>6 DEF StartHoldMedia, Flags
<1>7. CASE ToneWait
  <2>1. [ac EXCEPT !.holderPhoneHold = TRUE, !.holderSawRecvonly = TRUE] \in Flags
    BY DEF Flags
  <2>2. ac' = ac \/ ac' = [ac EXCEPT !.holderPhoneHold = TRUE, !.holderSawRecvonly = TRUE]
    BY <1>7 DEF ToneWait
  <2> QED
    BY <2>1, <2>2
<1>8. CASE TonePending
  BY <1>8 DEF TonePending, Flags
<1>9. CASE ToneEnable
  BY <1>9 DEF ToneEnable, Flags
<1>10. CASE ToneOverride
  BY <1>10 DEF ToneOverride, Flags
<1>11. CASE ToneReinvite
  BY <1>11 DEF ToneReinvite, Flags
<1>12. CASE ToneStart
  BY <1>12 DEF ToneStart, Flags
<1>13. CASE ToneDone
  BY <1>13 DEF ToneDone, Flags
<1>14. CASE MohReinvite
  <2>1. CASE UNCHANGED ac
    BY <2>1
  <2>2. CASE \E b \in BOOLEAN : ac' = [ac EXCEPT !.heldPartyMOHSendonly = b]
    BY <1>a, <2>2 DEF Flags
  <2>3. \A r : MOHSendonly(r) \in BOOLEAN
    BY DEF MOHSendonly
  <2> QED
    BY <1>14, <2>1, <2>2, <2>3 DEF MohReinvite
<1>15. CASE MohStart
  BY <1>15 DEF MohStart, Flags
<1>16. CASE Entered
  <2>1. Cleared(ac) \in Flags /\ [Cleared(ac) EXCEPT !.dialTonePending = FALSE] \in Flags
    BY <1>a, FlagOps
  <2>2. \/ recoverBridge([Cleared(ac) EXCEPT !.dialTonePending = FALSE])
        \/ recoverBridge(Cleared(ac))
        \/ ac' = [ac EXCEPT !.HoldActive = TRUE, !.holder = entry.leg]
    BY <1>16 DEF Entered
  <2>3. [ac EXCEPT !.HoldActive = TRUE, !.holder = entry.leg] \in Flags
    BY <1>a DEF Flags
  <2> QED
    BY <2>1, <2>2, <2>3, FlagOps
<1>17. CASE EnterCleared
  BY <1>17 DEF EnterCleared, Flags
<1>18. ASSUME NEW s \in Slots,
           \/ LeaveLastWait(s) \/ restartBridgeIfNeeded(s) \/ ensureBridgeAfterHoldAbort(s)
           \/ startHoldMediaWatchdog(s) \/ RestartTone(s) \/ restartHeldPartyMOH(s)
           \/ RestartMohCheck(s)
    PROVE  Goal
  BY <1>18, <1>a DEF LeaveLastWait, restartBridgeIfNeeded, ensureBridgeAfterHoldAbort,
     startHoldMediaWatchdog, RestartTone, restartHeldPartyMOH, RestartMohCheck
<1>19. ASSUME NEW s \in Slots, onMediaUpdate(s) PROVE Goal
  <2>1. go[s].leg \in Legs
    BY <1>19 DEF onMediaUpdate, HInv, Located, HasLeg
  <2>2. CASE HolderUpdate(s, go[s].leg)
    <3>1. /\ (dir[go[s].leg] \in {"recvonly", "inactive"}) \in BOOLEAN
          /\ remoteHoldMode(dir[go[s].leg]) \in BOOLEAN
      BY DEF remoteHoldMode
    <3>2. noteHolderHoldDirection(go[s].leg) \in Flags
      BY <1>a, <3>1, SeenFlags, Zenon DEF noteHolderHoldDirection
    <3> QED
      BY <1>a, <2>2, <3>2 DEF HolderUpdate
  <2>3. CASE HeldPartyUpdate(s, go[s].leg)
    BY <2>3 DEF HeldPartyUpdate
  <2>4. CASE PlainUpdate(s, go[s].leg)
    BY <2>4 DEF PlainUpdate
  <2> QED
    BY <1>19, <2>2, <2>3, <2>4 DEF onMediaUpdate
<1>20. ASSUME NEW s \in Slots, enter(s) PROVE Goal
  <2>1. [ac EXCEPT !.holdEntering = TRUE, !.holderPhoneHold = TRUE,
                   !.holdEnterAborted = FALSE, !.bridgeStop = FALSE] \in Flags
    <3>1. TRUE \in BOOLEAN /\ FALSE \in BOOLEAN /\ NoLeg \in Legs \cup {NoLeg}
      OBVIOUS
    <3>2. [[[[ac EXCEPT !.holdEntering = TRUE] EXCEPT !.holderPhoneHold = TRUE]
             EXCEPT !.holdEnterAborted = FALSE] EXCEPT !.bridgeStop = FALSE] \in Flags
      BY <1>a, <3>1, FlagSet, Zenon
    <3> QED
      BY <3>2, Zenon
  <2> QED
    BY <1>20, <2>1 DEF enter
<1>21. ASSUME NEW s \in Slots, leave(s) PROVE Goal
  BY <1>21, FlagOps DEF leave
<1>22. ASSUME NEW s \in Slots, LeaveStopped(s) PROVE Goal
  BY <1>22, FlagOps DEF LeaveStopped
<1>23. ASSUME NEW s \in Slots, LeaveUnhold(s) PROVE Goal
  BY <1>23 DEF LeaveUnhold, Flags
<1>24. ASSUME NEW s \in Slots, LeaveUnholdHeldParty(s) PROVE Goal
  BY <1>24 DEF LeaveUnholdHeldParty, Flags
<1>25. ASSUME NEW s \in Slots, LeaveWait(s) PROVE Goal
  BY <1>25 DEF LeaveWait, Flags
<1>26. ASSUME NEW s \in Slots, LeaveBridge(s) PROVE Goal
  BY <1>26, FlagOps DEF LeaveBridge
<1>27. ASSUME NEW s \in Slots, RestartBridge(s) PROVE Goal
  BY <1>27, FlagOps DEF RestartBridge
<1>28. ASSUME NEW s \in Slots, EnsureBridge(s) PROVE Goal
  BY <1>28, FlagOps DEF EnsureBridge
<1>29. ASSUME NEW s \in Slots, reassertHolderHold(s) PROVE Goal
  <2>1. [ac EXCEPT !.holderReasserting = TRUE] \in Flags
    <3>1. TRUE \in BOOLEAN /\ NoLeg \in Legs \cup {NoLeg}
      OBVIOUS
    <3> QED
      BY <1>a, <3>1, FlagSet, Zenon
  <2> QED
    BY <1>29, <2>1 DEF reassertHolderHold
<1>30. ASSUME NEW s \in Slots, EnableHolder(s) PROVE Goal
  BY <1>30 DEF EnableHolder, Flags
<1>31. ASSUME NEW s \in Slots, OverrideHolder(s) PROVE Goal
  BY <1>31 DEF OverrideHolder, Flags
<1>32. ASSUME NEW s \in Slots, ReinviteHolder(s) PROVE Goal
  <2>1. [ac EXCEPT !.holderLegHeld = TRUE] \in Flags
    BY DEF Flags
  <2>2. ac' = ac \/ ac' = [ac EXCEPT !.holderLegHeld = TRUE]
    BY <1>32 DEF ReinviteHolder
  <2> QED
    BY <2>1, <2>2
<1>33. ASSUME NEW s \in Slots, Reasserted(s) PROVE Goal
  BY <1>33 DEF Reasserted, Flags
<1>34. ASSUME NEW s \in Slots, RestartMohReinvite(s) PROVE Goal
  <2>2. \A r : MOHSendonly(r) \in BOOLEAN
    BY DEF MOHSendonly
  <2>3. PICK b \in BOOLEAN : ac' = [ac EXCEPT !.heldPartyMOHSendonly = b]
    BY <1>34, <2>2 DEF RestartMohReinvite
  <2> QED
    BY <1>a, <2>3 DEF Flags
<1>35. ASSUME NEW s \in Slots, RestartMoh(s) PROVE Goal
  BY <1>35 DEF RestartMoh, Flags
<1>36. ASSUME NEW s \in Slots, abortHoldEntry(s) PROVE Goal
  BY <1>36 DEF abortHoldEntry, Flags
<1>37. ASSUME NEW s \in Slots, ForgetStuckHold(s) PROVE Goal
  BY <1>37, FlagOps DEF ForgetStuckHold
<1>38. ASSUME NEW s \in Slots, HoldOrDefer(s) PROVE Goal
  BY <1>38 DEF HoldOrDefer
<1>39. ASSUME NEW s \in Slots, recordPendingHold(s) PROVE Goal
  <2>1. go[s].leg \in Legs
    BY <1>39 DEF recordPendingHold, HInv, Located, HasLeg
  <2> QED
    BY <1>39, <2>1, FlagOps DEF recordPendingHold
<1> QED
  BY <1>1, <1>2, <1>3, <1>4, <1>5, <1>6, <1>7, <1>8, <1>9, <1>10, <1>11, <1>12, <1>13,
     <1>14, <1>15, <1>16, <1>17, <1>18, <1>19, <1>20, <1>21, <1>22, <1>23, <1>24,
     <1>25, <1>26, <1>27, <1>28, <1>29, <1>30, <1>31, <1>32, <1>33, <1>34, <1>35,
     <1>36, <1>37, <1>38, <1>39
     DEF Next, Entry, Goroutine

\* The fields of the hold that those operators leave alone.
LEMMA FlagFields ==
    ASSUME NEW a \in Flags
    PROVE  /\ Cleared(a).holdEntering = a.holdEntering /\ Cleared(a).HoldActive = a.HoldActive
           /\ Forget(a).holdEntering = a.holdEntering /\ Forget(a).HoldActive = a.HoldActive
           /\ [a EXCEPT !.dialTonePending = FALSE].holdEntering = a.holdEntering
           /\ [a EXCEPT !.dialTonePending = FALSE].HoldActive = a.HoldActive
           /\ recoverBridge(a) => /\ ac'.holdEntering = a.holdEntering
                                  /\ ac'.HoldActive = a.HoldActive
<1>1. Cleared(a) \in Flags
  BY FlagOps
<1>2. Cleared(a).holdEntering = a.holdEntering /\ Cleared(a).HoldActive = a.HoldActive
  BY DEF Cleared, Flags
<1>3. Forget(a).holdEntering = a.holdEntering /\ Forget(a).HoldActive = a.HoldActive
  BY <1>1, <1>2 DEF Forget, Flags
<1>5. recoverBridge(a) => ac'.holdEntering = a.holdEntering /\ ac'.HoldActive = a.HoldActive
  BY DEF recoverBridge, Flags
<1>6. /\ [a EXCEPT !.dialTonePending = FALSE].holdEntering = a.holdEntering
      /\ [a EXCEPT !.dialTonePending = FALSE].HoldActive = a.HoldActive
  BY DEF Flags
<1> QED
  BY <1>2, <1>3, <1>5, <1>6

\* Nobody but the entry itself clears holdEntering, and the hold is given up
\* only together with its context.
LEMMA FlagsStay ==
    ASSUME TypeOK, HInv, Next
    PROVE  /\ ac.holdEntering => ac'.holdEntering \/ entry' = NoEntry
           /\ ac.HoldActive => ac'.HoldActive \/ ~live'
<1>a. ac \in Flags
  BY DEF TypeOK, Flags
<1> DEFINE Goal == /\ ac.holdEntering => ac'.holdEntering \/ entry' = NoEntry
                   /\ ac.HoldActive => ac'.HoldActive \/ ~live'
<1> SUFFICES Goal
  OBVIOUS
<1> USE <1>a
<1>1. CASE markBridgeReady
  BY <1>1 DEF markBridgeReady, Flags
<1>2. CASE EndCall
  BY <1>2 DEF EndCall, CancelHold
<1>3. ASSUME NEW x \in Legs, NEW d \in PhoneDirs, Reinvite(x, d) PROVE Goal
  BY <1>3 DEF Reinvite
<1>4. CASE \/ StopForHold \/ MohEnable \/ MohCheck
  BY <1>4, <1>a DEF StopForHold, MohEnable, MohCheck
<1>5. CASE seedHolderHoldDirection
  BY <1>5 DEF seedHolderHoldDirection, Flags
<1>6. CASE StartHoldMedia
  BY <1>6 DEF StartHoldMedia, Flags
<1>7. CASE ToneWait
  BY <1>7 DEF ToneWait, Flags
<1>8. CASE TonePending
  BY <1>8 DEF TonePending, Flags
<1>9. CASE ToneEnable
  BY <1>9 DEF ToneEnable, Flags
<1>10. CASE ToneOverride
  BY <1>10 DEF ToneOverride, Flags
<1>11. CASE ToneReinvite
  BY <1>11 DEF ToneReinvite, Flags
<1>12. CASE ToneStart
  BY <1>12 DEF ToneStart, Flags
<1>13. CASE ToneDone
  BY <1>13 DEF ToneDone, Flags
<1>14. CASE MohReinvite
  BY <1>14 DEF MohReinvite, Flags
<1>15. CASE MohStart
  BY <1>15 DEF MohStart, Flags, Panic
<1>16. CASE Entered
  <2>1. /\ Cleared(ac) \in Flags /\ Cleared(ac).holdEntering = ac.holdEntering
        /\ Cleared(ac).HoldActive = ac.HoldActive
    BY FlagOps, FlagFields
  <2>2. LET b == [Cleared(ac) EXCEPT !.dialTonePending = FALSE]
        IN  b \in Flags /\ b.holdEntering = ac.holdEntering /\ b.HoldActive = ac.HoldActive
    BY <2>1, FlagOps, FlagFields
  <2>3. \/ recoverBridge([Cleared(ac) EXCEPT !.dialTonePending = FALSE])
        \/ recoverBridge(Cleared(ac))
        \/ ac' = [ac EXCEPT !.HoldActive = TRUE, !.holder = entry.leg]
    BY <1>16 DEF Entered
  <2>4. LET b == [ac EXCEPT !.HoldActive = TRUE, !.holder = entry.leg]
        IN  b.holdEntering = ac.holdEntering /\ b.HoldActive = TRUE
    BY DEF Flags
  <2> QED
    BY <2>1, <2>2, <2>3, <2>4, FlagFields
<1>17. CASE EnterCleared
  BY <1>17 DEF EnterCleared, Flags
<1>18. ASSUME NEW s \in Slots,
           \/ LeaveLastWait(s) \/ restartBridgeIfNeeded(s) \/ ensureBridgeAfterHoldAbort(s)
           \/ startHoldMediaWatchdog(s) \/ RestartTone(s) \/ restartHeldPartyMOH(s)
           \/ RestartMohCheck(s)
    PROVE  Goal
  BY <1>18, <1>a DEF LeaveLastWait, restartBridgeIfNeeded, ensureBridgeAfterHoldAbort,
     startHoldMediaWatchdog, RestartTone, restartHeldPartyMOH, RestartMohCheck
<1>19. ASSUME NEW s \in Slots, onMediaUpdate(s) PROVE Goal
  <2>1. CASE HolderUpdate(s, go[s].leg)
    <3>1. LET b == noteHolderHoldDirection(go[s].leg)
          IN  b.holdEntering = ac.holdEntering /\ b.HoldActive = ac.HoldActive
      BY DEF noteHolderHoldDirection, Flags
    <3> QED
      BY <2>1, <3>1 DEF HolderUpdate
  <2>2. CASE HeldPartyUpdate(s, go[s].leg)
    BY <2>2 DEF HeldPartyUpdate
  <2>3. CASE PlainUpdate(s, go[s].leg)
    BY <2>3 DEF PlainUpdate
  <2> QED
    BY <1>19, <2>1, <2>2, <2>3 DEF onMediaUpdate
<1>20. ASSUME NEW s \in Slots, enter(s) PROVE Goal
  BY <1>20 DEF enter, Flags
<1>21. ASSUME NEW s \in Slots, leave(s) PROVE Goal
  <2>1. CASE ac.HoldActive
    <3>1. ~live'
      BY <1>21, <2>1 DEF leave, CancelHold
    <3>2. ac'.holdEntering = ac.holdEntering
      <4>1. [ac EXCEPT !.HoldActive = FALSE] \in Flags
        BY FlagOps
      <4>2. /\ [ac EXCEPT !.HoldActive = FALSE].holdEntering = ac.holdEntering
            /\ [ac EXCEPT !.HoldActive = FALSE, !.bridgeStop = FALSE].holdEntering = ac.holdEntering
        BY DEF Flags
      <4> QED
        BY <1>21, <2>1, <4>1, <4>2, FlagFields DEF leave
    <3> QED
      BY <3>1, <3>2
  <2>2. CASE ~ac.HoldActive
    BY <1>21, <2>2 DEF leave
  <2> QED
    BY <2>1, <2>2
<1>22. ASSUME NEW s \in Slots, LeaveStopped(s) PROVE Goal
  BY <1>22, FlagFields DEF LeaveStopped, Flags
<1>23. ASSUME NEW s \in Slots, LeaveUnhold(s) PROVE Goal
  BY <1>23 DEF LeaveUnhold, Flags
<1>24. ASSUME NEW s \in Slots, LeaveUnholdHeldParty(s) PROVE Goal
  BY <1>24 DEF LeaveUnholdHeldParty, Flags
<1>25. ASSUME NEW s \in Slots, LeaveWait(s) PROVE Goal
  BY <1>25 DEF LeaveWait, Flags
<1>26. ASSUME NEW s \in Slots, LeaveBridge(s) PROVE Goal
  BY <1>26, FlagFields DEF LeaveBridge, Flags
<1>27. ASSUME NEW s \in Slots, RestartBridge(s) PROVE Goal
  BY <1>27, FlagFields DEF RestartBridge, Flags
<1>28. ASSUME NEW s \in Slots, EnsureBridge(s) PROVE Goal
  BY <1>28, FlagFields DEF EnsureBridge, Flags
<1>29. ASSUME NEW s \in Slots, reassertHolderHold(s) PROVE Goal
  BY <1>29 DEF reassertHolderHold, Flags
<1>30. ASSUME NEW s \in Slots, EnableHolder(s) PROVE Goal
  BY <1>30 DEF EnableHolder, Flags
<1>31. ASSUME NEW s \in Slots, OverrideHolder(s) PROVE Goal
  BY <1>31 DEF OverrideHolder, Flags
<1>32. ASSUME NEW s \in Slots, ReinviteHolder(s) PROVE Goal
  BY <1>32 DEF ReinviteHolder, Flags
<1>33. ASSUME NEW s \in Slots, Reasserted(s) PROVE Goal
  BY <1>33 DEF Reasserted, Flags
<1>34. ASSUME NEW s \in Slots, RestartMohReinvite(s) PROVE Goal
  BY <1>34 DEF RestartMohReinvite, Flags
<1>35. ASSUME NEW s \in Slots, RestartMoh(s) PROVE Goal
  BY <1>35 DEF RestartMoh, Flags, Panic
<1>36. ASSUME NEW s \in Slots, abortHoldEntry(s) PROVE Goal
  BY <1>36 DEF abortHoldEntry, Flags, CancelHold
<1>37. ASSUME NEW s \in Slots, ForgetStuckHold(s) PROVE Goal
  BY <1>37, FlagFields DEF ForgetStuckHold
<1>38. ASSUME NEW s \in Slots, HoldOrDefer(s) PROVE Goal
  BY <1>38 DEF HoldOrDefer
<1>39. ASSUME NEW s \in Slots, recordPendingHold(s) PROVE Goal
  BY <1>39 DEF recordPendingHold, Flags
<1> QED
  BY <1>1, <1>2, <1>3, <1>4, <1>5, <1>6, <1>7, <1>8, <1>9, <1>10, <1>11, <1>12, <1>13,
     <1>14, <1>15, <1>16, <1>17, <1>18, <1>19, <1>20, <1>21, <1>22, <1>23, <1>24,
     <1>25, <1>26, <1>27, <1>28, <1>29, <1>30, <1>31, <1>32, <1>33, <1>34, <1>35,
     <1>36, <1>37, <1>38, <1>39
     DEF Next, Entry, Goroutine

-----------------------------------------------------------------------------
(* Directions and goroutines *)

\* Every renegotiation leaves a leg with a direction.
LEMMA DirsKept ==
    ASSUME TypeOK, HInv, Next
    PROVE  dir' \in [Legs -> Directions]
<1>a. /\ dir \in [Legs -> Directions]
      /\ entry.tone # "-" \/ entry.moh # "-" => entry.leg \in Legs
      /\ \A s \in Slots : /\ go[s].holder \in Legs \cup {NoLeg}
                          /\ go[s].at \in {"override", "stale", "reinvite"} => go[s].leg \in Legs
  BY DEF TypeOK, HInv, Entering, Located, HasLeg
<1>b. /\ \A x \in Legs : \A r \in HoldResults(x) \cup UnholdResults(x) \cup HeldPartyResults(x) :
            r[1] \in Directions
      /\ {"sendonly"} \cup PhoneDirs \subseteq Directions
  BY ResultTypes, HoldAssumption DEF Directions
<1> DEFINE Goal == dir' \in [Legs -> Directions]
<1> SUFFICES Goal
  OBVIOUS
<1> USE <1>a, <1>b
<1>1. CASE markBridgeReady
  BY <1>1 DEF markBridgeReady
<1>2. CASE EndCall
  BY <1>2 DEF EndCall
<1>3. ASSUME NEW x \in Legs, NEW d \in PhoneDirs, Reinvite(x, d) PROVE Goal
  BY <1>3 DEF Reinvite
<1>4. CASE \/ seedHolderHoldDirection \/ StopForHold \/ StartHoldMedia \/ TonePending
         \/ ToneEnable \/ ToneDone \/ MohEnable
  BY <1>4, <1>a DEF seedHolderHoldDirection, StopForHold, StartHoldMedia, TonePending, ToneEnable,
     ToneDone, MohEnable
<1>5. CASE \/ MohCheck \/ EnterCleared
  BY <1>5, <1>a DEF MohCheck, EnterCleared
<1>6. CASE ToneWait
  BY <1>6 DEF ToneWait
<1>7. CASE ToneOverride
  BY <1>7 DEF ToneOverride
<1>8. CASE ToneReinvite
  BY <1>8 DEF ToneReinvite
<1>9. CASE ToneStart
  BY <1>9 DEF ToneStart
<1>10. CASE MohReinvite
  BY <1>10, OtherLeg DEF MohReinvite
<1>11. CASE MohStart
  BY <1>11 DEF MohStart
<1>12. CASE Entered
  BY <1>12 DEF Entered
<1>13. ASSUME NEW s \in Slots,
           \/ onMediaUpdate(s) \/ LeaveStopped(s) \/ LeaveLastWait(s)
           \/ LeaveBridge(s) \/ restartBridgeIfNeeded(s) \/ startHoldMediaWatchdog(s)
           \/ EnableHolder(s) \/ abortHoldEntry(s) \/ ForgetStuckHold(s) \/ HoldOrDefer(s)
           \/ recordPendingHold(s)
    PROVE  Goal
  BY <1>13, <1>a DEF abortHoldEntry, ForgetStuckHold, HoldOrDefer, recordPendingHold, onMediaUpdate, LeaveStopped, LeaveLastWait, LeaveBridge, restartBridgeIfNeeded,
     startHoldMediaWatchdog, EnableHolder
<1>14. ASSUME NEW s \in Slots,
           \/ Reasserted(s) \/ RestartTone(s) \/ restartHeldPartyMOH(s)
           \/ RestartMohCheck(s)
    PROVE  Goal
  BY <1>14, <1>a DEF Reasserted, RestartTone, restartHeldPartyMOH, RestartMohCheck
<1>15. ASSUME NEW s \in Slots, enter(s) PROVE Goal
  BY <1>15 DEF enter
<1>16. ASSUME NEW s \in Slots, leave(s) PROVE Goal
  BY <1>16 DEF leave
<1>17. ASSUME NEW s \in Slots, LeaveUnhold(s) PROVE Goal
  BY <1>17 DEF LeaveUnhold, Renegotiate
<1>18. ASSUME NEW s \in Slots, LeaveUnholdHeldParty(s) PROVE Goal
  BY <1>18, OtherLeg DEF LeaveUnholdHeldParty, Renegotiate
<1>19. ASSUME NEW s \in Slots, LeaveWait(s) PROVE Goal
  BY <1>19 DEF LeaveWait, Renegotiate
<1>20. ASSUME NEW s \in Slots, RestartBridge(s) PROVE Goal
  BY <1>20 DEF RestartBridge
<1>21. ASSUME NEW s \in Slots, ensureBridgeAfterHoldAbort(s) PROVE Goal
  BY <1>21 DEF ensureBridgeAfterHoldAbort, Renegotiate, Legs
<1>22. ASSUME NEW s \in Slots, EnsureBridge(s) PROVE Goal
  BY <1>22 DEF EnsureBridge
<1>23. ASSUME NEW s \in Slots, reassertHolderHold(s) PROVE Goal
  BY <1>23 DEF reassertHolderHold
<1>24. ASSUME NEW s \in Slots, OverrideHolder(s) PROVE Goal
  BY <1>24 DEF OverrideHolder
<1>25. ASSUME NEW s \in Slots, ReinviteHolder(s) PROVE Goal
  BY <1>25 DEF ReinviteHolder, Renegotiate
<1>26. ASSUME NEW s \in Slots, RestartMohReinvite(s) PROVE Goal
  <2>1. HeldLeg(s) \in Legs
    BY <1>26, OtherLeg DEF RestartMohReinvite, HeldLeg, HInv, Located, HasLeg
  <2> QED
    BY <1>26, <2>1 DEF RestartMohReinvite, Renegotiate
<1>27. ASSUME NEW s \in Slots, RestartMoh(s) PROVE Goal
  BY <1>27 DEF RestartMoh
<1> QED
  BY <1>1, <1>2, <1>3, <1>4, <1>5, <1>6, <1>7, <1>8, <1>9, <1>10, <1>11, <1>12, <1>13,
     <1>14, <1>15, <1>16, <1>17, <1>18, <1>19, <1>20, <1>21, <1>22, <1>23, <1>24,
     <1>25, <1>26, <1>27
     DEF Next, Entry, Goroutine

\* A goroutine moves on, ends, becomes another one or starts one, and what it
\* has captured is dead as soon as the context is.
LEMMA GoKept ==
    ASSUME TypeOK, HInv, Next
    PROVE  /\ go' \in [Slots -> Work]
           /\ \A t \in Slots : HasLeg(go'[t]) /\ (Captured(go'[t]) => live')
<1> DEFINE Fine(g, l) == /\ g \in [Slots -> Work]
                         /\ \A t \in Slots : HasLeg(g[t]) /\ (Captured(g[t]) => l)
<1> DEFINE Goal == Fine(go', live')
<1> SUFFICES Goal
  OBVIOUS
<1>a. Fine(go, live) /\ ac \in Flags
  BY DEF TypeOK, HInv, Located, Playing, Work, Flags
<1>b. ASSUME NEW g, NEW l, Fine(g, l)
      PROVE  /\ Fine(Dead(g), FALSE) /\ Fine(Dead(g), l)
             /\ \A t \in Slots : Dead(g)[t].leg = g[t].leg /\ Dead(g)[t].job = g[t].job
  <2>1. ASSUME NEW w \in Work, w.job = "watch"
        PROVE  LET v == [w EXCEPT !.flag = FALSE]
               IN  v \in Work /\ v.job = w.job /\ v.leg = w.leg /\ v.at = w.at /\ v.flag = FALSE
    BY <2>1 DEF Work
  <2>2. \A t \in Slots : Dead(g)[t] = IF g[t].job = "watch" THEN [g[t] EXCEPT !.flag = FALSE] ELSE g[t]
    BY DEF Dead
  <2>3. \A t \in Slots : /\ Dead(g)[t] \in Work /\ HasLeg(Dead(g)[t]) /\ ~Captured(Dead(g)[t])
                         /\ Dead(g)[t].leg = g[t].leg /\ Dead(g)[t].job = g[t].job
    <3> SUFFICES ASSUME NEW t \in Slots
                 PROVE  /\ Dead(g)[t] \in Work /\ HasLeg(Dead(g)[t]) /\ ~Captured(Dead(g)[t])
                        /\ Dead(g)[t].leg = g[t].leg /\ Dead(g)[t].job = g[t].job
      OBVIOUS
    <3>1. g[t] \in Work /\ HasLeg(g[t])
      BY <1>b
    <3>2. CASE g[t].job = "watch"
      <4> DEFINE v == [g[t] EXCEPT !.flag = FALSE]
      <4>1. /\ Dead(g)[t] = v /\ v \in Work /\ v.job = g[t].job
            /\ v.leg = g[t].leg /\ v.at = g[t].at /\ v.flag = FALSE
        BY <2>1, <2>2, <3>1, <3>2
      <4> HIDE DEF v, Dead
      <4> QED
        BY <3>1, <4>1 DEF HasLeg, Captured
    <3>3. CASE g[t].job # "watch"
      BY <2>2, <3>1, <3>3 DEF Captured
    <3> QED
      BY <3>2, <3>3
  <2>4. Dead(g) = [t \in Slots |-> Dead(g)[t]]
    BY DEF Dead
  <2> HIDE DEF Dead
  <2>5. Dead(g) \in [Slots -> Work]
    BY <2>3, <2>4
  <2> QED
    BY <2>3, <2>5
<1>c. ASSUME NEW g, NEW l, Fine(g, l), NEW s \in Slots PROVE Fine([g EXCEPT ![s] = Free], l)
  BY <1>c, FreshWork
<1>d. ASSUME NEW g, NEW l, Fine(g, l), NEW s \in Slots, NEW j \in Jobs, NEW x \in Legs
      PROVE  Fine([g EXCEPT ![s] = Fresh(j, x)], l)
  BY <1>d, FreshWork
<1>e. ASSUME NEW g, NEW l, Fine(g, l), NEW j \in Jobs, NEW x \in Legs \cup {NoLeg},
             x \in Legs \/ j \in {"restart", "ensure"}
      PROVE  Fine(Spawn(g, j, x), l)
  BY <1>e, FreshWork, Spawned
<1>f. ASSUME NEW g, NEW l, Fine(g, l), NEW s \in Slots, NEW p \in Points,
             g[s].leg \in Legs \/ (/\ p \in {"-", "start", "unheld", "recheck", "wait"}
                                   /\ g[s].job \in {"free", "restart", "ensure"})
      PROVE  Fine([g EXCEPT ![s].at = p], l)
  BY <1>f DEF Work, HasLeg, Captured
<1>g. ASSUME NEW g, NEW l, Fine(g, l), NEW s \in Slots, g[s].job = "leave"
      PROVE  Fine(Leaving(g, s), l)
  <2>1. ac.holder \in Legs \cup {NoLeg} /\ ac.holderLegHeld \in BOOLEAN
    BY <1>a DEF Flags
  <2>2. ASSUME NEW h \in Legs \cup {NoLeg}, NEW b \in BOOLEAN
        PROVE  Fine([g EXCEPT ![s] = [@ EXCEPT !.at = "unhold", !.holder = h, !.flag = b]], l)
    <3> DEFINE w == [g[s] EXCEPT !.at = "unhold", !.holder = h, !.flag = b]
    <3>1. g[s] \in Work /\ g[s].leg \in Legs
      BY <1>g DEF HasLeg
    <3>2. w \in Work /\ w.leg = g[s].leg /\ w.job = "leave"
      BY <1>g, <2>2, <3>1 DEF Work, Points
    <3> HIDE DEF w
    <3>3. Fine([g EXCEPT ![s] = w], l)
      BY <1>g, <3>1, <3>2 DEF HasLeg, Captured
    <3> QED
      BY <3>3 DEF w
  <2> QED
    BY <2>1, <2>2 DEF Leaving
<1>h. /\ Jobs = {"free", "update", "enter", "leave", "reassert", "restart", "ensure",
                 "restartMOH", "refreshMOH", "watch"}
      /\ \A s \in Slots : go[s].leg \in Legs \/ (/\ go[s].job \in {"free", "restart", "ensure"}
                                                 /\ go[s].at \in {"-", "start", "unheld", "recheck", "wait"})
  BY <1>a DEF Jobs, HasLeg
<1>i. live => ended = "no"
  BY DEF HInv, Playing
<1>j. entry.at # "idle" => entry.leg \in Legs
  BY DEF HInv, Entering
<1>k. Fine(go, FALSE) \/ live
  BY <1>a
<1>l. ASSUME go' = go, live => live' PROVE Goal
  BY <1>a, <1>l
<1>m. ASSUME NEW s \in Slots, Ends(s), live' = live PROVE Goal
  BY <1>a, <1>c, <1>m DEF Ends
<1>t. ASSUME NEW s \in Slots, NEW p \in Points,
             go[s].leg \in Legs \/ (/\ p \in {"-", "start", "unheld", "recheck", "wait"}
                                    /\ go[s].job \in {"free", "restart", "ensure"})
      PROVE  /\ At(s, p) \in Work /\ HasLeg(At(s, p)) /\ At(s, p).leg = go[s].leg
             /\ (Captured(At(s, p)) => live)
  <2>1. go[s] \in Work /\ HasLeg(go[s]) /\ (Captured(go[s]) => live)
    BY <1>a
  <2>2. /\ At(s, p) \in Work /\ At(s, p).leg = go[s].leg /\ At(s, p).at = p
        /\ At(s, p).job = go[s].job /\ At(s, p).flag = go[s].flag
    BY <2>1 DEF At, Work
  <2> QED
    BY <1>t, <2>1, <2>2 DEF HasLeg, Captured
<1>n. ASSUME NEW s \in Slots, NEW p \in Points, Move(s, p), live' = live,
             go[s].leg \in Legs \/ (/\ p \in {"-", "start", "unheld", "recheck", "wait"}
                                    /\ go[s].job \in {"free", "restart", "ensure"})
      PROVE  Goal
  BY <1>a, <1>t, <1>n DEF Move
<1>o. ASSUME NEW x, NEW g, NEW l, Fine(g, l) PROVE Fine(Outdated(x, g), l)
  <2>1. ASSUME NEW v \in Work, HasLeg(v), v.at = "override"
        PROVE  LET w == [v EXCEPT !.at = "stale"]
               IN  w \in Work /\ HasLeg(w) /\ (Captured(w) <=> Captured(v))
    BY <2>1 DEF Work, HasLeg, Captured, Points
  <2> QED
    BY <1>o, <2>1 DEF Outdated
<1>p. ASSUME NEW s \in Slots, NEW x, NEW r, NEW w \in Work, Renegotiate(s, x, r, w),
             HasLeg(w), Captured(w) => live, live' = live
      PROVE  Goal
  <2>1. Fine(IF r[2] THEN Outdated(x, go) ELSE go, live)
    BY <1>a, <1>o
  <2> DEFINE g == IF r[2] THEN Outdated(x, go) ELSE go
  <2>2. go' = [g EXCEPT ![s] = w]
    BY <1>p DEF Renegotiate
  <2> HIDE DEF g
  <2>3. Fine(g, live)
    BY <2>1 DEF g
  <2> QED
    BY <1>p, <2>2, <2>3
<1>q. ASSUME NEW s \in Slots, NEW x, NEW r, NEW p \in Points, Renegotiate(s, x, r, At(s, p)),
             live' = live,
             go[s].leg \in Legs \/ (/\ p \in {"-", "start", "unheld", "recheck", "wait"}
                                    /\ go[s].job \in {"free", "restart", "ensure"})
      PROVE  Goal
  BY <1>p, <1>q, <1>t
<1>r. ASSUME NEW s \in Slots, go[s].leg \in Legs
      PROVE  /\ MohOver(s) \in Work /\ HasLeg(MohOver(s)) /\ (Captured(MohOver(s)) => live)
  <2>1. "start" \in Points
    BY DEF Points
  <2> QED
    BY <1>r, <1>t, <2>1, FreshWork DEF MohOver
<1>s. ASSUME NEW s \in Slots, MohDone(s), live' = live, go[s].leg \in Legs PROVE Goal
  BY <1>a, <1>r, <1>s DEF MohDone
<1> HIDE DEF Fine
<1>1. CASE markBridgeReady
  <2>1. ac.pendingHold \in Legs \cup {NoLeg} /\ "enter" \in Jobs
    BY <1>a, <1>h DEF Flags
  <2>2. ac.pendingHold # NoLeg => Fine(Spawn(go, "enter", ac.pendingHold), live)
    BY <1>a, <1>e, <2>1
  <2> QED
    BY <1>a, <1>1, <2>2 DEF markBridgeReady
<1>2. CASE EndCall
  BY <1>a, <1>b, <1>2 DEF EndCall, CancelHold
<1>3. ASSUME NEW x \in Legs, NEW d \in PhoneDirs, Reinvite(x, d) PROVE Goal
  <2> DEFINE aged == Outdated(x, go)
             captured(b, h) == [Free EXCEPT !.job = "update", !.at = "start", !.leg = x,
                                            !.flag = b, !.holder = h]
             w == captured(ac.HoldActive, ac.holder)
  <2>1. Fine(aged, live)
    BY <1>a, <1>o
  <2>2. ASSUME NEW b \in BOOLEAN, NEW h \in Legs \cup {NoLeg}
        PROVE  captured(b, h) \in Work /\ captured(b, h).leg = x /\ captured(b, h).job = "update"
    <3>1. ASSUME NEW v \in Work
          PROVE  /\ [v EXCEPT !.job = "update"] \in Work
                 /\ [v EXCEPT !.at = "start"] \in Work
                 /\ [v EXCEPT !.leg = x] \in Work
                 /\ [v EXCEPT !.flag = b] \in Work
                 /\ [v EXCEPT !.holder = h] \in Work
      <4>1. "update" \in Jobs /\ "start" \in Points
        BY <1>h DEF Points
      <4>2. [v EXCEPT !.job = "update"] \in Work /\ [v EXCEPT !.at = "start"] \in Work
        BY <3>1, <4>1 DEF Work
      <4>3. [v EXCEPT !.leg = x] \in Work /\ [v EXCEPT !.flag = b] \in Work
        BY <3>1 DEF Work
      <4>4. [v EXCEPT !.holder = h] \in Work
        BY <2>2, <3>1 DEF Work
      <4> QED
        BY <4>2, <4>3, <4>4
    <3>2. Free \in Work
      BY FreshWork
    <3>3. [[[[[Free EXCEPT !.job = "update"] EXCEPT !.at = "start"] EXCEPT !.leg = x]
             EXCEPT !.flag = b] EXCEPT !.holder = h] \in Work
      BY <3>1, <3>2, Zenon
    <3>4. captured(b, h).leg = x /\ captured(b, h).job = "update"
      BY DEF Free
    <3> QED
      BY <3>3, <3>4, Zenon
  <2>3. w \in Work /\ w.leg = x /\ w.job = "update"
    <3>1. ac.HoldActive \in BOOLEAN /\ ac.holder \in Legs \cup {NoLeg}
      BY <1>a DEF Flags
    <3> HIDE DEF captured
    <3> QED
      BY <2>2, <3>1, Zenon
  <2>4. HasLeg(w) /\ ~Captured(w)
    BY <2>3 DEF HasLeg, Captured
  <2>5. live' = live /\ \E s \in Slots : go' = [aged EXCEPT ![s] = w]
    <3>1. IsFiniteSet(Callbacks)
      <4>1. IsFiniteSet(Slots)
        BY HoldAssumption, 1 \in Int, MaxGoroutines \in Int, FS_Interval DEF Slots
      <4>2. Callbacks \in SUBSET Slots
        BY DEF Callbacks
      <4> QED
        BY <4>1, <4>2, FS_Subset, Zenon
    <3>2. FreeSlots(go) # {}
      <4>1. Cardinality(Callbacks) \in Nat /\ Cardinality({}) = 0
        BY <3>1, FS_CardinalityType, FS_EmptySet, Zenon
      <4>2. Cardinality(FreeSlots(go)) > Cardinality(Callbacks)
        BY <1>3 DEF Reinvite
      <4> QED
        BY <4>1, <4>2
    <3>3. (CHOOSE t \in FreeSlots(go) : TRUE) \in Slots
      BY <3>2 DEF FreeSlots
    <3> QED
      BY <1>3, <3>3 DEF Reinvite
  <2> HIDE DEF aged, w
  <2> QED
    BY <2>1, <2>3, <2>4, <2>5 DEF Fine
<1>4. CASE seedHolderHoldDirection
  BY <1>l, <1>4 DEF seedHolderHoldDirection
<1>5. CASE StopForHold
  BY <1>l, <1>5 DEF StopForHold
<1>6. CASE StartHoldMedia
  BY <1>i, <1>l, <1>6 DEF StartHoldMedia
<1>7. CASE ToneWait
  BY <1>l, <1>7 DEF ToneWait
<1>8. CASE TonePending
  BY <1>l, <1>8 DEF TonePending
<1>9. CASE ToneEnable
  BY <1>l, <1>9 DEF ToneEnable
<1>10. CASE ToneOverride
  BY <1>l, <1>10 DEF ToneOverride
<1>11. CASE ToneReinvite
  <2>1. CASE go' = Outdated(entry.leg, go) /\ live' = live
    BY <1>a, <1>o, <2>1
  <2>2. CASE go' = go /\ live' = live
    BY <1>l, <2>2
  <2> QED
    BY <1>11, <2>1, <2>2 DEF ToneReinvite
<1>12. CASE ToneStart
  BY <1>l, <1>12 DEF ToneStart
<1>13. CASE ToneDone
  BY <1>l, <1>13 DEF ToneDone
<1>14. CASE MohEnable
  BY <1>l, <1>14 DEF MohEnable
<1>15. CASE MohReinvite
  <2>1. CASE go' = Outdated(Other(entry.leg), go) /\ live' = live
    BY <1>a, <1>o, <2>1
  <2>2. CASE go' = go /\ live' = live
    BY <1>l, <2>2
  <2> QED
    BY <1>15, <2>1, <2>2 DEF MohReinvite
<1>16. CASE MohCheck
  BY <1>l, <1>16 DEF MohCheck
<1>17. CASE MohStart
  <2>1. CASE Panic
    <3>1. go' = [t \in Slots |-> Free]
      BY <2>1 DEF Panic
    <3> QED
      BY <3>1, FreshWork DEF Fine
  <2> QED
    BY <1>l, <1>17, <2>1 DEF MohStart
<1>18. CASE Entered
  <2>1. CASE go' = Spawn(Dead(go), "ensure", NoLeg) /\ CancelHold
    BY <1>a, <1>b, <1>e, <1>h, <2>1 DEF CancelHold
  <2>2. CASE go' = Dead(go) /\ CancelHold
    BY <1>a, <1>b, <2>2 DEF CancelHold
  <2>3. CASE /\ live' = live
             /\ go' = LET g == Spawn(go, "watch", entry.leg)
                      IN  [s \in Slots |-> IF g[s] # go[s]
                                           THEN [g[s] EXCEPT !.rounds = WatchRounds] ELSE g[s]]
    <3> DEFINE g == Spawn(go, "watch", entry.leg)
    <3>1. Fine(g, live)
      BY <1>a, <1>e, <1>h, <1>j, <1>18 DEF Entered
    <3>2. ASSUME NEW w \in Work
          PROVE  LET v == [w EXCEPT !.rounds = WatchRounds]
                 IN  v \in Work /\ (HasLeg(v) <=> HasLeg(w)) /\ (Captured(v) <=> Captured(w))
      BY <3>2, HoldAssumption DEF Work, HasLeg, Captured
    <3>3. \A s \in Slots : go'[s] \in {g[s], [g[s] EXCEPT !.rounds = WatchRounds]}
      BY <2>3
    <3>4. DOMAIN go' = Slots /\ go' = [s \in Slots |-> go'[s]]
      BY <2>3
    <3> HIDE DEF g
    <3>5. \A s \in Slots : go'[s] \in Work /\ HasLeg(go'[s]) /\ (Captured(go'[s]) => live)
      BY <3>1, <3>2, <3>3 DEF Fine
    <3> QED
      BY <2>3, <3>4, <3>5 DEF Fine
  <2> QED
    BY <1>18, <2>1, <2>2, <2>3 DEF Entered
<1>19. CASE EnterCleared
  BY <1>l, <1>19 DEF EnterCleared
<1>20. ASSUME NEW s \in Slots, onMediaUpdate(s) PROVE Goal
  <2>1. go[s].leg \in Legs /\ go[s].job = "update"
    BY <1>h, <1>20 DEF onMediaUpdate
  <2> DEFINE x == go[s].leg
  <2>a. \A j \in Jobs, y \in Legs : Fine([go EXCEPT ![s] = Fresh(j, y)], live)
    BY <1>a, <1>d
  <2>b. Fine([go EXCEPT ![s] = Free], live)
    BY <1>a, <1>c
  <2>2. CASE HolderUpdate(s, x)
    BY <1>h, <2>1, <2>2, <2>a, <2>b DEF HolderUpdate, Becomes, Ends, Fresh
  <2>3. CASE HeldPartyUpdate(s, x)
    BY <1>h, <2>1, <2>3, <2>a, <2>b DEF HeldPartyUpdate, Becomes, Ends, Fresh
  <2>4. CASE PlainUpdate(s, x)
    <3>1. ASSUME NEW p \in {"abort", "stuck", "hold"}, Move(s, p), live' = live PROVE Goal
      BY <1>n, <2>1, <3>1 DEF Points
    <3>2. ASSUME NEW p \in {"stuck", "hold"} PROVE Fine([go EXCEPT ![s] = At(s, p)], live)
      <4>1. p \in Points
        BY <3>2 DEF Points
      <4>2. At(s, p) \in Work /\ HasLeg(At(s, p)) /\ (Captured(At(s, p)) => live)
        BY <1>t, <2>1, <4>1
      <4> QED
        BY <1>a, <4>2 DEF Fine
    <3>3. ASSUME NEW p \in {"stuck", "hold"}, live' = live,
                 go' = Spawn([go EXCEPT ![s] = At(s, p)], "restart", NoLeg)
          PROVE  Goal
      BY <1>e, <1>h, <3>2, <3>3
    <3>4. (IF x = "in" THEN "stuck" ELSE "hold") \in {"stuck", "hold"}
      OBVIOUS
    <3> QED
      BY <2>4, <3>1, <3>3, <3>4 DEF PlainUpdate
  <2> QED
    BY <1>20, <2>2, <2>3, <2>4 DEF onMediaUpdate
<1>21. ASSUME NEW s \in Slots, enter(s) PROVE Goal
  BY <1>h, <1>m, <1>n, <1>21 DEF enter, Points
<1>22. ASSUME NEW s \in Slots, leave(s) PROVE Goal
  <2>1. CASE ~ac.HoldActive
    BY <1>a, <1>c, <1>22, <2>1 DEF leave, Ends
  <2>2. CASE ac.HoldActive
    <3>1. Fine(Dead(go), FALSE) /\ Dead(go)[s].leg \in Legs /\ Dead(go)[s].job = "leave" /\ live' = FALSE
      BY <1>a, <1>b, <1>h, <1>22, <2>2 DEF leave, CancelHold
    <3>2. Fine([Dead(go) EXCEPT ![s].at = "stop"], FALSE) /\ Fine(Leaving(Dead(go), s), FALSE)
      BY <1>f, <1>g, <3>1 DEF Points
    <3> QED
      BY <1>22, <2>2, <3>1, <3>2 DEF leave
  <2> QED
    BY <2>1, <2>2
<1>23. ASSUME NEW s \in Slots, LeaveStopped(s) PROVE Goal
  BY <1>a, <1>g, <1>23 DEF LeaveStopped
<1>24. ASSUME NEW s \in Slots, LeaveUnhold(s) PROVE Goal
  BY <1>h, <1>n, <1>q, <1>24 DEF LeaveUnhold, Points
<1>25. ASSUME NEW s \in Slots, LeaveUnholdHeldParty(s) PROVE Goal
  BY <1>h, <1>n, <1>q, <1>25 DEF LeaveUnholdHeldParty, Points
<1>26. ASSUME NEW s \in Slots, LeaveWait(s) PROVE Goal
  BY <1>h, <1>n, <1>q, <1>26 DEF LeaveWait, Points
<1>27. ASSUME NEW s \in Slots, LeaveLastWait(s) PROVE Goal
  BY <1>h, <1>m, <1>n, <1>27 DEF LeaveLastWait, Points
<1>28. ASSUME NEW s \in Slots, LeaveBridge(s) PROVE Goal
  BY <1>h, <1>m, <1>n, <1>28 DEF LeaveBridge, Points
<1>29. ASSUME NEW s \in Slots, restartBridgeIfNeeded(s) PROVE Goal
  BY <1>h, <1>m, <1>n, <1>29 DEF restartBridgeIfNeeded, Points
<1>30. ASSUME NEW s \in Slots, RestartBridge(s) PROVE Goal
  BY <1>h, <1>m, <1>n, <1>30 DEF RestartBridge, Points
<1>31. ASSUME NEW s \in Slots, ensureBridgeAfterHoldAbort(s) PROVE Goal
  BY <1>h, <1>n, <1>q, <1>31 DEF ensureBridgeAfterHoldAbort, Points
<1>32. ASSUME NEW s \in Slots, EnsureBridge(s) PROVE Goal
  BY <1>h, <1>m, <1>n, <1>32 DEF EnsureBridge, Points
<1>33. ASSUME NEW s \in Slots, startHoldMediaWatchdog(s) PROVE Goal
  <2>1. CASE Ends(s) /\ live' = live
    BY <1>a, <1>c, <2>1 DEF Ends
  <2>2. CASE /\ go' = [go EXCEPT ![s].at = "enable", ![s].flag = live, ![s].rounds = @ - 1]
             /\ go[s].rounds > 0 /\ live' = live
    <3>1. go[s] \in Work /\ go[s].leg \in Legs /\ go[s].job = "watch" /\ live \in BOOLEAN
      BY <1>a, <1>h, <1>33 DEF startHoldMediaWatchdog, Fine, TypeOK
    <3> DEFINE w == [go[s] EXCEPT !.at = "enable", !.flag = live, !.rounds = @ - 1]
    <3>2. ASSUME NEW v \in Work, v.rounds > 0, NEW b \in BOOLEAN
          PROVE  LET z == [v EXCEPT !.at = "enable", !.flag = b, !.rounds = @ - 1]
                 IN  z \in Work /\ z.leg = v.leg /\ z.flag = b
      <4>1. v.rounds - 1 \in 0..WatchRounds
        BY <3>2, HoldAssumption DEF Work
      <4> QED
        BY <3>2, <4>1 DEF Work, Points
    <3>3. go' = [go EXCEPT ![s] = w]
      BY <1>a, <2>2 DEF Fine
    <3>4. w \in Work /\ w.leg \in Legs /\ w.flag = live
      BY <2>2, <3>1, <3>2
    <3> HIDE DEF w
    <3>5. /\ go' \in [Slots -> Work] /\ go'[s] = w
          /\ \A t \in Slots : t # s => go'[t] = go[t]
      BY <1>a, <3>3, <3>4 DEF Fine
    <3>6. HasLeg(w)
      BY <3>4 DEF HasLeg
    <3>7. Captured(w) => live'
      BY <2>2, <3>4, Zenon DEF Captured
    <3>8. \A t \in Slots : HasLeg(go'[t]) /\ (Captured(go'[t]) => live')
      BY <1>a, <2>2, <3>5, <3>6, <3>7 DEF Fine
    <3> QED
      BY <3>5, <3>8 DEF Fine
  <2> QED
    BY <1>33, <2>1, <2>2 DEF startHoldMediaWatchdog
<1>34. ASSUME NEW s \in Slots, reassertHolderHold(s) PROVE Goal
  BY <1>h, <1>m, <1>n, <1>34 DEF reassertHolderHold, Points
<1>35. ASSUME NEW s \in Slots, EnableHolder(s) PROVE Goal
  <2>1. \E p \in {"tone", "again", "override", "reinvite"} : Move(s, p)
    BY <1>35 DEF EnableHolder, HolderPath
  <2>2. go[s].leg \in Legs /\ live' = live
    BY <1>h, <1>35 DEF EnableHolder
  <2> QED
    BY <1>n, <2>1, <2>2 DEF Points
<1>36. ASSUME NEW s \in Slots, OverrideHolder(s) PROVE Goal
  BY <1>h, <1>m, <1>n, <1>36 DEF OverrideHolder, Points
<1>37. ASSUME NEW s \in Slots, ReinviteHolder(s) PROVE Goal
  <2>1. live' = live /\ go[s].leg \in Legs
    BY <1>h, <1>37 DEF ReinviteHolder
  <2>2. \/ Move(s, "again")
        \/ \E r : \E p \in {"again", "tone"} : Renegotiate(s, go[s].leg, r, At(s, p))
    BY <1>37 DEF ReinviteHolder
  <2> QED
    BY <1>n, <1>q, <2>1, <2>2 DEF Points
<1>38. ASSUME NEW s \in Slots, Reasserted(s) PROVE Goal
  <2>1. go[s].leg \in Legs /\ live' = live /\ (Ends(s) \/ Becomes(s, "leave", go[s].leg))
    BY <1>h, <1>38 DEF Reasserted
  <2>2. Fine([go EXCEPT ![s] = Fresh("leave", go[s].leg)], live)
    BY <1>a, <1>d, <1>h, <2>1
  <2> QED
    BY <1>m, <2>1, <2>2 DEF Becomes, Fresh
<1>39. ASSUME NEW s \in Slots, RestartTone(s) PROVE Goal
  BY <1>h, <1>n, <1>39 DEF RestartTone, Points
<1>40. ASSUME NEW s \in Slots, restartHeldPartyMOH(s) PROVE Goal
  BY <1>h, <1>n, <1>s, <1>40 DEF restartHeldPartyMOH, Points
<1>41. ASSUME NEW s \in Slots, RestartMohReinvite(s) PROVE Goal
  <2>1. go[s].leg \in Legs /\ live' = live
    BY <1>h, <1>41 DEF RestartMohReinvite
  <2>2. ASSUME NEW w \in {At(s, "mohCheck"), MohOver(s)}
        PROVE  w \in Work /\ HasLeg(w) /\ (Captured(w) => live)
    BY <1>r, <1>t, <2>1, <2>2 DEF Points
  <2>3. \E y, z : \E w \in {At(s, "mohCheck"), MohOver(s)} : Renegotiate(s, y, z, w)
    BY <1>41 DEF RestartMohReinvite
  <2> QED
    BY <1>p, <2>1, <2>2, <2>3
<1>42. ASSUME NEW s \in Slots, RestartMohCheck(s) PROVE Goal
  BY <1>h, <1>n, <1>s, <1>42 DEF RestartMohCheck, Points
<1>43. ASSUME NEW s \in Slots, RestartMoh(s) PROVE Goal
  <2>1. CASE Panic
    <3>1. go' = [t \in Slots |-> Free]
      BY <2>1 DEF Panic
    <3> QED
      BY <3>1, FreshWork DEF Fine
  <2>2. CASE live' = live /\ MohDone(s)
    BY <1>h, <1>s, <1>43, <2>2 DEF RestartMoh
  <2> QED
    BY <1>43, <2>1, <2>2 DEF RestartMoh
<1>44. ASSUME NEW s \in Slots, abortHoldEntry(s) PROVE Goal
  <2>1. CASE Ends(s) /\ live' = live
    BY <1>m, <2>1
  <2>2. CASE go' = [Dead(go) EXCEPT ![s] = Free] /\ live' = FALSE
    BY <1>a, <1>b, <1>c, <2>2
  <2> QED
    BY <1>44, <2>1, <2>2 DEF abortHoldEntry, CancelHold
<1>45. ASSUME NEW s \in Slots, ForgetStuckHold(s) PROVE Goal
  BY <1>h, <1>n, <1>45 DEF ForgetStuckHold, Points
<1>46. ASSUME NEW s \in Slots, HoldOrDefer(s) PROVE Goal
  <2>1. go[s].leg \in Legs /\ live' = live
    BY <1>h, <1>46 DEF HoldOrDefer
  <2>2. Fine([go EXCEPT ![s] = Fresh("enter", go[s].leg)], live)
    BY <1>a, <1>d, <1>h, <2>1
  <2> QED
    BY <1>m, <1>n, <1>46, <2>1, <2>2 DEF HoldOrDefer, Becomes, Fresh, Points
<1>47. ASSUME NEW s \in Slots, recordPendingHold(s) PROVE Goal
  BY <1>m, <1>47 DEF recordPendingHold
<1> QED
  BY <1>1, <1>2, <1>3, <1>4, <1>5, <1>6, <1>7, <1>8, <1>9, <1>10, <1>11, <1>12, <1>13,
     <1>14, <1>15, <1>16, <1>17, <1>18, <1>19, <1>20, <1>21, <1>22, <1>23, <1>24,
     <1>25, <1>26, <1>27, <1>28, <1>29, <1>30, <1>31, <1>32, <1>33, <1>34, <1>35,
     <1>36, <1>37, <1>38, <1>39, <1>40, <1>41, <1>42, <1>43, <1>44, <1>45, <1>46, <1>47
     DEF Next, Entry, Goroutine

-----------------------------------------------------------------------------
(* The entry and the playback *)

\* The entry goes from point to point, with the leg it started with, until its
\* deferred function clears it.
LEMMA EntryKept ==
    ASSUME TypeOK, HInv, Next
    PROVE  entry' \in Steps /\ Entering'
<1> DEFINE Fine(e) == /\ e \in Steps
                      /\ e.at # "idle" => e.leg \in Legs
                      /\ e.at = "idle" => e.tone = "-" /\ e.moh = "-"
<1>a. Fine(entry) /\ (entry.at # "idle" => ac.holdEntering)
  BY DEF TypeOK, HInv, Entering, Steps
<1>b. Fine(NoEntry) /\ NoEntry.at = "idle"
  BY DEF NoEntry, Steps
<1>c. ac.holdEntering => ac'.holdEntering \/ entry' = NoEntry
  BY FlagsStay
<1> DEFINE Goal == Fine(entry') /\ (entry'.at # "idle" => entry.at # "idle" \/ ac'.holdEntering)
<1> SUFFICES Goal
  BY <1>a, <1>b, <1>c DEF Entering
<1>d. ASSUME entry' = entry PROVE Goal
  BY <1>a, <1>d
<1>e. \A x : Fine(OutdatedEntry(x)) /\ OutdatedEntry(x).at = entry.at
  BY <1>a DEF OutdatedEntry, Steps
<1>f. ASSUME NEW s, NEW x, NEW q, NEW w, Renegotiate(s, x, q, w) PROVE Goal
  BY <1>a, <1>d, <1>e, <1>f DEF Renegotiate
<1> USE <1>a
<1>1. CASE markBridgeReady
  BY <1>1 DEF markBridgeReady
<1>2. CASE EndCall
  BY <1>2 DEF EndCall
<1>3. ASSUME NEW x \in Legs, NEW d \in PhoneDirs, Reinvite(x, d) PROVE Goal
  BY <1>3, <1>e DEF Reinvite
<1>4. CASE seedHolderHoldDirection
  BY <1>4 DEF seedHolderHoldDirection, Steps
<1>5. CASE StopForHold
  BY <1>5 DEF StopForHold, Steps
<1>6. CASE StartHoldMedia
  BY <1>6 DEF StartHoldMedia, Steps
<1>7. CASE ToneWait
  BY <1>7 DEF ToneWait, Steps, Tone
<1>8. CASE TonePending
  BY <1>8 DEF TonePending, Steps, Tone
<1>9. CASE ToneEnable
  <2>1. \E t \in {"start", "unpendFail", "override", "reinvite"} : Tone(t)
    BY <1>9 DEF ToneEnable, HolderPath
  <2>2. entry.tone = "enable"
    BY <1>9 DEF ToneEnable
  <2> QED
    BY <2>1, <2>2 DEF Tone, Steps
<1>10. CASE ToneOverride
  BY <1>10 DEF ToneOverride, Steps, Tone
<1>11. CASE ToneReinvite
  BY <1>11 DEF ToneReinvite, Steps, Tone
<1>12. CASE ToneStart
  BY <1>12 DEF ToneStart, Steps, Tone
<1>13. CASE ToneDone
  BY <1>13 DEF ToneDone, Steps, Tone
<1>14. CASE MohEnable
  BY <1>14 DEF MohEnable, Steps, Moh
<1>15. CASE MohReinvite
  BY <1>15 DEF MohReinvite, Steps, Moh
<1>16. CASE MohCheck
  BY <1>16 DEF MohCheck, Steps, Moh
<1>17. CASE MohStart
  <2>1. CASE Panic
    BY <1>b, <2>1 DEF Panic
  <2>2. CASE ~Panic
    BY <1>d, <1>17, <2>2 DEF MohStart, Moh, Steps
  <2> QED
    BY <2>1, <2>2
<1>18. CASE Entered
  BY <1>18 DEF Entered, Steps, CancelHold
<1>19. CASE EnterCleared
  BY <1>19 DEF EnterCleared, Steps, NoEntry
<1>20. ASSUME NEW s \in Slots,
           \/ onMediaUpdate(s) \/ abortHoldEntry(s) \/ ForgetStuckHold(s) \/ HoldOrDefer(s)
           \/ recordPendingHold(s) \/ LeaveStopped(s) \/ LeaveLastWait(s)
           \/ LeaveBridge(s) \/ restartBridgeIfNeeded(s) \/ startHoldMediaWatchdog(s)
    PROVE  Goal
  BY <1>20, <1>d DEF onMediaUpdate, abortHoldEntry, ForgetStuckHold, HoldOrDefer,
     recordPendingHold, LeaveStopped, LeaveLastWait, LeaveBridge, restartBridgeIfNeeded,
     startHoldMediaWatchdog
<1>21. ASSUME NEW s \in Slots,
           \/ EnableHolder(s) \/ Reasserted(s) \/ RestartTone(s)
           \/ restartHeldPartyMOH(s) \/ RestartMohCheck(s)
    PROVE  Goal
  BY <1>21, <1>d DEF EnableHolder, Reasserted, RestartTone, restartHeldPartyMOH, RestartMohCheck
<1>22. ASSUME NEW s \in Slots, enter(s) PROVE Goal
  <2>1. CASE UNCHANGED entry
    BY <1>d, <2>1
  <2>2. CASE /\ entry' = [NoEntry EXCEPT !.at = "seed", !.leg = go[s].leg]
             /\ ac' = [ac EXCEPT !.holdEntering = TRUE, !.holderPhoneHold = TRUE,
                                 !.holdEnterAborted = FALSE, !.bridgeStop = FALSE]
    <3>1. ac'.holdEntering
      BY <2>2 DEF TypeOK
    <3>2. go[s].leg \in Legs
      BY <1>22 DEF enter, HInv, Located, HasLeg
    <3> QED
      BY <2>2, <3>1, <3>2 DEF NoEntry, Steps
  <2> QED
    BY <1>22, <2>1, <2>2 DEF enter
<1>23. ASSUME NEW s \in Slots, leave(s) PROVE Goal
  BY <1>d, <1>23 DEF leave
<1>24. ASSUME NEW s \in Slots, LeaveUnhold(s) PROVE Goal
  BY <1>d, <1>f, <1>24 DEF LeaveUnhold
<1>25. ASSUME NEW s \in Slots, LeaveUnholdHeldParty(s) PROVE Goal
  BY <1>d, <1>f, <1>25 DEF LeaveUnholdHeldParty
<1>26. ASSUME NEW s \in Slots, LeaveWait(s) PROVE Goal
  BY <1>d, <1>f, <1>26 DEF LeaveWait
<1>27. ASSUME NEW s \in Slots, RestartBridge(s) PROVE Goal
  BY <1>d, <1>27 DEF RestartBridge
<1>28. ASSUME NEW s \in Slots, EnsureBridge(s) PROVE Goal
  BY <1>d, <1>28 DEF EnsureBridge
<1>29. ASSUME NEW s \in Slots, reassertHolderHold(s) PROVE Goal
  BY <1>d, <1>29 DEF reassertHolderHold
<1>30. ASSUME NEW s \in Slots, OverrideHolder(s) PROVE Goal
  BY <1>d, <1>30 DEF OverrideHolder
<1>31. ASSUME NEW s \in Slots, ReinviteHolder(s) PROVE Goal
  BY <1>d, <1>f, <1>31 DEF ReinviteHolder
<1>32. ASSUME NEW s \in Slots, RestartMoh(s) PROVE Goal
  <2>1. CASE Panic
    BY <1>b, <2>1 DEF Panic
  <2>2. CASE ~Panic
    BY <1>d, <1>32, <2>2 DEF RestartMoh, Moh, Steps
  <2> QED
    BY <2>1, <2>2
<1>33. ASSUME NEW s \in Slots, ensureBridgeAfterHoldAbort(s) PROVE Goal
  BY <1>f, <1>33 DEF ensureBridgeAfterHoldAbort
<1>34. ASSUME NEW s \in Slots, RestartMohReinvite(s) PROVE Goal
  BY <1>f, <1>34 DEF RestartMohReinvite
<1> QED
  BY <1>1, <1>2, <1>3, <1>4, <1>5, <1>6, <1>7, <1>8, <1>9, <1>10, <1>11, <1>12, <1>13,
     <1>14, <1>15, <1>16, <1>17, <1>18, <1>19, <1>20, <1>21, <1>22, <1>23, <1>24,
     <1>25, <1>26, <1>27, <1>28, <1>29, <1>30, <1>31, <1>32,
     <1>33, <1>34
     DEF Next, Entry, Goroutine

\* Playback starts only under a context that is alive, and ends with it.
LEMMA PlayingKept ==
    ASSUME TypeOK, HInv, Next
    PROVE  /\ Playing'
           /\ live' \in BOOLEAN /\ media' \subseteq ({"tone", "moh"} \X Legs)
           /\ failed' \in BOOLEAN /\ ended' \in {"no", "hangup", "panic"}
<1>a. /\ live \in BOOLEAN /\ media \subseteq ({"tone", "moh"} \X Legs)
      /\ failed \in BOOLEAN /\ ended \in {"no", "hangup", "panic"}
      /\ media # {} => live
      /\ live => ended = "no" /\ (ac.HoldActive \/ entry.at = "media")
      /\ entry.at # "idle" => entry.leg \in Legs
      /\ entry.at = "idle" => entry.tone = "-" /\ entry.moh = "-"
      /\ \A s \in Slots : /\ go[s].job = "watch" => go[s].leg \in Legs
                          /\ go[s].at \in {"mohCheck", "mohStart", "mohReinvite"} => go[s].leg \in Legs
                          /\ go[s].job = "watch" /\ go[s].flag => live
  BY DEF TypeOK, HInv, Playing, Captured, Entering, Located, HasLeg
<1>b. \A s \in Slots : Captured(go'[s]) => live'
  BY GoKept
<1>c. ac.HoldActive => ac'.HoldActive \/ ~live'
  BY FlagsStay
<1> DEFINE Types == /\ live' \in BOOLEAN /\ media' \subseteq ({"tone", "moh"} \X Legs)
                    /\ failed' \in BOOLEAN /\ ended' \in {"no", "hangup", "panic"}
           Goal == /\ Types
                   /\ media' # {} => live'
                   /\ live' => ended' = "no" /\ (ac'.HoldActive \/ entry'.at = "media")
<1> SUFFICES Goal
  BY <1>b DEF Playing
<1>d. ASSUME UNCHANGED <<live, media, failed, ended>>, entry.at = "media" => entry'.at = "media"
      PROVE  Goal
  BY <1>a, <1>c, <1>d
<1>e. ASSUME CancelHold, failed' \in BOOLEAN, ended' \in {"no", "hangup", "panic"} PROVE Goal
  BY <1>e DEF CancelHold
<1>f. ASSUME Panic, failed' = failed PROVE Goal
  BY <1>a, <1>f DEF Panic
<1>g. /\ \A y : startMOH(y) # {} => media # {} \/ live
      /\ \A y \in Legs : startMOH(y) \subseteq ({"tone", "moh"} \X Legs)
      /\ \A b, y : startToneLoop(b, y) # {} => media # {} \/ b
      /\ \A b : \A y \in Legs : startToneLoop(b, y) \subseteq ({"tone", "moh"} \X Legs)
  BY <1>a DEF startMOH, startToneLoop
<1>h. ASSUME UNCHANGED <<live, failed, ended>>, entry.at = "media" => entry'.at = "media",
             media' # {} => live, media' \subseteq ({"tone", "moh"} \X Legs)
      PROVE  Goal
  BY <1>a, <1>c, <1>h
<1>i. \A x : OutdatedEntry(x).at = entry.at
  BY DEF OutdatedEntry, TypeOK
<1>j. ASSUME UNCHANGED <<live, media, failed, ended>>,
             NEW s, NEW x, NEW q, NEW w, Renegotiate(s, x, q, w)
      PROVE  Goal
  BY <1>d, <1>i, <1>j DEF Renegotiate
<1>1. CASE markBridgeReady
  BY <1>d, <1>1 DEF markBridgeReady
<1>2. CASE EndCall
  BY <1>a, <1>e, <1>2 DEF EndCall
<1>3. ASSUME NEW x \in Legs, NEW d \in PhoneDirs, Reinvite(x, d) PROVE Goal
  BY <1>d, <1>i, <1>3 DEF Reinvite
<1>4. CASE seedHolderHoldDirection
  BY <1>d, <1>4 DEF seedHolderHoldDirection
<1>5. CASE StopForHold
  BY <1>d, <1>5 DEF StopForHold
<1>6. CASE StartHoldMedia
  BY <1>a, <1>6 DEF StartHoldMedia, TypeOK
<1>7. CASE ToneWait
  BY <1>d, <1>7 DEF ToneWait, Tone, TypeOK
<1>8. CASE TonePending
  BY <1>d, <1>8 DEF TonePending, Tone, TypeOK
<1>9. CASE ToneEnable
  BY <1>d, <1>9 DEF ToneEnable, Tone, TypeOK
<1>10. CASE ToneOverride
  BY <1>d, <1>10 DEF ToneOverride, Tone, TypeOK
<1>11. CASE ToneReinvite
  BY <1>d, <1>11 DEF ToneReinvite, Tone, TypeOK
<1>12. CASE ToneStart
  <2>1. entry.leg \in Legs /\ UNCHANGED <<live, failed, ended>> /\ media' \in {media, startToneLoop(live, entry.leg)}
    BY <1>a, <1>12 DEF ToneStart
  <2>2. entry'.at = entry.at
    BY <1>12 DEF ToneStart, Tone, TypeOK
  <2> QED
    BY <1>a, <1>g, <1>h, <2>1, <2>2
<1>13. CASE ToneDone
  BY <1>d, <1>13 DEF ToneDone, Tone, TypeOK
<1>14. CASE MohEnable
  BY <1>d, <1>14 DEF MohEnable, Moh, TypeOK
<1>15. CASE MohReinvite
  BY <1>d, <1>15 DEF MohReinvite, Moh, TypeOK
<1>16. CASE MohCheck
  BY <1>d, <1>16 DEF MohCheck, Moh, TypeOK
<1>17. CASE MohStart
  <2>1. CASE Panic
    BY <1>f, <1>17, <2>1 DEF MohStart
  <2>2. CASE ~Panic
    <3>1. UNCHANGED <<live, failed, ended>> /\ media' = startMOH(Other(entry.leg))
      BY <1>17, <2>2 DEF MohStart
    <3>2. entry'.at = entry.at
      BY <1>17, <2>2 DEF MohStart, Moh, TypeOK
    <3> QED
      BY <1>a, <1>g, <1>h, <3>1, <3>2, OtherLeg
  <2> QED
    BY <2>1, <2>2
<1>18. CASE Entered
  <2>1. CASE CancelHold
    BY <1>a, <1>e, <1>18, <2>1 DEF Entered, recoverBridge, startTranscodingBridge
  <2>2. CASE ac' = [ac EXCEPT !.HoldActive = TRUE, !.holder = entry.leg] /\ UNCHANGED <<live, media, failed>>
    <3>1. ac'.HoldActive
      BY <2>2 DEF TypeOK
    <3> QED
      BY <1>a, <1>18, <2>2, <3>1 DEF Entered
  <2> QED
    BY <1>18, <2>1, <2>2 DEF Entered
<1>19. CASE EnterCleared
  BY <1>d, <1>19 DEF EnterCleared
<1>20. ASSUME NEW s \in Slots, onMediaUpdate(s) PROVE Goal
  BY <1>d, <1>20 DEF onMediaUpdate, HolderUpdate, HeldPartyUpdate, PlainUpdate
<1>21. ASSUME NEW s \in Slots, enter(s) PROVE Goal
  <2>1. CASE UNCHANGED entry
    BY <1>d, <1>21, <2>1 DEF enter
  <2>2. CASE ~ac.holdEntering
    BY <1>d, <1>21, <2>2 DEF enter, HInv, Entering
  <2> QED
    BY <1>21, <2>1, <2>2 DEF enter
<1>22. ASSUME NEW s \in Slots, leave(s) PROVE Goal
  BY <1>a, <1>d, <1>e, <1>22 DEF leave
<1>23. ASSUME NEW s \in Slots, LeaveStopped(s) PROVE Goal
  BY <1>a, <1>h, <1>23 DEF LeaveStopped
<1>24. ASSUME NEW s \in Slots, LeaveUnhold(s) PROVE Goal
  BY <1>d, <1>j, <1>24 DEF LeaveUnhold
<1>25. ASSUME NEW s \in Slots, LeaveUnholdHeldParty(s) PROVE Goal
  BY <1>d, <1>j, <1>25 DEF LeaveUnholdHeldParty
<1>26. ASSUME NEW s \in Slots, LeaveWait(s) PROVE Goal
  BY <1>d, <1>j, <1>26 DEF LeaveWait
<1>27. ASSUME NEW s \in Slots, LeaveLastWait(s) PROVE Goal
  BY <1>d, <1>27 DEF LeaveLastWait
<1>28. ASSUME NEW s \in Slots, LeaveBridge(s) PROVE Goal
  BY <1>a, <1>c, <1>28 DEF LeaveBridge, recoverBridge, startTranscodingBridge
<1>29. ASSUME NEW s \in Slots, restartBridgeIfNeeded(s) PROVE Goal
  BY <1>d, <1>29 DEF restartBridgeIfNeeded
<1>30. ASSUME NEW s \in Slots, RestartBridge(s) PROVE Goal
  BY <1>a, <1>c, <1>30 DEF RestartBridge, recoverBridge, startTranscodingBridge
<1>31. ASSUME NEW s \in Slots, ensureBridgeAfterHoldAbort(s) PROVE Goal
  BY <1>j, <1>31 DEF ensureBridgeAfterHoldAbort
<1>32. ASSUME NEW s \in Slots, EnsureBridge(s) PROVE Goal
  BY <1>a, <1>c, <1>32 DEF EnsureBridge, recoverBridge, startTranscodingBridge
<1>33. ASSUME NEW s \in Slots, startHoldMediaWatchdog(s) PROVE Goal
  BY <1>d, <1>33 DEF startHoldMediaWatchdog
<1>34. ASSUME NEW s \in Slots, reassertHolderHold(s) PROVE Goal
  BY <1>d, <1>34 DEF reassertHolderHold
<1>35. ASSUME NEW s \in Slots, EnableHolder(s) PROVE Goal
  BY <1>d, <1>35 DEF EnableHolder
<1>36. ASSUME NEW s \in Slots, OverrideHolder(s) PROVE Goal
  BY <1>d, <1>36 DEF OverrideHolder
<1>37. ASSUME NEW s \in Slots, ReinviteHolder(s) PROVE Goal
  BY <1>d, <1>j, <1>37 DEF ReinviteHolder
<1>38. ASSUME NEW s \in Slots, Reasserted(s) PROVE Goal
  BY <1>d, <1>38 DEF Reasserted
<1>39. ASSUME NEW s \in Slots, RestartTone(s) PROVE Goal
  <2>1. /\ UNCHANGED <<live, failed, ended, entry>> /\ go[s].leg \in Legs
        /\ media' = startToneLoop(go[s].at = "tone" /\ go[s].flag, go[s].leg)
        /\ go[s].flag => live
    BY <1>a, <1>39 DEF RestartTone
  <2>2. media' # {} => live
    BY <1>a, <2>1 DEF startToneLoop
  <2>3. media' \subseteq ({"tone", "moh"} \X Legs)
    BY <1>a, <2>1 DEF startToneLoop
  <2> QED
    BY <1>h, <2>1, <2>2, <2>3
<1>40. ASSUME NEW s \in Slots, restartHeldPartyMOH(s) PROVE Goal
  BY <1>d, <1>40 DEF restartHeldPartyMOH
<1>41. ASSUME NEW s \in Slots, RestartMohReinvite(s) PROVE Goal
  BY <1>j, <1>41 DEF RestartMohReinvite
<1>42. ASSUME NEW s \in Slots, RestartMohCheck(s) PROVE Goal
  BY <1>d, <1>42 DEF RestartMohCheck
<1>43. ASSUME NEW s \in Slots, RestartMoh(s) PROVE Goal
  <2>1. CASE Panic
    BY <1>f, <1>43, <2>1 DEF RestartMoh
  <2>2. CASE ~Panic
    <3>1. UNCHANGED <<live, failed, ended, entry>> /\ media' = startMOH(HeldLeg(s)) /\ HeldLeg(s) \in Legs
      BY <1>a, <1>43, <2>2, OtherLeg DEF RestartMoh, HeldLeg
    <3> QED
      BY <1>a, <1>g, <1>h, <3>1
  <2> QED
    BY <2>1, <2>2
<1>44. ASSUME NEW s \in Slots, abortHoldEntry(s) PROVE Goal
  BY <1>a, <1>d, <1>e, <1>44 DEF abortHoldEntry
<1>45. ASSUME NEW s \in Slots, ForgetStuckHold(s) PROVE Goal
  BY <1>d, <1>45 DEF ForgetStuckHold
<1>46. ASSUME NEW s \in Slots, HoldOrDefer(s) PROVE Goal
  BY <1>d, <1>46 DEF HoldOrDefer
<1>47. ASSUME NEW s \in Slots, recordPendingHold(s) PROVE Goal
  BY <1>d, <1>47 DEF recordPendingHold
<1> QED
  BY <1>1, <1>2, <1>3, <1>4, <1>5, <1>6, <1>7, <1>8, <1>9, <1>10, <1>11, <1>12, <1>13,
     <1>14, <1>15, <1>16, <1>17, <1>18, <1>19, <1>20, <1>21, <1>22, <1>23, <1>24,
     <1>25, <1>26, <1>27, <1>28, <1>29, <1>30, <1>31, <1>32, <1>33, <1>34, <1>35,
     <1>36, <1>37, <1>38, <1>39, <1>40, <1>41, <1>42, <1>43, <1>44, <1>45, <1>46, <1>47
     DEF Next, Entry, Goroutine

\* A phone sends no more re-INVITEs than it may.
LEMMA LeftKept ==
    ASSUME TypeOK, HInv, Next
    PROVE  left' \in [Legs -> Nat] /\ \E b \in Budgets : \A x \in Legs : left'[x] \in 0..b[x]
<1>a. PICK b \in Budgets : \A x \in Legs : left[x] \in 0..b[x]
  BY DEF TypeOK
<1>b. left \in [Legs -> Nat] /\ \A x \in Legs : b[x] \in Nat
  BY HoldAssumption DEF HInv, Legs
<1> DEFINE Goal == left' \in [Legs -> Nat] /\ \E c \in Budgets : \A x \in Legs : left'[x] \in 0..c[x]
<1> SUFFICES Goal
  OBVIOUS
<1>c. ASSUME left' = left PROVE Goal
  BY <1>a, <1>b, <1>c
<1>1. CASE markBridgeReady
  BY <1>c, <1>1 DEF markBridgeReady
<1>2. CASE EndCall
  BY <1>c, <1>2 DEF EndCall
<1>3. ASSUME NEW x \in Legs, NEW d \in PhoneDirs, Reinvite(x, d) PROVE Goal
  <2>1. left' = [left EXCEPT ![x] = @ - 1] /\ left[x] > 0
    BY <1>3 DEF Reinvite
  <2> QED
    BY <1>a, <1>b, <2>1
<1>4. CASE \/ seedHolderHoldDirection \/ StopForHold \/ StartHoldMedia \/ TonePending
         \/ ToneEnable \/ ToneDone \/ MohEnable
  BY <1>4, <1>c DEF seedHolderHoldDirection, StopForHold, StartHoldMedia, TonePending, ToneEnable,
     ToneDone, MohEnable
<1>5. CASE \/ MohCheck \/ EnterCleared
  BY <1>5, <1>c DEF MohCheck, EnterCleared
<1>6. CASE ToneWait
  BY <1>c, <1>6 DEF ToneWait
<1>7. CASE ToneOverride
  BY <1>c, <1>7 DEF ToneOverride
<1>8. CASE ToneReinvite
  BY <1>c, <1>8 DEF ToneReinvite
<1>9. CASE ToneStart
  BY <1>c, <1>9 DEF ToneStart
<1>10. CASE MohReinvite
  BY <1>c, <1>10 DEF MohReinvite
<1>11. CASE MohStart
  BY <1>c, <1>11 DEF MohStart
<1>12. CASE Entered
  BY <1>c, <1>12 DEF Entered
<1>13. ASSUME NEW s \in Slots,
           \/ onMediaUpdate(s) \/ abortHoldEntry(s) \/ ForgetStuckHold(s) \/ HoldOrDefer(s)
           \/ recordPendingHold(s) \/ LeaveStopped(s) \/ LeaveLastWait(s)
           \/ LeaveBridge(s) \/ restartBridgeIfNeeded(s) \/ ensureBridgeAfterHoldAbort(s)
           \/ startHoldMediaWatchdog(s)
    PROVE  Goal
  BY <1>13, <1>c DEF abortHoldEntry, ForgetStuckHold, HoldOrDefer, recordPendingHold, onMediaUpdate, LeaveStopped, LeaveLastWait, LeaveBridge, restartBridgeIfNeeded,
     ensureBridgeAfterHoldAbort, startHoldMediaWatchdog
<1>14. ASSUME NEW s \in Slots,
           \/ EnableHolder(s) \/ Reasserted(s) \/ RestartTone(s)
           \/ restartHeldPartyMOH(s) \/ RestartMohReinvite(s) \/ RestartMohCheck(s)
    PROVE  Goal
  BY <1>14, <1>c DEF EnableHolder, Reasserted, RestartTone, restartHeldPartyMOH, RestartMohReinvite,
     RestartMohCheck
<1>15. ASSUME NEW s \in Slots, enter(s) PROVE Goal
  BY <1>c, <1>15 DEF enter
<1>16. ASSUME NEW s \in Slots, leave(s) PROVE Goal
  BY <1>c, <1>16 DEF leave
<1>17. ASSUME NEW s \in Slots, LeaveUnhold(s) PROVE Goal
  BY <1>c, <1>17 DEF LeaveUnhold
<1>18. ASSUME NEW s \in Slots, LeaveUnholdHeldParty(s) PROVE Goal
  BY <1>c, <1>18 DEF LeaveUnholdHeldParty
<1>19. ASSUME NEW s \in Slots, LeaveWait(s) PROVE Goal
  BY <1>c, <1>19 DEF LeaveWait
<1>20. ASSUME NEW s \in Slots, RestartBridge(s) PROVE Goal
  BY <1>c, <1>20 DEF RestartBridge
<1>21. ASSUME NEW s \in Slots, EnsureBridge(s) PROVE Goal
  BY <1>c, <1>21 DEF EnsureBridge
<1>22. ASSUME NEW s \in Slots, reassertHolderHold(s) PROVE Goal
  BY <1>c, <1>22 DEF reassertHolderHold
<1>23. ASSUME NEW s \in Slots, OverrideHolder(s) PROVE Goal
  BY <1>c, <1>23 DEF OverrideHolder
<1>24. ASSUME NEW s \in Slots, ReinviteHolder(s) PROVE Goal
  BY <1>c, <1>24 DEF ReinviteHolder
<1>25. ASSUME NEW s \in Slots, RestartMoh(s) PROVE Goal
  BY <1>c, <1>25 DEF RestartMoh
<1> QED
  BY <1>1, <1>2, <1>3, <1>4, <1>5, <1>6, <1>7, <1>8, <1>9, <1>10, <1>11, <1>12, <1>13,
     <1>14, <1>15, <1>16, <1>17, <1>18, <1>19, <1>20, <1>21, <1>22, <1>23, <1>24,
     <1>25
     DEF Next, Entry, Goroutine

-----------------------------------------------------------------------------
(* The theorems *)

\* The call starts without a hold, whatever the phones are going to send.
LEMMA Initially == Init => TypeOK /\ HInv
<1> SUFFICES ASSUME Init PROVE TypeOK /\ HInv
  OBVIOUS
<1>1. left \in [Legs -> Nat] /\ \E b \in Budgets : \A x \in Legs : left[x] \in 0..b[x]
  <2>1. left \in Budgets /\ left \in [Legs -> Nat]
    BY HoldAssumption DEF Init, Legs
  <2> QED
    BY <2>1
<1>2. /\ ac \in Flags /\ dir \in [Legs -> Directions] /\ live = FALSE /\ media = {}
      /\ failed = FALSE /\ ended = "no" /\ entry = NoEntry /\ go = [s \in Slots |-> Free]
  BY DEF Init, Flags, Directions
<1>3. NoEntry \in Steps /\ NoEntry.at = "idle" /\ NoEntry.tone = "-" /\ NoEntry.moh = "-"
  BY DEF NoEntry, Steps
<1>4. TypeOK
  BY <1>1, <1>2, <1>3, FreshWork DEF TypeOK, Flags, Steps, Work
<1> QED
  BY <1>1, <1>2, <1>3, <1>4, FreshWork DEF HInv, Entering, Located, Playing

\* A step keeps the types and the invariant.
LEMMA StepKeeps == TypeOK /\ HInv /\ [Next]_vars => (TypeOK /\ HInv)'
<1> SUFFICES ASSUME TypeOK, HInv, [Next]_vars PROVE (TypeOK /\ HInv)'
  OBVIOUS
<1>1. CASE UNCHANGED vars
  BY <1>1 DEF vars, TypeOK, HInv, Entering, Located, Playing
<1>2. CASE Next
  <2>1. TypeOK'
    BY <1>2, FlagsKept, DirsKept, GoKept, EntryKept, PlayingKept, LeftKept
       DEF TypeOK, Flags, Steps, Work
  <2> QED
    BY <1>2, <2>1, GoKept, EntryKept, PlayingKept, LeftKept DEF HInv, Located
<1> QED
  BY <1>1, <1>2

\* The inductive invariant holds in every reachable state.
THEOREM Inductive == Spec => [](TypeOK /\ HInv)
BY Initially, StepKeeps, PTL DEF Spec

\* Flags, entry and goroutines of the hold controller keep their types, however
\* many goroutines run at a time.
THEOREM Typing == Spec => []TypeOK
BY Inductive, PTL

\* Dial tone and hold music are played in a hold only: while it is active or
\* being entered (startToneLoop, startHeldPartyMOH, leave, the watchdog).
THEOREM InHold == Spec => []MusicOnlyInHold
<1>1. HInv => MusicOnlyInHold
  BY DEF HInv, Entering, Playing, MusicOnlyInHold
<1> QED
  BY <1>1, Inductive, PTL
=============================================================================
