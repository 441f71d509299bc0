---------------------------- MODULE HoldControl ----------------------------
(***************************************************************************)
(* The hold controller of one bridged call (internal/call/hold_*.go).      *)
(*                                                                         *)
(* Both phones send re-INVITEs at any time.  Each one renegotiates the     *)
(* direction of its leg and runs a callback, which decides from flags of   *)
(* the ActiveCall and starts goroutines: enter a hold, leave it, reassert  *)
(* it, restart the bridge or the music.  These run for seconds, take       *)
(* holdMu only for single regions, and meet each other half way.           *)
(***************************************************************************)
EXTENDS Naturals, FiniteSets

CONSTANTS PhoneDirs,     \* directions that a phone's re-INVITE may negotiate
          Budgets,       \* bound: how many re-INVITEs each phone may send
          MaxGoroutines, \* bound: goroutines of the controller at one time
          WatchRounds    \* rounds of the hold media watchdog (3 in the code)

\* A phone may hold with recvonly, with inactive, or with "zero": sendrecv and
\* the connection address 0.0.0.0.  sendonly is only ever the server's.
Directions == {"sendrecv", "zero", "recvonly", "inactive", "sendonly"}

ASSUME HoldAssumption ==
    /\ PhoneDirs \subseteq Directions \ {"sendonly"}
    /\ Budgets \subseteq [{"in", "out"} -> Nat]
    /\ MaxGoroutines \in Nat \ {0}
    /\ WatchRounds \in Nat

Legs == {"in", "out"}
Other(x) == IF x = "in" THEN "out" ELSE "in"
Slots == 1..MaxGoroutines

VARIABLES
    dir,      \* negotiated direction of each leg
    ac,       \* the flags of the ActiveCall that holdMu guards
    live,     \* the context behind holdCancel has not been cancelled
    media,    \* what is being played: kind and leg
    entry,    \* the goroutine inside enter(), its dial tone and music halves
    go,       \* the other goroutines
    left,     \* re-INVITEs each phone may still send
    failed,   \* some start of the bridge has failed
    ended     \* "no", or how the call ended: "hangup" or "panic" of the server

vars == <<dir, ac, live, media, entry, go, left, failed, ended>>

NoLeg == "none"
Free == [job |-> "free", at |-> "-", leg |-> NoLeg, holder |-> NoLeg,
         flag |-> FALSE, rounds |-> 0]
NoEntry == [at |-> "idle", leg |-> NoLeg, tone |-> "-", moh |-> "-"]

Jobs == {"free", "update", "enter", "leave", "reassert", "restart", "ensure",
         "restartMOH", "refreshMOH", "watch"}
Points == {"-", "start", "abort", "stuck", "hold", "record", "stop", "unhold",
           "unheld", "wait", "last", "bridge", "recheck", "enable", "override", "stale", "reinvite", "tone",
           "again", "moh", "mohReinvite", "mohCheck", "mohStart"}

TypeOK ==
    /\ dir \in [Legs -> Directions]
    /\ ac \in [HoldActive : BOOLEAN, holder : Legs \cup {NoLeg},
               holdEntering : BOOLEAN, holdEnterAborted : BOOLEAN,
               holderPhoneHold : BOOLEAN, holderSawRecvonly : BOOLEAN,
               holderLegHeld : BOOLEAN, prevHeld : BOOLEAN,
               holderReasserting : BOOLEAN, dialTonePending : BOOLEAN,
               pendingHold : Legs \cup {NoLeg}, bridgeReady : BOOLEAN,
               heldPartyMOHSendonly : BOOLEAN, holdMediaRoot : BOOLEAN,
               bridgeStop : BOOLEAN]
    /\ live \in BOOLEAN
    /\ media \subseteq ({"tone", "moh"} \X Legs)
    /\ entry \in [at : {"idle", "seed", "stop", "root", "media", "clear"},
                  leg : Legs \cup {NoLeg},
                  tone : {"-", "wait", "pend", "enable", "override", "stale",
                          "reinvite", "start", "unpendOK", "unpendFail", "ok", "fail"},
                  moh : {"-", "enable", "reinvite", "check", "start", "ok", "fail"}]
    /\ go \in [Slots -> [job : Jobs, at : Points, leg : Legs \cup {NoLeg},
                         holder : Legs \cup {NoLeg}, flag : BOOLEAN,
                         rounds : 0..WatchRounds]]
    /\ \E b \in Budgets : \A x \in Legs : left[x] \in 0..b[x]
    /\ failed \in BOOLEAN
    /\ ended \in {"no", "hangup", "panic"}

Init ==
    /\ dir = [x \in Legs |-> "sendrecv"]
    /\ ac = [HoldActive |-> FALSE, holder |-> NoLeg,
             holdEntering |-> FALSE, holdEnterAborted |-> FALSE,
             holderPhoneHold |-> FALSE, holderSawRecvonly |-> FALSE,
             holderLegHeld |-> FALSE, prevHeld |-> FALSE,
             holderReasserting |-> FALSE, dialTonePending |-> FALSE,
             pendingHold |-> NoLeg, bridgeReady |-> FALSE,
             heldPartyMOHSendonly |-> FALSE, holdMediaRoot |-> FALSE,
             bridgeStop |-> FALSE]
    /\ live = FALSE
    /\ media = {}
    /\ entry = NoEntry
    /\ go = [s \in Slots |-> Free]
    /\ left \in Budgets
    /\ failed = FALSE
    /\ ended = "no"

-----------------------------------------------------------------------------
(* Directions *)

negotiatedMediaDirection(d) == IF d = "zero" THEN "sendrecv" ELSE d
remoteHoldMode(d) == d \in {"recvonly", "inactive", "zero"}
legCanSendMedia(d) == negotiatedMediaDirection(d) \in {"sendonly", "sendrecv"}
SendRecv(x) == negotiatedMediaDirection(dir[x]) = "sendrecv"
legsReadyForBridge == \A x \in Legs : SendRecv(x)

\* What a re-INVITE of the server may come to, the direction of the leg and
\* whether the phone has answered: without an answer the leg stays as it is.
Unanswered(x) == <<dir[x], FALSE>>
HoldResults(x) == {<<"sendonly", TRUE>>, <<"inactive", TRUE>>, Unanswered(x)}
UnholdResults(x) ==
    {Unanswered(x)} \cup IF SendRecv(x) THEN {} ELSE {<<"sendrecv", TRUE>>, <<"recvonly", TRUE>>}

-----------------------------------------------------------------------------
(* Goroutines *)

FreeSlots(g) == {s \in Slots : g[s].job = "free"}
Spawn(g, j, x) ==
    LET s == CHOOSE s \in FreeSlots(g) : \A t \in FreeSlots(g) : s <= t
    IN  [g EXCEPT ![s] = [Free EXCEPT !.job = j, !.at = "start", !.leg = x]]
At(s, p) == [go[s] EXCEPT !.at = p]
Move(s, p) == go' = [go EXCEPT ![s] = At(s, p)]
Ends(s) == go' = [go EXCEPT ![s] = Free]

\* A cancelled context stops all that plays under it; a captured copy of it
\* (flag of a watchdog) is dead as well.
CancelHold == /\ live' = FALSE
              /\ media' = {}
Dead(g) == [s \in Slots |-> IF g[s].job = "watch" THEN [g[s] EXCEPT !.flag = FALSE]
                                                  ELSE g[s]]

\* The flags that leave() and a failed entry clear.
Cleared(a) == [a EXCEPT !.holderPhoneHold = FALSE, !.holderSawRecvonly = FALSE,
                        !.holderLegHeld = FALSE]

\* A bridge between two legs starts, or fails because a leg has no RTP session
\* or a codec that cannot be transcoded.
startTranscodingBridge == {"started", "error"}

\* The start of a bridge and the store of its stop function.
recoverBridge(a) ==
    \E result \in startTranscodingBridge :
        /\ ac' = IF result = "started" THEN [a EXCEPT !.bridgeStop = TRUE] ELSE a
        /\ failed' = (failed \/ result = "error")

\* A tone loop runs for as long as its context does, so not at all under a
\* cancelled one.
startToneLoop(alive, x) == IF alive THEN media \cup {<<"tone", x>>} ELSE media

\* An answered re-INVITE, the phone's or the server's, gives the leg a new media
\* session.  Whoever overrides the direction of the old one does so in vain.
Outdated(x, g) == [s \in Slots |-> IF g[s].leg = x /\ g[s].at = "override"
                                   THEN [g[s] EXCEPT !.at = "stale"] ELSE g[s]]
OutdatedEntry(x) == IF entry.leg = x /\ entry.tone = "override"
                    THEN [entry EXCEPT !.tone = "stale"] ELSE entry

\* A goroutine's re-INVITE of leg x with result r, after which it goes on as w.
Renegotiate(s, x, r, w) ==
    /\ dir' = [dir EXCEPT ![x] = r[1]]
    /\ go' = [(IF r[2] THEN Outdated(x, go) ELSE go) EXCEPT ![s] = w]
    /\ entry' = IF r[2] THEN OutdatedEntry(x) ELSE entry

-----------------------------------------------------------------------------
(* Set-up and end of the call, re-INVITEs *)

\* Connect stores the first bridge and replays a hold that came too early.
markBridgeReady ==
    /\ ~ac.bridgeReady /\ ended = "no"
    /\ ac.pendingHold = NoLeg \/ FreeSlots(go) # {}
    /\ ac' = [ac EXCEPT !.bridgeReady = TRUE, !.bridgeStop = TRUE, !.pendingHold = NoLeg]
    /\ go' = IF ac.pendingHold = NoLeg THEN go ELSE Spawn(go, "enter", ac.pendingHold)
    /\ UNCHANGED <<dir, live, media, entry, left, failed, ended>>

\* waitDialogPair: a phone has hung up; bridge and playback are stopped.
EndCall ==
    /\ ac.bridgeReady /\ ended = "no"
    /\ ended' = "hangup"
    /\ CancelHold
    /\ go' = Dead(go)
    /\ UNCHANGED <<dir, ac, entry, left, failed>>

\* A phone's re-INVITE renegotiates the leg, and the callback takes its snapshot
\* of the hold.  It is answered after the callback, and the phone sends no other
\* before that.  There are so few at a time that callbacks never wait for a slot
\* of each other's.
Callbacks == {s \in Slots : go[s].job = "update"}
Reinvite(x, d) ==
    /\ ended = "no" /\ left[x] > 0
    /\ \A s \in Callbacks : go[s].leg # x
    /\ Cardinality(FreeSlots(go)) > Cardinality(Callbacks)
    /\ left' = [left EXCEPT ![x] = @ - 1]
    /\ dir' = [dir EXCEPT ![x] = d]
    /\ entry' = OutdatedEntry(x)
    /\ LET s == CHOOSE t \in FreeSlots(go) : TRUE
       IN  go' = [Outdated(x, go) EXCEPT ![s] =
                      [Free EXCEPT !.job = "update", !.at = "start", !.leg = x,
                                   !.flag = ac.HoldActive, !.holder = ac.holder]]
    /\ UNCHANGED <<ac, live, media, failed, ended>>

\* The phone of the holder has resumed the call.
shouldLeaveOnPhoneUnhold(x) ==
    /\ ~ac.dialTonePending /\ SendRecv(x)
    /\ ac.holderPhoneHold /\ ac.holderSawRecvonly
    /\ ac.holderLegHeld \/ (ac.prevHeld /\ ~ac.holdEntering)

\* It has not, although it says sendrecv: hold again.
shouldReassertHolderHold(x) ==
    /\ ~ac.dialTonePending /\ ~ac.holderReasserting /\ SendRecv(x)
    /\ ac.holderPhoneHold /\ ac.holderSawRecvonly /\ ~ac.holderLegHeld

\* A sendrecv during enter() is a release when the entry is two seconds old,
\* which is left open here, and noise before that.
phoneReleasedDuringEnter(x) ==
    /\ SendRecv(x) /\ ac.holdEntering /\ ~ac.HoldActive
    /\ ac.holderPhoneHold /\ ac.holderSawRecvonly

\* Wrong: the nil check of bridgeStop is the wrong way round.
maybeRestartBridgeAfterUnhold_inverted ==
    /\ ac.bridgeReady /\ ac.bridgeStop /\ ~ac.HoldActive /\ ~ac.holdEntering
    /\ legsReadyForBridge

maybeRestartBridgeAfterUnhold ==
    /\ ac.bridgeReady /\ ~ac.bridgeStop /\ ~ac.HoldActive /\ ~ac.holdEntering
    /\ legsReadyForBridge

\* The goroutine of the callback goes on as the one it started.
Becomes(s, j, x) == go' = [go EXCEPT ![s] = [Free EXCEPT !.job = j, !.at = "start", !.leg = x]]

noteHolderHoldDirection(x) ==
    [ac EXCEPT !.prevHeld = dir[x] \in {"recvonly", "inactive"},
               !.holderSawRecvonly = @ \/ remoteHoldMode(dir[x]),
               !.holderPhoneHold = @ \/ remoteHoldMode(dir[x])]

\* The holder's own leg has changed while the hold is active.
HolderUpdate(s, x) ==
    /\ IF shouldLeaveOnPhoneUnhold(x)
       THEN Becomes(s, "leave", x) /\ UNCHANGED ac
       ELSE IF shouldReassertHolderHold(x)
       THEN Becomes(s, "reassert", x) /\ UNCHANGED ac
       ELSE ac' = noteHolderHoldDirection(x) /\ Ends(s)
    /\ UNCHANGED <<live, media>>

\* The held party's leg has changed, so that its media session is another one
\* and the music has to be started again, unless that has happened already.
\* Only a callee's leg is looked at.
HeldPartyUpdate(s, x) ==
    /\ \/ x = "out" /\ Becomes(s, "restartMOH", x)
       \/ x = "out" /\ ~legCanSendMedia(dir[x]) /\ Becomes(s, "refreshMOH", x)
       \/ (x = "in" \/ legCanSendMedia(dir[x])) /\ Ends(s)
    /\ UNCHANGED <<ac, live, media>>

\* A re-INVITE outside of a hold: a release aborts the entry that is under way,
\* any other restarts a missing bridge first.
PlainUpdate(s, x) ==
    /\ \/ phoneReleasedDuringEnter(x) /\ Move(s, "abort")
       \/ ~maybeRestartBridgeAfterUnhold /\ Move(s, IF x = "in" THEN "stuck" ELSE "hold")
       \/ /\ maybeRestartBridgeAfterUnhold /\ FreeSlots(go) # {}
          /\ go' = Spawn([go EXCEPT ![s] = At(s, IF x = "in" THEN "stuck" ELSE "hold")],
                         "restart", NoLeg)
    /\ UNCHANGED <<ac, live, media>>

onMediaUpdate(s) ==
    LET x == go[s].leg
    IN  /\ go[s].job = "update" /\ go[s].at = "start"
        /\ \/ go[s].flag /\ go[s].holder = x /\ HolderUpdate(s, x)
           \/ go[s].flag /\ go[s].holder # x /\ HeldPartyUpdate(s, x)
           \/ ~go[s].flag /\ PlainUpdate(s, x)
        /\ UNCHANGED <<dir, entry, left, failed, ended>>

\* The entry may be over when its abort comes, or be another one.
abortHoldEntry(s) ==
    /\ go[s].job = "update" /\ go[s].at = "abort"
    /\ IF ~ac.holdEntering \/ ac.HoldActive
       THEN Ends(s) /\ UNCHANGED <<ac, live, media>>
       ELSE /\ ac' = [ac EXCEPT !.holdEnterAborted = TRUE]
            /\ CancelHold
            /\ go' = [Dead(go) EXCEPT ![s] = Free]
    /\ UNCHANGED <<dir, entry, left, failed, ended>>

\* A caller's leg that is sendrecv forgets a hold that is over.
ForgetStuckHold(s) ==
    /\ go[s].job = "update" /\ go[s].at = "stuck"
    /\ ac' = IF SendRecv(go[s].leg) /\ ac.holderPhoneHold /\ ~ac.holdEntering
             THEN Cleared(ac) ELSE ac
    /\ Move(s, "hold")
    /\ UNCHANGED <<dir, live, media, entry, left, failed, ended>>

\* A hold is entered, or remembered if bridgeIsReady says no ...
HoldOrDefer(s) ==
    /\ go[s].job = "update" /\ go[s].at = "hold"
    /\ IF ~remoteHoldMode(dir[go[s].leg]) THEN Ends(s)
       ELSE IF ac.bridgeReady THEN Becomes(s, "enter", go[s].leg)
       ELSE Move(s, "record")
    /\ UNCHANGED <<dir, ac, live, media, entry, left, failed, ended>>

\* ... which may be outdated by then, so that nobody looks for this one.
recordPendingHold(s) ==
    /\ go[s].job = "update" /\ go[s].at = "record"
    /\ ac' = [ac EXCEPT !.pendingHold = go[s].leg]
    /\ Ends(s)
    /\ UNCHANGED <<dir, live, media, entry, left, failed, ended>>

-----------------------------------------------------------------------------
(* enableHolderSendMedia: may the server write to the holder's leg? *)

\* Where it goes after reading the flags and the leg: at once, by overriding
\* the direction of a leg the phone holds, or by a re-INVITE of its own.
HolderPath(x) ==
    IF ~ac.holderPhoneHold /\ dir[x] \in {"sendonly", "sendrecv"} THEN "sendable"
    ELSE IF ac.holdEnterAborted THEN "refused"
    ELSE IF ac.holderPhoneHold /\ remoteHoldMode(dir[x]) THEN "override"
    ELSE "reinvite"

\* A leg the phone holds may be written to only as sendonly.
legCanSendDialTone(d, phoneHold) == IF phoneHold THEN d = "sendonly" ELSE legCanSendMedia(d)

-----------------------------------------------------------------------------
(* enter *)

enter(s) ==
    /\ go[s].job = "enter"
    /\ Ends(s)
    /\ IF ac.HoldActive \/ ac.holdEntering \/ ~remoteHoldMode(dir[go[s].leg])
       THEN UNCHANGED <<ac, entry>>
       ELSE /\ ac' = [ac EXCEPT !.holdEntering = TRUE, !.holderPhoneHold = TRUE,
                                !.holdEnterAborted = FALSE, !.bridgeStop = FALSE]
            /\ entry' = [NoEntry EXCEPT !.at = "seed", !.leg = go[s].leg]
    /\ UNCHANGED <<dir, live, media, left, failed, ended>>

seedHolderHoldDirection ==
    /\ entry.at = "seed"
    /\ ac' = [ac EXCEPT !.prevHeld = dir[entry.leg] \in {"recvonly", "inactive"},
                        !.holderSawRecvonly = @ \/ remoteHoldMode(dir[entry.leg])]
    /\ entry' = [entry EXCEPT !.at = "stop"]
    /\ UNCHANGED <<dir, live, media, go, left, failed, ended>>

\* The old bridge is stopped.  A hold that became active meanwhile ends the entry.
StopForHold ==
    /\ entry.at = "stop"
    /\ entry' = [entry EXCEPT !.at = IF ac.HoldActive THEN "clear" ELSE "root"]
    /\ UNCHANGED <<dir, ac, live, media, go, left, failed, ended>>

\* A context for the hold's playback, then both halves at once.
StartHoldMedia ==
    /\ entry.at = "root"
    /\ ac' = [ac EXCEPT !.holdMediaRoot = TRUE]
    /\ live' = (ended = "no")
    /\ entry' = [entry EXCEPT !.at = "media", !.tone = "wait", !.moh = "enable"]
    /\ UNCHANGED <<dir, media, go, left, failed, ended>>

\* The halves of the entry.
Tone(p) == entry' = [entry EXCEPT !.tone = p]
Moh(p) == entry' = [entry EXCEPT !.moh = p]

\* Wait for the phone's hold to be negotiated, at most a second.
ToneWait ==
    /\ entry.tone = "wait"
    /\ IF ac.holdEnterAborted
       THEN Tone("fail") /\ UNCHANGED ac
       ELSE /\ Tone("pend")
            /\ ac' = IF remoteHoldMode(dir[entry.leg])
                     THEN [ac EXCEPT !.holderPhoneHold = TRUE, !.holderSawRecvonly = TRUE]
                     ELSE ac
    /\ UNCHANGED <<dir, live, media, go, left, failed, ended>>

TonePending ==
    /\ entry.tone = "pend"
    /\ ac' = [ac EXCEPT !.dialTonePending = TRUE]
    /\ Tone(IF ac.holdEnterAborted THEN "unpendFail" ELSE "enable")
    /\ UNCHANGED <<dir, live, media, go, left, failed, ended>>

ToneEnable ==
    LET x == entry.leg
        path == HolderPath(x)
    IN  /\ entry.tone = "enable"
        /\ Tone(CASE path = "sendable" -> "start"
                  [] path = "refused" -> "unpendFail"
                  [] OTHER -> path)
        /\ ac' = IF path = "sendable" /\ dir[x] = "sendonly"
                 THEN [ac EXCEPT !.holderLegHeld = TRUE] ELSE ac
        /\ UNCHANGED <<dir, live, media, go, left, failed, ended>>

\* The override reaches the leg only if its session is still the one it was.
ToneOverride ==
    /\ entry.tone \in {"override", "stale"}
    /\ IF ac.holdEnterAborted
       THEN Tone("unpendFail") /\ UNCHANGED <<dir, ac>>
       ELSE /\ Tone("start")
            /\ ac' = [ac EXCEPT !.holderLegHeld = TRUE]
            /\ dir' = IF entry.tone = "override"
                      THEN [dir EXCEPT ![entry.leg] = "sendonly"] ELSE dir
    /\ UNCHANGED <<live, media, go, left, failed, ended>>

ToneReinvite ==
    /\ entry.tone = "reinvite"
    /\ \/ ac.holdEnterAborted /\ Tone("unpendFail") /\ UNCHANGED <<dir, ac, go>>
       \/ /\ ~ac.holdEnterAborted
          /\ \E r \in HoldResults(entry.leg) :
                /\ dir' = [dir EXCEPT ![entry.leg] = r[1]]
                /\ go' = IF r[2] THEN Outdated(entry.leg, go) ELSE go
                /\ IF r[2] /\ legCanSendDialTone(r[1], ac.holderPhoneHold)
                   THEN Tone("start") /\ ac' = [ac EXCEPT !.holderLegHeld = TRUE]
                   ELSE Tone("unpendFail") /\ UNCHANGED ac
    /\ UNCHANGED <<live, media, left, failed, ended>>

ToneStart ==
    /\ entry.tone = "start"
    /\ IF ac.holdEnterAborted
       THEN Tone("unpendFail") /\ UNCHANGED media
       ELSE /\ Tone("unpendOK")
            /\ media' = startToneLoop(live, entry.leg)
    /\ UNCHANGED <<dir, ac, live, go, left, failed, ended>>

ToneDone ==
    /\ entry.tone \in {"unpendOK", "unpendFail"}
    /\ ac' = [ac EXCEPT !.dialTonePending = FALSE]
    /\ Tone(IF entry.tone = "unpendOK" THEN "ok" ELSE "fail")
    /\ UNCHANGED <<dir, live, media, go, left, failed, ended>>

\* enableHeldPartyMOHMedia: a leg that can be written to is left alone, any
\* other gets a re-INVITE and, when that does not help, is unheld again.
MohEnable ==
    /\ entry.moh = "enable"
    /\ Moh(IF legCanSendMedia(dir[Other(entry.leg)]) THEN "check"
           ELSE IF ac.holdEnterAborted THEN "fail" ELSE "reinvite")
    /\ UNCHANGED <<dir, ac, live, media, go, left, failed, ended>>

\* What the held party's re-INVITEs come to; only sendonly is heldPartyMOHSendonly.
HeldPartyResults(y) == HoldResults(y) \cup UnholdResults(y)
MOHSendonly(r) == r = <<"sendonly", TRUE>>

MohReinvite ==
    LET y == Other(entry.leg)
    IN  /\ entry.moh = "reinvite"
        /\ \/ /\ ac.holdEnterAborted
              /\ Moh(IF legCanSendMedia(dir[y]) THEN "check" ELSE "fail")
              /\ UNCHANGED <<dir, ac, go>>
           \/ /\ ~ac.holdEnterAborted
              /\ \E r \in HeldPartyResults(y) :
                    /\ dir' = [dir EXCEPT ![y] = r[1]]
                    /\ ac' = [ac EXCEPT !.heldPartyMOHSendonly = MOHSendonly(r)]
                    /\ go' = IF r[2] THEN Outdated(y, go) ELSE go
                    /\ Moh(IF legCanSendMedia(r[1]) THEN "check" ELSE "fail")
        /\ UNCHANGED <<live, media, left, failed, ended>>

\* startHeldPartyMOH looks at holdMediaRoot before it takes the lock ...
MohCheck ==
    /\ entry.moh = "check"
    /\ Moh(IF ac.holdEnterAborted \/ ~ac.holdMediaRoot THEN "fail" ELSE "start")
    /\ UNCHANGED <<dir, ac, live, media, go, left, failed, ended>>

\* ... and derives a context from it afterwards, which panics on a nil one.
Panic ==
    /\ ended' = "panic"
    /\ go' = [s \in Slots |-> Free]
    /\ entry' = NoEntry
    /\ media' = {}
    /\ live' = FALSE

\* Music for leg y replaces the music that plays, if the leg can be written to.
startMOH(y) == {m \in media : m[1] # "moh"}
            \cup IF live /\ legCanSendMedia(dir[y]) THEN {<<"moh", y>>} ELSE {}

MohStart ==
    LET y == Other(entry.leg)
    IN  /\ entry.moh = "start"
        /\ \/ ~ac.holdMediaRoot /\ Panic
           \/ /\ ac.holdMediaRoot
              /\ media' = startMOH(y)
              /\ Moh(IF legCanSendMedia(dir[y]) THEN "ok" ELSE "fail")
              /\ UNCHANGED <<live, go, ended>>
        /\ UNCHANGED <<dir, ac, left, failed>>

\* Both halves are done: the entry was aborted, overtaken, came to nothing, or
\* the hold is active from now on.
Entered ==
    /\ entry.at = "media" /\ entry.tone \in {"ok", "fail"} /\ entry.moh \in {"ok", "fail"}
    /\ entry' = [entry EXCEPT !.at = "clear"]
    /\ \/ /\ ac.holdEnterAborted /\ FreeSlots(go) # {}
          /\ CancelHold
          /\ recoverBridge([Cleared(ac) EXCEPT !.dialTonePending = FALSE])
          /\ go' = Spawn(Dead(go), "ensure", NoLeg)
       \/ /\ ~ac.holdEnterAborted /\ entry.tone = "fail" /\ entry.moh = "fail"
          /\ CancelHold
          /\ recoverBridge(Cleared(ac))
          /\ go' = Dead(go)
       \/ /\ ~ac.holdEnterAborted /\ (entry.tone = "ok" \/ entry.moh = "ok")
          /\ FreeSlots(go) # {}
          /\ ac' = [ac EXCEPT !.HoldActive = TRUE, !.holder = entry.leg]
          /\ go' = LET g == Spawn(go, "watch", entry.leg)
                   IN  [s \in Slots |-> IF g[s] # go[s]
                                        THEN [g[s] EXCEPT !.rounds = WatchRounds] ELSE g[s]]
          /\ UNCHANGED <<live, media, failed>>
    /\ UNCHANGED <<dir, left, ended>>

\* Wrong: holdEntering stays set.
EnterCleared_onlyAbort ==
    /\ entry.at = "clear"
    /\ ac' = [ac EXCEPT !.holdEnterAborted = FALSE]
    /\ entry' = NoEntry
    /\ UNCHANGED <<dir, live, media, go, left, failed, ended>>

\* The deferred function of enter().
EnterCleared ==
    /\ entry.at = "clear"
    /\ ac' = [ac EXCEPT !.holdEntering = FALSE, !.holdEnterAborted = FALSE]
    /\ entry' = NoEntry
    /\ UNCHANGED <<dir, live, media, go, left, failed, ended>>

-----------------------------------------------------------------------------
(* leave *)

\* The flags of the hold that leave() resets; the goroutine keeps the holder
\* and whether the server holds the holder's leg.
Forget(a) == [Cleared(a) EXCEPT !.prevHeld = FALSE, !.holderReasserting = FALSE,
                                !.holdMediaRoot = FALSE, !.holder = NoLeg]
Leaving(g, s) == [g EXCEPT ![s] = [@ EXCEPT !.at = "unhold", !.holder = ac.holder,
                                            !.flag = ac.holderLegHeld]]

\* End the hold and its playback.  A bridge that was started meanwhile is
\* stopped with the lock released, and the flags are reset only after that.
leave(s) ==
    /\ go[s].job = "leave" /\ go[s].at = "start"
    /\ IF ~ac.HoldActive
       THEN Ends(s) /\ UNCHANGED <<ac, live, media>>
       ELSE /\ CancelHold
            /\ IF ac.bridgeStop
               THEN /\ ac' = [ac EXCEPT !.HoldActive = FALSE, !.bridgeStop = FALSE]
                    /\ go' = [Dead(go) EXCEPT ![s].at = "stop"]
               ELSE /\ ac' = Forget([ac EXCEPT !.HoldActive = FALSE])
                    /\ go' = Leaving(Dead(go), s)
    /\ UNCHANGED <<dir, entry, left, failed, ended>>

LeaveStopped(s) ==
    /\ go[s].job = "leave" /\ go[s].at = "stop"
    /\ ac' = Forget(ac)
    /\ media' = {m \in media : m[1] # "moh"}
    /\ go' = Leaving(go, s)
    /\ UNCHANGED <<dir, live, entry, left, failed, ended>>

\* Unhold the holder's leg if the server held it, then the held party's.
LeaveUnhold(s) ==
    /\ go[s].job = "leave" /\ go[s].at = "unhold"
    /\ IF go[s].flag /\ go[s].holder # NoLeg
       THEN \E r \in UnholdResults(go[s].holder) : Renegotiate(s, go[s].holder, r, At(s, "unheld"))
       ELSE Move(s, "unheld") /\ UNCHANGED <<dir, entry>>
    /\ UNCHANGED <<ac, live, media, left, failed, ended>>

LeaveUnholdHeldParty(s) ==
    LET y == Other(go[s].holder)
    IN  /\ go[s].job = "leave" /\ go[s].at = "unheld"
        /\ ac' = [ac EXCEPT !.heldPartyMOHSendonly = FALSE]
        /\ IF ac.heldPartyMOHSendonly /\ go[s].holder # NoLeg
           THEN \E r \in UnholdResults(y) : Renegotiate(s, y, r, At(s, "wait"))
           ELSE Move(s, "wait") /\ UNCHANGED <<dir, entry>>
        /\ UNCHANGED <<live, media, left, failed, ended>>

\* Wait for both legs; when time is up, unhold the holder's leg once more.
LeaveWait(s) ==
    /\ go[s].job = "leave" /\ go[s].at = "wait"
    /\ IF ~legsReadyForBridge /\ go[s].holder # NoLeg
       THEN \E r \in UnholdResults(go[s].holder) : Renegotiate(s, go[s].holder, r, At(s, "last"))
       ELSE /\ Move(s, IF legsReadyForBridge THEN "bridge" ELSE "last")
            /\ UNCHANGED <<dir, entry>>
    /\ UNCHANGED <<ac, live, media, left, failed, ended>>

LeaveLastWait(s) ==
    /\ go[s].job = "leave" /\ go[s].at = "last"
    /\ IF legsReadyForBridge THEN Move(s, "bridge") ELSE Ends(s)
    /\ UNCHANGED <<dir, ac, live, media, entry, left, failed, ended>>

\* The bridge is started and stored whatever has happened since.
LeaveBridge(s) ==
    /\ go[s].job = "leave" /\ go[s].at = "bridge"
    /\ recoverBridge(ac)
    /\ Ends(s)
    /\ UNCHANGED <<dir, live, media, entry, left, ended>>

-----------------------------------------------------------------------------
(* Restarting the bridge *)

restartBridgeIfNeeded(s) ==
    /\ go[s].job = "restart" /\ go[s].at = "start"
    /\ IF maybeRestartBridgeAfterUnhold THEN Move(s, "recheck") ELSE Ends(s)
    /\ UNCHANGED <<dir, ac, live, media, entry, left, failed, ended>>

RestartBridge(s) ==
    /\ go[s].job = "restart" /\ go[s].at = "recheck"
    /\ Ends(s)
    /\ IF maybeRestartBridgeAfterUnhold THEN recoverBridge(ac) ELSE UNCHANGED <<ac, failed>>
    /\ UNCHANGED <<dir, live, media, entry, left, ended>>

\* After an aborted entry: unhold one leg and the other, then wait for them.
ensureBridgeAfterHoldAbort(s) ==
    /\ go[s].job = "ensure"
    /\ \/ /\ go[s].at = "start"
          /\ \E r \in UnholdResults("in") : Renegotiate(s, "in", r, At(s, "unheld"))
       \/ /\ go[s].at = "unheld"
          /\ \E r \in UnholdResults("out") : Renegotiate(s, "out", r, At(s, "wait"))
    /\ UNCHANGED <<ac, live, media, left, failed, ended>>

EnsureBridge(s) ==
    /\ go[s].job = "ensure" /\ go[s].at = "wait"
    /\ Ends(s)
    /\ IF ~ac.HoldActive /\ ~ac.holdEntering /\ ~ac.bridgeStop /\ legsReadyForBridge
       THEN recoverBridge(ac) ELSE UNCHANGED <<ac, failed>>
    /\ UNCHANGED <<dir, live, media, entry, left, ended>>

-----------------------------------------------------------------------------
(* Keeping the playback of an active hold alive *)

\* Wrong: the rounds are not limited.
startHoldMediaWatchdog_endless(s) ==
    /\ go[s].job = "watch" /\ go[s].at = "start"
    /\ \/ Ends(s)
       \/ /\ ac.HoldActive /\ ac.holdMediaRoot
          /\ go' = [go EXCEPT ![s].at = "enable", ![s].flag = live, ![s].rounds = @ - 1]
    /\ UNCHANGED <<dir, ac, live, media, entry, left, failed, ended>>

\* The watchdog sleeps; it gives up when the hold is over or both parties have
\* been heard, else it restarts tone and music under the context it finds.
startHoldMediaWatchdog(s) ==
    /\ go[s].job = "watch" /\ go[s].at = "start"
    /\ \/ Ends(s)
       \/ /\ ac.HoldActive /\ ac.holdMediaRoot /\ go[s].rounds > 0
          /\ go' = [go EXCEPT ![s].at = "enable", ![s].flag = live, ![s].rounds = @ - 1]
    /\ UNCHANGED <<dir, ac, live, media, entry, left, failed, ended>>

reassertHolderHold(s) ==
    /\ go[s].job = "reassert" /\ go[s].at = "start"
    /\ IF ac.holderReasserting \/ ~ac.HoldActive
       THEN Ends(s) /\ UNCHANGED ac
       ELSE Move(s, "enable") /\ ac' = [ac EXCEPT !.holderReasserting = TRUE]
    /\ UNCHANGED <<dir, live, media, entry, left, failed, ended>>

\* enableHolderSendMedia of a watchdog or a reassert.  "tone" and "again" are
\* where it returns true and false.
EnableHolder(s) ==
    LET x == go[s].leg
        path == HolderPath(x)
    IN  /\ go[s].at = "enable"
        /\ Move(s, CASE path = "sendable" -> "tone"
                     [] path = "refused" -> "again"
                     [] OTHER -> path)
        /\ ac' = IF path = "sendable" /\ dir[x] = "sendonly"
                 THEN [ac EXCEPT !.holderLegHeld = TRUE] ELSE ac
        /\ UNCHANGED <<dir, live, media, entry, left, failed, ended>>

OverrideHolder(s) ==
    /\ go[s].at \in {"override", "stale"}
    /\ IF ac.holdEnterAborted
       THEN Move(s, "again") /\ UNCHANGED <<dir, ac>>
       ELSE /\ Move(s, "tone")
            /\ ac' = [ac EXCEPT !.holderLegHeld = TRUE]
            /\ dir' = IF go[s].at = "override"
                      THEN [dir EXCEPT ![go[s].leg] = "sendonly"] ELSE dir
    /\ UNCHANGED <<live, media, entry, left, failed, ended>>

ReinviteHolder(s) ==
    LET x == go[s].leg
    IN  /\ go[s].at = "reinvite"
        /\ \/ ac.holdEnterAborted /\ Move(s, "again") /\ UNCHANGED <<dir, ac, entry>>
           \/ /\ ~ac.holdEnterAborted
              /\ \E r \in HoldResults(x) :
                    IF r[2] /\ legCanSendDialTone(r[1], ac.holderPhoneHold)
                    THEN /\ Renegotiate(s, x, r, At(s, "tone"))
                         /\ ac' = [ac EXCEPT !.holderLegHeld = TRUE]
                    ELSE Renegotiate(s, x, r, At(s, "again")) /\ UNCHANGED ac
        /\ UNCHANGED <<live, media, left, failed, ended>>

\* A reassert ends with the leg sendonly, or takes sendrecv for a release.
Reasserted(s) ==
    LET x == go[s].leg
    IN  /\ go[s].job = "reassert" /\ go[s].at \in {"tone", "again"}
        /\ ac' = [ac EXCEPT !.holderReasserting = FALSE]
        /\ IF SendRecv(x) THEN Becomes(s, "leave", x) ELSE Ends(s)
        /\ UNCHANGED <<dir, live, media, entry, left, failed, ended>>

\* Wrong: the dial tone runs under the context of the call.
RestartTone_callContext(s) ==
    /\ go[s].job = "watch" /\ go[s].at \in {"tone", "again"}
    /\ media' = startToneLoop(go[s].at = "tone", go[s].leg)
    /\ Move(s, "moh")
    /\ UNCHANGED <<dir, ac, live, entry, left, failed, ended>>

\* The watchdog's dial tone, played under the context it captured.
RestartTone(s) ==
    /\ go[s].job = "watch" /\ go[s].at \in {"tone", "again"}
    /\ media' = startToneLoop(go[s].at = "tone" /\ go[s].flag, go[s].leg)
    /\ Move(s, "moh")
    /\ UNCHANGED <<dir, ac, live, entry, left, failed, ended>>

\* restartHeldPartyMOH, by itself or for a watchdog, and refreshHeldPartyMOH.
HeldLeg(s) == IF go[s].job = "watch" THEN Other(go[s].leg) ELSE go[s].leg
MohOver(s) == IF go[s].job = "watch" THEN At(s, "start") ELSE Free
MohDone(s) == go' = [go EXCEPT ![s] = MohOver(s)]

restartHeldPartyMOH(s) ==
    /\ \/ go[s].job \in {"restartMOH", "refreshMOH"} /\ go[s].at = "start"
       \/ go[s].job = "watch" /\ go[s].at = "moh"
    /\ IF ~ac.HoldActive THEN MohDone(s)
       ELSE Move(s, IF legCanSendMedia(dir[HeldLeg(s)]) THEN "mohCheck" ELSE "mohReinvite")
    /\ UNCHANGED <<dir, ac, live, media, entry, left, failed, ended>>

RestartMohReinvite(s) ==
    LET y == HeldLeg(s)
    IN  /\ go[s].at = "mohReinvite"
        /\ \E r \in HeldPartyResults(y) :
              /\ ac' = [ac EXCEPT !.heldPartyMOHSendonly = MOHSendonly(r)]
              /\ Renegotiate(s, y, r, IF legCanSendMedia(r[1]) THEN At(s, "mohCheck") ELSE MohOver(s))
        /\ UNCHANGED <<live, media, left, failed, ended>>

RestartMohCheck(s) ==
    /\ go[s].at = "mohCheck"
    /\ IF go[s].job # "refreshMOH" /\ ac.holdMediaRoot THEN Move(s, "mohStart")
                                                       ELSE MohDone(s)
    /\ UNCHANGED <<dir, ac, live, media, entry, left, failed, ended>>

RestartMoh(s) ==
    /\ go[s].at = "mohStart"
    /\ \/ ~ac.holdMediaRoot /\ Panic
       \/ /\ ac.holdMediaRoot
          /\ media' = startMOH(HeldLeg(s))
          /\ MohDone(s)
          /\ UNCHANGED <<live, entry, ended>>
    /\ UNCHANGED <<dir, ac, left, failed>>

-----------------------------------------------------------------------------
Entry ==
    /\ entry.at # "idle"
    /\ \/ seedHolderHoldDirection \/ StopForHold \/ StartHoldMedia
       \/ ToneWait \/ TonePending \/ ToneEnable \/ ToneOverride \/ ToneReinvite
       \/ ToneStart \/ ToneDone
       \/ MohEnable \/ MohReinvite \/ MohCheck \/ MohStart
       \/ Entered \/ EnterCleared

Goroutine(s) ==
    /\ go[s].job # "free"
    /\ \/ onMediaUpdate(s) \/ abortHoldEntry(s) \/ ForgetStuckHold(s)
       \/ HoldOrDefer(s) \/ recordPendingHold(s) \/ enter(s)
       \/ leave(s) \/ LeaveStopped(s) \/ LeaveUnhold(s) \/ LeaveUnholdHeldParty(s)
       \/ LeaveWait(s) \/ LeaveLastWait(s) \/ LeaveBridge(s)
       \/ restartBridgeIfNeeded(s) \/ RestartBridge(s)
       \/ ensureBridgeAfterHoldAbort(s) \/ EnsureBridge(s)
       \/ startHoldMediaWatchdog(s) \/ reassertHolderHold(s)
       \/ EnableHolder(s) \/ OverrideHolder(s) \/ ReinviteHolder(s)
       \/ Reasserted(s) \/ RestartTone(s)
       \/ restartHeldPartyMOH(s) \/ RestartMohReinvite(s) \/ RestartMohCheck(s)
       \/ RestartMoh(s)

Next ==
    \/ markBridgeReady \/ EndCall
    \/ \E x \in Legs, d \in PhoneDirs : Reinvite(x, d)
    \/ Entry
    \/ \E s \in Slots : Goroutine(s)

\* The server's goroutines are scheduled and all their waits have time limits;
\* the phones owe nothing.
Fairness == WF_vars(Entry) /\ \A s \in Slots : WF_vars(Goroutine(s))

Spec == Init /\ [][Next]_vars /\ Fairness

-----------------------------------------------------------------------------
\* Dial tone and music are played only in a hold, that is while the hold is
\* active or being entered (hold_control.go, hold_media.go): no restart by the
\* watchdog, no refresh and no entry that was aborted plays on after leave().
MusicOnlyInHold ==
    media # {} => ac.HoldActive \/ ac.holdEntering

\* Two-way audio comes back (REQ-HOLD-3): when a phone's re-INVITE finds both
\* legs sendrecv and nobody holding, there is a bridge before long, unless the
\* bridge cannot be started, the phones change their minds or the call ends.
Released(s) == /\ go[s].job = "update" /\ go[s].at = "start" /\ ~go[s].flag /\ ac.bridgeReady
               /\ ~ac.HoldActive /\ ~ac.holdEntering /\ legsReadyForBridge
AudioComesBack ==
    (\E s \in Slots : Released(s))
        ~> (ac.bridgeStop \/ ac.HoldActive \/ ac.holdEntering \/ ~legsReadyForBridge
            \/ failed \/ ended # "no")

\* Entering a hold comes to an end, so that the next hold is not refused for ever.
EntryEnds == ac.holdEntering ~> ~ac.holdEntering \/ ended = "panic"
=============================================================================
