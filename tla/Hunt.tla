------------------------------- MODULE Hunt -------------------------------
(***************************************************************************)
(* One call to a hunt group: internal/hunt/hunt.go with BridgePair.Join of *)
(* internal/call/bridge.go.  Members are tried one after the other, or all *)
(* at once by one goroutine each that offer an answered leg on a channel   *)
(* of capacity one.                                                        *)
(***************************************************************************)
EXTENDS Naturals, FiniteSets

CONSTANT N      \* members of the group, in priority order

ASSUME NAssumption == N \in Nat \ {0}

Members == 1..N
NoMember == 0

VARIABLES
    pc,         \* where Run stands
    strategy,   \* the group's strategy
    in,         \* the caller's dialog
    out,        \* every member's dialog
    next,       \* sequential: index of the loop
    late,       \* the ring timeout is over
    dialer,     \* simultaneous: the goroutine that dials a member
    answered,   \* the channel
    winner,     \* the member whose leg is joined
    cancelled   \* cancel() of simultaneous has been called

vars == <<pc, strategy, in, out, next, late, dialer, answered, winner, cancelled>>

Live  == {"early", "up"}
Ended == {"byPhone", "byServer"}

\* A phone that still has the call: the server closes an abandoned dialog on its
\* own side without a BYE, or with one that nobody repeats.
Open  == {"up", "abandoned"}

TypeOK ==
    /\ pc \in {"idle", "dial", "ringing", "busy", "select", "join", "bridge",
               "talk", "done", "failed"}
    /\ strategy \in {"sequential", "simultaneous"}
    /\ in \in {"none"} \cup Live \cup Ended
    /\ out \in [Members -> {"none", "abandoned"} \cup Live \cup Ended]
    /\ next \in 1..(N + 1)
    /\ late \in BOOLEAN /\ cancelled \in BOOLEAN
    /\ dialer \in [Members -> {"idle", "dialing", "answered", "done"}]
    /\ answered \in Members \cup {NoMember}
    /\ winner \in Members \cup {NoMember}

Init ==
    /\ pc = "idle"
    /\ strategy \in {"sequential", "simultaneous"}
    /\ in = "none"
    /\ out = [m \in Members |-> "none"]
    /\ next = 1
    /\ late = FALSE /\ cancelled = FALSE
    /\ dialer = [m \in Members |-> "idle"]
    /\ answered = NoMember /\ winner = NoMember

Drop(d) == IF d \in Live THEN "byServer" ELSE d
Abandon(d) == IF d = "up" THEN "abandoned" ELSE d

-----------------------------------------------------------------------------
(* Phones and clock *)

Run ==
    /\ pc = "idle"
    /\ in' = "early"
    /\ IF strategy = "sequential"
       THEN pc' = "dial" /\ UNCHANGED <<out, dialer>>
       ELSE /\ pc' = "select"
            /\ out' = [m \in Members |-> "early"]
            /\ dialer' = [m \in Members |-> "dialing"]
    /\ UNCHANGED <<strategy, next, late, answered, winner, cancelled>>

CallerHangup ==
    /\ in \in Live
    /\ in' = "byPhone"
    /\ UNCHANGED <<pc, strategy, out, next, late, dialer, answered, winner, cancelled>>

MemberHangup(m) ==
    /\ out[m] = "up"
    /\ out' = [out EXCEPT ![m] = "byPhone"]
    /\ UNCHANGED <<pc, strategy, in, next, late, dialer, answered, winner, cancelled>>

RingTimeout ==
    /\ pc \in {"dial", "ringing", "select"} /\ ~late
    /\ late' = TRUE
    /\ UNCHANGED <<pc, strategy, in, out, next, dialer, answered, winner, cancelled>>

-----------------------------------------------------------------------------
(* sequential *)

TryNext_pastTheEnd ==
    /\ pc = "dial"
    /\ IF late
       THEN pc' = "busy" /\ UNCHANGED out
       ELSE pc' = "ringing" /\ out' = [out EXCEPT ![next] = "early"]
    /\ UNCHANGED <<strategy, in, next, late, dialer, answered, winner, cancelled>>

TryNext ==
    /\ pc = "dial"
    /\ IF next > N \/ late
       THEN pc' = "busy" /\ UNCHANGED out
       ELSE pc' = "ringing" /\ out' = [out EXCEPT ![next] = "early"]
    /\ UNCHANGED <<strategy, in, next, late, dialer, answered, winner, cancelled>>

MemberFails_stillRinging ==
    /\ pc = "ringing"
    /\ next' = next + 1
    /\ pc' = "dial"
    /\ UNCHANGED <<strategy, in, out, late, dialer, answered, winner, cancelled>>

\* Not registered, refused, timed out, or the caller is gone: CANCEL.
MemberFails ==
    /\ pc = "ringing"
    /\ out' = [out EXCEPT ![next] = "none"]
    /\ next' = next + 1
    /\ pc' = "dial"
    /\ UNCHANGED <<strategy, in, late, dialer, answered, winner, cancelled>>

MemberAnswers ==
    /\ pc = "ringing"
    /\ out' = [out EXCEPT ![next] = "up"]
    /\ winner' = next
    /\ pc' = "join"
    /\ UNCHANGED <<strategy, in, next, late, dialer, answered, cancelled>>

\* PlayBusyThenHangup
Busy ==
    /\ pc = "busy"
    /\ in' = Drop(in)
    /\ pc' = "done"
    /\ UNCHANGED <<strategy, out, next, late, dialer, answered, winner, cancelled>>

-----------------------------------------------------------------------------
(* simultaneous *)

DialFails_noCancel(m) ==
    /\ dialer[m] = "dialing"
    /\ dialer' = [dialer EXCEPT ![m] = "done"]
    /\ UNCHANGED <<pc, strategy, in, out, next, late, answered, winner, cancelled>>

\* Not registered, refused, timed out, or the context is done: CANCEL.
DialFails(m) ==
    /\ dialer[m] = "dialing"
    /\ out' = [out EXCEPT ![m] = "none"]
    /\ dialer' = [dialer EXCEPT ![m] = "done"]
    /\ UNCHANGED <<pc, strategy, in, next, late, answered, winner, cancelled>>

\* An answer can cross the CANCEL of a context that is already done.
DialAnswered(m) ==
    /\ dialer[m] = "dialing"
    /\ out' = [out EXCEPT ![m] = "up"]
    /\ dialer' = [dialer EXCEPT ![m] = "answered"]
    /\ UNCHANGED <<pc, strategy, in, next, late, answered, winner, cancelled>>

Offer_dropsSilently(m) ==
    /\ dialer[m] = "answered"
    /\ answered' = IF answered = NoMember THEN m ELSE answered
    /\ dialer' = [dialer EXCEPT ![m] = "done"]
    /\ UNCHANGED <<pc, strategy, in, out, next, late, winner, cancelled>>

\* The send that does not block: a leg that finds the channel full is hung up,
\* under a context that may be cancelled, which does not wait for the answer.
Offer(m) ==
    /\ dialer[m] = "answered"
    /\ \/ answered = NoMember /\ answered' = m /\ UNCHANGED out
       \/ /\ answered # NoMember
          /\ \/ out' = [out EXCEPT ![m] = Drop(@)]
             \/ cancelled /\ out' = [out EXCEPT ![m] = Abandon(@)]
          /\ UNCHANGED answered
    /\ dialer' = [dialer EXCEPT ![m] = "done"]
    /\ UNCHANGED <<pc, strategy, in, next, late, winner, cancelled>>

\* The first answered leg stops the other dials: cancel() of the context that
\* Join is then called with.
Receive ==
    /\ pc = "select"
    /\ answered # NoMember
    /\ winner' = answered
    /\ answered' = NoMember
    /\ cancelled' = TRUE
    /\ pc' = "join"
    /\ UNCHANGED <<strategy, in, out, next, late, dialer>>

GiveUp_untilCallerThere ==
    /\ pc = "select"
    /\ late
    /\ in \in Live
    /\ in' = "byServer"
    /\ cancelled' = TRUE
    /\ pc' = "done"
    /\ UNCHANGED <<strategy, out, next, late, dialer, answered, winner>>

\* time.After: busy tone, and the deferred cancel.
GiveUp ==
    /\ pc = "select"
    /\ late
    /\ in' = Drop(in)
    /\ cancelled' = TRUE
    /\ pc' = "done"
    /\ UNCHANGED <<strategy, out, next, late, dialer, answered, winner>>

-----------------------------------------------------------------------------
(* BridgePair.Join *)

\* Join returns an error: the member's leg is closed, which sends no BYE, and
\* diago hangs the caller up when the handler returns.
JoinFails ==
    /\ pc' = "failed"
    /\ in' = Drop(in)
    /\ out' = [out EXCEPT ![winner] = Abandon(@)]

\* A caller who is gone cannot be answered; one who is there may refuse.
Answer ==
    /\ pc = "join"
    /\ \/ in = "early" /\ in' = "up" /\ pc' = "bridge" /\ UNCHANGED out
       \/ JoinFails
    /\ UNCHANGED <<strategy, next, late, dialer, answered, winner, cancelled>>

\* The legs' media or codecs may not fit.
StartBridge ==
    /\ pc = "bridge"
    /\ \/ pc' = "talk" /\ UNCHANGED <<in, out>>
       \/ JoinFails
    /\ UNCHANGED <<strategy, next, late, dialer, answered, winner, cancelled>>

TalkEnds_callerOnly ==
    /\ pc = "talk"
    /\ in \in Ended
    /\ out' = [out EXCEPT ![winner] = Drop(@)]
    /\ pc' = "done"
    /\ UNCHANGED <<strategy, in, next, late, dialer, answered, winner, cancelled>>

\* waitDialogPair: a leg ends or the context is done.
TalkEnds ==
    /\ pc = "talk"
    /\ in \in Ended \/ out[winner] \in Ended \/ cancelled
    /\ in' = Drop(in)
    /\ out' = [out EXCEPT ![winner] = Drop(@)]
    /\ pc' = "done"
    /\ UNCHANGED <<strategy, next, late, dialer, answered, winner, cancelled>>

-----------------------------------------------------------------------------

Handler == TryNext \/ MemberFails \/ Busy \/ Receive \/ GiveUp \/ Answer
           \/ StartBridge \/ TalkEnds
Dialer(m) == DialFails(m) \/ Offer(m)

Next ==
    \/ Run \/ CallerHangup \/ RingTimeout \/ MemberAnswers \/ Handler
    \/ \E m \in Members : MemberHangup(m) \/ DialAnswered(m) \/ Dialer(m)

Spec == Init /\ [][Next]_vars

\* Goroutines are scheduled, clocks run, every dial has a timeout.
FairSpec ==
    /\ Spec
    /\ WF_vars(Handler) /\ WF_vars(RingTimeout)
    /\ \A m \in Members : WF_vars(Dialer(m))

-----------------------------------------------------------------------------
(* Properties *)

\* Someone looks after a leg: the call it was joined to, the goroutine that is
\* about to offer it, or the handler that still reads the channel.
Watched(m) == \/ m = winner /\ pc \in {"join", "bridge", "talk"}
              \/ dialer[m] = "answered"
              \/ m = answered /\ pc = "select"

\* REQ-CALL-4 wants no orphaned dialogs.  The code leaves a phone with a call
\* that nobody watches in three ways and in no other: the winner's leg when Join
\* failed, one leg in the channel that is not read any more, and losers that were
\* hung up under the cancelled context.  In particular the winner of a call that
\* was joined is never left behind (simultaneous, sequential, Join).
EveryLegOwned ==
    \A m \in Members : out[m] \in Open =>
        \/ Watched(m)
        \/ m = winner /\ pc = "failed"
        \/ m = answered
        \/ m # winner /\ out[m] = "abandoned" /\ cancelled

\* A sequential group rings one phone at a time, in the order of priority.
OneAtATime ==
    strategy = "sequential" =>
        \A m \in Members : out[m] \in Live => m = next /\ pc \in {"ringing", "join", "bridge", "talk"}

Over == {"done", "failed"}

\* A caller who hangs up is done: the handler returns, which gives the call
\* slot back, also while every phone is still ringing.
CallerGoneEnds == (in \in Ended) ~> (pc \in Over)

\* When the hunt is over no phone of the group keeps ringing.
RingingStops == (pc \in Over) ~> (\A m \in Members : out[m] # "early")

\* A member who hangs up ends the call for the caller too.
MemberGoneEnds ==
    \A m \in Members :
        (pc = "talk" /\ winner = m /\ out[m] \in Ended) ~> (pc = "done" /\ in \in Ended)

\* The comment on waitBridgedLegs: it waits until a leg hangs up.  The server
\* hangs up both legs of a joined call only after one of them has gone.
JoinedCallLasts ==
    winner # NoMember /\ pc = "done" => ~(in = "byServer" /\ out[winner] = "byServer")
===========================================================================
