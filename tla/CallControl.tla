---------------------------- MODULE CallControl ----------------------------
(***************************************************************************)
(* Two-party calls and the features that move a party between calls:       *)
(* internal/call/{bridge,registry,park}.go and the INVITE handler and star *)
(* codes of internal/pbx/{server,features}.go.                             *)
(*                                                                         *)
(* Every INVITE is served by a goroutine of its own; pc is where it        *)
(* stands.  The dialogs ("legs") of INVITE i are the one it arrived on,    *)
(* the one the server dials for it and the one a REFER makes it dial.      *)
(* Locks are held only inside a step; fields of an ActiveCall that the     *)
(* code reads and writes without a lock are read and written in separate   *)
(* steps.  Phones may hang up at any moment and dial anything.             *)
(***************************************************************************)
EXTENDS Naturals, FiniteSets

CONSTANTS
    Invites,    \* INVITEs the server may receive
    Exts,       \* extension numbers, also the names of the park slots
    MaxCalls,   \* call.Manager's limit on calls that hold a slot
    Features,   \* the features the phones use
    NoExt,      \* no extension
    NoInvite,   \* no call: nil *ActiveCall
    NoLeg,      \* nil dialog
    Absent      \* no entry in the park lot

\* What a phone dials: an extension, a star code, a park slot.
Dials == [kind : {"ext"} \cup (Features \cap {"retrieve"}), num : Exts]
         \cup [kind : Features \cap {"transfer", "park"}, num : {NoExt}]
NoDial == [kind |-> "none", num |-> NoExt]
Legs  == Invites \X {"in", "out", "refer"}
In(i) == <<i, "in">>
Out(i) == <<i, "out">>
ReferLeg(i) == <<i, "refer">>

ASSUME MaxCallsAssumption == MaxCalls \in Nat
ASSUME FeaturesAssumption == Features \subseteq {"transfer", "park", "retrieve", "refer", "trunk"}
ASSUME NilAssumption ==
    /\ NoInvite \notin Invites
    /\ NoExt \notin Exts
    /\ NoLeg \notin Legs
    /\ Absent \notin Legs \cup {NoLeg}

VARIABLES
    pc,         \* control point of an INVITE's goroutine
    rpc,        \* control point of the REFER handler of a call
    from, dial, \* who sent the INVITE (NoExt: a trunk) and what was dialled
    leg,        \* state of every dialog
    byDialog,   \* Registry.byDialog: calls on record
    byExt,      \* Registry.byExt
    acIn, acOut,    \* ActiveCall.In and .Out
    ready,      \* calls with TransferReady set
    hold,       \* calls with HoldActive set
    consult,    \* ActiveCall.ConsultIn, as the INVITE it came from
    parkedFlag, \* calls with Parked set
    bridged,    \* calls with bridgeStop set: a PCM bridge between their legs
    joined,     \* history: dialled legs that have been bridged to someone
    lot,        \* ParkLot.slots: the leg parked there, NoLeg for a nil pair
    acOf,       \* local: the ActiveCall a feature found
    held,       \* local: the leg stolen, retrieved or transferred
    sawIn,      \* local: transfers that read a caller's leg (heldIn)
    acquired    \* INVITEs that hold a slot of the call manager

reg   == <<byDialog, byExt>>
flags == <<ready, hold, consult, parkedFlag>>
media == <<bridged, joined>>
local == <<acOf, held, sawIn>>
vars  == <<pc, rpc, from, dial, leg, reg, acIn, acOut, flags, media, lot,
           local, acquired>>

Live  == {"early", "up"}
Ended == {"byPhone", "byServer"}

\* A phone that still has the call: the server closes an abandoned dialog on its
\* own side without a BYE, or with one that nobody repeats.
Open  == Live \cup {"abandoned"}

Up(l) == leg[l] = "up"
IsEnded(l) == leg[l] \in Ended

\* Hangup of every leg of S that is still there.  hangupDialogSession skips
\* a dialog whose context is done; Hangup on it does nothing either.
Hungup(S) == [l \in Legs |-> IF l \in S /\ leg[l] \in Live
                             THEN "byServer" ELSE leg[l]]

TypeOK ==
    /\ pc \in [Invites -> {"idle", "route", "link", "setConsult", "inbound", "acquire", "ringOnly", "dialing",
                           "bridge", "wait", "teardown", "release", "park", "steal", "store",
                           "dropParker", "retrieve", "rAcquire", "rBridge",
                           "rWait", "arm", "armHold", "xAcquire", "xStart",
                           "xDial", "xHangup", "xWait", "done"}]
    /\ rpc \in [Invites -> {"none", "dialing", "wait", "done"}]
    /\ from \in [Invites -> Exts \cup {NoExt}]
    /\ dial \in [Invites -> Dials \cup {NoDial}]
    /\ leg \in [Legs -> {"none", "abandoned"} \cup Live \cup Ended]
    /\ byDialog \subseteq Invites
    /\ byExt \in [Exts -> Invites \cup {NoInvite}]
    /\ acIn \in [Invites -> Legs \cup {NoLeg}]
    /\ acOut \in [Invites -> Legs \cup {NoLeg}]
    /\ ready \subseteq Invites /\ hold \subseteq Invites
    /\ consult \in [Invites -> Invites \cup {NoInvite}]
    /\ parkedFlag \subseteq Invites
    /\ bridged \subseteq Invites
    /\ joined \subseteq Legs
    /\ lot \in [Exts -> Legs \cup {NoLeg, Absent}]
    /\ acOf \in [Invites -> Invites \cup {NoInvite}]
    /\ held \in [Invites -> Legs \cup {NoLeg}]
    /\ sawIn \subseteq Invites
    /\ acquired \subseteq Invites

Init ==
    /\ pc = [i \in Invites |-> "idle"]
    /\ rpc = [i \in Invites |-> "none"]
    /\ from = [i \in Invites |-> NoExt]
    /\ dial = [i \in Invites |-> NoDial]
    /\ leg = [l \in Legs |-> "none"]
    /\ byDialog = {}
    /\ byExt = [e \in Exts |-> NoInvite]
    /\ acIn = [i \in Invites |-> NoLeg]
    /\ acOut = [i \in Invites |-> NoLeg]
    /\ ready = {} /\ hold = {} /\ parkedFlag = {}
    /\ consult = [i \in Invites |-> NoInvite]
    /\ bridged = {} /\ joined = {}
    /\ lot = [e \in Exts |-> Absent]
    /\ acOf = [i \in Invites |-> NoInvite]
    /\ held = [i \in Invites |-> NoLeg]
    /\ sawIn = {} /\ acquired = {}

-----------------------------------------------------------------------------
(* Registry *)

\* The caller of a trunk call is recorded under the number that was dialled,
\* which is no extension's.
CallerExt(i) == from[i]
CalleeExt(i) == dial[i].num

\* FindByExtension: the latest call e made, else any call e received (the
\* map is walked in no particular order).
Find(e) ==
    IF byExt[e] # NoInvite THEN {byExt[e]}
    ELSE LET received == {i \in byDialog : CalleeExt(i) = e}
         IN  IF received = {} THEN {NoInvite} ELSE received

UnregisterCall_keepsIndex(i) ==
    /\ byDialog' = byDialog \ {i}
    /\ UNCHANGED byExt

\* Unregister: the caller's index is cleared only if it points to this call.
UnregisterCall(i) ==
    /\ byDialog' = byDialog \ {i}
    /\ byExt' = [e \in Exts |-> IF i \in byDialog /\ e = CallerExt(i) /\ byExt[e] = i
                                THEN NoInvite ELSE byExt[e]]

-----------------------------------------------------------------------------
(* Phones *)

Dial(i, e, d) ==
    /\ pc[i] = "idle"
    /\ d.kind = "ext" => d.num # e
    /\ pc' = [pc EXCEPT ![i] = "route"]
    /\ from' = [from EXCEPT ![i] = e]
    /\ dial' = [dial EXCEPT ![i] = d]
    /\ leg' = [leg EXCEPT ![In(i)] = "early"]
    /\ UNCHANGED <<rpc, reg, acIn, acOut, flags, media, lot, local, acquired>>

\* A call from outside: its caller is no registered extension and its trunk is
\* routed to extension t.
TrunkInvite(i, t) ==
    /\ "trunk" \in Features
    /\ pc[i] = "idle"
    /\ pc' = [pc EXCEPT ![i] = "inbound"]
    /\ dial' = [dial EXCEPT ![i] = [kind |-> "ext", num |-> t]]
    /\ leg' = [leg EXCEPT ![In(i)] = "early"]
    /\ UNCHANGED <<rpc, from, reg, acIn, acOut, flags, media, lot, local, acquired>>

\* BYE on an answered dialog, CANCEL on an INVITE of the phone's own.
PhoneHangup(l) ==
    /\ Up(l) \/ (leg[l] = "early" /\ l[2] = "in")
    /\ leg' = [leg EXCEPT ![l] = "byPhone"]
    /\ UNCHANGED <<pc, rpc, from, dial, reg, acIn, acOut, flags, media, lot,
                   local, acquired>>

-----------------------------------------------------------------------------
(* handleInvite *)

Goto(i, p) == pc' = [pc EXCEPT ![i] = p]

\* call.Manager.TryAcquire; it may refuse for a limit of its own per extension.
TryAcquire(i) ==
    /\ Cardinality(acquired) < MaxCalls
    /\ acquired' = acquired \cup {i}

\* A handler gives up: error response or busy tone, and diago hangs the leg
\* up when the handler returns.
GiveUp(i) ==
    /\ leg' = Hungup({In(i)})
    /\ Goto(i, "done")

\* An extension dialled while a transfer is armed completes the transfer.
Route(i) ==
    /\ pc[i] = "route"
    /\ \E ac \in Find(from[i]) :
         IF ac \in ready /\ dial[i].kind = "ext"
         THEN Goto(i, "xAcquire") /\ acOf' = [acOf EXCEPT ![i] = ac]
         ELSE Goto(i, "link") /\ UNCHANGED acOf
    /\ UNCHANGED <<rpc, from, dial, leg, reg, acIn, acOut, flags, media, lot, held,
                   sawIn, acquired>>

\* Where the dial plan sends an INVITE.
Plan(i) == CASE dial[i].kind = "transfer" -> "arm"
             [] dial[i].kind = "park"     -> "park"
             [] dial[i].kind = "retrieve" -> "retrieve"
             [] OTHER                     -> "acquire"

\* The caller is looked up again: a dial during hold or while a transfer is
\* armed is a consultation.
Link(i) ==
    /\ pc[i] = "link"
    /\ \E ac \in Find(from[i]) :
         Goto(i, IF \/ ac \in hold \cup ready /\ acIn[ac] # NoLeg
                    \/ ac \in hold /\ from[i] = CalleeExt(ac)
                 THEN "setConsult" ELSE Plan(i))
    /\ UNCHANGED <<rpc, from, dial, leg, reg, acIn, acOut, flags, media, lot, local,
                   acquired>>

\* Registry.SetConsult looks the caller up once more, in the index only.
SetConsult(i) ==
    /\ pc[i] = "setConsult"
    /\ consult' = IF byExt[from[i]] # NoInvite
                  THEN [consult EXCEPT ![byExt[from[i]]] = i] ELSE consult
    /\ Goto(i, Plan(i))
    /\ UNCHANGED <<rpc, from, dial, leg, reg, acIn, acOut, ready, hold, parkedFlag,
                   media, lot, local, acquired>>

\* A callee with do-not-disturb is never dialled and the caller hears ringing,
\* any other callee is dialled by Connect.
RingCallee(i) ==
    \/ /\ Goto(i, "dialing")
       /\ leg' = [leg EXCEPT ![Out(i)] = "early"]
    \/ /\ Goto(i, "ringOnly")
       /\ UNCHANGED leg

\* tryInboundTrunk and bridgeToExtension, outside the call limit; the callee may
\* be disabled or not registered.
Inbound(i) ==
    /\ pc[i] = "inbound"
    /\ RingCallee(i) \/ GiveUp(i)
    /\ UNCHANGED <<rpc, from, dial, reg, acIn, acOut, flags, media, lot, local,
                   acquired>>

\* The call limit, or a callee that is disabled or not registered.
Refuse(i) ==
    /\ pc[i] = "acquire"
    /\ GiveUp(i)
    /\ UNCHANGED <<rpc, from, dial, reg, acIn, acOut, flags, media, lot,
                   local, acquired>>

Acquire(i) ==
    /\ pc[i] = "acquire"
    /\ TryAcquire(i)
    /\ RingCallee(i)
    /\ UNCHANGED <<rpc, from, dial, reg, acIn, acOut, flags, media, lot, local>>

RingOnlyEnds(i) ==
    /\ pc[i] = "ringOnly"
    /\ IsEnded(In(i))
    /\ Goto(i, "release")
    /\ UNCHANGED <<rpc, from, dial, leg, reg, acIn, acOut, flags, media, lot,
                   local, acquired>>

-----------------------------------------------------------------------------
(* BridgePair.Connect *)

\* The callee answers, then the caller is answered and the call registered.
\* When the caller cannot be answered the callee is hung up, under the caller's
\* context: once that is done nobody waits for the BYE.
OutAnswered(i) ==
    /\ pc[i] = "dialing"
    /\ acIn' = [acIn EXCEPT ![i] = In(i)]
    /\ acOut' = [acOut EXCEPT ![i] = Out(i)]
    /\ \/ /\ leg[In(i)] = "early"
          /\ leg' = [leg EXCEPT ![In(i)] = "up", ![Out(i)] = "up"]
          /\ byDialog' = byDialog \cup {i}
          /\ byExt' = [e \in Exts |-> IF e = CallerExt(i) THEN i ELSE byExt[e]]
          /\ Goto(i, "bridge")
       \/ /\ \/ leg' = [leg EXCEPT ![Out(i)] = "byServer"]
             \/ IsEnded(In(i)) /\ leg' = [leg EXCEPT ![Out(i)] = "abandoned"]
          /\ Goto(i, "release")
          /\ UNCHANGED reg
    /\ UNCHANGED <<rpc, from, dial, flags, media, lot, local, acquired>>

\* Refused, timed out, or the caller gave up: busy tone and hangup.
OutFailed(i) ==
    /\ pc[i] = "dialing"
    /\ leg' = [Hungup({In(i)}) EXCEPT ![Out(i)] = "none"]
    /\ Goto(i, "release")
    /\ UNCHANGED <<rpc, from, dial, reg, acIn, acOut, flags, media, lot,
                   local, acquired>>

\* startControllableBridge fails when the legs' media or codecs do not fit.
StartBridge(i) ==
    /\ pc[i] = "bridge"
    /\ \/ /\ bridged' = bridged \cup {i}
          /\ joined' = joined \cup {Out(i)}
          /\ Goto(i, "wait")
       \/ /\ Goto(i, "teardown")
          /\ UNCHANGED media
    /\ UNCHANGED <<rpc, from, dial, leg, reg, acIn, acOut, flags, lot, local,
                   acquired>>

PairEnds_oneSided(a, b) ==
    /\ IsEnded(a)
    /\ leg' = Hungup({b})

PairEnds_keepsPeer(a, b) ==
    /\ IsEnded(a) \/ IsEnded(b)
    /\ UNCHANGED leg

\* waitDialogPair: whichever leg ends, the other is hung up.
PairEnds(a, b) ==
    /\ IsEnded(a) \/ IsEnded(b)
    /\ leg' = Hungup({a, b})

WaitEnds(i) ==
    /\ pc[i] = "wait"
    /\ PairEnds(In(i), Out(i))
    /\ Goto(i, "teardown")
    /\ UNCHANGED <<rpc, from, dial, reg, acIn, acOut, flags, media, lot,
                   local, acquired>>

\* The end of waitDialogPair, Connect's deferred calls and the return of the
\* handler.  Close sends no BYE: a callee that is still up is left behind.
Teardown(i) ==
    /\ pc[i] = "teardown"
    /\ bridged' = bridged \ {i}
    /\ UnregisterCall(i)
    /\ leg' = [Hungup({In(i)}) EXCEPT ![Out(i)] =
                   IF Up(Out(i)) /\ i \notin parkedFlag THEN "abandoned" ELSE @]
    /\ acquired' = acquired \ {i}
    /\ Goto(i, "done")
    /\ UNCHANGED <<rpc, from, dial, acIn, acOut, flags, joined, lot, local>>

\* The handler returns: the deferred Release, then diago hangs the leg up.
Release(i) ==
    /\ pc[i] = "release"
    /\ acquired' = acquired \ {i}
    /\ GiveUp(i)
    /\ UNCHANGED <<rpc, from, dial, reg, acIn, acOut, flags, media, lot, local>>

-----------------------------------------------------------------------------
(* makeTransferHandler: REFER from the caller's phone *)

ReferStart(i) ==
    /\ "refer" \in Features
    /\ rpc[i] = "none" /\ dial[i].kind = "ext" /\ Up(In(i))
    /\ bridged' = bridged \ {i}
    /\ hold' = hold \ {i}
    /\ leg' = [leg EXCEPT ![ReferLeg(i)] = "early"]
    /\ rpc' = [rpc EXCEPT ![i] = "dialing"]
    /\ UNCHANGED <<pc, from, dial, reg, acIn, acOut, ready, consult, parkedFlag,
                   joined, lot, local, acquired>>

ReferFailed(i) ==
    /\ rpc[i] = "dialing"
    /\ leg' = [leg EXCEPT ![ReferLeg(i)] = "none"]
    /\ rpc' = [rpc EXCEPT ![i] = "done"]
    /\ UNCHANGED <<pc, from, dial, reg, acIn, acOut, flags, media, lot, local,
                   acquired>>

ConsultLegs(i) == {In(j) : j \in {consult[i]} \cap Invites}

\* The target answers: the consult leg is dropped and peer and target are
\* bridged, or the target is left behind if they cannot be.
ReferAnswered(i) ==
    /\ rpc[i] = "dialing"
    /\ \/ /\ leg' = [Hungup(ConsultLegs(i)) EXCEPT ![ReferLeg(i)] = "up"]
          /\ joined' = joined \cup {ReferLeg(i)}
          /\ rpc' = [rpc EXCEPT ![i] = "wait"]
       \/ /\ leg' = [Hungup(ConsultLegs(i)) EXCEPT ![ReferLeg(i)] = "abandoned"]
          /\ rpc' = [rpc EXCEPT ![i] = "done"]
          /\ UNCHANGED joined
    /\ UNCHANGED <<pc, from, dial, reg, acIn, acOut, flags, bridged, lot, local,
                   acquired>>

ReferEnds_targetOnly(i) ==
    /\ rpc[i] = "wait"
    /\ IsEnded(ReferLeg(i))
    /\ leg' = Hungup({Out(i)})
    /\ rpc' = [rpc EXCEPT ![i] = "done"]
    /\ UNCHANGED <<pc, from, dial, reg, acIn, acOut, flags, media, lot, local,
                   acquired>>

\* The wait is bound to the context of the referrer's leg as well, and a
\* second goroutine hangs the referrer up when the target ends.
ReferEnds(i) ==
    /\ rpc[i] = "wait"
    /\ \E l \in {In(i), Out(i), ReferLeg(i)} : IsEnded(l)
    /\ leg' = Hungup({In(i), Out(i), ReferLeg(i)})
    /\ rpc' = [rpc EXCEPT ![i] = "done"]
    /\ UNCHANGED <<pc, from, dial, reg, acIn, acOut, flags, media, lot, local,
                   acquired>>

-----------------------------------------------------------------------------
(* Park and retrieve *)

FindForPark(i) ==
    /\ pc[i] = "park"
    /\ \E ac \in Find(from[i]) :
         IF ac = NoInvite
         THEN GiveUp(i) /\ UNCHANGED acOf
         ELSE Goto(i, "steal") /\ acOf' = [acOf EXCEPT ![i] = ac] /\ UNCHANGED leg
    /\ UNCHANGED <<rpc, from, dial, reg, acIn, acOut, flags, media, lot, held,
                   sawIn, acquired>>

ParksCallee_always(i) == acOut[acOf[i]] # NoLeg

ParksCallee(i) == from[i] = CallerExt(acOf[i])

\* StealHeldLeg up to the read of the leg.
StealHeldLeg(i) ==
    /\ pc[i] = "steal"
    /\ bridged' = bridged \ {acOf[i]}
    /\ parkedFlag' = parkedFlag \cup {acOf[i]}
    /\ held' = [held EXCEPT ![i] = IF ParksCallee(i) THEN acOut[acOf[i]]
                                                    ELSE acIn[acOf[i]]]
    /\ Goto(i, "store")
    /\ UNCHANGED <<rpc, from, dial, leg, reg, acIn, acOut, ready, hold, consult,
                   joined, lot, acOf, sawIn, acquired>>

\* The rest of StealHeldLeg, then ParkLot.Park: an entry that is there
\* already is released.  The entry is made even when there is no leg.
Park(i) ==
    /\ pc[i] = "store"
    /\ IF ParksCallee(i)
       THEN acOut' = [acOut EXCEPT ![acOf[i]] = NoLeg] /\ UNCHANGED acIn
       ELSE acIn' = [acIn EXCEPT ![acOf[i]] = NoLeg] /\ UNCHANGED acOut
    /\ leg' = Hungup({lot[from[i]]})
    /\ lot' = [lot EXCEPT ![from[i]] = held[i]]
    /\ Goto(i, "dropParker")
    /\ UNCHANGED <<rpc, from, dial, reg, flags, media, local, acquired>>

\* The parker's own leg, then the leg the star code came on.
DropParker(i) ==
    /\ pc[i] = "dropParker"
    /\ LET ac == acOf[i]
           own == IF ParksCallee(i) /\ acIn[ac] # NoLeg THEN acIn[ac] ELSE acOut[ac]
       IN  leg' = Hungup({own, In(i)})
    /\ Goto(i, "done")
    /\ UNCHANGED <<rpc, from, dial, reg, acIn, acOut, flags, media, lot, local,
                   acquired>>

Retrieve_unchecked(i) ==
    /\ pc[i] = "retrieve"
    /\ held' = [held EXCEPT ![i] = lot[dial[i].num]]
    /\ lot' = [lot EXCEPT ![dial[i].num] = Absent]
    /\ Goto(i, "rAcquire")
    /\ UNCHANGED <<rpc, from, dial, leg, reg, acIn, acOut, flags, media, acOf,
                   sawIn, acquired>>

Retrieve(i) ==
    /\ pc[i] = "retrieve"
    /\ LET slot == dial[i].num
       IN  IF lot[slot] = Absent
           THEN GiveUp(i) /\ UNCHANGED <<lot, held>>
           ELSE /\ held' = [held EXCEPT ![i] = lot[slot]]
                /\ lot' = [lot EXCEPT ![slot] = Absent]
                /\ Goto(i, "rAcquire")
                /\ UNCHANGED leg
    /\ UNCHANGED <<rpc, from, dial, reg, acIn, acOut, flags, media, acOf,
                   sawIn, acquired>>

RetrieveRefused_keepsParty(i) ==
    /\ pc[i] = "rAcquire"
    /\ GiveUp(i)
    /\ UNCHANGED <<rpc, from, dial, reg, acIn, acOut, flags, media, lot, local,
                   acquired>>

\* No call slot: busy tone, and the parked party is released.
RetrieveRefused(i) ==
    /\ pc[i] = "rAcquire"
    /\ leg' = Hungup({held[i], In(i)})
    /\ Goto(i, "done")
    /\ UNCHANGED <<rpc, from, dial, reg, acIn, acOut, flags, media, lot, local,
                   acquired>>

RetrieveAcquire(i) ==
    /\ pc[i] = "rAcquire"
    /\ TryAcquire(i)
    /\ Goto(i, "rBridge")
    /\ UNCHANGED <<rpc, from, dial, leg, reg, acIn, acOut, flags, media, lot,
                   local>>

\* BridgeParked: answer, find the parked leg, bridge; any failure releases
\* the parked party.
BridgeParked(i) ==
    /\ pc[i] = "rBridge"
    /\ \/ /\ leg[In(i)] = "early" /\ held[i] # NoLeg
          /\ leg' = [leg EXCEPT ![In(i)] = "up"]
          /\ Goto(i, "rWait")
       \/ /\ leg' = Hungup({held[i]})
          /\ Goto(i, "release")
    /\ UNCHANGED <<rpc, from, dial, reg, acIn, acOut, flags, media, lot, local,
                   acquired>>

RetrieveEnds(i) ==
    /\ pc[i] = "rWait"
    /\ PairEnds(In(i), held[i])
    /\ Goto(i, "release")
    /\ UNCHANGED <<rpc, from, dial, reg, acIn, acOut, flags, media, lot, local,
                   acquired>>

-----------------------------------------------------------------------------
(* Attended transfer by star code *)

\* handleTransfer looks the call up, SetTransferReady looks it up again and
\* may find another call or none.
Arm(i) ==
    /\ pc[i] = "arm"
    /\ \E ac \in Find(from[i]) :
         IF ac = NoInvite
         THEN GiveUp(i) /\ UNCHANGED acOf
         ELSE Goto(i, "armHold") /\ acOf' = [acOf EXCEPT ![i] = ac] /\ UNCHANGED leg
    /\ UNCHANGED <<rpc, from, dial, reg, acIn, acOut, flags, media, lot, held,
                   sawIn, acquired>>

SetTransferReady(i) ==
    /\ pc[i] = "armHold"
    /\ \E ac \in Find(from[i]) :
         IF ac = NoInvite
         THEN UNCHANGED <<ready, hold, bridged>>
         ELSE /\ ready' = ready \cup {ac}
              /\ bridged' = bridged \ {acOf[i]}
              /\ hold' = hold \cup {acOf[i]}
    /\ GiveUp(i)
    /\ UNCHANGED <<rpc, from, dial, reg, acIn, acOut, consult, parkedFlag,
                   joined, lot, local, acquired>>

\* handleTransferComplete up to the start of its goroutine.  The handler
\* then returns and diago hangs the transferor's new leg up.
TransferRefused(i) ==
    /\ pc[i] = "xAcquire"
    /\ GiveUp(i)
    /\ UNCHANGED <<rpc, from, dial, reg, acIn, acOut, flags, media, lot, local,
                   acquired>>

TransferAcquire(i) ==
    /\ pc[i] = "xAcquire"
    /\ leg[In(i)] = "early"
    /\ TryAcquire(i)
    /\ leg' = Hungup({In(i)})
    /\ Goto(i, "xStart")
    /\ UNCHANGED <<rpc, from, dial, reg, acIn, acOut, flags, media, lot, local>>

\* CompleteTransfer up to the dial of the target.  The callee's leg is the
\* held one whenever it is there.
CompleteTransfer(i) ==
    /\ pc[i] = "xStart"
    /\ LET ac == acOf[i]
           party == IF acOut[ac] # NoLeg THEN acOut[ac] ELSE acIn[ac]
       IN  /\ hold' = hold \ {ac}
           /\ ready' = ready \ {ac}
           /\ bridged' = bridged \ {ac}
           /\ held' = [held EXCEPT ![i] = party]
           /\ sawIn' = IF acIn[ac] # NoLeg THEN sawIn \cup {i} ELSE sawIn
           /\ IF party = NoLeg
              THEN Goto(i, "release") /\ UNCHANGED leg
              ELSE Goto(i, "xDial") /\ leg' = [leg EXCEPT ![Out(i)] = "early"]
    /\ UNCHANGED <<rpc, from, dial, reg, acIn, acOut, consult, parkedFlag,
                   joined, lot, acOf, acquired>>

TargetFailed(i) ==
    /\ pc[i] = "xDial"
    /\ leg' = [leg EXCEPT ![Out(i)] = "none"]
    /\ Goto(i, "release")
    /\ UNCHANGED <<rpc, from, dial, reg, acIn, acOut, flags, media, lot, local,
                   acquired>>

\* The target answers and is bridged to the held party, or is closed without
\* a BYE when the bridge cannot start.
TargetAnswered(i) ==
    /\ pc[i] = "xDial"
    /\ \/ /\ leg' = [leg EXCEPT ![Out(i)] = "up"]
          /\ joined' = joined \cup {Out(i)}
          /\ Goto(i, "xHangup")
       \/ /\ leg' = [leg EXCEPT ![Out(i)] = "abandoned"]
          /\ Goto(i, "release")
          /\ UNCHANGED joined
    /\ UNCHANGED <<rpc, from, dial, reg, acIn, acOut, flags, bridged, lot, local,
                   acquired>>

\* The consult leg is hung up, then the leg of the call that is not the held
\* one: the fields are read again here.
HangupTransferor(i) ==
    /\ pc[i] = "xHangup"
    /\ LET ac == acOf[i]
           heldOut == held[i][2] = "out"
           own == IF heldOut /\ acIn[ac] # NoLeg THEN acIn[ac]
                  ELSE IF i \in sawIn THEN acOut[ac] ELSE NoLeg
       IN  leg' = Hungup({own} \cup ConsultLegs(ac))
    /\ Goto(i, "xWait")
    /\ UNCHANGED <<rpc, from, dial, reg, acIn, acOut, flags, media, lot, local,
                   acquired>>

TransferEnds(i) ==
    /\ pc[i] = "xWait"
    /\ PairEnds(held[i], Out(i))
    /\ Goto(i, "release")
    /\ UNCHANGED <<rpc, from, dial, reg, acIn, acOut, flags, media, lot, local,
                   acquired>>

-----------------------------------------------------------------------------
(* The steps of one INVITE's goroutines that the server takes by itself *)

ServerStep(i) ==
    \/ Route(i) \/ Link(i) \/ SetConsult(i) \/ Inbound(i)
    \/ Refuse(i) \/ Acquire(i) \/ RingOnlyEnds(i) \/ OutFailed(i)
    \/ StartBridge(i) \/ WaitEnds(i) \/ Teardown(i) \/ Release(i)
    \/ FindForPark(i) \/ StealHeldLeg(i) \/ Park(i) \/ DropParker(i)
    \/ Retrieve(i) \/ RetrieveRefused(i) \/ RetrieveAcquire(i)
    \/ BridgeParked(i) \/ RetrieveEnds(i)
    \/ Arm(i) \/ SetTransferReady(i) \/ TransferRefused(i)
    \/ TransferAcquire(i) \/ CompleteTransfer(i) \/ TargetFailed(i)
    \/ HangupTransferor(i) \/ TransferEnds(i)

ReferStep(i) == ReferFailed(i) \/ ReferEnds(i)

PhoneStep(i) ==
    \/ \E e \in Exts, d \in Dials : Dial(i, e, d)
    \/ \E t \in Exts : TrunkInvite(i, t)
    \/ \E l \in Legs : l[1] = i /\ PhoneHangup(l)
    \/ OutAnswered(i) \/ TargetAnswered(i)
    \/ ReferStart(i) \/ ReferAnswered(i)

Next == \E i \in Invites : ServerStep(i) \/ ReferStep(i) \/ PhoneStep(i)

Spec == Init /\ [][Next]_vars

\* Goroutines are scheduled and every dial has a timeout; phones owe nothing.
Fairness == \A i \in Invites : WF_vars(ServerStep(i)) /\ WF_vars(ReferStep(i))
FairSpec == Spec /\ Fairness

-----------------------------------------------------------------------------
(* Properties *)

\* The legs a goroutine has bridged and waits for in waitDialogPair.
Pair(i) == CASE pc[i] = "wait"  -> {In(i), Out(i)}
             [] pc[i] = "rWait" -> {In(i), held[i]}
             [] pc[i] = "xWait" -> {held[i], Out(i)}
             [] OTHER -> {}

\* When the goroutine of an INVITE is through, its registry entry, its caller's
\* index, its call slot and the caller's dialog are gone.  Its dialled leg is
\* gone too, also from the phone, if it was ever bridged, except while a park, a
\* retrieve or a transfer holds it; and so is the target of a REFER.  REQ-CALL-4
\* wants no orphaned dialogs: the ones the code does leave behind, answered and
\* closed without a BYE, are legs whose bridge or whose caller's answer failed,
\* and no others (Connect, makeTransferHandler, CompleteTransfer).
NothingLeftBehind ==
    \A i \in Invites :
        /\ pc[i] = "done" =>
              /\ i \notin byDialog /\ i \notin acquired
              /\ \A e \in Exts : byExt[e] # i
              /\ leg[In(i)] \notin Open
              /\ leg[Out(i)] \in (IF Out(i) \in joined THEN Open ELSE Live) =>
                    \/ \E e \in Exts : lot[e] = Out(i)
                    \/ \E j \in Invites :
                          pc[j] # "done" /\ (held[j] = Out(i) \/ acOf[j] = i)
        /\ rpc[i] = "done" /\ ReferLeg(i) \in joined => leg[ReferLeg(i)] \notin Open

\* The caller index never leads to a call that is not on record or to the
\* call of another extension, whichever order calls register and unregister
\* in (Registry.Register, Unregister, SetConsult).
IndexAgrees ==
    \A e \in Exts : byExt[e] # NoInvite =>
        byExt[e] \in byDialog /\ CallerExt(byExt[e]) = e

\* A party taken out of the lot is never forgotten: once its retriever is
\* through, it has been hung up or has hung up (BridgeParked, Release).
RetrievedPartyReleased ==
    \A i \in Invites :
        pc[i] = "done" /\ dial[i].kind = "retrieve" /\ held[i] # NoLeg
            => leg[held[i]] \notin Live

\* A slot named after an extension holds the party that extension was
\* talking to, never the extension itself and never a party of a call it had
\* no part in (handlePark, StealHeldLeg).
SlotHoldsPeer ==
    \A e \in Exts, i \in Invites :
        /\ lot[e] = Out(i) => CallerExt(i) = e
        /\ lot[e] = In(i) => CalleeExt(i) = e

\* REQ-CALL-4: when one party of a bridged pair hangs up the other is
\* released, and the call slot and the registry entry go with it.
PeerReleased ==
    \A i \in Invites :
        (Pair(i) # {} /\ \E l \in Pair(i) : IsEnded(l))
            ~> /\ pc[i] = "done" /\ i \notin acquired /\ i \notin byDialog
               /\ \A l \in {In(i), Out(i), held[i]} \ {NoLeg} : leg[l] \notin Live

\* The same for a transfer by REFER: when the transferred party or the target
\* hangs up, the other is released, and the referrer if it is still there
\* (makeTransferHandler).
ReferredPairReleased ==
    \A i \in Invites :
        (rpc[i] = "wait" /\ \E l \in {Out(i), ReferLeg(i)} : IsEnded(l))
            ~> /\ rpc[i] = "done"
               /\ \A l \in {In(i), Out(i), ReferLeg(i)} : leg[l] \notin Live

\* OPERATIONS.md: a parked party stays on hold in its slot.  Of the two
\* parties of a parked call the server drops the parker, not the one that it
\* keeps in the lot (handlePark).
ParkedPartyHeld ==
    \A e \in Exts, i \in Invites :
        lot[e] \in {In(i), Out(i)} =>
            ~(leg[In(i)] = "byServer" /\ leg[Out(i)] = "byServer")

\* REQ-XFER-3: after a transfer the held party, the one that did not dial
\* the star code, talks to the target (CompleteTransfer).
OtherParty(i) == IF from[i] = CallerExt(acOf[i]) THEN Out(acOf[i]) ELSE In(acOf[i])

TransferKeepsHeldParty ==
    \A i \in Invites :
        pc[i] = "xWait" /\ Up(Out(i)) => leg[OtherParty(i)] # "byServer"
=============================================================================
