--------------------------- MODULE Registration ---------------------------
(***************************************************************************)
(* The registrar, presence and instant messages together, wired as in      *)
(* pbx.New (internal/pbx/server.go): onBindingChange runs in the goroutine *)
(* that changed the binding, tells the watchers and then delivers what was *)
(* queued while the phone was away.                                        *)
(***************************************************************************)
EXTENDS Presence, Messages

vars == <<registrarVars, presenceVars, messageVars>>

TypeOK == RegistrarTypeOK /\ PresenceTypeOK /\ MessagesTypeOK

Init == RegistrarInit /\ PresenceInit /\ MessagesInit

Next ==
    \/ RegistrarNext /\ UNCHANGED <<presenceVars, messageVars>>
    \/ PresenceNext /\ UNCHANGED messageVars
    \/ MessagesNext /\ UNCHANGED presenceVars

(***************************************************************************)
(* The goroutines of the server run on and timers expire.  A phone answers *)
(* the challenges it gets and registers again before its binding ends,     *)
(* because a binding lasts for at most register_max_expiry; a phone that   *)
(* is there and a database that works do not refuse the queue, a stored    *)
(* message or its mark for ever.                                           *)
(***************************************************************************)
Registers(j) == touchNonce(j) \/ handleRegister(j)

Notifies(j) ==
    \/ NotifyExtension(j) \/ NotifyDone(j)
    \/ \E d \in Dialogs : notifySubscription(j, d)

DeliverPending(j) ==
    \/ OnRecipientOnline(j) \/ ListPendingFails(j)
    \/ MarkOfflineMessageDelivered(j) \/ MarkFails(j)
    \/ \E m \in Messages :
          \/ SkipStored(j, m) \/ relayStored(j, m)
          \/ \E taken \in BOOLEAN : RelayStoredFails(j, m, taken)

Work(j) ==
    \/ Registers(j) /\ UNCHANGED <<presenceVars, messageVars>>
    \/ Notifies(j) /\ UNCHANGED messageVars
    \/ DeliverPending(j) /\ UNCHANGED presenceVars

Refresh(h) ==
    /\ \E a \in Addrs : authorize(h, "add", a, a)
    /\ UNCHANGED <<presenceVars, messageVars>>

Challenge ==
    /\ held \notin cache
    /\ \E n \in Nonces : issueChallenge(n)
    /\ UNCHANGED <<presenceVars, messageVars>>

NonceTimers ==
    /\ \E n \in Nonces : NonceExpires(n) \/ NonceDeleted(n)
    /\ UNCHANGED <<presenceVars, messageVars>>

Lists(j) == OnRecipientOnline(j) /\ UNCHANGED presenceVars

Relays(j) == (\E m \in Messages : relayStored(j, m)) /\ UNCHANGED presenceVars

Marks(j) == MarkOfflineMessageDelivered(j) /\ UNCHANGED presenceVars

Fairness ==
    /\ \A j \in Jobs : WF_vars(Work(j))
    /\ WF_vars(NonceTimers)
    /\ WF_vars(Challenge)
    /\ \A h \in Handlers :
          SF_vars(Refresh(h)) /\ SF_vars(Lists(h)) /\ SF_vars(Relays(h)) /\ SF_vars(Marks(h))

Spec == Init /\ [][Next]_vars /\ Fairness

\* "messages to unregistered extensions are delivered on next register"
\* (README.md): once a phone is there to stay, every queued message is marked
\* delivered, also one that was queued while the phone was registering and one
\* whose listing, relay or mark failed before.
QueuedMessageArrives ==
    <>[]Registered =>
        \A m \in Messages : row[m] = "pending" ~> row[m] = "delivered"
=============================================================================
