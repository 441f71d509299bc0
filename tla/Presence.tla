----------------------------- MODULE Presence -----------------------------
(***************************************************************************)
(* Presence subscriptions (internal/presence) to the extension of module   *)
(* Registrar: SUBSCRIBE, the subscription store and the NOTIFYs that       *)
(* follow a change of binding.                                             *)
(*                                                                         *)
(* A subscription is known by its dialog (Call-ID and From tag).  Of a     *)
(* NOTIFY the module keeps the state it reports, at the moment stateFor    *)
(* reads it: "reachable" (open or busy) or "closed".  A SUBSCRIBE that     *)
(* refreshes a dialog replaces the Subscription object; goroutines that    *)
(* hold the old object still notify it, which says nothing about the new   *)
(* one, so they are taken to hold nothing for the dialog any more.         *)
(***************************************************************************)
EXTENDS Registrar

CONSTANT Dialogs   \* the watchers' dialogs

VARIABLES subs,       \* dialogs in the store (byKey and byWatched)
          unexpired,  \* those of them whose Expires lies ahead
          seen,       \* dialog -> the state last read for a NOTIFY, or none
          fresh,      \* dialogs whose SUBSCRIBE has its first NOTIFY to send
          notify      \* goroutine -> the dialogs it has yet to notify

presenceVars == <<subs, unexpired, seen, fresh, notify>>

PresenceTypeOK ==
    /\ subs \subseteq Dialogs /\ unexpired \subseteq subs /\ fresh \subseteq subs
    /\ seen \in [Dialogs -> {"reachable", "closed", none}]
    /\ \A d \in Dialogs : seen[d] # none => d \in subs
    /\ notify \in [Jobs -> SUBSET subs]
    /\ \A j \in Jobs : notify[j] # {} => job[j].at = "notifying"

PresenceInit ==
    /\ subs = {} /\ unexpired = {} /\ fresh = {}
    /\ seen = [d \in Dialogs |-> none]
    /\ notify = [j \in Jobs |-> {}]

\* presenceState: a disabled or unregistered extension is closed.
stateFor == IF Registered THEN "reachable" ELSE "closed"

ForWatched == unexpired

\* Upsert and removeLocked: nobody holds the subscriptions of ds any more.
Drop(ds) ==
    /\ seen' = [d \in Dialogs |-> IF d \in ds THEN none ELSE seen[d]]
    /\ notify' = [j \in Jobs |-> notify[j] \ ds]

\* A SUBSCRIBE replaces the dialog's subscription by a new one ...
Upsert(d) ==
    /\ subs' = subs \cup {d}
    /\ unexpired' = unexpired \cup {d}
    /\ fresh' = fresh \cup {d}
    /\ Drop({d})
    /\ UNCHANGED registrarVars

\* ... and the watcher is sent the state as it is after that.
SubscribeNotify(d) ==
    /\ d \in fresh
    /\ seen' = [seen EXCEPT ![d] = stateFor]
    /\ fresh' = fresh \ {d}
    /\ UNCHANGED <<registrarVars, subs, unexpired, notify>>

\* SUBSCRIBE with Expires 0; the closing NOTIFY leaves no state behind.
Remove(d) ==
    /\ d \in subs
    /\ subs' = subs \ {d}
    /\ unexpired' = unexpired \ {d}
    /\ fresh' = fresh \ {d}
    /\ Drop({d})
    /\ UNCHANGED registrarVars

SubscriptionExpires(d) ==
    /\ d \in unexpired
    /\ unexpired' = unexpired \ {d}
    /\ UNCHANGED <<registrarVars, subs, seen, fresh, notify>>

PruneExpired ==
    /\ subs # unexpired
    /\ subs' = unexpired
    /\ fresh' = fresh \cap unexpired
    /\ Drop(subs \ unexpired)
    /\ UNCHANGED <<registrarVars, unexpired>>

\* onBindingChange first tells the watchers, in the goroutine of the change.
NotifyExtension(j) ==
    /\ job[j].at = "changed"
    /\ notify' = [notify EXCEPT ![j] = ForWatched]
    /\ job' = [job EXCEPT ![j].at = "notifying"]
    /\ UNCHANGED <<bindings, cache, armed, fired, held>>
    /\ UNCHANGED <<subs, unexpired, seen, fresh>>

\* One after the other, each with the state of that moment; a NOTIFY that
\* fails or times out is only logged.
notifySubscription(j, d) ==
    /\ d \in notify[j]
    /\ seen' = [seen EXCEPT ![d] = stateFor]
    /\ notify' = [notify EXCEPT ![j] = @ \ {d}]
    /\ UNCHANGED <<registrarVars, subs, unexpired, fresh>>

NotifyDone(j) ==
    /\ job[j].at = "notifying" /\ notify[j] = {}
    /\ job' = [job EXCEPT ![j].at = "online"]
    /\ UNCHANGED <<bindings, cache, armed, fired, held>>
    /\ UNCHANGED presenceVars

PresenceNext ==
    \/ \E d \in Dialogs :
          Upsert(d) \/ SubscribeNotify(d) \/ Remove(d) \/ SubscriptionExpires(d)
    \/ PruneExpired
    \/ \E j \in Jobs : NotifyExtension(j) \/ NotifyDone(j)
    \/ \E j \in Jobs, d \in Dialogs : notifySubscription(j, d)

\* A phone that has gone is not shown as reachable for good (NotifyExtension,
\* pruneExpired): while a live subscription was last given "reachable" and no
\* binding is live, some goroutine has yet to read the state for it, or an
\* expired binding waits for the collector, which will make one do so.
GoneIsReported ==
    \A d \in unexpired :
        (seen[d] = "reachable" /\ ~Registered) =>
            \/ \E a \in Addrs : bindings[a] = "expired"
            \/ \E j \in Jobs : job[j].at = "changed" \/ d \in notify[j]
            \/ d \in fresh
=============================================================================
