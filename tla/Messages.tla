----------------------------- MODULE Messages -----------------------------
(***************************************************************************)
(* Instant messages to the extension of module Registrar                   *)
(* (internal/message, internal/store/offline_messages.go): MESSAGE is      *)
(* relayed to a registered phone and queued in the database otherwise; the *)
(* queue is delivered by the goroutine of every change of binding.         *)
(***************************************************************************)
EXTENDS Registrar

CONSTANT Messages   \* the MESSAGE requests that pass the checks of handleMessage

ASSUME MessagesAssumption == none \notin Messages

VARIABLES request,    \* MESSAGE -> where its handler is, or the answer it gave
          row,        \* MESSAGE -> its row of offline_messages
          accepted,   \* the messages a phone has taken
          pending,    \* goroutine -> the rows it has yet to relay
          relayed     \* goroutine -> the row it is to mark, or none

messageVars == <<request, row, accepted, pending, relayed>>

MessagesTypeOK ==
    /\ request \in [Messages -> {"new", "queueing", "relaying", "202", "2xx", "failed"}]
    /\ row \in [Messages -> {"none", "pending", "delivered"}]
    /\ accepted \subseteq Messages
    /\ pending \in [Jobs -> SUBSET Messages]
    /\ relayed \in [Jobs -> Messages \cup {none}]
    /\ \A j \in Jobs : (relayed[j] # none) <=> (job[j].at = "marking")
    /\ \A j \in Jobs : job[j].at = "delivering" => pending[j] # {}

MessagesInit ==
    /\ request = [m \in Messages |-> "new"]
    /\ row = [m \in Messages |-> "none"]
    /\ accepted = {}
    /\ pending = [j \in Jobs |-> {}]
    /\ relayed = [j \in Jobs |-> none]

\* DialTarget decides; between this and the insertion the phone may register.
handleMessage(m) ==
    /\ request[m] = "new"
    /\ request' = [request EXCEPT ![m] = IF Registered THEN "relaying" ELSE "queueing"]
    /\ UNCHANGED <<registrarVars, row, accepted, pending, relayed>>

\* 202 once the row is in the database, 480 when the database refuses it.
EnqueueOfflineMessage(m, ok) ==
    /\ request[m] = "queueing"
    /\ request' = [request EXCEPT ![m] = IF ok THEN "202" ELSE "failed"]
    /\ row' = IF ok THEN [row EXCEPT ![m] = "pending"] ELSE row
    /\ UNCHANGED <<registrarVars, accepted, pending, relayed>>

\* The phone takes the message or does not; its answer may come too late.
Relay(m, taken, answered) ==
    /\ request[m] = "relaying"
    /\ accepted' = IF taken THEN accepted \cup {m} ELSE accepted
    /\ request' = [request EXCEPT ![m] = IF taken /\ answered THEN "2xx" ELSE "failed"]
    /\ UNCHANGED <<registrarVars, row, pending, relayed>>

\* The goroutine goes on with the rows that are left, or is done with them.
Continue(j, left) ==
    /\ pending' = [pending EXCEPT ![j] = left]
    /\ job' = [job EXCEPT ![j].at = IF left = {} THEN "idle" ELSE "delivering"]
    /\ UNCHANGED <<bindings, cache, armed, fired, held>>

\* OnRecipientOnline runs after every change, a removal too.
OnRecipientOnline(j) ==
    /\ job[j].at = "online"
    /\ Continue(j, {m \in Messages : row[m] = "pending"})
    /\ UNCHANGED <<request, row, accepted, relayed>>

\* The database does not give the list: nothing is relayed this time.
ListPendingFails(j) ==
    /\ job[j].at = "online"
    /\ Continue(j, {})
    /\ UNCHANGED <<request, row, accepted, relayed>>

\* Not registered any more: the row stays pending.
SkipStored(j, m) ==
    /\ job[j].at = "delivering" /\ m \in pending[j]
    /\ ~Registered
    /\ Continue(j, pending[j] \ {m})
    /\ UNCHANGED <<request, row, accepted, relayed>>

\* Wrong: any outcome of the relay counts as a delivery.
RelayStoredFails_counted(j, m, taken) ==
    /\ job[j].at = "delivering" /\ m \in pending[j]
    /\ Registered
    /\ accepted' = IF taken THEN accepted \cup {m} ELSE accepted
    /\ relayed' = [relayed EXCEPT ![j] = m]
    /\ pending' = [pending EXCEPT ![j] = @ \ {m}]
    /\ job' = [job EXCEPT ![j].at = "marking"]
    /\ UNCHANGED <<bindings, cache, armed, fired, held>>
    /\ UNCHANGED <<request, row>>

\* The phone refuses, or takes the message without the answer coming in time.
RelayStoredFails(j, m, taken) ==
    /\ job[j].at = "delivering" /\ m \in pending[j]
    /\ Registered
    /\ accepted' = IF taken THEN accepted \cup {m} ELSE accepted
    /\ Continue(j, pending[j] \ {m})
    /\ UNCHANGED <<request, row, relayed>>

relayStored(j, m) ==
    /\ job[j].at = "delivering" /\ m \in pending[j]
    /\ Registered
    /\ accepted' = accepted \cup {m}
    /\ relayed' = [relayed EXCEPT ![j] = m]
    /\ pending' = [pending EXCEPT ![j] = @ \ {m}]
    /\ job' = [job EXCEPT ![j].at = "marking"]
    /\ UNCHANGED <<bindings, cache, armed, fired, held>>
    /\ UNCHANGED <<request, row>>

MarkOfflineMessageDelivered(j) ==
    /\ job[j].at = "marking"
    /\ row' = [row EXCEPT ![relayed[j]] = "delivered"]
    /\ relayed' = [relayed EXCEPT ![j] = none]
    /\ Continue(j, pending[j])
    /\ UNCHANGED <<request, accepted>>

\* Wrong: the row that could not be marked is kept.
MarkFails_keepsRow(j) ==
    /\ job[j].at = "marking"
    /\ Continue(j, {})
    /\ UNCHANGED <<request, row, accepted, relayed>>

\* DeliverPending gives up when the row cannot be marked.
MarkFails(j) ==
    /\ job[j].at = "marking"
    /\ relayed' = [relayed EXCEPT ![j] = none]
    /\ Continue(j, {})
    /\ UNCHANGED <<request, row, accepted>>

MessagesNext ==
    \/ \E m \in Messages : handleMessage(m)
    \/ \E m \in Messages, ok \in BOOLEAN : EnqueueOfflineMessage(m, ok)
    \/ \E m \in Messages, taken \in BOOLEAN, answered \in BOOLEAN : Relay(m, taken, answered)
    \/ \E j \in Jobs :
          \/ OnRecipientOnline(j) \/ ListPendingFails(j)
          \/ MarkOfflineMessageDelivered(j) \/ MarkFails(j)
    \/ \E j \in Jobs, m \in Messages :
          \/ SkipStored(j, m) \/ relayStored(j, m)
          \/ \E taken \in BOOLEAN : RelayStoredFails(j, m, taken)

\* No message gets lost on the way (handleMessage, DeliverPending): what the
\* sender was told is true (202: the row is in the database; 2xx: a phone
\* took the message), and a row leaves the queue only once a phone took it.
NoMessageLost ==
    \A m \in Messages :
        /\ request[m] = "202" => row[m] # "none"
        /\ request[m] = "2xx" => m \in accepted
        /\ row[m] = "delivered" => m \in accepted
=============================================================================
