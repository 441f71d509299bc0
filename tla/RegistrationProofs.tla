------------------------ MODULE RegistrationProofs ------------------------
(***************************************************************************)
(* What registrar, presence and messages guarantee together for any number *)
(* of addresses, handlers, nonces, watchers and messages: no nonce without *)
(* a timer, no phone that has gone unnoticed, no message lost.             *)
(***************************************************************************)
EXTENDS Registration, TLAPS

\* A goroutine marks only a row whose message a phone has taken.
MarksTaken == \A j \in Jobs : relayed[j] # none => relayed[j] \in accepted

\* The three properties with what makes them inductive.
Safe == NonceHasTimer /\ GoneIsReported /\ NoMessageLost /\ MarksTaken

\* At start nothing is bound, watched or queued.
LEMMA InitSafe == Init => TypeOK /\ Safe
<1> SUFFICES ASSUME Init PROVE TypeOK /\ Safe
  OBVIOUS
<1> USE DEF Init, RegistrarInit, PresenceInit, MessagesInit
<1>1. RegistrarTypeOK
  BY DEF RegistrarTypeOK, Idle, Stages
<1>2. PresenceTypeOK
  BY DEF PresenceTypeOK
<1>3. MessagesTypeOK
  BY DEF MessagesTypeOK, Idle
<1>4. Safe
  BY DEF Safe, NonceHasTimer, GoneIsReported, NoMessageLost, MarksTaken
<1> QED
  BY <1>1, <1>2, <1>3, <1>4 DEF TypeOK

---------------------------------------------------------------------------
(* Types *)

\* The tables addBinding and removeBinding make are binding tables.
LEMMA BindingTables ==
    ASSUME RegistrarTypeOK, NEW op, NEW contact \in Addrs, NEW source \in Addrs
    PROVE  /\ addBinding(contact, source) \in [Addrs -> {"none", "live", "expired"}]
           /\ removeBinding(op, contact, source) \in [Addrs -> {"none", "live", "expired"}]
BY DEF RegistrarTypeOK, addBinding, removeBinding

\* Every step of the registrar keeps the types of all three parts: the stages
\* it enters are none that presence or messages keep records for.
LEMMA RegistrarTypes ==
    TypeOK /\ RegistrarNext /\ UNCHANGED <<presenceVars, messageVars>> => TypeOK'
<1> SUFFICES ASSUME TypeOK, RegistrarNext, UNCHANGED <<presenceVars, messageVars>>
             PROVE  TypeOK'
  OBVIOUS
<1> USE DEF TypeOK, RegistrarTypeOK, PresenceTypeOK, MessagesTypeOK, presenceVars, messageVars,
            Jobs, Stages, Idle
<1>1. ASSUME NEW n \in Nonces, issueChallenge(n) \/ NonceExpires(n) \/ NonceDeleted(n)
      PROVE  TypeOK'
  BY <1>1 DEF issueChallenge, NonceExpires, NonceDeleted
<1>2. ASSUME NEW h \in Handlers, NEW op \in Operations, NEW contact \in Addrs,
             NEW source \in Addrs, authorize(h, op, contact, source)
      PROVE  TypeOK'
  BY <1>2 DEF authorize, Operations
<1>3. ASSUME NEW h \in Handlers, touchNonce(h)
      PROVE  TypeOK'
  <2>1. job' = [job EXCEPT ![h] = [job[h] EXCEPT !.at = "register", !.nonce = none]]
    BY <1>3 DEF touchNonce
  <2>2. RegistrarTypeOK'
    BY <1>3, <2>1 DEF touchNonce
  <2>3. \A j \in Jobs : job'[j].at # job[j].at => job[j].at = "authorized" /\ job'[j].at = "register"
    BY <1>3, <2>1 DEF touchNonce
  <2>4. PresenceTypeOK' /\ MessagesTypeOK'
    BY <2>3
  <2> QED
    BY <2>2, <2>4
<1>4. ASSUME NEW h \in Handlers, handleRegister(h)
      PROVE  TypeOK'
  <2>1. bindings' \in [Addrs -> {"none", "live", "expired"}]
    BY <1>4, BindingTables DEF handleRegister
  <2> QED
    BY <1>4, <2>1 DEF handleRegister
<1>5. ASSUME NEW a \in Addrs, BindingExpires(a) \/ handleOptions(a) \/ sendOptionsKeepalive(a)
      PROVE  TypeOK'
  <2>1. bindings' \in [Addrs -> {"none", "live", "expired"}]
    BY <1>5 DEF BindingExpires, handleOptions, sendOptionsKeepalive, touchBinding
  <2> QED
    BY <1>5, <2>1 DEF BindingExpires, handleOptions, sendOptionsKeepalive
<1>6. CASE pruneExpired
  BY <1>6, RegistrarAssumption DEF pruneExpired
<1> QED
  BY <1>1, <1>2, <1>3, <1>4, <1>5, <1>6 DEF RegistrarNext

\* After the binding has changed a goroutine only moves from stage to stage.
LEMMA StageTypes ==
    ASSUME RegistrarTypeOK, NEW j \in Jobs, NEW s \in Stages \ {"authorized", "register"},
           job' = [job EXCEPT ![j].at = s], UNCHANGED <<bindings, cache, armed, fired, held>>
    PROVE  RegistrarTypeOK' /\ job'[j].at = s /\ \A k \in Jobs \ {j} : job'[k] = job[k]
BY DEF RegistrarTypeOK

\* Presence keeps no subscription, state or duty that was dropped.
LEMMA PresenceTypes == TypeOK /\ PresenceNext /\ UNCHANGED messageVars => TypeOK'
<1> SUFFICES ASSUME TypeOK, PresenceNext, UNCHANGED messageVars
             PROVE  TypeOK'
  OBVIOUS
<1> USE DEF TypeOK, RegistrarTypeOK, PresenceTypeOK, MessagesTypeOK, registrarVars, presenceVars,
            messageVars, Stages, Drop
<1>1. ASSUME NEW d \in Dialogs, Upsert(d) \/ Remove(d)
      PROVE  TypeOK'
  BY <1>1 DEF Upsert, Remove
<1>2. ASSUME NEW d \in Dialogs, SubscribeNotify(d) \/ SubscriptionExpires(d)
      PROVE  TypeOK'
  BY <1>2 DEF SubscribeNotify, SubscriptionExpires, stateFor
<1>3. CASE PruneExpired
  BY <1>3 DEF PruneExpired
<1>4. ASSUME NEW j \in Jobs, NotifyExtension(j)
      PROVE  TypeOK'
  <2>1. RegistrarTypeOK'
    BY <1>4 DEF NotifyExtension, ForWatched
  <2>2. PresenceTypeOK'
    BY <1>4 DEF NotifyExtension, ForWatched
  <2>3. MessagesTypeOK'
    BY <1>4 DEF NotifyExtension, ForWatched
  <2> QED
    BY <2>1, <2>2, <2>3
<1>6. ASSUME NEW j \in Jobs, NotifyDone(j)
      PROVE  TypeOK'
  <2>1. RegistrarTypeOK'
    BY <1>6, StageTypes DEF NotifyDone
  <2>2. PresenceTypeOK'
    BY <1>6 DEF NotifyDone
  <2>3. MessagesTypeOK'
    BY <1>6 DEF NotifyDone
  <2> QED
    BY <2>1, <2>2, <2>3
<1>5. ASSUME NEW j \in Jobs, NEW d \in Dialogs, notifySubscription(j, d)
      PROVE  TypeOK'
  BY <1>5 DEF notifySubscription, stateFor
<1> QED
  BY <1>1, <1>2, <1>3, <1>4, <1>5, <1>6 DEF PresenceNext

\* A goroutine has a row to mark exactly while it stands at "marking".
LEMMA MessageTypes == TypeOK /\ MessagesNext /\ UNCHANGED presenceVars => TypeOK'
<1> SUFFICES ASSUME TypeOK, MessagesNext, UNCHANGED presenceVars
             PROVE  TypeOK'
  OBVIOUS
<1> USE DEF TypeOK, RegistrarTypeOK, PresenceTypeOK, MessagesTypeOK, registrarVars, presenceVars,
            Stages, Continue
<1>1. ASSUME NEW m \in Messages, handleMessage(m)
      PROVE  TypeOK'
  BY <1>1 DEF handleMessage
<1>2. ASSUME NEW m \in Messages, NEW ok \in BOOLEAN, EnqueueOfflineMessage(m, ok)
      PROVE  TypeOK'
  BY <1>2 DEF EnqueueOfflineMessage
<1>3. ASSUME NEW m \in Messages, NEW taken \in BOOLEAN, NEW answered \in BOOLEAN,
             Relay(m, taken, answered)
      PROVE  TypeOK'
  BY <1>3 DEF Relay
<1>4. ASSUME NEW j \in Jobs, OnRecipientOnline(j)
      PROVE  TypeOK'
  <2>1. RegistrarTypeOK'
    BY <1>4 DEF OnRecipientOnline
  <2>2. PresenceTypeOK'
    BY <1>4 DEF OnRecipientOnline
  <2>3. MessagesTypeOK'
    BY <1>4 DEF OnRecipientOnline
  <2> QED
    BY <2>1, <2>2, <2>3
<1>5. ASSUME NEW j \in Jobs, NEW left \in SUBSET Messages, Continue(j, left), job[j].at = "marking",
             relayed' = [relayed EXCEPT ![j] = none], row' \in [Messages -> {"none", "pending", "delivered"}],
             UNCHANGED <<request, accepted>>
      PROVE  TypeOK'
  <2>1. PICK s \in {"idle", "delivering"} :
            /\ job' = [job EXCEPT ![j].at = s]
            /\ s = "delivering" => left # {}
    BY <1>5
  <2>2. RegistrarTypeOK' /\ job'[j].at = s /\ \A k \in Jobs \ {j} : job'[k] = job[k]
    BY <1>5, <2>1, StageTypes
  <2>3. PresenceTypeOK'
    BY <1>5, <2>2
  <2>4. MessagesTypeOK'
    BY <1>5, <2>1, <2>2
  <2> QED
    BY <2>2, <2>3, <2>4
<1>6. ASSUME NEW j \in Jobs, MarkOfflineMessageDelivered(j)
      PROVE  TypeOK'
  <2>1. row' \in [Messages -> {"none", "pending", "delivered"}] /\ pending[j] \in SUBSET Messages
    BY <1>6 DEF MarkOfflineMessageDelivered
  <2> QED
    BY ONLY <1>5, <1>6, <2>1 DEF MarkOfflineMessageDelivered
<1>7. ASSUME NEW j \in Jobs, MarkFails(j)
       PROVE  TypeOK'
  <2>1. row' \in [Messages -> {"none", "pending", "delivered"}]
    BY <1>7 DEF MarkFails
  <2>2. PICK left \in SUBSET Messages : left = {}
    OBVIOUS
  <2>3. /\ Continue(j, left) /\ job[j].at = "marking"
        /\ relayed' = [relayed EXCEPT ![j] = none]
        /\ UNCHANGED <<request, accepted>>
    BY <1>7, <2>2 DEF MarkFails
  <2> QED
    BY ONLY <1>5, <2>1, <2>3
<1>8. ASSUME NEW j \in Jobs, NEW m \in Messages, SkipStored(j, m)
      PROVE  TypeOK'
  <2>1. RegistrarTypeOK'
    BY <1>8 DEF SkipStored
  <2>2. PresenceTypeOK'
    BY <1>8 DEF SkipStored
  <2>3. MessagesTypeOK'
    BY <1>8 DEF SkipStored
  <2> QED
    BY <2>1, <2>2, <2>3
<1>9. ASSUME NEW j \in Jobs, NEW m \in Messages, relayStored(j, m)
      PROVE  TypeOK'
  <2>1. RegistrarTypeOK'
    BY <1>9, MessagesAssumption DEF relayStored
  <2>2. PresenceTypeOK'
    BY <1>9, MessagesAssumption DEF relayStored
  <2>3. MessagesTypeOK'
    BY <1>9, MessagesAssumption DEF relayStored
  <2> QED
    BY <2>1, <2>2, <2>3
<1>10. ASSUME NEW j \in Jobs, NEW m \in Messages, NEW taken \in BOOLEAN, RelayStoredFails(j, m, taken)
      PROVE  TypeOK'
  BY <1>10, SMTT(30) DEF RelayStoredFails
<1>11. ASSUME NEW j \in Jobs, ListPendingFails(j)
       PROVE  TypeOK'
  <2>1. RegistrarTypeOK'
    BY <1>11 DEF ListPendingFails
  <2>2. PresenceTypeOK'
    BY <1>11 DEF ListPendingFails
  <2>3. MessagesTypeOK'
    BY <1>11 DEF ListPendingFails
  <2> QED
    BY <2>1, <2>2, <2>3
<1> QED
  BY <1>1, <1>2, <1>3, <1>4, <1>6, <1>7, <1>8, <1>9, <1>10, <1>11 DEF MessagesNext

---------------------------------------------------------------------------
(* The properties *)

\* A timer that is stopped is started again, and one that fires takes its nonce along.
LEMMA NonceStep == TypeOK /\ NonceHasTimer /\ [Next]_vars => NonceHasTimer'
<1> SUFFICES ASSUME TypeOK, NonceHasTimer, [Next]_vars PROVE NonceHasTimer'
  OBVIOUS
<1> USE DEF NonceHasTimer
<1>1. CASE UNCHANGED <<cache, armed, fired>>
  BY <1>1
<1>2. ASSUME NEW n \in Nonces, issueChallenge(n) \/ NonceExpires(n) \/ NonceDeleted(n)
      PROVE  NonceHasTimer'
  BY <1>2 DEF issueChallenge, NonceExpires, NonceDeleted
<1>3. ASSUME NEW h \in Handlers, touchNonce(h)
      PROVE  NonceHasTimer'
  BY <1>3 DEF touchNonce
<1>4. CASE RegistrarNext
  BY <1>1, <1>2, <1>3, <1>4 DEF RegistrarNext, authorize, handleRegister, BindingExpires,
     pruneExpired, handleOptions, sendOptionsKeepalive
<1>5. CASE PresenceNext
  BY <1>1, <1>5 DEF PresenceNext, Upsert, SubscribeNotify, Remove, SubscriptionExpires,
     PruneExpired, NotifyExtension, notifySubscription, NotifyDone, registrarVars
<1>6. CASE MessagesNext
  BY <1>1, <1>6 DEF MessagesNext, handleMessage, EnqueueOfflineMessage, Relay, OnRecipientOnline,
     ListPendingFails,
     SkipStored, RelayStoredFails, relayStored, MarkOfflineMessageDelivered, MarkFails, Continue,
     registrarVars
<1> QED
  BY <1>1, <1>4, <1>5, <1>6 DEF Next, vars, registrarVars

\* Who took a message keeps it, so what was said and marked stays true.
LEMMA MessageStep ==
    TypeOK /\ NoMessageLost /\ MarksTaken /\ [Next]_vars => NoMessageLost' /\ MarksTaken'
<1> SUFFICES ASSUME TypeOK, NoMessageLost, MarksTaken, [Next]_vars
             PROVE  NoMessageLost' /\ MarksTaken'
  OBVIOUS
<1> USE DEF NoMessageLost, MarksTaken
<1>1. CASE UNCHANGED messageVars
  BY <1>1 DEF messageVars
<1>2. ASSUME NEW m \in Messages, handleMessage(m)
      PROVE  NoMessageLost' /\ MarksTaken'
  BY <1>2 DEF handleMessage, TypeOK, MessagesTypeOK
<1>3. ASSUME NEW m \in Messages, NEW ok \in BOOLEAN, EnqueueOfflineMessage(m, ok)
      PROVE  NoMessageLost' /\ MarksTaken'
  BY <1>3 DEF EnqueueOfflineMessage, TypeOK, MessagesTypeOK
<1>4. ASSUME NEW m \in Messages, NEW taken \in BOOLEAN, NEW answered \in BOOLEAN,
             Relay(m, taken, answered)
      PROVE  NoMessageLost' /\ MarksTaken'
  BY <1>4 DEF Relay, TypeOK, MessagesTypeOK
<1>5. ASSUME NEW j \in Jobs, OnRecipientOnline(j) \/ ListPendingFails(j) \/ MarkOfflineMessageDelivered(j)
                            \/ MarkFails(j)
      PROVE  NoMessageLost' /\ MarksTaken'
  BY <1>5 DEF OnRecipientOnline, ListPendingFails, MarkOfflineMessageDelivered, MarkFails, TypeOK, MessagesTypeOK
<1>6. ASSUME NEW j \in Jobs, NEW m \in Messages, SkipStored(j, m) \/ relayStored(j, m)
      PROVE  NoMessageLost' /\ MarksTaken'
  BY <1>6 DEF SkipStored, relayStored, TypeOK, MessagesTypeOK
<1>7. ASSUME NEW j \in Jobs, NEW m \in Messages, NEW taken \in BOOLEAN,
             RelayStoredFails(j, m, taken)
      PROVE  NoMessageLost' /\ MarksTaken'
  BY <1>7 DEF RelayStoredFails
<1>8. CASE MessagesNext
  BY <1>2, <1>3, <1>4, <1>5, <1>6, <1>7, <1>8 DEF MessagesNext
<1> QED
  BY <1>1, <1>8 DEF Next, vars

\* A phone goes by expiry, which leaves an expired binding, or by a change of
\* the table, which leaves its goroutine at "changed"; who notifies a watcher
\* reads the state at that moment.
LEMMA GoneStep == TypeOK /\ GoneIsReported /\ [Next]_vars => GoneIsReported'
<1> SUFFICES ASSUME TypeOK, GoneIsReported, [Next]_vars PROVE GoneIsReported'
  OBVIOUS
<1> USE DEF TypeOK, RegistrarTypeOK, PresenceTypeOK, GoneIsReported, Registered, Jobs
<1>1. ASSUME UNCHANGED <<bindings, presenceVars>>,
             \A j \in Jobs : job[j].at = "changed" => job'[j].at = "changed"
      PROVE  GoneIsReported'
  BY <1>1 DEF presenceVars
<1>2. ASSUME RegistrarNext, UNCHANGED presenceVars
      PROVE  GoneIsReported'
  <2> USE DEF presenceVars
  <2>1. ASSUME NEW n \in Nonces, issueChallenge(n) \/ NonceExpires(n) \/ NonceDeleted(n)
        PROVE  GoneIsReported'
    BY <1>2, <2>1 DEF issueChallenge, NonceExpires, NonceDeleted
  <2>2. ASSUME NEW h \in Handlers, NEW op \in Operations, NEW contact \in Addrs,
               NEW source \in Addrs, authorize(h, op, contact, source)
        PROVE  GoneIsReported'
    BY <1>2, <2>2 DEF authorize, Idle
  <2>3. ASSUME NEW h \in Handlers, touchNonce(h)
        PROVE  GoneIsReported'
    <3>1. \A j \in Jobs : job[j].at = "changed" => job'[j].at = "changed"
      BY <2>3 DEF touchNonce
    <3> QED
      BY <1>1, <1>2, <2>3, <3>1 DEF touchNonce
  <2>4. ASSUME NEW h \in Handlers, handleRegister(h)
        PROVE  GoneIsReported'
    <3>1. job'[h].at = "changed"
      BY <2>4 DEF handleRegister, Idle
    <3> QED
      BY <3>1
  <2>5. ASSUME NEW a \in Addrs, BindingExpires(a)
        PROVE  GoneIsReported'
    BY <2>5 DEF BindingExpires
  <2>6. ASSUME NEW a \in Addrs, handleOptions(a) \/ sendOptionsKeepalive(a)
        PROVE  GoneIsReported'
    BY <1>2, <2>6 DEF handleOptions, sendOptionsKeepalive, touchBinding
  <2>7. CASE pruneExpired
    <3>1. job'[GC].at = "changed"
      BY <2>7 DEF pruneExpired
    <3> QED
      BY <3>1
  <2> QED
    BY <1>2, <2>1, <2>2, <2>3, <2>4, <2>5, <2>6, <2>7 DEF RegistrarNext
<1>3. CASE PresenceNext
  <2> USE DEF registrarVars, Drop
  <2>1. ASSUME NEW d \in Dialogs, Upsert(d) \/ Remove(d)
        PROVE  GoneIsReported'
    BY <2>1 DEF Upsert, Remove
  <2>2. ASSUME NEW d \in Dialogs, SubscribeNotify(d) \/ SubscriptionExpires(d)
        PROVE  GoneIsReported'
    BY <2>2 DEF SubscribeNotify, SubscriptionExpires, stateFor
  <2>3. CASE PruneExpired
    BY <2>3 DEF PruneExpired
  <2>4. ASSUME NEW j \in Jobs, NotifyExtension(j)
        PROVE  GoneIsReported'
    BY <2>4 DEF NotifyExtension, ForWatched
  <2>5. ASSUME NEW j \in Jobs, NotifyDone(j)
        PROVE  GoneIsReported'
    <3>1. \A k \in Jobs : job[k].at = "changed" => job'[k].at = "changed"
      BY <2>5 DEF NotifyDone
    <3> QED
      BY <1>1, <2>5, <3>1 DEF NotifyDone
  <2>6. ASSUME NEW j \in Jobs, NEW d \in Dialogs, notifySubscription(j, d)
        PROVE  GoneIsReported'
    BY <2>6 DEF notifySubscription, stateFor
  <2> QED
    BY <1>3, <2>1, <2>2, <2>3, <2>4, <2>5, <2>6 DEF PresenceNext
<1>4. ASSUME MessagesNext, UNCHANGED presenceVars
      PROVE  GoneIsReported'
  <2>1. bindings' = bindings
    BY <1>4 DEF MessagesNext, handleMessage, EnqueueOfflineMessage, Relay, OnRecipientOnline,
     ListPendingFails,
       SkipStored, RelayStoredFails, relayStored, MarkOfflineMessageDelivered, MarkFails, Continue,
       registrarVars
  <2>2. \A j \in Jobs : job[j].at = "changed" => job'[j].at = "changed"
    BY <1>4 DEF MessagesNext, handleMessage, EnqueueOfflineMessage, Relay, OnRecipientOnline,
     ListPendingFails,
       SkipStored, RelayStoredFails, relayStored, MarkOfflineMessageDelivered, MarkFails, Continue,
       registrarVars
  <2> QED
    BY <1>1, <1>4, <2>1, <2>2
<1>5. CASE UNCHANGED vars
  BY <1>1, <1>5 DEF vars, registrarVars
<1> QED
  BY <1>2, <1>3, <1>4, <1>5 DEF Next

---------------------------------------------------------------------------

\* Types and properties together are inductive.
LEMMA Inductive == Spec => [](TypeOK /\ Safe)
<1>1. Init => TypeOK /\ Safe
  BY InitSafe
<1>2. TypeOK /\ Safe /\ [Next]_vars => (TypeOK /\ Safe)'
  <2> SUFFICES ASSUME TypeOK, Safe, [Next]_vars PROVE TypeOK' /\ Safe'
    OBVIOUS
  <2>1. CASE Next
    BY <2>1, RegistrarTypes, PresenceTypes, MessageTypes, NonceStep, GoneStep, MessageStep
       DEF Next, Safe
  <2>2. CASE UNCHANGED vars
    <3>1. TypeOK'
      BY <2>2 DEF TypeOK, RegistrarTypeOK, PresenceTypeOK, MessagesTypeOK, vars, registrarVars,
         presenceVars, messageVars
    <3> QED
      BY <3>1, NonceStep, GoneStep, MessageStep DEF Safe
  <2> QED
    BY <2>1, <2>2
<1> QED
  BY <1>1, <1>2, PTL DEF Spec

\* Bindings, subscriptions, queued rows and what each goroutine holds of them
\* keep their types and belong together (Registration.TypeOK).
THEOREM Typing == Spec => []TypeOK
BY Inductive, PTL

\* For any number of handlers and nonces no cached nonce is left without a
\* timer (digest_auth.go).
THEOREM NoncesTimed == Spec => []NonceHasTimer
<1>1. TypeOK /\ Safe => NonceHasTimer
  BY DEF Safe
<1> QED
  BY <1>1, Inductive, PTL

\* For any number of addresses, handlers and watchers a phone that has gone is
\* noticed (registrar.go, presence/handler.go).
THEOREM Reported == Spec => []GoneIsReported
<1>1. TypeOK /\ Safe => GoneIsReported
  BY DEF Safe
<1> QED
  BY <1>1, Inductive, PTL

\* For any number of messages and concurrent deliveries no message is lost
\* (message/handler.go).
THEOREM Lossless == Spec => []NoMessageLost
<1>1. TypeOK /\ Safe => NoMessageLost
  BY DEF Safe
<1> QED
  BY <1>1, Inductive, PTL
=============================================================================
