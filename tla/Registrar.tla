----------------------------- MODULE Registrar -----------------------------
(***************************************************************************)
(* The registrar (internal/registrar): the bindings of one extension, the  *)
(* digest nonces that protect REGISTER, the expiry collector and the       *)
(* OPTIONS keepalive.                                                      *)
(*                                                                         *)
(* Bindings of different extensions do not interact, so the module follows *)
(* one extension.  A binding is known by the destination its contact       *)
(* resolves to; "expired" means that Expires has passed and the collector  *)
(* has not removed it yet.  Requests that are refused without changing     *)
(* any state (404, 400, 423) are stuttering steps.                         *)
(***************************************************************************)
EXTENDS Naturals, FiniteSets

CONSTANTS Addrs,                \* destinations (host:port) the phones are seen at
          Handlers,             \* goroutines that serve REGISTER requests (a bound)
          Nonces,               \* nonces the server can have outstanding (a bound)
          PreserveContactHost,  \* preserve_contact_host of config.toml
          GC,                   \* the goroutine of runExpiryGC
          none

ASSUME RegistrarAssumption ==
    /\ GC \notin Handlers
    /\ none \notin Nonces \cup Addrs
    /\ PreserveContactHost \in BOOLEAN

VARIABLES bindings,   \* destination -> "none", "live" or "expired"
          cache,      \* nonces in digest.cache
          armed,      \* nonces whose timer is running
          fired,      \* nonces whose expired timer waits for digest.mu
          held,       \* the nonce the phones answer with, or none
          job         \* what each goroutine that may change a binding is doing

registrarVars == <<bindings, cache, armed, fired, held, job>>

Jobs == Handlers \cup {GC}
Operations == {"add", "remove", "wildcard"}

\* A handler's steps: the nonce is found, it is renewed, the binding changes;
\* the watchers and the queued messages follow in Presence and Messages.
Stages == {"idle", "authorized", "register", "changed", "notifying", "online",
           "delivering", "marking"}
Idle == [at |-> "idle", op |-> none, contact |-> none, source |-> none, nonce |-> none]

RegistrarTypeOK ==
    /\ bindings \in [Addrs -> {"none", "live", "expired"}]
    /\ cache \subseteq Nonces /\ armed \subseteq Nonces /\ fired \subseteq Nonces
    /\ held \in Nonces \cup {none}
    /\ job \in [Jobs -> [at : Stages, op : Operations \cup {none},
                         contact : Addrs \cup {none}, source : Addrs \cup {none},
                         nonce : Nonces \cup {none}]]
    /\ \A j \in Jobs : job[j].at \in {"authorized", "register"} =>
          /\ j \in Handlers
          /\ job[j].op \in Operations
          /\ job[j].contact \in Addrs /\ job[j].source \in Addrs

RegistrarInit ==
    /\ bindings = [a \in Addrs |-> "none"]
    /\ cache = {} /\ armed = {} /\ fired = {}
    /\ held = none
    /\ job = [j \in Jobs |-> Idle]

\* DialTarget, ContactURI and IsRegistered look for a binding that has not expired.
Registered == \E a \in Addrs : bindings[a] = "live"

rewriteContactForNAT(contact, source) == IF PreserveContactHost THEN contact ELSE source

contactMatchesStored(stored, contact, source) ==
    stored \in {rewriteContactForNAT(contact, source), source}

\* The change of the binding table that one REGISTER asks for.
addBinding(contact, source) ==
    [a \in Addrs |->
        IF a = rewriteContactForNAT(contact, source) THEN "live"
        ELSE IF contactMatchesStored(a, contact, source) THEN "none"
        ELSE bindings[a]]

removeBinding(op, contact, source) ==
    [a \in Addrs |->
        IF op = "wildcard" \/ contactMatchesStored(a, contact, source) THEN "none"
        ELSE bindings[a]]

touchBinding(a) ==
    IF bindings[a] = "none" THEN bindings ELSE [bindings EXCEPT ![a] = "live"]

---------------------------------------------------------------------------
(* Digest authentication *)

\* A REGISTER without credentials, with a wrong user or password, or with a
\* nonce that is not cached is answered 401 with a nonce of its own, which
\* the phone answers with from then on.
issueChallenge(n) ==
    /\ n \notin cache \cup armed \cup fired
    /\ \A j \in Jobs : job[j].nonce # n
    /\ cache' = cache \cup {n}
    /\ armed' = armed \cup {n}
    /\ held' = n
    /\ UNCHANGED <<bindings, fired, job>>

\* The timer of a nonce expires; its function still has to get the lock.
NonceExpires(n) ==
    /\ n \in armed
    /\ armed' = armed \ {n}
    /\ fired' = fired \cup {n}
    /\ UNCHANGED <<bindings, cache, held, job>>

NonceDeleted(n) ==
    /\ n \in fired
    /\ fired' = fired \ {n}
    /\ cache' = cache \ {n}
    /\ UNCHANGED <<bindings, armed, held, job>>

\* A REGISTER whose nonce is cached and whose digest is right.  The entry is
\* looked up here and renewed later, in touchNonce.
authorize(h, op, contact, source) ==
    /\ job[h] = Idle
    /\ held \in cache
    /\ job' = [job EXCEPT ![h] = [at |-> "authorized", op |-> op, contact |-> contact,
                                  source |-> source, nonce |-> held]]
    /\ UNCHANGED <<bindings, cache, armed, fired, held>>

\* Wrong: the timer is stopped and no new one is started.
touchNonce_stopOnly(h) ==
    /\ job[h].at = "authorized"
    /\ armed' = armed \ {job[h].nonce}
    /\ job' = [job EXCEPT ![h].at = "register", ![h].nonce = none]
    /\ UNCHANGED <<bindings, cache, fired, held>>

\* Stop() does not call back a timer that has fired; the new one runs anyway.
touchNonce(h) ==
    /\ job[h].at = "authorized"
    /\ armed' = IF job[h].nonce \in cache THEN armed \cup {job[h].nonce} ELSE armed
    /\ job' = [job EXCEPT ![h].at = "register", ![h].nonce = none]
    /\ UNCHANGED <<bindings, cache, fired, held>>

---------------------------------------------------------------------------
(* Bindings *)

\* Wrong: a refresh of a binding that is there is not taken for a change.
handleRegister_newOnly(h) ==
    /\ job[h].at = "register"
    /\ bindings' = IF job[h].op = "add" THEN addBinding(job[h].contact, job[h].source)
                   ELSE removeBinding(job[h].op, job[h].contact, job[h].source)
    /\ job' = [job EXCEPT ![h] = IF Registered /\ job[h].op = "add" THEN Idle
                                 ELSE [Idle EXCEPT !.at = "changed"]]
    /\ UNCHANGED <<cache, armed, fired, held>>

\* The binding changes under the lock, fireBindingChange runs after it.
handleRegister(h) ==
    /\ job[h].at = "register"
    /\ bindings' = IF job[h].op = "add" THEN addBinding(job[h].contact, job[h].source)
                   ELSE removeBinding(job[h].op, job[h].contact, job[h].source)
    /\ job' = [job EXCEPT ![h] = [Idle EXCEPT !.at = "changed"]]
    /\ UNCHANGED <<cache, armed, fired, held>>

BindingExpires(a) ==
    /\ bindings[a] = "live"
    /\ bindings' = [bindings EXCEPT ![a] = "expired"]
    /\ UNCHANGED <<cache, armed, fired, held, job>>

\* Wrong: the collector removes bindings without telling anybody.
pruneExpired_silent ==
    /\ job[GC] = Idle
    /\ \E a \in Addrs : bindings[a] = "expired"
    /\ bindings' = [a \in Addrs |-> IF bindings[a] = "expired" THEN "none" ELSE bindings[a]]
    /\ UNCHANGED <<cache, armed, fired, held, job>>

\* Once a minute; nobody is told when nothing was removed.
pruneExpired ==
    /\ job[GC] = Idle
    /\ \E a \in Addrs : bindings[a] = "expired"
    /\ bindings' = [a \in Addrs |-> IF bindings[a] = "expired" THEN "none" ELSE bindings[a]]
    /\ job' = [job EXCEPT ![GC].at = "changed"]
    /\ UNCHANGED <<cache, armed, fired, held>>

\* An OPTIONS of the phone refreshes one binding that matches it.
handleOptions(a) ==
    /\ bindings' = touchBinding(a)
    /\ UNCHANGED <<cache, armed, fired, held, job>>

\* A keepalive round pings a snapshot of the live bindings one after the
\* other; a 2xx within 5 s refreshes the binding if it is still there, also
\* when it has expired since, and whatever registered in between.  Anything
\* else changes nothing.
sendOptionsKeepalive(a) ==
    /\ bindings[a] # "none"
    /\ bindings' = touchBinding(a)
    /\ UNCHANGED <<cache, armed, fired, held, job>>

RegistrarNext ==
    \/ \E n \in Nonces : issueChallenge(n) \/ NonceExpires(n) \/ NonceDeleted(n)
    \/ \E h \in Handlers, op \in Operations, contact \in Addrs, source \in Addrs :
          authorize(h, op, contact, source)
    \/ \E h \in Handlers : touchNonce(h) \/ handleRegister(h)
    \/ \E a \in Addrs : BindingExpires(a) \/ handleOptions(a) \/ sendOptionsKeepalive(a)
    \/ pruneExpired

\* No nonce outlives its timers (digest_auth.go): whatever order renewals,
\* expiries and delayed timer functions come in, a cached nonce has a timer
\* that runs or one that is about to delete it, so the cache cannot leak.
NonceHasTimer == cache \subseteq armed \cup fired
=============================================================================
