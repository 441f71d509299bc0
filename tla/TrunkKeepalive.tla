-------------------------- MODULE TrunkKeepalive --------------------------
(***************************************************************************)
(* The trunk keepalive (internal/trunk/keepalive.go): two supervisors, one *)
(* for OPTIONS and one for REGISTER, compare every 10 s the trunks the     *)
(* configuration wants with the goroutines they have started, and each     *)
(* goroutine reads the configuration itself before it calls its trunk.     *)
(*                                                                         *)
(* What a trunk's entry asks for is "options", "register" or "off"; the    *)
(* last one also stands for a trunk that is disabled or not listed.  The   *)
(* answers of the trunk change nothing, so they are not modelled.  A       *)
(* reconciliation that gets no SIP client does nothing and comes again.    *)
(***************************************************************************)
EXTENDS Naturals

CONSTANTS Trunks,
          Tasks,     \* keepalive goroutines that can exist at a time (a bound)
          none

ASSUME TrunkAssumption == none \notin Trunks \cup Tasks

VARIABLES cfg,         \* Handler.Cfg: what each trunk's entry asks for
          reconciling, \* the supervisors that have read cfg and not acted yet
          want,        \* the trunks each of them found
          active,      \* supervisor -> trunk -> the goroutine it can cancel
          task         \* the goroutines

trunkVars == <<cfg, reconciling, want, active, task>>

Kinds == {"options", "register"}
Modes == Kinds \cup {"off"}

Gone == [at |-> "gone", kind |-> none, trunk |-> none, cancelled |-> FALSE]
Started(k, t) == [at |-> "check", kind |-> k, trunk |-> t, cancelled |-> FALSE]

TrunkTypeOK ==
    /\ cfg \in [Trunks -> Modes]
    /\ reconciling \subseteq Kinds
    /\ want \in [Kinds -> SUBSET Trunks]
    /\ active \in [Kinds -> [Trunks -> Tasks \cup {none}]]
    /\ task \in [Tasks -> {Gone} \cup [at : {"check", "call", "wait"}, kind : Kinds,
                                       trunk : Trunks, cancelled : BOOLEAN]]

TrunkInit ==
    /\ reconciling = {}
    /\ want = [k \in Kinds |-> {}]
    /\ active = [k \in Kinds |-> [t \in Trunks |-> none]]
    /\ task = [x \in Tasks |-> Gone]

Live(x) == task[x] # Gone

\* A goroutine that has returned stays in active; its record is not used again
\* as long as a supervisor still holds its cancel function.
Unused == {x \in Tasks : ~Live(x) /\ \A k \in Kinds, t \in Trunks : active[k][t] # x}

UpdateConfig(new) == cfg' = new

---------------------------------------------------------------------------
(* The supervisors *)

EnabledTrunks(k) == {t \in Trunks : cfg[t] = k}

Active(k) == {t \in Trunks : active[k][t] # none}

\* The ticker: the configuration is read before the supervisor's lock is taken.
\* A tick that finds what is active already is a stuttering step, because only
\* the supervisor changes active.
cfgSnapshot(k) ==
    /\ k \notin reconciling
    /\ EnabledTrunks(k) # Active(k)
    /\ reconciling' = reconciling \cup {k}
    /\ want' = [want EXCEPT ![k] = EnabledTrunks(k)]
    /\ UNCHANGED <<cfg, active, task>>

Dropped(k) == Active(k) \ want[k]
New(k) == want[k] \ Active(k)

Injections(S, T) == {f \in [S -> T] : \A s, t \in S : f[s] = f[t] => s = t}

\* Wrong: a new goroutine is not entered in active.
Supervise_unrecorded(k, cancelled, start) ==
    /\ task' = [x \in Tasks |->
           IF \E t \in DOMAIN start : start[t] = x
           THEN Started(k, CHOOSE t \in DOMAIN start : start[t] = x)
           ELSE IF Live(x) /\ \E t \in cancelled : active[k][t] = x
           THEN [task[x] EXCEPT !.cancelled = TRUE]
           ELSE task[x]]
    /\ active' = [active EXCEPT ![k] = [t \in Trunks |->
           IF t \in Dropped(k) THEN none ELSE active[k][t]]]
    /\ reconciling' = reconciling \ {k}
    /\ want' = [want EXCEPT ![k] = {}]
    /\ UNCHANGED cfg

\* Supervisor k cancels what it dropped and starts a goroutine for each trunk of
\* start, which names the goroutines.
Supervise(k, cancelled, start) ==
    /\ task' = [x \in Tasks |->
           IF \E t \in DOMAIN start : start[t] = x
           THEN Started(k, CHOOSE t \in DOMAIN start : start[t] = x)
           ELSE IF Live(x) /\ \E t \in cancelled : active[k][t] = x
           THEN [task[x] EXCEPT !.cancelled = TRUE]
           ELSE task[x]]
    /\ active' = [active EXCEPT ![k] = [t \in Trunks |->
           IF t \in DOMAIN start THEN start[t]
           ELSE IF t \in Dropped(k) THEN none ELSE active[k][t]]]
    /\ reconciling' = reconciling \ {k}
    /\ want' = [want EXCEPT ![k] = {}]
    /\ UNCHANGED cfg

\* Wrong: a trunk that is not wanted any more is forgotten without a cancel.
reconcile_noCancel(k) ==
    /\ k \in reconciling
    /\ Injections(New(k), Unused) # {}
    /\ Supervise(k, {}, CHOOSE f \in Injections(New(k), Unused) : TRUE)

reconcile(k) ==
    /\ k \in reconciling
    /\ Injections(New(k), Unused) # {}
    /\ Supervise(k, Dropped(k), CHOOSE f \in Injections(New(k), Unused) : TRUE)

---------------------------------------------------------------------------
(* The goroutines *)

Becomes(x, r) ==
    /\ task' = [task EXCEPT ![x] = r]
    /\ UNCHANGED <<cfg, reconciling, want, active>>

At(x, place) == [task[x] EXCEPT !.at = place]

\* The top of the loop of maintainTrunkOptions and maintainTrunkRegister.
maintainTrunk(x) ==
    /\ task[x].at = "check"
    /\ Becomes(x, IF task[x].cancelled \/ cfg[task[x].trunk] # task[x].kind
                  THEN Gone ELSE At(x, "call"))

\* At most 5 s, answered or not, with or without digest authentication.
pingTrunkOptions(x) ==
    /\ task[x].at = "call" /\ task[x].kind = "options"
    /\ Becomes(x, At(x, "wait"))

\* A registration is refreshed until that fails or the goroutine is cancelled.
registerSession(x) ==
    /\ task[x].at = "call" /\ task[x].kind = "register"
    /\ Becomes(x, IF task[x].cancelled THEN Gone ELSE At(x, "wait"))

\* The keepalive interval passes, or the goroutine is cancelled in it.
WaitInterval(x) ==
    /\ task[x].at = "wait"
    /\ \/ Becomes(x, At(x, "check"))
       \/ task[x].cancelled /\ Becomes(x, Gone)

TrunkNext ==
    \/ \E k \in Kinds : cfgSnapshot(k) \/ reconcile(k)
    \/ \E x \in Tasks :
          maintainTrunk(x) \/ pingTrunkOptions(x) \/ registerSession(x) \/ WaitInterval(x)

\* Whatever order configuration changes, ticks and failing registrations come
\* in, a goroutine that has not been cancelled is the one its supervisor can
\* cancel (keepalive.go): a supervisor has one such goroutine per trunk at most,
\* beside cancelled ones still in their last call, and none runs for ever that
\* nobody can stop.
OneKeepalive ==
    \A x \in Tasks : Live(x) /\ ~task[x].cancelled => active[task[x].kind][task[x].trunk] = x

\* A trunk that is switched off, removed or changed to another keepalive is soon
\* left alone (keepalive.go): no goroutine of the old kind is left for it, also
\* when the supervisor started one from a configuration that was replaced.
QuietWhenOff ==
    \A t \in Trunks, k \in Kinds :
        cfg[t] # k ~> \/ cfg[t] = k
                      \/ \A x \in Tasks : Live(x) => task[x].kind # k \/ task[x].trunk # t
=============================================================================
