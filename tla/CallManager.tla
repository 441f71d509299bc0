---------------------------- MODULE CallManager ----------------------------
(***************************************************************************)
(* Admission control of the PBX (internal/call/manager.go).  Every INVITE  *)
(* is handled by a goroutine of its own; TryAcquire looks at the limits of *)
(* the two extensions in two critical sections, takes a system-wide slot   *)
(* with a compare-and-swap loop on an atomic counter, and only then        *)
(* records the session and the per-extension counts in a third critical    *)
(* section.  One action is one critical section or one atomic operation.   *)
(***************************************************************************)
EXTENDS Integers, FiniteSets

CONSTANTS
    Calls,                  \* dialog ids; diago makes a new one per INVITE
    Exts,                   \* numbers with an entry in the extension map
    Outside,                \* a number that is no extension (trunk, *code)
    NoUser,                 \* the empty user part of a From or To header
    MaxCallsConfigured,     \* limits.max_calls of config.toml
    MaxSimultaneousCalls,   \* [Exts -> Int], max_simultaneous_calls
    CallWaiting,            \* [Exts -> BOOLEAN]
    Requests,               \* the caller and callee pairs that INVITEs carry
    NoSession

Parties == Exts \cup {Outside, NoUser}
Session == [caller : Parties, callee : Parties]

ASSUME CallsAssumption == IsFiniteSet(Calls)

ASSUME PartiesAssumption ==
    /\ Requests \subseteq Session
    /\ Outside \notin Exts
    /\ NoUser \notin Exts \cup {Outside}
    /\ NoSession \notin Session

ASSUME LimitsAssumption ==
    /\ MaxCallsConfigured \in Int
    /\ MaxSimultaneousCalls \in [Exts -> Int]
    /\ CallWaiting \in [Exts -> BOOLEAN]

\* NewManager replaces a limit that is not positive by 200.
MaxCalls == IF MaxCallsConfigured <= 0 THEN 200 ELSE MaxCallsConfigured

\* config.DefaultMaxCallsPerExtension
DefaultMaxCallsPerExtension == 5

VARIABLES
    active,     \* the atomic counter of slots taken
    byID,       \* sessions on record
    extCalls,   \* call legs counted against a number (0: no map entry)
    pc,         \* where the goroutine of an INVITE stands
    req,        \* the arguments of its TryAcquire
    cur         \* the counter value its compare-and-swap expects

vars == <<active, byID, extCalls, pc, req, cur>>

Points == {"idle", "caller", "callee", "load", "cas", "record",
           "active", "rejected", "done", "trunk", "ended"}

TypeOK ==
    /\ active \in Nat
    /\ byID \in [Calls -> Session \cup {NoSession}]
    /\ extCalls \in [Parties -> Nat]
    /\ pc \in [Calls -> Points]
    /\ req \in [Calls -> Session]
    /\ cur \in [Calls -> Nat]

Init ==
    /\ active = 0
    /\ byID = [c \in Calls |-> NoSession]
    /\ extCalls = [p \in Parties |-> 0]
    /\ pc = [c \in Calls |-> "idle"]
    /\ req = [c \in Calls |-> [caller |-> NoUser, callee |-> NoUser]]
    /\ cur = [c \in Calls |-> 0]

-----------------------------------------------------------------------------

Limit(e) == IF MaxSimultaneousCalls[e] <= 0
            THEN DefaultMaxCallsPerExtension
            ELSE MaxSimultaneousCalls[e]

\* checkExtensionLimit returns nil for p when n legs are counted against it.
ExtensionFree(p, n) ==
    p \in Exts => \/ n < Limit(p)
                  \/ CallWaiting[p] /\ n = Limit(p)

\* Mutant: the entry is deleted whatever its count is.
Decremented_dropped(counts, p) ==
    IF p = NoUser THEN counts ELSE [counts EXCEPT ![p] = 0]

\* Release decrements a count and drops the entry at zero or below, except
\* under the empty name, which it skips.
Decremented(counts, p) ==
    IF p = NoUser THEN counts
    ELSE [counts EXCEPT ![p] = IF @ - 1 <= 0 THEN 0 ELSE @ - 1]

Incremented(counts, p) == [counts EXCEPT ![p] = @ + 1]

\* A handler of the PBX calls TryAcquire for a new dialog.
Invite(c, r) ==
    /\ pc[c] = "idle"
    /\ req' = [req EXCEPT ![c] = r]
    /\ pc' = [pc EXCEPT ![c] = "caller"]
    /\ UNCHANGED <<active, byID, extCalls, cur>>

\* The two calls of checkExtensionLimit: each locks mu, reads one count and
\* unlocks again.
CheckCaller(c) ==
    /\ pc[c] = "caller"
    /\ pc' = [pc EXCEPT ![c] =
                IF ExtensionFree(req[c].caller, extCalls[req[c].caller])
                THEN "callee" ELSE "rejected"]
    /\ UNCHANGED <<active, byID, extCalls, req, cur>>

CheckCallee(c) ==
    /\ pc[c] = "callee"
    /\ pc' = [pc EXCEPT ![c] =
                IF ExtensionFree(req[c].callee, extCalls[req[c].callee])
                THEN "load" ELSE "rejected"]
    /\ UNCHANGED <<active, byID, extCalls, req, cur>>

\* Mutant: one slot too many.
Load_offByOne(c) ==
    /\ pc[c] = "load"
    /\ cur' = [cur EXCEPT ![c] = active]
    /\ pc' = [pc EXCEPT ![c] = IF active > MaxCalls THEN "rejected" ELSE "cas"]
    /\ UNCHANGED <<active, byID, extCalls, req>>

\* cur := active.Load(), and the test against the system-wide limit.
Load(c) ==
    /\ pc[c] = "load"
    /\ cur' = [cur EXCEPT ![c] = active]
    /\ pc' = [pc EXCEPT ![c] = IF active >= MaxCalls THEN "rejected" ELSE "cas"]
    /\ UNCHANGED <<active, byID, extCalls, req>>

\* Mutant: the counter is bumped without comparing it to the tested value.
CompareAndSwap_blind(c) ==
    /\ pc[c] = "cas"
    /\ active' = active + 1
    /\ pc' = [pc EXCEPT ![c] = "record"]
    /\ UNCHANGED <<byID, extCalls, req, cur>>

\* Mutant: a lost race swaps again without loading the counter again.
CompareAndSwap_noReload(c) ==
    /\ pc[c] = "cas"
    /\ \/ /\ active = cur[c]
          /\ active' = cur[c] + 1
          /\ pc' = [pc EXCEPT ![c] = "record"]
       \/ /\ active # cur[c]
          /\ UNCHANGED <<active, pc>>
    /\ UNCHANGED <<byID, extCalls, req, cur>>

\* active.CompareAndSwap(cur, cur+1); a lost race goes round the loop.
CompareAndSwap(c) ==
    /\ pc[c] = "cas"
    /\ \/ /\ active = cur[c]
          /\ active' = cur[c] + 1
          /\ pc' = [pc EXCEPT ![c] = "record"]
       \/ /\ active # cur[c]
          /\ pc' = [pc EXCEPT ![c] = "load"]
          /\ UNCHANGED active
    /\ UNCHANGED <<byID, extCalls, req, cur>>

\* The critical section at the end of TryAcquire.
Record(c) ==
    /\ pc[c] = "record"
    /\ byID' = [byID EXCEPT ![c] = req[c]]
    /\ extCalls' = Incremented(Incremented(extCalls, req[c].caller),
                               req[c].callee)
    /\ pc' = [pc EXCEPT ![c] = "active"]
    /\ UNCHANGED <<active, req, cur>>

\* Mutant: the session stays on record, so that a second Release finds it.
Release_notDeleted(c) ==
    /\ pc[c] = "active"
    /\ active' = active - 1
    /\ extCalls' = Decremented(Decremented(extCalls, byID[c].caller),
                               byID[c].callee)
    /\ UNCHANGED <<byID, pc, req, cur>>

\* The call is over and the handler's deferred Release runs.  Its decrement
\* of the atomic counter happens inside the critical section; nothing reads
\* the counter and the maps together, so one action is enough.
Release(c) ==
    /\ pc[c] = "active"
    /\ byID[c] # NoSession
    /\ byID' = [byID EXCEPT ![c] = NoSession]
    /\ active' = active - 1
    /\ extCalls' = Decremented(Decremented(extCalls, byID[c].caller),
                               byID[c].callee)
    /\ pc' = [pc EXCEPT ![c] = "done"]
    /\ UNCHANGED <<req, cur>>

\* An INVITE from a trunk peer: tryInboundTrunk routes it to an extension, a
\* hunt group or every registered phone, and never asks the manager.
InboundTrunk(c) ==
    /\ pc[c] = "idle"
    /\ pc' = [pc EXCEPT ![c] = "trunk"]
    /\ UNCHANGED <<active, byID, extCalls, req, cur>>

EndTrunkCall(c) ==
    /\ pc[c] = "trunk"
    /\ pc' = [pc EXCEPT ![c] = "ended"]
    /\ UNCHANGED <<active, byID, extCalls, req, cur>>

TryAcquire(c) ==
    \/ CheckCaller(c) \/ CheckCallee(c)
    \/ Load(c) \/ CompareAndSwap(c) \/ Record(c)

Next ==
    \E c \in Calls :
        \/ \E r \in Requests : Invite(c, r)
        \/ TryAcquire(c)
        \/ Release(c)
        \/ InboundTrunk(c) \/ EndTrunkCall(c)

Spec == Init /\ [][Next]_vars

\* A goroutine that can run does run; nobody has to call, or to hang up.
FairSpec == Spec /\ \A c \in Calls : WF_vars(TryAcquire(c))

-----------------------------------------------------------------------------
(* Properties *)

Recorded == {c \in Calls : byID[c] # NoSession}
Holders  == {c \in Calls : pc[c] \in {"record", "active"}}
CallerLegs(p) == {c \in Recorded : byID[c].caller = p}
CalleeLegs(p) == {c \in Recorded : byID[c].callee = p}

\* However the INVITEs race for the last slot, the manager never has more
\* than max_calls slots out (TryAcquire's compare-and-swap loop).
WithinSystemLimit == Cardinality(Holders) <= MaxCalls /\ active <= MaxCalls

\* No slot and no per-extension count is ever lost or returned twice: the
\* atomic counter is the number of calls between their compare-and-swap and
\* their Release, and every count is the number of recorded legs.  The empty
\* user name is the exception: TryAcquire counts it, Release does not.
CountersMatchSessions ==
    /\ active = Cardinality(Holders)
    /\ \A p \in Parties \ {NoUser} :
          extCalls[p] = Cardinality(CallerLegs(p)) + Cardinality(CalleeLegs(p))

\* The goroutines implement the abstract admission of module CallAdmission:
\* the compare-and-swap is the moment of admission, Release gives back.
Admission == INSTANCE CallAdmission
    WITH admitted <- Holders, finished <- {c \in Calls : pc[c] = "done"}

ImplementsAdmission == Admission!ASpec

\* The retry loop of TryAcquire decides every INVITE, and does not spin
\* forever on an expected value that will not come back.
EveryInviteDecided ==
    \A c \in Calls : pc[c] = "caller" ~> pc[c] \in {"active", "rejected"}

\* REQ-PBX-2: "Per-extension max_simultaneous_calls limits how many active
\* calls each extension may have" - one more with call waiting.
ExtensionWithinLimit ==
    \A e \in Exts :
        Cardinality(CallerLegs(e) \cup CalleeLegs(e))
            <= Limit(e) + (IF CallWaiting[e] THEN 1 ELSE 0)
=============================================================================
