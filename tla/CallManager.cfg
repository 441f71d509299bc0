SPECIFICATION FairSpec
CONSTANTS
    e1 = e1
    e2 = e2
    c1 = c1
    c2 = c2
    c3 = c3
    Exts <- MCExts
    Calls <- MCCalls
    Outside = Outside
    NoUser = NoUser
    NoSession = NoSession
    MaxCallsConfigured = 2
    MaxSimultaneousCalls <- MCMaxSimultaneousCalls
    Requests <- MCRequests
    CallWaiting <- MCCallWaiting
INVARIANTS
    TypeOK
    WithinSystemLimit
    CountersMatchSessions
PROPERTIES
    ImplementsAdmission
    EveryInviteDecided
\* Every call may be over.
CHECK_DEADLOCK FALSE
