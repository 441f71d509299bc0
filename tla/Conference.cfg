CONSTANTS
    c1 = c1
    c2 = c2
    c3 = c3
    NoCaller = NoCaller
    Callers <- MCCallers
    Mixable <- MCMixable
    Max = 2
    MaxPINAttempts = 2
SPECIFICATION FairSpec
INVARIANTS
    TypeOK
    SeatsAccounted
    OnlyParticipantsOnAir
    NoMusicInMixer
    MediaMatchesRoom
PROPERTIES
    HoldStartsNoMusic
    LastOneHearsMusic
    ReservationEnds
CHECK_DEADLOCK FALSE
