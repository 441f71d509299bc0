CONSTANTS
    i1 = i1
    i2 = i2
    i3 = i3
    e1 = e1
    e2 = e2
    NoExt = NoExt
    NoInvite = NoInvite
    NoLeg = NoLeg
    Absent = Absent
    Invites <- MCTwoInvites
    Exts <- MCExts
    MaxCalls = 1
    Features = {"park", "refer"}
SPECIFICATION FairSpec
PROPERTIES
    PeerReleased
    ReferredPairReleased
CHECK_DEADLOCK FALSE
