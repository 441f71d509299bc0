CONSTANTS
    i1 = i1
    i2 = i2
    i3 = i3
    e1 = e1
    e2 = e2
    NoExt = NoExt
    NoInvite = NoInvite
    NoLeg = NoLeg
    Absent = Absent
    Invites <- MCInvites
    Exts <- MCExts
    MaxCalls = 2
    Features = {"transfer", "park", "retrieve", "trunk"}
SYMMETRY MCSymmetry
SPECIFICATION Spec
INVARIANTS
    TypeOK
    NothingLeftBehind
    IndexAgrees
    RetrievedPartyReleased
    SlotHoldsPeer
CHECK_DEADLOCK FALSE
