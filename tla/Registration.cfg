SPECIFICATION Spec
CONSTANTS
  Addrs = {a1}
  Handlers = {h1}
  Nonces = {n1}
  PreserveContactHost = FALSE
  GC = gc
  none = none
  Dialogs = {d1}
  Messages = {m1}
INVARIANTS TypeOK NonceHasTimer GoneIsReported NoMessageLost
PROPERTY QueuedMessageArrives
