SPECIFICATION Spec
CONSTANTS
  Trunks = {t1}
  Tasks = {x1, x2, x3}
  none = none
  Numbers = {n1, n2}
  MaxId = 2
  null = null
  Plans <- MCPlans
INVARIANTS TypeOK OneKeepalive NoInheritedMembers 
PROPERTY QuietWhenOff
CHECK_DEADLOCK FALSE
