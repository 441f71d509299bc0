CONSTANT N = 2
SPECIFICATION Spec
INVARIANT JoinedCallLasts
CHECK_DEADLOCK FALSE
