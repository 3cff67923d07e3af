SPECIFICATION Spec
CONSTANTS
    Persistent = {TRUE, FALSE}
    MaxChanges = 3
    MaxActive = 1
INVARIANT SavedSessionLoads
CHECK_DEADLOCK FALSE
