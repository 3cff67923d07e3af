SPECIFICATION FairSpec
CONSTANTS
    Messages <- MCMessages
    NoStatus = NoStatus
    StaleTimeout = 2
    MaxStamp = 2
    Horizon = 3
    MaxWall = 5
    MaxRollbacks = 1
INVARIANTS FreshAuthority StatusExplainsCode LatchedIsCurrent
PROPERTIES ClearNeedsNewEvidence SilenceIsReported
