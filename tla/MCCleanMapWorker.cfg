SPECIFICATION Spec
CONSTANTS
    Boundaries = {"reset", "load", "rebuild", "rollback", "loop"}
    BuildMayFail = FALSE
    CommitInterval = 2
    MaxDeferral = 1
    MaxCommits = 2
    MaxBoundaries = 1
    MaxRebuilds = 1
CONSTRAINT SwapWithOneOther
INVARIANTS LayersAreOfOneBuild
PROPERTIES LayersMoveForward
CHECK_DEADLOCK FALSE
