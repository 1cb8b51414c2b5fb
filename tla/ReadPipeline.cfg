\* The three routines, calls of up to three blocks.
SPECIFICATION FairSpec
CONSTANTS
    Routines <- MCRoutines
    MaxCount = 3
INVARIANTS
    OkMeansStored
    CopyUndisturbed
PROPERTIES
    NoOverrun
    Returns
CHECK_DEADLOCK FALSE
