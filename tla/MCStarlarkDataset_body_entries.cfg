\* Deploy of a dataset with history whose body differs from the previous
\* version's: the script reads the body and does not set it.
CONSTANTS
    arg = arg
    d1 = d1
    m1 = m1
    bad = bad
    w0 = w0
    Handles <- MCHandles
    Arg = arg
    MetaVals <- MCMetaVals
    BadVal = bad
    MaxRows = 1
    WorkflowIDs <- MCWorkflowIDs
SPECIFICATION DeploySpec
CHECK_DEADLOCK FALSE
INVARIANT BodyEntries
