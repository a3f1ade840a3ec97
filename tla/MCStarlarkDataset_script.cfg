\* Deploy with or without Apply: a transform script over its dataset
\* argument and a second Dataset value, AssignComponentsFromDataframe, then
\* Save and SaveWorkflow.
CONSTANTS
    arg = arg
    d1 = d1
    m1 = m1
    bad = bad
    w0 = w0
    Handles <- MCHandles
    Arg = arg
    MetaVals <- MCMetaVals
    BadVal = bad
    MaxRows = 1
    WorkflowIDs <- MCWorkflowIDs
SPECIFICATION DeploySpec
\* Deploy returns or fails once; nothing follows it.
CHECK_DEADLOCK FALSE
INVARIANTS
    ChangesComplete

    DeployOutcome
