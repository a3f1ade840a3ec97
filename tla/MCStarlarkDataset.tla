------------------------- MODULE MCStarlarkDataset -------------------------
(* The script's argument and one more Dataset value, one meta value, and  *)
(* bodies of up to two rows: enough for a body that is read, one that is  *)
(* set to a different row count, and a previous version to copy from.    *)
(* One workflow ID: a dataset has at most one workflow in the store.      *)
EXTENDS AutomationDeploy

CONSTANTS arg, d1, m1, bad, w0

MCHandles == {arg, d1}
MCMetaVals == {m1}
MCWorkflowIDs == {w0}
=============================================================================
