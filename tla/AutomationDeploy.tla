-------------------------- MODULE AutomationDeploy --------------------------
(***************************************************************************)
(* automationImpl.Deploy (src/base/dsfs/package.go, the lib automation    *)
(* methods): optionally apply the dataset's transform, save the dataset,  *)
(* then mark the workflow deployed and store it.  automationImpl.Apply    *)
(* runs the transform of a fresh dataset and, when it waits, previews     *)
(* the result.  The transform run is    *)
(* the starlark script of StarlarkDataset over the deployed dataset: the  *)
(* transformer outside src/ hands the dataset to the script and returns   *)
(* an error unless AssignComponentsFromDataframe returned nil.            *)
(*                                                                         *)
(* Save and the workflow store are outside src/.  Save returns the saved  *)
(* version, a plain error, or dsfs.ErrNoChanges when a dataset with       *)
(* history is saved unchanged; what it returns beside ErrNoChanges is     *)
(* not fixed by src/, so both a version and nil are possible.  The store *)
(* follows the contract of src/automation/spec/workflow_store.go: Put of  *)
(* a workflow with no ID creates one unless the dataset already has a     *)
(* workflow (ErrWorkflowForDatasetExists); Put with an ID updates it.     *)
(***************************************************************************)
EXTENDS StarlarkDataset, TLC

CONSTANTS
    WorkflowIDs   \* IDs the store can hand out; the first may already exist

VARIABLES
    dphase,   \* where the method is: "start", "applying", "previewing",
              \* "saving", "storing", "done", "err", "panic"
    apply,    \* DeployParams.Apply
    wf,       \* p.Workflow: its ID ("" for a new one) and Deployed flag
    store,    \* the stored workflows of the dataset: ID -> Deployed
    saved,    \* the DatasetID Deploy got from Save: "none", "ds", "nil"
    method,   \* the automationImpl method called: "deploy" or "apply"
    wait      \* ApplyParams.Wait (Deploy always waits for its transform)

dvars == << dphase, apply, wf, store, saved, method, wait >>
allvars == << vars, dvars >>

NoID == ""

(***************************************************************************)
(* DeployParams.Validate holds: the workflow is set and names the dataset.*)
(* The store may hold a workflow for a dataset with history, and the      *)
(* caller passes either that workflow or a new one.  Nothing before Save  *)
(* reads the workflow or the store, so both are chosen when Save first    *)
(* uses them (Unread until then): the same behaviours, fewer states.      *)
(***************************************************************************)
Unread == [id |-> "unread", deployed |-> FALSE]

DeployInputs ==
    {<< s, w >> : s \in UNION {[d -> BOOLEAN] : d \in {{}} \cup
                        IF prev = NoBody THEN {} ELSE {{i} : i \in WorkflowIDs}},
                  w \in [id: {NoID}, deployed: {FALSE}] \cup [id: WorkflowIDs, deployed: BOOLEAN]}

(* Apply's dataset is &dataset.Dataset{} with only Name and Peername (and *)
(* the transform) set: no meta, structure, body or previous version.     *)
FreshDataset ==
    /\ meta[Arg] = "nil" /\ body[Arg] = NoBody
    /\ struct[Arg] = NoStructure /\ prev = NoBody

DeployInit ==
    /\ Init
    /\ dphase = "start"
    /\ method \in {"deploy", "apply"}
    /\ method = "apply" => FreshDataset
    /\ wait \in IF method = "apply" THEN BOOLEAN ELSE {TRUE}
    /\ apply \in IF method = "apply" THEN {TRUE} ELSE BOOLEAN
    /\ store = << >>
    /\ wf = Unread
    /\ saved = "none"

\* if p.Apply: ApplyWorkflow runs the transform, waiting for it.
Start ==
    /\ dphase = "start" /\ method = "deploy"
    /\ dphase' = IF apply THEN "applying" ELSE "saving"
    /\ UNCHANGED << vars, apply, wf, store, saved, method, wait >>

(* automationImpl.Apply up to ApplyWorkflow: a p.Ref that does not parse  *)
(* or resolve returns the error; otherwise the transform starts.          *)
ApplyStart ==
    /\ dphase = "start" /\ method = "apply"
    /\ dphase' \in {"err", "applying"}
    /\ UNCHANGED << vars, apply, wf, store, saved, method, wait >>

\* Where a method goes when its transform assigned the dataset.
AfterApply == IF method = "deploy" THEN "saving" ELSE "previewing"

\* A step of the transform script, or AssignComponentsFromDataframe.
ScriptStep ==
    /\ dphase = "applying" \/ (dphase = "done" /\ ~wait)
    /\ Next
    /\ UNCHANGED dvars

\* Faulty variant: the error of a failed assignment not returned.
ApplyWorkflowIgnoreAssign ==
    /\ dphase = "applying" /\ wait
    /\ phase \in {"failed", "assigned", "assign_failed", "panic"}
    /\ dphase' = CASE phase \in {"assigned", "assign_failed"} -> AfterApply
                   [] phase = "failed" -> "err"
                   [] phase = "panic" -> "panic"
    /\ UNCHANGED << vars, apply, wf, store, saved, method, wait >>

(* ApplyWorkflow returns once the script has ended: its error (a starlark *)
(* error or one from AssignComponentsFromDataframe) ends the method; on   *)
(* nil Deploy sets the commit's run ID and goes on to Save, and Apply to  *)
(* preview.Create.                                                         *)
ApplyWorkflow ==
    /\ dphase = "applying" /\ wait
    /\ phase \in {"failed", "assigned", "assign_failed", "panic"}
    /\ dphase' = CASE phase = "assigned" -> AfterApply
                   [] phase \in {"failed", "assign_failed"} -> "err"
                   [] phase = "panic" -> "panic"
    /\ UNCHANGED << vars, apply, wf, store, saved, method, wait >>

(* ApplyWorkflow with wait false hands the run to the scheduler and       *)
(* returns its run ID, or an error, at once; Apply returns no dataset and *)
(* the script goes on after it returned.                                  *)
ApplyWorkflowNoWait ==
    /\ dphase = "applying" /\ ~wait
    /\ dphase' \in {"done", "err"}
    /\ UNCHANGED << vars, apply, wf, store, saved, method, wait >>

(* Apply with wait: preview.Create of the dataset the transform wrote     *)
(* fails or gives res.Data.                                                *)
Preview ==
    /\ dphase = "previewing"
    /\ dphase' \in {"err", "done"}
    /\ UNCHANGED << vars, apply, wf, store, saved, method, wait >>

(* datasetImpl.Save: an error other than ErrNoChanges ends Deploy;        *)
(* otherwise the workflow gets the owner, res.ID and Deployed = true      *)
(* (res.ID dereferences a nil res).                                       *)
Save ==
    /\ dphase = "saving"
    /\ \E in \in DeployInputs :
          /\ in[2].id # NoID => in[2].id \in DOMAIN in[1] /\ in[2].deployed = in[1][in[2].id]
          /\ store' = in[1]
          /\ \/ dphase' = "err" /\ wf' = in[2] /\ UNCHANGED saved
             \/ \E res \in IF prev # NoBody THEN {"ds", "nil"} ELSE {"ds"} :
                   /\ saved' = res
                   /\ IF res = "nil" THEN dphase' = "panic" /\ wf' = in[2]
                      ELSE /\ wf' = [in[2] EXCEPT !.deployed = TRUE]
                           /\ dphase' = "storing"
    /\ UNCHANGED << vars, apply, method, wait >>

\* store.Put refuses a workflow with no ID for a dataset that has one
\* (ErrWorkflowForDatasetExists), and gives any other new one an ID.
WorkflowForDatasetExists(w) == w.id = NoID /\ DOMAIN store # {}

(* SaveWorkflow (store.Put): a new workflow for a dataset that has one is *)
(* refused; a new one otherwise gets a fresh ID; a stored one is updated. *)
SaveWorkflow ==
    /\ dphase = "storing"
    /\ \/ /\ WorkflowForDatasetExists(wf)
          /\ dphase' = "err" /\ UNCHANGED << wf, store >>
       \/ /\ wf.id = NoID /\ ~WorkflowForDatasetExists(wf)
          /\ \E i \in WorkflowIDs :
                /\ wf' = [wf EXCEPT !.id = i]
                /\ store' = i :> wf.deployed
          /\ dphase' = "done"
       \/ /\ wf.id # NoID
          /\ store' = [store EXCEPT ![wf.id] = wf.deployed]
          /\ dphase' = "done" /\ UNCHANGED wf
       \/ dphase' = "err" /\ UNCHANGED << wf, store >>
    /\ UNCHANGED << vars, apply, saved, method, wait >>

DeployNext ==
    \/ Start \/ ApplyStart \/ ScriptStep
    \/ ApplyWorkflow \/ ApplyWorkflowNoWait \/ Preview
    \/ Save \/ SaveWorkflow

DeploySpec == DeployInit /\ [][DeployNext]_allvars

-----------------------------------------------------------------------------
(* A Deploy that returns its response leaves exactly one stored workflow *)
(* for the dataset, marked deployed and the one returned; a method that   *)
(* waited for its transform (Deploy with Apply, Apply with Wait) returns  *)
(* only a dataset the transform assigned without error.  Store, preview   *)
(* and transform failures arrive at different points of the sequence, and *)
(* an earlier failure must stop it.                                       *)
DeployOutcome ==
    dphase = "done" =>
        /\ method = "deploy" => DOMAIN store = {wf.id} /\ store[wf.id]
        /\ (apply /\ wait) => phase = "assigned"
=============================================================================
