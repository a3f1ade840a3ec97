--------------------------- MODULE StarlarkDataset ---------------------------
(***************************************************************************)
(* The starlark Dataset value of src/transform/startf/ds/dataset.go: a   *)
(* transform script reads and writes the dataset handed to it (and any   *)
(* dataset it makes with dataset.new or receives through Unpack), then    *)
(* AssignComponentsFromDataframe folds the body frame back into the      *)
(* dataset's structure and body file.                                      *)
(*                                                                         *)
(* A Dataset is a struct of a frozen flag, a *dataset.Dataset, a body     *)
(* frame and a changes map; Unpack copies the struct (d = ds by value), so two   *)
(* handles can share one dataset and one changes map while each keeps   *)
(* its own flag and frame.  Handles are Go values; Objects are the        *)
(* dataset/changes pairs they point to.                                    *)
(*                                                                         *)
(* Abstraction: meta is a value of MetaVals; a structure is whether it is *)
(* set, where its schema came from, and its Entries count; a body file    *)
(* and a data frame are their row counts (a frame also records whether    *)
(* it has column names).  A starlark error ends the script: starlark has  *)
(* no way to catch it.                                                     *)
(***************************************************************************)
EXTENDS Integers, FiniteSets

CONSTANTS
    Handles,     \* starlark Dataset values; Arg is the one handed to the script
    Arg,
    MetaVals,    \* meta values set_meta can store
    BadVal,      \* a starlark value util.Unmarshal / NewDataFrame rejects
    MaxRows      \* bound on the rows of a body

ASSUME Arg \in Handles /\ BadVal \notin MetaVals

Rows == 0..MaxRows
NoBody == -1
NoFrame == [rows |-> -1, cols |-> FALSE]
Frame == [rows: Rows, cols: BOOLEAN]
Schemas == {"none", "tabular", "other"}
Structure == [present: BOOLEAN, schema: Schemas, entries: Rows]
NoStructure == [present |-> FALSE, schema |-> "none", entries |-> 0]
Components == {"meta", "structure", "body"}

VARIABLES
    live,     \* live[h]: h has been made by New, NewDataset or Unpack
    frozen,   \* frozen[h]: Dataset.frozen
    ref,      \* ref[h]: the object (ds pointer and changes map) h points to
    frame,    \* frame[h]: Dataset.bodyFrame
    meta,     \* meta[o]: ds.Meta ("nil" or a value)
    struct,   \* struct[o]: ds.Structure
    body,     \* body[o]: rows of ds.BodyFile(), NoBody when nil
    changes,  \* changes[o]: the keys of the changes map
    prev,     \* entries of the previous version's structure, NoBody when none
    phase,    \* "script", "failed", "assigned", "assign_failed"
    orig      \* what Arg's dataset held when the script began

vars == << live, frozen, ref, frame, meta, struct, body, changes, prev, phase, orig >>

Objects == Handles

TypeOK ==
    /\ live \in [Handles -> BOOLEAN]
    /\ frozen \in [Handles -> BOOLEAN]
    /\ ref \in [Handles -> Objects]
    /\ frame \in [Handles -> Frame \cup {NoFrame}]
    /\ meta \in [Objects -> MetaVals \cup {"nil"}]
    /\ struct \in [Objects -> Structure]
    /\ body \in [Objects -> Rows \cup {NoBody}]
    /\ changes \in [Objects -> SUBSET Components]
    /\ prev \in Rows \cup {NoBody}
    /\ phase \in {"script", "failed", "assigned", "assign_failed", "panic"}

(***************************************************************************)
(* NewDataset(ds) for the script's argument.  ds is the dataset the      *)
(* caller supplied (Deploy passes p.Dataset as it came), whatever its     *)
(* components; its structure, when set, counts its own body.  prev holds  *)
(* the Entries of the previous version, NoBody when there is none: the    *)
(* caller's body may or may not be that version's.  The other handles     *)
(* are not made yet.                                                       *)
(***************************************************************************)
Init ==
    /\ live = [h \in Handles |-> h = Arg]
    /\ frozen = [h \in Handles |-> FALSE]
    /\ ref = [h \in Handles |-> h]
    /\ frame = [h \in Handles |-> NoFrame]
    /\ \E m \in MetaVals \cup {"nil"}, b \in Rows \cup {NoBody},
          s \in Structure, p \in Rows \cup {NoBody} :
          /\ s.present => s.entries = IF b = NoBody THEN 0 ELSE b
          /\ ~s.present => s = NoStructure
          /\ meta = [o \in Objects |-> IF o = Arg THEN m ELSE "nil"]
          /\ struct = [o \in Objects |-> IF o = Arg THEN s ELSE NoStructure]
          /\ body = [o \in Objects |-> IF o = Arg THEN b ELSE NoBody]
          /\ prev = p
          /\ orig = [meta |-> m, struct |-> s, body |-> b]
    /\ changes = [o \in Objects |-> {}]
    /\ phase = "script"

\* A starlark error: the script stops and the transform fails.
Fail == phase' = "failed"

Record(o, k) == changes' = [changes EXCEPT ![o] = @ \cup {k}]

Running(h) == phase = "script" /\ live[h]

-----------------------------------------------------------------------------
(* dataset.new(): a fresh Dataset with an empty dataset and changes map.  *)
New(h) ==
    /\ phase = "script" /\ ~live[h]
    /\ live' = [live EXCEPT ![h] = TRUE]
    /\ UNCHANGED << frozen, ref, frame, meta, struct, body, changes, prev, phase, orig >>

(* Unpack: d = ds by value, a copy of the struct: the flag and the frame are     *)
(* copied, the dataset pointer and the changes map are shared.            *)
Unpack(h, g) ==
    /\ Running(g) /\ ~live[h] /\ h # Arg
    /\ live' = [live EXCEPT ![h] = TRUE]
    /\ frozen' = [frozen EXCEPT ![h] = frozen[g]]
    /\ ref' = [ref EXCEPT ![h] = ref[g]]
    /\ frame' = [frame EXCEPT ![h] = frame[g]]
    /\ UNCHANGED << meta, struct, body, changes, prev, phase, orig >>

Freeze(h) ==
    /\ Running(h) /\ ~frozen[h]
    /\ frozen' = [frozen EXCEPT ![h] = TRUE]
    /\ UNCHANGED << live, ref, frame, meta, struct, body, changes, prev, phase, orig >>

(* dsSetMeta: refused on a frozen dataset; "meta" is recorded before the  *)
(* value is converted, so a value that fails util.Unmarshal or Meta.Set   *)
(* still leaves the mark.                                                 *)
dsSetMeta(h, v) ==
    /\ Running(h)
    /\ IF frozen[h]
       THEN Fail /\ UNCHANGED << changes, meta >>
       ELSE /\ Record(ref[h], "meta")
            /\ IF v = BadVal THEN Fail /\ UNCHANGED meta
               ELSE meta' = [meta EXCEPT ![ref[h]] = v] /\ UNCHANGED phase
    /\ UNCHANGED << live, frozen, ref, frame, struct, body, prev, orig >>

(* dsSetStructure: likewise; json.Unmarshal into the (possibly new)       *)
(* structure replaces the schema and keeps the fields the value omits.    *)
dsSetStructure(h, v) ==
    /\ Running(h)
    /\ IF frozen[h]
       THEN Fail /\ UNCHANGED << changes, struct >>
       ELSE /\ Record(ref[h], "structure")
            /\ IF v = BadVal THEN Fail /\ UNCHANGED struct
               ELSE /\ struct' = [struct EXCEPT ![ref[h]].present = TRUE,
                                                ![ref[h]].schema = v]
                    /\ UNCHANGED phase
    /\ UNCHANGED << live, frozen, ref, frame, meta, body, prev, orig >>

\* Column names exist only when the schema is an array of tabular columns.
createColumnsFromStructure(o) == struct[o].schema = "tabular"

(* getBody (the "body" attribute): the cached frame when there is one;    *)
(* otherwise an empty frame when the dataset has no body, an error when   *)
(* it has a body but no structure, else a frame of the body's entries,    *)
(* named after the structure's columns.  The frame is cached on the       *)
(* handle, and reading is not a change.                                   *)
getBody(h) ==
    /\ Running(h) /\ frame[h] = NoFrame
    /\ LET o == ref[h] IN
       \/ /\ body[o] = NoBody
          /\ frame' = [frame EXCEPT ![h] = [rows |-> 0, cols |-> FALSE]]
          /\ UNCHANGED phase
       \/ /\ body[o] # NoBody /\ ~struct[o].present
          /\ Fail /\ UNCHANGED frame
       \/ /\ body[o] # NoBody /\ struct[o].present
          /\ frame' = [frame EXCEPT ![h] = [rows |-> body[o],
                                            cols |-> createColumnsFromStructure(o)]]
          /\ UNCHANGED phase
    /\ UNCHANGED << live, frozen, ref, meta, struct, body, changes, prev, orig >>

\* Faulty variant: the frame is replaced but "body" is not recorded.
setBodyNoRecord(h, v) ==
    IF v = BadVal THEN Fail /\ UNCHANGED << frame, changes >>
    ELSE frame' = [frame EXCEPT ![h] = v] /\ UNCHANGED << changes, phase >>

(* setBody: a value NewDataFrame rejects is an error; otherwise the frame *)
(* replaces the handle's frame and "body" is recorded.                    *)
setBody(h, v) ==
    IF v = BadVal THEN Fail /\ UNCHANGED << frame, changes >>
    ELSE /\ frame' = [frame EXCEPT ![h] = v]
         /\ Record(ref[h], "body")
         /\ UNCHANGED phase

(* SetField "body": refused on a frozen dataset, else setBody.            *)
SetField(h, v) ==
    /\ Running(h)
    /\ IF frozen[h] THEN Fail /\ UNCHANGED << frame, changes >>
       ELSE setBody(h, v)
    /\ UNCHANGED << live, frozen, ref, meta, struct, body, prev, orig >>

-----------------------------------------------------------------------------
(* AssignComponentsFromDataframe on the script's argument, with the        *)
(* changes map of that same Dataset as changeSet.                         *)

\* Named frame columns become a tabular schema, on a new csv structure if none.
assignStructureFromDataframeColumns(s, f) ==
    IF f = NoFrame \/ ~f.cols THEN s
    ELSE [s EXCEPT !.present = TRUE, !.schema = "tabular"]

\* The frame's rows become the body file; detect.Structure supplies a
\* structure when there is none, and Entries is the frame's row count.
assignBodyFromDataframe(s, f) ==
    IF f = NoFrame THEN s
    ELSE [present |-> TRUE, entries |-> f.rows,
          schema |-> IF s.present THEN s.schema ELSE "tabular"]

\* Faulty variant: Entries taken from the previous version even when the
\* body changed.
assignStructureAndCommitDetailsAlwaysCopy(s, hasBodyChange) ==
    IF prev = NoBody THEN s
    ELSE [present |-> TRUE, entries |-> prev,
          schema |-> IF s.present THEN s.schema ELSE "none"]

\* With a previous version and no body change, Entries is the previous
\* version's, on a new empty structure if there is none.
assignStructureAndCommitDetails(s, hasBodyChange) ==
    IF prev = NoBody \/ hasBodyChange THEN s
    ELSE [present |-> TRUE, entries |-> prev,
          schema |-> IF s.present THEN s.schema ELSE "none"]

(* The steps run in order and the first error returns, leaving what the  *)
(* earlier steps wrote: detect.Structure may fail after SetBodyFile, a    *)
(* body change with no structure dereferences d.ds.Structure.Length, and  *)
(* EnsureCommitTitleAndMessage may fail before Entries is assigned.       *)
AssignComponentsFromDataframe ==
    /\ phase = "script"
    /\ LET f   == frame[Arg]
           hbc == "body" \in changes[Arg]
           s1  == assignStructureFromDataframeColumns(struct[Arg], f)
           s2  == assignBodyFromDataframe(s1, f)
       IN /\ body' = [body EXCEPT ![Arg] = IF f = NoFrame THEN @ ELSE f.rows]
          /\ \/ f # NoFrame /\ struct' = [struct EXCEPT ![Arg] = s1]
                /\ phase' = "assign_failed"
             \/ hbc /\ ~s2.present /\ struct' = [struct EXCEPT ![Arg] = s2]
                /\ phase' = "panic"
             \/ (~hbc \/ s2.present) /\ struct' = [struct EXCEPT ![Arg] = s2]
                /\ phase' = "assign_failed"
             \/ (~hbc \/ s2.present)
                /\ struct' = [struct EXCEPT ![Arg] =
                                 assignStructureAndCommitDetails(s2, hbc)]
                /\ phase' = "assigned"
    /\ UNCHANGED << live, frozen, ref, frame, meta, changes, prev, orig >>

Next ==
    \/ \E h \in Handles : New(h) \/ Freeze(h) \/ getBody(h)
    \/ \E h, g \in Handles : Unpack(h, g)
    \/ \E h \in Handles, v \in MetaVals \cup {BadVal} : dsSetMeta(h, v)
    \/ \E h \in Handles, v \in {"tabular", "other", BadVal} : dsSetStructure(h, v)
    \/ \E h \in Handles, v \in Frame \cup {BadVal} : SetField(h, v)
    \/ AssignComponentsFromDataframe

Spec == Init /\ [][Next]_vars

-----------------------------------------------------------------------------
(* The changes map names every component the script altered: the caller   *)
(* relies on it to decide what to commit.  Meta and structure writes      *)
(* through any handle that shares the dataset are recorded, and a body   *)
(* committed with a different row count than the script began with was   *)
(* set, not just read.                                                   *)
ChangesComplete ==
    /\ meta[Arg] # orig.meta => "meta" \in changes[Arg]
    /\ (phase = "script" /\ struct[Arg] # orig.struct)
           => "structure" \in changes[Arg]
    /\ (phase = "assigned" /\ orig.body # NoBody /\ body[Arg] # orig.body)
           => "body" \in changes[Arg]

(* When AssignComponentsFromDataframe rewrites the body file from the     *)
(* frame, the structure's Entries counts the rows written: it is copied  *)
(* from the previous version only when the body is unchanged.           *)
BodyEntries ==
    (phase = "assigned" /\ frame[Arg] # NoFrame)
        => struct[Arg].present /\ struct[Arg].entries = body[Arg]
=============================================================================
