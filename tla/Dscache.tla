------------------------------ MODULE Dscache ------------------------------
(***************************************************************************)
(* The dscache of src/dscache/dscache.go as a value: the flatbuffer root  *)
(* (users and refs vectors), the event handler that rebuilds it, and the  *)
(* two lookups of ResolveRef.  Every operator here is pure: the module    *)
(* that owns the state (DscacheSync) decides when a goroutine reads the   *)
(* root and when it swaps in the rebuilt one.                             *)
(*                                                                         *)
(* Abstraction: a profile's username and its profileID are the same model *)
(* value (UserAssoc pairs them one to one); a HeadRef is a model value of *)
(* Paths; MetaTitle, CommitTime and the body statistics change together   *)
(* with HeadRef in updateChangeCursor and are not kept apart.             *)
(***************************************************************************)
EXTENDS Naturals, Sequences, SequencesExt

CONSTANTS
    InitIDs,          \* dataset init IDs the logbook can mint
    Authors,          \* profiles (username = profileID)
    Names,            \* pretty names
    Paths,            \* HeadRef values of committed versions
    NoPath,           \* the empty HeadRef ""
    Garbage,          \* what a flatbuffer read past the end of a vector decodes to
    MaxCommits,       \* bound on the commits of one dataset
    CreateNewEnabled, \* Dscache.CreateNewEnabled
    BadProfiles       \* profiles whose encoded ID is not lengthOfProfileID long

ASSUME BadProfiles \subseteq Authors
ASSUME NoPath \notin Paths /\ Garbage \notin InitIDs \cup Authors \cup Names

\* A RefEntryInfo table of the refs vector.
Entry == [initID: InitIDs \cup {Garbage}, profileID: Authors \cup {Garbage},
          name: Names \cup {Garbage}, topIndex: 0..MaxCommits,
          cursorIndex: 0..MaxCommits, head: Paths \cup {NoPath}]

\* The decoded value of an entry read past the end of the refs vector.
GarbageEntry == [initID |-> Garbage, profileID |-> Garbage, name |-> Garbage,
                 topIndex |-> 0, cursorIndex |-> 0, head |-> NoPath]

\* A Dscache's Root: absent (nil) or a users vector and a refs vector.
NoRoot == [root |-> "nil", users |-> << >>, refs |-> << >>]
Root == [root: {"set"}, users: Seq(Authors), refs: Seq(Entry)]

\* Handler outcomes other than a new root: a panic (the process dies), and
\* an early return that leaves Root and the saved file alone.
Panic == [root |-> "panic", users |-> << >>, refs |-> << >>]
Unchanged == [root |-> "unchanged", users |-> << >>, refs |-> << >>]

\* dsref.VersionInfo payloads of the subscribed event types.
EventTypes == {"NameInit", "WriteCommit", "DeleteAll", "Rename"}
Event == [type: EventTypes, initID: InitIDs, profileID: Authors,
          name: Names, path: Paths \cup {NoPath}, count: 0..MaxCommits]

IsEmpty(d) == d.root = "nil"

validateProfileID(pid) == pid \notin BadProfiles

\* builder.AddDsVersionInfo: a new entry with zeroed indexes and no head.
NewEntry(act) == [initID |-> act.initID, profileID |-> act.profileID,
                  name |-> act.name, topIndex |-> 0, cursorIndex |-> 0,
                  head |-> NoPath]

(***************************************************************************)
(* The "copy ds versions" loop of updateInitDataset: it runs i over       *)
(* 0..UsersLength()-1 and reads Refs(&r, i).  An index at or past         *)
(* RefsLength() reads beyond the vector; the flatbuffers accessor has no  *)
(* bounds check, so the read either decodes garbage or panics.            *)
(***************************************************************************)
CopiedRefs(d) ==
    [k \in 1..Len(d.users) |-> IF k <= Len(d.refs) THEN d.refs[k] ELSE GarbageEntry]

CopyReadsPastRefs(d) == Len(d.users) > Len(d.refs)

\* Faulty variant: the IsEmpty early branch dropped, the copy path taken
\* from a nil Root.
UpdateInitDatasetNoEmptyCheck(d, act) ==
    LET rebuilt == [d EXCEPT !.refs = CopiedRefs(d) \o << NewEntry(act) >>]
    IN IF CopyReadsPastRefs(d) THEN {rebuilt, Panic} ELSE {rebuilt}

\* updateInitDataset: the set of roots (or Panic) the handler can produce.
UpdateInitDataset(d, act) ==
    IF IsEmpty(d)
    THEN IF ~CreateNewEnabled \/ ~validateProfileID(act.profileID)
         THEN {Unchanged}
         ELSE {[root |-> "set", users |-> << act.profileID >>,
                refs |-> << NewEntry(act) >>]}
    ELSE LET rebuilt == [d EXCEPT !.refs = CopiedRefs(d) \o << NewEntry(act) >>]
         IN IF CopyReadsPastRefs(d) THEN {rebuilt, Panic} ELSE {rebuilt}

(***************************************************************************)
(* Faulty variants of the handlers, each the shape of a plausible slip in *)
(* the Go code; the runs' properties must tell each one apart.            *)
(***************************************************************************)
\* TopIndex written one past the commit count.
UpdateChangeCursorPastCount(d, act) ==
    IF IsEmpty(d) THEN {Unchanged}
    ELSE {[d EXCEPT !.refs =
            [k \in DOMAIN d.refs |->
               IF d.refs[k].initID = act.initID
               THEN [d.refs[k] EXCEPT !.topIndex = act.count + 1,
                                      !.cursorIndex = act.count,
                                      !.head = act.path]
               ELSE d.refs[k]]]}

\* RefEntryInfoAddHeadRef left out of the replacement function.
UpdateChangeCursorNoHead(d, act) ==
    IF IsEmpty(d) THEN {Unchanged}
    ELSE {[d EXCEPT !.refs =
            [k \in DOMAIN d.refs |->
               IF d.refs[k].initID = act.initID
               THEN [d.refs[k] EXCEPT !.topIndex = act.count,
                                      !.cursorIndex = act.count]
               ELSE d.refs[k]]]}

\* RefEntryInfoAddTopIndex left out of the replacement function.
UpdateChangeCursorNoTopIndex(d, act) ==
    IF IsEmpty(d) THEN {Unchanged}
    ELSE {[d EXCEPT !.refs =
            [k \in DOMAIN d.refs |->
               IF d.refs[k].initID = act.initID
               THEN [d.refs[k] EXCEPT !.cursorIndex = act.count,
                                      !.head = act.path]
               ELSE d.refs[k]]]}

\* A nil replacement function taken to mean "copy the entry unchanged".
UpdateDeleteDatasetKeep(d, initID) ==
    IF IsEmpty(d) THEN {Unchanged} ELSE {d}

\* updateChangeCursor: every entry with the event's initID gets the new
\* indexes and head; the rest are copied.
UpdateChangeCursor(d, act) ==
    IF IsEmpty(d) THEN {Unchanged}
    ELSE {[d EXCEPT !.refs =
            [k \in DOMAIN d.refs |->
               IF d.refs[k].initID = act.initID
               THEN [d.refs[k] EXCEPT !.topIndex = act.count,
                                      !.cursorIndex = act.count,
                                      !.head = act.path]
               ELSE d.refs[k]]]}

\* updateDeleteDataset: copy every entry except those with the initID.
UpdateDeleteDataset(d, initID) ==
    IF IsEmpty(d) THEN {Unchanged}
    ELSE {[d EXCEPT !.refs = SelectSeq(d.refs, LAMBDA r: r.initID # initID)]}

\* handler: dispatch on the event type; ETDatasetRename is a TODO no-op.
handler(d, e) ==
    CASE e.type = "NameInit"    -> UpdateInitDataset(d, e)
      [] e.type = "WriteCommit" -> UpdateChangeCursor(d, e)
      [] e.type = "DeleteAll"   -> UpdateDeleteDataset(d, e.initID)
      [] e.type = "Rename"      -> {Unchanged}

-----------------------------------------------------------------------------
(* Reads.  NotFound stands for dsref.ErrRefNotFound.                      *)
NotFound == "ErrRefNotFound"

\* LookupByName: username -> profileID through Users, then the first entry
\* with that profileID and pretty name; 0 when either step fails.
LookupByName(d, username, name) ==
    IF ~Contains(d.users, username) THEN 0
    ELSE SelectInSeq(d.refs, LAMBDA r: r.profileID = username /\ r.name = name)

\* ensureProToUserMap: the profile IDs the Users vector gives a username
\* (in this model a profile's username is the profile itself).
ensureProToUserMap(d) == Range(d.users)

(* ListRefs: one ref per entry of the refs vector, in order, with the    *)
(* Peername of its profile or "" when Users has none (the code only logs *)
(* that); ErrNoDscache, so nothing listed, when there is no Root.        *)
ListRefs(d) ==
    IF IsEmpty(d) THEN << >>
    ELSE [k \in DOMAIN d.refs |->
            [ref |-> d.refs[k],
             peername |-> IF d.refs[k].profileID \in ensureProToUserMap(d)
                          THEN d.refs[k].profileID ELSE ""]]

\* ResolveRef for a {Username, Name} reference: the InitID it fills in.
ResolveRefByName(d, username, name) ==
    IF IsEmpty(d) THEN NotFound
    ELSE LET k == LookupByName(d, username, name)
         IN IF k = 0 THEN NotFound ELSE d.refs[k].initID

\* ResolveRef for an {InitID} reference (completeRef): the HeadRef it fills in.
completeRef(d, initID) ==
    IF IsEmpty(d) THEN NotFound
    ELSE LET k == SelectInSeq(d.refs, LAMBDA r: r.initID = initID)
         IN IF k = 0 THEN NotFound ELSE d.refs[k].head
=============================================================================
