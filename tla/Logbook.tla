------------------------------ MODULE Logbook ------------------------------
(***************************************************************************)
(* The logbook's dataset logs, as far as the dscache observes them.  The  *)
(* logbook package is not part of src/, so this module follows the write  *)
(* API and resolution algorithm of spec.md section 4.2: a dataset log is  *)
(* Uninitialized ("none"), "active" or "deleted"; its head-visible name,  *)
(* commit ops (whose last path is the head) advance with Init, Commit,   *)
(* Rename and DeleteAll, and each write publishes one typed event.  Appends*)
(* are durable before the event is published (section 4.2, last para).   *)
(***************************************************************************)
EXTENDS Naturals, Sequences

CONSTANTS InitIDs, Authors, Names, Paths, NoPath, MaxCommits

VARIABLE book   \* book[i]: the dataset log whose InitID is i

DatasetLog == [state: {"none", "active", "deleted"}, author: Authors,
               name: Names, commits: Seq(Paths)]

\* An InitID not yet minted; author and name are placeholders.
Unminted == [state |-> "none", author |-> CHOOSE a \in Authors : TRUE,
             name |-> CHOOSE n \in Names : TRUE, commits |-> << >>]

\* The head path of a log: the path of its latest Commit op.
HeadPath(l) == IF l.commits = << >> THEN NoPath ELSE l.commits[Len(l.commits)]

LogbookInit == book = [i \in InitIDs |-> Unminted]

\* I3: the author's live dataset called name, if any.
LiveNamed(a, n) == {i \in InitIDs : book[i].state = "active"
                                    /\ book[i].author = a /\ book[i].name = n}

\* WriteDatasetInit (for a != the local owner: MergeLog of a's log).
WriteDatasetInit(a, n, i) ==
    /\ book[i].state = "none"
    /\ LiveNamed(a, n) = {}
    /\ book' = [book EXCEPT ![i] = [state |-> "active", author |-> a,
                                    name |-> n, commits |-> << >>]]

\* WriteCommit: rejected with ErrDeleted unless the log is active.
WriteCommit(i, p) ==
    /\ book[i].state = "active"
    /\ Len(book[i].commits) < MaxCommits
    /\ p # HeadPath(book[i])
    /\ book' = [book EXCEPT ![i].commits = Append(@, p)]

\* WriteRename: the new name must be free in the author's namespace.
WriteRename(i, n) ==
    /\ book[i].state = "active"
    /\ LiveNamed(book[i].author, n) = {}
    /\ book' = [book EXCEPT ![i].name = n]

\* WriteDeleteAll: the tombstone op; the log becomes terminal.
WriteDeleteAll(i) ==
    /\ book[i].state = "active"
    /\ book' = [book EXCEPT ![i].state = "deleted"]

\* The events each write publishes, built from the state after the write.
EventOf(type, i) == [type |-> type, initID |-> i, profileID |-> book'[i].author,
                     name |-> book'[i].name, path |-> HeadPath(book'[i]),
                     count |-> Len(book'[i].commits)]

\* ResolveRef for {Username, Name}: the unique live log with that name.
LogbookResolve(a, n, NotFound) ==
    IF LiveNamed(a, n) = {} THEN NotFound ELSE CHOOSE i \in LiveNamed(a, n) : TRUE
=============================================================================
