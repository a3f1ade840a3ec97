---------------------------- MODULE DscacheSync ----------------------------
(***************************************************************************)
(* Logbook writes, the event bus and the dscache, composed.               *)
(*                                                                         *)
(* A writer goroutine performs one logbook write (serialized by the       *)
(* logbook's writer lock, spec.md section 5), then publishes its event.   *)
(* The bus fans out synchronously on the publisher's goroutine, so the    *)
(* dscache handler (src/dscache/dscache.go, handler and update* methods) *)
(* runs on that goroutine.  The handler takes no lock: it reads d.Root,   *)
(* builds a new flatbuffer from what it read (Build), then assigns d.Root *)
(* (AssignRoot), then d.Buffer (AssignBuffer), and saves the file (Save). *)
(* Two writers' handlers can interleave between any of those steps.  The process can die (a panic in   *)
(* the handler, or a crash when CrashEnabled) and restart: NewDscache     *)
(* loads the saved file; the logbook is durable.  Repo construction     *)
(* (RepoBuild) fixes whether there is a file and whether events reach    *)
(* the handler at all; a restart builds the repo the same way again.     *)
(***************************************************************************)
EXTENDS Naturals, Sequences, SequencesExt

CONSTANTS
    InitIDs, Authors, Names, Paths, NoPath, Garbage, MaxCommits,
    CreateNewEnabled, BadProfiles,
    Writers,       \* goroutines that write to the logbook
    Repos,         \* the dscaches repo construction (RepoBuild) can produce
    CrashEnabled   \* whether the process may crash between any two steps

VARIABLES
    book,    \* the logbook (Logbook.tla)
    cache,   \* d.Root: the Dscache root in memory, which lookups read
    buffer,  \* d.Buffer: the serialized root save() writes
    file,    \* the contents of dscache.qfb, NoRoot if never saved
    pc,      \* pc[w]: "idle", "publish", "root", "buffer", "save" (handler steps)
    ev,      \* ev[w]: the event writer w is publishing
    built,   \* built[w]: the root w's handler built and has not yet assigned
    repo     \* the repo's dscache as construction left it (RepoBuild)

vars == << book, cache, buffer, file, pc, ev, built, repo >>

DC == INSTANCE Dscache
LB == INSTANCE Logbook

\* Dscache.Filename # "": save() writes the buffer to a file.
Persisted == repo.persisted
\* NewDscache subscribed the handler to a bus other than event.NilBus.
BusLive == repo.busLive

NoEvent == [type |-> "none"]

TypeOK ==
    /\ book \in [InitIDs -> LB!DatasetLog]
    /\ cache \in {DC!NoRoot} \cup DC!Root
    /\ buffer \in {DC!NoRoot} \cup DC!Root
    /\ file \in {DC!NoRoot} \cup DC!Root
    /\ pc \in [Writers -> {"idle", "publish", "root", "buffer", "save"}]
    /\ ev \in [Writers -> DC!Event \cup {NoEvent}]
    /\ built \in [Writers -> {DC!NoRoot} \cup DC!Root]
    /\ \A w \in Writers : (pc[w] = "idle") <=> (ev[w] = NoEvent)
    /\ repo \in Repos

Init ==
    /\ LB!LogbookInit
    /\ cache = DC!NoRoot
    /\ buffer = DC!NoRoot
    /\ file = DC!NoRoot
    /\ pc = [w \in Writers |-> "idle"]
    /\ ev = [w \in Writers |-> NoEvent]
    /\ built = [w \in Writers |-> DC!NoRoot]
    /\ repo \in Repos

-----------------------------------------------------------------------------
(* Logbook writes.  Each is atomic under the writer lock and leaves the   *)
(* writer about to publish the event the write produced.                  *)

(* Publishing on a NilBus calls no handler: the write returns at once.  *)
Publish(w, type, i) ==
    /\ \/ /\ BusLive
          /\ ev' = [ev EXCEPT ![w] = LB!EventOf(type, i)]
          /\ pc' = [pc EXCEPT ![w] = "publish"]
       \/ ~BusLive /\ UNCHANGED << ev, pc >>
    /\ UNCHANGED << cache, buffer, file, built, repo >>

WriteDatasetInit(w) ==
    /\ pc[w] = "idle"
    /\ \E a \in Authors, n \in Names, i \in InitIDs :
          LB!WriteDatasetInit(a, n, i) /\ Publish(w, "NameInit", i)

WriteCommit(w) ==
    /\ pc[w] = "idle"
    /\ \E i \in InitIDs, p \in Paths :
          LB!WriteCommit(i, p) /\ Publish(w, "WriteCommit", i)

WriteRename(w) ==
    /\ pc[w] = "idle"
    /\ \E i \in InitIDs, n \in Names :
          LB!WriteRename(i, n) /\ Publish(w, "Rename", i)

WriteDeleteAll(w) ==
    /\ pc[w] = "idle"
    /\ \E i \in InitIDs :
          LB!WriteDeleteAll(i) /\ Publish(w, "DeleteAll", i)

-----------------------------------------------------------------------------
(* The process dies and NewDscache reloads dscache.qfb (an empty dscache  *)
(* when there is no file); Root and Buffer both come from it.  Events     *)
(* being published are lost.                                              *)
Restart ==
    /\ cache' = IF Persisted THEN file ELSE DC!NoRoot
    /\ buffer' = cache'
    /\ pc' = [w \in Writers |-> "idle"]
    /\ ev' = [w \in Writers |-> NoEvent]
    /\ built' = [w \in Writers |-> DC!NoRoot]
    /\ UNCHANGED << book, file, repo >>

(* The handler reads d.Root and builds the new root from it.  An early    *)
(* return ends the publish; a panic kills the process.                    *)
Build(w) ==
    /\ pc[w] = "publish"
    /\ \E out \in DC!handler(cache, ev[w]) :
         \/ /\ out = DC!Unchanged
            /\ pc' = [pc EXCEPT ![w] = "idle"]
            /\ ev' = [ev EXCEPT ![w] = NoEvent]
            /\ UNCHANGED << book, cache, buffer, file, built, repo >>
         \/ /\ out = DC!Panic
            /\ Restart
         \/ /\ out \notin {DC!Unchanged, DC!Panic}
            /\ built' = [built EXCEPT ![w] = out]
            /\ pc' = [pc EXCEPT ![w] = "root"]
            /\ UNCHANGED << book, cache, buffer, file, ev, repo >>

(* d.Root = root (Assign, or the tail of updateChangeCursor and           *)
(* updateDeleteDataset): lookups see the new root from here on.          *)
AssignRoot(w) ==
    /\ pc[w] = "root"
    /\ cache' = built[w]
    /\ pc' = [pc EXCEPT ![w] = "buffer"]
    /\ UNCHANGED << book, buffer, file, ev, built, repo >>

(* d.Buffer = serialized, the next statement: the bytes of the same root. *)
AssignBuffer(w) ==
    /\ pc[w] = "buffer"
    /\ buffer' = built[w]
    /\ pc' = [pc EXCEPT ![w] = "save"]
    /\ built' = [built EXCEPT ![w] = DC!NoRoot]
    /\ UNCHANGED << book, cache, file, ev, repo >>

(* d.save(): writes d.Buffer as it is now, which a concurrent handler may *)
(* have replaced since this one assigned it; nothing when Filename = "".  *)
Save(w) ==
    /\ pc[w] = "save"
    /\ file' = IF Persisted THEN buffer ELSE file
    /\ pc' = [pc EXCEPT ![w] = "idle"]
    /\ ev' = [ev EXCEPT ![w] = NoEvent]
    /\ UNCHANGED << book, cache, buffer, built, repo >>

Crash ==
    /\ CrashEnabled
    /\ Restart

Next ==
    \/ \E w \in Writers :
          \/ WriteDatasetInit(w)
          \/ WriteCommit(w)
          \/ WriteRename(w)
          \/ WriteDeleteAll(w)
          \/ Build(w)
          \/ AssignRoot(w)
          \/ AssignBuffer(w)
          \/ Save(w)
    \/ Crash

(* A goroutine that has published runs its handler to the end: the bus   *)
(* calls handlers synchronously and the Go scheduler runs every runnable *)
(* goroutine.  Nothing obliges clients to keep writing.                   *)
Spec == Init /\ [][Next]_vars /\ \A w \in Writers : WF_vars(Build(w) \/ AssignRoot(w) \/ AssignBuffer(w) \/ Save(w))

-----------------------------------------------------------------------------
(* Properties *)

Quiescent == \A w \in Writers : pc[w] = "idle"

\* The entries ListRefs reports that describe a dataset the logbook knows.
Listed(d) == {r.ref : r \in Range(DC!ListRefs(d))} \ {DC!GarbageEntry}

(* Stale heads: once every published event has been handled, each entry  *)
(* of a live dataset carries the logbook's head path and commit count     *)
(* (updateChangeCursor replaced it on every commit event).                *)
HeadFresh ==
    Quiescent =>
      \A e \in Listed(cache) :
         book[e.initID].state = "active" =>
            /\ e.head = LB!HeadPath(book[e.initID])
            /\ e.topIndex = Len(book[e.initID].commits)

(* Resurrection: once every published event has been handled, no entry  *)
(* of the dscache belongs to a dataset whose log was deleted             *)
(* (updateDeleteDataset omitted it and nothing re-adds it).               *)
NoResurrection ==
    Quiescent =>
      \A e \in Listed(cache) : book[e.initID].state # "deleted"

(* Torn versions: in every state, in memory (d.Root and d.Buffer) and on *)
(* disk, an entry shows a version the dataset really had: its TopIndex   *)
(* is at most the commit count and its HeadRef is the path of commit number TopIndex.  Lost,   *)
(* reordered or racing events may leave it behind, never inconsistent.   *)
VersionCoherent ==
    \A d \in {cache, buffer, file} :
      \A e \in Listed(d) :
         LET log == book[e.initID].commits IN
         /\ e.topIndex <= Len(log)
         /\ e.head = IF e.topIndex = 0 THEN NoPath ELSE log[e.topIndex]

\* The InitIDs a root has an entry for.
ListedIDs(d) == {e.initID : e \in Listed(d)}

(* Lost entries: a step that goes from one dscache root to another never *)
(* drops the entry of a dataset that is still live in the logbook.       *)
(* updateInitDataset's "copy ds versions" loop is meant to carry every    *)
(* existing entry into the rebuilt root.                                  *)
EntriesKept ==
    [][ (~DC!IsEmpty(cache) /\ ~DC!IsEmpty(cache')) =>
          \A i \in ListedIDs(cache) :
             book'[i].state = "active" => i \in ListedIDs(cache')
      ]_vars

(* Lost saves: once every handler has returned, dscache.qfb holds exactly *)
(* the root lookups read (d.Root), so that a restart, which loads the     *)
(* file, resumes from the dscache the process had: Assign and the update  *)
(* methods set d.Root and d.Buffer together from one finishBuilding.      *)
DiskMatchesMemory ==
    (Persisted /\ Quiescent) => file = cache

(***************************************************************************)
(* The local resolver of a node (p2p_test.go: SequentialResolver(         *)
(* r.Dscache(), r)): the dscache first, and the repo when the dscache     *)
(* answers ErrRefNotFound.  MemRepo.ResolveRef resolves with the logbook  *)
(* (its dscache branch is commented out).  The p2p tests build this      *)
(* resolver on a NilBus mem repo, whose dscache stays empty and always   *)
(* falls through; here it is built on an fs repo with a bus, the repo in *)
(* which the dscache fills.                                               *)
(***************************************************************************)
MemRepoResolveRef(a, n) == LB!LogbookResolve(a, n, DC!NotFound)

SequentialResolve(a, n) ==
    LET c == DC!ResolveRefByName(cache, a, n)
    IN IF c # DC!NotFound THEN c ELSE MemRepoResolveRef(a, n)

(* Wrong resolution: once every handler has returned, the node's local   *)
(* resolver fills a {Username, Name} reference with the InitID the repo  *)
(* (the logbook) resolves it to; putting the dscache in front must only  *)
(* make resolution faster (spec.md 4.2: resolvers agree).                *)
LocalResolverAgrees ==
    Quiescent =>
      \A a \in Authors, n \in Names :
         SequentialResolve(a, n) = MemRepoResolveRef(a, n)
=============================================================================
