----------------------------- MODULE RepoBuild -----------------------------
(***************************************************************************)
(* Repo construction: buildrepo.New (src/repo/buildrepo/build.go) and     *)
(* NewMemRepo / NewMemRepoWithProfile (src/repo/mem_repo.go), reduced to  *)
(* what they decide for the dscache the repo carries: whether it has a    *)
(* file to load and save (Dscache.Filename # ""), and whether it is       *)
(* subscribed to a bus that delivers events (a NilBus delivers none).     *)
(*                                                                         *)
(* An input is what the caller passes: the configured repo type, the      *)
(* repo path ("" , one ending in "qri", or any other), whether the       *)
(* config was loaded from a file (cfg.Path() # ""), and whether the      *)
(* options carry a Bus.  Keystore, profile store, filesystem and logbook *)
(* creation are outside src/ and may fail; those failures enter as       *)
(* possible error results.  Options that carry a ready Dscache or        *)
(* Logbook are left out: the dscache is then the caller's, built         *)
(* elsewhere.                                                             *)
(***************************************************************************)

EXTENDS Naturals, Sequences

RepoTypes == {"fs", "mem", "other"}
RepoPaths == {"", "qri", "other"}

BuildInput == [type: RepoTypes, path: RepoPaths, cfgFile: BOOLEAN, bus: BOOLEAN]

\* A built repo's dscache: saved to a file or not, fed by a live bus or not.
Built(file, live) == [status |-> "ok", persisted |-> file, busLive |-> live]
BuildErr == [status |-> "err"]

\* newDscache: a repo path not ending in "qri" is refused; otherwise the
\* dscache is NewDscache(..., filepath.Join(repoPath, "dscache.qfb")).
newDscache(in) ==
    IF in.path # "qri" THEN {BuildErr} ELSE {Built(TRUE, in.bus)}

(* NewMemRepo: setting a mem filesystem on the mux and creating the       *)
(* journal may fail; the dscache is NewDscache(..., p.Peername, ""), so   *)
(* it neither loads nor saves a file, on the bus the caller passed.       *)
NewMemRepo(live) == {BuildErr, Built(FALSE, live)}

(* NewMemRepoWithProfile: the key and profile stores may fail, then       *)
(* NewMemRepo with no logbook and no dscache.                              *)
NewMemRepoWithProfile(live) == {BuildErr} \cup NewMemRepo(live)

(* buildrepo.New: an fs repo needs a config file path; the keystore, profiles and     *)
(* filesystem may fail to build; a missing Bus becomes event.NilBus; an   *)
(* fs repo gets a journal (which may fail) and the file-backed dscache,   *)
(* a mem repo NewMemRepo's, any other type an error.                      *)
New(in) ==
    LET live == in.bus   \* o.Bus == nil  ->  o.Bus = event.NilBus
    IN IF in.type = "fs" /\ ~in.cfgFile THEN {BuildErr}
       ELSE {BuildErr} \cup
            CASE in.type = "fs"  -> {BuildErr} \cup newDscache(in)
              [] in.type = "mem" -> NewMemRepo(live)
              [] OTHER           -> {BuildErr}

\* The dscaches the inputs can produce.
BuiltDscaches(inputs) ==
    {r \in UNION {New(in) : in \in inputs} : r.status = "ok"}

-----------------------------------------------------------------------------
(* NewFilesystem rewrites cfg.Filesystems in place before muxfs.New      *)
(* builds the mux (muxfs.New is outside src/ and may fail: New's error   *)
(* result covers it).  A file path is a record: absolute or not, and its *)
(* sequence of cleaned segments ("." is the relative path with none).    *)
(* A filesystem config is its type, whether Config["path"] holds a       *)
(* string (hasPath), and that string.                                     *)
Segs == {"qri", "ipfs"}
FilePaths == [abs: BOOLEAN, segs: UNION {[1..n -> Segs] : n \in 0..1}]
\* cfg.Path(): "" for a config not loaded from a file, else a config.yaml.
NoCfgFile == [abs |-> FALSE, segs |-> << >>]
CfgFilePaths == {NoCfgFile} \cup
                {[abs |-> a, segs |-> s \o << "config.yaml" >>] :
                     a \in BOOLEAN, s \in UNION {[1..n -> Segs] : n \in 0..1}}
FsTypes == {"ipfs", "mem", "local"}
FsConfigs == [type: FsTypes, hasPath: BOOLEAN, path: FilePaths]
\* qfs.Config{Type: "mem"}: no Config map.
MemFsConfig == [type |-> "mem", hasPath |-> FALSE, path |-> [abs |-> FALSE, segs |-> << >>]]
Configs == [repoType: RepoTypes, path: CfgFilePaths,
            filesystems: UNION {[1..n -> FsConfigs] : n \in 0..2}]

\* filepath.Dir: all but the last element, cleaned ("." or "/" when none).
Dir(p) == [p EXCEPT !.segs = SubSeq(@, 1, Len(@) - 1)]
\* filepath.Join(a, b) for a relative b: the segments of both, cleaned.
Join(a, b) == [a EXCEPT !.segs = @ \o b.segs]

\* Mutant: relative paths joined with the config file path, not its dir.
NewFilesystemNoDir(cfg) ==
    LET fixed == [i \in DOMAIN cfg.filesystems |->
                   LET f == cfg.filesystems[i] IN
                   IF f.type = "ipfs" /\ f.hasPath /\ ~f.path.abs
                   THEN [f EXCEPT !.path = Join(cfg.path, f.path)] ELSE f]
        hasMem == \E i \in DOMAIN fixed : fixed[i].type = "mem"
    IN [cfg EXCEPT !.filesystems =
          IF cfg.repoType = "mem" /\ ~hasMem
          THEN Append(fixed, MemFsConfig) ELSE fixed]

(* NewFilesystem: every ipfs filesystem whose "path" is a relative string *)
(* is joined with qriPath = filepath.Dir(cfg.Path()); a mem repo with no  *)
(* mem filesystem gets {Type: "mem"} appended.  The result is the config *)
(* muxfs.New is given, which is also what cfg holds afterwards.           *)
NewFilesystem(cfg) ==
    LET qriPath == Dir(cfg.path)
        fixed == [i \in DOMAIN cfg.filesystems |->
                   LET f == cfg.filesystems[i] IN
                   IF f.type = "ipfs" /\ f.hasPath /\ ~f.path.abs
                   THEN [f EXCEPT !.path = Join(qriPath, f.path)] ELSE f]
        hasMem == \E i \in DOMAIN fixed : fixed[i].type = "mem"
    IN [cfg EXCEPT !.filesystems =
          IF cfg.repoType = "mem" /\ ~hasMem
          THEN Append(fixed, MemFsConfig) ELSE fixed]

\* Reference: the directory a path denotes, read from working directory wd.
Locate(wd, p) == IF p.abs THEN p.segs ELSE wd \o p.segs
WorkDirs == {<< >>, << "home" >>}

(* A relative ipfs path in a config file names a directory beside that   *)
(* file (beside the working directory when there is no file); after       *)
(* NewFilesystem, read from the process's working directory, *)
(* every filesystem names the directory it named before, whatever the    *)
(* working directory and whether cfg.Path() itself is relative; the       *)
(* other configs are kept in order, and a mem fs is added exactly when a  *)
(* mem repo has none.                                                      *)
FilesystemsResolvedExact ==
    \A cfg \in Configs, wd \in WorkDirs :
      LET out == NewFilesystem(cfg).filesystems
          n == Len(cfg.filesystems)
          cfgDir == IF cfg.path = NoCfgFile THEN wd
                    ELSE Dir([abs |-> TRUE, segs |-> Locate(wd, cfg.path)]).segs
          before(f) == IF f.type = "ipfs" /\ f.hasPath THEN Locate(cfgDir, f.path)
                       ELSE Locate(wd, f.path)
          after(f) == Locate(wd, f.path)
          needMem == cfg.repoType = "mem"
                       /\ \A i \in 1..n : cfg.filesystems[i].type # "mem"
      IN /\ Len(out) = IF needMem THEN n + 1 ELSE n
         /\ \A i \in 1..n : /\ out[i].type = cfg.filesystems[i].type
                           /\ out[i].hasPath = cfg.filesystems[i].hasPath
                           /\ after(out[i]) = before(cfg.filesystems[i])
         /\ needMem => out[n + 1] = MemFsConfig
=============================================================================
