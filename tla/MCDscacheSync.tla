--------------------------- MODULE MCDscacheSync ---------------------------
(* Model values and bounds for checking DscacheSync with TLC.            *)
EXTENDS DscacheSync, TLC

CONSTANTS i1, i2, i3, a1, a2, n1, n2, p1, p2, w1, w2

MCInitIDs == {i1, i2, i3}
MCTwoInitIDs == {i1, i2}
MCAuthors == {a1, a2}
MCNames   == {n1, n2}
\* Versions do not depend on names: one name is enough for VersionCoherent.
MCOneName == {n1}
MCPaths   == {p1, p2}
\* a2's profileID has the wrong length: it cannot create the dscache.
MCBadProfiles == {a2}
(* The dscaches of an fs repo built by buildrepo.New with and without a  *)
(* Bus option, of the mem repo the p2p tests build with                  *)
(* NewMemRepoWithProfile(..., event.NilBus), and of the fs repo alone.    *)
RB == INSTANCE RepoBuild
MCSingleRepos ==
    RB!BuiltDscaches({i \in RB!BuildInput : i.type = "fs"})
    \cup {r \in RB!NewMemRepoWithProfile(FALSE) : r.status = "ok"}
MCFsRepo == RB!BuiltDscaches({[type |-> "fs", path |-> "qri", cfgFile |-> TRUE,
                                 bus |-> TRUE]})
(* The repo a run starts from was built by buildrepo.New, whose           *)
(* NewFilesystem left each configured filesystem naming the directory    *)
(* its config file meant, beside the file (RepoBuild).                   *)
FilesystemsResolved == repo \in Repos => RB!FilesystemsResolvedExact
MCOneWriter  == {w1}
MCTwoWriters == {w1, w2}

\* Init IDs, head paths and writer goroutines are interchangeable: no
\* operator of the model singles one out.
MCSymmetry == Permutations(MCInitIDs) \cup Permutations(MCPaths)
                \cup Permutations(MCTwoWriters)
MCTwoSymmetry == Permutations(MCTwoInitIDs) \cup Permutations(MCPaths)
                   \cup Permutations(MCTwoWriters)
=============================================================================
