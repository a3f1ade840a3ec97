\* One writer goroutine, no crash: the handler only ever runs alone.  The
\* repo is an fs repo built with a Bus option (events reach the dscache)
\* or without one (buildrepo.New falls back to event.NilBus), or the mem
\* repo of the p2p tests (no file, event.NilBus).
CONSTANTS
    i1 = i1  i2 = i2  i3 = i3
    a1 = a1  a2 = a2  n1 = n1  n2 = n2  p1 = p1  p2 = p2
    w1 = w1  w2 = w2
    InitIDs <- MCInitIDs
    Authors <- MCAuthors
    Names <- MCNames
    Paths <- MCPaths
    BadProfiles <- MCBadProfiles
    Writers <- MCOneWriter
    NoPath = NoPath
    Garbage = Garbage
    MaxCommits = 2
    CreateNewEnabled = TRUE
    Repos <- MCSingleRepos
    CrashEnabled = FALSE
SPECIFICATION Spec
SYMMETRY MCSymmetry
\* The logbook is finite (MaxCommits, three InitIDs), so the system stops.
CHECK_DEADLOCK FALSE
INVARIANTS TypeOK HeadFresh NoResurrection FilesystemsResolved
