\* One writer: the handler ignores ETDatasetRename, so the old name keeps
\* resolving to the renamed dataset through the node's local resolver.
CONSTANTS
    i1 = i1  i2 = i2  i3 = i3
    a1 = a1  a2 = a2  n1 = n1  n2 = n2  p1 = p1  p2 = p2
    w1 = w1  w2 = w2
    InitIDs <- MCInitIDs
    Authors <- MCAuthors
    Names <- MCNames
    Paths <- MCPaths
    BadProfiles <- MCBadProfiles
    Writers <- MCOneWriter
    NoPath = NoPath
    Garbage = Garbage
    MaxCommits = 2
    CreateNewEnabled = TRUE
    Repos <- MCFsRepo
    CrashEnabled = FALSE
SPECIFICATION Spec
CHECK_DEADLOCK FALSE
INVARIANT LocalResolverAgrees
