\* Two writer goroutines whose handlers interleave,
\* and crashes between any two steps, in an fs repo built with a bus.
CONSTANTS
    i1 = i1  i2 = i2  i3 = i3
    a1 = a1  a2 = a2  n1 = n1  n2 = n2  p1 = p1  p2 = p2
    w1 = w1  w2 = w2
    InitIDs <- MCTwoInitIDs
    Authors <- MCAuthors
    Names <- MCOneName
    Paths <- MCPaths
    BadProfiles <- MCBadProfiles
    Writers <- MCTwoWriters
    NoPath = NoPath
    Garbage = Garbage
    MaxCommits = 2
    CreateNewEnabled = TRUE
    Repos <- MCFsRepo
    CrashEnabled = TRUE
SPECIFICATION Spec
\* The logbook is finite (MaxCommits, two InitIDs), so the system stops.
CHECK_DEADLOCK FALSE
INVARIANT VersionCoherent
SYMMETRY MCTwoSymmetry
