\* Two writers: a commit handler that read the root before a delete handler
\* assigned it writes the deleted entry back.
CONSTANTS
    i1 = i1  i2 = i2  i3 = i3
    a1 = a1  a2 = a2  n1 = n1  n2 = n2  p1 = p1  p2 = p2
    w1 = w1  w2 = w2
    InitIDs <- MCTwoInitIDs
    Authors <- MCAuthors
    Names <- MCNames
    Paths <- MCPaths
    BadProfiles <- MCBadProfiles
    Writers <- MCTwoWriters
    NoPath = NoPath
    Garbage = Garbage
    MaxCommits = 2
    CreateNewEnabled = TRUE
    Repos <- MCFsRepo
    CrashEnabled = FALSE
SPECIFICATION Spec
CHECK_DEADLOCK FALSE
SYMMETRY MCTwoSymmetry
INVARIANT NoResurrection
