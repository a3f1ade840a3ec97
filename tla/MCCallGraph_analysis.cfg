\* Every script of up to three defs with up to two calls each: the analysis
\* of the scripts without recursion that define transform; and the package
\* file paths dsfs derives from dataset paths.
CONSTANTS
    transform = transform
    f = f
    g = g
    builtin = builtin
    len = len
    FuncNames <- MCFuncNames
    Transform = transform
    Predeclared = builtin
    Unknown <- MCUnknown
    MaxCalls = 2
    FirstFunc = f
    KnownFSTypes <- MCKnownFSTypes
    FilestoreType <- MCFilestoreType
    Filenames <- MCFilenames
    Hashes <- MCHashes
SPECIFICATION Spec
CHECK_DEADLOCK FALSE
INVARIANTS NodesExact HeightIsLongestChain ReachIsClosure CallsExact HashBaseIsHashSegment PackageFilepathRebases
