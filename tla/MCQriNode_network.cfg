\* Two callers connecting and disconnecting while three remote peers come and go.
CONSTANTS
    r1 = r1
    r2 = r2
    r3 = r3
    self = self
    pro1 = pro1
    pro2 = pro2
    c1 = c1
    c2 = c2
    Remotes <- MCRemotes
    Self = self
    Profiles <- MCProfiles
    ProfilePeers <- MCProfilePeers
    QriPeers <- MCQriPeers
    Known <- MCKnown
    Callers <- MCCallers
    MaxConns = 3
    MaxOpened = 3
SPECIFICATION Spec
SYMMETRY MCCallerSymmetry
INVARIANT ClosestSound
 
