\* Round trips that fail and error bodies that cannot be read.
CONSTANTS
    c1 = c1  c2 = c2  r1 = r1  r2 = r2
    Clients <- MCClients
    Refs <- MCRefs
    TransportFails = TRUE
    BodyReadFails = TRUE
    KeyBytesFails = TRUE
SPECIFICATION Spec
SYMMETRY MCSymmetry
INVARIANT CallContract
