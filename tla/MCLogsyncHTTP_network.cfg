\* Two clients, round trips that fail before or after the server acts,
\* readable error bodies.
CONSTANTS
    c1 = c1  c2 = c2  r1 = r1  r2 = r2
    Clients <- MCClients
    Refs <- MCRefs
    TransportFails = TRUE
    BodyReadFails = FALSE
    KeyBytesFails = TRUE
SPECIFICATION Spec
SYMMETRY MCSymmetry
INVARIANTS  SuccessMeansApplied
PROPERTY ImplementsRemote
