--------------------------- MODULE MCLogsyncHTTP ---------------------------
(* Model values for checking LogsyncHTTP with TLC.                        *)
EXTENDS LogsyncHTTP, TLC

CONSTANTS c1, c2, r1, r2

MCClients == {c1, c2}
MCRefs == {r1, r2}

\* Clients are interchangeable, and so are refs.
MCSymmetry == Permutations(MCClients) \cup Permutations(MCRefs)
=============================================================================
