------------------------------ MODULE MCQriNode -----------------------------
EXTENDS QriNode, TLC

CONSTANTS r1, r2, r3, self, pro1, pro2, c1, c2

MCRemotes == {r1, r2, r3}
MCProfiles == {pro1, pro2}
\* pro1 runs two nodes, r1 and r2; pro2 has no known peers.
MCProfilePeers == (pro1 :> << r1, r2 >>) @@ (pro2 :> << >>)
\* r3 is a plain IPFS peer; r2 is known only through routing.
MCQriPeers == {r1, r2}
MCKnown == {r1, r3}
MCCallers == {c1, c2}
\* The two callers run the same code: no operator singles one out.
MCCallerSymmetry == Permutations(MCCallers)
=============================================================================
