--------------------------- MODULE MCMessageRoutes ---------------------------
EXTENDS MessageRoutes, TLC

CONSTANTS s1, s2, g1, d1, d2, r1, r2

Symmetry == Permutations({s1, s2}) \cup Permutations({d1, d2}) \cup Permutations({r1, r2})
=============================================================================
