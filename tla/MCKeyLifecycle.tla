--------------------------- MODULE MCKeyLifecycle ---------------------------
EXTENDS KeyLifecycle, TLC

CONSTANTS u1, u2, k1, k2, h1, h2, t1, r1, r2

Symmetry == Permutations(KeyIds) \cup Permutations(Hashes) \cup Permutations(TokenHashes)
            \cup Permutations(Requests)
=============================================================================
