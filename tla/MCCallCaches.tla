---------------------------- MODULE MCCallCaches ----------------------------
(* An instance of CallCaches for TLC: five callees at a site that remembers  *)
(* three.                                                                    *)
EXTENDS CallCaches, TLC

CONSTANTS closure, host, table, zero, one, m1, m2

\* Bound: five changes of metatables and metamethods are in force at a time;
\* the versions begin with the sum 3.
Versions(of) == FoldFunction(LAMBDA x, n : x.version + n, 0, of)
FewChanges == Versions(holders) + Versions(metas) <= 8

Symmetry == Permutations({m1, m2})
=============================================================================
