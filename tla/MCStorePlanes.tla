--------------------------- MODULE MCStorePlanes ---------------------------
(* Small instances of StorePlanes.                                         *)
EXTENDS StorePlanes, TLC

CONSTANTS p1, p2, p3, e1, a1, a2, c1, c2, s1, s2

\* An older build, and two configurations of a newer one.
MCVersion == [p \in Process |-> IF p = p1 THEN 1 ELSE 2]
MCDimension == [p \in Process |-> IF p = p3 THEN 16 ELSE 8]
MCDeclared == [p \in Process |-> IF p = p2 THEN e1 ELSE Unknown]
MCScript == [p \in Process |->
  CASE p = p1 -> <<"core">> [] p = p2 -> <<"core", "index 8">> [] OTHER -> <<"core", "index 16">>]
MCFleets == {{}, {p1, p2}, {p2, p3}, {p1, p3}}

Symmetry == Permutations({a1, a2}) \cup Permutations({c1, c2}) \cup Permutations({s1, s2})
=============================================================================
