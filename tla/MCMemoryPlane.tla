--------------------------- MODULE MCMemoryPlane ---------------------------
(* A small instance of MemoryPlane: five uses of the plane, each with the   *)
(* bounds that make its races happen.                                       *)
EXTENDS MemoryPlane, TLC

CONSTANTS c1, c2, s1, s2, b1, b2, k1, x1, x2

Shared == [c \in Client |-> s1]
Own == [c \in Client |-> IF c = c1 THEN s1 ELSE s2]

Basic == [offered |-> {"put"}, scope |-> Shared, guarding |-> {TRUE},
          bumping |-> {TRUE}, intervals |-> {"open"}, memories |-> 2]

\* Keyed and plain puts, supersession, unguarded closes, bounded intervals.
Rows == [Basic EXCEPT !.offered = {"put", "keyed", "supersede", "forget", "erase"},
           !.guarding = {FALSE}, !.intervals = {"open", "bounded"}, !.memories = 3]

\* Annotations against supersession and erasure, with and without guards.
History == [Basic EXCEPT !.offered = {"put", "supersede", "erase", "annotate"},
              !.guarding = {TRUE, FALSE}]

\* An annotation between the read and the close of a soft forget.
Forgets == [Basic EXCEPT !.offered = {"put", "forget", "annotate"},
               !.guarding = {TRUE, FALSE}, !.memories = 1]

\* A scope for each client, and derivations that cross them.
Scopes == [Basic EXCEPT !.offered = {"put", "supersede", "link"}, !.scope = Own,
             !.memories = 3]

\* Relationships and what invalidates them.
Edges == [Basic EXCEPT !.offered = {"put", "supersede", "erase", "relate", "update"}]

MCUsages == {Rows, History, Forgets, Scopes, Edges}

Symmetry == Permutations(Client) \cup Permutations(Mark) \cup Permutations(Body)
=============================================================================
