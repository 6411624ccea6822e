----------------------------- MODULE MCLibrary -----------------------------
(* Small instances of Library.                                             *)
EXTENDS Library, TLC

CONSTANTS a, b, c, h, k

Edge(from, to, symmetric) == [subject |-> from, object |-> to, symmetric |-> symmetric]

\* A chain, and a shortcut that can be followed from either end.
MCLinks == <<Edge(a, b, FALSE), Edge(b, c, FALSE), Edge(a, c, TRUE)>>

\* A short line, one as long as a reference, and two long ones.
MCSize == <<1, 2, 3, 6>>

\* Bytes: a memory that fits a small ceiling whole, and one only as a reference.
MCExcerpt == (a :> 40) @@ (b :> 400)
MCStub == (a :> 71) @@ (b :> 72)
MCCategory == (a :> 8) @@ (b :> 8)

\* Three memories of one category, the middle one like both others; two are old.
MCCategoryOf == <<"episodic", "episodic", "episodic">>
MCLengthOf == <<1, 2, 3>>
MCSimilar == {{1, 2}, {2, 3}}

MCMenu == {Noop, PutOp("active"), PutOp("foreign"), SupersedeOp(1, 1),
           ForgetOp(1, 1, TRUE), ForgetOp(2, 0, FALSE)}
MCBatches == {<<>>, <<Noop, Noop, Noop>>} \cup UNION {[1 .. n -> MCMenu] : n \in 1 .. 2}
MCPolicies == {[hard |-> FALSE, versions |-> TRUE], [hard |-> TRUE, versions |-> FALSE]}
=============================================================================
