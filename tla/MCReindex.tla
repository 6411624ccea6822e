------------------------------ MODULE MCReindex ------------------------------
(* Small instances of Reindex.                                             *)
EXTENDS Reindex, TLC

CONSTANTS c1, r1, r2, f1, f2

\* Every operation, or only those that build a generation.
MCEveryOperation ==
  [c \in Caller |->
     {"put", "forget", "erase", "attest", "declare", "activate"}]
MCWritesAndDeclares == [c \in Caller |-> {"put", "declare"}]

Symmetry == Permutations(Runner) \cup Permutations(Model)
=============================================================================
