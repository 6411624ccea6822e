------------------------------- MODULE Library -------------------------------
(***************************************************************************)
(* What hosts do with a store of memories: enumerate them under a lens,    *)
(* walk to them over relationships, search and expand, recall a pack,      *)
(* prepare a context and acknowledge it, apply a batch or a sleep pass.    *)
(* The calls share no state but the store's, which others change in each   *)
(* of them; a behaviour follows one.                                       *)
(***************************************************************************)
EXTENDS Listing, Traversal, Expansion, Recall, ContextController, WriterBatch

VARIABLE call

vars == <<call, listVars, graphVars, walk, search, recall, contextVars, batchVars>>

Init ==
    /\ call \in {"list", "traverse", "search", "recall", "context", "batch"}
    /\ ListingInit /\ TraversalInit /\ ExpansionInit /\ RecallInit /\ ContextInit /\ BatchInit
    /\ call \notin {"traverse", "search"} => steady = {}

Next ==
    /\ UNCHANGED call
    /\ \/ call = "list" /\ ListingNext
          /\ UNCHANGED <<graphVars, walk, search, recall, contextVars, batchVars>>
       \/ call = "traverse" /\ TraversalNext
          /\ UNCHANGED <<listVars, search, recall, contextVars, batchVars>>
       \/ call = "search" /\ ExpansionNext
          /\ UNCHANGED <<listVars, walk, recall, contextVars, batchVars>>
       \/ call = "recall" /\ RecallNext
          /\ UNCHANGED <<listVars, graphVars, walk, search, contextVars, batchVars>>
       \/ call = "context" /\ ContextNext
          /\ UNCHANGED <<listVars, graphVars, walk, search, recall, batchVars>>
       \/ call = "batch" /\ BatchNext
          /\ UNCHANGED <<listVars, graphVars, walk, search, recall, contextVars>>

Spec == Init /\ [][Next]_vars

\* A walk, as a traversal and as the expansion of a search, tells no more and no
\* less than was there.  One that names no bound it met is complete; and what it
\* says of how it came to a node is so: a path of edges that stood, no longer
\* than the shortest that stood throughout, and an expanded hit is tied to a
\* direct one by the edges it names.  It stays within what it was allowed.
WalksAreHonest ==
    /\ WalkKeepsItsBudget /\ ExpansionKeepsItsBudget
    /\ UntruncatedWalkIsComplete /\ UntruncatedExpansionIsComplete
    /\ PathsAreShortest /\ AssociationIsSupported

\* No stage between the hits and the prompt drops what it had reason to keep: a
\* hit no pass ranks lower and one ranks higher is fused higher, a pack and a
\* proposal leave out only what did not fit or was not asked for.
RecallKeepsTheBest == FusionRespectsDominance /\ PackWastesNothing /\ ProposalAccountsForItsHits
=============================================================================
