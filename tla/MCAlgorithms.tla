---- MODULE MCAlgorithms ----
(***************************************************************************)
(* acm-lib, and the functions of other directories that compute: each      *)
(* behaviour uses one of the modules.                                      *)
(***************************************************************************)
EXTENDS BigInteger, SearchTree, Sorting, Containers, GraphAlgorithms, Computations

VARIABLE library

allVars == <<library, biVars, stVars, soVars, coVars, grVars, cmVars>>

AlgorithmsInit ==
    /\ library \in {"numbers", "tree", "sorting", "containers", "graphs", "computations"}
    /\ BiInit /\ StInit /\ SoInit /\ CoInit /\ GrInit /\ CmInit

AlgorithmsNext ==
    /\ UNCHANGED library
    /\ \/ library = "numbers" /\ BiNext /\ UNCHANGED <<stVars, soVars, coVars, grVars, cmVars>>
       \/ library = "tree" /\ StNext /\ UNCHANGED <<biVars, soVars, coVars, grVars, cmVars>>
       \/ library = "sorting" /\ SoNext /\ UNCHANGED <<biVars, stVars, coVars, grVars, cmVars>>
       \/ library = "containers" /\ CoNext /\ UNCHANGED <<biVars, stVars, soVars, grVars, cmVars>>
       \/ library = "graphs" /\ GrNext /\ UNCHANGED <<biVars, stVars, soVars, coVars, cmVars>>
       \/ library = "computations" /\ CmNext /\ UNCHANGED <<biVars, stVars, soVars, coVars, grVars>>

\* A tree is the map that its calls describe, with links to go up (DeleteItem of
\* binary_search_tree.cpp); heap, hash table, segment tree and disjoint sets hold
\* what their calls have put there; and a sort returns the same keys in order.
CollectionsExact == TreeRight /\ ContainersExact /\ SortsRight

\* What a graph algorithm or a computation answers is what its problem asks for, by
\* a definition that does not compute it the way the code does.
AnswersExact == AnswersRight /\ ResultsRight

AlgorithmsSpec == AlgorithmsInit /\ [][AlgorithmsNext]_allVars

=============================================================================
