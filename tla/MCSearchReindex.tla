--------------------------- MODULE MCSearchReindex ---------------------------
(***************************************************************************)
(* Instances of SearchReindex for TLC.                                     *)
(***************************************************************************)
EXTENDS SearchReindex, TLC

Symmetry == Permutations(Clients)

\* Issues in the order of their numbers.
StampInOrder == [i \in 1..MaxIssues |-> i]

\* The last issue is as old as the first, as a restored one may be: it can only
\* come to the project, never be created in it.
StampTied == [i \in 1..MaxIssues |-> IF i = MaxIssues THEN 1 ELSE i]
=============================================================================
