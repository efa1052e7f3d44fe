---------------------------- MODULE MCSprintBoard ----------------------------
(* SprintBoard for TLC: interchangeable calls, sprints, issues, columns.   *)
EXTENDS SprintBoard, TLC

Symmetry ==
  Permutations(Clients) \union Permutations(Sprints)
    \union Permutations(Issues) \union Permutations(Columns)

\* Bound: at first no sprint is completed, the issues are in one sprint or none, and there
\* is one column that blocks, or a done one and another.
MCInit ==
  /\ Init
  /\ \A s \in Sprints : sprint[s] # "completed"
  /\ \A i, j \in Issues : issue[i].sprint = issue[j].sprint
  /\ \/ {column[k] : k \in Live} = {"blocks"} /\ Cardinality(Live) = 1
     \/ {column[k] : k \in Live} \in {{"blocks", "done"}, {"allows", "done"},
                                       {"allows", "done_blocks"}}

MCSpec == MCInit /\ [][Next]_vars
=============================================================================
