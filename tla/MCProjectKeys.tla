---------------------------- MODULE MCProjectKeys ----------------------------
(* ProjectKeys for TLC: interchangeable calls, projects, keys and issues.  *)
EXTENDS ProjectKeys, TLC

Symmetry ==
  Permutations(Clients) \union Permutations(Projects)
    \union Permutations(Keys) \union Permutations(Issues)
=============================================================================
