--------------------------- MODULE MCOrgMembership ---------------------------
EXTENDS OrgMembership, TLC

Symmetry == Permutations(Callers)
=============================================================================
