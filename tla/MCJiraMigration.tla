--------------------------- MODULE MCJiraMigration ---------------------------
EXTENDS JiraMigration, TLC

EveryRequest == [full: BOOLEAN, reset: BOOLEAN, chosen: Choices]

\* A start that selects nothing only replaces the selection.
SomeRequests == {r \in EveryRequest : r.chosen = {} => r.full /\ ~r.reset}
=============================================================================
