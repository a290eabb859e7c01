------------------------------ MODULE MCConsole ------------------------------
EXTENDS Console

CONSTANTS p1, p2

MCTwoProjects == {p1, p2}
=============================================================================
