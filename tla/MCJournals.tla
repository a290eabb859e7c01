------------------------------ MODULE MCJournals ------------------------------
EXTENDS Journals, TLC

CONSTANTS c1, c2, c3, a

MCTwoCommands == {c1, c2}
MCThreeCommands == {c1, c2, c3}
MCOneItem == {a}

\* Command ids are interchangeable.
MCSymmetry == Permutations(Commands)

MCMixedKinds == {"cancel", "reject", "batch", "queue", "plan", "apply", "restore"}
MCKeptKinds == AllKinds \ {"cancel"}
=============================================================================
