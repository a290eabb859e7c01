------------------------------ MODULE MCBuilds ------------------------------
EXTENDS Builds, TLC

CONSTANTS c1, c2, s1, s2, t1, t2, b1, r1, r2, u1, v1, v2

MCTwoContracts == {c1, c2}
MCTwoShots == {s1, s2}
MCTwoTakes == {t1, t2}
MCOneShot == {s1}
MCOneContract == {c1}
MCOneBuild == {b1}
MCOneSubject == {u1}
MCOneReference == {r1}
MCTwoReferences == {r1, r2}
MCVersions == {v1, v2}

MCShot(v, w) == [s \in {s1, s2} |-> IF s = s1 THEN v ELSE w]

\* The second script generates the first shot anew and cuts the second anew.
MCRevision ==
    (c1 :> [shots |-> {s1, s2}, generation |-> MCShot(v1, v1), cut |-> MCShot(v1, v1),
            delivery |-> v1, uses |-> MCShot({u1}, {})]) @@
    (c2 :> [shots |-> {s1, s2}, generation |-> MCShot(v2, v1), cut |-> MCShot(v1, v2),
            delivery |-> v1, uses |-> MCShot({u1}, {})])

MCOneCut ==
    [shots |-> {s1}, generation |-> [s \in {s1} |-> v1], cut |-> [s \in {s1} |-> v1],
     delivery |-> v1, uses |-> [s \in {s1} |-> {u1}]]
MCSame == c1 :> MCOneCut

MCTight == {[audition |-> 1, final |-> 9]}
MCWall == {TRUE}
MCAmple == {[audition |-> 9, final |-> 9]}
MCNoWall == {FALSE}

MCSymmetry == Permutations(Takes) \cup Permutations(Builds) \cup Permutations(References)
=============================================================================
