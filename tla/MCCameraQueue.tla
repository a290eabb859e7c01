---------------------------- MODULE MCCameraQueue ----------------------------
EXTENDS CameraQueue

MCOneShot == {1}
MCTwoShots == {1, 2}
MCOneProject == {1}
MCTwoProjects == {1, 2}

\* Shot 1 (and shot 3) in project 1, shot 2 in project 2.
MCTwoProjectOf == [s \in Shots |-> IF s = 2 THEN 2 ELSE 1]
MCOneProjectOf == [s \in Shots |-> 1]
=============================================================================
