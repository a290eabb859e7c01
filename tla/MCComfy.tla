------------------------------- MODULE MCComfy -------------------------------
EXTENDS ComfyAdapter

CONSTANTS j1, j2

MCTwoJobs == {j1, j2}

\* Text and image references are verified, video references are not bound.
MCAdapter ==
    [enabled |-> TRUE, intact |-> TRUE, bound |-> {"first_frame", "reference_images"},
     target |-> [reference_images |-> "ref_images", reference_video |-> "other"],
     profiles |-> [audition |-> {}], verified |-> {"t2v", "r2v"}, unit |-> "frames"]

MCComfyUI ==
    [reachable |-> TRUE, nodes |-> TRUE, helpers |-> Helper, autogrow |-> Dynamic]

MCAsk(operation, images, video, seconds) ==
    [operation |-> operation, images |-> images, video |-> video,
     profile |-> "audition", seconds |-> seconds, fps |-> 24]

MCAsks == {MCAsk("r2v", TRUE, FALSE, 5), MCAsk("r2v", FALSE, TRUE, 5)}
MCLengths == {MCAsk("t2v", FALSE, FALSE, seconds) : seconds \in 1..15}
MCVerified == {FALSE}
=============================================================================
