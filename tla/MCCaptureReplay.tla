--------------------------- MODULE MCCaptureReplay --------------------------
(* CaptureReplay on small instances.  Rank 0 is captured in a job with one *)
(* communicator besides the world, in which ranks are the same.            *)
EXTENDS CaptureReplay, TLC

CONSTANTS sub, b1, b2, r1, r2, v1, v2

SameRank == [c \in Comms |-> 0]

Symmetry ==
  Permutations(Bufs) \cup Permutations(Reqs) \cup Permutations(Vals)
=============================================================================
