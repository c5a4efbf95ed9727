------------------------------ MODULE MCCapture -----------------------------
(* Capture on small instances, with one communicator besides the world.    *)
EXTENDS Capture, TLC

CONSTANTS sub, b1, b2, b3, r1, r2, r3, v1, v2

(* The rank of this process is the same in both communicators, ...         *)
SameRank == [c \in Comms |-> 0]

(* ... or it has the rank to capture in the sub-communicator only.         *)
SubRank0 == [c \in Comms |-> IF c = WORLD THEN 1 ELSE 0]

Symmetry ==
  Permutations(Bufs) \cup Permutations(Reqs) \cup Permutations(Vals)
=============================================================================
