SPECIFICATION Spec
CONSTANTS
  NULL = NULL
  OutOfMemory = FALSE
  Api = "C"
  Calls = {"MPI_Irecv", "MPI_Isend", "MPI_Recv", "MPI_Wait", "MPI_Waitall"}
  sub = sub
  b1 = b1
  b2 = b2
  b3 = b3
  r1 = r1
  r2 = r2
  r3 = r3
  v1 = v1
  v2 = v2
  Bufs = {b1, b2}
  Reqs = {r1, r2}
  REQUEST_NULL = REQUEST_NULL
  Vals = {v1, v2}
  Blank = Blank
  Junk = Junk
  WORLD = WORLD
  Comms = {WORLD}
  CommRank <- SameRank
  Ranks = {0, 1}
  MPIre_rank = 0
  OpenOutcomes = {TRUE}
  MaxStale = 0
  MaxLogged = 3
SYMMETRY Symmetry
CHECK_DEADLOCK FALSE
INVARIANT AllInboundSaved
