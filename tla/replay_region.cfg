SPECIFICATION ReplayFairSpec
CONSTANTS
  NULL = NULL
  OutOfMemory = FALSE
  Api = "Fortran"
  Calls = {"MPI_Irecv", "MPI_Isend", "MPI_Wait", "MPI_Waitall", "setenv"}
  sub = sub
  b1 = b1
  b2 = b2
  r1 = r1
  r2 = r2
  v1 = v1
  v2 = v2
  Bufs = {b1, b2}
  Reqs = {r1, r2}
  REQUEST_NULL = REQUEST_NULL
  Vals = {v1, v2}
  Blank = Blank
  Junk = Junk
  WORLD = WORLD
  Comms = {WORLD}
  CommRank <- SameRank
  Ranks = {0, 1}
  MPIre_rank = 0
  OpenOutcomes = {TRUE}
  MaxStale = 1
  MaxLogged = 3
  FortranBindingsCallC = TRUE
  ReplayOutOfMemory = FALSE
  MaxCalls = 5
  MaxPasses = 2
CHECK_DEADLOCK FALSE
INVARIANT CRTypeOK
INVARIANT ReplayFaithful
PROPERTY ReplayEnds
