SPECIFICATION Spec
CONSTANTS
  Width = 5
  Ptrs <- OneHeap
  Hashes <- Neighbours
  AllocOutcomes = {FALSE, TRUE}
INVARIANT TypeOK
INVARIANT EntriesShow
INVARIANT BucketLeft
INVARIANT LookupsExact
