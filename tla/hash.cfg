SPECIFICATION Spec
CONSTANTS
  MaxLen = 26
  PointerSize = 8
CHECK_DEADLOCK FALSE
INVARIANT TypeOK
INVARIANT OnlyTheKey
INVARIANT AlignmentIndependent
INVARIANT KeyInTerm
