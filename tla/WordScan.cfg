SPECIFICATION Spec
CONSTANTS
  BITS = 2
  OPSIZ = 3
  OP4SIZ = 2
  MaxLen = 5
INVARIANTS
  FirstHitReturned
  ReadsInside
