SPECIFICATION FairSpec
CONSTANTS
  Publications = {p, q}
  Parts = {x}
INVARIANT ReferencedKept
PROPERTY OrphansCollected
