SPECIFICATION Spec
CONSTANTS
  Publications = {p}
  Parts = {x}
INVARIANT ReferencedStored
