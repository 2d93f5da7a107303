SPECIFICATION AuthSpec
CONSTANTS
  Requests = {r1}
  Changers = {c1, c2}
  CacheTTL = 3
  Patience = 1
  MaxVersion = 2
  MaxFaults = 1
INVARIANTS BarredIsRefused FloorIsCommitted
SYMMETRY ChangerSymmetry
