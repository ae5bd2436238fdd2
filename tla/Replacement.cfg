\* A market original and its replacement with one fault, a failing journal included.
CONSTANTS
  o1 = o1  r1 = r1
  c1 = c1  c2 = c2  c3 = c3
  s1 = s1  s2 = s2
  Originals <- MCOneOriginal
  Replacements <- MCReplacements
  OriginOf <- MCOrigin
  Managed <- MCNoneManaged
  Callbacks = {c1, c2, c3}
  Slots = {s1}
  MaxExposure = 2
  Overlap = FALSE
  JournalFaults = TRUE
  MaxFaults = 1
INIT MarketInit
NEXT Next
SYMMETRY Symmetric
INVARIANTS OneOrderPerSetup
