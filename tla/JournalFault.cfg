\* The journal file cannot be opened.
CONSTANTS
  o1 = o1  r1 = r1
  c1 = c1  c2 = c2  c3 = c3
  s1 = s1  s2 = s2
  Originals <- MCOneOriginal
  Replacements <- MCNoReplacements
  OriginOf <- MCNoOrigin
  Managed <- MCNoneManaged
  Callbacks = {c1}
  Slots = {s1}
  MaxExposure = 2
  Overlap = FALSE
  JournalFaults = TRUE
  MaxFaults = 2
SPECIFICATION Spec
SYMMETRY Symmetric
INVARIANTS AtMostOneOrder
