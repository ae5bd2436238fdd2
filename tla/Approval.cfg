\* Three racing callbacks on a managed original and its replacement.
CONSTANTS
  o1 = o1  r1 = r1
  c1 = c1  c2 = c2  c3 = c3
  s1 = s1  s2 = s2
  Originals <- MCOneOriginal
  Replacements <- MCReplacements
  OriginOf <- MCOrigin
  Managed <- MCOneOriginal
  Callbacks = {c1, c2, c3}
  Slots = {s1}
  MaxExposure = 2
  Overlap = FALSE
  JournalFaults = FALSE
  MaxFaults = 0
SPECIFICATION Spec
SYMMETRY Symmetric
INVARIANTS OrderHasApproval OneOrderPerSetup
PROPERTIES DecisionsAreFinal
