\* A poll left running writes over what a later poll delivered.
CONSTANTS
  o1 = o1  r1 = r1
  c1 = c1  c2 = c2  c3 = c3
  s1 = s1  s2 = s2
  Originals <- MCOneOriginal
  Replacements <- MCNoReplacements
  OriginOf <- MCNoOrigin
  Managed <- MCOneOriginal
  Callbacks = {c1}
  Slots = {s1, s2}
  MaxExposure = 1
  Overlap = TRUE
  JournalFaults = FALSE
  MaxFaults = 2
SPECIFICATION Spec
SYMMETRY Symmetric
INVARIANTS ReplaceableNeverSubmitted
