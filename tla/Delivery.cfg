\* A managed original, one callback, one request at a time, two faults; liveness.
CONSTANTS
  o1 = o1  r1 = r1
  c1 = c1  c2 = c2  c3 = c3
  s1 = s1  s2 = s2
  Originals <- MCOneOriginal
  Replacements <- MCNoReplacements
  OriginOf <- MCNoOrigin
  Managed <- MCOneOriginal
  Callbacks = {c1}
  Slots = {s1}
  MaxExposure = 1
  Overlap = FALSE
  JournalFaults = FALSE
  MaxFaults = 2
SPECIFICATION FairSpec
INVARIANTS TypeOK AtMostOneOrder ReplaceableNeverSubmitted
PROPERTIES CommandsSettle ReconciledStays KeepsPromise
