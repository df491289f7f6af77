SPECIFICATION Spec
SYMMETRY Symmetry
CONSTANTS
  p1 = p1
  p2 = p2
  a = a
  b = b
  Processes = {p1, p2}
  Drafts = {a, b}
  RevisionSteps = {1}
  MaxFaults = 2
  MaxCrashes = 1
  MaxForeignEdits = 1
  MaxMishaps = 3
PROPERTIES
  AtomicSpec
  ForeignKept
INVARIANTS
  TypeOK
  JournalResolvable
  AcknowledgedStays
