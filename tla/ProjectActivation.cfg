SPECIFICATION Spec
SYMMETRY Symmetry
CONSTANTS
  p1 = p1
  p2 = p2
  a = a
  b = b
  Processes = {p1, p2}
  Contents = {a, b}
  MaxFaults = 2
  MaxCrashes = 2
  MaxForeignEdits = 1
  MaxMishaps = 4
PROPERTIES
  AtomicSpec
  ForeignKept
  FailureKeepsOld
INVARIANTS
  TypeOK
  JournalResolvable
  BaselinesFollow
