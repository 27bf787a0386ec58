\* The same sections.
CONSTANTS
  Sections <- SmallSections
  Garbage <- SmallGarbage
  Room <- SmallRoom
  Absent = Absent
  Malformed = Malformed
  NotANumber = NotANumber
  Other = Other
SPECIFICATION Spec
INVARIANT TransportAsConfigured
CHECK_DEADLOCK FALSE
