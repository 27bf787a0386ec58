\* Sections with any two selectors and any two titles out of the way.
CONSTANTS
  Sections <- SmallSections
  Garbage <- SmallGarbage
  Room <- SmallRoom
  Absent = Absent
  Malformed = Malformed
  NotANumber = NotANumber
  Other = Other
SPECIFICATION Spec
INVARIANT StoresStayInArray
INVARIANT SelectorsExact
INVARIANT UpperLayersAsConfigured
INVARIANT TitlesAsConfigured
\* One section is imported and its connection opened, and that is all.
CHECK_DEADLOCK FALSE
