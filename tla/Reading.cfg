\* A dataset of three data objects and two attributes, of which some or none
\* are selected; any of the requests for its names may fail.
CONSTANTS
  Server <- PlainServer
  Members <- PlainMembers
  Selections <- PlainSelections
  Mms <- SmallMms
  Values <- SmallValues
SPECIFICATION Spec
INVARIANT NamesMatchValues
INVARIANT NothingPartial
INVARIANT SelectionByName
INVARIANT LossIsConfined
