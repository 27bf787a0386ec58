\* Two data objects, the name of one beginning with the name of the other,
\* both selected.
CONSTANTS
  Server <- LikeServer
  Members <- LikeMembers
  Selections <- LikeSelections
  Mms <- SmallMms
  Values <- SmallValues
SPECIFICATION Spec
INVARIANT SelectionByName
