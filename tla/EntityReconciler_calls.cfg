\* Calls collection under every sequence of full lists and deltas.
CONSTANTS
  c1 = c1
  c2 = c2
  c3 = c3
  Ids <- MCCallIds
  States <- CallStatuses
  Terminal = "ended"
  MaxList = 2
SPECIFICATION Spec
INVARIANT RTypeOK
INVARIANT NoDuplicateIds
PROPERTY RefinesLiveEntitySet
