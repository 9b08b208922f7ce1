\* The CDR, calls and extensions pages in one tab, two Sidebar clicks:
\* filter edits, out-of-order CDR responses, polls, focus, two changes of
\* the PBX's lists on whichever page is open, and extension writes that
\* succeed, are rejected or lose their reply, or that a Cancel and a page
\* load abandon.
CONSTANTS
  FilterValues <- MCFilterValues
  EditableFields <- MCEditableFields
  Records <- MCRecords
  Limit = 2
  MaxEdits = 2
  Keys <- MCKeys
  MaxChanges = 2
  NoData = NoData
  MaxNavigations = 2
  e1 = e1
  e2 = e2
  NoItem = NoItem
  Ids <- MCExtensionIds
  ListKey <- MCListKey
  HookKeys <- MCHookKeys
  MaxOps = 2
SPECIFICATION PagesSpec
INVARIANT PagesTypeOK
INVARIANT ShownMatchesFilters
INVARIANT DurationDisplayExact
PROPERTY CdrTableEventuallyCurrent
PROPERTY CallsTablesEventuallyCurrent
PROPERTY ExtListFreshOrFailed
CHECK_DEADLOCK FALSE
