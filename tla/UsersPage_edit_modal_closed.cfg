\* An update in flight, its modal cancelled, another item's modal opened.
CONSTANTS
  u1 = u1
  u2 = u2
  NoItem = NoItem
  Ids <- MCUserIds
  ListKey <- UsersListKey
  HookKeys <- UserHookKeys
  MaxOps = 3
INIT PageInit
NEXT PageNext
PROPERTY EditModalClosedByItsOwnSave
CHECK_DEADLOCK FALSE
