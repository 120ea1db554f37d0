CONSTANTS
  None = None
  NoItem = NoItem
  Item = {x, y}
  Visited = {"tasks", "resources", "schedules", "memory", "skills", "plugins", "media"}
  MaxCall = 2
  MaxTrouble = 1
SPECIFICATION Spec
INVARIANTS DrawerShowsOneItem ListingIsCurrent
PROPERTIES ActsOnWhatWasAsked SettlesWhenLeftAlone
CHECK_DEADLOCK FALSE
