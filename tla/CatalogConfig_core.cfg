\* Two writes of the configuration, one command, any number of captures.
CONSTANTS
  Typed <- MCTyped
  Folded <- MCFolded
  Server <- MCServer
  MaxEntries = 2
  MaxPuts = 2
  MaxCommands = 1
  Null = Null
SPECIFICATION Spec
INVARIANTS CatalogTypeOK StoredEntriesDisjoint ListedIsAccepted
