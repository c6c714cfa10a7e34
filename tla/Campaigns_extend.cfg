\* An extension that nothing came in between of, and the answer to it.
CONSTANTS
  Ids = {c1, c2}
  Users = {u1}
  Tables = {t1}
  Types <- MCTypes
  Entries <- MCEntries
  LastDay = 2
  MayCrash = TRUE
  Null = Null
SPECIFICATION Spec
INVARIANT ExtendAccepted
