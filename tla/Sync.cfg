SPECIFICATION Spec
CONSTANTS
  Records = {r1, r2, r3}
  Types = {{r1, r2, r3}, {r1, r3}}
  Excluded = {r3}
  MaxTime = 3
  NoDb = NoDb
INVARIANTS TypeOK Fresh
PROPERTIES UpToDate
