SPECIFICATION CatalogSpec
CONSTANTS
  \* Sessions
  Key = {k1, k2}
  Body <- MCBody
  Request = {r1, r2}
  MaxSession = 3
  MaxFault = 1
  \* Skills and files
  Operation = {1, 2, 3}
  Bundle = {b1, b2}
  Upload = {u1, u2}
  MaxSkill = 1
  MaxVersion = 3
  MaxKey = 3
  MaxFile = 2
INVARIANTS  LibraryWhole
CHECK_DEADLOCK FALSE
