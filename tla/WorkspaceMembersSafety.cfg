SPECIFICATION Spec
CONSTANTS
  Users = {u1, u2}
  OwnerID = u1
  Requests = {r1, r2}
  RowIds = {1, 2, 3}
  NoRow = NoRow
SYMMETRY Symmetry
PROPERTIES
  OwnerKept
  OneRowKept
CHECK_DEADLOCK FALSE
