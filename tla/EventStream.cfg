SPECIFICATION FairSpec
CONSTANTS
  None = None
  j1 = j1
  alice = alice
  root = root
  Jobs = {j1}
  Users = {alice, root}
  Owner <- MCOwner
  Admins = {root}
  Writers = {http, w1}
  Http = http
  http = http
  w1 = w1
  Cells = {c1, c2}
  c1 = c1
  c2 = c2
  Size = 2
  MaxConns = 2
  SnapshotMax = 1
  MaxWrites = 2
INVARIANTS TypeOK OutdatedOnlyForAReason
PROPERTIES ImplementsChannel NewsArrives
