SPECIFICATION Spec
CONSTANTS
  RevIds = {r1, r2, r3}
  Clients = {c1, c2}
  room = room
  v0 = v0
  v1 = v1
  Rooms <- MCRooms
  Values <- MCValues
  Absent = Absent
  NULL = NULL
  Approvable <- MCApprovable
  Drafts <- FewDrafts
  Commands = {"generate", "isolated_chat", "approve", "review"}
  Backend = "sqlite"
  MaxRevisions = 2
SYMMETRY Symmetric
INVARIANTS SnapshotIsPast
PROPERTIES KeepsPromise
