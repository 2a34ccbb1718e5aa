SPECIFICATION Spec
CONSTANTS
  RevIds = {r1, r2, r3, r4}
  Clients = {c1}
  room = room
  v0 = v0
  v1 = v1
  Rooms <- MCRooms
  Values <- MCValues
  Absent = Absent
  NULL = NULL
  Approvable <- MCApprovable
  Drafts <- MCDrafts
  Commands = {"generate", "room_lock", "semantic_locks", "chat_edit", "restore", "geometry", "review"}
  Backend = "supabase"
  MaxRevisions = 4
SYMMETRY Symmetric
INVARIANTS LocksHonoured AlwaysLoadable
PROPERTIES PublishedIsImmutable
