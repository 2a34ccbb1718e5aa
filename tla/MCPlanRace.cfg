SPECIFICATION Spec
CONSTANTS
  RevIds = {r1, r2, r3}
  Clients = {c1, c2}
  room = room
  v0 = v0
  v1 = v1
  Rooms <- MCRooms
  Values <- MCValues
  Absent = Absent
  NULL = NULL
  Approvable <- MCApprovable
  Drafts <- FewDrafts
  Commands = {"generate", "chat_edit", "approve", "review"}
  Backend = "supabase"
  MaxRevisions = 3
SYMMETRY Symmetric
INVARIANTS OneChain ApprovalBindsContent AnswersAreTrue
PROPERTIES NoSilentRebase BaselineMovesForward
