\* Both encodings, every budget at least as large as an empty array's encoding.
SPECIFICATION Spec
CONSTANTS
  Encodings = {"json", "msgpack"}
  MaxBytesSet <- MCBudgets
  MemberSizes <- MCMemberSizes
  MaxMembers <- MCMaxMembers
INVARIANT TypeOK
INVARIANT NonEmptyWhenPossible
PROPERTY Terminates
