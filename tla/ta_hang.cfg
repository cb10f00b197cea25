\* JSON with budgets of 0 and 1 byte: "[]" never fits and high /= 2 cannot shrink it.
SPECIFICATION Spec
CONSTANTS
  Encodings = {"json"}
  MaxBytesSet <- MCSmallBudgets
  MemberSizes <- MCMemberSizes
  MaxMembers <- MCMaxMembers
PROPERTY Terminates
