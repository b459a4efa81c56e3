\* Three users, two of whom may be in the chat.
CONSTANTS
  User = {u1, u2, u3}
  Creator = u1
  None = None
  MAX_PARTICIPANTS = 2
  MaxTries = 2
  MaxEvents = 4
SPECIFICATION Spec
SYMMETRY Others
CHECK_DEADLOCK FALSE
INVARIANTS AccountsMatch LimitUnraced Informed
