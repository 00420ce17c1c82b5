SPECIFICATION Spec
CONSTANTS
  MaxUsers = 3
  Names = {ann, bob, cy}
  MaxInvites = 1
  Keys = {"k"}
  Groups = {"g"}
  Requests = {r1, r2}
  MaxCalls = 7
  MaxFaults = 1
SYMMETRY Symmetry
CHECK_DEADLOCK FALSE
INVARIANTS AdminRemains InvitationMakesOneUser SessionsAreCurrent KeysFollowRows
