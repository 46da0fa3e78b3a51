\* Two requests at a time on one team of three users.
SPECIFICATION Spec
CONSTANTS
  u1 = u1
  u2 = u2
  u3 = u3
  TeamIds = {m1}
  Users <- Three
  Staff = {}
  Colors = {c1}
  Txs = {t1, t2}
  NoTeam = NoTeam
  NoUser = NoUser
  Batches <- ListsOfThree
SYMMETRY Symmetric
INVARIANT OwnerStaysMember
CHECK_DEADLOCK FALSE
