\* Two requests in progress at a time on two teams of two users, which choose
\* among three colours.
SPECIFICATION Spec
CONSTANTS
  u1 = u1
  u2 = u2
  u3 = u3
  TeamIds = {m1, m2}
  Users <- Two
  Staff <- Two
  Colors = {c1, c2, c3}
  Txs = {t1, t2}
  NoTeam = NoTeam
  NoUser = NoUser
  Batches <- ListsOfTwo
SYMMETRY Symmetric
INVARIANTS TypeOK LeaderSound ActiveTeamsColored
 
CHECK_DEADLOCK FALSE
