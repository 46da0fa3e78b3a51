\* Four acts of users, admins, losses and the clock on two tabs and two calls.
SPECIFICATION FairSpec
CONSTANTS
  t1 = t1
  t2 = t2
  c1 = c1
  c2 = c2
  Tabs = {t1, t2}
  Calls = {c1, c2}
  Layouts <- BothLayouts
  MaxActs = 4
CHECK_DEADLOCK FALSE
INVARIANTS TypeOK OneLiveTokenPerSignIn TabsAgree
PROPERTIES WithdrawnStaysOut EveryCallEnds
