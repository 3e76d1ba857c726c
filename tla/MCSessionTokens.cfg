SPECIFICATION Spec
CONSTANTS
  Tabs = {t1, t2}
  Users = {u1, u2}
  Requests = {q1, q2}
  MaxPairs = 3
  StoreModes = {TRUE, FALSE}
  None = None
CONSTRAINT FewChanges
INVARIANTS
  ShowsTheTokensUser
  SessionCanBeRenewed
PROPERTY WaitersSettle
CHECK_DEADLOCK FALSE
