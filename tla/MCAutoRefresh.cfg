SPECIFICATION Spec
CONSTANTS
  Tabs = {t1}
  Users = {u1}
  Requests = {q1, q2}
  MaxPairs = 2
  StoreModes = {FALSE}
  None = None
CONSTRAINT FewChanges
INVARIANT RefreshGivesAPair
CHECK_DEADLOCK FALSE
