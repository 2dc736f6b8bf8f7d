SPECIFICATION Spec
CONSTANTS
  Leads = {l1}
  Campaigns = {c1}
  Messages = {m1}
  Tokens = {t1, t2}
  None = None
  MaxTries = 1
  StatusInputs = {}
  StageInputs = {}
  MaxRequests = 2
  MaxFaults = 0
SYMMETRY Symm
PROPERTIES ApprovedIsDispatched
\* People may stop asking and every job may have ended.
CHECK_DEADLOCK FALSE
