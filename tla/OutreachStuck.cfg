SPECIFICATION Spec
CONSTANTS
  Leads = {l1}
  Campaigns = {c1}
  Messages = {m1}
  Tokens = {t1, t2}
  None = None
  MaxTries = 1
  StatusInputs = {}
  StageInputs = {}
  MaxRequests = 3
  MaxFaults = 1
SYMMETRY Symm
PROPERTIES RecoveryRestartsStuck
\* People may stop asking and every job may have ended.
CHECK_DEADLOCK FALSE
