SPECIFICATION FairSpec
CONSTANTS
  Leads = {l1}
  Campaigns = {c1}
  Messages = {m1}
  Tokens = {t1, t2}
  None = None
  MaxTries = 2
  StatusInputs = {}
  StageInputs = {}
  MaxRequests = 3
  MaxFaults = 1
PROPERTIES SendIsDecided
\* People may stop asking and every job may have ended.
CHECK_DEADLOCK FALSE
