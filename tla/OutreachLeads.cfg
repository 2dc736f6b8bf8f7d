SPECIFICATION Spec
CONSTANTS
  Leads = {l1, l2}
  Campaigns = {c1}
  Messages = {m1, m2}
  Tokens = {t1, t2}
  None = None
  MaxTries = 1
  StatusInputs = {}
  StageInputs = {}
  MaxRequests = 3
  MaxFaults = 0
SYMMETRY Symm
INVARIANTS MailedOnlyAsApproved OutcomesAreBacked
\* People may stop asking and every job may have ended.
CHECK_DEADLOCK FALSE
