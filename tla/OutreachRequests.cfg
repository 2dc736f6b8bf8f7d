SPECIFICATION Spec
CONSTANTS
  Leads = {l1}
  Campaigns = {c1}
  Messages = {m1, m2}
  Tokens = {t1, t2}
  None = None
  MaxTries = 2
  StatusInputs = {"PAUSED"}
  StageInputs = {"WON"}
  MaxRequests = 4
  MaxFaults = 0
SYMMETRY Symm
PROPERTIES SuppressionClosesGate MailsKeepContract
\* People may stop asking and every job may have ended.
CHECK_DEADLOCK FALSE
