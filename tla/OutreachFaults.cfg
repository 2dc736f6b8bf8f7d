SPECIFICATION Spec
CONSTANTS
  Leads = {l1}
  Campaigns = {c1}
  Messages = {m1, m2}
  Tokens = {t1, t2}
  None = None
  MaxTries = 2
  StatusInputs = {"PAUSED"}
  StageInputs = {"WON"}
  MaxRequests = 3
  MaxFaults = 2
SYMMETRY Symm
INVARIANTS TypeOK MailInvariant OneMailPerApproval CopiesBoundedByTries MailIsRecorded
\* People may stop asking and every job may have ended.
CHECK_DEADLOCK FALSE
