SPECIFICATION Spec
CONSTANTS
  Leads = {l1}
  Campaigns = {c1}
  Enrolled = {c1}
  Messages = {m1, m2}
  Handlers = {h1, h2}
  Stamps = {s1, s2}
  None = None
  MaxStalled = 1
  Menu = {"generate", "APPROVE", "REGENERATE", "SKIP", "SUPPRESS", "suppress", "unlist", "unlisted", "edit", "status", "update"}
  MaxRequests = 3
  MaxFaults = 1
SYMMETRY Symm
INVARIANTS TypeOK MailsAreGranted LateMailsAreBounded ApprovalIsNotDropped LastDraftReleasesCampaign OutcomesAreBacked
PROPERTY SendsKeepContract
CHECK_DEADLOCK FALSE
