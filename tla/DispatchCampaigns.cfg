SPECIFICATION FairSpec
CONSTANTS
  Leads = {l1, l2}
  Campaigns = {c1, c2}
  Enrolled = {}
  Messages = {m1, m2}
  Handlers = {h1, h2}
  Stamps = {}
  None = None
  MaxStalled = 1
  Menu = {"create", "generate", "APPROVE", "delete"}
  MaxRequests = 3
  MaxFaults = 0
INVARIANTS OpenCampaignsTakeFreshLeads
PROPERTIES GenerationEnds SendIsSettled
CHECK_DEADLOCK FALSE
