SPECIFICATION Spec
CONSTANTS
  Leads = {l1}
  Campaigns = {c1}
  Enrolled = {c1}
  Messages = {m1, m2}
  Handlers = {h1}
  Stamps = {s1, s2}
  None = None
  MaxStalled = 1
  Menu = {"generate", "APPROVE", "REGENERATE"}
  MaxRequests = 3
  MaxFaults = 0
SYMMETRY Symm
INVARIANT MailedIsReviewed
CHECK_DEADLOCK FALSE
