SPECIFICATION Spec
CONSTANTS
  None = None
  Sessions = {1, 2}
  Legacy = {1}
  d1 = d1
  d2 = d2
  x1 = x1
  t1 = t1
  v1 = v1
  v2 = v2
  b1 = b1
  b2 = b2
  c1 = c1
  c2 = c2
  ann = ann
  bob = bob
  Downloads = {d1, d2}
  Expirers = {x1}
  Provers = {t1}
  Signers = {"old", "new"}
  MaxTime = 2
  Outages = 2
  Accounts = {1, 2, 3, 4}
  Emails = {ann, bob}
  Addresses = {"home", "office"}
  Links = {1, 2, 3, 4}
  Visitors = {v1, v2}
  Browsers = {b1, b2}
  Cleaners = {c1, c2}
  EmailLimit = 1
  AddressLimit = 2
  Scenes <- AllScenes
INVARIANT
  RequestsWithinLimit
CHECK_DEADLOCK FALSE
