CONSTANTS
  b1 = b1
  Browsers = {b1}
  Tabs = {t1, t2}
  BrowserOf <- MCBrowserOf
  Emails = {e1, e2}
  Limit = 1
  Window = 2
  TTL = 1
  Horizon = 2
  MaxRequests = 3
  MaxFaults = 1
  w1 = w1
  w2 = w2
  Processes = {w1, w2}
  Web = w1
  Known <- MCKnown
  None = None
  MaxStops = 1
SPECIFICATION StartupSpec
SYMMETRY Symmetry
INVARIANTS AccountTypeOK OneAdministrator StraySessionsNeedFaultsOrOverlaps MigrationInv
PROPERTY LimitIsKept
CHECK_DEADLOCK FALSE
