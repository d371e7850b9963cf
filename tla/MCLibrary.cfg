CONSTANTS
  Thread = {t1, t2}
  Universe = {u1}
  Workloads <- MCWorkloads
  MaxRequests = 3
  Unborn = Unborn
  Deleted = Deleted
  None = None

SPECIFICATION Spec
CHECK_DEADLOCK FALSE
SYMMETRY Threads

INVARIANTS
  LibraryConsistent
  StaleListIsAnnounced
  FreshIsCurrent
