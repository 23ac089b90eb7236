SPECIFICATION Spec
CONSTANTS
  Users = {u1}
  Issued <- MCIssued
  MaxCommands = 4
  MaxFaults = 2
  Entries = {m1, m2, m3}
  PageSize = 1
  MaxClock = 3
  MaxSyncs = 2
INVARIANTS
  MembershipAsIssued
  MissedForCause
CHECK_DEADLOCK FALSE
