SPECIFICATION MCSpec
CONSTANTS
  Handshakes = {h1}
  Processes = {c1, c2, c3}
  Users = {u1, u2}
  MaxMessages = 3
  MaxKeys = 2
  MaxEvents = 2
  MaxFaults = 1
  p1 = p1
  p2 = p2
  u2 = u2
  s2 = s2
  r1 = r1
  r2 = r2
  Peers = {p1, p2}
  Requests = 2
  MaxRuns = 2
  Keep = 2
  DeviceOf <- MCDeviceOf
  Hits = 2
  Reach = 2
  Subscribers = {s1, s2}
  Channels = {"alerts"}
  Broadcasts = {b1, b2}
  Receivers = {r1, r2}
  MaxSockets = 2
  MaxSent = 2
INVARIANTS OneExchange ReadersWereMembers UnreadForCause
  AcknowledgedIsKept KillsCredited ListenersReached
  HandedInOrder NoMissedWakeup FlagIsTold
CHECK_DEADLOCK FALSE
