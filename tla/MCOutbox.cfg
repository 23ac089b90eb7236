SPECIFICATION MCSpec
CONSTANTS
  m1 = m1
  m2 = m2
  m3 = m3
  m4 = m4
  user = user
  group = group
  r1 = r1
  r2 = r2
  Messages = {m1, m2, m3, m4}
  Topics = {user, group}
  DeadLetter = DeadLetter
  NoRoute = NoRoute
  RouteOf <- MCRouteOf
  Relays = {r1, r2}
  BatchSize = 2
  MaxRetries = 2
  Unavailable = {group}
  MaxFaults = 2
INVARIANTS
  NothingLost
  DeadLetterOnlyExhausted
  DuplicateNeedsFault
  OvertakenOnlyAfterFailure
PROPERTIES
  ImplementsDelivery
  AcceptedReachesKafka
