SPECIFICATION MCSpec
CONSTANTS
  Sessions = {s1}
  Conns = {k1, k2, k3}
  Calls = {c1, c2}
  Events <- AllEvents
  MaxConnections = 1
  Durable = {c1}
SYMMETRY Symmetry
PROPERTY
  ExpiredIsFinal
CHECK_DEADLOCK FALSE
