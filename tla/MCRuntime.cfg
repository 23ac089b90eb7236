SPECIFICATION Spec
CONSTANTS
  Capacity = 2
  Goroutines = {g1, g2, g3}
  Ids = {"a", "b", "c"}
  TypeOf <- MCTypeOf
  MaxConns = 2
  MaxSeq = 2
  Calls = {c1, c2}
  MaxFailures = 1
  Users = {alice, bob}
  Groups = {team}
  CommandTypes = {add, remove}
  NoId = NoId
  Sends = 3
INVARIANTS BestIsBest UsedWhileOpen RowMatchesMessage ConversationInOnePartition PortsAgree
PROPERTIES CloseReleases SignalEnds EchoEnds
CHECK_DEADLOCK FALSE
