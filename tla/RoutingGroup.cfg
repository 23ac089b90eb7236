SPECIFICATION RoutingSpec
CONSTANTS
  Users = {alice, bob}
  Groups = {team}
  CommandTypes = {add, remove}
  NoId = NoId
CHECK_DEADLOCK FALSE
INVARIANT
  GroupMessageDelivered
