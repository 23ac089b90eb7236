SPECIFICATION MCSpec
CONSTANTS
  c1 = c1
  c2 = c2
  sg = sg
  gc = gc
  alice = alice
  bob = bob
  team = team
  add = add
  Messages = {c1, c2, sg, gc}
  Topics <- MCTopics
  Watched <- MCWatched
  TopicOf <- MCTopicOf
  Users = {alice, bob}
  NoUser = NoUser
  RecipientOf <- MCRecipientOf
  Anonymous <- MCAnonymous
  Processes = {p1, p2}
  NoProcess = NoProcess
  MaxCopies = 2
  MaxExpiries = 1
  MaxFaults = 2
INVARIANTS
  LostOnlyByFailure
  InboxSound
  PushedOncePerKey
  OrderNeedsFault
PROPERTY
  EventuallyStored
CHECK_DEADLOCK FALSE
