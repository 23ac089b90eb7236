------------------------------- MODULE Router -------------------------------
(***************************************************************************)
(* Where one message goes: RouteMessage of the dispatcher chooses topic    *)
(* and partition key of an AppMessage, and the handler of the sync service *)
(* makes an inbox row of what it consumes from a user- or group- topic.    *)
(*                                                                         *)
(* An AppMessage is a record of the fields these functions look at.  NoId  *)
(* stands for an empty field, and "set" is FALSE for a body whose inner    *)
(* message is nil.  A topic is the pair of its prefix and the id behind    *)
(* it: hexDecode gives back the id that hex.EncodeToString encoded.        *)
(***************************************************************************)
CONSTANTS
  Users,         \* user ids
  Groups,        \* group ids
  CommandTypes,  \* the values of Command.Type
  NoId           \* an empty bytes field

ASSUME RouterAssumption == Users \cap Groups = {} /\ NoId \notin Users \cup Groups

Bodies == {"chat", "command", "media", "sender_key", "signaling", "other"}

AppMessages ==
  [body : Bodies, set : BOOLEAN, type : CommandTypes, sender : Users \cup {NoId},
   recipient : Users \cup {NoId}, group : Groups \cup {NoId}]

Topic(prefix, id) == <<prefix, id>>
Static(name) == <<name, NoId>>

\* A Route; the error of RouteMessage is the route without topic.
Route(topic, key) == [topic |-> topic, key |-> key]
NoRoute == Route(Static("none"), <<"none">>)

-----------------------------------------------------------------------------
(***************************************************************************)
(* RouteMessage.  A partition key is tagged with the field it comes from.  *)
(***************************************************************************)
\* Mutant: the recipient is looked at before the group.
routeChatRecipientFirst(m) ==
  CASE m.recipient # NoId -> Route(Topic("user-", m.recipient), <<"recipient_id", m.recipient>>)
    [] m.recipient = NoId /\ m.group # NoId
                          -> Route(Topic("group-", m.group), <<"group_id", m.group>>)
    [] OTHER              -> NoRoute

routeChat(m) ==
  CASE m.group # NoId     -> Route(Topic("group-", m.group), <<"group_id", m.group>>)
    [] m.group = NoId /\ m.recipient # NoId
                          -> Route(Topic("user-", m.recipient), <<"recipient_id", m.recipient>>)
    [] OTHER              -> NoRoute

routeCommand(m) == Route(Static("commands"), <<"type", m.type>>)

routeMedia(m) == Route(Static("media-events"), <<"stream_id">>)

routeSenderKey(m) ==
  IF m.sender = NoId THEN NoRoute ELSE Route(Static("events"), <<"group_id", m.group>>)

routeSignaling(m) ==
  IF m.recipient = NoId
  THEN NoRoute
  ELSE Route(Topic("user-", m.recipient), <<"recipient_id", m.recipient>>)

RouteMessage(m) ==
  CASE m.body = "other"                     -> Route(Static("events"), <<"message_id">>)
    [] m.body # "other" /\ ~ m.set          -> NoRoute
    [] m.body = "chat" /\ m.set             -> routeChat(m)
    [] m.body = "command" /\ m.set          -> routeCommand(m)
    [] m.body = "media" /\ m.set            -> routeMedia(m)
    [] m.body = "sender_key" /\ m.set       -> routeSenderKey(m)
    [] m.body = "signaling" /\ m.set        -> routeSignaling(m)

-----------------------------------------------------------------------------
(***************************************************************************)
(* What Handle finds in a consumed message.                                *)
(***************************************************************************)
IsChat(m) == m.body = "chat" /\ m.set

\* Mutant: the sender of a chat message is taken for its recipient.
extractSenderAsRecipient(m, topic) ==
  CASE IsChat(m) /\ m.sender # NoId         -> m.sender
    [] ~ (IsChat(m) /\ m.sender # NoId) /\ topic[1] = "user-" -> topic[2]
    [] OTHER                                -> NoId

extractRecipientID(m, topic) ==
  CASE IsChat(m) /\ m.recipient # NoId      -> m.recipient
    [] ~ (IsChat(m) /\ m.recipient # NoId) /\ topic[1] = "user-" -> topic[2]
    [] OTHER                                -> NoId

extractSenderID(m) == IF IsChat(m) THEN m.sender ELSE NoId

extractConversationID(m, topic) ==
  CASE IsChat(m) /\ m.group # NoId -> m.group
    [] IsChat(m) /\ m.group = NoId -> m.recipient
    [] OTHER                       -> topic

\* The topics DiscoverTopics keeps.
WatchedTopic(topic) == topic[1] \in {"user-", "group-"}
=============================================================================
