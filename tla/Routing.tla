------------------------------ MODULE Routing -------------------------------
(***************************************************************************)
(* The way of one AppMessage through the functions of Router when nothing  *)
(* fails: the dispatcher refuses it or writes it to a topic, and the sync  *)
(* service, if it consumes that topic, skips it, fails to insert it or     *)
(* makes an inbox row of it.                                               *)
(***************************************************************************)
EXTENDS Router

VARIABLES
  msg,    \* the message
  stage,  \* how far it has come
  row     \* the inbox row made of it

message == <<msg, stage, row>>

NoRow == [user |-> NoId, conversation |-> NoId, sender |-> NoId]

topic == RouteMessage(msg).topic

RoutingInit ==
  /\ msg \in AppMessages
  /\ stage = "new"
  /\ row = NoRow

Move(from, to) == stage = from /\ stage' = to /\ UNCHANGED msg

\* Dispatch: RouteMessage returns an error.
Refuse == RouteMessage(msg) = NoRoute /\ Move("new", "refused") /\ UNCHANGED row

\* Dispatch succeeds, and the relay publishes the message to its topic.
Enqueue == RouteMessage(msg) # NoRoute /\ Move("new", "queued") /\ UNCHANGED row

\* Handle: no recipient, the message is skipped.
Skip ==
  /\ WatchedTopic(topic)
  /\ extractRecipientID(msg, topic) = NoId
  /\ Move("queued", "skipped")
  /\ UNCHANGED row

\* Handle: the column sender_id is NOT NULL and an empty field is a NULL.
Reject ==
  /\ WatchedTopic(topic)
  /\ extractRecipientID(msg, topic) # NoId
  /\ extractSenderID(msg) = NoId
  /\ Move("queued", "rejected")
  /\ UNCHANGED row

\* Handle: the row is inserted (and pushed).
Store ==
  /\ WatchedTopic(topic)
  /\ extractRecipientID(msg, topic) # NoId
  /\ extractSenderID(msg) # NoId
  /\ Move("queued", "stored")
  /\ row' = [user |-> extractRecipientID(msg, topic),
             conversation |-> extractConversationID(msg, topic),
             sender |-> extractSenderID(msg)]

RoutingNext == Refuse \/ Enqueue \/ Skip \/ Reject \/ Store

RoutingSpec == RoutingInit /\ [][RoutingNext]_message

-----------------------------------------------------------------------------

\* A row goes into the inbox of the recipient the sender named, under the
\* conversation both sides know: the group if there is one, the recipient if
\* there is none, whichever of the two topics the message came through.  A
\* direct chat message (a sender, a recipient, no group) gets such a row: nothing
\* on its way refuses, skips or rejects it.
RowMatchesMessage ==
  /\ stage = "stored" =>
       /\ row.user = msg.recipient /\ row.sender = msg.sender
       /\ topic = Topic("user-", msg.recipient) \/ topic = Topic("group-", msg.group)
       /\ row.conversation = topic[2]
  /\ (IsChat(msg) /\ msg.sender # NoId /\ msg.recipient # NoId /\ msg.group = NoId)
       => stage \in {"new", "queued", "stored"}

\* All chat messages of one conversation that the dispatcher accepts have the
\* same topic and the same partition key, hence the same partition, which is
\* what their order rests on.
ConversationInOnePartition ==
  \A m \in AppMessages :
    LET r == RouteMessage(msg)
        q == RouteMessage(m)
    IN  (/\ IsChat(msg) /\ IsChat(m) /\ r # NoRoute /\ q # NoRoute
         /\ extractConversationID(m, q.topic) = extractConversationID(msg, r.topic))
          => q = r

\* A group message with a sender is stored for somebody once the sync service
\* is done with it.
GroupMessageDelivered ==
  (/\ stage \notin {"new", "refused", "queued"}
   /\ IsChat(msg) /\ msg.group # NoId /\ msg.sender # NoId)
    => stage = "stored"
=============================================================================
