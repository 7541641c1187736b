------------------------- MODULE OrderChatProperties -------------------------
(* What OrderChat must guarantee.                                            *)
EXTENDS OrderChat

\* Rows name chats, messages and workers that exist.
ChatTypeOK ==
  /\ \A c \in DOMAIN chat : chat[c].order \in Orders /\ chat[c].routing \in Routing
  /\ \A i \in DOMAIN message : message[i] \in Message /\ message[i].chat \in DOMAIN chat
  /\ \A i \in DOMAIN attachment : /\ attachment[i] \in Attachment
                                  /\ attachment[i].chat \in DOMAIN chat
                                  /\ attachment[i].message \in {0} \cup DOMAIN message
  /\ file \subseteq DOMAIN attachment
  /\ DOMAIN read \subseteq (DOMAIN chat) \X Actors

\* getOrCreateByOrder is race-safe: everyone who opens an order's chat gets the
\* same one, and one of them, at most, is told to announce it as created.
OpenersShareTheChat ==
  \A x, y \in answer : x.order = y.order =>
    x.chat = y.chat /\ (x # y => ~(x.created /\ y.created))

\* An unread counter is the number of messages that were sent to its owner since
\* the owner last marked the chat as read, although it is only ever incremented
\* and reset, recipients are resolved before the transaction, and settings and
\* workers change at any time; and the list's filter shows an actor the chats
\* that hold such a message, when the actor may read it.
UnreadIsExact ==
  \A c \in DOMAIN chat, a \in Actors :
    LET unread == {i \in DOMAIN message : message[i].chat = c /\ a \in message[i].sentTo
                                         /\ i > LastRead(c, a)}
    IN /\ Unread(c, a) = Cardinality(unread)
       /\ c \in list(a, TRUE) <=> getMessages(a, c) \cap unread # {}

\* A picture that a message has claimed is of the message's chat, is uploaded and
\* stored, and is never cleaned up; it is with the message or with a later one
\* that claimed it too.
AttachmentsStay ==
  \A i \in DOMAIN message : \A x \in message[i].attachments :
    /\ ~attachment[x].deleted
    /\ attachment[x].chat = message[i].chat
    /\ attachment[x].status = "UPLOADED" /\ x \in file
    /\ attachment[x].message >= i /\ x \in message[attachment[x].message].attachments

\* docs/CHAT_MODULE.md: the server announces every message after it is sent,
\* when its handler does not die.
MessagesAreAnnounced ==
  \A i \in 1..MaxMessages :
    (i \in DOMAIN message) ~> (faults > 0 \/ \E j \in DOMAIN announced : announced[j] = i)
=============================================================================
