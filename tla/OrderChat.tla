------------------------------ MODULE OrderChat ------------------------------
(* The chat of an order: opening it, messages with attachments, unread       *)
(* counters, settings and typing marks (order-chat.service.ts), and the       *)
(* sockets that hear of them (order-chat.gateway.ts).  A handler is in a slot *)
(* of Procs with what it has read; each of its steps is one statement, one    *)
(* transaction or one call of the storage.                                    *)
EXTENDS FiniteSets, Naturals, Sequences

CONSTANTS
  Orders, Users, Workers, Cafes,
  Owner,          \* user of each order
  CafeOf,         \* cafe of each order
  Role,           \* role of each worker
  Nowhere,        \* cafe of a worker who has none
  Sockets,        \* slots for connected clients
  Procs,          \* slots for request handlers
  Routings,       \* notification settings an admin may choose
  MaxMessages, MaxAttachments, MaxFaults \* bounds

Roles == {"SYSTEM_ADMIN", "BRAND_ADMIN", "CAFE_ADMIN", "WORKER"}
Actors == Users \cup Workers

ASSUME ChatAssumption ==
  /\ Owner \in [Orders -> Users] /\ CafeOf \in [Orders -> Cafes]
  /\ Role \in [Workers -> Roles] /\ Nowhere \notin Cafes
  /\ Users \cap Workers = {}
  /\ MaxMessages \in Nat /\ MaxAttachments \in Nat /\ MaxFaults \in Nat

VARIABLES
  chat,       \* order_chats, in order of creation
  message,    \* order_chat_messages, in order of commit
  attachment, \* order_chat_attachments, in order of creation
  file,       \* attachments whose object is in the storage
  read,       \* order_chat_read_states
  typing,     \* order_chat_typing_states
  settings,   \* Cafe.chatSettings: enabled, and a theme beside it
  cafe,       \* WorkerAccount.cafeId; Nowhere for one without a cafe
  socket,     \* connected clients: actor, rooms joined, data.chatId
  announced,  \* messages emitted to their chat's room, in order
  answer,     \* answers to openings of a chat
  handler,    \* the handler in each slot
  faults      \* how many handlers were cut short

cvars == <<chat, message, attachment, file, read, typing, settings, cafe,
           socket, announced, answer, handler, faults>>

-----------------------------------------------------------------------------
Routing == [mode : {"ALL_WORKERS", "ROLE_BASED", "SPECIFIC_WORKERS"},
            roles : SUBSET Roles, ids : SUBSET Workers]

\* The DTO of updateSettings admits no other.
ASSUME RoutingsAssumption == Routings \subseteq Routing

AllWorkers == [mode |-> "ALL_WORKERS", roles |-> {}, ids |-> {}]

\* sentTo and attachments record what the transaction counted and claimed.
Message == [chat : Nat, author : Actors, sentTo : SUBSET Actors, attachments : SUBSET Nat]

Attachment == [chat : Nat, message : Nat, \* 0 for none
               status : {"UPLOADING", "UPLOADED"}, expired : BOOLEAN, deleted : BOOLEAN]

NoSocket == [actor |-> {}, rooms |-> {}, chat |-> 0]

ChatInit ==
  /\ chat = << >> /\ message = << >> /\ attachment = << >>
  /\ file = {}
  /\ read = [c \in {} |-> {}]
  /\ typing = << >>
  /\ settings = [c \in Cafes |-> [enabled |-> TRUE, theme |-> 0]]
  /\ cafe \in [Workers -> Cafes]
  /\ socket = [s \in Sockets |-> NoSocket]
  /\ announced = << >> /\ answer = {}
  /\ handler = [p \in Procs |-> [pc |-> "idle"]]
  /\ faults = 0

Idle(p) == handler[p].pc = "idle"
In(p, label) == handler[p].pc = label
Become(p, h) == handler' = [handler EXCEPT ![p] = h]
Finish(p) == Become(p, [pc |-> "idle"])

\* ensureChatAccess; getOrCreateByOrder makes the same checks of the order.
MayRead(a, o) ==
  \/ a \in Users /\ Owner[o] = a
  \/ a \in Workers /\ Role[a] \in {"SYSTEM_ADMIN", "BRAND_ADMIN"}
  \/ a \in Workers /\ cafe[a] = CafeOf[o]

MayReadChat(a, c) == c \in DOMAIN chat /\ MayRead(a, chat[c].order)

resolveCafeChatEnabled(c) == settings[CafeOf[chat[c].order]].enabled

ChatOf(o) == {c \in DOMAIN chat : chat[c].order = o}

resolveWorkerRecipients(c, routing) ==
  IF routing.mode = "SPECIFIC_WORKERS" THEN routing.ids
  ELSE LET roles == IF routing.mode = "ROLE_BASED" /\ routing.roles # {}
                    THEN routing.roles ELSE {"WORKER", "CAFE_ADMIN"}
       IN {w \in Workers : cafe[w] = CafeOf[chat[c].order] /\ Role[w] \in roles}

Unread(c, a) == IF <<c, a>> \in DOMAIN read THEN read[<<c, a>>].count ELSE 0
LastRead(c, a) == IF <<c, a>> \in DOMAIN read THEN read[<<c, a>>].at ELSE 0

\* The chats an actor is shown, and those of them with the filter unreadOnly.
list(a, unreadOnly) ==
  {c \in DOMAIN chat :
     /\ CASE a \in Users -> Owner[chat[c].order] = a
          [] a \in Workers /\ Role[a] \in {"SYSTEM_ADMIN", "BRAND_ADMIN"} -> TRUE
          [] OTHER -> cafe[a] = CafeOf[chat[c].order]
     /\ unreadOnly => Unread(c, a) > 0}

\* findMany where chatId: what the page of a chat's messages is taken from.
getMessages(a, c) ==
  IF MayReadChat(a, c) THEN {i \in DOMAIN message : message[i].chat = c} ELSE {}

Upsert(rows, keys, Row(_)) ==
  [k \in DOMAIN rows \cup keys |-> IF k \in keys THEN Row(k) ELSE rows[k]]

-----------------------------------------------------------------------------
(* Mutants: bugs this code could have had, each of which breaks a property.  *)

\* The order of a chat is not unique.
CreateTwice(p) ==
  /\ In(p, "create")
  /\ chat' = Append(chat, [order |-> handler[p].order, routing |-> AllWorkers])
  /\ answer' = answer \cup {[order |-> handler[p].order, chat |-> Len(chat) + 1, created |-> TRUE]}
  /\ Finish(p)
  /\ UNCHANGED <<message, attachment, file, read, typing, settings, cafe, socket, announced, faults>>

\* The clean-up does not look at messageId.
CleansClaimed(c) ==
  attachment' = [i \in DOMAIN attachment |->
    IF attachment[i].chat = c /\ attachment[i].expired
    THEN [attachment[i] EXCEPT !.deleted = TRUE] ELSE attachment[i]]

\* Marking as read leaves the newest message unread.
MarkReadKeepsOne(a, c) ==
  /\ MayReadChat(a, c)
  /\ read' = Upsert(read, {<<c, a>>}, LAMBDA k : [count |-> IF Unread(c, a) > 1 THEN 1 ELSE 0,
                                                  at |-> Len(message)])
  /\ UNCHANGED <<chat, message, attachment, file, typing, settings, cafe, socket,
                 announced, answer, handler, faults>>

\* An attachment is created for the message that comes next.
CreateForNext(p) ==
  /\ In(p, "create_row")
  /\ attachment' = Append(attachment, [chat |-> handler[p].chat, message |-> Len(message) + 1,
                     status |-> "UPLOADING", expired |-> FALSE, deleted |-> FALSE])
  /\ Become(p, [pc |-> "store", id |-> Len(attachment) + 1])
  /\ UNCHANGED <<chat, message, file, read, typing, settings, cafe, socket, announced, answer, faults>>

\* Nothing is emitted once the last member of the room has left.
AnnounceToMembers(p) ==
  /\ In(p, "announce")
  /\ \E s \in Sockets : handler[p].chat \in socket[s].rooms
  /\ announced' = Append(announced, handler[p].id)
  /\ Finish(p)
  /\ UNCHANGED <<chat, message, attachment, file, read, typing, settings, cafe, socket, answer, faults>>

-----------------------------------------------------------------------------
(* getOrCreateByOrder: find, create, and on a unique violation find again.   *)

OpenFind(p, a, o) ==
  /\ Idle(p)
  /\ MayRead(a, o)
  /\ IF ChatOf(o) # {}
     THEN /\ answer' = answer \cup {[order |-> o, chat |-> c, created |-> FALSE] : c \in ChatOf(o)}
          /\ UNCHANGED handler
     ELSE Become(p, [pc |-> "create", order |-> o]) /\ UNCHANGED answer
  /\ UNCHANGED <<chat, message, attachment, file, read, typing, settings, cafe, socket, announced, faults>>

OpenCreate(p) ==
  LET o == handler[p].order IN
  /\ In(p, "create")
  /\ IF ChatOf(o) = {}
     THEN /\ chat' = Append(chat, [order |-> o, routing |-> AllWorkers])
          /\ answer' = answer \cup {[order |-> o, chat |-> Len(chat) + 1, created |-> TRUE]}
     ELSE /\ answer' = answer \cup {[order |-> o, chat |-> c, created |-> FALSE] : c \in ChatOf(o)}
          /\ UNCHANGED chat
  /\ Finish(p)
  /\ UNCHANGED <<message, attachment, file, read, typing, settings, cafe, socket, announced, faults>>

-----------------------------------------------------------------------------
(* sendMessage: the chat and the attachments are read, then the recipients,  *)
(* then everything is written in one transaction, then it is announced.      *)

\* Bound: messages in flight count.
RoomForMessage ==
  Len(message) + Cardinality({p \in Procs : handler[p].pc \in {"recipients", "send"}}) < MaxMessages

SendCheck(p, a, c, text, ids) ==
  /\ Idle(p)
  /\ RoomForMessage
  /\ MayReadChat(a, c)
  /\ resolveCafeChatEnabled(c)
  /\ text \/ ids # {}
  /\ Cardinality(ids) <= 4
  /\ \A i \in ids : /\ attachment[i].chat = c
                    /\ ~attachment[i].deleted
                    /\ attachment[i].status = "UPLOADED"
  /\ Become(p, [pc |-> "recipients", author |-> a, chat |-> c, ids |-> ids,
                routing |-> chat[c].routing])
  /\ UNCHANGED <<chat, message, attachment, file, read, typing, settings, cafe,
                 socket, announced, answer, faults>>

ResolveRecipients(p) ==
  LET h == handler[p] IN
  /\ In(p, "recipients")
  /\ Become(p, [pc |-> "send", author |-> h.author, chat |-> h.chat, ids |-> h.ids,
                to |-> resolveWorkerRecipients(h.chat, h.routing)])
  /\ UNCHANGED <<chat, message, attachment, file, read, typing, settings, cafe,
                 socket, announced, answer, faults>>

Addressees(h) ==
  IF h.author \in Users THEN h.to
  ELSE {Owner[chat[h.chat].order]} \cup (h.to \ {h.author})

SendCommit(p) ==
  LET h == handler[p]
      id == Len(message) + 1
      claimed == {i \in h.ids : ~attachment[i].deleted}
  IN
  /\ In(p, "send")
  /\ message' = Append(message, [chat |-> h.chat, author |-> h.author,
                                 sentTo |-> Addressees(h), attachments |-> claimed])
  /\ attachment' = [i \in DOMAIN attachment |->
       IF i \in claimed THEN [attachment[i] EXCEPT !.message = id] ELSE attachment[i]]
  /\ read' = Upsert(read, {h.chat} \X Addressees(h),
                    LAMBDA k : [count |-> Unread(k[1], k[2]) + 1, at |-> LastRead(k[1], k[2])])
  /\ Become(p, [pc |-> "announce", chat |-> h.chat, id |-> id])
  /\ UNCHANGED <<chat, file, typing, settings, cafe, socket, announced, answer, faults>>

emitMessageCreated(p) ==
  /\ In(p, "announce")
  /\ announced' = Append(announced, handler[p].id)
  /\ Finish(p)
  /\ UNCHANGED <<chat, message, attachment, file, read, typing, settings, cafe, socket, answer, faults>>

-----------------------------------------------------------------------------
(* uploadAttachment: clean up, create the row, store the file, mark the row. *)

\* Bound: rows about to be created count.
RoomForAttachment ==
  Len(attachment) + Cardinality({p \in Procs : In(p, "create_row")}) < MaxAttachments

cleanupExpiredOrphanAttachments(c) ==
  attachment' = [i \in DOMAIN attachment |->
    IF attachment[i].chat = c /\ attachment[i].message = 0 /\ attachment[i].expired
    THEN [attachment[i] EXCEPT !.deleted = TRUE] ELSE attachment[i]]

\* After the clean-up a file of the wrong size or type is refused.
UploadStart(p, a, c, acceptable) ==
  /\ Idle(p)
  /\ acceptable => RoomForAttachment
  /\ MayReadChat(a, c)
  /\ cleanupExpiredOrphanAttachments(c)
  /\ IF resolveCafeChatEnabled(c) /\ acceptable
     THEN Become(p, [pc |-> "create_row", chat |-> c]) ELSE UNCHANGED handler
  /\ UNCHANGED <<chat, message, file, read, typing, settings, cafe, socket, announced, answer, faults>>

UploadCreate(p) ==
  /\ In(p, "create_row")
  /\ attachment' = Append(attachment, [chat |-> handler[p].chat, message |-> 0,
                     status |-> "UPLOADING", expired |-> FALSE, deleted |-> FALSE])
  /\ Become(p, [pc |-> "store", id |-> Len(attachment) + 1])
  /\ UNCHANGED <<chat, message, file, read, typing, settings, cafe, socket, announced, answer, faults>>

UploadStore(p) ==
  /\ In(p, "store")
  /\ file' = file \cup {handler[p].id}
  /\ Become(p, [handler[p] EXCEPT !.pc = "mark"])
  /\ UNCHANGED <<chat, message, attachment, read, typing, settings, cafe, socket, announced, answer, faults>>

\* The update of a row that was cleaned up throws.
UploadMark(p) ==
  LET i == handler[p].id IN
  /\ In(p, "mark")
  /\ attachment' = IF attachment[i].deleted THEN attachment
                   ELSE [attachment EXCEPT ![i].status = "UPLOADED"]
  /\ Finish(p)
  /\ UNCHANGED <<chat, message, file, read, typing, settings, cafe, socket, announced, answer, faults>>

\* A day passes since an attachment was created.
DayPasses(i) ==
  /\ ~attachment[i].expired
  /\ attachment' = [attachment EXCEPT ![i].expired = TRUE]
  /\ UNCHANGED <<chat, message, file, read, typing, settings, cafe, socket,
                 announced, answer, handler, faults>>

-----------------------------------------------------------------------------
(* markRead: whatever has arrived counts as read.                            *)

markRead(a, c) ==
  /\ MayReadChat(a, c)
  /\ read' = Upsert(read, {<<c, a>>}, LAMBDA k : [count |-> 0, at |-> Len(message)])
  /\ UNCHANGED <<chat, message, attachment, file, typing, settings, cafe, socket,
                 announced, answer, handler, faults>>

-----------------------------------------------------------------------------
(* updateSettings, and the cafe administrator's form that writes the same    *)
(* JSON column: both read it and write it whole.                             *)

SettingsRead(p, a, c, enabled, routing) ==
  /\ Idle(p)
  /\ a \in Workers /\ Role[a] # "WORKER"
  /\ MayReadChat(a, c)
  /\ Become(p, [pc |-> "settings", chat |-> c, routing |-> routing, cafe |-> CafeOf[chat[c].order],
                new |-> [settings[CafeOf[chat[c].order]] EXCEPT !.enabled = enabled]])
  /\ UNCHANGED <<chat, message, attachment, file, read, typing, settings, cafe,
                 socket, announced, answer, faults>>

FormRead(p, where, theme) ==
  /\ Idle(p)
  /\ Become(p, [pc |-> "settings", chat |-> 0, routing |-> AllWorkers, cafe |-> where,
                new |-> [settings[where] EXCEPT !.theme = theme]])
  /\ UNCHANGED <<chat, message, attachment, file, read, typing, settings, cafe,
                 socket, announced, answer, faults>>

SettingsWrite(p) ==
  LET h == handler[p] IN
  /\ In(p, "settings")
  /\ settings' = [settings EXCEPT ![h.cafe] = h.new]
  /\ IF h.chat # 0 THEN Become(p, [pc |-> "routing", chat |-> h.chat, routing |-> h.routing])
                   ELSE Finish(p)
  /\ UNCHANGED <<chat, message, attachment, file, read, typing, cafe, socket, announced, answer, faults>>

RoutingWrite(p) ==
  /\ In(p, "routing")
  /\ chat' = [chat EXCEPT ![handler[p].chat].routing = handler[p].routing]
  /\ Finish(p)
  /\ UNCHANGED <<message, attachment, file, read, typing, settings, cafe, socket, announced, answer, faults>>

-----------------------------------------------------------------------------
(* setTyping: rows of one actor are not unique; the sockets are told.        *)

TypingStops(a, c) ==
  /\ MayReadChat(a, c)
  /\ typing' = SelectSeq(typing, LAMBDA row : row # <<c, a>>)
  /\ UNCHANGED <<chat, message, attachment, file, read, settings, cafe, socket,
                 announced, answer, handler, faults>>

TypingFind(p, a, c) ==
  /\ Idle(p)
  /\ MayReadChat(a, c)
  /\ \A i \in DOMAIN typing : typing[i] # <<c, a>> \* else only its expiry moves
  /\ Become(p, [pc |-> "typing", chat |-> c, author |-> a])
  /\ UNCHANGED <<chat, message, attachment, file, read, typing, settings, cafe,
                 socket, announced, answer, faults>>

TypingCreate(p) ==
  /\ In(p, "typing")
  /\ typing' = Append(typing, <<handler[p].chat, handler[p].author>>)
  /\ Finish(p)
  /\ UNCHANGED <<chat, message, attachment, file, read, settings, cafe, socket, announced, answer, faults>>

-----------------------------------------------------------------------------
(* The gateway's sockets.                                                    *)

others == <<chat, message, attachment, file, read, typing, settings, cafe,
            announced, answer, handler, faults>>

handleConnection(s, a) ==
  /\ socket[s] = NoSocket
  /\ socket' = [socket EXCEPT ![s].actor = {a}]
  /\ UNCHANGED others

handleDisconnect(s) ==
  /\ socket[s] # NoSocket
  /\ socket' = [socket EXCEPT ![s] = NoSocket]
  /\ UNCHANGED others

\* Joining a second chat leaves the client in the room of the first.
joinChat(s, c) ==
  /\ \E a \in socket[s].actor : MayReadChat(a, c)
  /\ socket' = [socket EXCEPT ![s].rooms = @ \cup {c}, ![s].chat = c]
  /\ UNCHANGED others

leaveChat(s, c) ==
  /\ socket[s] # NoSocket
  /\ socket' = [socket EXCEPT ![s].rooms = @ \ {c}, ![s].chat = 0]
  /\ UNCHANGED others

-----------------------------------------------------------------------------
(* Workers come and go; handlers die.                                        *)

WorkerMoves(w, where) ==
  /\ cafe[w] # where
  /\ cafe' = [cafe EXCEPT ![w] = where]
  /\ UNCHANGED <<chat, message, attachment, file, read, typing, settings, socket,
                 announced, answer, handler, faults>>

HandlerStops(p) ==
  /\ ~Idle(p)
  /\ faults < MaxFaults
  /\ faults' = faults + 1
  /\ Finish(p)
  /\ UNCHANGED <<chat, message, attachment, file, read, typing, settings, cafe,
                 socket, announced, answer>>

ChatRequest(p) ==
  \/ \E a \in Actors, o \in Orders : OpenFind(p, a, o)
  \/ \E a \in Actors, c \in DOMAIN chat, text \in BOOLEAN, ids \in SUBSET DOMAIN attachment :
       SendCheck(p, a, c, text, ids)
  \/ \E a \in Actors, c \in DOMAIN chat, acceptable \in BOOLEAN : UploadStart(p, a, c, acceptable)
  \/ \E a \in Workers, c \in DOMAIN chat, enabled \in BOOLEAN, routing \in Routings :
       SettingsRead(p, a, c, enabled, routing)
  \/ \E where \in Cafes : FormRead(p, where, 1)
  \/ \E a \in Actors, c \in DOMAIN chat : TypingFind(p, a, c)

ChatContinue(p) ==
  \/ OpenCreate(p)
  \/ ResolveRecipients(p) \/ SendCommit(p) \/ emitMessageCreated(p)
  \/ UploadCreate(p) \/ UploadStore(p) \/ UploadMark(p)
  \/ SettingsWrite(p) \/ RoutingWrite(p)
  \/ TypingCreate(p)

ChatNext ==
  \/ \E p \in Procs : ChatRequest(p)
  \/ \E p \in Procs : ChatContinue(p)
  \/ \E p \in Procs : HandlerStops(p)
  \/ \E a \in Actors, c \in DOMAIN chat : markRead(a, c) \/ TypingStops(a, c)
  \/ \E i \in DOMAIN attachment : DayPasses(i)
  \/ \E s \in Sockets, a \in Actors : handleConnection(s, a)
  \/ \E s \in Sockets : handleDisconnect(s)
  \/ \E s \in Sockets, c \in DOMAIN chat : joinChat(s, c) \/ leaveChat(s, c)
  \/ \E w \in Workers, where \in Cafes \cup {Nowhere} : WorkerMoves(w, where)

ChatSpec == ChatInit /\ [][ChatNext]_cvars /\ \A p \in Procs : WF_cvars(ChatContinue(p))
=============================================================================
