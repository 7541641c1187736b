--------------------------- MODULE OrderChatProofs ---------------------------
(* Proofs, for any orders, chats, workers and handlers, of what OrderChat must *)
(* guarantee.                                                                *)
EXTENDS OrderChatProperties, FiniteSetTheorems, SequenceTheorems, TLAPS

-----------------------------------------------------------------------------
(* The inductive invariant.                                                  *)

Chat == [order : Orders, routing : Routing]

\* The chats of the table are of different orders, and an answer names the chat
\* of its order.
ChatsOK ==
  /\ chat \in Seq(Chat)
  /\ \A c, d \in DOMAIN chat : chat[c].order = chat[d].order => c = d
  /\ \A x \in answer : x.chat \in DOMAIN chat /\ chat[x.chat].order = x.order
  /\ OpenersShareTheChat

MessagesOK ==
  /\ message \in Seq(Message)
  /\ \A i \in DOMAIN message : /\ message[i].chat \in DOMAIN chat
                               /\ message[i].attachments \subseteq DOMAIN attachment

\* A row that has a message is one of the message's, and not deleted.
RowOK(x) ==
  /\ attachment[x].chat \in DOMAIN chat
  /\ attachment[x].status = "UPLOADED" => x \in file
  /\ attachment[x].message # 0 =>
       /\ attachment[x].message \in DOMAIN message
       /\ x \in message[attachment[x].message].attachments
       /\ ~attachment[x].deleted

AttachmentsOK ==
  /\ attachment \in Seq(Attachment)
  /\ \A x \in DOMAIN attachment : RowOK(x)
  /\ file \subseteq DOMAIN attachment
  /\ AttachmentsStay

UnreadBy(c, a) ==
  {i \in DOMAIN message : message[i].chat = c /\ a \in message[i].sentTo /\ i > LastRead(c, a)}

\* A counter is right, and the last message read is one of the table.
ReadOK ==
  /\ read = [k \in DOMAIN read |-> read[k]]
  /\ DOMAIN read \subseteq (DOMAIN chat) \X Actors
  /\ \A c \in DOMAIN chat, a \in Actors :
       /\ LastRead(c, a) \in 0..Len(message)
       /\ Unread(c, a) = Cardinality(UnreadBy(c, a))

Picked(c, ids) ==
  /\ ids \subseteq DOMAIN attachment
  /\ \A x \in ids : attachment[x].chat = c /\ attachment[x].status = "UPLOADED"

HandlerOK(h) ==
  /\ h.pc = "create" => h.order \in Orders
  /\ h.pc \in {"recipients", "send"} =>
       h.author \in Actors /\ h.chat \in DOMAIN chat /\ Picked(h.chat, h.ids)
  /\ h.pc = "recipients" => h.routing \in Routing
  /\ h.pc = "send" => h.to \subseteq Workers
  /\ h.pc = "announce" => h.id \in DOMAIN message
  /\ h.pc \in {"create_row", "routing"} => h.chat \in DOMAIN chat
  /\ h.pc \in {"store", "mark"} => h = [pc |-> h.pc, id |-> h.id] /\ h.id \in DOMAIN attachment
  /\ h.pc = "mark" => h.id \in file
  /\ h.pc = "settings" => h.chat \in {0} \cup DOMAIN chat
  /\ h.pc \in {"settings", "routing"} => h.routing \in Routing

HandlersOK ==
  /\ handler = [p \in Procs |-> handler[p]]
  /\ \A p \in Procs : HandlerOK(handler[p])

Holds(p, i) == In(p, "announce") /\ handler[p].id = i

\* A message is announced once: it waits for one handler, or it was announced,
\* or its handler died.
AnnouncementsOK ==
  /\ announced \in Seq(Nat) /\ faults \in Nat
  /\ \A j \in DOMAIN announced : announced[j] \in DOMAIN message
  /\ \A j, k \in DOMAIN announced : announced[j] = announced[k] => j = k
  /\ \A p \in Procs, j \in DOMAIN announced : ~Holds(p, announced[j])
  /\ \A p, q \in Procs, i \in DOMAIN message : Holds(p, i) /\ Holds(q, i) => p = q
  /\ \A i \in DOMAIN message :
       \/ faults > 0
       \/ \E j \in DOMAIN announced : announced[j] = i
       \/ \E p \in Procs : Holds(p, i)

IInv == ChatsOK /\ MessagesOK /\ AttachmentsOK /\ ReadOK /\ HandlersOK /\ AnnouncementsOK

-----------------------------------------------------------------------------
(* Sequences and the keys of read.                                           *)

LEMMA Appended ==
  ASSUME NEW S, NEW s \in Seq(S), NEW e \in S
  PROVE  /\ Append(s, e) \in Seq(S)
         /\ Len(Append(s, e)) = Len(s) + 1 /\ Len(s) \in Nat
         /\ DOMAIN s = 1..Len(s) /\ DOMAIN Append(s, e) = 1..(Len(s) + 1)
         /\ \A i \in DOMAIN s : Append(s, e)[i] = s[i]
         /\ Append(s, e)[Len(s) + 1] = e
OBVIOUS

LEMMA Rewritten ==
  ASSUME NEW S, NEW s \in Seq(S), NEW t, t = [i \in DOMAIN s |-> t[i]], \A i \in DOMAIN s : t[i] \in S
  PROVE  t \in Seq(S) /\ Len(t) = Len(s) /\ DOMAIN t = DOMAIN s /\ Len(s) \in Nat /\ DOMAIN s = 1..Len(s)
<1>1. Len(s) \in Nat /\ DOMAIN s = 1..Len(s)
  OBVIOUS
<1> QED BY <1>1

LEMMA InvImpliesProperties ==
  ASSUME IInv
  PROVE  ChatTypeOK /\ OpenersShareTheChat /\ UnreadIsExact /\ AttachmentsStay
<1>1. ChatTypeOK
  <2>1. \A c \in DOMAIN chat : chat[c] \in Chat
    BY DEF IInv, ChatsOK
  <2>2. \A i \in DOMAIN message : message[i] \in Message
    BY DEF IInv, MessagesOK
  <2>3. \A x \in DOMAIN attachment : attachment[x] \in Attachment
    BY DEF IInv, AttachmentsOK
  <2> QED BY <2>1, <2>2, <2>3 DEF IInv, ChatTypeOK, Chat, MessagesOK, AttachmentsOK, RowOK, ReadOK
<1>2. UnreadIsExact
  <2> SUFFICES ASSUME NEW c \in DOMAIN chat, NEW a \in Actors
               PROVE  /\ Unread(c, a) = Cardinality(UnreadBy(c, a))
                      /\ c \in list(a, TRUE) <=> getMessages(a, c) \cap UnreadBy(c, a) # {}
    BY DEF UnreadIsExact, UnreadBy
  <2>1. Unread(c, a) = Cardinality(UnreadBy(c, a))
    BY DEF IInv, ReadOK
  <2>2. IsFiniteSet(UnreadBy(c, a))
    <3>1. IsFiniteSet(1..Len(message)) /\ UnreadBy(c, a) \in SUBSET (1..Len(message))
      BY FS_Interval DEF IInv, MessagesOK, UnreadBy
    <3> QED BY <3>1, FS_Subset
  <2>3. Cardinality(UnreadBy(c, a)) \in Nat /\ (Cardinality(UnreadBy(c, a)) = 0 <=> UnreadBy(c, a) = {})
    BY <2>2, FS_EmptySet, FS_CardinalityType
  <2>4. c \in list(a, TRUE) <=> MayReadChat(a, c) /\ Unread(c, a) > 0
    BY ChatAssumption DEF list, MayReadChat, MayRead, Actors
  <2>5. getMessages(a, c) \cap UnreadBy(c, a) # {} <=> MayReadChat(a, c) /\ UnreadBy(c, a) # {}
    BY DEF getMessages, UnreadBy
  <2>6. Unread(c, a) > 0 <=> UnreadBy(c, a) # {}
    BY <2>1, <2>3
  <2>7. c \in list(a, TRUE) <=> getMessages(a, c) \cap UnreadBy(c, a) # {}
    BY <2>4, <2>5, <2>6, Zenon
  <2> QED BY <2>1, <2>7
<1> QED BY <1>1, <1>2 DEF IInv, ChatsOK, AttachmentsOK

LEMMA InitOK == ChatInit => IInv
<1> SUFFICES ASSUME ChatInit PROVE IInv OBVIOUS
<1>0. DOMAIN chat = {} /\ DOMAIN message = {} /\ DOMAIN attachment = {} /\ DOMAIN announced = {} /\ DOMAIN read = {}
      /\ Len(message) = 0
  BY DEF ChatInit
<1>1. ChatsOK
  BY <1>0 DEF ChatInit, ChatsOK, OpenersShareTheChat
<1>2. MessagesOK /\ AttachmentsOK
  BY <1>0 DEF ChatInit, MessagesOK, AttachmentsOK, AttachmentsStay
<1>3. ReadOK
  BY <1>0 DEF ChatInit, ReadOK
<1>4. HandlersOK
  BY DEF ChatInit, HandlersOK, HandlerOK
<1>5. AnnouncementsOK
  BY <1>0 DEF ChatInit, AnnouncementsOK
<1> QED BY <1>1, <1>2, <1>3, <1>4, <1>5 DEF IInv

-----------------------------------------------------------------------------
(* What every step does to the rows that handlers and other tables name.     *)

ChatsGrow ==
  \A c \in DOMAIN chat : c \in DOMAIN chat' /\ chat'[c].order = chat[c].order

MessagesGrow ==
  \A i \in DOMAIN message : i \in DOMAIN message' /\ message'[i] = message[i]

AttachmentsGrow ==
  \A x \in DOMAIN attachment :
    /\ x \in DOMAIN attachment' /\ attachment'[x].chat = attachment[x].chat
    /\ attachment[x].status = "UPLOADED" => attachment'[x].status = "UPLOADED"

Grows == ChatsGrow /\ MessagesGrow /\ AttachmentsGrow /\ file \subseteq file'

\* Only the handler in slot p has moved.
OnlyMoves(p) ==
  /\ handler' = [handler EXCEPT ![p] = handler'[p]]
  /\ HandlerOK(handler[p])'

LEMMA HandlersStay ==
  ASSUME IInv, Grows, NEW p \in Procs, OnlyMoves(p)
  PROVE  HandlersOK'
<1>1. handler' = [q \in Procs |-> handler'[q]] /\ \A q \in Procs \ {p} : handler'[q] = handler[q]
  BY DEF IInv, HandlersOK, OnlyMoves
<1>2. ASSUME NEW q \in Procs \ {p} PROVE HandlerOK(handler[q])'
  <2>1. HandlerOK(handler[q]) /\ handler'[q] = handler[q]
    BY <1>1 DEF IInv, HandlersOK
  <2>2. Picked(handler[q].chat, handler[q].ids) => Picked(handler[q].chat, handler[q].ids)'
    BY <2>1 DEF Picked, Grows, AttachmentsGrow
  <2> QED BY <2>1, <2>2 DEF HandlerOK, Grows, ChatsGrow, MessagesGrow, AttachmentsGrow
<1> QED BY <1>1, <1>2 DEF HandlersOK, OnlyMoves

LEMMA HandlersUntouched == ASSUME IInv, Grows, UNCHANGED handler PROVE HandlersOK'
<1>1. ASSUME NEW p \in Procs PROVE HandlersOK'
  <2>1. HandlerOK(handler[p]) /\ handler'[p] = handler[p]
    BY DEF IInv, HandlersOK
  <2>2. Picked(handler[p].chat, handler[p].ids) => Picked(handler[p].chat, handler[p].ids)'
    BY <2>1 DEF Picked, Grows, AttachmentsGrow
  <2>3. HandlerOK(handler[p])'
    BY <2>1, <2>2 DEF HandlerOK, Grows, ChatsGrow, MessagesGrow, AttachmentsGrow
  <2>4. handler' = [handler EXCEPT ![p] = handler'[p]]
    BY DEF IInv, HandlersOK
  <2> QED BY <2>3, <2>4, HandlersStay DEF OnlyMoves
<1>2. CASE Procs = {}
  BY <1>2 DEF IInv, HandlersOK
<1> QED BY <1>1, <1>2

LEMMA NothingGrows == ASSUME UNCHANGED <<chat, message, attachment, file>> PROVE Grows
BY DEF Grows, ChatsGrow, MessagesGrow, AttachmentsGrow

-----------------------------------------------------------------------------
(* Chats and answers.                                                        *)

LEMMA ChatsUntouched ==
  ASSUME IInv, UNCHANGED <<chat, answer>>
  PROVE  ChatsOK' /\ ChatsGrow
BY DEF IInv, ChatsOK, OpenersShareTheChat, ChatsGrow

LEMMA AnsweredOK ==
  ASSUME IInv, NEW o, UNCHANGED chat,
         answer' = answer \cup {[order |-> o, chat |-> c, created |-> FALSE] : c \in ChatOf(o)}
  PROVE  ChatsOK' /\ ChatsGrow
<1>1. \A x \in answer' : \/ x \in answer
                         \/ x.chat \in DOMAIN chat /\ chat[x.chat].order = o /\ x.order = o /\ ~x.created
  BY DEF ChatOf
<1>2. \A x \in answer' : x.chat \in DOMAIN chat /\ chat[x.chat].order = x.order
  BY <1>1 DEF IInv, ChatsOK
<1>3. ASSUME NEW x \in answer', NEW y \in answer', x.order = y.order
      PROVE  x.chat = y.chat /\ (x # y => ~(x.created /\ y.created))
  <2>1. x.chat = y.chat
    BY <1>2, <1>3 DEF IInv, ChatsOK
  <2>2. CASE x \in answer /\ y \in answer
    BY <1>3, <2>2 DEF IInv, ChatsOK, OpenersShareTheChat
  <2>3. CASE ~x.created \/ ~y.created
    BY <2>1, <2>3
  <2> QED BY <1>1, <2>2, <2>3
<1> QED BY <1>2, <1>3 DEF IInv, ChatsOK, OpenersShareTheChat, ChatsGrow

LEMMA CreatedOK ==
  ASSUME IInv, NEW o \in Orders, ChatOf(o) = {}, chat' = Append(chat, [order |-> o, routing |-> AllWorkers]),
         answer' = answer \cup {[order |-> o, chat |-> Len(chat) + 1, created |-> TRUE]}
  PROVE  ChatsOK' /\ ChatsGrow
<1> DEFINE new == [order |-> o, routing |-> AllWorkers]
           mine == [order |-> o, chat |-> Len(chat) + 1, created |-> TRUE]
<1>1. new \in Chat
  BY DEF Chat, Routing, AllWorkers
<1>2. /\ chat' \in Seq(Chat) /\ Len(chat) \in Nat /\ DOMAIN chat = 1..Len(chat)
      /\ DOMAIN chat' = 1..(Len(chat) + 1)
      /\ (\A c \in DOMAIN chat : chat'[c] = chat[c]) /\ chat'[Len(chat) + 1] = new
  BY <1>1, Appended DEF IInv, ChatsOK
<1>3. \A c \in DOMAIN chat : chat[c].order # o
  BY DEF ChatOf
<1>4. new.order = o /\ mine.order = o /\ mine.chat = Len(chat) + 1
  OBVIOUS
<1> HIDE DEF new, mine
<1>5. \A c, d \in DOMAIN chat' : chat'[c].order = chat'[d].order => c = d
  <2>1. \A c \in DOMAIN chat' : c \in DOMAIN chat \/ c = Len(chat) + 1
    BY <1>2
  <2> QED BY <1>2, <1>3, <1>4, <2>1 DEF IInv, ChatsOK
<1>6. \A x \in answer : x.chat \in DOMAIN chat /\ x.order # o
  BY <1>3 DEF IInv, ChatsOK
<1>7. answer' = answer \cup {mine}
  BY DEF mine
<1>8. \A x \in answer' : x.chat \in DOMAIN chat' /\ chat'[x.chat].order = x.order
  BY <1>2, <1>4, <1>6, <1>7 DEF IInv, ChatsOK
<1>9. OpenersShareTheChat'
  BY <1>4, <1>6, <1>7 DEF IInv, ChatsOK, OpenersShareTheChat
<1> QED BY <1>2, <1>5, <1>8, <1>9 DEF ChatsOK, ChatsGrow

LEMMA ReroutedOK ==
  ASSUME IInv, NEW d \in DOMAIN chat, NEW r \in Routing, chat' = [chat EXCEPT ![d].routing = r],
         UNCHANGED answer
  PROVE  ChatsOK' /\ ChatsGrow
<1>1. \A c \in DOMAIN chat : chat[c] \in Chat
  BY DEF IInv, ChatsOK
<1>2. \A c \in DOMAIN chat : chat'[c] \in Chat /\ chat'[c].order = chat[c].order
  BY <1>1 DEF Chat
<1>3. chat' \in Seq(Chat) /\ DOMAIN chat' = DOMAIN chat
  BY <1>2, Rewritten DEF IInv, ChatsOK
<1> QED BY <1>2, <1>3 DEF IInv, ChatsOK, OpenersShareTheChat, ChatsGrow

-----------------------------------------------------------------------------
(* Messages and counters.                                                    *)

LEMMA MessagesUntouched ==
  ASSUME IInv, ChatsGrow, AttachmentsGrow, UNCHANGED message
  PROVE  MessagesOK' /\ MessagesGrow
BY DEF IInv, MessagesOK, MessagesGrow, ChatsGrow, AttachmentsGrow

\* Chats come without messages, and a chat nobody has opened is not read.
LEMMA CountersUntouched ==
  ASSUME IInv, ChatsGrow, ChatsOK', UNCHANGED <<message, read>>
  PROVE  ReadOK'
<1>1. \A c, a : LastRead(c, a)' = LastRead(c, a) /\ Unread(c, a)' = Unread(c, a)
                /\ UnreadBy(c, a)' = UnreadBy(c, a)
  BY DEF LastRead, Unread, UnreadBy
<1>2. Len(message) \in Nat /\ \A i \in DOMAIN message : message[i].chat \in DOMAIN chat
  BY DEF IInv, MessagesOK
<1>3. ASSUME NEW c \in DOMAIN chat', NEW a \in Actors, c \notin DOMAIN chat
      PROVE  LastRead(c, a) = 0 /\ Unread(c, a) = 0 /\ UnreadBy(c, a) = {}
  BY <1>2, <1>3 DEF IInv, ReadOK, LastRead, Unread, UnreadBy
<1>4. ASSUME NEW c \in DOMAIN chat', NEW a \in Actors
      PROVE  LastRead(c, a) \in 0..Len(message) /\ Unread(c, a) = Cardinality(UnreadBy(c, a))
  <2>1. CASE c \in DOMAIN chat
    BY <2>1 DEF IInv, ReadOK
  <2>2. CASE c \notin DOMAIN chat
    <3>1. LastRead(c, a) = 0 /\ Unread(c, a) = 0 /\ UnreadBy(c, a) = {}
      BY <1>3, <2>2
    <3>2. Cardinality({}) = 0
      BY FS_EmptySet
    <3> QED BY <1>2, <3>1, <3>2
  <2> QED BY <2>1, <2>2
<1> QED BY <1>1, <1>4 DEF IInv, ReadOK, ChatsGrow

LEMMA MarkReadOK ==
  ASSUME IInv, NEW a \in Actors, NEW c \in DOMAIN chat, markRead(a, c)
  PROVE  ReadOK'
<1> DEFINE key == <<c, a>>
<1>1. /\ read' = [k \in DOMAIN read \cup {key} |->
                    IF k \in {key} THEN [count |-> 0, at |-> Len(message)] ELSE read[k]]
      /\ UNCHANGED <<chat, message>>
  BY DEF markRead, Upsert
<1>2. Len(message) \in Nat /\ DOMAIN message = 1..Len(message)
  BY DEF IInv, MessagesOK
<1>3. ASSUME NEW d \in DOMAIN chat, NEW b \in Actors
      PROVE  LastRead(d, b)' \in 0..Len(message) /\ Unread(d, b)' = Cardinality(UnreadBy(d, b)')
  <2>1. CASE d = c /\ b = a
    <3>1. LastRead(d, b)' = Len(message) /\ Unread(d, b)' = 0
      BY <1>1, <2>1 DEF LastRead, Unread
    <3>2. UnreadBy(d, b)' = {}
      BY <1>1, <1>2, <3>1 DEF UnreadBy
    <3> QED BY <1>2, <3>1, <3>2, FS_EmptySet
  <2>2. CASE ~(d = c /\ b = a)
    <3>1. LastRead(d, b)' = LastRead(d, b) /\ Unread(d, b)' = Unread(d, b)
      BY <1>1, <2>2 DEF LastRead, Unread
    <3>2. UnreadBy(d, b)' = UnreadBy(d, b)
      BY <1>1, <3>1 DEF UnreadBy
    <3> QED BY <3>1, <3>2 DEF IInv, ReadOK
  <2> QED BY <2>1, <2>2
<1> QED BY <1>1, <1>3 DEF IInv, ReadOK

-----------------------------------------------------------------------------
(* The transaction of sendMessage.                                           *)

Claimed(h) == {x \in h.ids : ~attachment[x].deleted}

NewMessage(h) ==
  [chat |-> h.chat, author |-> h.author, sentTo |-> Addressees(h), attachments |-> Claimed(h)]

LEMMA NewMessageIsTyped ==
  ASSUME IInv, NEW p \in Procs, In(p, "send")
  PROVE  /\ NewMessage(handler[p]) \in Message
         /\ handler[p].chat \in DOMAIN chat
         /\ Claimed(handler[p]) \subseteq DOMAIN attachment
         /\ \A x \in Claimed(handler[p]) :
              /\ ~attachment[x].deleted /\ attachment[x].chat = handler[p].chat
              /\ attachment[x].status = "UPLOADED"
<1> DEFINE h == handler[p]
<1>1. /\ h.author \in Actors /\ h.chat \in DOMAIN chat /\ h.to \subseteq Workers /\ h.ids \subseteq DOMAIN attachment
      /\ \A x \in h.ids : attachment[x].chat = h.chat /\ attachment[x].status = "UPLOADED"
  BY DEF IInv, HandlersOK, HandlerOK, In, Picked
<1>2. DOMAIN chat \subseteq Nat /\ DOMAIN attachment \subseteq Nat /\ chat[h.chat].order \in Orders
  <2>1. chat[h.chat] \in Chat
    BY <1>1 DEF IInv, ChatsOK
  <2>2. DOMAIN chat = 1..Len(chat) /\ DOMAIN attachment = 1..Len(attachment)
        /\ Len(chat) \in Nat /\ Len(attachment) \in Nat
    BY DEF IInv, ChatsOK, AttachmentsOK
  <2> QED BY <2>1, <2>2 DEF Chat
<1>3. Addressees(h) \subseteq Actors
  BY <1>1, <1>2, ChatAssumption DEF Addressees, Actors
<1>4. h.chat \in Nat /\ Claimed(h) \in SUBSET Nat
  BY <1>1, <1>2 DEF Claimed
<1>5. NewMessage(h) \in Message
  BY <1>1, <1>3, <1>4 DEF NewMessage, Message
<1> QED BY <1>1, <1>5 DEF Claimed

\* What SendCommit writes, row by row.
LEMMA SendWrites ==
  ASSUME IInv, NEW p \in Procs, SendCommit(p)
  PROVE  /\ In(p, "send") /\ NewMessage(handler[p]) \in Message
         /\ message' \in Seq(Message) /\ Len(message') = Len(message) + 1 /\ Len(message) \in Nat
         /\ DOMAIN message = 1..Len(message) /\ DOMAIN message' = 1..(Len(message) + 1)
         /\ \A i \in DOMAIN message : message'[i] = message[i]
         /\ message'[Len(message) + 1] = NewMessage(handler[p])
         /\ attachment' = [x \in DOMAIN attachment |->
              IF x \in Claimed(handler[p]) THEN [attachment[x] EXCEPT !.message = Len(message) + 1]
                                           ELSE attachment[x]]
         /\ attachment' \in Seq(Attachment) /\ DOMAIN attachment' = DOMAIN attachment
         /\ UNCHANGED <<chat, file, answer>>
<1>1. In(p, "send") /\ message' = Append(message, NewMessage(handler[p])) /\ UNCHANGED <<chat, file, answer>>
      /\ attachment' = [x \in DOMAIN attachment |->
              IF x \in Claimed(handler[p]) THEN [attachment[x] EXCEPT !.message = Len(message) + 1]
                                           ELSE attachment[x]]
  BY DEF SendCommit, NewMessage, Claimed
<1>2. NewMessage(handler[p]) \in Message
  BY <1>1, NewMessageIsTyped
<1>3. message \in Seq(Message)
  BY DEF IInv, MessagesOK
<1>4. /\ message' \in Seq(Message) /\ Len(message') = Len(message) + 1 /\ Len(message) \in Nat
      /\ DOMAIN message = 1..Len(message) /\ DOMAIN message' = 1..(Len(message) + 1)
      /\ \A i \in DOMAIN message : message'[i] = message[i]
      /\ message'[Len(message) + 1] = NewMessage(handler[p])
  BY <1>1, <1>2, <1>3, Appended
<1>5. \A x \in DOMAIN attachment : attachment[x] \in Attachment
  BY DEF IInv, AttachmentsOK
<1>6. ASSUME NEW x \in DOMAIN attachment PROVE attachment'[x] \in Attachment
  <2>1. attachment[x] \in Attachment /\ Len(message) + 1 \in Nat
    BY <1>4, <1>5
  <2>2. [attachment[x] EXCEPT !.message = Len(message) + 1] \in Attachment
    BY <2>1 DEF Attachment
  <2> QED BY <1>1, <2>1, <2>2
<1>7. attachment' \in Seq(Attachment) /\ DOMAIN attachment' = DOMAIN attachment
  BY <1>1, <1>6, Rewritten DEF IInv, AttachmentsOK
<1> QED BY <1>1, <1>2, <1>4, <1>7

LEMMA SendCountsOK ==
  ASSUME IInv, NEW p \in Procs, SendCommit(p)
  PROVE  ReadOK'
<1> DEFINE h == handler[p]
           A == Addressees(h)
           id == Len(message) + 1
<1>1. /\ read' = [k \in DOMAIN read \cup ({h.chat} \X A) |->
                    IF k \in {h.chat} \X A
                    THEN [count |-> Unread(k[1], k[2]) + 1, at |-> LastRead(k[1], k[2])] ELSE read[k]]
      /\ UNCHANGED chat
  BY DEF SendCommit, Upsert
<1>2. /\ Len(message) \in Nat /\ Len(message') = id /\ DOMAIN message = 1..Len(message)
      /\ DOMAIN message' = 1..id
      /\ (\A i \in DOMAIN message : message'[i] = message[i])
      /\ message'[id].chat = h.chat /\ message'[id].sentTo = A
  <2>1. message'[id] = NewMessage(h)
    BY SendWrites
  <2>2. message'[id].chat = h.chat /\ message'[id].sentTo = A
    BY <2>1 DEF NewMessage
  <2> QED BY <2>2, SendWrites
<1>3. A \subseteq Actors /\ h.chat \in DOMAIN chat
  <2>1. NewMessage(h) \in Message /\ h.chat \in DOMAIN chat
    BY SendWrites, NewMessageIsTyped
  <2> QED BY <2>1 DEF NewMessage, Message
<1> HIDE DEF A, h, id
<1>4. ASSUME NEW d \in DOMAIN chat, NEW b \in Actors
      PROVE  LastRead(d, b)' \in 0..Len(message') /\ Unread(d, b)' = Cardinality(UnreadBy(d, b)')
  <2>0. id = Len(message) + 1
    BY DEF id
  <2>1. LastRead(d, b) \in 0..Len(message) /\ Unread(d, b) = Cardinality(UnreadBy(d, b))
    BY DEF IInv, ReadOK
  <2>2. LastRead(d, b)' = LastRead(d, b)
    BY <1>1 DEF LastRead
  <2>3. CASE d = h.chat /\ b \in A
    <3>1. Unread(d, b)' = Unread(d, b) + 1
      BY <1>1, <2>3 DEF Unread
    <3>2. UnreadBy(d, b)' = UnreadBy(d, b) \cup {id} /\ id \notin UnreadBy(d, b)
      BY <1>2, <2>0, <2>1, <2>2, <2>3 DEF UnreadBy
    <3>3. IsFiniteSet(UnreadBy(d, b))
      <4>1. IsFiniteSet(1..Len(message)) /\ UnreadBy(d, b) \in SUBSET (1..Len(message))
        BY <1>2, FS_Interval DEF UnreadBy
      <4> QED BY <4>1, FS_Subset
    <3>4. Cardinality(UnreadBy(d, b)') = Cardinality(UnreadBy(d, b)) + 1
      BY <3>2, <3>3, FS_AddElement
    <3> QED BY <1>2, <2>0, <2>1, <2>2, <3>1, <3>4
  <2>4. CASE ~(d = h.chat /\ b \in A)
    <3>1. Unread(d, b)' = Unread(d, b)
      BY <1>1, <2>4 DEF Unread
    <3>2. UnreadBy(d, b)' = UnreadBy(d, b)
      BY <1>2, <2>0, <2>2, <2>4 DEF UnreadBy
    <3> QED BY <1>2, <2>0, <2>1, <2>2, <3>1, <3>2
  <2> QED BY <2>3, <2>4
<1> QED BY <1>1, <1>3, <1>4 DEF IInv, ReadOK

LEMMA SendRowsOK ==
  ASSUME IInv, NEW p \in Procs, SendCommit(p)
  PROVE  MessagesOK' /\ AttachmentsOK' /\ MessagesGrow /\ AttachmentsGrow
<1> DEFINE h == handler[p]
           id == Len(message) + 1
           new == NewMessage(h)
<1>1. /\ message' \in Seq(Message) /\ Len(message) \in Nat /\ DOMAIN message = 1..Len(message)
      /\ DOMAIN message' = 1..id
      /\ (\A i \in DOMAIN message : message'[i] = message[i]) /\ message'[id] = new
      /\ attachment' = [x \in DOMAIN attachment |->
              IF x \in Claimed(h) THEN [attachment[x] EXCEPT !.message = id] ELSE attachment[x]]
      /\ attachment' \in Seq(Attachment) /\ DOMAIN attachment' = DOMAIN attachment
      /\ UNCHANGED <<chat, file, answer>>
  BY SendWrites
<1>2. /\ h.chat \in DOMAIN chat /\ Claimed(h) \subseteq DOMAIN attachment
      /\ \A x \in Claimed(h) : /\ ~attachment[x].deleted /\ attachment[x].chat = h.chat
                               /\ attachment[x].status = "UPLOADED"
  BY SendWrites, NewMessageIsTyped
<1>3. new.chat = h.chat /\ new.attachments = Claimed(h)
  BY DEF NewMessage
<1>4. \A x \in DOMAIN attachment : attachment[x] \in Attachment
  BY DEF IInv, AttachmentsOK
<1>5. \A x \in DOMAIN attachment :
        /\ attachment'[x].chat = attachment[x].chat /\ attachment'[x].status = attachment[x].status
        /\ attachment'[x].deleted = attachment[x].deleted
        /\ x \in Claimed(h) => attachment'[x].message = id
        /\ x \notin Claimed(h) => attachment'[x].message = attachment[x].message
  BY <1>1, <1>4 DEF Attachment
<1>11. id \in DOMAIN message' /\ message'[id].attachments = Claimed(h)
  BY <1>1, <1>3
<1> HIDE DEF h, new
<1>6. \A i \in DOMAIN message' : i \in DOMAIN message \/ i = id
  BY <1>1
<1>7. MessagesOK'
  <2>1. ASSUME NEW i \in DOMAIN message'
        PROVE  message'[i].chat \in DOMAIN chat /\ message'[i].attachments \subseteq DOMAIN attachment
    BY <1>1, <1>2, <1>3, <1>6 DEF IInv, MessagesOK
  <2> QED BY <1>1, <2>1 DEF MessagesOK
<1>8. ASSUME NEW x \in DOMAIN attachment PROVE RowOK(x)'
  <2>1. RowOK(x)
    BY DEF IInv, AttachmentsOK
  <2>2. CASE x \in Claimed(h)
    <3>1. attachment'[x].message = id /\ id \in DOMAIN message' /\ message'[id].attachments = Claimed(h)
      BY <1>5, <1>11, <2>2
    <3>2. ~attachment'[x].deleted /\ attachment'[x].chat = attachment[x].chat
          /\ attachment'[x].status = attachment[x].status
      BY <1>2, <1>5, <2>2
    <3>3. attachment[x].chat \in DOMAIN chat /\ (attachment[x].status = "UPLOADED" => x \in file)
      BY <2>1 DEF RowOK
    <3>4. chat' = chat /\ file' = file
      BY <1>1
    <3> QED BY <2>2, <3>1, <3>2, <3>3, <3>4 DEF RowOK
  <2>3. CASE x \notin Claimed(h)
    BY <1>1, <1>5, <2>1, <2>3 DEF RowOK
  <2> QED BY <2>2, <2>3
<1>9. AttachmentsStay'
  <2> SUFFICES ASSUME NEW i \in DOMAIN message', NEW x \in message'[i].attachments
               PROVE  /\ ~attachment'[x].deleted /\ attachment'[x].chat = message'[i].chat
                      /\ attachment'[x].status = "UPLOADED" /\ x \in file'
                      /\ attachment'[x].message >= i
                      /\ x \in message'[attachment'[x].message].attachments
    BY DEF AttachmentsStay
  <2>1. x \in DOMAIN attachment /\ RowOK(x)
    BY <1>1, <1>7 DEF IInv, AttachmentsOK, MessagesOK
  <2>2. CASE i = id
    BY <1>1, <1>2, <1>3, <1>5, <2>1, <2>2 DEF RowOK
  <2>3. CASE i \in DOMAIN message
    <3>1. /\ ~attachment[x].deleted /\ attachment[x].chat = message[i].chat
          /\ attachment[x].status = "UPLOADED" /\ x \in file
          /\ attachment[x].message >= i /\ x \in message[attachment[x].message].attachments
      BY <1>1, <2>3 DEF IInv, AttachmentsOK, AttachmentsStay
    <3>2. CASE x \in Claimed(h)
      <4>1. attachment'[x].message = id /\ message'[id].attachments = Claimed(h)
        BY <1>5, <1>11, <2>1, <3>2
      <4>2. id >= i /\ message'[i] = message[i]
        BY <1>1, <2>3
      <4>3. ~attachment'[x].deleted /\ attachment'[x].chat = message[i].chat
            /\ attachment'[x].status = "UPLOADED" /\ x \in file'
        BY <1>1, <1>5, <2>1, <3>1
      <4> QED BY <3>2, <4>1, <4>2, <4>3
    <3>3. CASE x \notin Claimed(h)
      <4>1. attachment[x].message # 0
        BY <1>1, <2>1, <2>3, <3>1, <1>4 DEF Attachment
      <4>2. attachment[x].message \in DOMAIN message
        BY <2>1, <4>1 DEF RowOK
      <4> QED BY <1>1, <1>5, <2>1, <2>3, <3>1, <3>3, <4>2
    <3> QED BY <3>2, <3>3
  <2> QED BY <1>6, <2>2, <2>3
<1>10. AttachmentsOK'
  BY <1>1, <1>8, <1>9 DEF IInv, AttachmentsOK
<1> QED BY <1>1, <1>5, <1>7, <1>10 DEF MessagesGrow, AttachmentsGrow

-----------------------------------------------------------------------------
(* Attachments outside a message.                                            *)

LEMMA AttachmentsUntouched ==
  ASSUME IInv, ChatsGrow, MessagesOK, UNCHANGED <<message, attachment, file>>
  PROVE  AttachmentsOK' /\ AttachmentsGrow
BY DEF IInv, AttachmentsOK, AttachmentsStay, RowOK, ChatsGrow, AttachmentsGrow

\* Rows may expire, be cleaned up while they are in no message, or be marked
\* once their file is stored.
LEMMA RowsRewrittenOK ==
  ASSUME IInv, UNCHANGED <<chat, message, file>>,
         attachment' = [x \in DOMAIN attachment |-> attachment'[x]],
         \A x \in DOMAIN attachment :
           /\ attachment'[x] \in Attachment
           /\ attachment'[x].chat = attachment[x].chat /\ attachment'[x].message = attachment[x].message
           /\ attachment'[x].deleted => attachment[x].deleted \/ attachment[x].message = 0
           /\ attachment[x].status = "UPLOADED" => attachment'[x].status = "UPLOADED"
           /\ attachment'[x].status = "UPLOADED" => attachment[x].status = "UPLOADED" \/ x \in file
  PROVE  AttachmentsOK' /\ AttachmentsGrow
<1>1. attachment' \in Seq(Attachment) /\ DOMAIN attachment' = DOMAIN attachment
  BY Rewritten DEF IInv, AttachmentsOK
<1>2. ASSUME NEW x \in DOMAIN attachment PROVE RowOK(x)'
  BY DEF IInv, AttachmentsOK, RowOK
<1>3. AttachmentsStay'
  <2> SUFFICES ASSUME NEW i \in DOMAIN message, NEW x \in message[i].attachments
               PROVE  /\ ~attachment'[x].deleted /\ attachment'[x].chat = message[i].chat
                      /\ attachment'[x].status = "UPLOADED" /\ x \in file
                      /\ attachment'[x].message >= i
                      /\ x \in message[attachment'[x].message].attachments
    BY DEF AttachmentsStay
  <2>1. x \in DOMAIN attachment /\ i \in Nat \ {0}
    <3>1. DOMAIN message = 1..Len(message) /\ Len(message) \in Nat
      BY DEF IInv, MessagesOK
    <3> QED BY <3>1 DEF IInv, MessagesOK
  <2>2. /\ ~attachment[x].deleted /\ attachment[x].chat = message[i].chat
        /\ attachment[x].status = "UPLOADED" /\ x \in file
        /\ attachment[x].message >= i /\ x \in message[attachment[x].message].attachments
    BY DEF IInv, AttachmentsOK, AttachmentsStay
  <2>3. attachment[x].message # 0
    BY <2>1, <2>2
  <2> QED BY <2>1, <2>2, <2>3
<1> QED BY <1>1, <1>2, <1>3 DEF IInv, AttachmentsOK, AttachmentsGrow

LEMMA CleanedUpOK ==
  ASSUME IInv, NEW c, cleanupExpiredOrphanAttachments(c), UNCHANGED <<chat, message, file>>
  PROVE  AttachmentsOK' /\ AttachmentsGrow
<1>1. \A x \in DOMAIN attachment : attachment[x] \in Attachment
  BY DEF IInv, AttachmentsOK
<1>2. ASSUME NEW x \in DOMAIN attachment
      PROVE  /\ attachment'[x] \in Attachment
             /\ attachment'[x].chat = attachment[x].chat /\ attachment'[x].message = attachment[x].message
             /\ attachment'[x].deleted => attachment[x].deleted \/ attachment[x].message = 0
             /\ attachment'[x].status = attachment[x].status
  <2>1. \/ attachment'[x] = attachment[x]
        \/ attachment[x].message = 0 /\ attachment'[x] = [attachment[x] EXCEPT !.deleted = TRUE]
    BY DEF cleanupExpiredOrphanAttachments
  <2> QED BY <1>1, <2>1 DEF Attachment
<1>3. attachment' = [x \in DOMAIN attachment |-> attachment'[x]]
  BY DEF cleanupExpiredOrphanAttachments
<1> QED BY <1>2, <1>3, RowsRewrittenOK

LEMMA ExpiredOK ==
  ASSUME IInv, NEW i \in DOMAIN attachment, attachment' = [attachment EXCEPT ![i].expired = TRUE],
         UNCHANGED <<chat, message, file>>
  PROVE  AttachmentsOK' /\ AttachmentsGrow
<1>1. \A x \in DOMAIN attachment : attachment[x] \in Attachment
  BY DEF IInv, AttachmentsOK
<1>2. ASSUME NEW x \in DOMAIN attachment
      PROVE  /\ attachment'[x] \in Attachment
             /\ attachment'[x].chat = attachment[x].chat /\ attachment'[x].message = attachment[x].message
             /\ attachment'[x].deleted = attachment[x].deleted
             /\ attachment'[x].status = attachment[x].status
  BY <1>1 DEF Attachment
<1>3. attachment' = [x \in DOMAIN attachment |-> attachment'[x]]
  OBVIOUS
<1> QED BY <1>2, <1>3, RowsRewrittenOK

LEMMA MarkedOK ==
  ASSUME IInv, NEW i \in file, attachment' = [attachment EXCEPT ![i].status = "UPLOADED"],
         UNCHANGED <<chat, message, file>>
  PROVE  AttachmentsOK' /\ AttachmentsGrow
<1>1. \A x \in DOMAIN attachment : attachment[x] \in Attachment
  BY DEF IInv, AttachmentsOK
<1>2. ASSUME NEW x \in DOMAIN attachment
      PROVE  /\ attachment'[x] \in Attachment
             /\ attachment'[x].chat = attachment[x].chat /\ attachment'[x].message = attachment[x].message
             /\ attachment'[x].deleted = attachment[x].deleted
             /\ attachment[x].status = "UPLOADED" => attachment'[x].status = "UPLOADED"
             /\ attachment'[x].status = "UPLOADED" => attachment[x].status = "UPLOADED" \/ x \in file
  BY <1>1 DEF Attachment
<1>3. attachment' = [x \in DOMAIN attachment |-> attachment'[x]]
  OBVIOUS
<1> QED BY <1>2, <1>3, RowsRewrittenOK

LEMMA StoredOK ==
  ASSUME IInv, NEW i \in DOMAIN attachment, file' = file \cup {i}, UNCHANGED <<chat, message, attachment>>
  PROVE  AttachmentsOK' /\ AttachmentsGrow
BY DEF IInv, AttachmentsOK, AttachmentsStay, RowOK, AttachmentsGrow

\* A new row is in no message, and no message has it.
LEMMA RowCreatedOK ==
  ASSUME IInv, NEW c \in DOMAIN chat, UNCHANGED <<chat, message, file>>,
         attachment' = Append(attachment, [chat |-> c, message |-> 0, status |-> "UPLOADING",
                                           expired |-> FALSE, deleted |-> FALSE])
  PROVE  AttachmentsOK' /\ AttachmentsGrow /\ Len(attachment) + 1 \in DOMAIN attachment'
<1> DEFINE new == [chat |-> c, message |-> 0, status |-> "UPLOADING", expired |-> FALSE, deleted |-> FALSE]
<1>0. DOMAIN chat = 1..Len(chat) /\ Len(chat) \in Nat
  BY DEF IInv, ChatsOK
<1>1. new \in Attachment
  BY <1>0 DEF Attachment
<1>2. /\ attachment' \in Seq(Attachment) /\ Len(attachment) \in Nat /\ DOMAIN attachment = 1..Len(attachment)
      /\ DOMAIN attachment' = 1..(Len(attachment) + 1)
      /\ (\A x \in DOMAIN attachment : attachment'[x] = attachment[x])
      /\ attachment'[Len(attachment) + 1] = new
  BY <1>1, Appended DEF IInv, AttachmentsOK
<1>3. new.chat = c /\ new.message = 0 /\ new.status = "UPLOADING"
  OBVIOUS
<1> HIDE DEF new
<1>4. ASSUME NEW x \in DOMAIN attachment' PROVE RowOK(x)'
  <2>1. CASE x = Len(attachment) + 1
    BY <1>2, <1>3, <2>1 DEF RowOK
  <2>2. CASE x \in DOMAIN attachment
    BY <1>2, <2>2 DEF IInv, AttachmentsOK, RowOK
  <2> QED BY <1>2, <2>1, <2>2
<1>5. AttachmentsStay'
  <2>1. \A i \in DOMAIN message : message[i].attachments \subseteq DOMAIN attachment
    BY DEF IInv, MessagesOK
  <2> QED BY <1>2, <2>1 DEF IInv, AttachmentsOK, AttachmentsStay
<1> QED BY <1>2, <1>4, <1>5 DEF IInv, AttachmentsOK, AttachmentsGrow

-----------------------------------------------------------------------------
(* Announcements.                                                            *)

\* A step that neither commits nor announces a message.
LEMMA AnnouncementsUntouched ==
  ASSUME IInv, UNCHANGED <<message, announced, faults, handler>>
  PROVE  AnnouncementsOK'
BY DEF IInv, AnnouncementsOK, Holds, In

LEMMA NotAnnouncing ==
  ASSUME IInv, NEW p \in Procs, OnlyMoves(p), ~In(p, "announce"), ~In(p, "announce")',
         UNCHANGED <<message, announced, faults>>
  PROVE  AnnouncementsOK'
<1>1. \A q \in Procs : \A i : Holds(q, i)' <=> Holds(q, i)
  BY DEF IInv, HandlersOK, OnlyMoves, Holds, In
<1> QED BY <1>1 DEF IInv, AnnouncementsOK

LEMMA MessageAwaitsAnnouncement ==
  ASSUME IInv, NEW p \in Procs, SendCommit(p)
  PROVE  AnnouncementsOK'
<1> DEFINE id == Len(message) + 1
<1>1. /\ Len(message) \in Nat /\ DOMAIN message = 1..Len(message) /\ DOMAIN message' = 1..id
  BY SendWrites
<1>2. /\ In(p, "send") /\ UNCHANGED <<announced, faults>>
      /\ handler' = [handler EXCEPT ![p] = [pc |-> "announce", chat |-> handler[p].chat, id |-> id]]
  BY DEF SendCommit, Become
<1>3. \A q \in Procs : \A i : Holds(q, i) => i \in DOMAIN message
  BY DEF IInv, HandlersOK, HandlerOK, Holds, In
<1>4. \A q \in Procs : \A i : Holds(q, i)' <=> Holds(q, i) \/ (q = p /\ i = id)
  BY <1>2 DEF IInv, HandlersOK, Holds, In
<1>5. \A i \in DOMAIN message' : i \in DOMAIN message \/ i = id
  BY <1>1
<1>6. id \notin DOMAIN message /\ DOMAIN message \subseteq DOMAIN message'
  BY <1>1
<1> HIDE DEF id
<1> QED BY <1>2, <1>3, <1>4, <1>5, <1>6 DEF IInv, AnnouncementsOK

LEMMA MessageIsAnnounced ==
  ASSUME IInv, NEW p \in Procs, emitMessageCreated(p)
  PROVE  AnnouncementsOK'
<1> DEFINE id == handler[p].id
<1>1. Holds(p, id) /\ id \in DOMAIN message
  BY DEF emitMessageCreated, Holds, In, IInv, HandlersOK, HandlerOK
<1>2. id \in Nat
  BY <1>1 DEF IInv, MessagesOK
<1>3. /\ announced' \in Seq(Nat) /\ Len(announced) \in Nat /\ DOMAIN announced = 1..Len(announced)
      /\ DOMAIN announced' = 1..(Len(announced) + 1)
      /\ (\A j \in DOMAIN announced : announced'[j] = announced[j])
      /\ announced'[Len(announced) + 1] = id
  BY <1>2, Appended DEF emitMessageCreated, IInv, AnnouncementsOK
<1>4. handler' = [handler EXCEPT ![p] = [pc |-> "idle"]] /\ UNCHANGED <<message, faults>>
  BY DEF emitMessageCreated, Finish, Become
<1>5. \A q \in Procs : \A i : Holds(q, i)' <=> Holds(q, i) /\ q # p
  BY <1>4 DEF IInv, HandlersOK, Holds, In
<1> HIDE DEF id
<1>6. \A j \in DOMAIN announced' : j \in DOMAIN announced \/ j = Len(announced) + 1
  BY <1>3
<1>7. \A i : Holds(p, i) => i = id
  BY DEF Holds, id
<1>8. \A j \in DOMAIN announced : announced[j] # id
  BY <1>1 DEF IInv, AnnouncementsOK
<1>9. /\ announced' \in Seq(Nat) /\ faults' \in Nat
      /\ \A j \in DOMAIN announced' : announced'[j] \in DOMAIN message'
  BY <1>1, <1>3, <1>4, <1>6 DEF IInv, AnnouncementsOK
<1>10. \A j, k \in DOMAIN announced' : announced'[j] = announced'[k] => j = k
  BY <1>3, <1>6, <1>8 DEF IInv, AnnouncementsOK
<1>11. \A q \in Procs, j \in DOMAIN announced' : ~Holds(q, announced[j])'
  BY <1>1, <1>3, <1>5, <1>6 DEF IInv, AnnouncementsOK
<1>12. \A q, r \in Procs, i \in DOMAIN message' : Holds(q, i)' /\ Holds(r, i)' => q = r
  BY <1>4, <1>5 DEF IInv, AnnouncementsOK
<1>13. ASSUME NEW i \in DOMAIN message'
       PROVE  \/ faults' > 0
              \/ \E j \in DOMAIN announced' : announced'[j] = i
              \/ \E q \in Procs : Holds(q, i)'
  <2>1. \/ faults > 0
        \/ \E j \in DOMAIN announced : announced[j] = i
        \/ \E q \in Procs : Holds(q, i)
    BY <1>4 DEF IInv, AnnouncementsOK
  <2>2. DOMAIN announced \subseteq DOMAIN announced' /\ Len(announced) + 1 \in DOMAIN announced'
    BY <1>3
  <2> QED BY <1>3, <1>4, <1>5, <1>7, <2>1, <2>2
<1> QED BY <1>9, <1>10, <1>11, <1>12, <1>13 DEF AnnouncementsOK

LEMMA HandlerIsGone ==
  ASSUME IInv, NEW p \in Procs, HandlerStops(p)
  PROVE  AnnouncementsOK'
<1>1. /\ handler' = [handler EXCEPT ![p] = [pc |-> "idle"]] /\ UNCHANGED <<message, announced>>
      /\ faults' = faults + 1
  BY DEF HandlerStops, Finish, Become
<1>2. \A q \in Procs : \A i : Holds(q, i)' => Holds(q, i)
  BY <1>1 DEF IInv, HandlersOK, Holds, In
<1>3. faults' \in Nat /\ faults' > 0
  BY <1>1 DEF IInv, AnnouncementsOK
<1> QED BY <1>1, <1>2, <1>3 DEF IInv, AnnouncementsOK

-----------------------------------------------------------------------------
(* The steps of a handler.                                                   *)

\* A handler that reads or writes nothing but what is about the settings, the
\* typing marks or itself.
LEMMA ReadsOnly ==
  ASSUME IInv, NEW p \in Procs, UNCHANGED <<chat, message, attachment, file, read, announced, answer, faults>>,
         OnlyMoves(p), ~In(p, "announce"), ~In(p, "announce")'
  PROVE  IInv'
<1>1. Grows
  BY NothingGrows
<1> QED BY <1>1, HandlersStay, NotAnnouncing, ChatsUntouched, MessagesUntouched, AttachmentsUntouched,
           CountersUntouched DEF IInv, Grows

LEMMA MovesTo ==
  ASSUME IInv, NEW p \in Procs, NEW h, Become(p, h)
  PROVE  handler'[p] = h /\ handler' = [handler EXCEPT ![p] = handler'[p]]
BY DEF IInv, HandlersOK, Become

LEMMA EndsIdle ==
  ASSUME IInv, NEW p \in Procs, Finish(p)
  PROVE  OnlyMoves(p) /\ ~In(p, "announce")'
<1>1. handler'[p] = [pc |-> "idle"] /\ handler' = [handler EXCEPT ![p] = handler'[p]]
  BY MovesTo DEF Finish
<1> QED BY <1>1 DEF OnlyMoves, HandlerOK, In

LEMMA OpenFindStep ==
  ASSUME IInv, NEW p \in Procs, NEW a \in Actors, NEW o \in Orders, OpenFind(p, a, o)
  PROVE  IInv'
<1>1. CASE ChatOf(o) # {}
  <2>1. /\ answer' = answer \cup {[order |-> o, chat |-> c, created |-> FALSE] : c \in ChatOf(o)}
        /\ UNCHANGED <<chat, message, attachment, file, read, announced, faults, handler>>
    BY <1>1 DEF OpenFind
  <2>2. Grows
    BY <2>1, NothingGrows
  <2>3. ChatsOK'
    BY <2>1, AnsweredOK
  <2> QED BY <2>1, <2>2, <2>3, HandlersUntouched, AnnouncementsUntouched, MessagesUntouched,
             AttachmentsUntouched, CountersUntouched DEF IInv, Grows
<1>2. CASE ChatOf(o) = {}
  <2>1. /\ Idle(p) /\ Become(p, [pc |-> "create", order |-> o])
        /\ UNCHANGED <<chat, message, attachment, file, read, announced, answer, faults>>
    BY <1>2 DEF OpenFind
  <2>2. OnlyMoves(p) /\ ~In(p, "announce")' /\ ~In(p, "announce")
    BY <2>1, MovesTo DEF OnlyMoves, HandlerOK, In, Idle
  <2> QED BY <2>1, <2>2, ReadsOnly
<1> QED BY <1>1, <1>2

LEMMA OpenCreateStep ==
  ASSUME IInv, NEW p \in Procs, OpenCreate(p)
  PROVE  IInv'
<1> DEFINE o == handler[p].order
<1>1. /\ In(p, "create") /\ Finish(p)
      /\ UNCHANGED <<message, attachment, file, read, announced, faults>>
  BY DEF OpenCreate
<1>2. o \in Orders
  BY <1>1 DEF IInv, HandlersOK, HandlerOK, In
<1>3. ChatsOK' /\ ChatsGrow
  <2>1. CASE ChatOf(o) = {}
    <3>1. /\ chat' = Append(chat, [order |-> o, routing |-> AllWorkers])
          /\ answer' = answer \cup {[order |-> o, chat |-> Len(chat) + 1, created |-> TRUE]}
      BY <2>1 DEF OpenCreate
    <3> HIDE DEF o
    <3> QED BY <1>2, <2>1, <3>1, CreatedOK
  <2>2. CASE ChatOf(o) # {}
    <3>1. /\ answer' = answer \cup {[order |-> o, chat |-> c, created |-> FALSE] : c \in ChatOf(o)}
          /\ UNCHANGED chat
      BY <2>2 DEF OpenCreate
    <3> HIDE DEF o
    <3> QED BY <3>1, AnsweredOK
  <2> QED BY <2>1, <2>2
<1>4. OnlyMoves(p) /\ ~In(p, "announce") /\ ~In(p, "announce")'
  BY <1>1, EndsIdle DEF In
<1>5. Grows
  BY <1>1, <1>3 DEF Grows, MessagesGrow, AttachmentsGrow
<1> QED BY <1>1, <1>3, <1>4, <1>5, HandlersStay, NotAnnouncing, MessagesUntouched, AttachmentsUntouched,
           CountersUntouched DEF IInv, Grows

LEMMA SendCheckStep ==
  ASSUME IInv, NEW p \in Procs, NEW a \in Actors, NEW c \in DOMAIN chat, NEW text \in BOOLEAN,
         NEW ids \in SUBSET DOMAIN attachment, SendCheck(p, a, c, text, ids)
  PROVE  IInv'
<1> DEFINE h == [pc |-> "recipients", author |-> a, chat |-> c, ids |-> ids, routing |-> chat[c].routing]
<1>1. /\ Idle(p) /\ Become(p, h)
      /\ \A x \in ids : attachment[x].chat = c /\ attachment[x].status = "UPLOADED"
      /\ UNCHANGED <<chat, message, attachment, file, read, announced, answer, faults>>
  BY DEF SendCheck
<1>2. handler'[p] = h /\ handler' = [handler EXCEPT ![p] = handler'[p]]
  BY <1>1, MovesTo
<1>3. chat[c].routing \in Routing
  <2>1. chat[c] \in Chat
    BY DEF IInv, ChatsOK
  <2> QED BY <2>1 DEF Chat
<1>4. HandlerOK(handler[p])'
  BY <1>1, <1>2, <1>3 DEF HandlerOK, Picked
<1> QED BY <1>1, <1>2, <1>4, ReadsOnly DEF OnlyMoves, In, Idle

LEMMA ResolveRecipientsStep ==
  ASSUME IInv, NEW p \in Procs, ResolveRecipients(p)
  PROVE  IInv'
<1> DEFINE to == resolveWorkerRecipients(handler[p].chat, handler[p].routing)
           h == [pc |-> "send", author |-> handler[p].author, chat |-> handler[p].chat,
                 ids |-> handler[p].ids, to |-> to]
<1>1. /\ In(p, "recipients") /\ Become(p, h)
      /\ UNCHANGED <<chat, message, attachment, file, read, announced, answer, faults>>
  BY DEF ResolveRecipients
<1>2. handler'[p] = h /\ handler' = [handler EXCEPT ![p] = handler'[p]]
  BY <1>1, MovesTo
<1>3. HandlerOK(handler[p]) /\ handler[p].routing \in Routing
  BY <1>1 DEF IInv, HandlersOK, HandlerOK, In
<1>4. to \subseteq Workers
  BY <1>3 DEF resolveWorkerRecipients, Routing
<1> HIDE DEF to
<1>5. HandlerOK(handler[p])'
  BY <1>1, <1>2, <1>3, <1>4 DEF HandlerOK, Picked, In
<1> QED BY <1>1, <1>2, <1>5, ReadsOnly DEF OnlyMoves, In

LEMMA SendCommitStep ==
  ASSUME IInv, NEW p \in Procs, SendCommit(p)
  PROVE  IInv'
<1>1. /\ Become(p, [pc |-> "announce", chat |-> handler[p].chat, id |-> Len(message) + 1])
      /\ UNCHANGED <<chat, file, answer>>
  BY DEF SendCommit
<1>2. ChatsOK' /\ ChatsGrow
  BY <1>1, ChatsUntouched
<1>3. Grows
  BY <1>1, <1>2, SendRowsOK DEF Grows
<1>4. Len(message) + 1 \in DOMAIN message'
  BY SendWrites
<1>5. OnlyMoves(p)
  BY <1>1, <1>4, MovesTo DEF OnlyMoves, HandlerOK
<1> QED BY <1>2, <1>3, <1>5, HandlersStay, SendRowsOK, SendCountsOK, MessageAwaitsAnnouncement DEF IInv

LEMMA AnnounceStep ==
  ASSUME IInv, NEW p \in Procs, emitMessageCreated(p)
  PROVE  IInv'
<1>1. Finish(p) /\ UNCHANGED <<chat, message, attachment, file, read, answer>>
  BY DEF emitMessageCreated
<1>2. Grows
  BY <1>1, NothingGrows
<1> QED BY <1>1, <1>2, EndsIdle, HandlersStay, ChatsUntouched, MessagesUntouched, AttachmentsUntouched,
           CountersUntouched, MessageIsAnnounced DEF IInv, Grows

LEMMA StopStep ==
  ASSUME IInv, NEW p \in Procs, HandlerStops(p)
  PROVE  IInv'
<1>1. Finish(p) /\ UNCHANGED <<chat, message, attachment, file, read, answer>>
  BY DEF HandlerStops
<1>2. Grows
  BY <1>1, NothingGrows
<1> QED BY <1>1, <1>2, EndsIdle, HandlersStay, ChatsUntouched, MessagesUntouched, AttachmentsUntouched,
           CountersUntouched, HandlerIsGone DEF IInv, Grows

\* A step of a handler that writes attachments or files.
LEMMA PicturesOnly ==
  ASSUME IInv, NEW p \in Procs, UNCHANGED <<chat, message, read, announced, answer, faults>>,
         AttachmentsOK', AttachmentsGrow, file \subseteq file',
         \/ UNCHANGED handler
         \/ OnlyMoves(p) /\ ~In(p, "announce") /\ ~In(p, "announce")'
  PROVE  IInv'
<1>1. Grows
  BY DEF Grows, ChatsGrow, MessagesGrow
<1>2. HandlersOK' /\ AnnouncementsOK'
  BY <1>1, HandlersStay, HandlersUntouched, NotAnnouncing, AnnouncementsUntouched
<1> QED BY <1>1, <1>2, ChatsUntouched, MessagesUntouched, CountersUntouched DEF IInv, Grows

LEMMA UploadStartStep ==
  ASSUME IInv, NEW p \in Procs, NEW a \in Actors, NEW c \in DOMAIN chat, NEW acceptable \in BOOLEAN,
         UploadStart(p, a, c, acceptable)
  PROVE  IInv'
<1>1. /\ Idle(p) /\ UNCHANGED <<chat, message, file, read, announced, answer, faults>>
      /\ AttachmentsOK' /\ AttachmentsGrow
  BY CleanedUpOK DEF UploadStart
<1>2. CASE UNCHANGED handler
  BY <1>1, <1>2, PicturesOnly
<1>3. CASE Become(p, [pc |-> "create_row", chat |-> c])
  <2>1. handler'[p] = [pc |-> "create_row", chat |-> c] /\ handler' = [handler EXCEPT ![p] = handler'[p]]
    BY <1>3, MovesTo
  <2>2. OnlyMoves(p) /\ ~In(p, "announce") /\ ~In(p, "announce")'
    BY <1>1, <2>1 DEF OnlyMoves, HandlerOK, In, Idle
  <2> QED BY <1>1, <2>2, PicturesOnly
<1> QED BY <1>2, <1>3 DEF UploadStart

LEMMA UploadCreateStep ==
  ASSUME IInv, NEW p \in Procs, UploadCreate(p)
  PROVE  IInv'
<1> DEFINE c == handler[p].chat
<1>1. /\ In(p, "create_row") /\ Become(p, [pc |-> "store", id |-> Len(attachment) + 1])
      /\ UNCHANGED <<chat, message, file, read, announced, answer, faults>>
      /\ attachment' = Append(attachment, [chat |-> c, message |-> 0, status |-> "UPLOADING",
                                           expired |-> FALSE, deleted |-> FALSE])
  BY DEF UploadCreate
<1>2. c \in DOMAIN chat
  BY <1>1 DEF IInv, HandlersOK, HandlerOK, In
<1> HIDE DEF c
<1>3. AttachmentsOK' /\ AttachmentsGrow /\ Len(attachment) + 1 \in DOMAIN attachment'
  BY <1>1, <1>2, RowCreatedOK
<1>4. OnlyMoves(p) /\ ~In(p, "announce") /\ ~In(p, "announce")'
  BY <1>1, <1>3, MovesTo DEF OnlyMoves, HandlerOK, In
<1> QED BY <1>1, <1>3, <1>4, PicturesOnly

LEMMA UploadStoreStep ==
  ASSUME IInv, NEW p \in Procs, UploadStore(p)
  PROVE  IInv'
<1> DEFINE i == handler[p].id
<1>1. /\ In(p, "store") /\ Become(p, [handler[p] EXCEPT !.pc = "mark"]) /\ file' = file \cup {i}
      /\ UNCHANGED <<chat, message, attachment, read, announced, answer, faults>>
  BY DEF UploadStore
<1>2. i \in DOMAIN attachment
  BY <1>1 DEF IInv, HandlersOK, HandlerOK, In
<1>3. handler'[p] = [pc |-> "mark", id |-> i] /\ handler' = [handler EXCEPT ![p] = handler'[p]]
  <2>1. handler'[p] = [handler[p] EXCEPT !.pc = "mark"] /\ handler' = [handler EXCEPT ![p] = handler'[p]]
    BY <1>1, MovesTo
  <2>2. handler[p] = [pc |-> handler[p].pc, id |-> i]
    BY <1>1 DEF IInv, HandlersOK, HandlerOK, In
  <2>3. handler'[p] = [pc |-> "mark", id |-> i]
    BY <2>1, <2>2
  <2> QED BY <2>1, <2>3
<1> HIDE DEF i
<1>4. AttachmentsOK' /\ AttachmentsGrow
  BY <1>1, <1>2, StoredOK
<1>5. OnlyMoves(p) /\ ~In(p, "announce") /\ ~In(p, "announce")'
  BY <1>1, <1>2, <1>3 DEF OnlyMoves, HandlerOK, In
<1> QED BY <1>1, <1>4, <1>5, PicturesOnly

LEMMA UploadMarkStep ==
  ASSUME IInv, NEW p \in Procs, UploadMark(p)
  PROVE  IInv'
<1> DEFINE i == handler[p].id
<1>1. /\ In(p, "mark") /\ Finish(p) /\ UNCHANGED <<chat, message, file, read, announced, answer, faults>>
      /\ UNCHANGED attachment \/ attachment' = [attachment EXCEPT ![i].status = "UPLOADED"]
  BY DEF UploadMark
<1>2. i \in file
  BY <1>1 DEF IInv, HandlersOK, HandlerOK, In
<1> HIDE DEF i
<1>3. ChatsGrow /\ MessagesOK
  BY <1>1 DEF ChatsGrow, IInv
<1>4. AttachmentsOK' /\ AttachmentsGrow
  BY <1>1, <1>2, <1>3, MarkedOK, AttachmentsUntouched
<1>5. OnlyMoves(p) /\ ~In(p, "announce") /\ ~In(p, "announce")'
  BY <1>1, EndsIdle DEF In
<1> QED BY <1>1, <1>4, <1>5, PicturesOnly

LEMMA SettingsReadStep ==
  ASSUME IInv, NEW p \in Procs, NEW a \in Workers, NEW c \in DOMAIN chat, NEW enabled \in BOOLEAN,
         NEW routing \in Routings, SettingsRead(p, a, c, enabled, routing)
  PROVE  IInv'
<1> DEFINE h == [pc |-> "settings", chat |-> c, routing |-> routing, cafe |-> CafeOf[chat[c].order],
                 new |-> [settings[CafeOf[chat[c].order]] EXCEPT !.enabled = enabled]]
<1>1. /\ Idle(p) /\ Become(p, h)
      /\ UNCHANGED <<chat, message, attachment, file, read, announced, answer, faults>>
  BY DEF SettingsRead
<1>2. handler'[p] = h /\ handler' = [handler EXCEPT ![p] = handler'[p]]
  BY <1>1, MovesTo
<1>3. handler'[p].pc = "settings" /\ handler'[p].chat = c /\ handler'[p].routing = routing
  BY <1>2
<1>4. HandlerOK(handler[p])'
  BY <1>1, <1>3, RoutingsAssumption DEF HandlerOK
<1> QED BY <1>1, <1>2, <1>3, <1>4, ReadsOnly DEF OnlyMoves, In, Idle

LEMMA FormReadStep ==
  ASSUME IInv, NEW p \in Procs, NEW where \in Cafes, FormRead(p, where, 1)
  PROVE  IInv'
<1> DEFINE h == [pc |-> "settings", chat |-> 0, routing |-> AllWorkers, cafe |-> where,
                 new |-> [settings[where] EXCEPT !.theme = 1]]
<1>1. /\ Idle(p) /\ Become(p, h)
      /\ UNCHANGED <<chat, message, attachment, file, read, announced, answer, faults>>
  BY DEF FormRead
<1>2. handler'[p] = h /\ handler' = [handler EXCEPT ![p] = handler'[p]]
  BY <1>1, MovesTo
<1>3. handler'[p].pc = "settings" /\ handler'[p].chat = 0 /\ handler'[p].routing = AllWorkers
  BY <1>2
<1>4. HandlerOK(handler[p])'
  BY <1>3 DEF HandlerOK, AllWorkers, Routing
<1> QED BY <1>1, <1>2, <1>3, <1>4, ReadsOnly DEF OnlyMoves, In, Idle

LEMMA SettingsWriteStep ==
  ASSUME IInv, NEW p \in Procs, SettingsWrite(p)
  PROVE  IInv'
<1>1. /\ In(p, "settings") /\ UNCHANGED <<chat, message, attachment, file, read, announced, answer, faults>>
  BY DEF SettingsWrite
<1>2. CASE handler[p].chat # 0
  <2>1. Become(p, [pc |-> "routing", chat |-> handler[p].chat, routing |-> handler[p].routing])
    BY <1>2 DEF SettingsWrite
  <2>2. handler[p].chat \in DOMAIN chat /\ handler[p].routing \in Routing
    BY <1>1, <1>2 DEF IInv, HandlersOK, HandlerOK, In
  <2>3. OnlyMoves(p) /\ ~In(p, "announce") /\ ~In(p, "announce")'
    BY <1>1, <2>1, <2>2, MovesTo DEF OnlyMoves, HandlerOK, In
  <2> QED BY <1>1, <2>3, ReadsOnly
<1>3. CASE handler[p].chat = 0
  BY <1>1, <1>3, EndsIdle, ReadsOnly DEF SettingsWrite, In
<1> QED BY <1>2, <1>3

LEMMA RoutingWriteStep ==
  ASSUME IInv, NEW p \in Procs, RoutingWrite(p)
  PROVE  IInv'
<1> DEFINE d == handler[p].chat
           r == handler[p].routing
<1>1. /\ In(p, "routing") /\ Finish(p) /\ chat' = [chat EXCEPT ![d].routing = r]
      /\ UNCHANGED <<message, attachment, file, read, announced, answer, faults>>
  BY DEF RoutingWrite
<1>2. d \in DOMAIN chat /\ r \in Routing
  BY <1>1 DEF IInv, HandlersOK, HandlerOK, In
<1> HIDE DEF d, r
<1>3. ChatsOK' /\ ChatsGrow
  BY <1>1, <1>2, ReroutedOK
<1>4. OnlyMoves(p) /\ ~In(p, "announce") /\ ~In(p, "announce")'
  BY <1>1, EndsIdle DEF In
<1>5. Grows
  BY <1>1, <1>3 DEF Grows, MessagesGrow, AttachmentsGrow
<1> QED BY <1>1, <1>3, <1>4, <1>5, HandlersStay, NotAnnouncing, MessagesUntouched, AttachmentsUntouched,
           CountersUntouched DEF IInv, Grows

LEMMA TypingFindStep ==
  ASSUME IInv, NEW p \in Procs, NEW a \in Actors, NEW c \in DOMAIN chat, TypingFind(p, a, c)
  PROVE  IInv'
<1>1. /\ Idle(p) /\ Become(p, [pc |-> "typing", chat |-> c, author |-> a])
      /\ UNCHANGED <<chat, message, attachment, file, read, announced, answer, faults>>
  BY DEF TypingFind
<1>2. OnlyMoves(p) /\ ~In(p, "announce") /\ ~In(p, "announce")'
  BY <1>1, MovesTo DEF OnlyMoves, HandlerOK, In, Idle
<1> QED BY <1>1, <1>2, ReadsOnly

LEMMA TypingCreateStep ==
  ASSUME IInv, NEW p \in Procs, TypingCreate(p)
  PROVE  IInv'
BY EndsIdle, ReadsOnly DEF TypingCreate, In

-----------------------------------------------------------------------------
(* The steps outside a handler.                                              *)

LEMMA ElsewhereStep ==
  ASSUME IInv, UNCHANGED <<chat, message, attachment, file, read, announced, answer, handler, faults>>
  PROVE  IInv'
<1>1. Grows
  BY NothingGrows
<1> QED BY <1>1, HandlersUntouched, AnnouncementsUntouched, ChatsUntouched, MessagesUntouched,
           AttachmentsUntouched, CountersUntouched DEF IInv, Grows

LEMMA MarkReadStep ==
  ASSUME IInv, NEW a \in Actors, NEW c \in DOMAIN chat, markRead(a, c)
  PROVE  IInv'
<1>1. UNCHANGED <<chat, message, attachment, file, announced, answer, handler, faults>>
  BY DEF markRead
<1>2. Grows
  BY <1>1, NothingGrows
<1> QED BY <1>1, <1>2, MarkReadOK, HandlersUntouched, AnnouncementsUntouched, ChatsUntouched,
           MessagesUntouched, AttachmentsUntouched DEF IInv, Grows

LEMMA DayPassesStep ==
  ASSUME IInv, NEW i \in DOMAIN attachment, DayPasses(i)
  PROVE  IInv'
<1>1. /\ attachment' = [attachment EXCEPT ![i].expired = TRUE]
      /\ UNCHANGED <<chat, message, file, read, announced, answer, handler, faults>>
  BY DEF DayPasses
<1>2. AttachmentsOK' /\ AttachmentsGrow
  BY <1>1, ExpiredOK
<1>3. Grows
  BY <1>1, <1>2 DEF Grows, ChatsGrow, MessagesGrow
<1> QED BY <1>1, <1>2, <1>3, HandlersUntouched, AnnouncementsUntouched, ChatsUntouched,
           MessagesUntouched, CountersUntouched DEF IInv, Grows

LEMMA RequestKeepsInv ==
  ASSUME IInv, NEW p \in Procs, ChatRequest(p)
  PROVE  IInv'
BY OpenFindStep, SendCheckStep, UploadStartStep, SettingsReadStep, FormReadStep, TypingFindStep
   DEF ChatRequest

LEMMA ContinueKeepsInv ==
  ASSUME IInv, NEW p \in Procs, ChatContinue(p)
  PROVE  IInv'
BY OpenCreateStep, ResolveRecipientsStep, SendCommitStep, AnnounceStep, UploadCreateStep, UploadStoreStep,
   UploadMarkStep, SettingsWriteStep, RoutingWriteStep, TypingCreateStep DEF ChatContinue

LEMMA NextKeepsInv == IInv /\ [ChatNext]_cvars => IInv'
<1> SUFFICES ASSUME IInv, [ChatNext]_cvars PROVE IInv' OBVIOUS
<1>1. ASSUME NEW p \in Procs, ChatRequest(p) \/ ChatContinue(p) \/ HandlerStops(p) PROVE IInv'
  BY <1>1, RequestKeepsInv, ContinueKeepsInv, StopStep
<1>2. ASSUME NEW a \in Actors, NEW c \in DOMAIN chat, markRead(a, c) \/ TypingStops(a, c) PROVE IInv'
  BY <1>2, MarkReadStep, ElsewhereStep DEF TypingStops
<1>3. ASSUME NEW i \in DOMAIN attachment, DayPasses(i) PROVE IInv'
  BY <1>3, DayPassesStep
<1>4. ASSUME NEW s \in Sockets,
             \/ \E a \in Actors : handleConnection(s, a)
             \/ handleDisconnect(s)
             \/ \E c \in DOMAIN chat : joinChat(s, c) \/ leaveChat(s, c)
      PROVE  IInv'
  BY <1>4, ElsewhereStep DEF handleConnection, handleDisconnect, joinChat, leaveChat, others
<1>5. ASSUME NEW w \in Workers, NEW where \in Cafes \cup {Nowhere}, WorkerMoves(w, where) PROVE IInv'
  BY <1>5, ElsewhereStep DEF WorkerMoves
<1>6. CASE UNCHANGED cvars
  BY <1>6, ElsewhereStep DEF cvars
<1> QED BY <1>1, <1>2, <1>3, <1>4, <1>5, <1>6 DEF ChatNext

-----------------------------------------------------------------------------
(* The theorems.                                                             *)

LEMMA InvIsInvariant == ChatSpec => []IInv
BY InitOK, NextKeepsInv, PTL DEF ChatSpec

\* Rows name chats, messages, attachments and people that exist, although every
\* handler names them by what it read before its last await.
THEOREM ChatIsTyped == ChatSpec => []ChatTypeOK
BY InvIsInvariant, InvImpliesProperties, PTL

\* getOrCreateByOrder: an order has one chat and one creation is announced,
\* however many open it at once.
THEOREM OrderHasOneChat == ChatSpec => []OpenersShareTheChat
BY InvIsInvariant, InvImpliesProperties, PTL

\* sendMessage and markRead: an unread counter counts the messages sent to its
\* owner since it was last reset, and the list's filter goes by it.
THEOREM CountersAreExact == ChatSpec => []UnreadIsExact
BY InvIsInvariant, InvImpliesProperties, PTL

\* uploadAttachment, its clean-up and sendMessage: what a message has claimed is
\* stored and stays.
THEOREM ClaimedStays == ChatSpec => []AttachmentsStay
BY InvIsInvariant, InvImpliesProperties, PTL

\* emitMessageCreated: no message is announced twice, and one that is not
\* announced yet is in the hands of a handler that has still to announce it,
\* unless a handler died.
AnnouncedOnce ==
  /\ \A j, k \in DOMAIN announced : announced[j] = announced[k] => j = k
  /\ \A i \in DOMAIN message :
       \/ faults > 0
       \/ \E j \in DOMAIN announced : announced[j] = i
       \/ \E p \in Procs : Holds(p, i)

THEOREM NoMessageIsAnnouncedTwice == ChatSpec => []AnnouncedOnce
<1>1. IInv => AnnouncedOnce
  BY DEF IInv, AnnouncementsOK, AnnouncedOnce
<1> QED BY <1>1, InvIsInvariant, PTL
=============================================================================
