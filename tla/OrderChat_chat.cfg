CONSTANTS
  u1 = u1
  w1 = w1
  w2 = w2
  c1 = c1
  o1 = o1
  p1 = p1
  p2 = p2
  Orders = {o1}
  Users = {u1}
  Workers = {w1, w2}
  Cafes = {c1}
  Owner <- MCOwner
  CafeOf <- MCCafeOf
  Role <- MCRole
  Nowhere = Nowhere
  Sockets = {s1}
  Procs = {p1, p2}
  Routings <- MCRoutings
  MaxMessages = 2
  MaxAttachments = 1
  MaxFaults = 1
SPECIFICATION MCSpec
INVARIANTS
  ChatTypeOK
  OpenersShareTheChat
  UnreadIsExact
  AttachmentsStay
PROPERTIES
  MessagesAreAnnounced
CHECK_DEADLOCK FALSE
