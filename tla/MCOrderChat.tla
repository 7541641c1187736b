---------------------------- MODULE MCOrderChat ----------------------------
(* Instance of OrderChat for TLC.  The features that meet in a property are  *)
(* explored together, the others apart: focus says which.                    *)
EXTENDS OrderChatProperties

CONSTANTS u1, w1, w2, c1, o1, p1, p2

MCOwner == [o \in Orders |-> u1]
MCCafeOf == [o \in Orders |-> c1]
MCRole == [w \in Workers |-> IF w = w1 THEN "CAFE_ADMIN" ELSE "WORKER"]
MCRoutings == {[mode |-> "ROLE_BASED", roles |-> {"WORKER"}, ids |-> {}],
               [mode |-> "SPECIFIC_WORKERS", roles |-> {}, ids |-> {w1}]}

VARIABLE focus

MCInit == ChatInit /\ focus \in {"counters", "pictures", "settings", "sockets", "typing"}

Running(pcs) == \A p \in Procs : handler'[p].pc \in {"idle"} \cup pcs
Sending == {"create", "recipients", "send", "announce"}

MCNext ==
  /\ ChatNext
  /\ UNCHANGED focus
  /\ CASE focus = "counters" ->
             /\ Running(Sending \cup {"settings", "routing"})
             /\ UNCHANGED <<socket, typing, faults>>
             /\ cafe'[w1] = c1
             /\ Cardinality(answer') <= 1
             /\ \A p \in Procs : handler'[p].pc = "recipients" => handler'[p].author # w2
             /\ \A p \in Procs : handler'[p].pc = "settings" =>
                  p = p1 /\ handler'[p].chat # 0 /\ handler'[p].new = settings[c1]
       [] focus = "pictures" ->
             /\ Running(Sending \cup {"create_row", "store", "mark"})
             /\ UNCHANGED <<socket, typing, cafe>>
             /\ \A k \in DOMAIN read' : read'[k].at = 0
       [] focus = "settings" ->
             /\ Running({"create", "settings", "routing"})
             /\ UNCHANGED <<socket, typing, attachment, cafe, read>>
       [] focus = "typing" ->
             /\ Running({"create", "typing"})
             /\ UNCHANGED <<cafe, attachment, socket>>
             /\ \A k \in DOMAIN read' : read'[k].at = 0
       [] focus = "sockets"  ->
             /\ Running(Sending)
             /\ UNCHANGED <<cafe, attachment, typing, faults>>
             /\ Len(message') <= 1
             /\ \A k \in DOMAIN read' : read'[k].at = 0

MCSpec == MCInit /\ [][MCNext]_<<cvars, focus>> /\ \A p \in Procs : WF_cvars(ChatContinue(p))
=============================================================================
