------------------------------ MODULE Requests ------------------------------
(* Request handlers in flight.  Node runs one handler at a time between two  *)
(* awaits: a slot of Procs holds a handler's next step, "pc", with what it    *)
(* has read, and any of them may be cut short by a throw or a restart.        *)
EXTENDS Naturals

CONSTANTS Procs, MaxFaults

ASSUME RequestsAssumption == MaxFaults \in Nat

VARIABLES
  handler, \* the handler in each slot
  faults   \* how many handlers were cut short

rvars == <<handler, faults>>

NoRequest == [pc |-> "idle"]

RequestsInit ==
  /\ handler = [p \in Procs |-> NoRequest]
  /\ faults = 0

Idle(p) == handler[p].pc = "idle"
In(p, label) == handler[p].pc = label

Become(p, h) == handler' = [handler EXCEPT ![p] = h] /\ UNCHANGED faults
Goto(p, label) == handler' = [handler EXCEPT ![p].pc = label] /\ UNCHANGED faults
Finish(p) == Become(p, NoRequest)

\* A throw nobody catches, or a restart of the process.
Dies(p) ==
  /\ ~Idle(p)
  /\ faults < MaxFaults
  /\ handler' = [handler EXCEPT ![p] = NoRequest]
  /\ faults' = faults + 1
=============================================================================
