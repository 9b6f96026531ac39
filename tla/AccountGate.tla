---------------------------- MODULE AccountGate ----------------------------
(***************************************************************************)
(* What the traffic controller promises to its callers: a gate in front of *)
(* every account.                                                          *)
(*                                                                         *)
(* Requests pass an open gate and leave when they are done.  An operation  *)
(* closes the gates it needs in the order of the accounts, one when the    *)
(* one before is drained, so that operations cannot wait in a circle; it   *)
(* holds an account once nothing runs on it, and opens what it closed.     *)
(* AccountTraffic implements this with counters, flags, channels and       *)
(* cleanups under a mutex.                                                 *)
(***************************************************************************)
EXTENDS Integers

CONSTANTS Accounts, Requests, Quiescers

VARIABLES
  running,   \* the requests and probes on each account
  closed,    \* the accounts whose gate an operation has closed
  held       \* those of them that it holds drained

gateVars == <<running, closed, held>>

GateInit ==
  /\ running = [a \in Accounts |-> {}]
  /\ closed = [q \in Quiescers |-> {}]
  /\ held = [q \in Quiescers |-> {}]

IsOpen(a) == \A q \in Quiescers : a \notin closed[q]

Enter(r, a) ==
  /\ IsOpen(a)
  /\ \A b \in Accounts : r \notin running[b]
  /\ running' = [running EXCEPT ![a] = @ \cup {r}]
  /\ UNCHANGED <<closed, held>>

Leave(r, a) ==
  /\ r \in running[a]
  /\ running' = [running EXCEPT ![a] = @ \ {r}]
  /\ UNCHANGED <<closed, held>>

Close(q, a) ==
  /\ IsOpen(a)
  /\ closed[q] = held[q] /\ \A b \in held[q] : b < a
  /\ closed' = [closed EXCEPT ![q] = @ \cup {a}]
  /\ UNCHANGED <<running, held>>

Hold(q, a) ==
  /\ a \in closed[q] /\ a \notin held[q] /\ running[a] = {}
  /\ held' = [held EXCEPT ![q] = @ \cup {a}]
  /\ UNCHANGED <<running, closed>>

Open(q, ids) ==
  /\ ids \subseteq closed[q]
  /\ closed' = [closed EXCEPT ![q] = @ \ ids]
  /\ held' = [held EXCEPT ![q] = @ \ ids]
  /\ UNCHANGED running

GateNext ==
  \/ \E r \in Requests, a \in Accounts : Enter(r, a) \/ Leave(r, a)
  \/ \E q \in Quiescers, a \in Accounts : Close(q, a) \/ Hold(q, a)
  \/ \E q \in Quiescers, ids \in SUBSET Accounts : Open(q, ids)

GateSpec == GateInit /\ [][GateNext]_gateVars
=============================================================================
