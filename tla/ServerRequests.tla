---------------------------- MODULE ServerRequests ----------------------------
(***************************************************************************)
(* The handlers of one Node.js server that other modules are built from: a *)
(* request is received, runs from await to await, and is answered; it may  *)
(* die at any of them.  What it read or computed before an await is kept   *)
(* in `seen' and used after it.                                            *)
(***************************************************************************)
EXTENDS Integers, FiniteSets

CONSTANTS
  Requests,     \* requests the server may have in flight at once
  MaxCrashes,   \* bound: requests that die half-way, and writes that fail
  None

VARIABLES request, crashes

IdleRequest == [op |-> "none", at |-> "idle", in |-> None, seen |-> None]

At(r, op, label) == request[r].op = op /\ request[r].at = label
In(r) == request[r].in
Seen(r) == request[r].seen

RequestsInit == request = [r \in Requests |-> IdleRequest] /\ crashes = 0

Receive(r, op, label, in) ==
  /\ request[r] = IdleRequest
  /\ request' = [request EXCEPT ![r] = [op |-> op, at |-> label, in |-> in, seen |-> None]]
  /\ UNCHANGED crashes

Goto(r, label, seen) ==
  /\ request' = [request EXCEPT ![r].at = label, ![r].seen = seen]
  /\ UNCHANGED crashes

Answer(r) == request' = [request EXCEPT ![r] = IdleRequest] /\ UNCHANGED crashes

\* The process dies, or the platform ends it; nothing of the request is left.
Die(r) ==
  /\ request[r] # IdleRequest
  /\ crashes < MaxCrashes
  /\ crashes' = crashes + 1
  /\ request' = [request EXCEPT ![r] = IdleRequest]

\* An await is rejected and the handler goes on in its catch block.
Rejected(r, label, seen) ==
  /\ crashes < MaxCrashes
  /\ crashes' = crashes + 1
  /\ request' = [request EXCEPT ![r].at = label, ![r].seen = seen]

=============================================================================
