------------------------- MODULE ServerRequestsProofs -------------------------
(***************************************************************************)
(* What the steps of ServerRequests do to the requests in flight, for the  *)
(* proofs about the modules that are built on it.                          *)
(***************************************************************************)
EXTENDS ServerRequests, TLAPS

\* Every request is a record of these four.
RequestShape ==
  /\ DOMAIN request = Requests
  /\ \A r \in Requests : request[r] = [op |-> request[r].op, at |-> request[r].at,
                                       in |-> request[r].in, seen |-> request[r].seen]

\* Request r is at that label of its operation and has seen that; the others are where they
\* were.
MovesTo(r, op, label, seen) ==
  /\ DOMAIN request' = Requests
  /\ request'[r] = [op |-> op, at |-> label, in |-> request'[r].in, seen |-> seen]
  /\ \A s \in Requests \ {r} : request'[s] = request[s]

\* Goto moves its request within the operation.
LEMMA GotoMoves ==
  ASSUME RequestShape, NEW r \in Requests, NEW label, NEW seen, Goto(r, label, seen)
  PROVE  /\ MovesTo(r, request[r].op, label, seen) /\ crashes' = crashes
         /\ request'[r].in = request[r].in
<1>1. DOMAIN request' = Requests /\ \A s \in Requests \ {r} : request'[s] = request[s]
  BY DEF RequestShape, Goto
<1>2. request'[r] = [[op |-> request[r].op, at |-> request[r].at, in |-> request[r].in,
                      seen |-> request[r].seen] EXCEPT !.at = label, !.seen = seen]
  BY DEF RequestShape, Goto
<1>3. request'[r] = [op |-> request[r].op, at |-> label, in |-> request[r].in, seen |-> seen]
  BY <1>2
<1>4. request'[r].in = request[r].in
  BY <1>3
<1>5. request'[r] = [op |-> request[r].op, at |-> label, in |-> request'[r].in, seen |-> seen]
  BY <1>3, <1>4
<1>6. crashes' = crashes
  BY DEF Goto
<1>7. QED  BY <1>1, <1>4, <1>5, <1>6 DEF MovesTo

\* A request that goes on in its catch block stays within the operation too.
LEMMA RejectedMoves ==
  ASSUME RequestShape, NEW r \in Requests, NEW label, NEW seen, Rejected(r, label, seen)
  PROVE  MovesTo(r, request[r].op, label, seen) /\ request'[r].in = request[r].in
<1>1. DOMAIN request' = Requests /\ \A s \in Requests \ {r} : request'[s] = request[s]
  BY DEF RequestShape, Rejected
<1>2. request'[r] = [[op |-> request[r].op, at |-> request[r].at, in |-> request[r].in,
                      seen |-> request[r].seen] EXCEPT !.at = label, !.seen = seen]
  BY DEF RequestShape, Rejected
<1>3. request'[r] = [op |-> request[r].op, at |-> label, in |-> request[r].in, seen |-> seen]
  BY <1>2
<1>4. request'[r].in = request[r].in
  BY <1>3
<1>5. request'[r] = [op |-> request[r].op, at |-> label, in |-> request'[r].in, seen |-> seen]
  BY <1>3, <1>4
<1>6. QED  BY <1>1, <1>4, <1>5 DEF MovesTo

\* A request that is answered, or dies, has seen nothing.
LEMMA AnswerMoves ==
  ASSUME RequestShape, NEW r \in Requests, request' = [request EXCEPT ![r] = IdleRequest]
  PROVE  MovesTo(r, "none", "idle", None)
BY DEF RequestShape, MovesTo, IdleRequest

\* A request that arrives has seen nothing yet, and was not running.
LEMMA ReceiveMoves ==
  ASSUME RequestShape, NEW r \in Requests, NEW op, NEW label, NEW in, Receive(r, op, label, in)
  PROVE  /\ MovesTo(r, op, label, None) /\ crashes' = crashes /\ request[r] = IdleRequest
         /\ request'[r].in = in
BY DEF RequestShape, MovesTo, Receive

\* A step of one request keeps the shape of all.
LEMMA MovesKeepShape ==
  ASSUME RequestShape, NEW r \in Requests, NEW op, NEW label, NEW seen,
         MovesTo(r, op, label, seen)
  PROVE  RequestShape'
BY DEF RequestShape, MovesTo

\* At most one request is in flight, and what that means for the others.
OneAtATime ==
  \A r, s \in Requests : request[r] # IdleRequest /\ request[s] # IdleRequest => r = s

LEMMA OthersAreIdle ==
  ASSUME OneAtATime, NEW r \in Requests, request[r] # IdleRequest
  PROVE  \A s \in Requests \ {r} : request[s] = IdleRequest
BY DEF OneAtATime

===============================================================================
