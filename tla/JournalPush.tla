----------------------------- MODULE JournalPush -----------------------------
(***************************************************************************)
(* A review pack's journal is sent to one company's Xero as draft manual   *)
(* journals (pushJournalAsDraft of lib/xero-connector.ts and the route):   *)
(* what was sent before is looked up, the journal posted, and the post     *)
(* recorded, in awaits of their own.  Xero is not part of the repository.  *)
(*                                                                         *)
(* A pack's content is its hash, and its journal balances.  Whether a      *)
(* token is honoured is Connections' matter: here any may be refused.      *)
(***************************************************************************)
EXTENDS ServerRequests, Sequences

CONSTANTS
  Organisations,  \* organisations at Xero
  Contents,       \* pack hashes
  MaxForgets      \* bound: disconnections

VARIABLES
  organisation,   \* finclose_prod_connections: the one the company is connected to
  pushed,         \* the contents recorded beneath it
  posted,         \* what Xero has: where each content's journals were created
  forgets         \* history: how often what was pushed was deleted

pushVars == <<organisation, pushed, posted, forgets>>

PushInit ==
  /\ organisation = None
  /\ pushed = {}
  /\ posted = [h \in Contents |-> <<>>]
  /\ forgets = 0

FindOrganisation(r) ==
  /\ At(r, "push", "target") /\ UNCHANGED pushVars
  /\ IF organisation = None THEN Answer(r) ELSE Goto(r, "earlier", organisation)

FindPush(r) ==
  /\ At(r, "push", "earlier") /\ UNCHANGED pushVars
  /\ IF In(r) \in pushed THEN Answer(r) ELSE Goto(r, "token", Seen(r))

\* liveAccessToken: the token lasts, is refreshed, or is refused.
GetToken(r) ==
  /\ At(r, "push", "token") /\ UNCHANGED pushVars
  /\ Goto(r, "post", Seen(r)) \/ Goto(r, "refreshed", Seen(r)) \/ Answer(r)

\* The refreshed tokens are put with the record as it was read.
PutRefreshed(r) ==
  /\ At(r, "push", "refreshed")
  /\ organisation' = Seen(r)
  /\ Goto(r, "post", Seen(r))
  /\ UNCHANGED <<pushed, posted, forgets>>

\* Xero creates the journals, all of them, or does not accept the call.
PostJournal(r) ==
  /\ At(r, "push", "post")
  /\ \/ posted' = [posted EXCEPT ![In(r)] = Append(@, Seen(r))] /\ Goto(r, "record", Seen(r))
     \/ Answer(r) /\ UNCHANGED posted
  /\ UNCHANGED <<organisation, pushed, forgets>>

\* A bug to catch: one record for all that was pushed.
RecordLastPush(r) ==
  /\ At(r, "push", "record")
  /\ pushed' = {In(r)}
  /\ Answer(r)
  /\ UNCHANGED <<organisation, posted, forgets>>

\* Each content has a record of its own.
RecordPush(r) ==
  /\ At(r, "push", "record")
  /\ pushed' = pushed \cup {In(r)}
  /\ Answer(r)
  /\ UNCHANGED <<organisation, posted, forgets>>

\* delete: first what was pushed, then the connection itself.
ForgetPushes(r) ==
  /\ At(r, "leave", "forget")
  /\ pushed' = {} /\ forgets' = forgets + 1
  /\ Goto(r, "delete", None)
  /\ UNCHANGED <<organisation, posted>>

DeleteConnection(r) ==
  /\ At(r, "leave", "delete")
  /\ organisation' = None
  /\ Answer(r)
  /\ UNCHANGED <<pushed, posted, forgets>>

\* completeXeroAuthorisation, once the code was exchanged.
ConnectOrganisation(r) ==
  /\ At(r, "join", "put")
  /\ organisation' = In(r)
  /\ Answer(r)
  /\ UNCHANGED <<pushed, posted, forgets>>

ReceivePush(r) ==
  /\ \/ \E h \in Contents : Receive(r, "push", "target", h)
     \/ \E o \in Organisations : Receive(r, "join", "put", o)
     \/ forgets < MaxForgets /\ Receive(r, "leave", "forget", None)
  /\ UNCHANGED pushVars

PushNext ==
  \E r \in Requests :
    \/ ReceivePush(r)
    \/ FindOrganisation(r) \/ FindPush(r) \/ GetToken(r) \/ PutRefreshed(r)
    \/ PostJournal(r) \/ RecordPush(r)
    \/ ConnectOrganisation(r) \/ ForgetPushes(r) \/ DeleteConnection(r)
    \/ Die(r) /\ UNCHANGED pushVars

-----------------------------------------------------------------------------
(* Property *)

Recording(h) == \E r \in Requests : At(r, "push", "record") /\ In(r) = h

\* Pushing a pack again sends nothing again (xero-connector.ts:132): Xero has one copy, and
\* one more for each push that died after Xero had it and each disconnection, which forgets;
\* what is on record was sent, and what was sent is on record.  One request at a time: two
\* pushes of one pack both find no record of it.
PostsAreOnRecord ==
  \A h \in Contents :
    /\ Len(posted[h]) <= 1 + crashes + forgets
    /\ h \in pushed => posted[h] # <<>>
    /\ posted[h] # <<>> => h \in pushed \/ Recording(h) \/ crashes + forgets > 0

=============================================================================
