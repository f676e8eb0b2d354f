----------------------------- MODULE Connections -----------------------------
(***************************************************************************)
(* The connection of one company to an accounting provider over OAuth 2.0  *)
(* (lib/oauth-connect.ts over lib/connection-store-firestore.ts): the code *)
(* is exchanged and stored, an expired access token is refreshed, and some *)
(* providers honour each refresh token once.  The provider is not part of  *)
(* the repository; it is modelled from what the code expects of it.        *)
(* A refresh token is a number and the organization it was given for.      *)
(***************************************************************************)
EXTENDS ServerRequests

CONSTANTS
  Tenants,     \* organizations at the provider
  Rotations,   \* "ONE_TIME" refresh tokens (FreshBooks) or "KEPT" ones (Zoho)
  MaxTokens    \* bound: refresh tokens the provider issues

VARIABLES
  rotation,    \* what this provider does
  honoured,    \* refresh tokens the provider still accepts
  issued,      \* how many it issued
  connection   \* finclose_prod_connections

connectionVars == <<rotation, honoured, issued, connection>>

ConnectionsInit ==
  /\ rotation \in Rotations
  /\ honoured = {} /\ issued = 0
  /\ connection = None

NewToken(tenant) == [tenant |-> tenant, n |-> issued]

StoreReads == UNCHANGED connectionVars

PutConnection(record) == connection' = record /\ UNCHANGED <<rotation, honoured, issued>>

\* completeOAuth: the state and the user were checked before this await.
ExchangeCode(r) ==
  /\ At(r, "connect", "exchange")
  /\ issued < MaxTokens
  /\ issued' = issued + 1
  /\ honoured' = honoured \cup {NewToken(In(r))}
  /\ Goto(r, "store", [tenant |-> In(r), refresh |-> NewToken(In(r))])
  /\ UNCHANGED <<rotation, connection>>

\* oauthAccess: an access token that lasts is used; an expired one is refreshed.
ReadConnection(r) ==
  /\ At(r, "access", "read") /\ StoreReads
  /\ IF connection = None \/ connection.fresh THEN Answer(r)
     ELSE Goto(r, "refresh", [tenant |-> connection.tenant, refresh |-> connection.refresh])

\* The reply of the provider: refused, the same token, or the next one.
RefreshTokens(r) ==
  LET old == Seen(r).refresh IN
  /\ At(r, "access", "refresh")
  /\ IF old \notin honoured THEN Answer(r) /\ UNCHANGED <<honoured, issued>>
     ELSE IF rotation = "KEPT" THEN Goto(r, "store", Seen(r)) /\ UNCHANGED <<honoured, issued>>
     ELSE /\ issued < MaxTokens
          /\ issued' = issued + 1
          /\ honoured' = (honoured \ {old}) \cup {NewToken(old.tenant)}
          /\ Goto(r, "store", [Seen(r) EXCEPT !.refresh = NewToken(old.tenant)])
  /\ UNCHANGED <<rotation, connection>>

\* A bug to catch: only the tokens are written, on the organization connected by now.
StoreTokensOnly(r) ==
  /\ At(r, "connect", "store") \/ At(r, "access", "store")
  /\ PutConnection([tenant |-> IF connection = None THEN Seen(r).tenant ELSE connection.tenant,
                    refresh |-> Seen(r).refresh, fresh |-> TRUE])
  /\ Answer(r)

\* store.put of the whole record as it was read, with the new tokens.
StoreConnection(r) ==
  /\ At(r, "connect", "store") \/ At(r, "access", "store")
  /\ PutConnection([tenant |-> Seen(r).tenant, refresh |-> Seen(r).refresh, fresh |-> TRUE])
  /\ Answer(r)

Disconnect(r) ==
  /\ At(r, "disconnect", "delete")
  /\ PutConnection(None)
  /\ Answer(r)

AccessExpires ==
  /\ connection # None /\ connection.fresh
  /\ PutConnection([connection EXCEPT !.fresh = FALSE])
  /\ UNCHANGED <<request, crashes>>

ReceiveConnection(r) ==
  /\ \/ \E t \in Tenants : Receive(r, "connect", "exchange", t)
     \/ Receive(r, "access", "read", None)
     \/ Receive(r, "disconnect", "delete", None)
  /\ StoreReads

ConnectionsNext ==
  \/ \E r \in Requests :
       \/ ReceiveConnection(r)
       \/ ExchangeCode(r) \/ ReadConnection(r) \/ RefreshTokens(r)
       \/ StoreConnection(r) \/ Disconnect(r)
       \/ Die(r) /\ StoreReads
  \/ AccessExpires

allVars == <<request, crashes, connectionVars>>
ConnectionsSpec == RequestsInit /\ ConnectionsInit /\ [][ConnectionsNext]_allVars

-----------------------------------------------------------------------------
(* Property *)

Refreshing == \E r \in Requests : At(r, "access", "store")

\* However refreshes, new connections and disconnections of a company overlap, the stored
\* refresh token is one the provider still honours, unless its successor is about to be
\* stored or was lost with a request that died; and it belongs to the organization the
\* connection names, so figures are never read from another one (oauth-connect.ts:168).
ConnectionKeepsWorking ==
  connection # None =>
    /\ connection.refresh.tenant = connection.tenant
    /\ connection.refresh \in honoured \/ Refreshing \/ crashes > 0

=============================================================================
