----------------------------- MODULE ReviewPacks -----------------------------
(***************************************************************************)
(* Saved review packs of one company and period: lib/pack-lifecycle.ts     *)
(* over lib/pack-store-firestore.ts, with the receipts they cite (module   *)
(* ReviewDocuments), retention and erasure (lib/retention.ts,              *)
(* lib/data-rights.ts).                                                    *)
(*                                                                         *)
(* A pack is not stored: the statement and the human decisions are, and    *)
(* the pack is rebuilt from them, so its content is a function of its      *)
(* record and of the rules the company has learned.  Every edit reads the  *)
(* record, awaits, and commits only against the revision it read.          *)
(***************************************************************************)
EXTENDS ReviewDocuments, FiniteSetsExt

CONSTANTS
  Packs,        \* pack ids
  Txs,          \* transactions of the statement, of different merchants
  Cats,         \* categories a reviewer may choose
  BuiltInRule,  \* the category the rule pack gives a transaction, or None
  OpenDays, SignedDays,   \* retention of open and of signed-off packs
  MaxRevision   \* bound: edits of one pack

ASSUME PackAssumption ==
  /\ BuiltInRule \in [Txs -> Cats \cup {None}]
  /\ OpenDays \in Nat \ {0} /\ SignedDays \in Nat \ {0}
  /\ MaxRevision \in Nat
  /\ None \notin Cats /\ \A receipts \in SUBSET Docs : receipts # None
  /\ None \notin {"learn", "keep", "keepInput"}

VARIABLES
  pack,     \* finclose_prod_review_packs
  input,    \* finclose_prod_review_pack_inputs: its expiry
  created,  \* the pack ids ever used
  learned   \* finclose_prod_learned_rules: merchant -> category

packVars == <<pack, input, created, learned>>
vars == <<docVars, packVars, serverVars, req>>

\* What a pack is rebuilt as.  The hash a reviewer sees stands for it.
Content(record) ==
  [category |-> [t \in Txs |-> IF record.fixes[t] # None THEN record.fixes[t]
                               ELSE IF learned[t] # None THEN learned[t]
                               ELSE BuiltInRule[t]],
   answers |-> record.answers]

HasHighException(content) == \E t \in Txs : content.category[t] = None

Cited(record) == UNION {record.answers[t] : t \in {u \in Txs : record.answers[u] # None}}

PackReads == Reads /\ UNCHANGED packVars
SetPack(p, record) ==
  /\ pack' = [pack EXCEPT ![p] = record]
  /\ UNCHANGED <<created, learned>>

-----------------------------------------------------------------------------
(* createPack *)

Live == {p \in Packs : pack[p] # None}

\* A bug to catch: the packs no longer OPEN are forgotten.
NextOpenVersion == Max({0} \cup {pack[p].version : p \in {l \in Live : pack[l].status = "OPEN"}}) + 1

NextVersion == Max({0} \cup {pack[p].version : p \in Live}) + 1

ListPacks(r) ==
  /\ At(r, "list")
  /\ Goto(r, "insert",
          [req[r] EXCEPT !.version = NextVersion,
                         !.todo = {<<p, pack[p].revision>> :
                                     p \in {l \in Live : pack[l].status = "OPEN"}}])
  /\ PackReads

InsertPack(r) ==
  LET q == req[r] IN
  /\ At(r, "insert")
  /\ \E p \in Packs \ created :
       /\ pack' = [pack EXCEPT ![p] =
                     [status |-> "OPEN", version |-> q.version, revision |-> 1,
                      answers |-> [t \in Txs |-> None], fixes |-> [t \in Txs |-> None],
                      expires |-> q.until, signed |-> None]]
       /\ input' = [input EXCEPT ![p] = q.until]
       /\ created' = created \cup {p}
  /\ Goto(r, "supersede", q)
  /\ UNCHANGED <<learned, docVars, serverVars>>

\* A bug to catch: a whole record is written over whatever is stored.
CurrentAnyway(p, revision) == pack[p] # None

\* The transaction of store.update commits.
Current(p, revision) == pack[p] # None /\ pack[p].revision = revision

\* The packs that were OPEN when listed; one edited since stays OPEN.
Supersede(r) ==
  LET q == req[r] IN
  /\ At(r, "supersede")
  /\ \/ /\ q.todo = {}
        /\ Answer(r)
        /\ UNCHANGED packVars
     \/ \E old \in q.todo :
          /\ IF Current(old[1], old[2])
             THEN SetPack(old[1], [pack[old[1]] EXCEPT !.status = "SUPERSEDED",
                                                       !.revision = @ + 1])
             ELSE UNCHANGED <<pack, created, learned>>
          /\ UNCHANGED input
          /\ Goto(r, "supersede", [q EXCEPT !.todo = @ \ {old}])
  /\ UNCHANGED <<docVars, serverVars>>

-----------------------------------------------------------------------------
(* recordOwnerAnswer, recordCorrection, signOffPack *)

\* load and assertOpen: not there, expired (410) or closed (409) is refused.
LoadPack(r) ==
  LET q == req[r]
      v == pack[q.p]
      next == CASE q.op = "answer" /\ q.d # None -> "linkable"
                [] q.op = "sign" -> "check"
                [] OTHER -> "update"
  IN
  /\ At(r, "load")
  /\ IF v # None /\ input[q.p] # None /\ v.expires >= now /\ v.status = "OPEN"
     THEN Goto(r, next, [q EXCEPT !.view = v])
     ELSE Answer(r)
  /\ PackReads

AssertLinkable(r) ==
  /\ At(r, "linkable")
  /\ IF Linkable(req[r].d) THEN Goto(r, "update", req[r]) ELSE Answer(r)
  /\ PackReads

\* What the request makes of the record it read.
Edited(q) ==
  CASE q.op = "answer"  -> [q.view EXCEPT !.revision = @ + 1,
                                          !.answers[q.t] = {q.d} \ {None}]
    [] q.op = "correct" -> [q.view EXCEPT !.revision = @ + 1, !.fixes[q.t] = q.cat]
    [] q.op = "sign"    -> [q.view EXCEPT !.revision = @ + 1, !.status = "SIGNED_OFF",
                                          !.expires = q.until, !.signed = q.seen]

AfterUpdate(q) ==
  CASE q.op = "answer" /\ q.d # None -> "keep"
    [] q.op = "correct" /\ q.remember -> "learn"
    [] q.op = "sign" -> IF q.until # q.view.expires THEN "keepInput" ELSE "keep"
    [] OTHER -> None

UpdatePack(r) ==
  LET q == req[r] IN
  /\ At(r, "update")
  /\ IF Current(q.p, q.view.revision)
     THEN /\ SetPack(q.p, Edited(q))
          /\ IF AfterUpdate(q) = None THEN Answer(r)
             ELSE Goto(r, AfterUpdate(q),
                       [q EXCEPT !.todo = IF q.op = "sign" THEN Cited(q.view) ELSE {q.d},
                                 !.until = Edited(q).expires])
     ELSE Answer(r) /\ UNCHANGED <<pack, created, learned>>
  /\ UNCHANGED <<input, docVars, serverVars>>

\* addLearnedRule: the latest rule for the merchant, for every pack from now on.
Learn(r) ==
  /\ At(r, "learn")
  /\ learned' = [learned EXCEPT ![req[r].t] = req[r].cat]
  /\ Answer(r)
  /\ UNCHANGED <<pack, input, created, docVars, serverVars>>

\* A bug to catch: the retention of a signed-off pack starts over.
KeepFromSignOff(expires) == now + SignedDays

\* Sign-off only ever lengthens retention.
KeepUntil(expires) == Max({expires, now + SignedDays})

\* A bug to catch: the hash the reviewer sends is not compared.
AcceptableAnyway(q) == ~HasHighException(Content(q.view))

\* The reviewer accepts what was seen, and no HIGH exception is open.
Acceptable(q) == q.seen = Content(q.view) /\ ~HasHighException(q.seen)

CheckSignOff(r) ==
  LET q == req[r] IN
  /\ At(r, "check")
  /\ IF Acceptable(q)
     THEN Goto(r, "update", [q EXCEPT !.until = KeepUntil(q.view.expires)])
     ELSE Answer(r)
  /\ PackReads

\* A bug to catch: the statement is kept as long as before.
KeepInputAsItWas(r) ==
  /\ At(r, "keepInput")
  /\ Goto(r, "keep", req[r])
  /\ UNCHANGED <<packVars, docVars, serverVars>>

\* The stored statement follows, outside the transaction.
KeepInput(r) ==
  /\ At(r, "keepInput")
  /\ input' = [input EXCEPT ![req[r].p] = req[r].until]
  /\ Goto(r, "keep", req[r])
  /\ UNCHANGED <<pack, created, learned, docVars, serverVars>>

-----------------------------------------------------------------------------
(* deletePack, purgeAllExpired, eraseCompanyData *)

RemovePack(p) ==
  /\ pack' = [pack EXCEPT ![p] = None]
  /\ input' = [input EXCEPT ![p] = None]
  /\ UNCHANGED <<created, learned>>

DeletePack(p) ==
  /\ "delete" \in Ops
  /\ pack[p] # None
  /\ RemovePack(p)
  /\ UNCHANGED <<docVars, serverVars, req>>

\* A purge takes what had expired when it began, an erasure everything.
Doomed(q, expires) == q.op = "erase" \/ expires < q.until

ListDoomedPacks(r) ==
  LET q == req[r]
      doomed == {p \in Live : Doomed(q, pack[p].expires)}
  IN
  /\ At(r, "listPacks")
  /\ Goto(r, IF doomed = {} THEN "listDocs" ELSE "deletePacks", [q EXCEPT !.todo = doomed])
  /\ PackReads

\* An erasure lists again until nothing is listed, a purge goes on.
DeleteDoomedPack(r) ==
  LET q == req[r] IN
  /\ At(r, "deletePacks")
  /\ \E p \in q.todo :
       /\ RemovePack(p)
       /\ Goto(r, IF q.todo # {p} THEN "deletePacks"
                  ELSE IF q.op = "erase" THEN "listPacks" ELSE "listDocs",
               [q EXCEPT !.todo = @ \ {p}])
  /\ UNCHANGED <<docVars, serverVars>>

ListDoomedDocuments(r) ==
  LET q == req[r] IN
  /\ At(r, "listDocs")
  /\ Goto(r, "deleteBytes",
          [q EXCEPT !.todo = {d \in Docs : doc[d] # None /\ Doomed(q, doc[d].expires)}])
  /\ PackReads

\* A bug to catch: an erasure leaves what was learned.
FinishAsPurge(r) ==
  /\ At(r, "deleteBytes") /\ req[r].todo = {}
  /\ Answer(r)
  /\ UNCHANGED <<packVars, docVars, serverVars>>

\* No document is left to delete; an erasure forgets the learned rules, too.
Finish(r) ==
  /\ At(r, "deleteBytes") /\ req[r].todo = {}
  /\ learned' = IF req[r].op = "erase" THEN [t \in Txs |-> None] ELSE learned
  /\ Answer(r)
  /\ UNCHANGED <<pack, input, created, docVars, serverVars>>

-----------------------------------------------------------------------------

Init ==
  /\ DocumentInit
  /\ pack = [p \in Packs |-> None]
  /\ input = [p \in Packs |-> None]
  /\ created = {}
  /\ learned = [t \in Txs |-> None]

\* Edits of packs the user has seen; a sign-off carries the content seen.
StartPack(r) ==
  \/ /\ IdsLeft(Packs \ created, "create")
     /\ Begin(r, "create", "list", [IdleRequest EXCEPT !.until = now + OpenDays])
  \/ \E p \in Live :
       LET edit == [IdleRequest EXCEPT !.p = p] IN
       /\ pack[p].revision < MaxRevision
       /\ \/ \E t \in Txs, d \in minted \cup {None} :
               Begin(r, "answer", "load", [edit EXCEPT !.t = t, !.d = d])
          \/ \E t \in Txs, c \in Cats, remember \in BOOLEAN :
               Begin(r, "correct", "load",
                     [edit EXCEPT !.t = t, !.cat = c, !.remember = remember])
          \/ Begin(r, "sign", "load", [edit EXCEPT !.seen = Content(pack[p])])
  \/ Begin(r, "purge", "listPacks", [IdleRequest EXCEPT !.until = now])
  \/ Begin(r, "erase", "listPacks", IdleRequest)

PackStep(r) ==
  \/ ListPacks(r) \/ InsertPack(r) \/ Supersede(r)
  \/ LoadPack(r) \/ AssertLinkable(r) \/ UpdatePack(r) \/ Learn(r)
  \/ CheckSignOff(r) \/ KeepInput(r)
  \/ ListDoomedPacks(r) \/ DeleteDoomedPack(r) \/ ListDoomedDocuments(r) \/ Finish(r)

\* The process dies or is cut off between two awaits; what is stored stays.
Crash(r) ==
  /\ req[r].op # "none"
  /\ crashes < MaxCrashes
  /\ crashes' = crashes + 1
  /\ Answer(r)
  /\ UNCHANGED <<mode, now, docVars, packVars>>

Tick ==
  /\ now < MaxTime
  /\ now' = now + 1
  /\ UNCHANGED <<mode, crashes, docVars, packVars, req>>

Next ==
  \/ \E r \in Requests :
       \/ (StartDocument(r) \/ StartPack(r) \/ DocumentStep(r)) /\ UNCHANGED packVars
       \/ PackStep(r)
       \/ Crash(r)
  \/ \E p \in Packs : DeletePack(p)
  \/ Tick

Spec == Init /\ [][Next]_vars

-----------------------------------------------------------------------------
(* Properties *)

\* What is signed off is locked: until it is deleted, no edit that was in flight
\* and no newer version changes a signed-off record.
SignedOffIsLocked ==
  [][\A p \in Packs : pack[p] # None /\ pack'[p] # None /\ pack[p].status = "SIGNED_OFF"
                      => pack'[p] = pack[p]]_vars

\* No edit loses another's: a transaction once answered or corrected stays so,
\* whoever else saves the same pack.
DecisionsAreKept ==
  [][\A p \in Packs, t \in Txs : pack[p] # None /\ pack'[p] # None =>
       /\ pack[p].answers[t] # None => pack'[p].answers[t] # None
       /\ pack[p].fixes[t] # None => pack'[p].fixes[t] # None]_vars

\* No save, from however old a read, undoes what people decided about a pack.
EditsLoseNothing == SignedOffIsLocked /\ DecisionsAreKept

\* The accepted content holds the record's own decisions, all of them: nothing
\* slips in between the reviewer's look and the sign-off.
SignedDecisionsAreTheRecords ==
  \A p \in Live : pack[p].signed # None =>
    /\ pack[p].signed.answers = pack[p].answers
    /\ \A t \in Txs : pack[p].fixes[t] # None =>
                        pack[p].signed.category[t] = pack[p].fixes[t]

\* Sign-off, superseding and editing never shorten how long a pack is kept.
RetentionNeverShortens ==
  [][\A p \in Packs : pack[p] # None /\ pack'[p] # None
                      => pack'[p].expires >= pack[p].expires]_vars

AtRest == crashes = 0 /\ \A r \in Requests : req[r] = IdleRequest

\* At rest every pack that is kept has its statement and every receipt it cites,
\* kept at least as long.  (A crash or a second request in between breaks this.)
KeptPackIsComplete ==
  AtRest => \A p \in Live :
    /\ input[p] # None /\ input[p] >= pack[p].expires
    /\ \A d \in Cited(pack[p]) : doc[d] # None /\ doc[d].expires >= pack[p].expires

\* Files and records are deleted and kept together: a file with a record, a statement
\* and its receipts with their pack.
FilesAreKeptTogether == FilesHaveRecords /\ KeptPackIsComplete

\* Versions number the packs of a period, and at rest only the latest is OPEN.
VersionsAreDistinct ==
  /\ \A p, q \in Live : pack[p].version = pack[q].version => p = q
  /\ AtRest => \A p, q \in Live :
                 pack[p].status = "OPEN" /\ pack[q].version > pack[p].version => FALSE

\* An erasure that runs undisturbed to its end leaves nothing of the company.
ErasureIsComplete ==
  [][\A r \in Requests : req[r].op = "erase" /\ At(r, "deleteBytes") /\ req'[r] = IdleRequest
       /\ crashes' = crashes
       => Live' = {} /\ doc' = [d \in Docs |-> None] /\ learned' = [t \in Txs |-> None]]_vars

\* What an accountant accepted stays what the pack shows.
SignedContentIsFixed ==
  \A p \in Live : pack[p].status = "SIGNED_OFF" => Content(pack[p]) = pack[p].signed

=============================================================================
