--------------------------- MODULE ReviewDocuments ---------------------------
(***************************************************************************)
(* Receipts and invoices that back a review pack: lib/document-intake.ts   *)
(* over lib/document-store-firebase.ts.  The metadata of a document is one *)
(* Firestore document and its file one Cloud Storage object; a request     *)
(* touches them await by await, and what it writes is mostly the whole     *)
(* record as it read it before.                                            *)
(*                                                                         *)
(* Left out of a record: name, size, reviewer, note, scan engine and the   *)
(* fields read from the receipt.  Module ReviewPacks composes this module  *)
(* with the packs that cite the documents.                                 *)
(***************************************************************************)
EXTENDS Integers, FiniteSets

CONSTANTS
  Users,        \* who uploads and reviews
  Files,        \* contents, by SHA-256
  Docs,         \* document ids
  Modes,        \* "LAB", or the quarantine mode of a real-data deployment
  DocumentDays, \* retention of a document
  MaxTime,      \* bound: days that pass
  Requests,     \* requests the server may have in flight at once
  MaxCrashes,   \* bound: requests that may die half-way
  Ops,          \* the operations the users call
  None

ASSUME DocumentAssumption ==
  /\ Modes \subseteq {"LAB", "MANUAL_REVIEW", "SCANNER", "BLOCK"}
  /\ DocumentDays \in Nat \ {0}
  /\ MaxTime \in Nat /\ MaxCrashes \in Nat

VARIABLES
  mode,     \* how uploads are cleared
  now,      \* Date.now(), in days
  doc,      \* finclose_prod_documents
  bytes,    \* the documents whose file is in Cloud Storage
  minted,   \* the document ids ever recorded
  req, crashes

docVars == <<doc, bytes, minted>>
serverVars == <<mode, now, crashes>>

Statuses == {"QUARANTINED", "CLEAN", "REJECTED"}

\* Nothing there is neither a day nor a record.
ASSUME NoneAssumption ==
  /\ None \notin Nat
  /\ None \notin [status : Statuses, file : Files, by : Users, expires : Nat]

-----------------------------------------------------------------------------
(* Requests *)

IdleRequest == [op |-> "none", at |-> "idle", user |-> None, file |-> None, d |-> None,
                rec |-> None, p |-> None, t |-> None, cat |-> None, remember |-> FALSE,
                seen |-> None, view |-> None, version |-> 0, until |-> 0, todo |-> {}]

At(r, label) == req[r].at = label
Goto(r, label, registers) == req' = [req EXCEPT ![r] = [registers EXCEPT !.at = label]]
Answer(r) == req' = [req EXCEPT ![r] = IdleRequest]

Begin(r, op, label, registers) ==
  /\ op \in Ops
  /\ req[r] = IdleRequest
  /\ req' = [req EXCEPT ![r] = [registers EXCEPT !.op = op, !.at = label]]
  /\ UNCHANGED <<docVars, serverVars>>

\* Bound: ids are random and never run out, so no request begins that would run out.
IdsLeft(ids, op) == Cardinality(ids) > Cardinality({r \in Requests : req[r].op = op})

\* A read, or a refusal: only the request moves on.
Reads == UNCHANGED <<docVars, serverVars>>

SetDocument(d, record) ==
  /\ doc' = [doc EXCEPT ![d] = record]
  /\ UNCHANGED <<bytes, minted, serverVars>>

-----------------------------------------------------------------------------
(* uploadDocument *)

KnownFile(f) == \E d \in Docs : doc[d] # None /\ doc[d].file = f

FindBySha(r) ==
  /\ At(r, "find")
  /\ IF KnownFile(req[r].file) THEN Answer(r) ELSE Goto(r, "save", req[r])
  /\ Reads

SaveBytes(r) ==
  /\ At(r, "save")
  /\ \E d \in Docs \ (bytes \cup minted) :
       /\ bytes' = bytes \cup {d}
       /\ Goto(r, "create", [req[r] EXCEPT !.d = d])
  /\ UNCHANGED <<doc, minted, serverVars>>

\* In LAB an upload is CLEAN at once; in SCANNER mode the route scans it next.
CreateDocument(r) ==
  LET q == req[r] IN
  /\ At(r, "create")
  /\ doc' = [doc EXCEPT ![q.d] =
               [status |-> IF mode = "LAB" THEN "CLEAN" ELSE "QUARANTINED",
                file |-> q.file, by |-> q.user, expires |-> q.until]]
  /\ minted' = minted \cup {q.d}
  /\ CASE mode = "LAB"     -> Goto(r, "readGet", q)
       [] mode = "SCANNER" -> Goto(r, "scanGet", q)
       [] OTHER            -> Answer(r)
  /\ UNCHANGED <<bytes, serverVars>>

-----------------------------------------------------------------------------
(* reviewDocument, scanDocument and readDocument *)

Reviewable(d) == doc[d] # None /\ doc[d].status = "QUARANTINED"

\* Only a person other than the uploader decides, and only in MANUAL_REVIEW mode.
ReviewGet(r) ==
  LET q == req[r] IN
  /\ At(r, "reviewGet")
  /\ IF mode = "MANUAL_REVIEW" /\ Reviewable(q.d) /\ doc[q.d].by # q.user
     THEN \E decision \in {"CLEAN", "REJECTED"} :
            Goto(r, "setReview", [q EXCEPT !.rec = [doc[q.d] EXCEPT !.status = decision]])
     ELSE Answer(r)
  /\ Reads

\* A document decided already is answered, and read if it is CLEAN and was not.
ScanGet(r) ==
  LET q == req[r] IN
  /\ At(r, "scanGet")
  /\ \/ /\ mode = "SCANNER" /\ Reviewable(q.d)
        /\ Goto(r, "scanBytes", [q EXCEPT !.rec = doc[q.d]])
     \/ /\ mode = "SCANNER" /\ doc[q.d] # None
        /\ doc[q.d].status = "CLEAN"
        /\ Goto(r, "readGet", q)
     \/ /\ ~(mode = "SCANNER" /\ Reviewable(q.d))
        /\ Answer(r)
  /\ Reads

\* The scanner finds the file clean or infected, or fails: then it stays as it was.
ScanBytes(r) ==
  LET q == req[r] IN
  /\ At(r, "scanBytes")
  /\ IF q.d \in bytes
     THEN \E verdict \in Statuses :
            Goto(r, "setReview", [q EXCEPT !.rec = [q.rec EXCEPT !.status = verdict]])
     ELSE Answer(r)
  /\ Reads

\* The whole record is set, as it was read with the decision; a clean file is read.
SetReview(r) ==
  LET q == req[r] IN
  /\ At(r, "setReview")
  /\ SetDocument(q.d, q.rec)
  /\ IF q.rec.status = "CLEAN" THEN Goto(r, "readGet", q) ELSE Answer(r)

ReadGet(r) ==
  LET q == req[r] IN
  /\ At(r, "readGet")
  /\ IF doc[q.d] # None /\ doc[q.d].status = "CLEAN"
     THEN Goto(r, "readBytes", [q EXCEPT !.rec = doc[q.d]])
     ELSE Answer(r)
  /\ Reads

ReadBytes(r) ==
  LET q == req[r] IN
  /\ At(r, "readBytes")
  /\ IF q.d \in bytes THEN Goto(r, "setRead", q) ELSE Answer(r)
  /\ Reads

SetRead(r) ==
  /\ At(r, "setRead")
  /\ SetDocument(req[r].d, req[r].rec)
  /\ Answer(r)

-----------------------------------------------------------------------------
(* assertLinkable, and the store's extendExpiry and delete *)

Linkable(d) == doc[d] # None /\ doc[d].status = "CLEAN"

\* A bug to catch: receipts keep the retention they were uploaded with.
ExtendNothing(d, until) == UNCHANGED doc

\* Only ever later, and only while the document exists.
ExtendExpiry(d, until) ==
  doc' = IF doc[d] # None /\ until > doc[d].expires
         THEN [doc EXCEPT ![d].expires = until] ELSE doc

\* keepDocumentsUntil: one document after the other.
Keep(r) ==
  LET q == req[r] IN
  /\ At(r, "keep")
  /\ \/ /\ q.todo = {}
        /\ Answer(r)
        /\ UNCHANGED doc
     \/ \E d \in q.todo :
          /\ ExtendExpiry(d, q.until)
          /\ Goto(r, "keep", [q EXCEPT !.todo = @ \ {d}])
  /\ UNCHANGED <<bytes, minted, serverVars>>

\* The file goes first, so that a record never hides a file from the next purge.
DeleteBytes(r) ==
  LET q == req[r] IN
  /\ At(r, "deleteBytes")
  /\ \E d \in q.todo :
       /\ bytes' = bytes \ {d}
       /\ Goto(r, "deleteRecord", [q EXCEPT !.d = d])
  /\ UNCHANGED <<doc, minted, serverVars>>

DeleteRecord(r) ==
  LET q == req[r] IN
  /\ At(r, "deleteRecord")
  /\ SetDocument(q.d, None)
  /\ Goto(r, "deleteBytes", [q EXCEPT !.todo = @ \ {q.d}])

-----------------------------------------------------------------------------

DocumentInit ==
  /\ mode \in Modes
  /\ now = 0
  /\ doc = [d \in Docs |-> None]
  /\ bytes = {}
  /\ minted = {}
  /\ req = [r \in Requests |-> IdleRequest]
  /\ crashes = 0

StartDocument(r) ==
  \/ \E u \in Users, f \in Files :
       /\ mode # "BLOCK"
       /\ IdsLeft(Docs \ (bytes \cup minted), "upload")
       /\ Begin(r, "upload", "find",
                [IdleRequest EXCEPT !.user = u, !.file = f, !.until = now + DocumentDays])
  \/ \E u \in Users, d \in minted :
       Begin(r, "review", "reviewGet", [IdleRequest EXCEPT !.user = u, !.d = d])
  \/ \E d \in minted : \/ Begin(r, "scan", "scanGet", [IdleRequest EXCEPT !.d = d])
                       \/ Begin(r, "read", "readGet", [IdleRequest EXCEPT !.d = d])

DocumentStep(r) ==
  \/ FindBySha(r) \/ SaveBytes(r) \/ CreateDocument(r)
  \/ ReviewGet(r) \/ ScanGet(r) \/ ScanBytes(r) \/ SetReview(r)
  \/ ReadGet(r) \/ ReadBytes(r) \/ SetRead(r)
  \/ Keep(r) \/ DeleteBytes(r) \/ DeleteRecord(r)

-----------------------------------------------------------------------------
(* Properties *)

\* A recorded file never outlives its record: what a purge or an erasure removed from
\* Firestore is gone from Cloud Storage, which no expiry policy of Firestore reaches.
FilesHaveRecords == \A d \in bytes \cap minted : doc[d] # None

=============================================================================
