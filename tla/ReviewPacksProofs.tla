--------------------------- MODULE ReviewPacksProofs ---------------------------
(***************************************************************************)
(* Proofs about ReviewPacks for any number of requests, packs,             *)
(* transactions, documents and categories.  The first part is what the     *)
(* check of a record's revision at commit is worth, whatever a request     *)
(* read and however long ago.  The second is about the stores that no      *)
(* revision protects: files and their records stay together however        *)
(* requests interleave and die, and statements and receipts with their     *)
(* packs, and versions apart, while requests run one after the other.      *)
(***************************************************************************)
EXTENDS ReviewPacks, WellFoundedInduction, TLAPS

\* The registers of a request, and the fields of a pack's record.
IsRequest(q) ==
  q = [op |-> q.op, at |-> q.at, user |-> q.user, file |-> q.file, d |-> q.d, rec |-> q.rec,
       p |-> q.p, t |-> q.t, cat |-> q.cat, remember |-> q.remember, seen |-> q.seen,
       view |-> q.view, version |-> q.version, until |-> q.until, todo |-> q.todo]

IsRecord(v) ==
  /\ v = [status |-> v.status, version |-> v.version, revision |-> v.revision,
          answers |-> v.answers, fixes |-> v.fixes, expires |-> v.expires, signed |-> v.signed]
  /\ v.revision \in Nat /\ v.expires \in Nat
  /\ v.answers = [t \in Txs |-> v.answers[t]]
  /\ v.fixes = [t \in Txs |-> v.fixes[t]]

\* That content holds the decisions of that record.
Holds(content, v) ==
  /\ content.answers = v.answers
  /\ \A t \in Txs : v.fixes[t] # None => content.category[t] = v.fixes[t]

RecordIsGood(v) ==
  /\ IsRecord(v)
  /\ v.status = "OPEN" => v.signed = None
  /\ v.signed # None => Holds(v.signed, v)

RecordsAreGood ==
  /\ DOMAIN pack = Packs /\ created \subseteq Packs
  /\ \A p \in Packs : pack[p] # None => p \in created /\ RecordIsGood(pack[p])

\* A pack that was OPEN at that revision still is, or has a later one, or is gone.
WasOpen(packs, used, p, revision) ==
  /\ p \in used /\ revision \in Nat
  /\ packs[p] # None =>
       /\ revision <= packs[p].revision
       /\ revision = packs[p].revision => packs[p].status = "OPEN"

\* What was read of an OPEN pack is what is stored, unless a later revision is.
WasRead(packs, used, p, v) ==
  /\ p \in used /\ IsRecord(v) /\ v.status = "OPEN"
  /\ packs[p] # None =>
       /\ v.revision <= packs[p].revision
       /\ v.revision = packs[p].revision => packs[p] = v

\* An edit is of a pack and a transaction there are, with a receipt or category there is.
EditIsWellFormed(q) ==
  /\ q.p \in Packs
  /\ \/ q.op = "answer" /\ q.t \in Txs /\ q.d \in Docs \cup {None}
     \/ q.op = "correct" /\ q.t \in Txs /\ q.cat \in Cats
     \/ q.op = "sign"

\* What was accepted holds the decisions of the record that was read.
SignOffIsChecked(q) ==
  /\ q.until \in Nat /\ q.until >= q.view.expires
  /\ Holds(q.seen, q.view)

\* What a request may rely on, given the packs stored and the ids ever used.
RequestIsGood(packs, used, q) ==
  /\ IsRequest(q)
  /\ q.at = "create" => q.d \in Docs
  /\ q.at \in {"list", "insert"} => q.until \in Nat
  /\ q.at \in {"insert", "supersede"} =>
       \A old \in q.todo : WasOpen(packs, used, old[1], old[2])
  /\ q.at \in {"load", "linkable", "check", "update"} => EditIsWellFormed(q)
  /\ q.at \in {"linkable", "check", "update"} => WasRead(packs, used, q.p, q.view)
  /\ q.at = "linkable" => q.op # "sign"
  /\ q.at = "update" /\ q.op = "sign" => SignOffIsChecked(q)

RequestsAreGood ==
  /\ DOMAIN req = Requests
  /\ \A r \in Requests : RequestIsGood(pack, created, req[r])

PacksInv ==
  /\ now \in Nat /\ minted \subseteq Docs
  /\ RecordsAreGood
  /\ RequestsAreGood

\* What a step may do to a pack: nothing, delete it, create it under a new id, or save the
\* next revision of one that is OPEN, keeping its decisions and its retention.
KeepsDecisions(old, new) ==
  /\ new.expires >= old.expires
  /\ \A t \in Txs : /\ old.answers[t] # None => new.answers[t] # None
                    /\ old.fixes[t] # None => new.fixes[t] # None

Progress(p) ==
  \/ pack'[p] = pack[p]
  \/ pack'[p] = None
  \/ p \notin created
  \/ /\ pack[p] # None /\ pack[p].status = "OPEN"
     /\ pack'[p].revision = pack[p].revision + 1
     /\ KeepsDecisions(pack[p], pack'[p])

Safe == PacksInv' /\ \A p \in Packs : Progress(p)

-----------------------------------------------------------------------------
(* How a step moves its request *)

SameRegisters(m, q) ==
  /\ m.d = q.d /\ m.p = q.p /\ m.t = q.t /\ m.cat = q.cat /\ m.seen = q.seen
  /\ m.view = q.view /\ m.until = q.until /\ m.todo = q.todo
  /\ m.user = q.user /\ m.file = q.file /\ m.rec = q.rec /\ m.version = q.version

MovesTo(r, m) == req' = [req EXCEPT ![r] = m]

\* A request that goes on, at that label with those registers.
LEMMA GotoMoves ==
  ASSUME NEW r, NEW label, NEW q, IsRequest(q), Goto(r, label, q)
  PROVE  \E m : /\ MovesTo(r, m) /\ IsRequest(m) /\ m.at = label
                /\ m.op = q.op /\ SameRegisters(m, q)
<1> DEFINE m == [q EXCEPT !.at = label]
<1>1. m = [op |-> q.op, at |-> label, user |-> q.user, file |-> q.file, d |-> q.d,
           rec |-> q.rec, p |-> q.p, t |-> q.t, cat |-> q.cat, remember |-> q.remember,
           seen |-> q.seen, view |-> q.view, version |-> q.version, until |-> q.until,
           todo |-> q.todo]
  BY DEF IsRequest
<1>2. MovesTo(r, m)
  BY DEF Goto, MovesTo
<1> HIDE DEF m
<1>3. IsRequest(m) /\ m.at = label /\ m.op = q.op /\ SameRegisters(m, q)
  BY <1>1 DEF IsRequest, SameRegisters
<1>4. QED  BY <1>2, <1>3

\* A request that begins.
LEMMA BeginMoves ==
  ASSUME NEW r, NEW op, NEW label, NEW q, IsRequest(q), Begin(r, op, label, q)
  PROVE  /\ UNCHANGED <<docVars, serverVars>>
         /\ \E m : /\ MovesTo(r, m) /\ IsRequest(m) /\ m.at = label
                   /\ m.op = op /\ SameRegisters(m, q)
<1> DEFINE n == [q EXCEPT !.op = op]
<1> DEFINE m == [n EXCEPT !.at = label]
<1>1. m = [q EXCEPT !.op = op, !.at = label]
  BY DEF IsRequest
<1>2. MovesTo(r, m) /\ UNCHANGED <<docVars, serverVars>>
  BY <1>1 DEF Begin, MovesTo
<1>3. IsRequest(n) /\ n.op = op /\ SameRegisters(n, q)
  BY DEF IsRequest, SameRegisters
<1> HIDE DEF n
<1>4. IsRequest(m) /\ m.at = label /\ m.op = n.op /\ SameRegisters(m, n)
  BY <1>3 DEF IsRequest, SameRegisters
<1> HIDE DEF m
<1>5. QED  BY <1>2, <1>3, <1>4 DEF SameRegisters

\* An idle request has the registers of one.
LEMMA IdleIsRequest == IsRequest(IdleRequest) /\ IdleRequest.at = "idle"
BY DEF IsRequest, IdleRequest

\* One that is answered is idle.
LEMMA AnswerMoves ==
  ASSUME NEW r, Answer(r)
  PROVE  MovesTo(r, IdleRequest) /\ IsRequest(IdleRequest) /\ IdleRequest.at = "idle"
BY IdleIsRequest DEF Answer, MovesTo

\* Where a request relies on what it read or was given.
Demanding == {"create", "list", "insert", "supersede", "load", "linkable", "check", "update"}

\* Elsewhere a request relies on nothing.
LEMMA RestIsGood ==
  ASSUME NEW q, IsRequest(q), q.at \notin Demanding, NEW packs, NEW used
  PROVE  RequestIsGood(packs, used, q)
BY DEF RequestIsGood, Demanding

-----------------------------------------------------------------------------
(* What a step of one request leaves to the others *)

\* What was read of a pack is outdated by the packs' progress, never contradicted.
LEMMA ReadsStayGood ==
  ASSUME RecordsAreGood, created \subseteq created', \A p \in Packs : Progress(p), NEW p
  PROVE  /\ \A revision : WasOpen(pack, created, p, revision)
                            => WasOpen(pack', created', p, revision)
         /\ \A v : WasRead(pack, created, p, v) => WasRead(pack', created', p, v)
<1>1. CASE p \notin created
  BY <1>1 DEF WasOpen, WasRead
<1>2. CASE p \in created
  <2>1. p \in Packs /\ p \in created'
    BY <1>2 DEF RecordsAreGood
  <2>2. pack'[p] # None =>
          \/ pack'[p] = pack[p]
          \/ /\ pack[p] # None /\ pack[p].revision \in Nat
             /\ pack'[p].revision = pack[p].revision + 1
    BY <1>2, <2>1 DEF Progress, RecordsAreGood, RecordIsGood, IsRecord
  <2>3. ASSUME NEW revision, WasOpen(pack, created, p, revision)
        PROVE  WasOpen(pack', created', p, revision)
    BY <2>1, <2>2, <2>3 DEF WasOpen
  <2>4. ASSUME NEW v, WasRead(pack, created, p, v)
        PROVE  WasRead(pack', created', p, v)
    <3>1. v.revision \in Nat /\ IsRecord(v) /\ v.status = "OPEN"
      BY <2>4 DEF WasRead, IsRecord
    <3>2. pack[p] # None => /\ v.revision <= pack[p].revision
                            /\ v.revision = pack[p].revision => pack[p] = v
      BY <2>4 DEF WasRead
    <3>3. pack'[p] # None => /\ v.revision <= pack'[p].revision
                             /\ v.revision = pack'[p].revision => pack'[p] = v
      BY <2>2, <3>1, <3>2
    <3>4. QED  BY <2>1, <3>1, <3>3 DEF WasRead
  <2>5. QED  BY <2>3, <2>4
<1>3. QED  BY <1>1, <1>2

\* A request that does not move stays good.
LEMMA RequestStaysGood ==
  ASSUME RecordsAreGood, created \subseteq created', \A p \in Packs : Progress(p),
         NEW q, RequestIsGood(pack, created, q)
  PROVE  RequestIsGood(pack', created', q)
<1>1. \A p, revision : WasOpen(pack, created, p, revision)
                         => WasOpen(pack', created', p, revision)
  BY ReadsStayGood
<1>2. \A p, v : WasRead(pack, created, p, v) => WasRead(pack', created', p, v)
  BY ReadsStayGood
<1>3. QED  BY <1>1, <1>2 DEF RequestIsGood

\* A step of one request is safe if it makes progress with the packs and leaves good
\* records and a good request behind.
LEMMA StepIsSafe ==
  ASSUME PacksInv, NEW r \in Requests, NEW m, MovesTo(r, m), created \subseteq created',
         \A p \in Packs : Progress(p), RecordsAreGood',
         RequestIsGood(pack', created', m), now' \in Nat, minted' \subseteq Docs
  PROVE  Safe
<1>1. DOMAIN req' = Requests /\ req'[r] = m /\ \A s \in Requests \ {r} : req'[s] = req[s]
  BY DEF PacksInv, RequestsAreGood, MovesTo
<1>2. ASSUME NEW s \in Requests
      PROVE  RequestIsGood(pack', created', req'[s])
  <2>1. CASE s = r
    BY <1>1, <2>1
  <2>2. CASE s # r
    <3>1. RequestIsGood(pack, created, req[s])
      BY DEF PacksInv, RequestsAreGood
    <3>2. RequestIsGood(pack', created', req[s])
      BY <3>1, RequestStaysGood DEF PacksInv
    <3>3. QED  BY <1>1, <2>2, <3>2
  <2>3. QED  BY <2>1, <2>2
<1>3. RequestsAreGood'
  BY <1>1, <1>2 DEF RequestsAreGood
<1>4. QED  BY <1>3 DEF Safe, PacksInv

\* So is one that leaves the packs alone.
LEMMA QuietStepIsSafe ==
  ASSUME PacksInv, NEW r \in Requests, NEW m, MovesTo(r, m), UNCHANGED <<pack, created>>,
         RequestIsGood(pack, created, m), now' \in Nat, minted' \subseteq Docs
  PROVE  Safe
<1>1. pack' = pack /\ created' = created
  OBVIOUS
<1>2. RecordsAreGood'
  BY <1>1 DEF PacksInv, RecordsAreGood
<1>3. \A p \in Packs : Progress(p)
  BY <1>1 DEF Progress
<1>4. QED  BY <1>1, <1>2, <1>3, StepIsSafe

\* A request that goes on, is answered or begins somewhere it relies on nothing.
LEMMA QuietGoto ==
  ASSUME PacksInv, NEW r \in Requests, NEW label, label \notin Demanding,
         NEW q, IsRequest(q), Goto(r, label, q),
         UNCHANGED <<pack, created>>, now' \in Nat, minted' \subseteq Docs
  PROVE  Safe
<1>1. PICK m : MovesTo(r, m) /\ IsRequest(m) /\ m.at = label
  BY GotoMoves
<1>2. RequestIsGood(pack, created, m)
  BY <1>1, RestIsGood
<1>3. QED  BY <1>1, <1>2, QuietStepIsSafe

\* The same of a request that is answered.
LEMMA QuietAnswer ==
  ASSUME PacksInv, NEW r \in Requests, Answer(r),
         UNCHANGED <<pack, created>>, now' \in Nat, minted' \subseteq Docs
  PROVE  Safe
<1>1. MovesTo(r, IdleRequest) /\ IsRequest(IdleRequest) /\ IdleRequest.at \notin Demanding
  BY AnswerMoves DEF Demanding
<1>2. RequestIsGood(pack, created, IdleRequest)
  BY <1>1, RestIsGood
<1>3. QED  BY <1>1, <1>2, QuietStepIsSafe

\* The same of a request that begins.
LEMMA QuietBegin ==
  ASSUME PacksInv, NEW r \in Requests, NEW op, NEW label, label \notin Demanding,
         NEW q, IsRequest(q), Begin(r, op, label, q), UNCHANGED <<pack, created>>
  PROVE  Safe
<1>1. PICK m : MovesTo(r, m) /\ IsRequest(m) /\ m.at = label
  BY BeginMoves
<1>2. RequestIsGood(pack, created, m)
  BY <1>1, RestIsGood
<1>3. now' \in Nat /\ minted' \subseteq Docs
  BY BeginMoves DEF docVars, serverVars, PacksInv
<1>4. QED  BY <1>1, <1>2, <1>3, QuietStepIsSafe

-----------------------------------------------------------------------------
(* The steps of documents, which leave the packs alone *)

\* One register is set.
LEMMA OneRegister ==
  ASSUME NEW q, IsRequest(q), NEW x
  PROVE  /\ IsRequest([q EXCEPT !.user = x]) /\ IsRequest([q EXCEPT !.file = x])
         /\ IsRequest([q EXCEPT !.d = x]) /\ IsRequest([q EXCEPT !.rec = x])
         /\ IsRequest([q EXCEPT !.view = x]) /\ IsRequest([q EXCEPT !.version = x])
         /\ IsRequest([q EXCEPT !.until = x]) /\ IsRequest([q EXCEPT !.todo = x])
         /\ IsRequest([q EXCEPT !.p = x])
BY DEF IsRequest

\* What the invariant says of one request.
LEMMA RequestsHold ==
  ASSUME PacksInv, NEW r \in Requests
  PROVE  RequestIsGood(pack, created, req[r]) /\ IsRequest(req[r])
BY DEF PacksInv, RequestsAreGood, RequestIsGood

\* No step of an upload, a review, a scan or a purge of documents touches a pack.
LEMMA DocumentStepsAreSafe ==
  ASSUME PacksInv, NEW r \in Requests, DocumentStep(r), UNCHANGED packVars
  PROVE  Safe
<1> DEFINE q == req[r]
<1>q. IsRequest(q) /\ RequestIsGood(pack, created, q)
  BY RequestsHold
<1>u. UNCHANGED <<pack, created>>
  BY DEF packVars
<1>d. now \in Nat /\ minted \subseteq Docs
  BY DEF PacksInv
<1>l. /\ "save" \notin Demanding /\ "readGet" \notin Demanding /\ "scanGet" \notin Demanding
      /\ "setReview" \notin Demanding /\ "scanBytes" \notin Demanding
      /\ "readBytes" \notin Demanding /\ "setRead" \notin Demanding /\ "keep" \notin Demanding
      /\ "deleteRecord" \notin Demanding /\ "deleteBytes" \notin Demanding
  BY DEF Demanding
<1>1. CASE FindBySha(r)
  <2>1. Answer(r) \/ Goto(r, "save", q)
    BY <1>1 DEF FindBySha
  <2>2. now' \in Nat /\ minted' \subseteq Docs
    BY <1>1, <1>d DEF FindBySha, Reads, docVars, serverVars
  <2>3. QED  BY <2>1, <2>2, <1>q, <1>u, <1>l, QuietAnswer, QuietGoto
<1>2. CASE SaveBytes(r)
  <2>1. PICK d \in Docs : Goto(r, "create", [q EXCEPT !.d = d])
    BY <1>2 DEF SaveBytes
  <2> DEFINE n == [q EXCEPT !.d = d]
  <2>2. Goto(r, "create", n) /\ IsRequest(n) /\ n.d = d
    BY <2>1, <1>q DEF IsRequest
  <2> HIDE DEF n
  <2>3. PICK m : MovesTo(r, m) /\ IsRequest(m) /\ m.at = "create" /\ m.d = d
    BY <2>2, GotoMoves DEF SameRegisters
  <2>4. RequestIsGood(pack, created, m)
    BY <2>3 DEF RequestIsGood
  <2>5. now' \in Nat /\ minted' \subseteq Docs
    BY <1>2, <1>d DEF SaveBytes, serverVars
  <2>6. QED  BY <2>3, <2>4, <2>5, <1>u, QuietStepIsSafe
<1>3. CASE CreateDocument(r)
  <2>1. Answer(r) \/ Goto(r, "readGet", q) \/ Goto(r, "scanGet", q)
    BY <1>3 DEF CreateDocument
  <2>2. q.d \in Docs
    BY <1>3, <1>q DEF CreateDocument, At, RequestIsGood
  <2>3. now' \in Nat /\ minted' \subseteq Docs
    BY <1>3, <1>d, <2>2 DEF CreateDocument, serverVars
  <2>4. QED  BY <2>1, <2>3, <1>q, <1>u, <1>l, QuietAnswer, QuietGoto
<1>4. CASE ReviewGet(r)
  <2>1. Answer(r) \/ \E x : Goto(r, "setReview", [q EXCEPT !.rec = x])
    BY <1>4 DEF ReviewGet
  <2>2. now' \in Nat /\ minted' \subseteq Docs
    BY <1>4, <1>d DEF ReviewGet, Reads, docVars, serverVars
  <2>3. QED  BY <2>1, <2>2, <1>q, <1>u, <1>l, QuietAnswer, QuietGoto, OneRegister
<1>5. CASE ScanGet(r)
  <2>1. \/ Answer(r) \/ Goto(r, "readGet", q)
        \/ \E x : Goto(r, "scanBytes", [q EXCEPT !.rec = x])
    BY <1>5 DEF ScanGet
  <2>2. now' \in Nat /\ minted' \subseteq Docs
    BY <1>5, <1>d DEF ScanGet, Reads, docVars, serverVars
  <2>3. QED  BY <2>1, <2>2, <1>q, <1>u, <1>l, QuietAnswer, QuietGoto, OneRegister
<1>6. CASE ScanBytes(r)
  <2>1. Answer(r) \/ \E x : Goto(r, "setReview", [q EXCEPT !.rec = x])
    BY <1>6 DEF ScanBytes
  <2>2. now' \in Nat /\ minted' \subseteq Docs
    BY <1>6, <1>d DEF ScanBytes, Reads, docVars, serverVars
  <2>3. QED  BY <2>1, <2>2, <1>q, <1>u, <1>l, QuietAnswer, QuietGoto, OneRegister
<1>7. CASE SetReview(r)
  <2>1. Answer(r) \/ Goto(r, "readGet", q)
    BY <1>7 DEF SetReview
  <2>2. now' \in Nat /\ minted' \subseteq Docs
    BY <1>7, <1>d DEF SetReview, SetDocument, serverVars
  <2>3. QED  BY <2>1, <2>2, <1>q, <1>u, <1>l, QuietAnswer, QuietGoto
<1>8. CASE ReadGet(r)
  <2>1. Answer(r) \/ \E x : Goto(r, "readBytes", [q EXCEPT !.rec = x])
    BY <1>8 DEF ReadGet
  <2>2. now' \in Nat /\ minted' \subseteq Docs
    BY <1>8, <1>d DEF ReadGet, Reads, docVars, serverVars
  <2>3. QED  BY <2>1, <2>2, <1>q, <1>u, <1>l, QuietAnswer, QuietGoto, OneRegister
<1>9. CASE ReadBytes(r)
  <2>1. Answer(r) \/ Goto(r, "setRead", q)
    BY <1>9 DEF ReadBytes
  <2>2. now' \in Nat /\ minted' \subseteq Docs
    BY <1>9, <1>d DEF ReadBytes, Reads, docVars, serverVars
  <2>3. QED  BY <2>1, <2>2, <1>q, <1>u, <1>l, QuietAnswer, QuietGoto
<1>10. CASE SetRead(r)
  <2>1. Answer(r)
    BY <1>10 DEF SetRead
  <2>2. now' \in Nat /\ minted' \subseteq Docs
    BY <1>10, <1>d DEF SetRead, SetDocument, serverVars
  <2>3. QED  BY <2>1, <2>2, <1>u, QuietAnswer
<1>11. CASE Keep(r)
  <2>1. Answer(r) \/ \E x : Goto(r, "keep", [q EXCEPT !.todo = x])
    BY <1>11 DEF Keep
  <2>2. now' \in Nat /\ minted' \subseteq Docs
    BY <1>11, <1>d DEF Keep, serverVars
  <2>3. QED  BY <2>1, <2>2, <1>q, <1>u, <1>l, QuietAnswer, QuietGoto, OneRegister
<1>12. CASE DeleteBytes(r)
  <2>1. \E x : Goto(r, "deleteRecord", [q EXCEPT !.d = x])
    BY <1>12 DEF DeleteBytes
  <2>2. now' \in Nat /\ minted' \subseteq Docs
    BY <1>12, <1>d DEF DeleteBytes, serverVars
  <2>3. QED  BY <2>1, <2>2, <1>q, <1>u, <1>l, QuietGoto, OneRegister
<1>13. CASE DeleteRecord(r)
  <2>1. \E x : Goto(r, "deleteBytes", [q EXCEPT !.todo = x])
    BY <1>13 DEF DeleteRecord
  <2>2. now' \in Nat /\ minted' \subseteq Docs
    BY <1>13, <1>d DEF DeleteRecord, SetDocument, serverVars
  <2>3. QED  BY <2>1, <2>2, <1>q, <1>u, <1>l, QuietGoto, OneRegister
<1>14. QED
  BY <1>1, <1>2, <1>3, <1>4, <1>5, <1>6, <1>7, <1>8, <1>9, <1>10, <1>11, <1>12, <1>13
     DEF DocumentStep

-----------------------------------------------------------------------------
(* How requests begin *)

\* Several registers are set one after the other.
LEMMA SeveralRegisters ==
  ASSUME NEW q, IsRequest(q), NEW x, NEW y, NEW z
  PROVE  /\ [q EXCEPT !.user = x, !.d = y] = [[q EXCEPT !.user = x] EXCEPT !.d = y]
         /\ [q EXCEPT !.user = x, !.file = y, !.until = z]
              = [[[q EXCEPT !.user = x] EXCEPT !.file = y] EXCEPT !.until = z]
         /\ [q EXCEPT !.version = x, !.todo = y]
              = [[q EXCEPT !.version = x] EXCEPT !.todo = y]
         /\ [q EXCEPT !.todo = x, !.until = y] = [[q EXCEPT !.todo = x] EXCEPT !.until = y]
         /\ [q EXCEPT !.t = x, !.d = y] = [[q EXCEPT !.t = x] EXCEPT !.d = y]
         /\ [q EXCEPT !.t = x, !.cat = y, !.remember = z]
              = [[[q EXCEPT !.t = x] EXCEPT !.cat = y] EXCEPT !.remember = z]
BY DEF IsRequest

\* Uploads, reviews, scans and reads begin.
LEMMA StartDocumentIsSafe ==
  ASSUME PacksInv, NEW r \in Requests, StartDocument(r), UNCHANGED packVars
  PROVE  Safe
<1>u. UNCHANGED <<pack, created>>
  BY DEF packVars
<1>i. IsRequest(IdleRequest)
  BY IdleIsRequest
<1>l. /\ "find" \notin Demanding /\ "reviewGet" \notin Demanding
      /\ "scanGet" \notin Demanding /\ "readGet" \notin Demanding
  BY DEF Demanding
<1>1. ASSUME NEW u, NEW f, NEW until,
             Begin(r, "upload", "find",
                   [IdleRequest EXCEPT !.user = u, !.file = f, !.until = until])
      PROVE  Safe
  <2>1. IsRequest([[[IdleRequest EXCEPT !.user = u] EXCEPT !.file = f] EXCEPT !.until = until])
    BY <1>i, OneRegister
  <2>2. IsRequest([IdleRequest EXCEPT !.user = u, !.file = f, !.until = until])
    BY <2>1, <1>i, SeveralRegisters
  <2>3. QED  BY <1>1, <2>2, <1>u, <1>l, QuietBegin
<1>2. ASSUME NEW u, NEW d, Begin(r, "review", "reviewGet", [IdleRequest EXCEPT !.user = u, !.d = d])
      PROVE  Safe
  <2>1. IsRequest([[IdleRequest EXCEPT !.user = u] EXCEPT !.d = d])
    BY <1>i, OneRegister
  <2>2. IsRequest([IdleRequest EXCEPT !.user = u, !.d = d])
    BY <2>1, <1>i, SeveralRegisters
  <2>3. QED  BY <1>2, <2>2, <1>u, <1>l, QuietBegin
<1>3. ASSUME NEW d, \/ Begin(r, "scan", "scanGet", [IdleRequest EXCEPT !.d = d])
                    \/ Begin(r, "read", "readGet", [IdleRequest EXCEPT !.d = d])
      PROVE  Safe
  BY <1>3, <1>u, <1>l, <1>i, OneRegister, QuietBegin
<1>4. QED  BY <1>1, <1>2, <1>3, Zenon DEF StartDocument

\* A pack is created with a retention, and edited where it and the transaction exist.
LEMMA BeginIsSafe ==
  ASSUME PacksInv, NEW r \in Requests, NEW op, NEW label, NEW q, IsRequest(q),
         Begin(r, op, label, q), UNCHANGED <<pack, created>>,
         \/ label = "list" /\ q.until \in Nat
         \/ /\ label = "load" /\ q.p \in Packs
            /\ \/ op = "answer" /\ q.t \in Txs /\ q.d \in Docs \cup {None}
               \/ op = "correct" /\ q.t \in Txs /\ q.cat \in Cats
               \/ op = "sign"
  PROVE  Safe
<1>1. PICK m : /\ MovesTo(r, m) /\ IsRequest(m) /\ m.at = label
               /\ m.op = op /\ SameRegisters(m, q)
  BY BeginMoves
<1>2. RequestIsGood(pack, created, m)
  BY <1>1 DEF RequestIsGood, EditIsWellFormed, SameRegisters
<1>3. now' \in Nat /\ minted' \subseteq Docs
  BY BeginMoves DEF docVars, serverVars, PacksInv
<1>4. QED  BY <1>1, <1>2, <1>3, QuietStepIsSafe

\* Creations, edits, purges and erasures of packs begin.
LEMMA StartPackIsSafe ==
  ASSUME PacksInv, NEW r \in Requests, StartPack(r), UNCHANGED packVars
  PROVE  Safe
<1>u. UNCHANGED <<pack, created>>
  BY DEF packVars
<1>i. IsRequest(IdleRequest)
  BY IdleIsRequest
<1>d. now \in Nat /\ OpenDays \in Nat /\ minted \subseteq Docs
  BY PackAssumption DEF PacksInv
<1>1. ASSUME Begin(r, "create", "list", [IdleRequest EXCEPT !.until = now + OpenDays])
      PROVE  Safe
  <2> DEFINE n == [IdleRequest EXCEPT !.until = now + OpenDays]
  <2>1. Begin(r, "create", "list", n) /\ IsRequest(n) /\ n.until = now + OpenDays
    BY <1>1, <1>i DEF IsRequest
  <2> HIDE DEF n
  <2>2. n.until \in Nat
    BY <2>1, <1>d
  <2>3. QED  BY <2>1, <2>2, <1>u, BeginIsSafe
<1>2. ASSUME NEW p \in Live, NEW t \in Txs, NEW d \in minted \cup {None},
             Begin(r, "answer", "load", [[IdleRequest EXCEPT !.p = p] EXCEPT !.t = t, !.d = d])
      PROVE  Safe
  <2> DEFINE edit == [IdleRequest EXCEPT !.p = p]
  <2>1. IsRequest(edit) /\ edit.p = p
    BY <1>i DEF IsRequest
  <2>b. Begin(r, "answer", "load", [edit EXCEPT !.t = t, !.d = d])
    BY <1>2
  <2> HIDE DEF edit
  <2> DEFINE n == [edit EXCEPT !.t = t]
  <2>2. IsRequest(n) /\ n.p = p /\ n.t = t
    BY <2>1 DEF IsRequest
  <2>3. [edit EXCEPT !.t = t, !.d = d] = [n EXCEPT !.d = d]
    BY <2>1, SeveralRegisters
  <2> HIDE DEF n
  <2> DEFINE o == [n EXCEPT !.d = d]
  <2>4. IsRequest(o) /\ o.p = p /\ o.t = t /\ o.d = d
    BY <2>2 DEF IsRequest
  <2>5. Begin(r, "answer", "load", o)
    BY <2>b, <2>3
  <2> HIDE DEF o
  <2>6. o.p \in Packs /\ o.t \in Txs /\ o.d \in Docs \cup {None}
    BY <2>4, <1>d DEF Live
  <2>7. QED  BY <2>4, <2>5, <2>6, <1>u, BeginIsSafe
<1>3. ASSUME NEW p \in Live, NEW t \in Txs, NEW c \in Cats, NEW remember,
             Begin(r, "correct", "load",
                   [[IdleRequest EXCEPT !.p = p] EXCEPT !.t = t, !.cat = c, !.remember = remember])
      PROVE  Safe
  <2> DEFINE edit == [IdleRequest EXCEPT !.p = p]
  <2>1. IsRequest(edit) /\ edit.p = p
    BY <1>i DEF IsRequest
  <2>b. Begin(r, "correct", "load", [edit EXCEPT !.t = t, !.cat = c, !.remember = remember])
    BY <1>3
  <2> HIDE DEF edit
  <2> DEFINE n == [edit EXCEPT !.t = t]
  <2>2. IsRequest(n) /\ n.p = p /\ n.t = t
    BY <2>1 DEF IsRequest
  <2>3. [edit EXCEPT !.t = t, !.cat = c, !.remember = remember]
          = [[n EXCEPT !.cat = c] EXCEPT !.remember = remember]
    BY <2>1, SeveralRegisters
  <2> HIDE DEF n
  <2> DEFINE o == [n EXCEPT !.cat = c]
  <2>4. IsRequest(o) /\ o.p = p /\ o.t = t /\ o.cat = c
    BY <2>2 DEF IsRequest
  <2>5. Begin(r, "correct", "load", [o EXCEPT !.remember = remember])
    BY <2>b, <2>3
  <2> HIDE DEF o
  <2> DEFINE k == [o EXCEPT !.remember = remember]
  <2>6. IsRequest(k) /\ k.p = p /\ k.t = t /\ k.cat = c
    BY <2>4 DEF IsRequest
  <2>7. Begin(r, "correct", "load", k)
    BY <2>5
  <2> HIDE DEF k
  <2>8. p \in Packs
    BY DEF Live
  <2>9. QED  BY <2>6, <2>7, <2>8, <1>u, BeginIsSafe
<1>4. ASSUME NEW p \in Live, NEW seen,
             Begin(r, "sign", "load", [[IdleRequest EXCEPT !.p = p] EXCEPT !.seen = seen])
      PROVE  Safe
  <2> DEFINE edit == [IdleRequest EXCEPT !.p = p]
  <2>1. IsRequest(edit) /\ edit.p = p
    BY <1>i DEF IsRequest
  <2>b. Begin(r, "sign", "load", [edit EXCEPT !.seen = seen])
    BY <1>4
  <2> HIDE DEF edit
  <2> DEFINE n == [edit EXCEPT !.seen = seen]
  <2>2. IsRequest(n) /\ n.p = p /\ Begin(r, "sign", "load", n)
    BY <2>1, <2>b DEF IsRequest
  <2> HIDE DEF n
  <2>3. p \in Packs
    BY DEF Live
  <2>4. QED  BY <2>2, <2>3, <1>u, BeginIsSafe
<1>5. ASSUME NEW op, NEW until,
             Begin(r, op, "listPacks", [IdleRequest EXCEPT !.until = until])
      PROVE  Safe
  <2>1. "listPacks" \notin Demanding
    BY DEF Demanding
  <2>2. QED  BY <1>5, <2>1, <1>i, <1>u, OneRegister, QuietBegin
<1>6. ASSUME Begin(r, "erase", "listPacks", IdleRequest)
      PROVE  Safe
  <2>1. "listPacks" \notin Demanding
    BY DEF Demanding
  <2>2. QED  BY <1>6, <2>1, <1>i, <1>u, QuietBegin
<1>7. QED  BY <1>1, <1>2, <1>3, <1>4, <1>5, <1>6, Zenon DEF StartPack

-----------------------------------------------------------------------------
(* Creating a pack *)

\* createPack lists the packs that are OPEN, at their revisions.
LEMMA ListPacksIsSafe ==
  ASSUME PacksInv, NEW r \in Requests, ListPacks(r)
  PROVE  Safe
<1> DEFINE q == req[r]
<1> DEFINE n == [q EXCEPT !.version = NextVersion]
<1> DEFINE open == {<<p, pack[p].revision>> : p \in {l \in Live : pack[l].status = "OPEN"}}
<1>1. q.at = "list" /\ Goto(r, "insert", [n EXCEPT !.todo = open]) /\ PackReads
  BY DEF ListPacks, At
<1>2. IsRequest(q) /\ q.until \in Nat
  BY <1>1, RequestsHold DEF RequestIsGood
<1>3. IsRequest(n) /\ n.until = q.until
  BY <1>2 DEF IsRequest
<1>4. \A old \in open : WasOpen(pack, created, old[1], old[2])
  <2>1. SUFFICES ASSUME NEW p \in Packs, pack[p] # None, pack[p].status = "OPEN"
                 PROVE  WasOpen(pack, created, p, pack[p].revision)
    BY DEF Live
  <2>2. p \in created /\ pack[p].revision \in Nat
    BY <2>1 DEF PacksInv, RecordsAreGood, RecordIsGood, IsRecord
  <2>3. QED  BY <2>1, <2>2 DEF WasOpen
<1> HIDE DEF n, open
<1> DEFINE o == [n EXCEPT !.todo = open]
<1>5. IsRequest(o) /\ o.until = n.until /\ o.todo = open /\ Goto(r, "insert", o)
  BY <1>1, <1>3 DEF IsRequest
<1> HIDE DEF o
<1>6. PICK m : MovesTo(r, m) /\ IsRequest(m) /\ m.at = "insert" /\ SameRegisters(m, o)
  BY <1>5, GotoMoves
<1>7. m.until \in Nat /\ m.todo = open
  BY <1>2, <1>3, <1>5, <1>6 DEF SameRegisters
<1>8. RequestIsGood(pack, created, m)
  BY <1>4, <1>6, <1>7 DEF RequestIsGood
<1>9. /\ UNCHANGED <<pack, created>>
      /\ now' \in Nat /\ minted' \subseteq Docs
  BY <1>1 DEF PackReads, Reads, packVars, docVars, serverVars, PacksInv
<1>10. QED  BY <1>6, <1>8, <1>9, QuietStepIsSafe

\* The new pack is inserted under an id that was never used.
LEMMA InsertPackIsSafe ==
  ASSUME PacksInv, NEW r \in Requests, InsertPack(r)
  PROVE  Safe
<1> DEFINE q == req[r]
<1> DEFINE v == [status |-> "OPEN", version |-> q.version, revision |-> 1,
                 answers |-> [t \in Txs |-> None], fixes |-> [t \in Txs |-> None],
                 expires |-> q.until, signed |-> None]
<1>1. PICK p \in Packs \ created : /\ pack' = [pack EXCEPT ![p] = v]
                                   /\ created' = created \cup {p}
  BY DEF InsertPack
<1>2. q.at = "insert" /\ Goto(r, "supersede", q) /\ UNCHANGED <<docVars, serverVars>>
  BY DEF InsertPack, At
<1>3. /\ IsRequest(q) /\ q.until \in Nat
      /\ \A old \in q.todo : WasOpen(pack, created, old[1], old[2])
  BY <1>2, RequestsHold DEF RequestIsGood
<1>4. RecordIsGood(v) /\ v.status = "OPEN" /\ v.signed = None
  BY <1>3 DEF RecordIsGood, IsRecord
<1> HIDE DEF v
<1>5. DOMAIN pack = Packs /\ created \subseteq Packs /\ RecordsAreGood
  BY DEF PacksInv, RecordsAreGood
<1>6. /\ DOMAIN pack' = Packs /\ pack'[p] = v
      /\ \A x \in Packs \ {p} : pack'[x] = pack[x]
  BY <1>1, <1>5
<1>7. RecordsAreGood'
  BY <1>1, <1>4, <1>5, <1>6 DEF RecordsAreGood, RecordIsGood, IsRecord, Holds
<1>8. \A x \in Packs : Progress(x)
  BY <1>1, <1>6 DEF Progress
<1>9. PICK m : MovesTo(r, m) /\ IsRequest(m) /\ m.at = "supersede" /\ m.todo = q.todo
  BY <1>2, <1>3, GotoMoves DEF SameRegisters
<1>10. created \subseteq created'
  BY <1>1
<1>11. \A old \in m.todo : WasOpen(pack', created', old[1], old[2])
  BY <1>3, <1>5, <1>8, <1>9, <1>10, ReadsStayGood
<1>12. RequestIsGood(pack', created', m)
  BY <1>9, <1>11 DEF RequestIsGood
<1>13. now' \in Nat /\ minted' \subseteq Docs
  BY <1>2 DEF docVars, serverVars, PacksInv
<1>14. QED  BY <1>7, <1>8, <1>9, <1>10, <1>12, <1>13, StepIsSafe

\* The next revision of an OPEN pack is saved.
LEMMA SavedRecordsAreGood ==
  ASSUME PacksInv, NEW p \in created, pack[p] # None, pack[p].status = "OPEN",
         NEW v, SetPack(p, v), RecordIsGood(v), v.revision = pack[p].revision + 1,
         KeepsDecisions(pack[p], v)
  PROVE  created' = created /\ RecordsAreGood' /\ \A x \in Packs : Progress(x)
<1>1. DOMAIN pack = Packs /\ created \subseteq Packs /\ created' = created
  BY DEF PacksInv, RecordsAreGood, SetPack
<1>2. DOMAIN pack' = Packs /\ pack'[p] = v /\ \A x \in Packs \ {p} : pack'[x] = pack[x]
  BY <1>1 DEF SetPack
<1>3. \A x \in Packs : pack'[x] # None => x \in created /\ RecordIsGood(pack'[x])
  BY <1>2 DEF PacksInv, RecordsAreGood
<1>4. RecordsAreGood'
  BY <1>1, <1>2, <1>3 DEF RecordsAreGood, RecordIsGood, IsRecord, Holds
<1>5. \A x \in Packs : Progress(x)
  BY <1>2 DEF Progress
<1>6. QED  BY <1>1, <1>4, <1>5

\* What superseding makes of a record that is OPEN.
LEMMA SupersededRecord ==
  ASSUME NEW o, RecordIsGood(o), o.status = "OPEN"
  PROVE  LET v == [o EXCEPT !.status = "SUPERSEDED", !.revision = @ + 1]
         IN  RecordIsGood(v) /\ v.revision = o.revision + 1 /\ KeepsDecisions(o, v)
<1> DEFINE n == [o EXCEPT !.status = "SUPERSEDED"]
<1> DEFINE v == [n EXCEPT !.revision = @ + 1]
<1>1. n = [status |-> "SUPERSEDED", version |-> o.version, revision |-> o.revision,
           answers |-> o.answers, fixes |-> o.fixes, expires |-> o.expires, signed |-> o.signed]
  BY DEF RecordIsGood, IsRecord
<1> HIDE DEF n
<1>2. v = [status |-> "SUPERSEDED", version |-> o.version, revision |-> o.revision + 1,
           answers |-> o.answers, fixes |-> o.fixes, expires |-> o.expires, signed |-> o.signed]
  BY <1>1
<1> HIDE DEF v
<1>3. RecordIsGood(v) /\ v.revision = o.revision + 1 /\ KeepsDecisions(o, v)
  BY <1>2 DEF RecordIsGood, IsRecord, Holds, KeepsDecisions
<1>4. QED  BY <1>3 DEF v, n

\* An older pack is superseded only at the revision it was listed at.
LEMMA SupersedeIsSafe ==
  ASSUME PacksInv, NEW r \in Requests, Supersede(r)
  PROVE  Safe
<1> DEFINE q == req[r]
<1>1. q.at = "supersede" /\ UNCHANGED <<docVars, serverVars>>
  BY Zenon DEF Supersede, At
<1>2. IsRequest(q) /\ \A old \in q.todo : WasOpen(pack, created, old[1], old[2])
  BY <1>1, RequestsHold DEF RequestIsGood
<1>3. now' \in Nat /\ minted' \subseteq Docs
  BY <1>1 DEF docVars, serverVars, PacksInv
<1>4. CASE Answer(r) /\ UNCHANGED packVars
  BY <1>3, <1>4, QuietAnswer DEF packVars
<1>5. ASSUME NEW old \in q.todo, Goto(r, "supersede", [q EXCEPT !.todo = @ \ {old}]),
             IF Current(old[1], old[2])
             THEN SetPack(old[1], [pack[old[1]] EXCEPT !.status = "SUPERSEDED",
                                                       !.revision = @ + 1])
             ELSE UNCHANGED <<pack, created, learned>>
      PROVE  Safe
  <2> DEFINE n == [q EXCEPT !.todo = @ \ {old}]
  <2>1. Goto(r, "supersede", n) /\ IsRequest(n) /\ n.todo = q.todo \ {old}
    BY <1>2, <1>5 DEF IsRequest
  <2> HIDE DEF n
  <2>2. PICK m : MovesTo(r, m) /\ IsRequest(m) /\ m.at = "supersede" /\ m.todo = q.todo \ {old}
    BY <2>1, GotoMoves DEF SameRegisters
  <2>3. \A other \in m.todo : WasOpen(pack, created, other[1], other[2])
    BY <1>2, <2>2
  <2>4. RequestIsGood(pack, created, m)
    BY <2>2, <2>3 DEF RequestIsGood
  <2>5. CASE ~Current(old[1], old[2])
    BY <1>3, <1>5, <2>2, <2>4, <2>5, QuietStepIsSafe
  <2>6. CASE Current(old[1], old[2])
    <3> DEFINE p == old[1]
    <3>1. SetPack(p, [pack[p] EXCEPT !.status = "SUPERSEDED", !.revision = @ + 1])
      BY <1>5, <2>6
    <3>2. p \in created /\ pack[p] # None /\ pack[p].status = "OPEN"
      BY <1>2, <2>6 DEF WasOpen, Current
    <3>3. RecordIsGood(pack[p])
      BY <3>2 DEF PacksInv, RecordsAreGood
    <3> DEFINE v == [pack[p] EXCEPT !.status = "SUPERSEDED", !.revision = @ + 1]
    <3>4. RecordIsGood(v) /\ v.revision = pack[p].revision + 1 /\ KeepsDecisions(pack[p], v)
      BY <3>2, <3>3, SupersededRecord, Zenon
    <3>5. SetPack(p, v)
      BY <3>1
    <3> HIDE DEF v
    <3>6. created' = created /\ RecordsAreGood' /\ \A x \in Packs : Progress(x)
      BY <3>2, <3>4, <3>5, SavedRecordsAreGood
    <3>7. RequestIsGood(pack', created', m)
      BY <2>4, <3>6, RequestStaysGood DEF PacksInv
    <3>8. QED  BY <1>3, <2>2, <3>6, <3>7, StepIsSafe
  <2>7. QED  BY <2>5, <2>6
<1>6. QED  BY <1>4, <1>5, Zenon DEF Supersede

-----------------------------------------------------------------------------
(* Editing a pack *)

\* load and assertOpen read a record that is OPEN.
LEMMA LoadPackIsSafe ==
  ASSUME PacksInv, NEW r \in Requests, LoadPack(r)
  PROVE  Safe
<1> DEFINE q == req[r]
<1> DEFINE v == pack[q.p]
<1> DEFINE n == [q EXCEPT !.view = v]
<1>1. q.at = "load" /\ PackReads
  BY DEF LoadPack, At
<1>2. IsRequest(q) /\ EditIsWellFormed(q)
  BY <1>1, RequestsHold DEF RequestIsGood
<1>3. /\ UNCHANGED <<pack, created>>
      /\ now' \in Nat /\ minted' \subseteq Docs
  BY <1>1 DEF PackReads, Reads, packVars, docVars, serverVars, PacksInv
<1>4. CASE Answer(r)
  BY <1>3, <1>4, QuietAnswer
<1>5. ASSUME v # None, v.status = "OPEN", NEW next, Goto(r, next, n),
             \/ next = "linkable" /\ q.op # "sign"
             \/ next = "check"
             \/ next = "update" /\ q.op # "sign"
      PROVE  Safe
  <2>1. /\ IsRequest(n) /\ n.view = v /\ n.op = q.op /\ n.p = q.p /\ n.t = q.t
        /\ n.d = q.d /\ n.cat = q.cat
    BY <1>2 DEF IsRequest
  <2>2. Goto(r, next, n)
    BY <1>5
  <2>3. WasRead(pack, created, q.p, v)
    <3>1. q.p \in Packs
      BY <1>2 DEF EditIsWellFormed
    <3>2. q.p \in created /\ IsRecord(v)
      BY <3>1, <1>5 DEF PacksInv, RecordsAreGood, RecordIsGood
    <3>3. v.revision \in Nat
      BY <3>2 DEF IsRecord
    <3>4. QED  BY <1>5, <3>2, <3>3 DEF WasRead
  <2> HIDE DEF n, v
  <2>4. PICK m : /\ MovesTo(r, m) /\ IsRequest(m) /\ m.at = next
                 /\ m.op = q.op /\ SameRegisters(m, n)
    BY <2>1, <2>2, GotoMoves
  <2>5. EditIsWellFormed(m)
    BY <1>2, <2>1, <2>4 DEF EditIsWellFormed, SameRegisters
  <2>6. WasRead(pack, created, m.p, m.view)
    BY <2>1, <2>3, <2>4 DEF SameRegisters
  <2>7. RequestIsGood(pack, created, m)
    BY <1>5, <2>4, <2>5, <2>6 DEF RequestIsGood
  <2>8. QED  BY <1>3, <2>4, <2>7, QuietStepIsSafe
<1>6. QED  BY <1>4, <1>5 DEF LoadPack

\* assertLinkable leaves what was read as it is.
LEMMA AssertLinkableIsSafe ==
  ASSUME PacksInv, NEW r \in Requests, AssertLinkable(r)
  PROVE  Safe
<1> DEFINE q == req[r]
<1>1. q.at = "linkable" /\ PackReads
  BY DEF AssertLinkable, At
<1>2. /\ IsRequest(q) /\ EditIsWellFormed(q) /\ WasRead(pack, created, q.p, q.view)
      /\ q.op # "sign"
  BY <1>1, RequestsHold DEF RequestIsGood
<1>3. /\ UNCHANGED <<pack, created>>
      /\ now' \in Nat /\ minted' \subseteq Docs
  BY <1>1 DEF PackReads, Reads, packVars, docVars, serverVars, PacksInv
<1>4. CASE Answer(r)
  BY <1>3, <1>4, QuietAnswer
<1>5. CASE Goto(r, "update", q)
  <2>1. PICK m : /\ MovesTo(r, m) /\ IsRequest(m) /\ m.at = "update"
                 /\ m.op = q.op /\ SameRegisters(m, q)
    BY <1>2, <1>5, GotoMoves
  <2>2. RequestIsGood(pack, created, m)
    BY <1>2, <2>1 DEF RequestIsGood, EditIsWellFormed, SameRegisters
  <2>3. QED  BY <1>3, <2>1, <2>2, QuietStepIsSafe
<1>6. QED  BY <1>4, <1>5 DEF AssertLinkable

\* Sign-off computes a retention that is no shorter.
LEMMA KeepUntilIsLater ==
  ASSUME NEW expires \in Nat, now \in Nat
  PROVE  KeepUntil(expires) \in Nat /\ KeepUntil(expires) >= expires
<1>1. now + SignedDays \in Nat
  BY PackAssumption
<1>2. \A a, b \in Nat : Max({a, b}) \in {a, b} /\ Max({a, b}) >= a
  BY DEF Max
<1>3. QED  BY <1>1, <1>2 DEF KeepUntil

\* Accepted content holds the decisions of the record it was rebuilt from.
LEMMA CheckSignOffIsSafe ==
  ASSUME PacksInv, NEW r \in Requests, CheckSignOff(r)
  PROVE  Safe
<1> DEFINE q == req[r]
<1> DEFINE n == [q EXCEPT !.until = KeepUntil(q.view.expires)]
<1>1. q.at = "check" /\ PackReads
  BY DEF CheckSignOff, At
<1>2. IsRequest(q) /\ EditIsWellFormed(q) /\ WasRead(pack, created, q.p, q.view)
  BY <1>1, RequestsHold DEF RequestIsGood
<1>3. /\ UNCHANGED <<pack, created>>
      /\ now' \in Nat /\ minted' \subseteq Docs
  BY <1>1 DEF PackReads, Reads, packVars, docVars, serverVars, PacksInv
<1>4. CASE Answer(r)
  BY <1>3, <1>4, QuietAnswer
<1>5. CASE Acceptable(q) /\ Goto(r, "update", n)
  <2>1. /\ Goto(r, "update", n) /\ IsRequest(n) /\ n.until = KeepUntil(q.view.expires)
        /\ n.op = q.op /\ n.p = q.p /\ n.t = q.t /\ n.d = q.d /\ n.cat = q.cat
        /\ n.seen = q.seen /\ n.view = q.view
    BY <1>2, <1>5 DEF IsRequest
  <2> HIDE DEF n
  <2>2. PICK m : /\ MovesTo(r, m) /\ IsRequest(m) /\ m.at = "update"
                 /\ m.op = q.op /\ SameRegisters(m, n)
    BY <2>1, GotoMoves
  <2>3. m.until \in Nat /\ m.until >= m.view.expires
    <3>1. q.view.expires \in Nat
      BY <1>2 DEF WasRead, IsRecord
    <3>2. KeepUntil(q.view.expires) \in Nat /\ KeepUntil(q.view.expires) >= q.view.expires
      BY <3>1, KeepUntilIsLater DEF PacksInv
    <3>3. m.until = KeepUntil(q.view.expires) /\ m.view = q.view
      BY <2>1, <2>2 DEF SameRegisters
    <3>4. QED  BY <3>2, <3>3
  <2>4. Holds(Content(q.view), q.view)
    BY DEF Holds, Content
  <2>5. Holds(m.seen, m.view)
    BY <1>5, <2>1, <2>2, <2>4 DEF SameRegisters, Acceptable
  <2>6. EditIsWellFormed(m)
    BY <1>2, <2>1, <2>2 DEF EditIsWellFormed, SameRegisters
  <2>7. WasRead(pack, created, m.p, m.view)
    BY <1>2, <2>1, <2>2 DEF SameRegisters
  <2>8. RequestIsGood(pack, created, m)
    BY <2>2, <2>3, <2>5, <2>6, <2>7 DEF RequestIsGood, SignOffIsChecked
  <2>9. QED  BY <1>3, <2>2, <2>8, QuietStepIsSafe
<1>6. QED  BY <1>4, <1>5 DEF CheckSignOff

\* The next revision of a record, with that status, retention and answers.
Revises(o, v, status, expires, answers) ==
  /\ RecordIsGood(v) /\ v.revision = o.revision + 1 /\ KeepsDecisions(o, v)
  /\ v.version = o.version /\ v.status = status
  /\ v.expires = expires /\ v.answers = answers

\* What an answer makes of a record that is OPEN.
LEMMA AnsweredRecord ==
  ASSUME NEW o, RecordIsGood(o), o.status = "OPEN", NEW t \in Txs, NEW x, x # None
  PROVE  LET v == [o EXCEPT !.revision = @ + 1, !.answers[t] = x]
         IN  Revises(o, v, "OPEN", o.expires, [o.answers EXCEPT ![t] = x])
<1> DEFINE n == [o EXCEPT !.revision = @ + 1]
<1> DEFINE v == [n EXCEPT !.answers[t] = x]
<1>1. n = [status |-> o.status, version |-> o.version, revision |-> o.revision + 1,
           answers |-> o.answers, fixes |-> o.fixes, expires |-> o.expires, signed |-> o.signed]
  BY DEF RecordIsGood, IsRecord
<1> HIDE DEF n
<1>2. v = [status |-> o.status, version |-> o.version, revision |-> o.revision + 1,
           answers |-> [o.answers EXCEPT ![t] = x], fixes |-> o.fixes,
           expires |-> o.expires, signed |-> o.signed]
  BY <1>1
<1> HIDE DEF v
<1> DEFINE answers == [o.answers EXCEPT ![t] = x]
<1>3. o.answers = [u \in Txs |-> o.answers[u]]
  BY DEF RecordIsGood, IsRecord
<1>4. /\ answers = [u \in Txs |-> answers[u]]
      /\ \A u \in Txs : o.answers[u] # None => answers[u] # None
  BY <1>3
<1> HIDE DEF answers
<1>5. /\ v.status = o.status /\ v.version = o.version /\ v.revision = o.revision + 1
      /\ v.answers = answers /\ v.fixes = o.fixes /\ v.expires = o.expires
      /\ v.signed = o.signed
      /\ v = [status |-> v.status, version |-> v.version, revision |-> v.revision,
              answers |-> v.answers, fixes |-> v.fixes, expires |-> v.expires,
              signed |-> v.signed]
  BY <1>2 DEF answers
<1>6. RecordIsGood(v) /\ KeepsDecisions(o, v)
  BY <1>4, <1>5 DEF RecordIsGood, IsRecord, KeepsDecisions
<1>7. QED  BY <1>5, <1>6 DEF v, n, answers, Revises

\* The same of a correction.
LEMMA CorrectedRecord ==
  ASSUME NEW o, RecordIsGood(o), o.status = "OPEN", NEW t \in Txs, NEW x, x # None
  PROVE  LET v == [o EXCEPT !.revision = @ + 1, !.fixes[t] = x]
         IN  Revises(o, v, "OPEN", o.expires, o.answers)
<1> DEFINE n == [o EXCEPT !.revision = @ + 1]
<1> DEFINE v == [n EXCEPT !.fixes[t] = x]
<1>1. n = [status |-> o.status, version |-> o.version, revision |-> o.revision + 1,
           answers |-> o.answers, fixes |-> o.fixes, expires |-> o.expires, signed |-> o.signed]
  BY DEF RecordIsGood, IsRecord
<1> HIDE DEF n
<1>2. v = [status |-> o.status, version |-> o.version, revision |-> o.revision + 1,
           answers |-> o.answers, fixes |-> [o.fixes EXCEPT ![t] = x],
           expires |-> o.expires, signed |-> o.signed]
  BY <1>1
<1> HIDE DEF v
<1> DEFINE fixes == [o.fixes EXCEPT ![t] = x]
<1>3. o.fixes = [u \in Txs |-> o.fixes[u]]
  BY DEF RecordIsGood, IsRecord
<1>4. /\ fixes = [u \in Txs |-> fixes[u]]
      /\ \A u \in Txs : o.fixes[u] # None => fixes[u] # None
  BY <1>3
<1> HIDE DEF fixes
<1>5. /\ v.status = o.status /\ v.version = o.version /\ v.revision = o.revision + 1
      /\ v.answers = o.answers /\ v.fixes = fixes /\ v.expires = o.expires
      /\ v.signed = o.signed
      /\ v = [status |-> v.status, version |-> v.version, revision |-> v.revision,
              answers |-> v.answers, fixes |-> v.fixes, expires |-> v.expires,
              signed |-> v.signed]
  BY <1>2 DEF fixes
<1>6. RecordIsGood(v) /\ KeepsDecisions(o, v)
  BY <1>4, <1>5 DEF RecordIsGood, IsRecord, KeepsDecisions
<1>7. QED  BY <1>5, <1>6 DEF v, n, Revises

\* The same of a sign-off.
LEMMA SignedRecord ==
  ASSUME NEW o, RecordIsGood(o), NEW until \in Nat, until >= o.expires,
         NEW content, Holds(content, o)
  PROVE  LET v == [o EXCEPT !.revision = @ + 1, !.status = "SIGNED_OFF",
                            !.expires = until, !.signed = content]
         IN  Revises(o, v, "SIGNED_OFF", until, o.answers)
<1> DEFINE a == [o EXCEPT !.revision = @ + 1]
<1> DEFINE b == [a EXCEPT !.status = "SIGNED_OFF"]
<1> DEFINE c == [b EXCEPT !.expires = until]
<1> DEFINE v == [c EXCEPT !.signed = content]
<1>1. a = [status |-> o.status, version |-> o.version, revision |-> o.revision + 1,
           answers |-> o.answers, fixes |-> o.fixes, expires |-> o.expires, signed |-> o.signed]
  BY DEF RecordIsGood, IsRecord
<1> HIDE DEF a
<1>2. b = [status |-> "SIGNED_OFF", version |-> o.version, revision |-> o.revision + 1,
           answers |-> o.answers, fixes |-> o.fixes, expires |-> o.expires, signed |-> o.signed]
  BY <1>1
<1> HIDE DEF b
<1>3. c = [status |-> "SIGNED_OFF", version |-> o.version, revision |-> o.revision + 1,
           answers |-> o.answers, fixes |-> o.fixes, expires |-> until, signed |-> o.signed]
  BY <1>2
<1> HIDE DEF c
<1>4. v = [status |-> "SIGNED_OFF", version |-> o.version, revision |-> o.revision + 1,
           answers |-> o.answers, fixes |-> o.fixes, expires |-> until, signed |-> content]
  BY <1>3
<1> HIDE DEF v
<1>5. /\ v.status = "SIGNED_OFF" /\ v.version = o.version /\ v.revision = o.revision + 1
      /\ v.answers = o.answers /\ v.fixes = o.fixes /\ v.expires = until
      /\ v.signed = content
      /\ v = [status |-> v.status, version |-> v.version, revision |-> v.revision,
              answers |-> v.answers, fixes |-> v.fixes, expires |-> v.expires,
              signed |-> v.signed]
  BY <1>4
<1>6. RecordIsGood(v) /\ KeepsDecisions(o, v)
  BY <1>5 DEF RecordIsGood, IsRecord, KeepsDecisions, Holds
<1>7. QED  BY <1>5, <1>6 DEF v, c, b, a, Revises

\* At update the edit is one of the three, of the record that was read.
LEMMA EditedRecord ==
  ASSUME NEW q, EditIsWellFormed(q), q.op = "sign" => SignOffIsChecked(q),
         RecordIsGood(q.view), q.view.status = "OPEN"
  PROVE  \/ /\ q.op = "answer" /\ q.t \in Txs /\ q.d \in Docs \cup {None}
            /\ Revises(q.view, Edited(q), "OPEN", q.view.expires,
                       [q.view.answers EXCEPT ![q.t] = {q.d} \ {None}])
         \/ /\ q.op = "correct"
            /\ Revises(q.view, Edited(q), "OPEN", q.view.expires, q.view.answers)
         \/ /\ q.op = "sign" /\ q.until \in Nat
            /\ Revises(q.view, Edited(q), "SIGNED_OFF", q.until, q.view.answers)
<1>1. CASE q.op = "answer" /\ q.t \in Txs /\ q.d \in Docs \cup {None}
  <2> DEFINE v == [q.view EXCEPT !.revision = @ + 1, !.answers[q.t] = {q.d} \ {None}]
  <2>1. {q.d} \ {None} \in SUBSET Docs
    BY <1>1
  <2>2. {q.d} \ {None} # None
    BY <2>1, PackAssumption
  <2>3. Revises(q.view, v, "OPEN", q.view.expires,
                [q.view.answers EXCEPT ![q.t] = {q.d} \ {None}])
    BY <1>1, <2>2, AnsweredRecord, Zenon
  <2>4. Edited(q) = v
    BY <1>1 DEF Edited
  <2> HIDE DEF v
  <2>5. QED  BY <1>1, <2>3, <2>4
<1>2. CASE q.op = "correct" /\ q.t \in Txs /\ q.cat \in Cats
  <2> DEFINE v == [q.view EXCEPT !.revision = @ + 1, !.fixes[q.t] = q.cat]
  <2>1. q.cat # None
    BY <1>2, PackAssumption
  <2>2. Revises(q.view, v, "OPEN", q.view.expires, q.view.answers)
    BY <1>2, <2>1, CorrectedRecord, Zenon
  <2>3. Edited(q) = v
    BY <1>2 DEF Edited
  <2> HIDE DEF v
  <2>4. QED  BY <1>2, <2>2, <2>3
<1>3. CASE q.op = "sign"
  <2> DEFINE v == [q.view EXCEPT !.revision = @ + 1, !.status = "SIGNED_OFF",
                                 !.expires = q.until, !.signed = q.seen]
  <2>1. q.until \in Nat /\ q.until >= q.view.expires /\ Holds(q.seen, q.view)
    BY <1>3 DEF SignOffIsChecked
  <2>2. Revises(q.view, v, "SIGNED_OFF", q.until, q.view.answers)
    BY <2>1, SignedRecord, Zenon
  <2>3. Edited(q) = v
    BY <1>3 DEF Edited
  <2> HIDE DEF v
  <2>4. QED  BY <1>3, <2>1, <2>2, <2>3
<1>4. QED  BY <1>1, <1>2, <1>3 DEF EditIsWellFormed

\* The transaction of store.update saves an edit of the record that is stored, or nothing.
LEMMA UpdatePackIsSafe ==
  ASSUME PacksInv, NEW r \in Requests, UpdatePack(r)
  PROVE  Safe
<1> DEFINE q == req[r]
<1>1. q.at = "update" /\ UNCHANGED <<docVars, serverVars>>
  BY DEF UpdatePack, At
<1>2. /\ IsRequest(q) /\ EditIsWellFormed(q) /\ WasRead(pack, created, q.p, q.view)
      /\ q.op = "sign" => SignOffIsChecked(q)
  BY <1>1, RequestsHold DEF RequestIsGood
<1>3. now' \in Nat /\ minted' \subseteq Docs
  BY <1>1 DEF docVars, serverVars, PacksInv
<1>4. CASE Answer(r) /\ UNCHANGED <<pack, created, learned>>
  BY <1>3, <1>4, QuietAnswer
<1>5. CASE Current(q.p, q.view.revision)
  <2>1. /\ SetPack(q.p, Edited(q))
        /\ \/ Answer(r)
           \/ /\ AfterUpdate(q) # None
              /\ \E todo, until :
                   Goto(r, AfterUpdate(q), [q EXCEPT !.todo = todo, !.until = until])
    BY <1>5, Zenon DEF UpdatePack
  <2>2. /\ q.p \in created /\ pack[q.p] # None /\ pack[q.p] = q.view
        /\ q.view.status = "OPEN" /\ RecordIsGood(q.view)
    BY <1>2, <1>5 DEF WasRead, Current, PacksInv, RecordsAreGood
  <2>3. /\ RecordIsGood(Edited(q)) /\ Edited(q).revision = q.view.revision + 1
        /\ KeepsDecisions(q.view, Edited(q))
    BY <1>2, <2>2, EditedRecord DEF Revises
  <2>4. created' = created /\ RecordsAreGood' /\ \A x \in Packs : Progress(x)
    BY <2>1, <2>2, <2>3, SavedRecordsAreGood, Zenon
  <2>5. PICK m : MovesTo(r, m) /\ IsRequest(m) /\ m.at \notin Demanding
    <3>1. CASE Answer(r)
      BY <3>1, AnswerMoves DEF Demanding
    <3>2. ASSUME AfterUpdate(q) # None, NEW todo, NEW until,
                 Goto(r, AfterUpdate(q), [q EXCEPT !.todo = todo, !.until = until])
          PROVE  \E m : MovesTo(r, m) /\ IsRequest(m) /\ m.at \notin Demanding
      <4>1. AfterUpdate(q) \in {"keep", "learn", "keepInput"}
        BY <3>2 DEF AfterUpdate
      <4>2. AfterUpdate(q) \notin Demanding
        BY <4>1 DEF Demanding
      <4>3. IsRequest([q EXCEPT !.todo = todo])
        BY <1>2, OneRegister
      <4>4. IsRequest([q EXCEPT !.todo = todo, !.until = until])
        BY <4>3, OneRegister
      <4>5. \E m : MovesTo(r, m) /\ IsRequest(m) /\ m.at = AfterUpdate(q)
        BY <3>2, <4>4, GotoMoves
      <4>6. QED  BY <4>2, <4>5
    <3>3. QED  BY <2>1, <3>1, <3>2, Zenon
  <2>6. RequestIsGood(pack', created', m)
    BY <2>5, RestIsGood
  <2>7. QED  BY <1>3, <2>4, <2>5, <2>6, StepIsSafe
<1>6. QED  BY <1>4, <1>5 DEF UpdatePack

-----------------------------------------------------------------------------
(* What follows an edit, and deletion *)

\* A learned rule changes no record.
LEMMA LearnIsSafe ==
  ASSUME PacksInv, NEW r \in Requests, Learn(r)
  PROVE  Safe
<1>1. Answer(r) /\ UNCHANGED <<pack, created>>
  BY DEF Learn
<1>2. now' \in Nat /\ minted' \subseteq Docs
  BY DEF Learn, docVars, serverVars, PacksInv
<1>3. QED  BY <1>1, <1>2, QuietAnswer

\* Keeping the statement changes no record.
LEMMA KeepInputIsSafe ==
  ASSUME PacksInv, NEW r \in Requests, KeepInput(r)
  PROVE  Safe
<1>1. Goto(r, "keep", req[r]) /\ UNCHANGED <<pack, created>>
  BY DEF KeepInput
<1>2. now' \in Nat /\ minted' \subseteq Docs
  BY DEF KeepInput, docVars, serverVars, PacksInv
<1>3. IsRequest(req[r]) /\ "keep" \notin Demanding
  BY RequestsHold DEF Demanding
<1>4. QED  BY <1>1, <1>2, <1>3, QuietGoto

\* A pack that is removed makes progress, and what is left of the packs is good.
LEMMA RemovalIsGood ==
  ASSUME PacksInv, NEW p, RemovePack(p)
  PROVE  created' = created /\ RecordsAreGood' /\ \A x \in Packs : Progress(x)
<1>1. /\ DOMAIN pack = Packs /\ created \subseteq Packs /\ created' = created
      /\ pack' = [pack EXCEPT ![p] = None]
  BY DEF PacksInv, RecordsAreGood, RemovePack
<1>2. DOMAIN pack' = Packs /\ \A x \in Packs : pack'[x] = pack[x] \/ pack'[x] = None
  BY <1>1
<1>3. \A x \in Packs : pack'[x] # None => x \in created /\ RecordIsGood(pack'[x])
  BY <1>2 DEF PacksInv, RecordsAreGood
<1>4. RecordsAreGood'
  BY <1>1, <1>2, <1>3 DEF RecordsAreGood, RecordIsGood, IsRecord, Holds
<1>5. \A x \in Packs : Progress(x)
  BY <1>2 DEF Progress
<1>6. QED  BY <1>1, <1>4, <1>5

\* deletePack.
LEMMA DeletePackIsSafe ==
  ASSUME PacksInv, NEW p, DeletePack(p)
  PROVE  Safe
<1>1. RemovePack(p) /\ req' = req
  BY DEF DeletePack
<1>2. created' = created /\ RecordsAreGood' /\ \A x \in Packs : Progress(x)
  BY <1>1, RemovalIsGood
<1>3. now' \in Nat /\ minted' \subseteq Docs
  BY DEF DeletePack, docVars, serverVars, PacksInv
<1>4. \A r \in Requests : RequestIsGood(pack', created', req'[r])
  BY <1>1, <1>2, RequestsHold, RequestStaysGood DEF PacksInv
<1>5. DOMAIN req' = Requests
  BY <1>1 DEF PacksInv, RequestsAreGood
<1>6. RequestsAreGood'
  BY <1>4, <1>5 DEF RequestsAreGood
<1>7. QED  BY <1>2, <1>3, <1>6 DEF Safe, PacksInv

\* A purge or an erasure lists packs.
LEMMA ListDoomedPacksIsSafe ==
  ASSUME PacksInv, NEW r \in Requests, ListDoomedPacks(r)
  PROVE  Safe
<1> DEFINE doomed == {p \in Live : Doomed(req[r], pack[p].expires)}
<1> DEFINE label == IF doomed = {} THEN "listDocs" ELSE "deletePacks"
<1>1. /\ UNCHANGED <<pack, created>>
      /\ now' \in Nat /\ minted' \subseteq Docs
  BY DEF ListDoomedPacks, PackReads, Reads, packVars, docVars, serverVars, PacksInv
<1>2. Goto(r, label, [req[r] EXCEPT !.todo = doomed])
  BY DEF ListDoomedPacks
<1> HIDE DEF doomed
<1>3. label \notin Demanding
  BY DEF Demanding
<1>4. IsRequest([req[r] EXCEPT !.todo = doomed])
  BY RequestsHold, OneRegister
<1> HIDE DEF label
<1>5. QED  BY <1>1, <1>2, <1>3, <1>4, QuietGoto

\* It deletes one of them.
LEMMA DeleteDoomedPackIsSafe ==
  ASSUME PacksInv, NEW r \in Requests, DeleteDoomedPack(r)
  PROVE  Safe
<1>1. now' \in Nat /\ minted' \subseteq Docs
  BY DEF DeleteDoomedPack, docVars, serverVars, PacksInv
<1>2. PICK p, label, todo : /\ RemovePack(p)
                            /\ label \in {"deletePacks", "listPacks", "listDocs"}
                            /\ Goto(r, label, [req[r] EXCEPT !.todo = todo])
  BY DEF DeleteDoomedPack
<1>3. label \notin Demanding
  BY <1>2 DEF Demanding
<1>4. IsRequest([req[r] EXCEPT !.todo = todo])
  BY RequestsHold, OneRegister
<1>5. PICK m : MovesTo(r, m) /\ IsRequest(m) /\ m.at = label
  BY <1>2, <1>4, GotoMoves
<1>6. RequestIsGood(pack', created', m)
  BY <1>3, <1>5, RestIsGood
<1>7. created' = created /\ RecordsAreGood' /\ \A x \in Packs : Progress(x)
  BY <1>2, RemovalIsGood
<1>8. QED  BY <1>1, <1>5, <1>6, <1>7, StepIsSafe

\* It lists documents.
LEMMA ListDoomedDocumentsIsSafe ==
  ASSUME PacksInv, NEW r \in Requests, ListDoomedDocuments(r)
  PROVE  Safe
<1>1. /\ UNCHANGED <<pack, created>>
      /\ now' \in Nat /\ minted' \subseteq Docs
  BY DEF ListDoomedDocuments, PackReads, Reads, packVars, docVars, serverVars, PacksInv
<1>2. PICK todo : Goto(r, "deleteBytes", [req[r] EXCEPT !.todo = todo])
  BY DEF ListDoomedDocuments
<1>3. IsRequest([req[r] EXCEPT !.todo = todo]) /\ "deleteBytes" \notin Demanding
  BY RequestsHold, OneRegister DEF Demanding
<1>4. QED  BY <1>1, <1>2, <1>3, QuietGoto

\* It ends.
LEMMA FinishIsSafe ==
  ASSUME PacksInv, NEW r \in Requests, Finish(r)
  PROVE  Safe
<1>1. Answer(r) /\ UNCHANGED <<pack, created>>
  BY DEF Finish
<1>2. now' \in Nat /\ minted' \subseteq Docs
  BY DEF Finish, docVars, serverVars, PacksInv
<1>3. QED  BY <1>1, <1>2, QuietAnswer

\* A request dies, and what is stored stays.
LEMMA CrashIsSafe ==
  ASSUME PacksInv, NEW r \in Requests, Crash(r)
  PROVE  Safe
<1>1. Answer(r) /\ UNCHANGED <<pack, created>>
  BY DEF Crash, packVars
<1>2. now' \in Nat /\ minted' \subseteq Docs
  BY DEF Crash, docVars, PacksInv
<1>3. QED  BY <1>1, <1>2, QuietAnswer

\* A step that leaves packs and requests alone.
LEMMA NothingMoves ==
  ASSUME PacksInv, UNCHANGED <<pack, created, req, minted>>, now' \in Nat
  PROVE  Safe
<1>1. RecordsAreGood' /\ RequestsAreGood'
  BY DEF PacksInv, RecordsAreGood, RequestsAreGood
<1>2. \A x \in Packs : Progress(x)
  BY DEF Progress
<1>3. QED  BY <1>1, <1>2 DEF Safe, PacksInv

-----------------------------------------------------------------------------
(* The theorems *)

\* Nothing is stored at first.
LEMMA PacksStart == Init => PacksInv
<1> SUFFICES ASSUME Init PROVE PacksInv
  OBVIOUS
<1>1. now \in Nat /\ minted \subseteq Docs
  BY DEF Init, DocumentInit
<1>2. RecordsAreGood
  BY DEF Init, RecordsAreGood
<1>3. RequestIsGood(pack, created, IdleRequest)
  BY IdleIsRequest, RestIsGood DEF Demanding
<1>4. RequestsAreGood
  BY <1>3 DEF Init, DocumentInit, RequestsAreGood
<1>5. QED  BY <1>1, <1>2, <1>4 DEF PacksInv

\* Every step of the program keeps the invariant and makes progress with the packs.
LEMMA EveryStepIsSafe ==
  ASSUME PacksInv, [Next]_vars
  PROVE  Safe
<1>1. ASSUME NEW r \in Requests,
             (StartDocument(r) \/ StartPack(r) \/ DocumentStep(r)) /\ UNCHANGED packVars
      PROVE  Safe
  BY <1>1, StartDocumentIsSafe, StartPackIsSafe, DocumentStepsAreSafe
<1>2. ASSUME NEW r \in Requests, PackStep(r)
      PROVE  Safe
  BY <1>2, ListPacksIsSafe, InsertPackIsSafe, SupersedeIsSafe, LoadPackIsSafe,
     AssertLinkableIsSafe, UpdatePackIsSafe, LearnIsSafe, CheckSignOffIsSafe,
     KeepInputIsSafe, ListDoomedPacksIsSafe, DeleteDoomedPackIsSafe,
     ListDoomedDocumentsIsSafe, FinishIsSafe
     DEF PackStep
<1>3. ASSUME NEW r \in Requests, Crash(r)
      PROVE  Safe
  BY <1>3, CrashIsSafe
<1>4. ASSUME NEW p \in Packs, DeletePack(p)
      PROVE  Safe
  BY <1>4, DeletePackIsSafe
<1>5. CASE Tick
  BY <1>5, NothingMoves DEF Tick, packVars, docVars, PacksInv
<1>6. CASE UNCHANGED vars
  BY <1>6, NothingMoves DEF vars, packVars, docVars, serverVars, PacksInv
<1>7. QED  BY <1>1, <1>2, <1>3, <1>4, <1>5, <1>6 DEF Next

\* Every record and every request in flight stays good: what a request read of an OPEN pack
\* is what is stored, unless a later revision is (lib/pack-lifecycle.ts, store.update).
THEOREM PacksStayGood == Spec => []PacksInv
<1>1. PacksInv /\ [Next]_vars => PacksInv'
  BY EveryStepIsSafe DEF Safe
<1>2. QED  BY PacksStart, <1>1, PTL DEF Spec

\* The content a reviewer accepted holds the decisions of the record, for any number of
\* reviewers, packs and transactions.
THEOREM SignedDecisionsHold == Spec => []SignedDecisionsAreTheRecords
<1>1. PacksInv => SignedDecisionsAreTheRecords
  BY DEF PacksInv, RecordsAreGood, RecordIsGood, Holds, SignedDecisionsAreTheRecords, Live
<1>2. QED  BY PacksStayGood, <1>1, PTL

\* A signed-off record is never saved again, whatever was read before it was signed.
THEOREM SignedOffPacksAreLocked == Spec => SignedOffIsLocked
<1>1. ASSUME PacksInv, [Next]_vars
      PROVE  [\A p \in Packs : pack[p] # None /\ pack'[p] # None
                               /\ pack[p].status = "SIGNED_OFF" => pack'[p] = pack[p]]_vars
  BY <1>1, EveryStepIsSafe DEF Safe, Progress, PacksInv, RecordsAreGood
<1>2. QED  BY PacksStayGood, <1>1, PTL DEF Spec, SignedOffIsLocked

\* No save loses an answer or a correction, or undoes a sign-off.
THEOREM NoEditIsLost == Spec => EditsLoseNothing
<1>1. ASSUME PacksInv, [Next]_vars
      PROVE  [\A p \in Packs, t \in Txs : pack[p] # None /\ pack'[p] # None =>
               /\ pack[p].answers[t] # None => pack'[p].answers[t] # None
               /\ pack[p].fixes[t] # None => pack'[p].fixes[t] # None]_vars
  BY <1>1, EveryStepIsSafe DEF Safe, Progress, PacksInv, RecordsAreGood, KeepsDecisions
<1>2. Spec => DecisionsAreKept
  BY PacksStayGood, <1>1, PTL DEF Spec, DecisionsAreKept
<1>3. QED  BY SignedOffPacksAreLocked, <1>2 DEF EditsLoseNothing

\* Signing off, superseding and editing never shorten how long a pack is kept.
THEOREM RetentionOnlyGrows == Spec => RetentionNeverShortens
<1>1. ASSUME PacksInv, [Next]_vars
      PROVE  [\A p \in Packs : pack[p] # None /\ pack'[p] # None
                               => pack'[p].expires >= pack[p].expires]_vars
  <2>1. ASSUME NEW p \in Packs, pack[p] # None, pack'[p] # None
        PROVE  pack'[p].expires >= pack[p].expires
    <3>1. p \in created /\ pack[p].expires \in Nat
      BY <1>1, <2>1 DEF PacksInv, RecordsAreGood, RecordIsGood, IsRecord
    <3>2. Progress(p)
      BY <1>1, EveryStepIsSafe DEF Safe
    <3>3. QED  BY <2>1, <3>1, <3>2 DEF Progress, KeepsDecisions
  <2>2. QED  BY <2>1
<1>2. QED  BY PacksStayGood, <1>1, PTL DEF Spec, RetentionNeverShortens

-----------------------------------------------------------------------------
(* Packs, their statements and their receipts, kept and deleted together *)

\* A bounded set of numbers has a largest.
LEMMA BoundedHasMax ==
  ASSUME NEW S \in SUBSET Nat, S # {}, NEW n \in Nat, \A x \in S : x <= n
  PROVE  Max(S) \in S /\ \A x \in S : x <= Max(S)
<1> DEFINE bounds == {u \in Nat : \A x \in S : x <= u}
<1> DEFINE R == OpToRel(<, Nat)
<1>1. bounds \subseteq Nat /\ bounds # {}
  OBVIOUS
<1>2. IsWellFoundedOn(R, Nat)
  BY NatLessThanWellFounded, Zenon
<1>3. \A v \in bounds, u \in bounds : v < u => <<v, u>> \in R
  BY <1>1 DEF OpToRel
<1> HIDE DEF bounds, R
<1>4. PICK u \in bounds : \A v \in bounds : ~(<<v, u>> \in R)
  BY <1>1, <1>2, WFMin
<1>5. \A v \in bounds : ~(v < u)
  BY <1>3, <1>4
<1>6. u \in Nat /\ \A x \in S : x <= u
  BY DEF bounds
<1>7. u \in S
  <2> SUFFICES ASSUME u \notin S PROVE FALSE
    OBVIOUS
  <2>1. \A x \in S : x \in Nat /\ x < u
    BY <1>6
  <2>2. u > 0
    <3>1. PICK x : x \in S
      OBVIOUS
    <3>2. x \in Nat /\ x < u
      BY <2>1, <3>1
    <3>3. QED  BY <1>6, <3>2
  <2>3. u - 1 \in Nat /\ \A x \in S : x <= u - 1
    BY <1>6, <2>1, <2>2
  <2>4. u - 1 \in bounds
    BY <2>3 DEF bounds
  <2>5. QED  BY <1>5, <1>6, <2>4
<1>8. \E x \in S : \A y \in S : x >= y
  BY <1>6, <1>7
<1>9. Max(S) \in S /\ \A y \in S : Max(S) >= y
  BY <1>8 DEF Max
<1>10. Max(S) \in Nat
  BY <1>9
<1>11. QED  BY <1>9, <1>10

\* The record of a document.
DocRecords == [status : Statuses, file : Files, by : Users, expires : Nat]

StoresAreTyped ==
  /\ DOMAIN doc = Docs /\ doc = [d \in Docs |-> doc[d]]
  /\ DOMAIN input = Packs /\ crashes \in Nat
  /\ \A d \in Docs : doc[d] # None => doc[d] \in DocRecords /\ d \in minted

\* Where a request uploads a file, reads a document, holds one it read, keeps receipts, or
\* purges.
Uploading == {"find", "save", "create"}
Opening == {"reviewGet", "scanGet", "readGet"}
Rewriting == {"scanBytes", "setReview", "readBytes", "setRead"}
Keeping == {"keepInput", "keep"}
Purging == {"listPacks", "deletePacks", "listDocs", "deleteBytes", "deleteRecord"}

\* What a request knows of the files however many others run: a document once recorded has
\* an id no upload takes again, so a file that is deleted is not saved again.
KnowsFiles(q) ==
  /\ q.at \in Uploading => q.user \in Users /\ q.file \in Files /\ q.until \in Nat
  /\ q.at = "create" => q.d \in Docs
  /\ q.at \in Opening \cup Rewriting => q.d \in minted
  /\ q.at \in Rewriting => q.rec \in DocRecords
  /\ q.at \in Keeping => q.until \in Nat /\ q.p \in Packs
  /\ q.at \in Purging => q.until \in Nat
  /\ q.at \in {"deleteBytes", "deleteRecord"} => q.todo \subseteq minted
  /\ q.at = "deleteRecord" => q.d \in q.todo /\ q.d \notin bytes

FilesInv ==
  /\ StoresAreTyped
  /\ FilesHaveRecords
  /\ \A r \in Requests : KnowsFiles(req[r])

\* Versions number the packs that are stored.
Versions ==
  /\ \E n \in Nat : \A p \in Live : pack[p].version \in Nat /\ pack[p].version <= n
  /\ \A p, s \in Live : pack[p].version = pack[s].version => p = s

\* Only a pack that the request is about to supersede is OPEN beside a later one.
Latest(q) ==
  crashes = 0 => \A p, s \in Live :
    pack[p].status = "OPEN" /\ pack[s].version > pack[p].version =>
      q.at = "supersede" /\ <<p, pack[p].revision>> \in q.todo

\* A pack has its statement and its receipts, and only those the request is about to keep
\* may expire before the pack.
Kept(q) ==
  crashes = 0 => \A p \in Live :
    /\ \/ q.at = "keepInput" /\ q.p = p
       \/ input[p] \in Nat /\ input[p] >= pack[p].expires
    /\ \A d \in Cited(pack[p]) :
         /\ d \in Docs /\ doc[d] # None
         /\ \/ q.at \in Keeping /\ q.p = p /\ d \in q.todo
            \/ doc[d].expires >= pack[p].expires

\* What a request knows of the stores while no other runs.
KnowsStores(q) ==
  /\ q.at = "create" => doc[q.d] = None
  /\ q.at \in Rewriting => doc[q.d] # None /\ q.rec.expires = doc[q.d].expires
  /\ q.at = "insert" =>
       /\ q.version \in Nat
       /\ \A p \in Live : /\ pack[p].version < q.version
                          /\ pack[p].status = "OPEN" => <<p, pack[p].revision>> \in q.todo
  /\ q.at = "check" => q.op = "sign"
  /\ q.at = "update" /\ q.op = "answer" /\ q.d # None => doc[q.d] # None
  /\ q.at \in Keeping => pack[q.p] = None \/ pack[q.p].expires = q.until
  /\ q.at = "deletePacks" => \A p \in Live : p \in q.todo \/ ~Doomed(q, pack[p].expires)
  /\ q.at = "listDocs" => \A p \in Live : ~Doomed(q, pack[p].expires)
  /\ q.at \in {"deleteBytes", "deleteRecord"} =>
       /\ q.op = "erase" => Live = {} /\ \A d \in Docs : doc[d] # None => d \in q.todo
       /\ crashes = 0 => \A p \in Live : \A d \in Cited(pack[p]) : d \notin q.todo

Orderly(q) == Versions /\ Latest(q) /\ Kept(q) /\ KnowsStores(q)

\* Requests run one after the other, and that is the one that runs, or none does.
OneAtATime ==
  \A r, s \in Requests : req[r] # IdleRequest /\ req[s] # IdleRequest => r = s

Sole(q) == \A s \in Requests : req[s] = q \/ req[s] = IdleRequest

SerialInv ==
  \A q \in {IdleRequest} \cup {req[r] : r \in Requests} : Sole(q) => Orderly(q)

\* What a step of a request does to these: the files and what every request knows of them
\* stay in order, and so do the stores if no other request runs.
Keeps(r) ==
  /\ FilesInv'
  /\ \E m : /\ MovesTo(r, m) /\ (req[r].at # "idle" \/ m.at # "idle")
            /\ Orderly(req[r]) => Orderly(m)'

\* Whoever else runs, a request goes on knowing what it knew of the files.
LEMMA FilesStayKnown ==
  ASSUME minted \subseteq minted', bytes' \cap minted \subseteq bytes, NEW q, KnowsFiles(q)
  PROVE  KnowsFiles(q)'
BY DEF KnowsFiles

\* A step that writes to the stores.
LEMMA FilesMove ==
  ASSUME PacksInv, FilesInv, NEW r \in Requests, NEW m, MovesTo(r, m),
         minted \subseteq minted', bytes' \cap minted \subseteq bytes,
         StoresAreTyped', FilesHaveRecords', KnowsFiles(m)'
  PROVE  FilesInv'
<1>1. DOMAIN req = Requests
  BY DEF PacksInv, RequestsAreGood
<1>2. ASSUME NEW s \in Requests
      PROVE  KnowsFiles(req[s])'
  <2>1. CASE s = r
    <3>1. req'[s] = m
      BY <1>1, <2>1 DEF MovesTo
    <3>2. QED  BY <3>1 DEF KnowsFiles
  <2>2. CASE s # r
    <3>1. req'[s] = req[s] /\ KnowsFiles(req[s])
      BY <1>1, <2>2 DEF MovesTo, FilesInv
    <3>2. PICK q : q = req[s] /\ KnowsFiles(q)
      BY <3>1
    <3>3. KnowsFiles(q)'
      BY <3>2, FilesStayKnown
    <3>4. req'[s] = q
      BY <3>1, <3>2
    <3>5. QED  BY <3>3, <3>4 DEF KnowsFiles
  <2>3. QED  BY <2>1, <2>2
<1>3. QED  BY <1>2 DEF FilesInv

\* A step that leaves the documents alone.
LEMMA FilesRest ==
  ASSUME PacksInv, FilesInv, NEW r \in Requests, NEW m, MovesTo(r, m),
         UNCHANGED docVars, DOMAIN input' = Packs, crashes' \in Nat, KnowsFiles(m)
  PROVE  FilesInv'
<1>1. doc' = doc /\ bytes' = bytes /\ minted' = minted
  BY DEF docVars
<1>2. StoresAreTyped' /\ FilesHaveRecords'
  BY <1>1 DEF FilesInv, StoresAreTyped, FilesHaveRecords
<1>3. minted \subseteq minted' /\ bytes' \cap minted \subseteq bytes
  BY <1>1
<1>4. KnowsFiles(m)'
  BY <1>3, FilesStayKnown
<1>5. QED  BY <1>2, <1>3, <1>4, FilesMove

\* Where a request leaves no store to be put right.
Settled == {"supersede", "keepInput", "keep"}

\* What holds at one place holds at another where the request knows enough.
LEMMA OrderlyElsewhere ==
  ASSUME NEW q, Orderly(q), q.at \notin Settled, NEW m, KnowsStores(m)
  PROVE  Orderly(m)
<1>1. Latest(m)
  BY DEF Orderly, Latest, Settled
<1>2. Kept(m)
  BY DEF Orderly, Kept, Settled, Keeping
<1>3. QED  BY <1>1, <1>2 DEF Orderly

\* What is in order stays so while nothing is written.
LEMMA OrderlyStill ==
  ASSUME UNCHANGED <<pack, input, doc, crashes>>, NEW m, Orderly(m)
  PROVE  Orderly(m)'
<1>1. Live' = Live
  BY DEF Live
<1>2. Versions' /\ Latest(m)'
  BY <1>1 DEF Orderly, Versions, Latest
<1>3. Kept(m)'
  BY <1>1 DEF Orderly, Kept, Cited
<1>4. KnowsStores(m)'
  BY <1>1 DEF Orderly, KnowsStores, Cited, Doomed
<1>5. QED  BY <1>2, <1>3, <1>4 DEF Orderly

\* A step that writes nothing.
LEMMA QuietKeeps ==
  ASSUME PacksInv, FilesInv, NEW r \in Requests, NEW m, MovesTo(r, m),
         UNCHANGED <<docVars, pack, input, crashes>>, KnowsFiles(m),
         req[r].at # "idle" \/ m.at # "idle", Orderly(req[r]) => Orderly(m)
  PROVE  Keeps(r)
<1>1. FilesInv'
  BY FilesRest DEF FilesInv, StoresAreTyped
<1>2. Orderly(req[r]) => Orderly(m)'
  BY OrderlyStill DEF docVars
<1>3. QED  BY <1>1, <1>2 DEF Keeps

\* An idle request knows nothing.
LEMMA IdleKnowsNothing == KnowsFiles(IdleRequest) /\ KnowsStores(IdleRequest)
<1>1. IdleRequest.at = "idle"
  BY IdleIsRequest
<1>2. KnowsFiles(IdleRequest)
  BY <1>1 DEF KnowsFiles, Uploading, Opening, Rewriting, Keeping, Purging
<1>3. KnowsStores(IdleRequest)
  BY <1>1 DEF KnowsStores, Rewriting, Keeping
<1>4. QED  BY <1>2, <1>3

\* A request that is answered, and has written nothing in the step.
LEMMA AnswerKeeps ==
  ASSUME PacksInv, FilesInv, NEW r \in Requests, Answer(r),
         UNCHANGED <<docVars, pack, input, crashes>>,
         req[r].at # "idle", req[r].at \notin Settled
  PROVE  Keeps(r)
<1>1. MovesTo(r, IdleRequest)
  BY AnswerMoves
<1>2. Orderly(req[r]) => Orderly(IdleRequest)
  BY IdleKnowsNothing, OrderlyElsewhere
<1>3. QED  BY <1>1, <1>2, IdleKnowsNothing, QuietKeeps

\* One that goes on, and knows enough there.
LEMMA GotoKeeps ==
  ASSUME PacksInv, FilesInv, NEW r \in Requests, NEW label, label # "idle",
         NEW n, IsRequest(n), Goto(r, label, n),
         UNCHANGED <<docVars, pack, input, crashes>>, req[r].at \notin Settled,
         \A m : m.at = label /\ m.op = n.op /\ SameRegisters(m, n) =>
                  KnowsFiles(m) /\ (Orderly(req[r]) => KnowsStores(m))
  PROVE  Keeps(r)
<1>1. PICK m : /\ MovesTo(r, m) /\ IsRequest(m) /\ m.at = label
               /\ m.op = n.op /\ SameRegisters(m, n)
  BY GotoMoves
<1>2. KnowsFiles(m) /\ (Orderly(req[r]) => KnowsStores(m))
  BY <1>1
<1>3. Orderly(req[r]) => Orderly(m)
  BY <1>2, OrderlyElsewhere
<1>4. QED  BY <1>1, <1>2, <1>3, QuietKeeps

\* One that begins, and knows enough where it begins.
LEMMA BeginKeeps ==
  ASSUME PacksInv, FilesInv, NEW r \in Requests, NEW op, NEW label, label # "idle",
         NEW n, IsRequest(n), Begin(r, op, label, n), UNCHANGED packVars,
         \A m : m.at = label /\ m.op = op /\ SameRegisters(m, n) =>
                  KnowsFiles(m) /\ KnowsStores(m)
  PROVE  Keeps(r)
<1>1. PICK m : /\ MovesTo(r, m) /\ IsRequest(m) /\ m.at = label
               /\ m.op = op /\ SameRegisters(m, n)
  BY BeginMoves
<1>2. UNCHANGED <<docVars, pack, input, crashes>>
  BY BeginMoves DEF packVars, serverVars
<1>3. req[r].at \notin Settled
  BY IdleIsRequest DEF Begin, Settled
<1>4. KnowsFiles(m) /\ KnowsStores(m)
  BY <1>1
<1>5. Orderly(req[r]) => Orderly(m)
  BY <1>3, <1>4, OrderlyElsewhere
<1>6. QED  BY <1>1, <1>2, <1>4, <1>5, QuietKeeps

-----------------------------------------------------------------------------
(* The steps of documents *)

\* A document a pack cites stays, and expires when it did.
LEMMA KeptByDocuments ==
  ASSUME UNCHANGED <<pack, input, crashes>>, NEW q, Kept(q), q.at \notin Settled, NEW m,
         \A d \in Docs : doc[d] # None => doc'[d] # None /\ doc'[d].expires = doc[d].expires
  PROVE  Kept(m)'
<1>1. Live' = Live
  BY DEF Live
<1>2. ASSUME crashes = 0, NEW p \in Live
      PROVE  /\ input[p] \in Nat /\ input[p] >= pack[p].expires
             /\ \A d \in Cited(pack[p]) : /\ d \in Docs /\ doc'[d] # None
                                          /\ doc'[d].expires >= pack[p].expires
  <2>1. /\ input[p] \in Nat /\ input[p] >= pack[p].expires
        /\ \A d \in Cited(pack[p]) : /\ d \in Docs /\ doc[d] # None
                                     /\ doc[d].expires >= pack[p].expires
    BY <1>2 DEF Kept, Settled, Keeping
  <2>2. QED  BY <2>1
<1>3. QED  BY <1>1, <1>2 DEF Kept, Cited

\* A step that writes to the documents.
LEMMA DocumentsKeep ==
  ASSUME PacksInv, FilesInv, NEW r \in Requests, NEW m, MovesTo(r, m),
         UNCHANGED <<pack, input, crashes>>, req[r].at \notin {"idle", "supersede"},
         minted \subseteq minted', bytes' \cap minted \subseteq bytes,
         StoresAreTyped', FilesHaveRecords', KnowsFiles(m)',
         Orderly(req[r]) => KnowsStores(m)' /\ Kept(m)'
  PROVE  Keeps(r)
<1>1. FilesInv'
  BY FilesMove
<1>2. ASSUME Orderly(req[r])
      PROVE  Orderly(m)'
  <2>1. Live' = Live
    BY DEF Live
  <2>2. Versions'
    BY <1>2, <2>1 DEF Orderly, Versions
  <2>3. Latest(m)'
    BY <1>2, <2>1 DEF Orderly, Latest
  <2>4. QED  BY <1>2, <2>2, <2>3 DEF Orderly
<1>3. QED  BY <1>1, <1>2 DEF Keeps

\* uploadDocument looks the file up.
LEMMA FindByShaKeeps ==
  ASSUME PacksInv, FilesInv, NEW r \in Requests, FindBySha(r), UNCHANGED packVars
  PROVE  Keeps(r)
<1> DEFINE q == req[r]
<1>1. q.at = "find" /\ UNCHANGED <<docVars, pack, input, crashes>>
  BY DEF FindBySha, At, Reads, packVars, serverVars
<1>2. IsRequest(q) /\ KnowsFiles(q)
  BY RequestsHold DEF FilesInv
<1>3. q.at # "idle" /\ q.at \notin Settled
  BY <1>1 DEF Settled
<1>4. CASE Answer(r)
  BY <1>1, <1>3, <1>4, AnswerKeeps
<1>5. CASE Goto(r, "save", q)
  <2>1. ASSUME NEW m, m.at = "save", SameRegisters(m, q)
        PROVE  KnowsFiles(m) /\ KnowsStores(m)
    BY <1>1, <1>2, <2>1 DEF SameRegisters, KnowsFiles, KnowsStores, Uploading, Opening,
       Rewriting, Keeping, Purging
  <2>2. QED  BY <1>1, <1>2, <1>3, <1>5, <2>1, GotoKeeps
<1>6. QED  BY <1>4, <1>5 DEF FindBySha

\* It saves the file under an id that was never recorded.
LEMMA SaveBytesKeeps ==
  ASSUME PacksInv, FilesInv, NEW r \in Requests, SaveBytes(r), UNCHANGED packVars
  PROVE  Keeps(r)
<1> DEFINE q == req[r]
<1>1. /\ q.at = "save" /\ doc' = doc /\ minted' = minted
      /\ pack' = pack /\ input' = input /\ crashes' = crashes
  BY DEF SaveBytes, At, packVars, serverVars
<1>2. IsRequest(q) /\ KnowsFiles(q)
  BY RequestsHold DEF FilesInv
<1>3. PICK d \in Docs \ (bytes \cup minted) : /\ bytes' = bytes \cup {d}
                                              /\ Goto(r, "create", [q EXCEPT !.d = d])
  BY DEF SaveBytes
<1> DEFINE n == [q EXCEPT !.d = d]
<1>4. /\ Goto(r, "create", n) /\ IsRequest(n) /\ n.d = d
      /\ n.user = q.user /\ n.file = q.file /\ n.until = q.until
  BY <1>2, <1>3 DEF IsRequest
<1> HIDE DEF n
<1>5. PICK m : /\ MovesTo(r, m) /\ m.at = "create" /\ m.d = d
               /\ m.user = q.user /\ m.file = q.file /\ m.until = q.until
  BY <1>4, GotoMoves DEF SameRegisters
<1>6. minted \subseteq minted' /\ bytes' \cap minted \subseteq bytes
  BY <1>1, <1>3
<1>7. StoresAreTyped' /\ FilesHaveRecords'
  BY <1>1, <1>3 DEF FilesInv, StoresAreTyped, FilesHaveRecords
<1>8. KnowsFiles(m)
  BY <1>1, <1>2, <1>5 DEF KnowsFiles, Uploading, Opening, Rewriting, Keeping, Purging
<1>9. KnowsFiles(m)'
  BY <1>6, <1>8, FilesStayKnown
<1>10. doc'[d] = None
  BY <1>1, <1>3 DEF FilesInv, StoresAreTyped
<1>11. KnowsStores(m)'
  BY <1>5, <1>10 DEF KnowsStores, Rewriting, Keeping
<1>12. q.at \notin Settled /\ q.at \notin {"idle", "supersede"}
  BY <1>1 DEF Settled
<1>13. Orderly(q) => Kept(m)'
  BY <1>1, <1>12, KeptByDocuments DEF Orderly
<1>14. QED  BY <1>1, <1>5, <1>6, <1>7, <1>9, <1>11, <1>12, <1>13, DocumentsKeep

\* It records the document.
LEMMA CreateDocumentKeeps ==
  ASSUME PacksInv, FilesInv, NEW r \in Requests, CreateDocument(r), UNCHANGED packVars
  PROVE  Keeps(r)
<1> DEFINE q == req[r]
<1> DEFINE rec == [status |-> IF mode = "LAB" THEN "CLEAN" ELSE "QUARANTINED",
                   file |-> q.file, by |-> q.user, expires |-> q.until]
<1>1. /\ q.at = "create" /\ doc' = [doc EXCEPT ![q.d] = rec]
      /\ minted' = minted \cup {q.d} /\ bytes' = bytes
      /\ pack' = pack /\ input' = input /\ crashes' = crashes
  BY DEF CreateDocument, At, packVars, serverVars
<1>2. IsRequest(q) /\ KnowsFiles(q)
  BY RequestsHold DEF FilesInv
<1>3. q.d \in Docs /\ rec \in DocRecords
  BY <1>1, <1>2 DEF KnowsFiles, Uploading, DocRecords, Statuses
<1> HIDE DEF rec
<1>4. rec # None
  BY <1>3, NoneAssumption DEF DocRecords
<1>5. minted \subseteq minted' /\ bytes' \cap minted \subseteq bytes
  BY <1>1
<1>6. /\ DOMAIN doc = Docs /\ DOMAIN doc' = Docs /\ doc'[q.d] = rec
      /\ \A d \in Docs \ {q.d} : doc'[d] = doc[d]
  BY <1>1, <1>3 DEF FilesInv, StoresAreTyped
<1>7. StoresAreTyped'
  BY <1>1, <1>3, <1>6 DEF FilesInv, StoresAreTyped
<1>8. FilesHaveRecords'
  BY <1>1, <1>4, <1>6 DEF FilesInv, StoresAreTyped, FilesHaveRecords
<1>9. q.at \notin Settled /\ q.at \notin {"idle", "supersede"}
  BY <1>1 DEF Settled
<1>10. ASSUME Orderly(q)
       PROVE  \A m : Kept(m)'
  <2>1. doc[q.d] = None
    BY <1>1, <1>10 DEF Orderly, KnowsStores
  <2>2. \A d \in Docs : doc[d] # None => doc'[d] # None /\ doc'[d].expires = doc[d].expires
    BY <1>6, <2>1
  <2>3. QED  BY <1>1, <1>9, <1>10, <2>2, KeptByDocuments DEF Orderly
<1>11. PICK m : /\ MovesTo(r, m)
                /\ \/ m = IdleRequest
                   \/ m.at \in {"readGet", "scanGet"} /\ m.d = q.d
  <2>1. CASE Answer(r)
    BY <2>1, AnswerMoves
  <2>2. ASSUME NEW label \in {"readGet", "scanGet"}, Goto(r, label, q)
        PROVE  \E m : MovesTo(r, m) /\ m.at \in {"readGet", "scanGet"} /\ m.d = q.d
    BY <1>2, <2>2, GotoMoves DEF SameRegisters
  <2>3. QED  BY <2>1, <2>2 DEF CreateDocument
<1>12. KnowsFiles(m)' /\ KnowsStores(m)'
  <2>1. CASE m = IdleRequest
    <3>1. m.at = "idle"
      BY <2>1, IdleIsRequest
    <3>2. QED
      BY <3>1 DEF KnowsFiles, KnowsStores, Uploading, Opening, Rewriting, Keeping, Purging
  <2>2. CASE m.at \in {"readGet", "scanGet"} /\ m.d = q.d
    BY <1>1, <2>2 DEF KnowsFiles, KnowsStores, Uploading, Opening, Rewriting, Keeping, Purging
  <2>3. QED  BY <1>11, <2>1, <2>2
<1>13. QED
  BY <1>1, <1>5, <1>7, <1>8, <1>9, <1>10, <1>11, <1>12, DocumentsKeep

\* What the invariant says of a document that is recorded.
LEMMA RecordedDocument ==
  ASSUME FilesInv, NEW d \in minted, doc[d] # None, minted \subseteq Docs
  PROVE  d \in Docs /\ doc[d] \in DocRecords
BY DEF FilesInv, StoresAreTyped

\* A request that holds the record of the document it read, perhaps with a decision.
LEMMA RewritingKeeps ==
  ASSUME PacksInv, FilesInv, NEW r \in Requests, NEW label \in Rewriting,
         NEW n, IsRequest(n), Goto(r, label, n),
         UNCHANGED <<docVars, pack, input, crashes>>, req[r].at \notin Settled,
         n.d \in minted, n.rec \in DocRecords,
         Orderly(req[r]) => doc[n.d] # None /\ n.rec.expires = doc[n.d].expires
  PROVE  Keeps(r)
<1>1. ASSUME NEW m, m.at = label, SameRegisters(m, n)
      PROVE  KnowsFiles(m) /\ (Orderly(req[r]) => KnowsStores(m))
  <2>1. m.d = n.d /\ m.rec = n.rec
    BY <1>1 DEF SameRegisters
  <2>2. KnowsFiles(m)
    BY <1>1, <2>1 DEF KnowsFiles, Uploading, Opening, Rewriting, Keeping, Purging
  <2>3. Orderly(req[r]) => KnowsStores(m)
    BY <1>1, <2>1 DEF KnowsStores, Rewriting, Keeping
  <2>4. QED  BY <2>2, <2>3
<1>2. label # "idle"
  BY DEF Rewriting
<1>3. QED  BY <1>1, <1>2, GotoKeeps

\* A request that goes on to read the document.
LEMMA ReadGetNextKeeps ==
  ASSUME PacksInv, FilesInv, NEW r \in Requests, Goto(r, "readGet", req[r]),
         UNCHANGED <<docVars, pack, input, crashes>>, req[r].at \notin Settled,
         req[r].d \in minted
  PROVE  Keeps(r)
<1>1. ASSUME NEW m, m.at = "readGet", SameRegisters(m, req[r])
      PROVE  KnowsFiles(m) /\ KnowsStores(m)
  BY <1>1 DEF SameRegisters, KnowsFiles, KnowsStores, Uploading, Opening, Rewriting, Keeping,
     Purging
<1>2. IsRequest(req[r])
  BY RequestsHold
<1>3. QED  BY <1>1, <1>2, GotoKeeps

\* reviewDocument and readDocument read the record, scanDocument reads it or goes on to
\* readDocument.
LEMMA OpeningKeeps ==
  ASSUME PacksInv, FilesInv, NEW r \in Requests, ReviewGet(r) \/ ScanGet(r) \/ ReadGet(r),
         UNCHANGED packVars
  PROVE  Keeps(r)
<1> DEFINE q == req[r]
<1>1. /\ q.at \in Opening /\ UNCHANGED <<docVars, pack, input, crashes>>
  BY DEF ReviewGet, ScanGet, ReadGet, At, Reads, packVars, serverVars, Opening
<1>2. IsRequest(q) /\ q.d \in minted /\ minted \subseteq Docs
  BY <1>1, RequestsHold DEF FilesInv, KnowsFiles, PacksInv
<1>3. q.at # "idle" /\ q.at \notin Settled
  BY <1>1 DEF Opening, Settled
<1>4. CASE Answer(r)
  BY <1>1, <1>3, <1>4, AnswerKeeps
<1>5. CASE Goto(r, "readGet", q)
  BY <1>1, <1>2, <1>3, <1>5, ReadGetNextKeeps
<1>6. ASSUME doc[q.d] # None, NEW label \in Rewriting, NEW status \in Statuses,
             NEW rec, Goto(r, label, [q EXCEPT !.rec = rec]),
             rec = doc[q.d] \/ rec = [doc[q.d] EXCEPT !.status = status]
      PROVE  Keeps(r)
  <2>1. doc[q.d] \in DocRecords
    BY <1>2, <1>6, RecordedDocument
  <2>2. rec \in DocRecords /\ rec.expires = doc[q.d].expires
    BY <1>6, <2>1 DEF DocRecords
  <2> DEFINE n == [q EXCEPT !.rec = rec]
  <2>3. Goto(r, label, n) /\ IsRequest(n) /\ n.d = q.d /\ n.rec = rec
    BY <1>2, <1>6 DEF IsRequest
  <2> HIDE DEF n
  <2>4. n.d \in minted /\ n.rec \in DocRecords
    BY <1>2, <2>2, <2>3
  <2>5. doc[n.d] # None /\ n.rec.expires = doc[n.d].expires
    BY <1>6, <2>2, <2>3
  <2>6. QED  BY <1>1, <1>3, <2>3, <2>4, <2>5, RewritingKeeps
<1>7. CASE ReviewGet(r)
  <2>1. \/ Answer(r)
        \/ /\ doc[q.d] # None
           /\ \E decision \in {"CLEAN", "REJECTED"} :
                Goto(r, "setReview", [q EXCEPT !.rec = [doc[q.d] EXCEPT !.status = decision]])
    BY <1>7 DEF ReviewGet, Reviewable
  <2>2. "setReview" \in Rewriting /\ {"CLEAN", "REJECTED"} \subseteq Statuses
    BY DEF Rewriting, Statuses
  <2>3. QED  BY <1>4, <1>6, <2>1, <2>2
<1>8. CASE ScanGet(r)
  <2>1. \/ Answer(r) \/ Goto(r, "readGet", q)
        \/ doc[q.d] # None /\ Goto(r, "scanBytes", [q EXCEPT !.rec = doc[q.d]])
    BY <1>8 DEF ScanGet, Reviewable
  <2>2. "scanBytes" \in Rewriting /\ "CLEAN" \in Statuses
    BY DEF Rewriting, Statuses
  <2>3. QED  BY <1>4, <1>5, <1>6, <2>1, <2>2
<1>9. CASE ReadGet(r)
  <2>1. \/ Answer(r)
        \/ doc[q.d] # None /\ Goto(r, "readBytes", [q EXCEPT !.rec = doc[q.d]])
    BY <1>9 DEF ReadGet
  <2>2. "readBytes" \in Rewriting /\ "CLEAN" \in Statuses
    BY DEF Rewriting, Statuses
  <2>3. QED  BY <1>4, <1>6, <2>1, <2>2
<1>10. QED  BY <1>7, <1>8, <1>9

\* The scanner decides, or the file is read; the record is the one that was read.
LEMMA BytesKeeps ==
  ASSUME PacksInv, FilesInv, NEW r \in Requests, ScanBytes(r) \/ ReadBytes(r),
         UNCHANGED packVars
  PROVE  Keeps(r)
<1> DEFINE q == req[r]
<1>1. q.at \in {"scanBytes", "readBytes"} /\ UNCHANGED <<docVars, pack, input, crashes>>
  BY DEF ScanBytes, ReadBytes, At, Reads, packVars, serverVars
<1>2. IsRequest(q) /\ q.d \in minted /\ q.rec \in DocRecords
  BY <1>1, RequestsHold DEF FilesInv, KnowsFiles, Rewriting
<1>3. q.at # "idle" /\ q.at \notin Settled
  BY <1>1 DEF Settled
<1>4. Orderly(q) => doc[q.d] # None /\ q.rec.expires = doc[q.d].expires
  BY <1>1 DEF Orderly, KnowsStores, Rewriting
<1>5. CASE Answer(r)
  BY <1>1, <1>3, <1>5, AnswerKeeps
<1>6. CASE ScanBytes(r) /\ ~Answer(r)
  <2>1. PICK verdict \in Statuses :
          Goto(r, "setReview", [q EXCEPT !.rec = [q.rec EXCEPT !.status = verdict]])
    BY <1>6 DEF ScanBytes
  <2> DEFINE rec == [q.rec EXCEPT !.status = verdict]
  <2> DEFINE n == [q EXCEPT !.rec = rec]
  <2>2. rec \in DocRecords /\ rec.expires = q.rec.expires
    BY <1>2 DEF DocRecords
  <2>3. Goto(r, "setReview", n)
    BY <2>1
  <2> HIDE DEF rec
  <2>4. IsRequest(n) /\ n.d = q.d /\ n.rec = rec
    BY <1>2 DEF IsRequest
  <2> HIDE DEF n
  <2>5. "setReview" \in Rewriting
    BY DEF Rewriting
  <2>6. n.d \in minted /\ n.rec \in DocRecords
    BY <1>2, <2>2, <2>4
  <2>7. Orderly(q) => doc[n.d] # None /\ n.rec.expires = doc[n.d].expires
    BY <1>4, <2>2, <2>4
  <2>8. QED  BY <1>1, <1>3, <2>3, <2>4, <2>5, <2>6, <2>7, RewritingKeeps
<1>7. CASE Goto(r, "setRead", q)
  <2>1. "setRead" \in Rewriting
    BY DEF Rewriting
  <2>2. QED  BY <1>1, <1>2, <1>3, <1>4, <1>7, <2>1, RewritingKeeps
<1>8. QED  BY <1>5, <1>6, <1>7 DEF ReadBytes

\* The whole record is set as it was read: no document appears that has no record, and none
\* that a pack cites expires earlier while no other request runs.
LEMMA SetRecordKeeps ==
  ASSUME PacksInv, FilesInv, NEW r \in Requests, SetReview(r) \/ SetRead(r),
         UNCHANGED packVars
  PROVE  Keeps(r)
<1> DEFINE q == req[r]
<1>1. /\ q.at \in {"setReview", "setRead"} /\ doc' = [doc EXCEPT ![q.d] = q.rec]
      /\ minted' = minted /\ bytes' = bytes
      /\ pack' = pack /\ input' = input /\ crashes' = crashes
  BY DEF SetReview, SetRead, SetDocument, At, packVars, serverVars
<1>2. IsRequest(q) /\ q.d \in minted /\ q.rec \in DocRecords /\ minted \subseteq Docs
  BY <1>1, RequestsHold DEF FilesInv, KnowsFiles, Rewriting, PacksInv
<1>3. q.rec # None
  BY <1>2, NoneAssumption DEF DocRecords
<1>4. /\ DOMAIN doc = Docs /\ DOMAIN doc' = Docs /\ doc'[q.d] = q.rec
      /\ \A d \in Docs \ {q.d} : doc'[d] = doc[d]
  BY <1>1, <1>2 DEF FilesInv, StoresAreTyped
<1>5. minted \subseteq minted' /\ bytes' \cap minted \subseteq bytes
  BY <1>1
<1>6. StoresAreTyped'
  BY <1>1, <1>2, <1>4 DEF FilesInv, StoresAreTyped
<1>7. FilesHaveRecords'
  BY <1>1, <1>2, <1>3, <1>4 DEF FilesInv, FilesHaveRecords
<1>8. q.at \notin Settled /\ q.at \notin {"idle", "supersede"}
  BY <1>1 DEF Settled
<1>9. ASSUME Orderly(q)
      PROVE  \A m : Kept(m)'
  <2>1. doc[q.d] # None /\ q.rec.expires = doc[q.d].expires
    BY <1>1, <1>9 DEF Orderly, KnowsStores, Rewriting
  <2>2. \A d \in Docs : doc[d] # None => doc'[d] # None /\ doc'[d].expires = doc[d].expires
    BY <1>3, <1>4, <2>1
  <2>3. QED  BY <1>1, <1>8, <1>9, <2>2, KeptByDocuments DEF Orderly
<1>10. PICK m : /\ MovesTo(r, m)
                /\ \/ m = IdleRequest
                   \/ m.at = "readGet" /\ m.d = q.d
  <2>1. CASE Answer(r)
    BY <2>1, AnswerMoves
  <2>2. CASE Goto(r, "readGet", q)
    BY <1>2, <2>2, GotoMoves DEF SameRegisters
  <2>3. QED  BY <2>1, <2>2 DEF SetReview, SetRead
<1>11. KnowsFiles(m)' /\ KnowsStores(m)'
  <2>1. CASE m = IdleRequest
    <3>1. m.at = "idle"
      BY <2>1, IdleIsRequest
    <3>2. QED
      BY <3>1 DEF KnowsFiles, KnowsStores, Uploading, Opening, Rewriting, Keeping, Purging
  <2>2. CASE m.at = "readGet" /\ m.d = q.d
    BY <1>1, <1>2, <2>2 DEF KnowsFiles, KnowsStores, Uploading, Opening, Rewriting, Keeping,
       Purging
  <2>3. QED  BY <1>10, <2>1, <2>2
<1>12. QED
  BY <1>1, <1>5, <1>6, <1>7, <1>8, <1>9, <1>10, <1>11, DocumentsKeep

\* The file of a document goes before its record.
LEMMA DeleteBytesKeeps ==
  ASSUME PacksInv, FilesInv, NEW r \in Requests, DeleteBytes(r), UNCHANGED packVars
  PROVE  Keeps(r)
<1> DEFINE q == req[r]
<1>1. /\ q.at = "deleteBytes" /\ doc' = doc /\ minted' = minted
      /\ pack' = pack /\ input' = input /\ crashes' = crashes
  BY DEF DeleteBytes, At, packVars, serverVars
<1>2. IsRequest(q) /\ q.until \in Nat /\ q.todo \subseteq minted
  BY <1>1, RequestsHold DEF FilesInv, KnowsFiles, Purging
<1>3. PICK d \in q.todo : /\ bytes' = bytes \ {d}
                          /\ Goto(r, "deleteRecord", [q EXCEPT !.d = d])
  BY DEF DeleteBytes
<1> DEFINE n == [q EXCEPT !.d = d]
<1>4. /\ Goto(r, "deleteRecord", n) /\ IsRequest(n) /\ n.d = d
      /\ n.op = q.op /\ n.until = q.until /\ n.todo = q.todo
  BY <1>2, <1>3 DEF IsRequest
<1> HIDE DEF n
<1>5. PICK m : /\ MovesTo(r, m) /\ m.at = "deleteRecord" /\ m.op = q.op /\ m.d = d
               /\ m.until = q.until /\ m.todo = q.todo
  BY <1>4, GotoMoves DEF SameRegisters
<1>6. minted \subseteq minted' /\ bytes' \cap minted \subseteq bytes
  BY <1>1, <1>3
<1>7. StoresAreTyped' /\ FilesHaveRecords'
  BY <1>1, <1>3 DEF FilesInv, StoresAreTyped, FilesHaveRecords
<1>8. KnowsFiles(m)'
  BY <1>1, <1>2, <1>3, <1>5
     DEF KnowsFiles, Uploading, Opening, Rewriting, Keeping, Purging
<1>9. q.at \notin Settled /\ q.at \notin {"idle", "supersede"}
  BY <1>1 DEF Settled
<1>10. ASSUME Orderly(q)
       PROVE  KnowsStores(m)' /\ Kept(m)'
  <2>1. Live' = Live
    BY <1>1 DEF Live
  <2>2. KnowsStores(m)'
    BY <1>1, <1>5, <1>10, <2>1 DEF Orderly, KnowsStores, Rewriting, Keeping, Cited
  <2>3. Kept(m)'
    BY <1>1, <1>9, <1>10, KeptByDocuments DEF Orderly
  <2>4. QED  BY <2>2, <2>3
<1>11. QED  BY <1>1, <1>5, <1>6, <1>7, <1>8, <1>9, <1>10, DocumentsKeep

\* The record of a document whose file is gone is deleted; no pack cites it.
LEMMA DeleteRecordKeeps ==
  ASSUME PacksInv, FilesInv, NEW r \in Requests, DeleteRecord(r), UNCHANGED packVars
  PROVE  Keeps(r)
<1> DEFINE q == req[r]
<1>1. /\ q.at = "deleteRecord" /\ doc' = [doc EXCEPT ![q.d] = None]
      /\ minted' = minted /\ bytes' = bytes
      /\ pack' = pack /\ input' = input /\ crashes' = crashes
      /\ Goto(r, "deleteBytes", [q EXCEPT !.todo = @ \ {q.d}])
  BY DEF DeleteRecord, SetDocument, At, packVars, serverVars
<1>2. /\ IsRequest(q) /\ q.until \in Nat /\ q.todo \subseteq minted
      /\ q.d \in q.todo /\ q.d \notin bytes /\ minted \subseteq Docs
  BY <1>1, RequestsHold DEF FilesInv, KnowsFiles, Purging, PacksInv
<1> DEFINE n == [q EXCEPT !.todo = @ \ {q.d}]
<1>3. /\ Goto(r, "deleteBytes", n) /\ IsRequest(n)
      /\ n.op = q.op /\ n.until = q.until /\ n.todo = q.todo \ {q.d}
  BY <1>1, <1>2 DEF IsRequest
<1> HIDE DEF n
<1>4. PICK m : /\ MovesTo(r, m) /\ m.at = "deleteBytes" /\ m.op = q.op
               /\ m.until = q.until /\ m.todo = q.todo \ {q.d}
  BY <1>3, GotoMoves DEF SameRegisters
<1>5. /\ DOMAIN doc = Docs /\ DOMAIN doc' = Docs /\ doc'[q.d] = None
      /\ \A d \in Docs \ {q.d} : doc'[d] = doc[d]
  BY <1>1, <1>2 DEF FilesInv, StoresAreTyped
<1>6. minted \subseteq minted' /\ bytes' \cap minted \subseteq bytes
  BY <1>1
<1>7. StoresAreTyped'
  BY <1>1, <1>5 DEF FilesInv, StoresAreTyped
<1>8. FilesHaveRecords'
  BY <1>1, <1>2, <1>5 DEF FilesInv, StoresAreTyped, FilesHaveRecords
<1>9. KnowsFiles(m)'
  BY <1>1, <1>2, <1>4 DEF KnowsFiles, Uploading, Opening, Rewriting, Keeping, Purging
<1>10. q.at \notin {"idle", "supersede"}
  BY <1>1
<1>11. ASSUME Orderly(q)
       PROVE  KnowsStores(m)' /\ Kept(m)'
  <2>1. Live' = Live
    BY <1>1 DEF Live
  <2>2. q.op = "erase" => Live = {} /\ \A d \in Docs : doc[d] # None => d \in q.todo
    BY <1>1, <1>11 DEF Orderly, KnowsStores
  <2>3. crashes = 0 => \A p \in Live : \A d \in Cited(pack[p]) : d \notin q.todo
    BY <1>1, <1>11 DEF Orderly, KnowsStores
  <2>4. q.op = "erase" => \A d \in Docs : doc'[d] # None => d \in q.todo \ {q.d}
    BY <1>5, <2>2
  <2>5. KnowsStores(m)'
    BY <1>1, <1>4, <2>1, <2>2, <2>3, <2>4 DEF KnowsStores, Rewriting, Keeping, Cited
  <2>6. ASSUME crashes = 0, NEW p \in Live
        PROVE  /\ input[p] \in Nat /\ input[p] >= pack[p].expires
               /\ \A d \in Cited(pack[p]) : /\ d \in Docs /\ doc'[d] # None
                                            /\ doc'[d].expires >= pack[p].expires
    <3>1. /\ input[p] \in Nat /\ input[p] >= pack[p].expires
          /\ \A d \in Cited(pack[p]) : /\ d \in Docs /\ doc[d] # None
                                       /\ doc[d].expires >= pack[p].expires
      BY <1>1, <1>11, <2>6 DEF Orderly, Kept, Keeping
    <3>2. QED  BY <1>2, <1>5, <2>3, <2>6, <3>1
  <2>7. Kept(m)'
    BY <1>1, <2>1, <2>6 DEF Kept, Cited
  <2>8. QED  BY <2>5, <2>7
<1>12. QED  BY <1>1, <1>4, <1>6, <1>7, <1>8, <1>9, <1>10, <1>11, DocumentsKeep

\* extendExpiry only ever lengthens, and at least to what it was asked for.
LEMMA ExtendedDocuments ==
  ASSUME FilesInv, NEW d, NEW until \in Nat, ExtendExpiry(d, until)
  PROVE  /\ DOMAIN doc' = Docs /\ doc' = [x \in Docs |-> doc'[x]]
         /\ \A x \in Docs : doc[x] = None => doc'[x] = None
         /\ \A x \in Docs : doc[x] # None =>
              /\ doc'[x] \in DocRecords /\ doc'[x].expires >= doc[x].expires
              /\ x = d => doc'[x].expires >= until
<1>1. /\ DOMAIN doc = Docs /\ doc = [x \in Docs |-> doc[x]]
      /\ \A x \in Docs : doc[x] # None => doc[x] \in DocRecords
  BY DEF FilesInv, StoresAreTyped
<1>2. \A x \in Docs : doc[x] # None => doc[x].expires \in Nat
  BY <1>1 DEF DocRecords
<1>3. CASE doc[d] # None /\ until > doc[d].expires
  <2> DEFINE rec == [doc[d] EXCEPT !.expires = until]
  <2>1. doc' = [doc EXCEPT ![d] = rec]
    BY <1>3 DEF ExtendExpiry
  <2>2. d \in Docs => rec \in DocRecords /\ rec.expires = until
    BY <1>1, <1>3 DEF DocRecords
  <2>3. d \in Docs => rec # None
    BY <2>2, NoneAssumption DEF DocRecords
  <2> HIDE DEF rec
  <2>4. /\ DOMAIN doc' = Docs /\ doc' = [x \in Docs |-> doc'[x]]
        /\ \A x \in Docs : doc'[x] = IF x = d THEN rec ELSE doc[x]
    BY <1>1, <2>1
  <2>5. d \in Docs => doc[d].expires <= until
    BY <1>2, <1>3
  <2>6. QED  BY <1>1, <1>2, <1>3, <2>2, <2>3, <2>4, <2>5
<1>4. CASE ~(doc[d] # None /\ until > doc[d].expires)
  <2>1. doc' = doc
    BY <1>4 DEF ExtendExpiry
  <2>2. d \in Docs /\ doc[d] # None => doc[d].expires >= until
    BY <1>2, <1>4
  <2>3. QED  BY <1>1, <1>2, <2>1, <2>2
<1>5. QED  BY <1>3, <1>4

\* keepDocumentsUntil keeps one receipt after the other at least as long as the pack.
LEMMA KeepKeeps ==
  ASSUME PacksInv, FilesInv, NEW r \in Requests, Keep(r), UNCHANGED packVars
  PROVE  Keeps(r)
<1> DEFINE q == req[r]
<1>1. /\ q.at = "keep" /\ bytes' = bytes /\ minted' = minted
      /\ pack' = pack /\ input' = input /\ crashes' = crashes
  BY DEF Keep, At, packVars, serverVars
<1>2. IsRequest(q) /\ q.until \in Nat /\ q.p \in Packs
  BY <1>1, RequestsHold DEF FilesInv, KnowsFiles, Keeping
<1>3. CASE q.todo = {} /\ Answer(r) /\ UNCHANGED doc
  <2>1. MovesTo(r, IdleRequest)
    BY <1>3, AnswerMoves
  <2>2. ASSUME Orderly(q)
        PROVE  Orderly(IdleRequest)
    <3>1. Latest(IdleRequest)
      BY <1>1, <2>2 DEF Orderly, Latest
    <3>2. Kept(IdleRequest)
      BY <1>1, <1>3, <2>2 DEF Orderly, Kept
    <3>3. QED  BY <2>2, <3>1, <3>2, IdleKnowsNothing DEF Orderly
  <2>3. UNCHANGED <<docVars, pack, input, crashes>>
    BY <1>1, <1>3 DEF docVars
  <2>4. QED  BY <1>1, <2>1, <2>2, <2>3, IdleKnowsNothing, QuietKeeps
<1>4. ASSUME NEW d \in q.todo, ExtendExpiry(d, q.until),
             Goto(r, "keep", [q EXCEPT !.todo = @ \ {d}])
      PROVE  Keeps(r)
  <2> DEFINE n == [q EXCEPT !.todo = @ \ {d}]
  <2>1. /\ Goto(r, "keep", n) /\ IsRequest(n)
        /\ n.p = q.p /\ n.until = q.until /\ n.todo = q.todo \ {d}
    BY <1>2, <1>4 DEF IsRequest
  <2> HIDE DEF n
  <2>2. PICK m : /\ MovesTo(r, m) /\ m.at = "keep"
                 /\ m.p = q.p /\ m.until = q.until /\ m.todo = q.todo \ {d}
    BY <2>1, GotoMoves DEF SameRegisters
  <2>3. /\ DOMAIN doc' = Docs /\ doc' = [x \in Docs |-> doc'[x]]
        /\ \A x \in Docs : doc[x] = None => doc'[x] = None
        /\ \A x \in Docs : doc[x] # None =>
             /\ doc'[x] \in DocRecords /\ doc'[x].expires >= doc[x].expires
             /\ x = d => doc'[x].expires >= q.until
    BY <1>2, <1>4, ExtendedDocuments
  <2>4. \A x \in Docs : doc[x] # None => /\ doc'[x] # None
                                         /\ doc[x].expires \in Nat /\ doc'[x].expires \in Nat
    BY <2>3, NoneAssumption DEF DocRecords, FilesInv, StoresAreTyped
  <2>5. minted \subseteq minted' /\ bytes' \cap minted \subseteq bytes
    BY <1>1
  <2>6. StoresAreTyped'
    BY <1>1, <2>3 DEF FilesInv, StoresAreTyped
  <2>7. FilesHaveRecords'
    BY <1>1, <2>4 DEF FilesInv, FilesHaveRecords, PacksInv
  <2>8. KnowsFiles(m)'
    BY <1>2, <2>2 DEF KnowsFiles, Uploading, Opening, Rewriting, Keeping, Purging
  <2>9. ASSUME Orderly(q)
        PROVE  KnowsStores(m)' /\ Kept(m)'
    <3>1. Live' = Live
      BY <1>1 DEF Live
    <3>2. pack[q.p] = None \/ pack[q.p].expires = q.until
      BY <1>1, <2>9 DEF Orderly, KnowsStores, Keeping
    <3>3. KnowsStores(m)'
      BY <1>1, <2>2, <3>2 DEF KnowsStores, Rewriting, Keeping
    <3>4. ASSUME crashes = 0, NEW p \in Live
          PROVE  /\ input[p] \in Nat /\ input[p] >= pack[p].expires
                 /\ \A x \in Cited(pack[p]) :
                      /\ x \in Docs /\ doc'[x] # None
                      /\ \/ q.p = p /\ x \in q.todo \ {d}
                         \/ doc'[x].expires >= pack[p].expires
      <4>1. /\ input[p] \in Nat /\ input[p] >= pack[p].expires
            /\ \A x \in Cited(pack[p]) :
                 /\ x \in Docs /\ doc[x] # None
                 /\ \/ q.p = p /\ x \in q.todo
                    \/ doc[x].expires >= pack[p].expires
        BY <1>1, <2>9, <3>4 DEF Orderly, Kept, Keeping
      <4>2. pack[p].expires \in Nat /\ pack[p] # None
        BY <3>4 DEF Live, PacksInv, RecordsAreGood, RecordIsGood, IsRecord
      <4>3. ASSUME NEW x \in Cited(pack[p])
            PROVE  /\ x \in Docs /\ doc'[x] # None
                   /\ \/ q.p = p /\ x \in q.todo \ {d}
                      \/ doc'[x].expires >= pack[p].expires
        <5>1. x \in Docs /\ doc[x] # None
          BY <4>1
        <5>2. /\ doc'[x] # None /\ doc[x].expires \in Nat /\ doc'[x].expires \in Nat
              /\ doc'[x].expires >= doc[x].expires
              /\ x = d => doc'[x].expires >= q.until
          BY <5>1, <2>3, <2>4
        <5>3. CASE doc[x].expires >= pack[p].expires
          BY <4>2, <5>1, <5>2, <5>3
        <5>4. CASE q.p = p /\ x \in q.todo
          <6>1. x = d => doc'[x].expires >= pack[p].expires
            BY <3>2, <4>2, <5>2, <5>4
          <6>2. QED  BY <5>1, <5>2, <5>4, <6>1
        <5>5. QED  BY <4>1, <5>3, <5>4
      <4>4. QED  BY <4>1, <4>3
    <3>5. Kept(m)'
      BY <1>1, <2>2, <3>1, <3>4 DEF Kept, Cited, Keeping
    <3>6. QED  BY <3>3, <3>5
  <2>10. q.at \notin {"idle", "supersede"}
    BY <1>1
  <2>11. QED  BY <1>1, <2>2, <2>5, <2>6, <2>7, <2>8, <2>9, <2>10, DocumentsKeep
<1>5. QED  BY <1>3, <1>4 DEF Keep

\* So every step of a document keeps the files and the stores in order.
LEMMA DocumentStepsKeep ==
  ASSUME PacksInv, FilesInv, NEW r \in Requests, DocumentStep(r), UNCHANGED packVars
  PROVE  Keeps(r)
BY FindByShaKeeps, SaveBytesKeeps, CreateDocumentKeeps, OpeningKeeps, BytesKeeps,
   SetRecordKeeps, KeepKeeps, DeleteBytesKeeps, DeleteRecordKeeps DEF DocumentStep

-----------------------------------------------------------------------------
(* How requests begin, in order *)

\* Where a request begins it knows what it was given.
LEMMA BeginsKnowing ==
  ASSUME PacksInv, FilesInv, NEW r \in Requests, NEW op, NEW label,
         NEW n, IsRequest(n), Begin(r, op, label, n), UNCHANGED packVars,
         \/ label = "find" /\ n.user \in Users /\ n.file \in Files /\ n.until \in Nat
         \/ label \in Opening /\ n.d \in minted
         \/ label \in {"list", "load"}
         \/ label = "listPacks" /\ n.until \in Nat
  PROVE  Keeps(r)
<1>1. ASSUME NEW m, m.at = label, SameRegisters(m, n)
      PROVE  KnowsFiles(m) /\ KnowsStores(m)
  <2>1. m.user = n.user /\ m.file = n.file /\ m.until = n.until /\ m.d = n.d
    BY <1>1 DEF SameRegisters
  <2>2. KnowsFiles(m)
    BY <1>1, <2>1 DEF KnowsFiles, Uploading, Opening, Rewriting, Keeping, Purging
  <2>3. KnowsStores(m)
    BY <1>1 DEF KnowsStores, Opening, Rewriting, Keeping
  <2>4. QED  BY <2>2, <2>3
<1>2. label # "idle"
  BY DEF Opening
<1>3. QED  BY <1>1, <1>2, BeginKeeps

\* Uploads, reviews, scans and reads begin.
LEMMA StartDocumentKeeps ==
  ASSUME PacksInv, FilesInv, NEW r \in Requests, StartDocument(r), UNCHANGED packVars
  PROVE  Keeps(r)
<1>i. IsRequest(IdleRequest)
  BY IdleIsRequest
<1>1. ASSUME NEW u \in Users, NEW f \in Files,
             Begin(r, "upload", "find",
                   [IdleRequest EXCEPT !.user = u, !.file = f, !.until = now + DocumentDays])
      PROVE  Keeps(r)
  <2> DEFINE a == [IdleRequest EXCEPT !.user = u]
  <2> DEFINE b == [a EXCEPT !.file = f]
  <2> DEFINE n == [b EXCEPT !.until = now + DocumentDays]
  <2>1. IsRequest(a) /\ a.user = u
    BY <1>i DEF IsRequest
  <2>2. [IdleRequest EXCEPT !.user = u, !.file = f, !.until = now + DocumentDays] = n
    BY <1>i, SeveralRegisters
  <2> HIDE DEF a
  <2>3. IsRequest(b) /\ b.user = u /\ b.file = f
    BY <2>1 DEF IsRequest
  <2> HIDE DEF b
  <2>4. IsRequest(n) /\ n.user = u /\ n.file = f /\ n.until = now + DocumentDays
    BY <2>3 DEF IsRequest
  <2>5. Begin(r, "upload", "find", n)
    BY <1>1, <2>2
  <2> HIDE DEF n
  <2>6. n.until \in Nat
    BY <2>4, DocumentAssumption DEF PacksInv
  <2>7. QED  BY <2>4, <2>5, <2>6, BeginsKnowing
<1>2. ASSUME NEW u, NEW d \in minted,
             Begin(r, "review", "reviewGet", [IdleRequest EXCEPT !.user = u, !.d = d])
      PROVE  Keeps(r)
  <2> DEFINE a == [IdleRequest EXCEPT !.user = u]
  <2> DEFINE n == [a EXCEPT !.d = d]
  <2>1. IsRequest(a)
    BY <1>i, OneRegister
  <2>2. [IdleRequest EXCEPT !.user = u, !.d = d] = n
    BY <1>i, SeveralRegisters
  <2> HIDE DEF a
  <2>3. IsRequest(n) /\ n.d = d
    BY <2>1 DEF IsRequest
  <2>4. Begin(r, "review", "reviewGet", n)
    BY <1>2, <2>2
  <2> HIDE DEF n
  <2>5. QED  BY <2>3, <2>4, BeginsKnowing DEF Opening
<1>3. ASSUME NEW d \in minted, NEW op, NEW label \in Opening,
             Begin(r, op, label, [IdleRequest EXCEPT !.d = d])
      PROVE  Keeps(r)
  <2> DEFINE n == [IdleRequest EXCEPT !.d = d]
  <2>1. IsRequest(n) /\ n.d = d /\ Begin(r, op, label, n)
    BY <1>i, <1>3 DEF IsRequest
  <2> HIDE DEF n
  <2>2. QED  BY <2>1, BeginsKnowing
<1>4. "scanGet" \in Opening /\ "readGet" \in Opening
  BY DEF Opening
<1>5. QED  BY <1>1, <1>2, <1>3, <1>4, Zenon DEF StartDocument

\* Creations, edits, purges and erasures of packs begin.
LEMMA StartPackKeeps ==
  ASSUME PacksInv, FilesInv, NEW r \in Requests, StartPack(r), UNCHANGED packVars
  PROVE  Keeps(r)
<1>i. IsRequest(IdleRequest)
  BY IdleIsRequest
<1>1. ASSUME NEW op, NEW n, IsRequest(n), Begin(r, op, "load", n)
      PROVE  Keeps(r)
  BY <1>1, BeginsKnowing
<1>2. ASSUME Begin(r, "create", "list", [IdleRequest EXCEPT !.until = now + OpenDays])
      PROVE  Keeps(r)
  <2>1. IsRequest([IdleRequest EXCEPT !.until = now + OpenDays])
    BY <1>i, OneRegister
  <2>2. QED  BY <1>2, <2>1, BeginsKnowing
<1>3. ASSUME NEW p, NEW t, NEW d,
             Begin(r, "answer", "load", [[IdleRequest EXCEPT !.p = p] EXCEPT !.t = t, !.d = d])
      PROVE  Keeps(r)
  <2> DEFINE edit == [IdleRequest EXCEPT !.p = p]
  <2>1. IsRequest(edit)
    BY <1>i, OneRegister
  <2>2. Begin(r, "answer", "load", [edit EXCEPT !.t = t, !.d = d])
    BY <1>3
  <2> HIDE DEF edit
  <2> DEFINE n == [edit EXCEPT !.t = t]
  <2>3. [edit EXCEPT !.t = t, !.d = d] = [n EXCEPT !.d = d] /\ IsRequest(n)
    BY <2>1, SeveralRegisters DEF IsRequest
  <2> HIDE DEF n
  <2>4. IsRequest([edit EXCEPT !.t = t, !.d = d])
    BY <2>3, OneRegister
  <2>5. QED  BY <1>1, <2>2, <2>4
<1>4. ASSUME NEW p, NEW t, NEW c, NEW remember,
             Begin(r, "correct", "load",
                   [[IdleRequest EXCEPT !.p = p] EXCEPT !.t = t, !.cat = c, !.remember = remember])
      PROVE  Keeps(r)
  <2> DEFINE edit == [IdleRequest EXCEPT !.p = p]
  <2>1. IsRequest(edit)
    BY <1>i, OneRegister
  <2>2. Begin(r, "correct", "load", [edit EXCEPT !.t = t, !.cat = c, !.remember = remember])
    BY <1>4
  <2> HIDE DEF edit
  <2> DEFINE n == [edit EXCEPT !.t = t]
  <2> DEFINE o == [n EXCEPT !.cat = c]
  <2>3. [edit EXCEPT !.t = t, !.cat = c, !.remember = remember]
          = [o EXCEPT !.remember = remember]
    BY <2>1, SeveralRegisters
  <2>4. IsRequest(n)
    BY <2>1 DEF IsRequest
  <2> HIDE DEF n
  <2>5. IsRequest(o)
    BY <2>4 DEF IsRequest
  <2> HIDE DEF o
  <2>6. IsRequest([o EXCEPT !.remember = remember])
    BY <2>5 DEF IsRequest
  <2>7. QED  BY <1>1, <2>2, <2>3, <2>6
<1>5. ASSUME NEW p, NEW seen,
             Begin(r, "sign", "load", [[IdleRequest EXCEPT !.p = p] EXCEPT !.seen = seen])
      PROVE  Keeps(r)
  <2> DEFINE edit == [IdleRequest EXCEPT !.p = p]
  <2>1. IsRequest(edit)
    BY <1>i, OneRegister
  <2>2. Begin(r, "sign", "load", [edit EXCEPT !.seen = seen])
    BY <1>5
  <2> HIDE DEF edit
  <2>3. IsRequest([edit EXCEPT !.seen = seen])
    BY <2>1 DEF IsRequest
  <2>4. QED  BY <1>1, <2>2, <2>3
<1>6. ASSUME Begin(r, "purge", "listPacks", [IdleRequest EXCEPT !.until = now])
      PROVE  Keeps(r)
  <2> DEFINE n == [IdleRequest EXCEPT !.until = now]
  <2>1. IsRequest(n) /\ n.until = now /\ Begin(r, "purge", "listPacks", n)
    BY <1>i, <1>6 DEF IsRequest
  <2> HIDE DEF n
  <2>2. n.until \in Nat
    BY <2>1 DEF PacksInv
  <2>3. QED  BY <2>1, <2>2, BeginsKnowing
<1>7. ASSUME Begin(r, "erase", "listPacks", IdleRequest)
      PROVE  Keeps(r)
  <2>1. IdleRequest.until \in Nat
    BY DEF IdleRequest
  <2>2. QED  BY <1>i, <1>7, <2>1, BeginsKnowing
<1>8. QED  BY <1>2, <1>3, <1>4, <1>5, <1>6, <1>7, Zenon DEF StartPack

-----------------------------------------------------------------------------
(* The steps of packs *)

\* Packs that are stored keep their versions.
LEMMA VersionsStay ==
  ASSUME Versions, \A p \in Live' : p \in Live /\ pack'[p].version = pack[p].version
  PROVE  Versions'
<1>1. PICK n \in Nat : \A p \in Live : pack[p].version \in Nat /\ pack[p].version <= n
  BY DEF Versions
<1>2. \A p \in Live' : pack'[p].version \in Nat /\ pack'[p].version <= n
  BY <1>1
<1>3. \A p, s \in Live' : pack'[p].version = pack'[s].version => p = s
  BY DEF Versions
<1>4. QED  BY <1>2, <1>3 DEF Versions

\* Packs that stay with their statements, retention and answers stay complete.
LEMMA KeptByPacks ==
  ASSUME UNCHANGED <<doc, crashes>>, NEW q, Kept(q), NEW m, m = q \/ q.at \notin Keeping,
         \A p \in Live' : /\ p \in Live /\ input'[p] = input[p]
                          /\ pack'[p].expires = pack[p].expires
                          /\ pack'[p].answers = pack[p].answers
  PROVE  Kept(m)'
<1>1. ASSUME crashes = 0, NEW p \in Live'
      PROVE  /\ \/ m.at = "keepInput" /\ m.p = p
                \/ input'[p] \in Nat /\ input'[p] >= pack'[p].expires
             /\ \A d \in Cited(pack[p]) :
                  /\ d \in Docs /\ doc'[d] # None
                  /\ \/ m.at \in Keeping /\ m.p = p /\ d \in m.todo
                     \/ doc'[d].expires >= pack'[p].expires
  <2>1. /\ \/ q.at = "keepInput" /\ q.p = p
           \/ input[p] \in Nat /\ input[p] >= pack[p].expires
        /\ \A d \in Cited(pack[p]) :
             /\ d \in Docs /\ doc[d] # None
             /\ \/ q.at \in Keeping /\ q.p = p /\ d \in q.todo
                \/ doc[d].expires >= pack[p].expires
    BY <1>1 DEF Kept
  <2>2. "keepInput" \in Keeping
    BY DEF Keeping
  <2>3. QED  BY <1>1, <2>1, <2>2
<1>2. \A p \in Live' : Cited(pack'[p]) = Cited(pack[p])
  BY DEF Cited
<1>3. QED  BY <1>1, <1>2 DEF Kept, Cited

\* The next version is later than that of every pack that is stored.
LEMMA NextVersionIsLater ==
  ASSUME Versions
  PROVE  NextVersion \in Nat /\ \A p \in Live : pack[p].version < NextVersion
<1> DEFINE S == {0} \cup {pack[p].version : p \in Live}
<1>1. PICK n \in Nat : \A p \in Live : pack[p].version \in Nat /\ pack[p].version <= n
  BY DEF Versions
<1>2. /\ S \in SUBSET Nat /\ S # {} /\ \A x \in S : x <= n
      /\ \A p \in Live : pack[p].version \in S
  BY <1>1
<1>3. NextVersion = Max(S) + 1
  BY DEF NextVersion
<1> HIDE DEF S
<1>4. Max(S) \in S /\ \A x \in S : x <= Max(S)
  BY <1>2, BoundedHasMax
<1>5. Max(S) \in Nat
  BY <1>2, <1>4
<1>6. ASSUME NEW p \in Live
      PROVE  pack[p].version < Max(S) + 1
  <2>1. pack[p].version \in Nat /\ pack[p].version <= Max(S)
    BY <1>1, <1>2, <1>4
  <2>2. QED  BY <1>5, <2>1
<1>7. QED  BY <1>3, <1>5, <1>6

\* createPack numbers the new pack after all that are stored, and lists what is OPEN.
LEMMA ListPacksKeeps ==
  ASSUME PacksInv, FilesInv, NEW r \in Requests, ListPacks(r)
  PROVE  Keeps(r)
<1> DEFINE q == req[r]
<1> DEFINE n == [q EXCEPT !.version = NextVersion]
<1> DEFINE open == {<<p, pack[p].revision>> : p \in {l \in Live : pack[l].status = "OPEN"}}
<1> DEFINE o == [n EXCEPT !.todo = open]
<1>1. q.at = "list" /\ Goto(r, "insert", o) /\ UNCHANGED <<docVars, pack, input, crashes>>
  BY DEF ListPacks, At, PackReads, Reads, packVars, serverVars
<1>2. IsRequest(q)
  BY RequestsHold
<1>3. \A p \in Live : pack[p].status = "OPEN" => <<p, pack[p].revision>> \in open
  OBVIOUS
<1>4. IsRequest(n) /\ n.version = NextVersion
  BY <1>2 DEF IsRequest
<1> HIDE DEF n, open
<1>5. IsRequest(o) /\ o.version = NextVersion /\ o.todo = open
  BY <1>4 DEF IsRequest
<1> HIDE DEF o
<1>6. ASSUME NEW m, m.at = "insert", SameRegisters(m, o)
      PROVE  KnowsFiles(m) /\ (Orderly(q) => KnowsStores(m))
  <2>1. KnowsFiles(m)
    BY <1>6 DEF KnowsFiles, Uploading, Opening, Rewriting, Keeping, Purging
  <2>2. Orderly(q) => /\ NextVersion \in Nat
                      /\ \A p \in Live : pack[p].version < NextVersion
    BY NextVersionIsLater DEF Orderly
  <2>3. m.version = NextVersion /\ m.todo = open
    BY <1>5, <1>6 DEF SameRegisters
  <2>4. Orderly(q) => KnowsStores(m)
    BY <1>3, <1>6, <2>2, <2>3 DEF KnowsStores, Rewriting, Keeping
  <2>5. QED  BY <2>1, <2>4
<1>7. q.at \notin Settled
  BY <1>1 DEF Settled
<1>8. QED  BY <1>1, <1>5, <1>6, <1>7, GotoKeeps

\* The new pack is the latest, complete, and the OPEN ones beside it are to be superseded.
LEMMA InsertPackKeeps ==
  ASSUME PacksInv, FilesInv, NEW r \in Requests, InsertPack(r)
  PROVE  Keeps(r)
<1> DEFINE q == req[r]
<1> DEFINE v == [status |-> "OPEN", version |-> q.version, revision |-> 1,
                 answers |-> [t \in Txs |-> None], fixes |-> [t \in Txs |-> None],
                 expires |-> q.until, signed |-> None]
<1>1. PICK p \in Packs \ created : /\ pack' = [pack EXCEPT ![p] = v]
                                   /\ input' = [input EXCEPT ![p] = q.until]
  BY DEF InsertPack
<1>2. /\ q.at = "insert" /\ Goto(r, "supersede", q) /\ UNCHANGED docVars
      /\ doc' = doc /\ crashes' = crashes
  BY DEF InsertPack, At, docVars, serverVars
<1>3. IsRequest(q) /\ q.until \in Nat
  BY <1>2, RequestsHold DEF RequestIsGood
<1>4. v.version = q.version /\ v.expires = q.until /\ Cited(v) = {}
  <2>1. v.answers = [t \in Txs |-> None]
    OBVIOUS
  <2>2. QED  BY <2>1 DEF Cited
<1> HIDE DEF v
<1>5. PICK m : MovesTo(r, m) /\ m.at = "supersede" /\ m.todo = q.todo
  BY <1>2, <1>3, GotoMoves DEF SameRegisters
<1>6. /\ DOMAIN pack = Packs /\ DOMAIN input = Packs /\ DOMAIN input' = Packs
      /\ pack[p] = None /\ pack'[p] = v /\ input'[p] = q.until
      /\ \A x \in Packs \ {p} : pack'[x] = pack[x] /\ input'[x] = input[x]
  BY <1>1 DEF PacksInv, RecordsAreGood, FilesInv, StoresAreTyped
<1>7. Live' \subseteq Live \cup {p} /\ p \notin Live /\ Live \subseteq Packs
  BY <1>6 DEF Live
<1>8. KnowsFiles(m)
  BY <1>5 DEF KnowsFiles, Uploading, Opening, Rewriting, Keeping, Purging
<1>9. FilesInv'
  BY <1>2, <1>5, <1>6, <1>8, FilesRest DEF FilesInv, StoresAreTyped
<1>10. ASSUME Orderly(q)
       PROVE  Orderly(m)'
  <2>1. /\ q.version \in Nat
        /\ \A x \in Live : /\ pack[x].version < q.version
                           /\ pack[x].status = "OPEN" => <<x, pack[x].revision>> \in q.todo
    BY <1>2, <1>10 DEF Orderly, KnowsStores
  <2>2. \A x \in Live : pack[x].version \in Nat
    BY <1>10 DEF Orderly, Versions
  <2>n. \A x \in Live' : \/ x = p /\ pack'[x].version = q.version
                         \/ x \in Live /\ pack'[x].version = pack[x].version
    BY <1>4, <1>6, <1>7
  <2>3. ASSUME NEW x \in Live'
        PROVE  pack'[x].version \in Nat /\ pack'[x].version <= q.version
    <3>1. CASE x = p /\ pack'[x].version = q.version
      BY <2>1, <3>1
    <3>2. CASE x \in Live /\ pack'[x].version = pack[x].version
      <4>1. pack[x].version \in Nat /\ pack[x].version < q.version
        BY <2>1, <2>2, <3>2
      <4>2. QED  BY <2>1, <3>2, <4>1
    <3>3. QED  BY <2>n, <3>1, <3>2
  <2>4. ASSUME NEW x \in Live', NEW s \in Live', pack'[x].version = pack'[s].version
        PROVE  x = s
    <3>1. CASE x = p /\ s = p
      BY <3>1
    <3>2. CASE x \in Live /\ s \in Live /\ x # p /\ s # p
      BY <1>10, <2>n, <2>4, <3>2 DEF Orderly, Versions
    <3>3. CASE \/ x \in Live /\ x # p /\ s = p
               \/ s \in Live /\ s # p /\ x = p
      <4>1. \A y \in Live : pack[y].version \in Nat /\ pack[y].version # q.version
        <5>1. ASSUME NEW y \in Live
              PROVE  pack[y].version \in Nat /\ pack[y].version < q.version
          BY <2>1, <2>2
        <5>2. QED  BY <2>1, <5>1
      <4>2. QED  BY <1>7, <2>n, <2>4, <3>3, <4>1
    <3>4. QED  BY <1>7, <3>1, <3>2, <3>3
  <2>5. Versions'
    BY <2>1, <2>3, <2>4 DEF Versions
  <2>6. Latest(m)'
    <3>1. ASSUME NEW x \in Live', NEW s \in Live', pack'[x].status = "OPEN",
                 pack'[s].version > pack'[x].version
          PROVE  <<x, pack'[x].revision>> \in m.todo
      <4>1. pack'[s].version <= q.version /\ pack'[s].version \in Nat
        BY <2>3, <3>1
      <4>2. x # p
        BY <1>4, <1>6, <2>1, <3>1, <4>1
      <4>3. x \in Live /\ pack'[x] = pack[x]
        BY <1>6, <1>7, <3>1, <4>2
      <4>4. QED  BY <1>5, <2>1, <3>1, <4>3
    <3>2. QED  BY <1>5, <3>1 DEF Latest
  <2>7. ASSUME crashes = 0, NEW x \in Live'
        PROVE  /\ input'[x] \in Nat /\ input'[x] >= pack'[x].expires
               /\ \A d \in Cited(pack'[x]) : /\ d \in Docs /\ doc'[d] # None
                                             /\ doc'[d].expires >= pack'[x].expires
    <3>1. CASE x = p
      <4>1. Cited(pack'[x]) = {}
        BY <1>4, <1>6, <3>1
      <4>2. input'[x] = q.until /\ pack'[x].expires = q.until
        BY <1>4, <1>6, <3>1
      <4>3. QED  BY <1>3, <4>1, <4>2
    <3>2. CASE x # p
      <4>1. x \in Live /\ pack'[x] = pack[x] /\ input'[x] = input[x]
        BY <1>6, <1>7, <3>2
      <4>2. QED  BY <1>2, <1>10, <2>7, <4>1 DEF Orderly, Kept, Keeping
    <3>3. QED  BY <3>1, <3>2
  <2>8. Kept(m)'
    BY <1>2, <2>7 DEF Kept, Cited
  <2>9. KnowsStores(m)'
    BY <1>5 DEF KnowsStores, Rewriting, Keeping
  <2>10. QED  BY <2>5, <2>6, <2>8, <2>9 DEF Orderly
<1>11. QED  BY <1>2, <1>5, <1>9, <1>10 DEF Keeps

\* An older pack that was OPEN when listed is superseded, or was edited, or is gone.
LEMMA SupersedeKeeps ==
  ASSUME PacksInv, FilesInv, NEW r \in Requests, Supersede(r)
  PROVE  Keeps(r)
<1> DEFINE q == req[r]
<1>1. q.at = "supersede" /\ UNCHANGED docVars /\ doc' = doc /\ crashes' = crashes
  BY Zenon DEF Supersede, At, docVars, serverVars
<1>2. IsRequest(q)
  BY RequestsHold
<1>3. CASE q.todo = {} /\ Answer(r) /\ UNCHANGED packVars
  <2>1. MovesTo(r, IdleRequest)
    BY <1>3, AnswerMoves
  <2>2. ASSUME Orderly(q)
        PROVE  Orderly(IdleRequest)
    <3>1. Latest(IdleRequest)
      BY <1>3, <2>2 DEF Orderly, Latest
    <3>2. Kept(IdleRequest)
      BY <1>1, <2>2 DEF Orderly, Kept, Keeping
    <3>3. QED  BY <2>2, <3>1, <3>2, IdleKnowsNothing DEF Orderly
  <2>3. UNCHANGED <<docVars, pack, input, crashes>>
    BY <1>1, <1>3 DEF packVars
  <2>4. QED  BY <1>1, <2>1, <2>2, <2>3, IdleKnowsNothing, QuietKeeps
<1>4. ASSUME NEW old \in q.todo, Goto(r, "supersede", [q EXCEPT !.todo = @ \ {old}]),
             UNCHANGED input,
             IF Current(old[1], old[2])
             THEN SetPack(old[1], [pack[old[1]] EXCEPT !.status = "SUPERSEDED",
                                                       !.revision = @ + 1])
             ELSE UNCHANGED <<pack, created, learned>>
      PROVE  Keeps(r)
  <2> DEFINE n == [q EXCEPT !.todo = @ \ {old}]
  <2>1. Goto(r, "supersede", n) /\ IsRequest(n) /\ n.todo = q.todo \ {old}
    BY <1>2, <1>4 DEF IsRequest
  <2> HIDE DEF n
  <2>2. PICK m : MovesTo(r, m) /\ m.at = "supersede" /\ m.todo = q.todo \ {old}
    BY <2>1, GotoMoves DEF SameRegisters
  <2>3. KnowsFiles(m)
    BY <2>2 DEF KnowsFiles, Uploading, Opening, Rewriting, Keeping, Purging
  <2>4. FilesInv'
    BY <1>1, <1>4, <2>2, <2>3, FilesRest DEF FilesInv, StoresAreTyped
  <2>5. KnowsStores(m)'
    BY <2>2 DEF KnowsStores, Rewriting, Keeping
  <2>6. \A x \in Live' :
          /\ x \in Live /\ pack'[x].version = pack[x].version
          /\ pack'[x].expires = pack[x].expires /\ pack'[x].answers = pack[x].answers
          /\ pack'[x].status = "OPEN" =>
               /\ pack[x].status = "OPEN" /\ pack'[x].revision = pack[x].revision
               /\ <<x, pack[x].revision>> # old
    <3>1. CASE Current(old[1], old[2])
      <4> DEFINE p == old[1]
      <4> DEFINE v == [pack[p] EXCEPT !.status = "SUPERSEDED", !.revision = @ + 1]
      <4>1. p \in Packs => IsRecord(pack[p])
        BY <3>1 DEF Current, PacksInv, RecordsAreGood, RecordIsGood
      <4>2. p \in Packs => /\ v.version = pack[p].version /\ v.expires = pack[p].expires
                           /\ v.answers = pack[p].answers /\ v.status = "SUPERSEDED"
        BY <4>1 DEF IsRecord
      <4>3. pack' = [pack EXCEPT ![p] = v] /\ DOMAIN pack = Packs
        BY <1>4, <3>1 DEF SetPack, PacksInv, RecordsAreGood
      <4> HIDE DEF v
      <4>4. \A x \in Packs : pack'[x] = IF x = p THEN v ELSE pack[x]
        BY <4>3
      <4>5. pack[p] # None
        BY <3>1 DEF Current
      <4>6. QED  BY <4>2, <4>4, <4>5 DEF Live
    <3>2. CASE ~Current(old[1], old[2])
      <4>1. pack' = pack
        BY <1>4, <3>2
      <4>2. \A x \in Live : <<x, pack[x].revision>> # old
        BY <3>2 DEF Current, Live
      <4>3. QED  BY <4>1, <4>2 DEF Live
    <3>3. QED  BY <3>1, <3>2
  <2>7. ASSUME Orderly(q)
        PROVE  Orderly(m)'
    <3>1. Versions'
      BY <2>6, <2>7, VersionsStay DEF Orderly
    <3>2. Latest(m)'
      <4>1. ASSUME crashes = 0, NEW x \in Live', NEW s \in Live', pack'[x].status = "OPEN",
                   pack'[s].version > pack'[x].version
            PROVE  <<x, pack'[x].revision>> \in m.todo
        <5>1. <<x, pack[x].revision>> \in q.todo
          BY <2>6, <2>7, <4>1 DEF Orderly, Latest
        <5>2. QED  BY <2>2, <2>6, <4>1, <5>1
      <4>2. QED  BY <1>1, <2>2, <4>1 DEF Latest
    <3>3. q.at \notin Keeping
      BY <1>1 DEF Keeping
    <3>4. Kept(m)'
      BY <1>1, <1>4, <2>6, <2>7, <3>3, KeptByPacks DEF Orderly
    <3>5. QED  BY <2>5, <3>1, <3>2, <3>4 DEF Orderly
  <2>8. QED  BY <1>1, <2>2, <2>4, <2>7 DEF Keeps
<1>5. QED  BY <1>3, <1>4, Zenon DEF Supersede

\* load and assertOpen.
LEMMA LoadPackKeeps ==
  ASSUME PacksInv, FilesInv, NEW r \in Requests, LoadPack(r)
  PROVE  Keeps(r)
<1> DEFINE q == req[r]
<1>1. q.at = "load" /\ UNCHANGED <<docVars, pack, input, crashes>>
  BY DEF LoadPack, At, PackReads, Reads, packVars, serverVars
<1>2. IsRequest(q)
  BY RequestsHold
<1>3. q.at # "idle" /\ q.at \notin Settled
  BY <1>1 DEF Settled
<1>4. CASE Answer(r)
  BY <1>1, <1>3, <1>4, AnswerKeeps
<1>5. ASSUME NEW view, NEW next, Goto(r, next, [q EXCEPT !.view = view]),
             \/ next = "linkable"
             \/ next = "check" /\ q.op = "sign"
             \/ next = "update" /\ ~(q.op = "answer" /\ q.d # None)
      PROVE  Keeps(r)
  <2> DEFINE n == [q EXCEPT !.view = view]
  <2>1. Goto(r, next, n) /\ IsRequest(n) /\ n.op = q.op /\ n.d = q.d
    BY <1>2, <1>5 DEF IsRequest
  <2> HIDE DEF n
  <2>2. ASSUME NEW m, m.at = next, m.op = n.op, SameRegisters(m, n)
        PROVE  KnowsFiles(m) /\ KnowsStores(m)
    <3>1. m.op = q.op /\ m.d = q.d
      BY <2>1, <2>2 DEF SameRegisters
    <3>2. KnowsFiles(m)
      BY <1>5, <2>2 DEF KnowsFiles, Uploading, Opening, Rewriting, Keeping, Purging
    <3>3. KnowsStores(m)
      BY <1>5, <2>2, <3>1 DEF KnowsStores, Rewriting, Keeping
    <3>4. QED  BY <3>2, <3>3
  <2>3. next # "idle"
    BY <1>5
  <2>4. QED  BY <1>1, <1>3, <2>1, <2>2, <2>3, GotoKeeps
<1>6. QED  BY <1>4, <1>5 DEF LoadPack

\* assertLinkable finds the receipt.
LEMMA AssertLinkableKeeps ==
  ASSUME PacksInv, FilesInv, NEW r \in Requests, AssertLinkable(r)
  PROVE  Keeps(r)
<1> DEFINE q == req[r]
<1>1. q.at = "linkable" /\ UNCHANGED <<docVars, pack, input, crashes>>
  BY DEF AssertLinkable, At, PackReads, Reads, packVars, serverVars
<1>2. IsRequest(q)
  BY RequestsHold
<1>3. q.at # "idle" /\ q.at \notin Settled
  BY <1>1 DEF Settled
<1>4. CASE Answer(r)
  BY <1>1, <1>3, <1>4, AnswerKeeps
<1>5. CASE Linkable(q.d) /\ Goto(r, "update", q)
  <2>1. ASSUME NEW m, m.at = "update", SameRegisters(m, q)
        PROVE  KnowsFiles(m) /\ KnowsStores(m)
    <3>1. doc[m.d] # None
      BY <1>5, <2>1 DEF Linkable, SameRegisters
    <3>2. KnowsFiles(m)
      BY <2>1 DEF KnowsFiles, Uploading, Opening, Rewriting, Keeping, Purging
    <3>3. KnowsStores(m)
      BY <2>1, <3>1 DEF KnowsStores, Rewriting, Keeping
    <3>4. QED  BY <3>2, <3>3
  <2>2. QED  BY <1>1, <1>2, <1>3, <1>5, <2>1, GotoKeeps
<1>6. QED  BY <1>4, <1>5 DEF AssertLinkable

\* A sign-off is checked.
LEMMA CheckSignOffKeeps ==
  ASSUME PacksInv, FilesInv, NEW r \in Requests, CheckSignOff(r)
  PROVE  Keeps(r)
<1> DEFINE q == req[r]
<1> DEFINE until == KeepUntil(q.view.expires)
<1> DEFINE n == [q EXCEPT !.until = until]
<1>1. q.at = "check" /\ UNCHANGED <<docVars, pack, input, crashes>>
  BY DEF CheckSignOff, At, PackReads, Reads, packVars, serverVars
<1>2. IsRequest(q)
  BY RequestsHold
<1>3. q.at # "idle" /\ q.at \notin Settled
  BY <1>1 DEF Settled
<1>4. CASE Answer(r)
  BY <1>1, <1>3, <1>4, AnswerKeeps
<1>5. CASE Goto(r, "update", n)
  <2> HIDE DEF until
  <2>1. IsRequest(n) /\ n.op = q.op
    BY <1>2 DEF IsRequest
  <2>2. Goto(r, "update", n)
    BY <1>5
  <2> HIDE DEF n
  <2>3. ASSUME NEW m, m.at = "update", m.op = n.op
        PROVE  KnowsFiles(m) /\ (Orderly(q) => KnowsStores(m))
    <3>1. Orderly(q) => m.op = "sign"
      BY <1>1, <2>1, <2>3 DEF Orderly, KnowsStores
    <3>2. KnowsFiles(m)
      BY <2>3 DEF KnowsFiles, Uploading, Opening, Rewriting, Keeping, Purging
    <3>3. Orderly(q) => KnowsStores(m)
      BY <2>3, <3>1 DEF KnowsStores, Rewriting, Keeping
    <3>4. QED  BY <3>2, <3>3
  <2>4. QED  BY <1>1, <1>3, <2>1, <2>2, <2>3, GotoKeeps
<1>6. QED  BY <1>4, <1>5 DEF CheckSignOff

\* A rule is learned, which is nothing to the packs and the documents.
LEMMA LearnKeeps ==
  ASSUME PacksInv, FilesInv, NEW r \in Requests, Learn(r)
  PROVE  Keeps(r)
<1>1. /\ req[r].at = "learn" /\ Answer(r)
      /\ UNCHANGED <<docVars, pack, input, crashes>>
  BY DEF Learn, At, serverVars
<1>2. req[r].at # "idle" /\ req[r].at \notin Settled
  BY <1>1 DEF Settled
<1>3. QED  BY <1>1, <1>2, AnswerKeeps

\* The statement of a pack that was signed off is kept as long as the pack.
LEMMA KeepInputKeeps ==
  ASSUME PacksInv, FilesInv, NEW r \in Requests, KeepInput(r)
  PROVE  Keeps(r)
<1> DEFINE q == req[r]
<1>1. /\ q.at = "keepInput" /\ Goto(r, "keep", q) /\ UNCHANGED docVars
      /\ input' = [input EXCEPT ![q.p] = q.until]
      /\ pack' = pack /\ doc' = doc /\ crashes' = crashes
  BY DEF KeepInput, At, docVars, serverVars
<1>2. IsRequest(q) /\ q.until \in Nat /\ q.p \in Packs
  BY <1>1, RequestsHold DEF FilesInv, KnowsFiles, Keeping
<1>3. PICK m : /\ MovesTo(r, m) /\ m.at = "keep" /\ m.op = q.op
               /\ m.p = q.p /\ m.until = q.until /\ m.todo = q.todo
  BY <1>1, <1>2, GotoMoves DEF SameRegisters
<1>4. KnowsFiles(m)
  BY <1>2, <1>3 DEF KnowsFiles, Uploading, Opening, Rewriting, Keeping, Purging
<1>5. /\ DOMAIN input' = Packs /\ input'[q.p] = q.until
      /\ \A p \in Packs \ {q.p} : input'[p] = input[p]
  BY <1>1, <1>2 DEF FilesInv, StoresAreTyped
<1>6. FilesInv'
  BY <1>1, <1>3, <1>4, <1>5, FilesRest DEF FilesInv, StoresAreTyped
<1>7. ASSUME Orderly(q)
      PROVE  Orderly(m)'
  <2>1. Live' = Live
    BY <1>1 DEF Live
  <2>2. Versions'
    BY <1>1, <1>7, <2>1 DEF Orderly, Versions
  <2>3. Latest(m)'
    BY <1>1, <1>7, <2>1 DEF Orderly, Latest
  <2>4. pack[q.p] = None \/ pack[q.p].expires = q.until
    BY <1>1, <1>7 DEF Orderly, KnowsStores, Keeping
  <2>5. KnowsStores(m)'
    BY <1>1, <1>3, <2>4 DEF KnowsStores, Rewriting, Keeping
  <2>6. ASSUME crashes = 0, NEW p \in Live
        PROVE  /\ input'[p] \in Nat /\ input'[p] >= pack[p].expires
               /\ \A d \in Cited(pack[p]) :
                    /\ d \in Docs /\ doc[d] # None
                    /\ \/ q.p = p /\ d \in q.todo
                       \/ doc[d].expires >= pack[p].expires
    <3>1. /\ \/ q.p = p
             \/ input[p] \in Nat /\ input[p] >= pack[p].expires
          /\ \A d \in Cited(pack[p]) :
               /\ d \in Docs /\ doc[d] # None
               /\ \/ q.p = p /\ d \in q.todo
                  \/ doc[d].expires >= pack[p].expires
      BY <1>1, <1>7, <2>6 DEF Orderly, Kept, Keeping
    <3>2. p \in Packs /\ pack[p] # None
      BY <2>6 DEF Live
    <3>3. CASE q.p = p
      <4>1. input'[p] = q.until /\ pack[p].expires = q.until
        BY <1>5, <2>4, <3>2, <3>3
      <4>2. QED  BY <1>2, <3>1, <4>1
    <3>4. CASE q.p # p
      BY <1>5, <3>1, <3>2, <3>4
    <3>5. QED  BY <3>3, <3>4
  <2>7. Kept(m)'
    BY <1>1, <1>3, <2>1, <2>6 DEF Kept, Cited, Keeping
  <2>8. QED  BY <2>2, <2>3, <2>5, <2>7 DEF Orderly
<1>8. QED  BY <1>1, <1>3, <1>6, <1>7 DEF Keeps

\* Fewer packs, with what was said of the rest.
LEMMA RemovedPack ==
  ASSUME PacksInv, FilesInv, NEW p, RemovePack(p)
  PROVE  /\ DOMAIN input' = Packs
         /\ \A x \in Live' : x \in Live /\ x # p /\ pack'[x] = pack[x] /\ input'[x] = input[x]
BY DEF RemovePack, Live, PacksInv, RecordsAreGood, FilesInv, StoresAreTyped

\* They stay in order.
LEMMA FewerPacks ==
  ASSUME UNCHANGED <<doc, crashes>>,
         \A x \in Live' : x \in Live /\ pack'[x] = pack[x] /\ input'[x] = input[x],
         NEW q, Orderly(q), NEW m, m = q \/ q.at \notin Settled, KnowsStores(m)'
  PROVE  Orderly(m)'
<1>1. Versions'
  BY VersionsStay DEF Orderly
<1>2. Latest(m)'
  BY DEF Orderly, Latest, Settled
<1>3. m = q \/ q.at \notin Keeping
  BY DEF Settled, Keeping
<1>4. Kept(m)'
  BY <1>3, KeptByPacks DEF Orderly
<1>5. QED  BY <1>1, <1>2, <1>4 DEF Orderly

\* A purge or an erasure lists the packs it will delete, or finds none.
LEMMA ListDoomedPacksKeeps ==
  ASSUME PacksInv, FilesInv, NEW r \in Requests, ListDoomedPacks(r)
  PROVE  Keeps(r)
<1> DEFINE q == req[r]
<1> DEFINE doomed == {p \in Live : Doomed(q, pack[p].expires)}
<1> DEFINE label == IF doomed = {} THEN "listDocs" ELSE "deletePacks"
<1> DEFINE n == [q EXCEPT !.todo = doomed]
<1>1. q.at = "listPacks" /\ Goto(r, label, n) /\ UNCHANGED <<docVars, pack, input, crashes>>
  BY DEF ListDoomedPacks, At, PackReads, Reads, packVars, serverVars
<1>2. IsRequest(q) /\ q.until \in Nat
  BY <1>1, RequestsHold DEF FilesInv, KnowsFiles, Purging
<1>3. \A p \in Live : p \in doomed \/ ~Doomed(q, pack[p].expires)
  OBVIOUS
<1> HIDE DEF doomed
<1>4. IsRequest(n) /\ n.op = q.op /\ n.until = q.until /\ n.todo = doomed
  BY <1>2 DEF IsRequest
<1> HIDE DEF n
<1>5. /\ label # "idle"
      /\ \/ label = "listDocs" /\ doomed = {}
         \/ label = "deletePacks"
  OBVIOUS
<1> HIDE DEF label
<1>6. ASSUME NEW m, m.at = label, m.op = n.op, SameRegisters(m, n)
      PROVE  KnowsFiles(m) /\ KnowsStores(m)
  <2>1. m.op = q.op /\ m.until = q.until /\ m.todo = doomed
    BY <1>4, <1>6 DEF SameRegisters
  <2>2. KnowsFiles(m)
    BY <1>2, <1>5, <1>6, <2>1
       DEF KnowsFiles, Uploading, Opening, Rewriting, Keeping, Purging
  <2>3. \A p \in Live : p \in m.todo \/ ~Doomed(m, pack[p].expires)
    BY <1>3, <2>1 DEF Doomed
  <2>4. KnowsStores(m)
    BY <1>5, <1>6, <2>1, <2>3 DEF KnowsStores, Rewriting, Keeping
  <2>5. QED  BY <2>2, <2>4
<1>7. q.at \notin Settled
  BY <1>1 DEF Settled
<1>8. QED  BY <1>1, <1>4, <1>5, <1>6, <1>7, GotoKeeps

\* It deletes them one after the other; the documents come when all are gone.
LEMMA DeleteDoomedPackKeeps ==
  ASSUME PacksInv, FilesInv, NEW r \in Requests, DeleteDoomedPack(r)
  PROVE  Keeps(r)
<1> DEFINE q == req[r]
<1>1. q.at = "deletePacks" /\ UNCHANGED docVars /\ doc' = doc /\ crashes' = crashes
  BY DEF DeleteDoomedPack, At, docVars, serverVars
<1>2. IsRequest(q) /\ q.until \in Nat
  BY <1>1, RequestsHold DEF FilesInv, KnowsFiles, Purging
<1>3. PICK p \in q.todo, label \in {"deletePacks", "listPacks", "listDocs"} :
        /\ RemovePack(p) /\ Goto(r, label, [q EXCEPT !.todo = @ \ {p}])
        /\ \/ label \in {"deletePacks", "listPacks"}
           \/ label = "listDocs" /\ q.todo = {p}
  BY DEF DeleteDoomedPack
<1> DEFINE n == [q EXCEPT !.todo = @ \ {p}]
<1>4. /\ Goto(r, label, n) /\ IsRequest(n)
      /\ n.op = q.op /\ n.until = q.until /\ n.todo = q.todo \ {p}
  BY <1>2, <1>3 DEF IsRequest
<1> HIDE DEF n
<1>5. PICK m : /\ MovesTo(r, m) /\ m.at = label /\ m.op = q.op
               /\ m.until = q.until /\ m.todo = q.todo \ {p}
  BY <1>4, GotoMoves DEF SameRegisters
<1>6. /\ DOMAIN input' = Packs
      /\ \A x \in Live' : x \in Live /\ x # p /\ pack'[x] = pack[x] /\ input'[x] = input[x]
  BY <1>3, RemovedPack
<1>7. KnowsFiles(m)
  BY <1>2, <1>3, <1>5 DEF KnowsFiles, Uploading, Opening, Rewriting, Keeping, Purging
<1>8. FilesInv'
  BY <1>1, <1>5, <1>6, <1>7, FilesRest DEF FilesInv, StoresAreTyped
<1>9. ASSUME Orderly(q)
      PROVE  Orderly(m)'
  <2>1. \A x \in Live : x \in q.todo \/ ~Doomed(q, pack[x].expires)
    BY <1>1, <1>9 DEF Orderly, KnowsStores
  <2>2. \A x \in Live' : x \in m.todo \/ ~Doomed(m, pack'[x].expires)
    BY <1>5, <1>6, <2>1 DEF Doomed
  <2>3. KnowsStores(m)'
    BY <1>3, <1>5, <2>2 DEF KnowsStores, Rewriting, Keeping, Doomed
  <2>4. q.at \notin Settled
    BY <1>1 DEF Settled
  <2>5. QED  BY <1>1, <1>6, <1>9, <2>3, <2>4, FewerPacks
<1>10. QED  BY <1>1, <1>5, <1>8, <1>9 DEF Keeps

\* It lists the documents it will delete: all of them, or those no pack that is left cites.
LEMMA ListDoomedDocumentsKeeps ==
  ASSUME PacksInv, FilesInv, NEW r \in Requests, ListDoomedDocuments(r)
  PROVE  Keeps(r)
<1> DEFINE q == req[r]
<1> DEFINE doomed == {d \in Docs : doc[d] # None /\ Doomed(q, doc[d].expires)}
<1> DEFINE n == [q EXCEPT !.todo = doomed]
<1>1. /\ q.at = "listDocs" /\ Goto(r, "deleteBytes", n)
      /\ UNCHANGED <<docVars, pack, input, crashes>>
  BY DEF ListDoomedDocuments, At, PackReads, Reads, packVars, serverVars
<1>2. IsRequest(q) /\ q.until \in Nat
  BY <1>1, RequestsHold DEF FilesInv, KnowsFiles, Purging
<1>3. /\ doomed \subseteq minted
      /\ \A d \in Docs : doc[d] # None => doc[d].expires \in Nat
  BY DEF FilesInv, StoresAreTyped, DocRecords
<1>4. \A d \in doomed : Doomed(q, doc[d].expires)
  OBVIOUS
<1>5. q.op = "erase" => \A d \in Docs : doc[d] # None => d \in doomed
  BY DEF Doomed
<1> HIDE DEF doomed
<1>6. IsRequest(n) /\ n.op = q.op /\ n.until = q.until /\ n.todo = doomed
  BY <1>2 DEF IsRequest
<1> HIDE DEF n
<1>7. ASSUME Orderly(q)
      PROVE  /\ q.op = "erase" => Live = {}
             /\ crashes = 0 => \A p \in Live : \A d \in Cited(pack[p]) : d \notin doomed
  <2>1. \A p \in Live : ~Doomed(q, pack[p].expires)
    BY <1>1, <1>7 DEF Orderly, KnowsStores
  <2>2. ASSUME crashes = 0, NEW p \in Live, NEW d \in Cited(pack[p]), d \in doomed
        PROVE  FALSE
    <3>1. d \in Docs /\ doc[d] # None /\ doc[d].expires >= pack[p].expires
      BY <1>1, <1>7, <2>2 DEF Orderly, Kept, Keeping
    <3>2. doc[d].expires \in Nat /\ pack[p].expires \in Nat
      BY <1>3, <2>2, <3>1 DEF Live, PacksInv, RecordsAreGood, RecordIsGood, IsRecord
    <3>3. q.op # "erase" /\ pack[p].expires >= q.until
      BY <1>2, <2>1, <2>2, <3>2 DEF Doomed
    <3>4. doc[d].expires < q.until
      BY <1>4, <2>2, <3>3 DEF Doomed
    <3>5. QED  BY <1>2, <3>1, <3>2, <3>3, <3>4
  <2>3. q.op = "erase" => Live = {}
    BY <2>1 DEF Doomed
  <2>4. QED  BY <2>2, <2>3
<1>8. ASSUME NEW m, m.at = "deleteBytes", m.op = n.op, SameRegisters(m, n)
      PROVE  KnowsFiles(m) /\ (Orderly(q) => KnowsStores(m))
  <2>1. m.op = q.op /\ m.until = q.until /\ m.todo = doomed
    BY <1>6, <1>8 DEF SameRegisters
  <2>2. KnowsFiles(m)
    BY <1>2, <1>3, <1>8, <2>1
       DEF KnowsFiles, Uploading, Opening, Rewriting, Keeping, Purging
  <2>3. Orderly(q) => KnowsStores(m)
    BY <1>5, <1>7, <1>8, <2>1 DEF KnowsStores, Rewriting, Keeping
  <2>4. QED  BY <2>2, <2>3
<1>9. q.at \notin Settled
  BY <1>1 DEF Settled
<1>10. QED  BY <1>1, <1>6, <1>8, <1>9, GotoKeeps

\* It ends.
LEMMA FinishKeeps ==
  ASSUME PacksInv, FilesInv, NEW r \in Requests, Finish(r)
  PROVE  Keeps(r)
<1>1. /\ req[r].at = "deleteBytes" /\ Answer(r)
      /\ UNCHANGED <<docVars, pack, input, crashes>>
  BY DEF Finish, At, serverVars
<1>2. req[r].at # "idle" /\ req[r].at \notin Settled
  BY <1>1 DEF Settled
<1>3. QED  BY <1>1, <1>2, AnswerKeeps

\* Where an edit that was saved goes on: it keeps the receipts it cites, and the statement
\* too if the retention grew.
GoesOn(q, m) ==
  \/ m = IdleRequest /\ q.op # "sign" /\ (q.op = "answer" => q.d = None)
  \/ m.at = "learn" /\ q.op = "correct"
  \/ /\ m.at \in Keeping /\ m.p = q.p /\ m.until = Edited(q).expires
     /\ \/ q.op = "answer" /\ m.at = "keep" /\ m.todo = {q.d}
        \/ /\ q.op = "sign" /\ m.todo = Cited(q.view)
           /\ m.at = "keep" => q.until = q.view.expires

\* After the save a request is answered, learns, or keeps what the pack rests on.
LEMMA SavedEditMoves ==
  ASSUME PacksInv, NEW r \in Requests, UpdatePack(r),
         Current(req[r].p, req[r].view.revision), EditIsWellFormed(req[r])
  PROVE  \E m : MovesTo(r, m) /\ GoesOn(req[r], m)
<1> DEFINE q == req[r]
<1> DEFINE todo == IF q.op = "sign" THEN Cited(q.view) ELSE {q.d}
<1> DEFINE until == Edited(q).expires
<1> DEFINE a == [q EXCEPT !.todo = todo]
<1> DEFINE n == [a EXCEPT !.until = until]
<1>1. IsRequest(q)
  BY RequestsHold
<1>2. IF AfterUpdate(q) = None THEN Answer(r)
      ELSE Goto(r, AfterUpdate(q), [q EXCEPT !.todo = todo, !.until = until])
  BY DEF UpdatePack
<1>3. [q EXCEPT !.todo = todo, !.until = until] = n
  BY <1>1, SeveralRegisters
<1>4. /\ q.op = "sign" => todo = Cited(q.view)
      /\ q.op # "sign" => todo = {q.d}
  OBVIOUS
<1> HIDE DEF todo, until
<1>5. IsRequest(a) /\ a.todo = todo /\ a.p = q.p /\ a.op = q.op
  BY <1>1 DEF IsRequest
<1> HIDE DEF a
<1>6. IsRequest(n) /\ n.todo = todo /\ n.until = until /\ n.p = q.p /\ n.op = q.op
  BY <1>5 DEF IsRequest
<1> HIDE DEF n
<1>7. q.op \in {"answer", "correct", "sign"}
  BY DEF EditIsWellFormed
<1>8. CASE AfterUpdate(q) = None
  <2>1. MovesTo(r, IdleRequest)
    BY <1>2, <1>8, AnswerMoves
  <2>2. (q.op = "answer" => q.d = None) /\ q.op # "sign"
    BY <1>7, <1>8, PackAssumption DEF AfterUpdate
  <2>3. QED  BY <2>1, <2>2 DEF GoesOn
<1>9. CASE AfterUpdate(q) # None
  <2>1. PICK m : MovesTo(r, m) /\ m.at = AfterUpdate(q) /\ SameRegisters(m, n)
    BY <1>2, <1>3, <1>6, <1>9, GotoMoves
  <2>2. m.todo = todo /\ m.until = until /\ m.p = q.p
    BY <1>6, <2>1 DEF SameRegisters
  <2>3. CASE q.op = "answer"
    BY <1>4, <1>9, <2>1, <2>2, <2>3 DEF GoesOn, AfterUpdate, Keeping, until
  <2>4. CASE q.op = "correct"
    BY <1>9, <2>1, <2>4 DEF GoesOn, AfterUpdate
  <2>5. CASE q.op = "sign"
    <3>1. m.at = IF q.until # q.view.expires THEN "keepInput" ELSE "keep"
      BY <2>1, <2>5 DEF AfterUpdate
    <3>2. m.at \in Keeping /\ (m.at = "keep" => q.until = q.view.expires)
      BY <3>1 DEF Keeping
    <3>3. QED  BY <1>4, <2>1, <2>2, <2>5, <3>2 DEF GoesOn, until
  <2>6. QED  BY <1>7, <2>1, <2>3, <2>4, <2>5
<1>10. QED  BY <1>8, <1>9

\* What an edit makes of a record, and that it cites what the record cited and the receipt
\* of the answer.
LEMMA EditMakes ==
  ASSUME NEW q, EditIsWellFormed(q), q.op = "sign" => SignOffIsChecked(q),
         RecordIsGood(q.view), q.view.status = "OPEN"
  PROVE  /\ Edited(q).version = q.view.version /\ Edited(q).expires \in Nat
         /\ q.op = "sign" => Edited(q).expires = q.until
         /\ q.op # "sign" => Edited(q).expires = q.view.expires
         /\ \A d \in Cited(Edited(q)) :
              d \in Cited(q.view) \/ (q.op = "answer" /\ d = q.d /\ q.d # None)
<1> DEFINE answered == [q.view.answers EXCEPT ![q.t] = {q.d} \ {None}]
<1>1. /\ q.view.expires \in Nat
      /\ q.view.answers = [u \in Txs |-> q.view.answers[u]]
  BY DEF RecordIsGood, IsRecord
<1>2. \/ /\ q.op = "answer" /\ q.t \in Txs
         /\ Edited(q).version = q.view.version /\ Edited(q).expires = q.view.expires
         /\ Edited(q).answers = answered
      \/ /\ q.op = "correct"
         /\ Edited(q).version = q.view.version /\ Edited(q).expires = q.view.expires
         /\ Edited(q).answers = q.view.answers
      \/ /\ q.op = "sign" /\ q.until \in Nat
         /\ Edited(q).version = q.view.version /\ Edited(q).expires = q.until
         /\ Edited(q).answers = q.view.answers
  BY EditedRecord DEF Revises
<1>3. CASE Edited(q).answers = q.view.answers
  <2>1. Cited(Edited(q)) = Cited(q.view)
    BY <1>3 DEF Cited
  <2>2. QED  BY <1>1, <1>2, <2>1
<1>4. CASE q.op = "answer" /\ q.t \in Txs /\ Edited(q).answers = answered
  <2>1. ASSUME NEW d \in Cited(Edited(q))
        PROVE  d \in Cited(q.view) \/ (d = q.d /\ q.d # None)
    <3>1. PICK t \in Txs : answered[t] # None /\ d \in answered[t]
      BY <1>4, <2>1 DEF Cited
    <3>2. CASE t = q.t
      <4>1. answered[t] = {q.d} \ {None}
        BY <1>1, <3>2
      <4>2. QED  BY <3>1, <4>1
    <3>3. CASE t # q.t
      <4>1. answered[t] = q.view.answers[t]
        BY <1>1, <3>3
      <4>2. QED  BY <3>1, <4>1 DEF Cited
    <3>4. QED  BY <3>2, <3>3
  <2>2. QED  BY <1>1, <1>2, <1>4, <2>1
<1>5. QED  BY <1>2, <1>3, <1>4

\* A save that goes on to learn, or is over, has changed no retention and cites nothing new;
\* one that goes on to keep what the pack rests on leaves that, and nothing else, to be kept.
LEMMA SavedEditKeepsThePack ==
  ASSUME PacksInv, FilesInv, NEW q, EditIsWellFormed(q), q.op = "sign" => SignOffIsChecked(q),
         RecordIsGood(q.view), q.view.status = "OPEN", pack[q.p] = q.view, q.p \in Live,
         q.at = "update", Orderly(q), crashes = 0, NEW m, GoesOn(q, m)
  PROVE  /\ \/ m.at = "keepInput" /\ m.p = q.p
            \/ input[q.p] \in Nat /\ input[q.p] >= Edited(q).expires
         /\ \A d \in Cited(Edited(q)) :
              /\ d \in Docs /\ doc[d] # None
              /\ \/ m.at \in Keeping /\ m.p = q.p /\ d \in m.todo
                 \/ doc[d].expires >= Edited(q).expires
<1>1. /\ input[q.p] \in Nat /\ input[q.p] >= q.view.expires
      /\ \A d \in Cited(q.view) : /\ d \in Docs /\ doc[d] # None
                                  /\ doc[d].expires >= q.view.expires
  BY DEF Orderly, Kept, Keeping
<1>2. /\ q.op = "sign" => Edited(q).expires = q.until
      /\ q.op # "sign" => Edited(q).expires = q.view.expires
      /\ \A d \in Cited(Edited(q)) :
           d \in Cited(q.view) \/ (q.op = "answer" /\ d = q.d /\ q.d # None)
  BY EditMakes
<1>3. \/ m.at = "keepInput" /\ m.p = q.p
      \/ input[q.p] \in Nat /\ input[q.p] >= Edited(q).expires
  <2>1. CASE q.op # "sign"
    BY <1>1, <1>2, <2>1
  <2>2. CASE q.op = "sign"
    <3>1. /\ m.at \in {"keepInput", "keep"} /\ m.p = q.p
          /\ m.at = "keep" => q.until = q.view.expires
      BY <2>2 DEF GoesOn, Keeping
    <3>2. QED  BY <1>1, <1>2, <2>2, <3>1
  <2>3. QED  BY <2>1, <2>2
<1>4. ASSUME NEW d \in Cited(Edited(q))
      PROVE  /\ d \in Docs /\ doc[d] # None
             /\ \/ m.at \in Keeping /\ m.p = q.p /\ d \in m.todo
                \/ doc[d].expires >= Edited(q).expires
  <2>1. CASE d \in Cited(q.view) /\ q.op # "sign"
    BY <1>1, <1>2, <2>1
  <2>2. CASE d \in Cited(q.view) /\ q.op = "sign"
    <3>1. m.at \in Keeping /\ m.p = q.p /\ m.todo = Cited(q.view)
      BY <2>2 DEF GoesOn, IdleRequest
    <3>2. QED  BY <1>1, <2>2, <3>1
  <2>3. CASE q.op = "answer" /\ d = q.d /\ q.d # None
    <3>1. m.at \in Keeping /\ m.p = q.p /\ m.todo = {q.d}
      BY <2>3 DEF GoesOn
    <3>2. doc[q.d] # None
      BY <2>3 DEF Orderly, KnowsStores
    <3>3. q.d \in Docs
      BY <2>3 DEF EditIsWellFormed
    <3>4. QED  BY <2>3, <3>1, <3>2, <3>3
  <2>4. QED  BY <1>2, <1>4, <2>1, <2>2, <2>3
<1>5. QED  BY <1>3, <1>4

\* The transaction of store.update, with what the edit goes on to keep.
LEMMA UpdatePackKeeps ==
  ASSUME PacksInv, FilesInv, NEW r \in Requests, UpdatePack(r)
  PROVE  Keeps(r)
<1> DEFINE q == req[r]
<1> DEFINE v == Edited(q)
<1>1. /\ q.at = "update" /\ UNCHANGED <<input, docVars>>
      /\ doc' = doc /\ crashes' = crashes
  BY DEF UpdatePack, At, docVars, serverVars
<1>2. /\ IsRequest(q) /\ EditIsWellFormed(q) /\ WasRead(pack, created, q.p, q.view)
      /\ q.op = "sign" => SignOffIsChecked(q)
  BY <1>1, RequestsHold DEF RequestIsGood
<1>3. q.at # "idle" /\ q.at \notin Settled
  BY <1>1 DEF Settled
<1>4. CASE Answer(r) /\ UNCHANGED <<pack, created, learned>>
  BY <1>1, <1>3, <1>4, AnswerKeeps
<1>5. CASE Current(q.p, q.view.revision)
  <2>1. pack' = [pack EXCEPT ![q.p] = v]
    BY <1>5 DEF UpdatePack, SetPack
  <2>2. /\ q.p \in created /\ q.p \in Packs /\ pack[q.p] # None /\ pack[q.p] = q.view
        /\ q.view.status = "OPEN" /\ RecordIsGood(q.view)
    BY <1>2, <1>5 DEF WasRead, Current, PacksInv, RecordsAreGood
  <2>3. PICK m : MovesTo(r, m) /\ GoesOn(q, m)
    BY <1>2, <1>5, SavedEditMoves
  <2>4. v.version = q.view.version /\ v.expires \in Nat
    BY <1>2, <2>2, EditMakes
  <2>5. q.p \in Live /\ Live' \subseteq Live /\ pack'[q.p] = v
        /\ \A x \in Packs \ {q.p} : pack'[x] = pack[x]
    BY <2>1, <2>2 DEF Live, PacksInv, RecordsAreGood
  <2> HIDE DEF v
  <2>6. \/ m.at \in {"idle", "learn"}
        \/ m.at \in Keeping /\ m.until = v.expires /\ m.p = q.p
    BY <2>3, IdleIsRequest DEF GoesOn, v
  <2>7. KnowsFiles(m)
    BY <2>2, <2>4, <2>6 DEF KnowsFiles, Uploading, Opening, Rewriting, Keeping, Purging
  <2>8. FilesInv'
    BY <1>1, <2>3, <2>7, FilesRest DEF FilesInv, StoresAreTyped
  <2>9. ASSUME Orderly(q)
        PROVE  Orderly(m)'
    <3>1. \A x \in Live' : x \in Live /\ pack'[x].version = pack[x].version
      BY <2>2, <2>4, <2>5 DEF Live
    <3>2. Versions'
      BY <2>9, <3>1, VersionsStay DEF Orderly
    <3>3. Latest(m)'
      <4>1. \A x \in Live' : pack'[x].status = "OPEN" => pack[x].status = "OPEN"
        BY <2>2, <2>5 DEF Live
      <4>2. QED  BY <1>1, <2>9, <3>1, <4>1 DEF Orderly, Latest
    <3>4. Kept(m)'
      <4>1. ASSUME crashes = 0, NEW x \in Live'
            PROVE  /\ \/ m.at = "keepInput" /\ m.p = x
                      \/ input[x] \in Nat /\ input[x] >= pack'[x].expires
                   /\ \A d \in Cited(pack'[x]) :
                        /\ d \in Docs /\ doc[d] # None
                        /\ \/ m.at \in Keeping /\ m.p = x /\ d \in m.todo
                           \/ doc[d].expires >= pack'[x].expires
        <5>1. CASE x = q.p
          BY <1>1, <1>2, <2>2, <2>3, <2>5, <2>9, <4>1, <5>1, SavedEditKeepsThePack DEF v
        <5>2. CASE x # q.p
          <6>1. x \in Live /\ pack'[x] = pack[x]
            BY <2>5, <4>1, <5>2 DEF Live
          <6>2. QED  BY <1>1, <2>9, <4>1, <6>1 DEF Orderly, Kept, Keeping
        <5>3. QED  BY <5>1, <5>2
      <4>2. QED  BY <1>1, <4>1 DEF Kept, Cited
    <3>5. KnowsStores(m)'
      BY <2>5, <2>6 DEF KnowsStores, Rewriting, Keeping
    <3>6. QED  BY <3>2, <3>3, <3>4, <3>5 DEF Orderly
  <2>10. QED  BY <1>3, <2>3, <2>8, <2>9 DEF Keeps
<1>6. QED  BY <1>4, <1>5 DEF UpdatePack

-----------------------------------------------------------------------------
(* Every step, and what other requests make of it *)

\* Every step of a pack's request.
LEMMA PackStepsKeep ==
  ASSUME PacksInv, FilesInv, NEW r \in Requests, PackStep(r)
  PROVE  Keeps(r)
BY ListPacksKeeps, InsertPackKeeps, SupersedeKeeps, LoadPackKeeps, AssertLinkableKeeps,
   UpdatePackKeeps, LearnKeeps, CheckSignOffKeeps, KeepInputKeeps, ListDoomedPacksKeeps,
   DeleteDoomedPackKeeps, ListDoomedDocumentsKeeps, FinishKeeps
   DEF PackStep

\* A request dies: what it was doing for the packs stays half done.
LEMMA CrashKeeps ==
  ASSUME PacksInv, FilesInv, NEW r \in Requests, Crash(r)
  PROVE  /\ FilesInv'
         /\ \E m : MovesTo(r, m) /\ (Orderly(req[r]) => Orderly(m)')
<1>1. /\ MovesTo(r, IdleRequest) /\ UNCHANGED docVars
      /\ pack' = pack /\ input' = input /\ crashes' = crashes + 1
  BY AnswerMoves DEF Crash, packVars
<1>2. crashes' \in Nat /\ crashes' # 0
  BY <1>1 DEF FilesInv, StoresAreTyped
<1>3. FilesInv'
  BY <1>1, <1>2, IdleKnowsNothing, FilesRest DEF FilesInv, StoresAreTyped
<1>4. ASSUME Orderly(req[r])
      PROVE  Orderly(IdleRequest)'
  <2>1. Versions'
    BY <1>1, <1>4 DEF Orderly, Versions, Live
  <2>2. Latest(IdleRequest)' /\ Kept(IdleRequest)'
    BY <1>2 DEF Latest, Kept
  <2>3. KnowsStores(IdleRequest)'
    BY IdleIsRequest DEF KnowsStores, Rewriting, Keeping
  <2>4. QED  BY <2>1, <2>2, <2>3 DEF Orderly
<1>5. QED  BY <1>1, <1>3, <1>4

\* A pack is deleted, whatever request runs.
LEMMA DeletePackKeeps ==
  ASSUME PacksInv, FilesInv, NEW p, DeletePack(p)
  PROVE  /\ FilesInv' /\ req' = req
         /\ \A q : KnowsFiles(q) /\ Orderly(q) => Orderly(q)'
<1>1. /\ UNCHANGED docVars /\ doc' = doc /\ bytes' = bytes /\ minted' = minted
      /\ req' = req /\ crashes' = crashes /\ RemovePack(p)
  BY DEF DeletePack, docVars, serverVars
<1>2. /\ DOMAIN input' = Packs
      /\ \A x \in Live' : x \in Live /\ x # p /\ pack'[x] = pack[x] /\ input'[x] = input[x]
  BY <1>1, RemovedPack
<1>3. FilesInv'
  <2>1. StoresAreTyped' /\ FilesHaveRecords'
    BY <1>1, <1>2 DEF FilesInv, StoresAreTyped, FilesHaveRecords
  <2>2. \A r \in Requests : KnowsFiles(req[r])'
    BY <1>1 DEF FilesInv, KnowsFiles
  <2>3. QED  BY <2>1, <2>2 DEF FilesInv
<1>4. \A x \in Packs : pack'[x] = pack[x] \/ pack'[x] = None
  BY <1>1 DEF RemovePack, PacksInv, RecordsAreGood
<1>5. ASSUME NEW q, KnowsFiles(q), Orderly(q)
      PROVE  Orderly(q)'
  <2>1. q.at \in Keeping => pack'[q.p] = None \/ pack'[q.p].expires = q.until
    BY <1>4, <1>5 DEF Orderly, KnowsStores, KnowsFiles
  <2>2. KnowsStores(q)'
    BY <1>1, <1>2, <1>5, <2>1 DEF Orderly, KnowsStores, Doomed
  <2>3. QED  BY <1>1, <1>2, <1>5, <2>2, FewerPacks
<1>6. QED  BY <1>1, <1>3, <1>5

\* A step that moves no request and writes nothing.
LEMMA NothingMovesKeeps ==
  ASSUME FilesInv, UNCHANGED <<docVars, pack, input, crashes, req>>
  PROVE  /\ FilesInv' /\ req' = req
         /\ \A q : KnowsFiles(q) /\ Orderly(q) => Orderly(q)'
<1>1. doc' = doc /\ bytes' = bytes /\ minted' = minted /\ req' = req
  BY DEF docVars
<1>2. StoresAreTyped' /\ FilesHaveRecords'
  BY <1>1 DEF FilesInv, StoresAreTyped, FilesHaveRecords
<1>3. \A r \in Requests : KnowsFiles(req[r])'
  BY <1>1 DEF FilesInv, KnowsFiles
<1>4. ASSUME NEW q, Orderly(q)
      PROVE  Orderly(q)'
  BY <1>1, <1>4, OrderlyStill
<1>5. QED  BY <1>1, <1>2, <1>3, <1>4 DEF FilesInv

\* What a step of the program is: of one request, or of none.
LEMMA EveryStepKeeps ==
  ASSUME PacksInv, FilesInv, [Next]_vars
  PROVE  /\ FilesInv'
         /\ \/ \E r \in Requests : \E m :
                 /\ MovesTo(r, m) /\ (Orderly(req[r]) => Orderly(m)')
                 /\ req[r] # IdleRequest \/ m # IdleRequest
            \/ req' = req /\ \A q : KnowsFiles(q) /\ Orderly(q) => Orderly(q)'
<1>1. IdleRequest.at = "idle" /\ IdleRequest.op = "none"
  BY DEF IdleRequest
<1>2. ASSUME NEW r \in Requests,
             \/ (StartDocument(r) \/ StartPack(r) \/ DocumentStep(r)) /\ UNCHANGED packVars
             \/ PackStep(r)
      PROVE  Keeps(r)
  BY <1>2, StartDocumentKeeps, StartPackKeeps, DocumentStepsKeep, PackStepsKeep
<1>3. ASSUME NEW r \in Requests, Keeps(r)
      PROVE  /\ FilesInv'
             /\ \E m : /\ MovesTo(r, m) /\ (Orderly(req[r]) => Orderly(m)')
                       /\ req[r] # IdleRequest \/ m # IdleRequest
  BY <1>1, <1>3 DEF Keeps
<1>4. ASSUME NEW r \in Requests, Crash(r)
      PROVE  /\ FilesInv'
             /\ \E m : /\ MovesTo(r, m) /\ (Orderly(req[r]) => Orderly(m)')
                       /\ req[r] # IdleRequest \/ m # IdleRequest
  <2>1. req[r] # IdleRequest
    BY <1>1, <1>4 DEF Crash
  <2>2. QED  BY <1>4, <2>1, CrashKeeps
<1>5. CASE Tick
  BY <1>5, NothingMovesKeeps DEF Tick, packVars
<1>6. CASE UNCHANGED vars
  BY <1>6, NothingMovesKeeps DEF vars, packVars, serverVars
<1>7. ASSUME NEW p \in Packs, DeletePack(p)
      PROVE  /\ FilesInv' /\ req' = req
             /\ \A q : KnowsFiles(q) /\ Orderly(q) => Orderly(q)'
  BY <1>7, DeletePackKeeps
<1>8. CASE \E r \in Requests :
             \/ (StartDocument(r) \/ StartPack(r) \/ DocumentStep(r)) /\ UNCHANGED packVars
             \/ PackStep(r)
  BY <1>2, <1>3, <1>8
<1>9. CASE \E r \in Requests : Crash(r)
  BY <1>4, <1>9
<1>10. CASE \E p \in Packs : DeletePack(p)
  BY <1>7, <1>10
<1>11. QED  BY <1>5, <1>6, <1>8, <1>9, <1>10 DEF Next

\* A request that moves while all others are idle leaves the stores in order.
LEMMA OneMoveSettles ==
  ASSUME PacksInv, SerialInv, OneAtATime, OneAtATime', NEW r \in Requests, NEW m,
         MovesTo(r, m), req[r] # IdleRequest \/ m # IdleRequest,
         Orderly(req[r]) => Orderly(m)'
  PROVE  SerialInv'
<1>1. req'[r] = m /\ \A s \in Requests \ {r} : req'[s] = req[s]
  BY DEF MovesTo, PacksInv, RequestsAreGood
<1>2. \A s \in Requests \ {r} : req[s] = IdleRequest
  BY <1>1 DEF OneAtATime
<1>3. Sole(req[r])
  BY <1>2 DEF Sole
<1>4. Orderly(m)'
  BY <1>3 DEF SerialInv
<1>5. ASSUME NEW q, q \in {IdleRequest} \cup {req'[s] : s \in Requests}, Sole(q)'
      PROVE  q = m
  <2>1. req'[r] = q \/ req'[r] = IdleRequest
    BY <1>5 DEF Sole
  <2>2. q \in {IdleRequest, m}
    BY <1>1, <1>2, <1>5
  <2>3. QED  BY <1>1, <2>1, <2>2
<1>6. QED  BY <1>4, <1>5 DEF SerialInv, Orderly, Sole

\* So does a step that moves none.
LEMMA NoMoveSettles ==
  ASSUME PacksInv, FilesInv, SerialInv, req' = req,
         \A q : KnowsFiles(q) /\ Orderly(q) => Orderly(q)'
  PROVE  SerialInv'
<1>1. ASSUME NEW q, q \in {IdleRequest} \cup {req'[s] : s \in Requests}, Sole(q)'
      PROVE  Orderly(q)'
  <2>1. q \in {IdleRequest} \cup {req[s] : s \in Requests} /\ Sole(q)
    BY <1>1 DEF Sole
  <2>2. KnowsFiles(q)
    BY <2>1, IdleKnowsNothing DEF FilesInv
  <2>3. QED  BY <2>1, <2>2 DEF SerialInv
<1>2. QED  BY <1>1 DEF SerialInv, Orderly, Sole

\* Nothing is stored at first.
LEMMA FilesStart == Init => FilesInv /\ SerialInv
<1> SUFFICES ASSUME Init PROVE FilesInv /\ SerialInv
  OBVIOUS
<1>1. /\ doc = [d \in Docs |-> None] /\ bytes = {} /\ minted = {} /\ crashes = 0
      /\ \A r \in Requests : req[r] = IdleRequest
      /\ input = [p \in Packs |-> None] /\ Live = {}
  BY DEF Init, DocumentInit, Live
<1>2. StoresAreTyped /\ FilesHaveRecords
  BY <1>1 DEF StoresAreTyped, FilesHaveRecords
<1>3. FilesInv
  BY <1>1, <1>2, IdleKnowsNothing DEF FilesInv
<1>4. Versions /\ Latest(IdleRequest) /\ Kept(IdleRequest)
  BY <1>1 DEF Versions, Latest, Kept
<1>5. Orderly(IdleRequest)
  BY <1>4, IdleKnowsNothing DEF Orderly
<1>6. SerialInv
  BY <1>1, <1>5 DEF SerialInv
<1>7. QED  BY <1>3, <1>6

\* However many requests run at once and die half-way, a recorded file has its record: the
\* file goes first, and no request writes it again (lib/document-intake.ts, purge).
THEOREM FilesStayKnownToPurges == Spec => []FilesInv
<1>1. PacksInv /\ FilesInv /\ [Next]_vars => FilesInv'
  BY EveryStepKeeps
<1>2. QED  BY PacksStayGood, FilesStart, <1>1, PTL DEF Spec

\* No file outlives its record, whoever else runs.
THEOREM FilesAlwaysHaveRecords == Spec => []FilesHaveRecords
<1>1. FilesInv => FilesHaveRecords
  BY DEF FilesInv
<1>2. QED  BY FilesStayKnownToPurges, <1>1, PTL

\* Where requests run one after the other, the stores stay in order.
THEOREM SerialStoresStayInOrder == Spec /\ []OneAtATime => []SerialInv
<1>1. ASSUME PacksInv, FilesInv, SerialInv, OneAtATime, OneAtATime', [Next]_vars
      PROVE  SerialInv'
  <2>1. CASE \E r \in Requests : \E m :
               /\ MovesTo(r, m) /\ (Orderly(req[r]) => Orderly(m)')
               /\ req[r] # IdleRequest \/ m # IdleRequest
    BY <1>1, <2>1, OneMoveSettles
  <2>2. CASE req' = req /\ \A q : KnowsFiles(q) /\ Orderly(q) => Orderly(q)'
    BY <1>1, <2>2, NoMoveSettles
  <2>3. QED  BY <1>1, <2>1, <2>2, EveryStepKeeps
<1>2. QED  BY PacksStayGood, FilesStayKnownToPurges, FilesStart, <1>1, PTL DEF Spec

\* At rest every request is idle, and the stores are in order.
LEMMA AtRestInOrder ==
  ASSUME SerialInv, AtRest
  PROVE  crashes = 0 /\ Orderly(IdleRequest) /\ IdleRequest.at = "idle"
BY IdleIsRequest DEF AtRest, SerialInv, Sole

\* Files are deleted and kept with their records, and statements and receipts with their
\* pack, at least as long (lib/pack-lifecycle.ts, signOffPack; lib/retention.ts), where
\* requests run one after the other.
THEOREM FilesAreAlwaysKeptTogether == Spec /\ []OneAtATime => []FilesAreKeptTogether
<1>1. ASSUME FilesInv, SerialInv
      PROVE  FilesAreKeptTogether
  <2>1. ASSUME AtRest, NEW p \in Live
        PROVE  /\ input[p] # None /\ input[p] >= pack[p].expires
               /\ \A d \in Cited(pack[p]) :
                    doc[d] # None /\ doc[d].expires >= pack[p].expires
    BY <1>1, <2>1, AtRestInOrder, NoneAssumption DEF Orderly, Kept, Keeping
  <2>2. QED  BY <1>1, <2>1 DEF FilesAreKeptTogether, KeptPackIsComplete, FilesInv
<1>2. QED  BY FilesStayKnownToPurges, SerialStoresStayInOrder, <1>1, PTL

\* No two packs of a period have one version, and at rest only the latest is OPEN
\* (lib/pack-lifecycle.ts, createPack), where requests run one after the other.
THEOREM VersionsAreAlwaysDistinct == Spec /\ []OneAtATime => []VersionsAreDistinct
<1>1. ASSUME SerialInv, OneAtATime
      PROVE  VersionsAreDistinct
  <2>1. PICK q \in {IdleRequest} \cup {req[r] : r \in Requests} : Sole(q)
    <3>1. CASE \A r \in Requests : req[r] = IdleRequest
      BY <3>1 DEF Sole
    <3>2. CASE \E r \in Requests : req[r] # IdleRequest
      BY <1>1, <3>2 DEF Sole, OneAtATime
    <3>3. QED  BY <3>1, <3>2
  <2>2. Versions
    BY <1>1, <2>1 DEF SerialInv, Orderly
  <2>3. AtRest => \A p, s \in Live :
                    pack[p].status = "OPEN" /\ pack[s].version > pack[p].version => FALSE
    BY <1>1, AtRestInOrder DEF Orderly, Latest
  <2>4. QED  BY <2>2, <2>3 DEF VersionsAreDistinct, Versions
<1>2. QED  BY SerialStoresStayInOrder, <1>1, PTL

\* Where an erasure ends: only its own last step answers it there.
LEMMA ErasureEnds ==
  ASSUME PacksInv, FilesInv, NEW r \in Requests, req[r].at = "deleteBytes",
         req'[r] = IdleRequest, crashes' = crashes, [Next]_vars
  PROVE  Finish(r)
<1>1. IdleRequest.at = "idle" /\ DOMAIN req = Requests
  BY DEF IdleRequest, PacksInv, RequestsAreGood
<1>2. req'[r] # req[r]
  BY <1>1
<1>3. ASSUME NEW s \in Requests, NEW m, MovesTo(s, m)
      PROVE  s = r
  BY <1>1, <1>2, <1>3 DEF MovesTo
<1>4. ASSUME NEW s \in Requests,
             \/ (StartDocument(s) \/ StartPack(s) \/ DocumentStep(s)) /\ UNCHANGED packVars
             \/ PackStep(s)
      PROVE  s = r
  <2>1. Keeps(s)
    BY <1>4, StartDocumentKeeps, StartPackKeeps, DocumentStepsKeep, PackStepsKeep
  <2>2. QED  BY <1>3, <2>1 DEF Keeps
<1>5. ~StartDocument(r)
  BY <1>1, Zenon DEF StartDocument, Begin
<1>6. ~StartPack(r)
  BY <1>1, Zenon DEF StartPack, Begin
<1>7. ~DocumentStep(r)
  <2>1. ~DeleteBytes(r)
    <3>1. SUFFICES ASSUME DeleteBytes(r) PROVE FALSE
      OBVIOUS
    <3>2. PICK d : Goto(r, "deleteRecord", [req[r] EXCEPT !.d = d])
      BY <3>1 DEF DeleteBytes
    <3>3. IsRequest([req[r] EXCEPT !.d = d])
      BY RequestsHold, OneRegister
    <3>4. PICK m : MovesTo(r, m) /\ m.at = "deleteRecord"
      BY <3>2, <3>3, GotoMoves
    <3>5. QED  BY <1>1, <3>4 DEF MovesTo
  <2>2. QED
    BY <2>1 DEF DocumentStep, At, FindBySha, SaveBytes, CreateDocument, ReviewGet, ScanGet,
                ScanBytes, SetReview, ReadGet, ReadBytes, SetRead, Keep, DeleteRecord
<1>8. PackStep(r) => Finish(r)
  BY DEF PackStep, At, ListPacks, InsertPack, Supersede, LoadPack, AssertLinkable, UpdatePack,
         Learn, CheckSignOff, KeepInput, ListDoomedPacks, DeleteDoomedPack,
         ListDoomedDocuments
<1>9. ASSUME NEW s \in Requests, Crash(s)
      PROVE  FALSE
  BY <1>9 DEF Crash, FilesInv, StoresAreTyped
<1>10. ASSUME NEW p \in Packs, DeletePack(p)
       PROVE  FALSE
  BY <1>2, <1>10 DEF DeletePack
<1>11. ~Tick /\ ~UNCHANGED vars
  BY <1>2 DEF Tick, vars
<1>12. QED  BY <1>4, <1>5, <1>6, <1>7, <1>8, <1>9, <1>10, <1>11 DEF Next

\* An erasure that runs to its end alone leaves no pack, no document and no learned rule
\* (lib/data-rights.ts, eraseCompanyData).
THEOREM ErasuresAreComplete == Spec /\ []OneAtATime => ErasureIsComplete
<1>1. ASSUME PacksInv, FilesInv, SerialInv, OneAtATime, [Next]_vars
      PROVE  [\A r \in Requests :
                req[r].op = "erase" /\ At(r, "deleteBytes") /\ req'[r] = IdleRequest
                  /\ crashes' = crashes
                => Live' = {} /\ doc' = [d \in Docs |-> None]
                   /\ learned' = [t \in Txs |-> None]]_vars
  <2>1. ASSUME NEW r \in Requests, req[r].op = "erase", At(r, "deleteBytes"),
               req'[r] = IdleRequest, crashes' = crashes
        PROVE  /\ Live' = {} /\ doc' = [d \in Docs |-> None]
               /\ learned' = [t \in Txs |-> None]
    <3>1. Finish(r) /\ req[r].at = "deleteBytes"
      BY <1>1, <2>1, ErasureEnds DEF At
    <3>2. req[r] # IdleRequest
      BY <3>1, IdleIsRequest
    <3>3. Sole(req[r])
      BY <1>1, <3>2 DEF OneAtATime, Sole
    <3>4. Live = {} /\ \A d \in Docs : doc[d] # None => d \in req[r].todo
      BY <1>1, <2>1, <3>1, <3>3 DEF SerialInv, Orderly, KnowsStores
    <3>5. /\ req[r].todo = {} /\ pack' = pack /\ doc' = doc
          /\ learned' = [t \in Txs |-> None]
      BY <2>1, <3>1 DEF Finish, docVars
    <3>6. Live' = {}
      BY <3>4, <3>5 DEF Live
    <3>7. doc = [d \in Docs |-> doc[d]]
      BY <1>1 DEF FilesInv, StoresAreTyped
    <3>8. QED  BY <3>4, <3>5, <3>6, <3>7
  <2>2. QED  BY <2>1
<1>2. QED
  BY PacksStayGood, FilesStayKnownToPurges, SerialStoresStayInOrder, <1>1, PTL
     DEF Spec, ErasureIsComplete

===============================================================================
