-------------------------- MODULE BankReconciliation --------------------------
(***************************************************************************)
(* reconcileBankToLedger of lib/bookkeeping-engine.ts: which transaction   *)
(* of a bank statement is which cash item of the ledger.  The lines arrive *)
(* in any order; the engine sorts them, scores pairs, and keeps a match    *)
(* only where neither side had an equally good choice.                     *)
(*                                                                         *)
(* A line is an id (a number, ordered as localeCompare orders the ids), an *)
(* amount in cents, a day and a normalized reference ("" when there is     *)
(* none).                                                                  *)
(***************************************************************************)
EXTENDS Integers, Sequences, FiniteSets, SequencesExt

CONSTANTS
  BankIds, LedgerIds,  \* at most one line each; a repeated id is refused (400)
  Lines                \* amount, date and reference of a line

VARIABLES bankLines, ledgerLines

matchingVars == <<bankLines, ledgerLines>>

ASSUME IdsAreOrdered == BankIds \subseteq Int /\ LedgerIds \subseteq Int
ASSUME LinesAreAmountsAndDays == Lines \subseteq [amount : Int, date : Int, reference : STRING]

\* Array.prototype.sort by a comparison that ties no two items: the items in that order.
\* The order is the set of the pairs whose first item comes first.
SortedBy(items, order) ==
  CHOOSE list \in [1..Cardinality(items) -> items] :
    \A i, j \in 1..Cardinality(items) : i < j => <<list[i], list[j]>> \in order

ById(lines) ==
  LET items == ToSet(lines) IN SortedBy(items, {p \in items \X items : p[1].id < p[2].id})

\* The higher score first, ties by id.
ByScore(items, score) ==
  SortedBy(items, {p \in items \X items :
                     \/ score[p[1]] > score[p[2]]
                     \/ score[p[1]] = score[p[2]] /\ p[1].id < p[2].id})

DaysApart(a, b) == IF a.date < b.date THEN b.date - a.date ELSE a.date - b.date

\* candidateScore; 0 where the code returns null.
Score(bank, ledger) ==
  LET sameReference == bank.reference # "" /\ bank.reference = ledger.reference
      distance == DaysApart(bank, ledger) IN
  IF bank.amount # ledger.amount \/ distance > 3 THEN 0
  ELSE IF sameReference THEN (IF distance = 0 THEN 100 ELSE 90)
  ELSE IF distance = 0 THEN 80 ELSE 0

IdsOf(lines) == {line.id : line \in lines}

\* The ledger items with a score, best first, and those of them that score as the first.
Candidates(bank, ledger) ==
  LET scored == {l \in ToSet(ledger) : Score(bank, l) > 0}
  IN ByScore(scored, [l \in scored |-> Score(bank, l)])
TopScore(bank, ledger) == Score(bank, Candidates(bank, ledger)[1])
TopCandidates(bank, ledger) ==
  {l \in ToSet(Candidates(bank, ledger)) : Score(bank, l) = TopScore(bank, ledger)}

\* The bank lines that propose a ledger item, their only top candidate, best first.
Contenders(item, bank, ledger) ==
  LET proposing == {b \in ToSet(bank) : TopCandidates(b, ledger) = {item}}
  IN ByScore(proposing, [b \in proposing |-> Score(b, item)])

\* A bug to catch: the first of equally good contenders wins.
FirstContenderWins(item, contenders) == Len(contenders) > 0

\* No other contender has the highest score.
HasWinner(item, contenders) ==
  /\ Len(contenders) > 0
  /\ \A i \in 2..Len(contenders) : Score(contenders[i], item) # Score(contenders[1], item)

Losers(item, contenders) ==
  {contenders[i] : i \in (IF HasWinner(item, contenders) THEN 2 ELSE 1)..Len(contenders)}

Ambiguity(bank, candidates, score, reason) ==
  [bank |-> bank.id, candidates |-> candidates, score |-> score, reason |-> reason]

\* The matches, the ambiguities and what is left.  The lists of the code are sorted by id:
\* sets here.
ReconcileBankToLedger(bankInput, ledgerInput) ==
  LET bank == ById(bankInput)
      ledger == ById(ledgerInput)
      contending == [l \in ToSet(ledger) |-> Contenders(l, bank, ledger)]
      won == {l \in ToSet(ledger) : HasWinner(l, contending[l])}
      matches == {<<contending[l][1].id, l.id>> : l \in won}
      undecided == {b \in ToSet(bank) : Cardinality(TopCandidates(b, ledger)) > 1}
  IN [matches |-> matches,
      ambiguous |->
        {Ambiguity(b, IdsOf(TopCandidates(b, ledger)), TopScore(b, ledger),
                   "MULTIPLE_TOP_CANDIDATES") : b \in undecided}
        \cup UNION {{Ambiguity(b, {l.id}, Score(b, l), "LEDGER_CONTENTION")
                     : b \in Losers(l, contending[l])} : l \in ToSet(ledger)},
      unmatchedBank |-> IdsOf(ToSet(bank)) \ {m[1] : m \in matches},
      unmatchedLedger |-> IdsOf(ToSet(ledger)) \ {m[2] : m \in matches}]

-----------------------------------------------------------------------------
(* The lines of a statement and of the ledger arrive in any order *)

MatchingInit == bankLines = <<>> /\ ledgerLines = <<>>

LineOf(id, line) ==
  [id |-> id, amount |-> line.amount, date |-> line.date, reference |-> line.reference]

AddBankLine ==
  \E id \in BankIds \ IdsOf(ToSet(bankLines)), line \in Lines :
    /\ bankLines' = Append(bankLines, LineOf(id, line))
    /\ UNCHANGED ledgerLines

\* Bound: the ledger is listed before the bank, since neither order meets the other.
AddLedgerLine ==
  \E id \in LedgerIds \ IdsOf(ToSet(ledgerLines)), line \in Lines :
    /\ bankLines = <<>>
    /\ ledgerLines' = Append(ledgerLines, LineOf(id, line))
    /\ UNCHANGED bankLines

MatchingNext == AddBankLine \/ AddLedgerLine

-----------------------------------------------------------------------------
(* What a match is, said without lists *)

Best(bank, ledger) ==
  {l \in ledger : /\ Score(bank, l) > 0
                  /\ \A other \in ledger : Score(bank, other) <= Score(bank, l)}

Agreed(b, l, bank, ledger) ==
  /\ Best(b, ledger) = {l}
  /\ \A other \in bank \ {b} : Best(other, ledger) = {l} => Score(other, l) < Score(b, l)

\* Whatever the order of the lines, a transaction is matched exactly when one ledger item
\* is its best and no other transaction wants that item as much; every other transaction
\* with a candidate is reported as ambiguous, with the reason, and nothing is matched
\* twice ('order-independent deterministic' matching, bookkeeping-engine.ts:75).
MatchingIsOrderFree ==
  LET bank == ToSet(bankLines)
      ledger == ToSet(ledgerLines)
      result == ReconcileBankToLedger(bankLines, ledgerLines)
      agreed == {p \in bank \X ledger : Agreed(p[1], p[2], bank, ledger)}
      pairs == {<<p[1].id, p[2].id>> : p \in agreed}
      open == {b \in bank : Best(b, ledger) # {} /\ \A p \in pairs : p[1] # b.id}
  IN /\ result.matches = pairs
     /\ {a.bank : a \in result.ambiguous} = IdsOf(open)
     /\ Cardinality(result.ambiguous) = Cardinality(open)
     /\ \A a \in result.ambiguous, b \in bank :
          a.bank = b.id => /\ a.candidates = IdsOf(Best(b, ledger))
                           /\ \A l \in Best(b, ledger) : a.score = Score(b, l)
                           /\ a.reason = "LEDGER_CONTENTION" <=> Cardinality(a.candidates) = 1
     /\ \A p, q \in pairs : p # q => p[1] # q[1] /\ p[2] # q[2]
     /\ result.unmatchedBank = IdsOf(bank) \ {p[1] : p \in pairs}
     /\ result.unmatchedLedger = IdsOf(ledger) \ {p[2] : p \in pairs}

=============================================================================
