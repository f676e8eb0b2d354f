------------------------- MODULE MCPeriodLedger -------------------------
(***************************************************************************)
(* TLC instance of PeriodLedger: two organizations and two companies.  The *)
(* closes A, B and C of the first company touch one another in a day; work *)
(* lies inside, across and outside the ranges that may be locked.          *)
(***************************************************************************)
EXTENDS PeriodLedger, TLC

CONSTANTS o1, o2, m1, m2, h1, h2, r1, r2

MCOrgs == {o1, o2}
MCCompanies == {m1, m2}
MCHashes == {h1, h2}
MCReasons == {r1, r2}

\* No organization, fingerprint or reason is special.
MCSymmetry == Permutations(MCOrgs) \cup Permutations(MCHashes) \cup Permutations(MCReasons)

closeA == [id |-> "A", company |-> m1, start |-> 1, end |-> 2]
closeB == [id |-> "B", company |-> m1, start |-> 2, end |-> 3]
closeC == [id |-> "C", company |-> m1, start |-> 3, end |-> 4]

MCCloses == {closeA, closeB, closeC}

Work(kind, m, s, e, fits, c) ==
  [kind |-> kind, company |-> m, start |-> s, end |-> e, fits |-> fits,
   close |-> c]

\* The cycle of close A, payroll across the edge of B, and batches: on a day of
\* B, too large, and of a company without locks.
MCWorks ==
  {Work("FINANCE_CYCLE", m1, 1, 2, TRUE, closeA),
   Work("PAYROLL_RUN", m1, 3, 5, TRUE, None),
   Work("BOOKKEEPING_BATCH", m1, 3, 3, FALSE, None),
   Work("BOOKKEEPING_BATCH", m2, 2, 2, TRUE, None)}

=============================================================================
