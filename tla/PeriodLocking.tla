--------------------------- MODULE PeriodLocking ---------------------------
(***************************************************************************)
(* What the close-locking part of FinClose promises, without saying how:   *)
(* a company's locked accounting periods never overlap, and no financial   *)
(* work is recorded inside a period while it is locked.  The Firestore     *)
(* ledger (module PeriodLedger) is shown to implement this module.         *)
(***************************************************************************)
EXTENDS Integers

CONSTANTS
  Closes,   \* monthly closes:  [company, start, end, ...]
  Works     \* ledger records of financial work: [company, start, end, ...]

VARIABLES
  locked,   \* the closes whose period is locked now
  booked    \* the work recorded so far

specVars == <<locked, booked>>

\* The days an inclusive date range covers.
Days(x) == x.start .. x.end

\* Two date ranges of one company share a day.
Collide(a, b) ==
  /\ a.company = b.company
  /\ Days(a) \cap Days(b) # {}

SpecInit ==
  /\ locked = {}
  /\ booked = {}

\* A close takes its period: no close of the company holds a colliding one.
Lock(c) ==
  /\ \A d \in locked : ~Collide(c, d)
  /\ locked' = locked \cup {c}
  /\ UNCHANGED booked

\* Only an explicit reopen frees a period.
Reopen(c) ==
  /\ c \in locked
  /\ locked' = locked \ {c}
  /\ UNCHANGED booked

\* Work is recorded, once, in a period nobody holds.
Book(w) ==
  /\ \A d \in locked : ~Collide(w, d)
  /\ booked' = booked \cup {w}
  /\ UNCHANGED locked

SpecNext ==
  \/ \E c \in Closes : Lock(c) \/ Reopen(c)
  \/ \E w \in Works : Book(w)

LockingSpec == SpecInit /\ [][SpecNext]_specVars

=============================================================================
