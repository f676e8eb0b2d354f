------------------------- MODULE PayrollArithmetic -------------------------
(***************************************************************************)
(* Money and tax arithmetic that every payroll engine under src/lib        *)
(* repeats for itself.  An amount is a number of cents (tetri, centimes),  *)
(* a rate is a pair <<numerator, denominator>>, and Share is money(x*rate) *)
(* in exact decimal arithmetic: Math.round rounds a half up.  The split    *)
(* into quotient and remainder keeps every product inside 32 bits.         *)
(***************************************************************************)
EXTENDS Integers, Sequences, FiniteSets

Pct(n) == <<n, 100>>
Bp(n) == <<n, 10000>>
Units(n) == 100 * n

AtMost(a, b) == IF a <= b THEN a ELSE b
AtLeast(a, b) == IF a >= b THEN a ELSE b

\* A bug to catch: what is left of a division is dropped.
HalfUpNever(n, d) == n \div d

HalfUp(n, d) == (n \div d) + (IF 2 * (n % d) >= d THEN 1 ELSE 0)

Share(x, rate) ==
    (x \div rate[2]) * rate[1] + HalfUp((x % rate[2]) * rate[1], rate[2])

\* The part of a year that a period's pay stands for: x * 12 / 12 and so on.
PerPeriod(annual, periods) == HalfUp(annual, periods)

\* A bug to catch: each period has the whole ceiling to itself.
CeilingContributionEachPeriod(ytd, amount, ceiling, rate) ==
    Share(AtMost(amount, ceiling), rate)

\* What is left of a ceiling is contributed on, and no more.
CeilingContribution(ytd, amount, ceiling, rate) ==
    Share(AtMost(amount, AtLeast(0, ceiling - ytd)), rate)

\* The part of this period's pay that falls between two annual limits.
BandedContribution(ytd, amount, floor, cap, rate) ==
    Share(AtLeast(0, AtMost(ytd + amount, cap) - AtLeast(ytd, floor)), rate)

\* A tax already paid this year counts against its annual cap.
CapTax(paid, due, cap) == AtMost(due, AtLeast(0, cap - paid))

(***************************************************************************)
(* Tables.  A row is <<from, base, rate>>: from in whole units, base in    *)
(* cents, rate in basis points.                                            *)
(***************************************************************************)
\* The last row before the first that the amount does not reach.
Row(amount, table) ==
    table[CHOOSE k \in 1..Len(table) :
            /\ \A j \in 2..k : Units(table[j][1]) <= amount
            /\ k < Len(table) => amount < Units(table[k + 1][1])]

\* A bug to catch: a bracket's rate falls on the whole amount.
BracketLookupOnTheWhole(amount, table) ==
    LET row == Row(amount, table)
    IN  row[2] + Share(amount, Bp(row[3]))

BracketLookup(amount, table) ==
    LET row == Row(amount, table)
    IN  row[2] + Share(amount - Units(row[1]), Bp(row[3]))

\* A row is <<from, amount>>: a step, not a slope.
StepLookup(amount, table) == Row(amount, table)[2]

\* A slope between two incomes, flat outside them: slope = (high - low) / (to - from).
LinearTaper(income, from, to, high, low, slope) ==
    IF income <= Units(from) THEN high
    ELSE IF income >= Units(to) THEN low
    ELSE high + Share(Units(from) - income, slope)

(***************************************************************************)
(* Journals: debits and credits are lines <<account role, amount>>.        *)
(***************************************************************************)
Total(lines) ==
    LET upTo[n \in 0..Len(lines)] == IF n = 0 THEN 0 ELSE upTo[n - 1] + lines[n][2]
    IN  upTo[Len(lines)]
JournalBalances(journal) == Total(journal.debits) = Total(journal.credits)

NonNegative(e, fields) == \A field \in fields : e[field] >= 0
=============================================================================
