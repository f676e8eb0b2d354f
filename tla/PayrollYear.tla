---------------------------- MODULE PayrollYear ----------------------------
(***************************************************************************)
(* One worker's pay over a year, prepared period by period by the engine   *)
(* of the worker's country (src/lib/payroll-engine*.ts).  The engines keep *)
(* nothing between two runs: whoever prepares a period types in the        *)
(* amounts "before" that the run before it returned as "after", and what   *)
(* is right over a year depends on that hand-over.                         *)
(***************************************************************************)
EXTENDS PayrollArithmetic

GE == INSTANCE PayrollGE
DE == INSTANCE PayrollDE
US == INSTANCE PayrollUS
UK == INSTANCE PayrollUK
CA == INSTANCE PayrollCA
KE == INSTANCE PayrollKE
ZA == INSTANCE PayrollZA
RW == INSTANCE PayrollRW
MU == INSTANCE PayrollMU
CM == INSTANCE PayrollCM

CONSTANTS
    Workers,    \* by country: the workers, with the amounts of a year's first run
    Pays,       \* by country: what a period may pay
    MaxPeriods, \* by country: the periods modelled of a year
    None

Countries == {"GE", "DE", "US", "GB", "CA", "KE", "ZA", "RW", "MU", "CM"}

Employee(c) ==
    CASE c = "GE" -> GE!Employee [] c = "DE" -> DE!Employee [] c = "US" -> US!Employee
      [] c = "GB" -> UK!Employee [] c = "CA" -> CA!Employee [] c = "KE" -> KE!Employee
      [] c = "ZA" -> ZA!Employee [] c = "RW" -> RW!Employee [] c = "MU" -> MU!Employee
      [] c = "CM" -> CM!Employee

\* Nothing is paid yet in the year that starts.
IsNewYear(c, e) ==
    CASE c \in {"GE", "DE"} -> e.ytd = 0
      [] c = "CA" -> e.ytd = 0 /\ e.ytd_wcb = 0
      [] c = "MU" -> e.ytd = 0 /\ e.withheld = 0
      [] c = "US" -> e.ytd = US!NoWages
      [] OTHER -> TRUE

ASSUME WorkersStartTheYear ==
    /\ DOMAIN Workers \subseteq Countries
    /\ \A c \in DOMAIN Workers :
         /\ \A e \in Workers[c] : e \in Employee(c) /\ IsNewYear(c, e)
         /\ \A pay \in Pays[c] : pay \in Int
         /\ MaxPeriods[c] \in Nat

VARIABLES country, first, worker, periods, slip, paid, answer
vars == <<country, first, worker, periods, slip, paid, answer>>

(***************************************************************************)
(* The engine of each country.                                             *)
(***************************************************************************)
Valid(c, e) ==
    CASE c = "GE" -> GE!Valid(e) [] c = "DE" -> DE!Valid(e) [] c = "US" -> US!Valid(e)
      [] c = "GB" -> UK!Valid(e) [] c = "CA" -> CA!Valid(e) [] c = "KE" -> KE!Valid(e)
      [] c = "ZA" -> ZA!Valid(e) [] c = "RW" -> RW!Valid(e) [] c = "MU" -> MU!Valid(e)
      [] c = "CM" -> CM!Valid(e)

Payslip(c, e) ==
    CASE c = "GE" -> GE!Payslip(e) [] c = "DE" -> DE!Payslip(e) [] c = "US" -> US!Payslip(e)
      [] c = "GB" -> UK!Payslip(e) [] c = "CA" -> CA!Payslip(e) [] c = "KE" -> KE!Payslip(e)
      [] c = "ZA" -> ZA!Payslip(e) [] c = "RW" -> RW!Payslip(e) [] c = "MU" -> MU!Payslip(e)
      [] c = "CM" -> CM!Payslip(e)

Journal(c, t) ==
    CASE c = "GE" -> GE!Journal(t) [] c = "DE" -> DE!Journal(t) [] c = "US" -> US!Journal(t)
      [] c = "GB" -> UK!Journal(t) [] c = "CA" -> CA!Journal(t) [] c = "KE" -> KE!Journal(t)
      [] c = "ZA" -> ZA!Journal(t) [] c = "RW" -> RW!Journal(t) [] c = "MU" -> MU!Journal(t)
      [] c = "CM" -> CM!Journal(t)

\* Germany takes the pay twice: what insurance counts and what tax counts.
WithPay(c, e, pay) ==
    IF c = "DE" THEN [e EXCEPT !.sv_gross_pay = pay, !.taxable_gross_pay = pay]
    ELSE [e EXCEPT !.gross_pay = pay]

\* The next period's employee: "after" becomes "before", where the engine has the two.
Carried(c, e, t) ==
    CASE c \in {"GE", "DE", "US"} -> [e EXCEPT !.ytd = t.ytd_after]
      [] c = "CA" -> [e EXCEPT !.ytd = t.ytd_after, !.ytd_wcb = t.ytd_wcb_after]
      [] c = "MU" -> [e EXCEPT !.ytd = t.ytd_after, !.withheld = t.withheld_after,
                               !.sequence = @ + 1]
      [] OTHER -> e

(***************************************************************************)
(* What a year adds up, for the contributions that stop at a ceiling and   *)
(* for a cumulative tax: the wages that count and what was withheld.       *)
(***************************************************************************)
Counted(c, e, t) ==
    CASE c = "GE" -> [state_pension |-> <<t.taxable_salary, t.state_pension>>]
      [] c = "DE" -> [pension |-> <<e.sv_gross_pay + e.one_time, t.pension>>]
      [] c = "CA" -> [ei |-> <<e.gross_pay, t.employee_ei>>, cpp2 |-> <<e.gross_pay, t.employee_cpp2>>,
                      cpp1 |-> <<e.gross_pay, t.employee_cpp1>>, wcb |-> <<e.gross_pay, t.employer_wcb>>]
      [] c = "US" -> [fica |-> <<US!FicaWages(e), t.fica_employee>>, futa |-> <<US!FicaWages(e), t.futa>>,
                      sui |-> <<US!FicaWages(e), t.sui>>,
                      state |-> <<IF e.state = "CA" THEN US!FicaWages(e) ELSE e.gross_pay,
                                  t.state_contributions>>]
      [] c = "MU" -> [paye |-> <<e.gross_pay, t.paye>>]
      [] OTHER -> [none |-> <<0, 0>>]

Added(sums, counted) ==
    IF periods = 0 THEN counted
    ELSE [s \in DOMAIN sums |-> <<sums[s][1] + counted[s][1], sums[s][2] + counted[s][2]>>]

(***************************************************************************)
(* Actions.                                                                *)
(***************************************************************************)
Init ==
    /\ country \in DOMAIN Workers
    /\ first \in Workers[country]
    /\ worker = first
    /\ periods = 0
    /\ slip = None
    /\ paid = None
    /\ answer = "NONE"

\* A run that the engine accepts: the payslip, and the amounts for the next one.
Prepare(pay) ==
    LET e == WithPay(country, worker, pay)
        t == Payslip(country, e)
    IN  /\ periods < MaxPeriods[country]
        /\ Valid(country, e)
        /\ slip' = t
        /\ worker' = Carried(country, e, t)
        /\ paid' = Added(paid, Counted(country, e, t))
        /\ periods' = periods + 1
        /\ answer' = "PREPARED"
        /\ UNCHANGED <<country, first>>

\* A run that it refuses changes nothing.
Refuse(pay) ==
    /\ ~Valid(country, WithPay(country, worker, pay))
    /\ answer' = "REFUSED"
    /\ UNCHANGED <<country, first, worker, periods, slip, paid>>

\* The amounts of the year start again.
StartYear ==
    /\ periods > 0
    /\ worker' = first
    /\ periods' = 0
    /\ slip' = None
    /\ paid' = None
    /\ answer' = "NONE"
    /\ UNCHANGED <<country, first>>

Next ==
    \/ \E pay \in Pays[country] : Prepare(pay) \/ Refuse(pay)
    \/ StartYear

Spec == Init /\ [][Next]_vars

(***************************************************************************)
(* What the year's contributions and taxes should come to.                 *)
(***************************************************************************)
Distance(x, y) == AtLeast(x - y, y - x)

\* A worker in the United States whose pay is the wages that count.
PaidAtOnce(e, wages) == [e EXCEPT !.gross_pay = wages, !.pretax_125 = 0]

\* The contribution that the year's wages owe, had the worker been paid them at once.
Owed(e, scheme, wages) ==
    CASE scheme = "state_pension" ->
           IF e.pension_participant THEN GE!StatePension(0, wages) ELSE 0
      [] scheme = "pension" -> CeilingContribution(0, wages, DE!Pack.pension_ceiling, DE!Pack.pension_half)
      [] scheme = "ei" -> Share(AtMost(wages, CA!Ei.max_insurable), CA!Ei.rate)
      [] scheme = "cpp2" -> Share(AtLeast(0, AtMost(wages, CA!Cpp.yampe) - CA!Cpp.ympe), CA!Cpp.second)
      [] scheme = "wcb" -> IF e.wcb_rate = -1 THEN 0
                           ELSE Share(AtMost(wages, e.wcb_ceiling), Pct(e.wcb_rate))
      [] scheme \in {"fica", "futa", "sui"} ->
           LET f == US!FicaAndFuta(PaidAtOnce(e, wages))
           IN  IF scheme = "fica" THEN f.social_security + f.medicare + f.additional_medicare
               ELSE f[scheme]
      [] scheme = "state" -> US!StateContributions(PaidAtOnce(e, wages))
      [] scheme = "paye" -> BracketLookup(wages, MU!Pack.brackets)

\* Mauritius settles the year only in a period that is taxed, and against the whole
\* pay only where there are no reliefs.  New York caps disability benefits by the week.
Settled(scheme) ==
    /\ scheme = "paye" =>
         /\ first.director = "NONE"
         /\ ~first.resident \/ first.reliefs = 0
         /\ slip.gross_pay >= MU!Pack.low_emoluments
    /\ scheme = "state" => ~first.dbl

\* A scheme rounds to the cent once a period, and at most three are added in one line.
Roundings == 3 * periods

\* Net pay has statutory steps: these are not raises lost by the arithmetic.
Cliff(e, more) ==
    CASE country = "DE" -> e.one_time > 0
      [] country = "MU" -> \/ e.gross_pay <= MU!Pack.csg_threshold /\ more > MU!Pack.csg_threshold
                           \/ e.gross_pay < MU!Pack.low_emoluments /\ more >= MU!Pack.low_emoluments
      [] country = "CM" -> \/ StepLookup(e.gross_pay, CM!TdlTable) # StepLookup(more, CM!TdlTable)
                           \/ StepLookup(e.gross_pay, CM!CrtvTable) # StepLookup(more, CM!CrtvTable)
                           \/ CM!Irpp(e, 0) = 0
      [] country = "US" -> e.state = "MD"
      [] OTHER -> FALSE

\* The same year paid in other periods.
PaidAs(e, frequency, annual, periodsOf) ==
    [e EXCEPT !.frequency = frequency, !.gross_pay = HalfUp(annual, periodsOf[frequency])]

PeriodTax(e) ==
    CASE country = "US" -> US!FederalIncomeTax(e) + US!StateIncomeTax(e) + US!LocalTax(e)
      [] country = "GB" -> UK!IncomeTax(e, e.gross_pay)
      [] country = "CA" -> PerPeriod(CA!FederalTax(e), CA!Periods[e.frequency])
                           + PerPeriod(CA!ProvincialTax(e), CA!Periods[e.frequency])

AnnualizedGap(annual, short, periodsOf) ==
    LET often == PaidAs(first, short, annual, periodsOf)
        monthly == PaidAs(first, "MONTHLY", annual, periodsOf)
    IN  IF Valid(country, often) /\ Valid(country, monthly)
        THEN Distance(periodsOf[short] * PeriodTax(often), 12 * PeriodTax(monthly))
        ELSE 0

(***************************************************************************)
(* Properties.                                                             *)
(***************************************************************************)

\* Debits and credits of the journal agree for every worker a country accepts: each
\* contribution reaches exactly one payable account, net pay takes what is left and no
\* option (benefits, exemptions, a private insurance, an elected rate) unbalances it.
\* preparePayrollRun refuses a run that fails this control.
JournalsBalance == slip # None => JournalBalances(Journal(country, slip))

\* However a year's pay is split into periods, the contributions that stop at a ceiling
\* come to what the whole year owes, to the cent of each period's rounding: the amounts
\* "after" of one run are the amounts "before" that the next one needs.
SplitDoesNotMatter ==
    periods > 0 =>
        \A scheme \in DOMAIN paid \ {"none", "cpp1"} :
            Settled(scheme) =>
                Distance(paid[scheme][2], Owed(first, scheme, paid[scheme][1])) <= Roundings

\* A raise never lowers the net pay of the period, except at the statutory steps: no
\* bracket of any table starts with more tax than the bracket below ends with.
RaisesReachTheWorker ==
    LET accepted == {pay \in Pays[country] : Valid(country, WithPay(country, worker, pay))}
        net == [pay \in accepted |-> Payslip(country, WithPay(country, worker, pay)).net_pay]
    IN  \A pay \in accepted, more \in accepted :
            pay < more /\ ~Cliff(WithPay(country, worker, pay), more) => net[pay] <= net[more]

\* Weekly, biweekly and monthly tables describe the same year: whoever is paid the same
\* per year is taxed the same, to half a unit a week (whole-dollar states round that much).
\* California's weekly table for the married is the exception (CaliforniaTablesAgree); a
\* single pay beyond a year's insurable maximum is no longer the same year in other periods.
FrequencyDoesNotMatter ==
    periods = 0 =>
        \A pay \in Pays[country] :
            CASE country = "US" ->
                   /\ first.pretax_401k = 0 /\ first.pretax_125 = 0 /\ ~(first.state = "CA" /\ first.status # "SINGLE")
                   => AnnualizedGap(12 * pay, "WEEKLY", US!Periods) <= 52 * 55
              [] country = "GB" ->
                   AnnualizedGap(12 * pay, "WEEKLY", [f \in DOMAIN UK!Thresholds |-> UK!Thresholds[f].periods])
                       <= 52 * 55
              [] country = "CA" ->
                   pay <= CA!Ei.max_insurable => AnnualizedGap(12 * pay, "BIWEEKLY", CA!Periods) <= 26 * 55
              [] OTHER -> TRUE

\* California's own tables agree with its annual method to a few cents a period, as the
\* limitation at payroll-engine-us.ts:1988 says.
CaliforniaTablesAgree ==
    country = "US" /\ periods = 0 /\ first.state = "CA" /\ first.pretax_125 = 0 =>
        \A pay \in Pays[country] : AnnualizedGap(12 * pay, "WEEKLY", US!Periods) <= 52 * 10

\* A year's first-tier CPP stops at the annual maximum: the rate on what lies between
\* the year's basic exemption and its maximum pensionable earnings.
CppStopsAtTheMaximum ==
    country = "CA" /\ periods > 0 =>
        paid.cpp1[2] <= Share(CA!Cpp.ympe - CA!Cpp.exemption,
                              Bp(CA!Cpp.base[first.pay_date] + CA!Cpp.additional)) + Roundings
=============================================================================
