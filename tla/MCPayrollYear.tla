--------------------------- MODULE MCPayrollYear ---------------------------
(***************************************************************************)
(* A TLC instance of the payroll year: for every country the pays at and   *)
(* around its thresholds and the workers its engine tells apart.           *)
(***************************************************************************)
EXTENDS PayrollSelfTests

MCCountries == {"GE", "DE", "US", "GB", "CA", "KE", "ZA", "RW", "MU", "CM"}

\* Pays at and around the thresholds of each country, in units of its currency.
MCPays ==
    [GE |-> {1000, 5000, 24000, 40000}, DE |-> {0, 2000, 5800, 9000, 40000}, US |-> {450, 1200, 4000, 10000, 90000},
     GB |-> {0, 900, 1048, 4200, 12000}, CA |-> {300, 2600, 5000, 30000, 75000},
     KE |-> {0, 24000, 60000, 110000, 900000}, ZA |-> {0, 2400, 5500, 7400, 17712, 60000},
     RW |-> {0, 60000, 100000, 200000, 900000}, MU |-> {0, 30000, 38462, 50000, 200000},
     CM |-> {0, 62000, 150000, 500000, 900000}]
UnitPays == [c \in MCCountries |-> {Units(pay) : pay \in MCPays[c]}]

\* Countries without amounts of the year need one period.
MCPeriods == [c \in MCCountries |-> IF c \in {"GE", "DE", "US", "CA", "MU"} THEN 3 ELSE 1]

(***************************************************************************)
(* United States: one worker, and what may vary of that worker.            *)
(***************************************************************************)
UsWorker ==
    [gross_pay |-> 0, pretax_401k |-> 0, pretax_125 |-> 0, frequency |-> "MONTHLY", filing |-> "SINGLE_MFS",
     step2 |-> FALSE, step3 |-> 0, extra |-> 0, state |-> "TX", status |-> "NONE", allowances |-> 0,
     more |-> 0, adopted |-> 0, elected |-> 250, locality |-> "NONE", dbl |-> FALSE, half |-> "H2",
     sui |-> <<>>, ytd |-> US!NoWages]

\* Every state, with each of its filing statuses and localities.
UsResidents ==
    UNION {{[UsWorker EXCEPT !.state = state, !.status = status, !.locality = locality] :
              status \in US!StatusOf(state), locality \in US!LocalityOf(state)} : state \in US!UsStates}

\* One state, with each federal choice.
UsFilers ==
    {[UsWorker EXCEPT !.filing = filing, !.frequency = frequency, !.step2 = step2, !.step3 = step3,
                      !.pretax_401k = pretax, !.sui = sui] :
       filing \in US!Filings, frequency \in DOMAIN US!Periods, step2 \in BOOLEAN,
       step3 \in {0, Units(2000)}, pretax \in {0, Units(200)}, sui \in {<<>>, <<27, Units(9000)>>}}

\* California counts pay after benefits for its own contributions; a pretax benefit
\* of the worker's tells the two amounts apart.
UsBenefits ==
    {[UsWorker EXCEPT !.state = "CA", !.status = "SINGLE", !.pretax_125 = Units(200)]}

MCWorkers ==
    [GE |-> GE!Employees({0}, {0}), DE |-> {e \in DE!Employees({0}, {0}) : e.sv_gross_pay = e.taxable_gross_pay},
     GB |-> UK!Employees({0}), CA |-> CA!Employees({0}, {0}), KE |-> KE!Employees({0}),
     ZA |-> ZA!Employees({0}), RW |-> RW!Employees({0}), MU |-> MU!Employees({0}, {0}, {0}, {1}),
     CM |-> CM!Employees({0}), US |-> UsResidents \cup UsFilers \cup UsBenefits]
=============================================================================
