----------------------------- MODULE PayrollUK -----------------------------
(***************************************************************************)
(* United Kingdom: src/lib/payroll-engine-uk.ts, calculateUkPayroll.       *)
(***************************************************************************)
EXTENDS PayrollArithmetic

RestOfUk == <<<<0, 0, 2000>>, <<37700, 754000, 4000>>, <<125140, 4251600, 4500>>>>

\* By tax code: 1257L England and Northern Ireland, S1257L Scotland, C1257L Wales.
Brackets ==
    [England |-> RestOfUk, Wales |-> RestOfUk,
     Scotland |-> <<<<0, 0, 1900>>, <<3967, 75373, 2000>>, <<16956, 335153, 2100>>,
                    <<31092, 632009, 4200>>, <<62430, 1948205, 4500>>, <<112570, 4204505, 4800>>>>]

Pack ==
    [personal_allowance |-> Units(12570), employee_to_uel |-> 8, employee_above_uel |-> 2,
     employer_ni |-> Pct(15), pension_employee |-> Pct(5), pension_employer |-> Pct(3),
     undergraduate |-> 9, postgraduate |-> 6, ssp_weekly |-> 12325,
     status |-> "DRAFT_NEEDS_LEGAL_REVIEW"]

Thresholds ==
    [WEEKLY |->
       [periods |-> 52, primary |-> Units(242), uel |-> Units(967), secondary |-> Units(96),
        PLAN_1 |-> 51730, PLAN_2 |-> 56509, PLAN_4 |-> 64990, PLAN_5 |-> 48076,
        postgraduate |-> 40384, lower |-> Units(120), upper |-> Units(967)],
     MONTHLY |->
       [periods |-> 12, primary |-> Units(1048), uel |-> Units(4189), secondary |-> Units(417),
        PLAN_1 |-> 224166, PLAN_2 |-> 244875, PLAN_4 |-> 281625, PLAN_5 |-> 208333,
        postgraduate |-> Units(1750), lower |-> Units(520), upper |-> Units(4189)]]

Plans == {"NONE", "PLAN_1", "PLAN_2", "PLAN_4", "PLAN_5"}

\* Sick days are absent (-1) together with the working pattern, or given together.
Employees(pays) ==
    [gross_pay : pays, frequency : DOMAIN Thresholds, nation : DOMAIN Brackets,
     ni_category : {"A", "B"}, plan : {"NONE", "PLAN_2", "PLAN_4"}, postgraduate_loan : BOOLEAN,
     pension_enrolled : BOOLEAN, ssp_days : {-1, 3}, days_per_week : {-1, 5}]

\* An employee as the engine is given one; Valid says which it accepts.
Employee ==
    [gross_pay : Int, frequency : DOMAIN Thresholds, nation : DOMAIN Brackets, ni_category : STRING,
     plan : STRING, postgraduate_loan : BOOLEAN, pension_enrolled : BOOLEAN, ssp_days : Int,
     days_per_week : Int]

Valid(e) ==
    /\ NonNegative(e, {"gross_pay"})
    /\ e.ni_category = "A"
    /\ e.plan \in Plans
    /\ (e.ssp_days = -1) = (e.days_per_week = -1)
    /\ e.ssp_days # -1 => e.ssp_days \in 0..7 /\ e.days_per_week \in 1..7

Ssp(e) == IF e.ssp_days = -1 THEN 0 ELSE e.ssp_days * HalfUp(Pack.ssp_weekly, e.days_per_week)

\* The period's pay is annualized, taxed and divided again.
IncomeTax(e, gross) ==
    LET periods == Thresholds[e.frequency].periods
        taxable == AtLeast(0, periods * gross - Pack.personal_allowance)
    IN  PerPeriod(BracketLookup(taxable, Brackets[e.nation]), periods)

\* Loan deductions are cut to whole pounds.
LoanDeduction(gross, threshold, percent) ==
    Units((AtLeast(0, gross - threshold) * percent) \div 10000)

Payslip(e) ==
    LET t == Thresholds[e.frequency]
        gross == e.gross_pay + Ssp(e)
        tax == IncomeTax(e, gross)
        toUel == AtLeast(0, AtMost(gross, t.uel) - t.primary)
        aboveUel == AtLeast(0, gross - t.uel)
        ni == Share(Pack.employee_to_uel * toUel + Pack.employee_above_uel * aboveUel, Pct(1))
        employerNi == Share(AtLeast(0, gross - t.secondary), Pack.employer_ni)
        loan == IF e.plan = "NONE" THEN 0 ELSE LoanDeduction(gross, t[e.plan], Pack.undergraduate)
        postgraduate == IF e.postgraduate_loan
                        THEN LoanDeduction(gross, t.postgraduate, Pack.postgraduate) ELSE 0
        qualifying == IF e.pension_enrolled THEN AtLeast(0, AtMost(gross, t.upper) - t.lower) ELSE 0
        pension == Share(qualifying, Pack.pension_employee)
        employerPension == Share(qualifying, Pack.pension_employer)
    IN  [gross_pay |-> gross, ssp |-> Ssp(e), paye_income_tax |-> tax,
         employee_ni |-> ni, employer_ni |-> employerNi,
         student_loan |-> loan, postgraduate_loan |-> postgraduate,
         employee_pension |-> pension, employer_pension |-> employerPension,
         net_pay |-> gross - tax - ni - loan - postgraduate - pension,
         employer_funded_total |-> gross + employerNi + employerPension]

Journal(t) ==
    [debits |-> <<<<"SALARY_EXPENSE", t.gross_pay>>,
                 <<"EMPLOYER_PENSION_EXPENSE", t.employer_ni + t.employer_pension>>>>,
     credits |-> <<<<"NET_PAYROLL_PAYABLE", t.net_pay>>, <<"PAYE_INCOME_TAX_PAYABLE", t.paye_income_tax>>,
                  <<"NATIONAL_INSURANCE_PAYABLE", t.employee_ni + t.employer_ni>>,
                  <<"STUDENT_LOAN_PAYABLE", t.student_loan + t.postgraduate_loan>>,
                  <<"PENSION_PAYABLE", t.employee_pension + t.employer_pension>>>>]
=============================================================================
