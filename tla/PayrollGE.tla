----------------------------- MODULE PayrollGE -----------------------------
(***************************************************************************)
(* Georgia: src/lib/payroll-engine.ts, calculateGeorgiaPayroll.            *)
(***************************************************************************)
EXTENDS PayrollArithmetic

Pack == [income_tax |-> Pct(20), pension |-> Pct(2), status |-> "VERIFIED_BASIC_RULES",
         state_pension_limits |-> <<Units(24000), Units(60000)>>]

Employees(pays, ytds) ==
    [gross_pay : pays, taxable_benefits : {0, Units(500)}, pension_participant : BOOLEAN,
     exempt_cash_reimbursements : {0, Units(200)}, ytd : ytds]

\* An employee as the engine is given one; Valid says which it accepts.
Employee ==
    [gross_pay : Int, taxable_benefits : Int, pension_participant : BOOLEAN,
     exempt_cash_reimbursements : Int, ytd : Int]

Valid(e) == NonNegative(e, {"gross_pay", "taxable_benefits", "exempt_cash_reimbursements", "ytd"})

\* 2% up to the first limit of the year's taxable salary, 1% up to the second.
StatePension(ytd, taxable) ==
    LET limits == Pack.state_pension_limits
        first == AtMost(taxable, AtLeast(0, limits[1] - ytd))
        second == AtMost(taxable - first, AtLeast(0, limits[2] - (ytd + first)))
    IN  Share(2 * first + second, Pct(1))

Payslip(e) ==
    LET taxable == e.gross_pay + e.taxable_benefits
        cash == e.gross_pay + e.exempt_cash_reimbursements
        tax == Share(taxable, Pack.income_tax)
        pension == IF e.pension_participant THEN Share(taxable, Pack.pension) ELSE 0
    IN  [cash_pay |-> cash, taxable_salary |-> taxable, income_tax |-> tax,
         employee_pension |-> pension, employer_pension |-> pension,
         state_pension |-> IF e.pension_participant THEN StatePension(e.ytd, taxable) ELSE 0,
         net_pay |-> cash - tax - pension,
         employer_funded_total |-> cash + pension,
         ytd_after |-> e.ytd + taxable]

Journal(t) ==
    [debits |-> <<<<"SALARY_EXPENSE", t.cash_pay>>,
                 <<"EMPLOYER_PENSION_EXPENSE", t.employer_pension>>>>,
     credits |-> <<<<"NET_PAYROLL_PAYABLE", t.net_pay>>, <<"INCOME_TAX_PAYABLE", t.income_tax>>,
                  <<"PENSION_PAYABLE", t.employee_pension + t.employer_pension>>>>]
=============================================================================
