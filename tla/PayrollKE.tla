----------------------------- MODULE PayrollKE -----------------------------
(***************************************************************************)
(* Kenya: src/lib/payroll-engine-ke.ts, calculateKePayroll.                *)
(***************************************************************************)
EXTENDS PayrollArithmetic

Pack ==
    [brackets |-> <<<<0, 0, 1000>>, <<24000, 240000, 2500>>, <<32333, 448325, 3000>>,
                    <<500000, 14478335, 3250>>, <<800000, 24228335, 3500>>>>,
     personal_relief |-> Units(2400), insurance_relief_rate |-> Pct(15),
     insurance_relief_cap |-> Units(5000), pension_deduction_cap |-> Units(30000),
     mortgage_interest_cap |-> Units(30000), medical_cap |-> Units(15000),
     nssf_rate |-> Pct(6),
     nssf |-> [Y3_JAN |-> [tier1 |-> Units(8000), overall |-> Units(72000)],
               Y4_FROM_FEB |-> [tier1 |-> Units(9000), overall |-> Units(108000)]],
     shif_rate |-> Bp(275), shif_minimum |-> Units(300), ahl_rate |-> Bp(150),
     nita |-> Units(50), status |-> "DRAFT_NEEDS_LEGAL_REVIEW"]

Benefits ==
    [housing_percent |-> Pct(15), car_cost_percent |-> Pct(2),
     car_by_band |-> [UP_TO_1200 |-> Units(3600), CC_1201_TO_1500 |-> Units(4200),
                      CC_1501_TO_1750 |-> Units(5800), CC_1751_TO_2000 |-> Units(7200),
                      CC_2001_TO_3000 |-> Units(8600), OVER_3000 |-> Units(14400)]]

Housings == {"NONE", "ARMS_LENGTH_LEASE", "EMPLOYER_OWNED_OR_NON_ARMS_LENGTH"}
Cars == {"NONE", "LEASED"} \cup DOMAIN Benefits.car_by_band

\* pay_date stands before or after the NSSF change of 2026-02-01.
Employees(pays) ==
    [gross_pay : pays, resident : BOOLEAN, pay_date : {"JAN", "FEB"},
     deductions : {0, Units(20000)}, insurance_premium : {0, Units(10000)},
     housing : Housings, rent : {Units(40000)}, recovered : {Units(10000)},
     car : {"NONE", "LEASED", "OVER_3000"}, car_cost : {Units(30000)}]

\* An employee as the engine is given one; Valid says which it accepts.
Employee ==
    [gross_pay : Int, resident : BOOLEAN, pay_date : {"JAN", "FEB"}, deductions : Int,
     insurance_premium : Int, housing : STRING, rent : Int, recovered : Int, car : STRING, car_cost : Int]

Valid(e) ==
    /\ NonNegative(e, {"gross_pay", "deductions", "insurance_premium", "rent", "recovered", "car_cost"})
    /\ e.housing \in Housings
    /\ e.car \in Cars

\* The rent paid or 15% of pay, or the market rent, less what the employee pays back.
HousingBenefit(e) ==
    LET value == IF e.housing = "ARMS_LENGTH_LEASE"
                 THEN AtLeast(Share(e.gross_pay, Benefits.housing_percent), e.rent)
                 ELSE e.rent
    IN  IF e.housing = "NONE" THEN 0 ELSE AtLeast(0, value - e.recovered)

CarBenefit(e) ==
    CASE e.car = "NONE" -> 0
      [] e.car = "LEASED" -> e.car_cost
      [] OTHER -> AtLeast(Share(e.car_cost, Benefits.car_cost_percent), Benefits.car_by_band[e.car])

Nssf(e) ==
    LET schedule == Pack.nssf[IF e.pay_date = "FEB" THEN "Y4_FROM_FEB" ELSE "Y3_JAN"]
    IN  Share(AtMost(e.gross_pay, schedule.tier1), Pack.nssf_rate)
        + Share(AtLeast(0, AtMost(e.gross_pay, schedule.overall) - schedule.tier1), Pack.nssf_rate)

Shif(e) == AtLeast(Pack.shif_minimum, Share(e.gross_pay, Pack.shif_rate))

Paye(e) ==
    LET taxable == AtLeast(0, e.gross_pay + HousingBenefit(e) + CarBenefit(e)
                       - Share(e.gross_pay, Pack.ahl_rate) - Shif(e)
                       - AtMost(Nssf(e) + e.deductions, Pack.pension_deduction_cap)
                       - AtMost(e.deductions, Pack.mortgage_interest_cap)
                       - AtMost(e.deductions, Pack.medical_cap))
        relief == AtMost(Share(e.insurance_premium, Pack.insurance_relief_rate), Pack.insurance_relief_cap)
        tax == BracketLookup(taxable, Pack.brackets)
    IN  IF e.resident THEN AtLeast(0, tax - Pack.personal_relief - relief) ELSE tax

Payslip(e) ==
    LET nssf == Nssf(e)
        ahl == Share(e.gross_pay, Pack.ahl_rate)
    IN  [gross_pay |-> e.gross_pay, paye |-> Paye(e),
         employee_nssf |-> nssf, employer_nssf |-> nssf, employee_shif |-> Shif(e),
         employee_ahl |-> ahl, employer_ahl |-> ahl, employer_nita |-> Pack.nita,
         net_pay |-> e.gross_pay - Paye(e) - nssf - Shif(e) - ahl,
         employer_funded_total |-> e.gross_pay + nssf + ahl + Pack.nita]

Journal(t) ==
    [debits |-> <<<<"SALARY_EXPENSE", t.gross_pay>>,
                 <<"EMPLOYER_NSSF_AHL_NITA_EXPENSE", t.employer_nssf + t.employer_ahl + t.employer_nita>>>>,
     credits |-> <<<<"NET_PAYROLL_PAYABLE", t.net_pay>>, <<"PAYE_PAYABLE", t.paye>>,
                  <<"NSSF_PAYABLE", t.employee_nssf + t.employer_nssf>>,
                  <<"SHIF_PAYABLE", t.employee_shif>>,
                  <<"AHL_PAYABLE", t.employee_ahl + t.employer_ahl>>,
                  <<"NITA_PAYABLE", t.employer_nita>>>>]
=============================================================================
