-------------------------- MODULE PayrollSelfTests --------------------------
(***************************************************************************)
(* The engines' own self-tests (payrollEngineSelfTestAll): the fixtures of *)
(* each country with the amounts they expect, in cents.  They hold of the  *)
(* definitions here, so those compute what the engines compute.            *)
(***************************************************************************)
EXTENDS PayrollYear, TLC

\* One fixture: these fields of the payslip have these amounts, and the journal balances.
Expect(c, e, amounts) ==
    LET t == Payslip(c, e)
    IN  /\ Valid(c, e)
        /\ JournalBalances(Journal(c, t))
        /\ \A field \in DOMAIN amounts : t[field] = amounts[field]

SelfTestGE ==
    LET Worker(pay, pension, ytd) ==
            [gross_pay |-> Units(pay), pension_participant |-> pension, ytd |-> Units(ytd),
             taxable_benefits |-> 0, exempt_cash_reimbursements |-> 0]
    IN  {<<Worker(5000, TRUE, 23000),
                  [income_tax |-> 100000, employee_pension |-> 10000, employer_pension |-> 10000,
                   state_pension |-> 6000, net_pay |-> 390000]>>,
         <<Worker(3000, FALSE, 21000), [income_tax |-> 60000, net_pay |-> 240000]>>,
         <<Worker(3000, TRUE, 59000), [state_pension |-> 1000, net_pay |-> 234000]>>,
         <<[Worker(3000, TRUE, 0) EXCEPT !.taxable_benefits = Units(600)],
                  [taxable_salary |-> 360000, income_tax |-> 72000, state_pension |-> 7200, net_pay |-> 220800]>>,
         <<[Worker(3000, TRUE, 0) EXCEPT !.exempt_cash_reimbursements = Units(500)],
                  [taxable_salary |-> 300000, income_tax |-> 60000, net_pay |-> 284000]>>}

German(taxable, sv, ytd) ==
    [taxable_gross_pay |-> taxable, sv_gross_pay |-> sv, one_time |-> 0, ytd |-> Units(ytd),
     tax_class |-> "I", church_tax_rate |-> 0, childless |-> FALSE, insurance_type |-> "STATUTORY",
     health_premium |-> 0, care_premium |-> 0, pay_year |-> 2026]

SelfTestDE ==
    LET Monthly(pay, ytd) == German(Units(pay), Units(pay), ytd)
        Bonus(pay, bonus, ytd) == [Monthly(pay, ytd) EXCEPT !.one_time = Units(bonus)]
    IN  {<<Monthly(4000, 28000), [pension |-> 37200, employee_social_insurance |-> 84600]>>,
         <<German(613811, 694611, 0), [pension |-> Share(694611, <<93, 1000>>)]>>,
         <<Monthly(9000, 97400), [pension |-> 37200]>>,
         <<[Monthly(9000, 65000) EXCEPT !.childless = TRUE], [gross_pay |-> Units(9000)]>>,
         <<Monthly(3000, 0), [solidarity_surcharge |-> 0]>>,
         <<Bonus(2500, 3000, 0), [solidarity_surcharge |-> 0]>>}

\* What the German self-test compares without an amount: a high earner's surcharge, the tax
\* that a bonus adds, church tax, a private insurance and a year without rules.
GermanTaxesAgree ==
    LET usual == [German(Units(4000), Units(4000), 20000) EXCEPT !.church_tax_rate = 9]
        bonus == [usual EXCEPT !.one_time = Units(10000)]
        high == German(Units(15000), Units(9000), 200000)
        private == [German(613811, 498750, 0) EXCEPT !.insurance_type = "PRIVATE",
                        !.health_premium = Units(900), !.care_premium = Units(200)]
        slip_of == [e \in {usual, bonus, high} |-> DE!Payslip(e)]
    IN  /\ slip_of[high].solidarity_surcharge = Share(slip_of[high].income_tax, <<55, 1000>>)
        /\ slip_of[bonus].income_tax - slip_of[usual].income_tax > Units(1400)
        /\ slip_of[usual].church_tax = Share(slip_of[usual].income_tax, Pct(9))
        /\ slip_of[usual].church_tax > 0
        /\ DE!HealthAndCare(private).employer = 36409 + 8978
        /\ ~DE!Valid([usual EXCEPT !.pay_year = 2027])

SelfTestUK ==
    LET Worker(pay, frequency, nation) ==
            [gross_pay |-> Units(pay), frequency |-> frequency, nation |-> nation, ni_category |-> "A",
             plan |-> "NONE", postgraduate_loan |-> FALSE, pension_enrolled |-> FALSE,
             ssp_days |-> -1, days_per_week |-> -1]
    IN  {<<Worker(4000, "MONTHLY", "England"),
                  [paye_income_tax |-> 59050, employee_ni |-> 23616, employer_ni |-> 53745, ssp |-> 0]>>,
         <<[Worker(8000, "MONTHLY", "Scotland") EXCEPT !.plan = "PLAN_2",
                             !.postgraduate_loan = TRUE, !.pension_enrolled = TRUE],
                  [paye_income_tax |-> 241100, employee_ni |-> 32750, employer_ni |-> 113745,
                   student_loan |-> 49900, postgraduate_loan |-> 37500,
                   employee_pension |-> 18345, employer_pension |-> 11007]>>,
         <<[Worker(0, "WEEKLY", "England") EXCEPT !.ssp_days = 5, !.days_per_week = 5],
                  [ssp |-> 12325, gross_pay |-> 12325, paye_income_tax |-> 0, employee_ni |-> 0,
                   employer_ni |-> 409, net_pay |-> 12325]>>}

Canadian(pay, province) ==
    [gross_pay |-> Units(pay), province |-> province, frequency |-> "MONTHLY", ytd |-> 0,
     pay_date |-> "BEFORE_2027", wcb_rate |-> -1, wcb_ceiling |-> 0, ytd_wcb |-> 0]

SelfTestCA ==
    {<<Canadian(5000, "AB"),
                  [federal_income_tax |-> 44486, employee_cpp1 |-> 28015, employee_ei |-> 8150,
                   employer_cpp1 |-> 28015, employer_ei |-> 11410]>>,
     <<Canadian(4000, "BC"),
                  [federal_income_tax |-> 31053, provincial_income_tax |-> 16043,
                   employee_cpp1 |-> 22065, employee_ei |-> 6520]>>,
     <<[Canadian(5000, "ON") EXCEPT !.ytd = Units(60000), !.wcb_rate = 3,
                             !.wcb_ceiling = Units(110000), !.ytd_wcb = Units(108000)],
                  [employer_wcb |-> 6000, ytd_wcb_after |-> Units(110000)]>>,
     <<Canadian(5000, "ON"), [employer_wcb |-> 0]>>,
     <<[Canadian(5000, "AB") EXCEPT !.pay_date = "FROM_2027"],
                  [employee_cpp1 |-> 27073, employer_cpp1 |-> 27073]>>}

Kenyan(pay, date) ==
    [gross_pay |-> Units(pay), resident |-> TRUE, pay_date |-> date, deductions |-> 0,
     insurance_premium |-> 0, housing |-> "NONE", rent |-> 0, recovered |-> 0,
     car |-> "NONE", car_cost |-> 0]
Housed(housing, rent, recovered) ==
    [Kenyan(45000, "FEB") EXCEPT !.housing = housing, !.rent = Units(rent), !.recovered = Units(recovered)]

SelfTestKE ==
    {<<Kenyan(120000, "JAN"), [employee_nssf |-> Units(4320), employer_nssf |-> Units(4320)]>>,
     <<Kenyan(120000, "FEB"), [employee_nssf |-> Units(6480), employer_nssf |-> Units(6480)]>>,
     <<Kenyan(50000, "FEB"), [employee_nssf |-> Units(3000)]>>,
     <<Kenyan(5000, "FEB"), [employee_shif |-> Units(300)]>>,
     <<Kenyan(100000, "FEB"), [employee_ahl |-> Units(1500), employer_ahl |-> Units(1500)]>>,
     <<Kenyan(30000, "FEB"), [employer_nita |-> Units(50)]>>,
     <<Housed("ARMS_LENGTH_LEASE", 20000, 0), [paye |-> 1049960]>>}

\* The benefits of Kenya's self-test: what a house and a car are worth.
KenyanBenefitsAgree ==
    LET Driving(car, cost) == [Kenyan(45000, "FEB") EXCEPT !.car = car, !.car_cost = Units(cost)]
    IN  /\ \A house \in {Housed("ARMS_LENGTH_LEASE", 20000, 0),
                         Housed("EMPLOYER_OWNED_OR_NON_ARMS_LENGTH", 25000, 5000)} :
              KE!HousingBenefit(house) = Units(20000)
        /\ KE!CarBenefit(Driving("CC_1501_TO_1750", 600000)) = Units(12000)
        /\ KE!CarBenefit(Driving("LEASED", 9000)) = Units(9000)

SelfTestZA ==
    LET Worker(pay, age) ==
            [gross_pay |-> Units(pay), age |-> age, main_member |-> FALSE, dependants |-> 0,
             sdl_liable |-> FALSE, eti_eligible |-> FALSE, eti_months |-> 1, eti_hours |-> 160]
        Hired(pay, age, months, hours) ==
            [Worker(pay, age) EXCEPT !.eti_eligible = TRUE, !.eti_months = months, !.eti_hours = hours]
    IN  {<<Worker(20425, 40), [paye |-> 219150]>>,
         <<[Worker(20425, 40) EXCEPT !.main_member = TRUE, !.dependants = 2, !.sdl_liable = TRUE],
                  [paye |-> 118550, employer_sdl |-> 20425]>>,
         <<Worker(30000, 40), [employee_uif |-> 17712, employer_uif |-> 17712]>>,
         <<Hired(4000, 25, 1, 160), [eti |-> 150000]>>,
         <<Hired(6000, 28, 13, 160), [eti |-> 56250]>>,
         <<Hired(1000, 19, 1, 80), [eti |-> 60000]>>,
         <<Hired(8000, 25, 1, 160), [eti |-> 0]>>}

SelfTestRW ==
    LET Worker(pay) ==
            [gross_pay |-> Units(pay), employee_type |-> "REGULAR", first_employer |-> TRUE,
             oh_base |-> Units(pay), rama_member |-> FALSE, rama_salary |-> -1,
             vehicle |-> FALSE, accommodation |-> FALSE]
    IN  {<<Worker(300000), [paye |-> Units(54000)]>>,
         <<[Worker(300000) EXCEPT !.first_employer = FALSE], [paye |-> Units(90000)]>>,
         <<Worker(500000),
                  [employee_pension |-> Units(30000), employer_pension |-> Units(30000),
                   employee_maternity |-> Units(1500), employer_maternity |-> Units(1500)]>>,
         <<[Worker(500000) EXCEPT !.rama_member = TRUE, !.rama_salary = Units(400000)],
                  [employee_rama |-> Units(30000), employer_rama |-> Units(30000)]>>,
         <<[Worker(300000) EXCEPT !.vehicle = TRUE], [paye |-> Units(63000)]>>,
         <<[Worker(300000) EXCEPT !.vehicle = TRUE, !.accommodation = TRUE], [paye |-> Units(81000)]>>}

SelfTestMU ==
    LET Worker(pay) ==
            [gross_pay |-> Units(pay), resident |-> TRUE, sequence |-> 1, ytd |-> 0, withheld |-> 0,
             reliefs |-> 0, category |-> "OTHER", prgf_exempt |-> FALSE, director |-> "NONE"]
        Second(pay) == [Worker(pay) EXCEPT !.sequence = 2, !.ytd = Units(700000), !.withheld = Units(20000)]
        Visiting(pay) == [Worker(pay) EXCEPT !.resident = FALSE]
        Director(rule) == [Worker(100000) EXCEPT !.director = rule, !.prgf_exempt = TRUE]
    IN  {<<Worker(500000), [paye |-> 0]>>,
         <<Worker(500001), [paye |-> 10]>>,
         <<Worker(12000001), [paye |-> 225000035]>>,
         <<Worker(700000), [paye |-> Units(20000)]>>,
         <<Second(700000), [paye |-> Units(110000)]>>,
         <<Visiting(50000), [employee_csg |-> 75000, employer_csg |-> 150000]>>,
         <<Visiting(50001), [employee_csg |-> 150003, employer_csg |-> 300006]>>,
         <<Visiting(40000), [employer_prgf |-> 180000]>>,
         <<[Visiting(40000) EXCEPT !.prgf_exempt = TRUE], [employer_prgf |-> 0]>>,
         <<Director("DEFAULT"), [paye |-> Units(15000)]>>,
         <<Director("ELECTED"), [paye |-> Units(20000)]>>,
         <<Second(30000), [paye |-> 0, withheld_after |-> Units(20000)]>>}

SelfTestCM ==
    LET Worker(pay) ==
            [gross_pay |-> Units(pay), sector |-> "GENERAL_OR_DOMESTIC", risk |-> "A",
             cfc_fne_exempt |-> FALSE, crtv_exempt |-> FALSE, benefits |-> {}]
    IN  {<<Worker(1000000),
                  [employee_cnps_pension |-> Units(31500), employer_cnps_pension |-> Units(31500),
                   irpp |-> 14439167, cac |-> 1443917, employee_cfc |-> Units(10000),
                   employer_cfc |-> Units(15000), employer_fne |-> Units(10000), tdl |-> Units(2500),
                   crtv |-> Units(12350), employer_cnps_family_allowance |-> Units(52500),
                   employer_cnps_occupational_risk |-> Units(17500)]>>,
         <<Worker(61999), [irpp |-> 0]>>,
         <<Worker(99999), [employee_cfc |-> Units(990)]>>,
         <<Worker(100001), [employee_cfc |-> Units(1000)]>>,
         <<[Worker(1000000) EXCEPT !.cfc_fne_exempt = TRUE],
                  [employer_cfc |-> 0, employer_fne |-> 0, employee_cfc |-> Units(10000)]>>,
         <<[Worker(60000) EXCEPT !.benefits = {"housing"}],
                  [irpp |-> 41133, cac |-> 4113, employee_cnps_pension |-> Units(2520)]>>}

(***************************************************************************)
(* United States.  Other income and deductions of Form W-4 (case 8), the   *)
(* run of two employees (case 7) and the biweekly and semimonthly workers  *)
(* have no counterpart here.                                               *)
(***************************************************************************)
Resident(pay, frequency, state, status) ==
    [gross_pay |-> Units(pay), pretax_401k |-> 0, pretax_125 |-> 0, frequency |-> frequency,
     filing |-> "SINGLE_MFS", step2 |-> FALSE, step3 |-> 0, extra |-> 0, state |-> state,
     status |-> status, allowances |-> 0, more |-> 0, adopted |-> 0, elected |-> 250,
     locality |-> "NONE", dbl |-> FALSE, half |-> "H2", sui |-> <<>>, ytd |-> US!NoWages]
Claiming(e, allowances) == [e EXCEPT !.allowances = allowances]
Living(e, locality) == [e EXCEPT !.locality = locality]
Filing(e, filing) == [e EXCEPT !.filing = filing]
Earned(e, base, amount) == [e EXCEPT !.ytd[base] = Units(amount)]

StateTax(e, amount) == <<e, [state_income_tax |-> amount]>>

\* Cases 2 to 5: federal taxes and California.
SelfTestFederal ==
    LET joint == Filing(Claiming(Resident(20000, "MONTHLY", "CA", "MARRIED_2_OR_MORE"), 2), "MFJ")
        high == Resident(20000, "MONTHLY", "CA", "SINGLE")
        pretax == [Resident(5000, "MONTHLY", "CA", "SINGLE") EXCEPT
                       !.pretax_401k = Units(300), !.pretax_125 = Units(200)]
    IN  {<<[Earned(Earned(joint, "ss", 180000), "medicare", 180000) EXCEPT !.step2 = TRUE],
             [fica_employee |-> 27900 + 29000, fica_employer |-> 27900 + 29000]>>,
         <<Earned(Earned(high, "ss", 200000), "medicare", 195000),
                  [fica_employee |-> 29000 + 13500, fica_employer |-> 29000]>>,
         <<pretax, [fica_employee |-> 29760 + 6960]>>,
         <<Filing(Claiming(Resident(1500, "WEEKLY", "CA", "MARRIED_2_OR_MORE"), 2), "MFJ"),
                  [federal_income_tax |-> 9615, state_income_tax |-> 2298]>>}

\* Cases 9 to 16: New Jersey and New York with their ceilings, and states of one run.
SelfTestFirstStates ==
    LET newYork(pay) == Resident(pay, "WEEKLY", "NY", "SINGLE")
        jersey == Resident(10000, "MONTHLY", "NJ", "A")
    IN  {<<Claiming(Resident(1000, "WEEKLY", "NJ", "A"), 1),
                  [state_income_tax |-> 2820, state_contributions |-> 425 + 190 + 230]>>,
         <<Earned(Earned(jersey, "nj_ui_wf", 40000), "nj_tdi_fli", 165000),
                  [state_contributions |-> 2040 + 1159 + 1403]>>,
         <<Living(Claiming(newYork(400), 3), "NYC"), [state_income_tax |-> 801, local_tax |-> 611]>>,
         <<Living(Claiming(newYork(400), 3), "YONKERS"), [local_tax |-> 134]>>,
         <<Living(newYork(200), "YONKERS_WORK"), [local_tax |-> 81]>>,
         <<[newYork(1000) EXCEPT !.dbl = TRUE], [state_contributions |-> 432 + 60]>>,
         <<Earned(newYork(1000), "ny_pfl_tax", 410), [state_contributions |-> 191]>>,
         StateTax(Claiming(Resident(1000, "WEEKLY", "IL", "NONE"), 1), 4672),
         <<Resident(1000, "WEEKLY", "PA", "NONE"),
                  [state_income_tax |-> 3070, state_contributions |-> 70]>>,
         StateTax(Resident(1500, "WEEKLY", "AZ", "NONE"), 3750),
         <<Resident(1200, "WEEKLY", "AK", "NONE"), [state_contributions |-> 600]>>}

\* Case 17 and the cases of versions 8 to 10: golden payslips of 10,000 a month, cities and counties.
SelfTestGolden ==
    LET Monthly(state, status) == Resident(10000, "MONTHLY", state, status)
        capped == Earned(Earned(Earned(Monthly("TX", "NONE"), "ss", 180000), "medicare", 195000), "futa", 7000)
        dependents == [Claiming(Resident(800, "WEEKLY", "IN", "NONE"), 5) EXCEPT
                           !.more = 4, !.adopted = 2, !.locality = "Harrison"]
    IN  {<<Monthly("CA", "SINGLE"),
                  [fica_employee |-> 62000 + 14500, state_contributions |-> 13000, state_income_tax |-> 64784]>>,
         <<Living(Monthly("NY", "SINGLE"), "NYC"),
                  [state_income_tax |-> 52322, local_tax |-> 38112, state_contributions |-> 4320]>>,
         <<Monthly("PA", "NONE"), [state_income_tax |-> 30700, state_contributions |-> 700]>>,
         <<Monthly("WA", "NONE"), [state_contributions |-> 8072 + 5800]>>,
         <<Monthly("CO", "OTHER_STATUS"), [state_income_tax |-> 41983, state_contributions |-> 4400]>>,
         <<Claiming(Resident(1200, "WEEKLY", "NJ", "A"), 1),
                  [state_income_tax |-> 4040, federal_income_tax |-> 10208]>>,
         <<capped, [fica_employee |-> 27900 + 14500 + 4500]>>,
         <<Living(Monthly("PA", "NONE"), "PHL_RESIDENT"), [local_tax |-> 37350, net_pay |-> 708333]>>,
         <<[Living(Monthly("PA", "NONE"), "PHL_RESIDENT") EXCEPT !.half = "H1"], [local_tax |-> 37400]>>,
         <<Living(Monthly("CO", "OTHER_STATUS"), "DENVER"),
                  [local_tax |-> 575, denver_opt_employer |-> 400, net_pay |-> 730125]>>,
         <<Monthly("OR", "SINGLE"),
                  [state_income_tax |-> 76335, state_contributions |-> 1000 + 6000, net_pay |-> 693748]>>,
         <<Earned(Monthly("OR", "SINGLE"), "or_paid_leave", 180000), [state_contributions |-> 1000 + 2700]>>,
         <<dependents, [state_income_tax |-> 1396, local_tax |-> 473]>>,
         StateTax(Claiming(Resident(450, "WEEKLY", "NC", "SINGLE_MARRIED_OR_SURVIVING_SPOUSE"), 2), 400)}

\* The states of versions 11 to 18, and the unemployment insurance of version 19.
SelfTestLaterStates ==
    LET Monthly(state, status) == Resident(10000, "MONTHLY", state, status)
        texan == [Resident(2000, "MONTHLY", "TX", "NONE") EXCEPT !.sui = <<30, Units(9000)>>]
    IN  {StateTax(Monthly("GA", "SINGLE_OR_HOH"), 43663),
         StateTax(Monthly("KY", "NONE"), 34020),
         StateTax(Monthly("MT", "SINGLE_OR_MFS_OR_BOTH_WORKING"), 45163),
         StateTax(Monthly("MO", "SINGLE_OR_MFS_OR_MARRIED_SPOUSE_WORKS"), 39190),
         StateTax(Monthly("SC", "NONE"), 50783),
         StateTax(Monthly("AR", "NONE"), 35573),
         StateTax(Monthly("HI", "SINGLE_OR_HOH"), 64003),
         StateTax(Monthly("OH", "NONE"), 27566),
         StateTax(Monthly("LA", "SINGLE_OR_MFS"), 27585),
         StateTax(Monthly("AL", "SINGLE"), 48000),
         StateTax(Monthly("CT", "A_OR_D"), 52500),
         StateTax(Claiming(Monthly("DC", "S"), 1), 68621),
         StateTax(Resident(600, "WEEKLY", "OH", "NONE"), 1098),
         <<Living(Monthly("MD", "SINGLE"), "Anne_Arundel"),
                  [state_income_tax |-> 46500, local_tax |-> 27567]>>,
         <<Earned(texan, "sui", 8200), [sui |-> 2400]>>,
         <<[texan EXCEPT !.sui = <<>>], [sui |-> 0]>>}

\* What the self-tests of Canada and of the United States compare otherwise.
CanadianTaxesAgree ==
    /\ Distance(CA!Payslip(Canadian(5000, "AB")).provincial_income_tax, 21927) <= 1
    /\ ~CA!Valid(Canadian(5000, "QC"))
AmericanWagesAgree ==
    LET pretax == [Resident(5000, "MONTHLY", "CA", "SINGLE") EXCEPT
                       !.pretax_401k = Units(300), !.pretax_125 = Units(200)]
        texan == [Resident(2000, "MONTHLY", "TX", "NONE") EXCEPT !.sui = <<30, Units(9000)>>]
    IN  /\ US!FicaWages(pretax) = Units(4800) /\ US!FederalWages(pretax) = Units(4500)
        /\ US!YtdAfter(Earned(texan, "sui", 8200), 0).sui = Units(9000)

\* payrollEngineSelfTestAll, one country at a time: workers, and the amounts they expect.
SelfTest(c) ==
    CASE c = "GE" -> SelfTestGE [] c = "DE" -> SelfTestDE [] c = "GB" -> SelfTestUK
      [] c = "CA" -> SelfTestCA [] c = "KE" -> SelfTestKE [] c = "ZA" -> SelfTestZA
      [] c = "RW" -> SelfTestRW [] c = "MU" -> SelfTestMU [] c = "CM" -> SelfTestCM
      [] c = "US" -> SelfTestFederal \cup SelfTestFirstStates \cup SelfTestGolden \cup SelfTestLaterStates

\* Every engine computes the payslips its self-test expects, to the cent: the published
\* examples of each country, whatever else is changed in the arithmetic the engines share.
EnginesPassTheirSelfTests ==
    periods = 0 /\ answer = "NONE" =>
        /\ \A fixture \in SelfTest(country) : Expect(country, fixture[1], fixture[2])
        /\ CASE country = "DE" -> GermanTaxesAgree [] country = "CA" -> CanadianTaxesAgree
             [] country = "KE" -> KenyanBenefitsAgree [] country = "US" -> AmericanWagesAgree
             [] OTHER -> TRUE
=============================================================================
