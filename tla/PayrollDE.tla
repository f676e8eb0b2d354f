----------------------------- MODULE PayrollDE -----------------------------
(***************************************************************************)
(* Germany: src/lib/payroll-engine-de.ts, calculateGermanyPayroll.         *)
(* The income-tax polynomials are evaluated to the cent at each            *)
(* multiplication, where the code rounds the month's twelfth once.         *)
(***************************************************************************)
EXTENDS PayrollArithmetic

IncomeTaxPack ==
    [grundfreibetrag |-> Units(12348), zone2_upper |-> Units(17799), zone3_upper |-> Units(69878),
     zone4_upper |-> Units(277825),
     zone2 |-> [a |-> 91451, b |-> Units(1400), c |-> 0],
     zone3 |-> [a |-> 17310, b |-> Units(2397), c |-> 103487],
     zone4 |-> [rate |-> Pct(42), subtract |-> 1113563],
     zone5 |-> [rate |-> Pct(45), subtract |-> 1947038],
     soli_rate |-> Bp(550), soli_taper |-> Bp(1190), soli_freigrenze |-> 12 * 169583]

Pack ==
    [pension_half |-> Bp(930), unemployment_half |-> Bp(130), pension_ceiling |-> Units(101400),
     health_general |-> Bp(1460), health_half |-> Bp(875), health_ceiling |-> Units(69750),
     care |-> Bp(360), care_half |-> Bp(180), childless_surcharge |-> Bp(60),
     status |-> "DRAFT_NEEDS_LEGAL_REVIEW"]

Employees(pays, ytds) ==
    [sv_gross_pay : pays, taxable_gross_pay : pays, one_time : {0, Units(3000)}, ytd : ytds,
     tax_class : {"I", "III"}, church_tax_rate : {0, 9}, childless : BOOLEAN,
     insurance_type : {"STATUTORY", "PRIVATE"}, health_premium : {Units(500)},
     care_premium : {Units(90)}, pay_year : {2026, 2027}]

\* An employee as the engine is given one; Valid says which it accepts.
Employee ==
    [sv_gross_pay : Int, taxable_gross_pay : Int, one_time : Int, ytd : Int, tax_class : STRING,
     church_tax_rate : Int, childless : BOOLEAN, insurance_type : {"STATUTORY", "PRIVATE"},
     health_premium : Int, care_premium : Int, pay_year : Int]

Valid(e) ==
    /\ NonNegative(e, {"sv_gross_pay", "taxable_gross_pay", "one_time", "ytd"})
    /\ e.tax_class = "I"
    /\ e.church_tax_rate \in {0, 8, 9}
    /\ e.insurance_type = "PRIVATE" => NonNegative(e, {"health_premium", "care_premium"})
    /\ e.pay_year < 2027

\* x * n / 1000000, without a product beyond 32 bits.
PerTenThousandEuro(x, n) ==
    (x \div 1000000) * n
    + HalfUp(((x % 1000000) \div 1000) * n + ((x % 1000) * n) \div 1000, 1000)

Polynomial(zone, x) == PerTenThousandEuro(x, PerTenThousandEuro(x, zone.a) + zone.b) + zone.c

AnnualIncomeTax(zve) ==
    LET p == IncomeTaxPack
    IN  CASE zve <= p.grundfreibetrag -> 0
          [] zve > p.grundfreibetrag /\ zve <= p.zone2_upper -> Polynomial(p.zone2, zve - p.grundfreibetrag)
          [] zve > p.zone2_upper /\ zve <= p.zone3_upper -> Polynomial(p.zone3, zve - p.zone2_upper)
          [] zve > p.zone3_upper /\ zve <= p.zone4_upper -> Share(zve, p.zone4.rate) - p.zone4.subtract
          [] zve > p.zone4_upper -> Share(zve, p.zone5.rate) - p.zone5.subtract

AnnualSoli(tax) ==
    LET p == IncomeTaxPack
    IN  IF tax <= p.soli_freigrenze THEN 0
        ELSE AtMost(Share(tax, p.soli_rate), Share(tax - p.soli_freigrenze, p.soli_taper))

\* A contribution on the regular pay and on the one-time pay after it.
Regular(e, ceiling, rate) == CeilingContribution(e.ytd, e.sv_gross_pay, ceiling, rate)
OneTime(e, ceiling, rate) == CeilingContribution(e.ytd + e.sv_gross_pay, e.one_time, ceiling, rate)
Both(e, ceiling, rate) == Regular(e, ceiling, rate) + OneTime(e, ceiling, rate)

Surcharge(e) == IF e.childless THEN Pack.childless_surcharge ELSE Bp(0)

\* The employer pays half of what the statutory scheme would cost, at most half the premium.
PrivateSubsidy(e, rate, premium) ==
    AtMost(HalfUp(Both(e, Pack.health_ceiling, rate), 2), HalfUp(premium, 2))

\* amount * part / whole.  Where both are multiples of 12.50 euro the products stay inside 32 bits.
PortionOf(amount, part, whole) ==
    LET unit == IF part % 1250 = 0 /\ whole % 1250 = 0 THEN 1250 ELSE 1
    IN  Share(amount, <<part \div unit, whole \div unit>>)

HealthAndCare(e) ==
    IF e.insurance_type = "STATUTORY"
    THEN LET health == Both(e, Pack.health_ceiling, Pack.health_half)
             care == Both(e, Pack.health_ceiling, Pack.care_half)
             surcharge == Both(e, Pack.health_ceiling, Surcharge(e))
         IN  [employee |-> health + care + surcharge, employer |-> health + care,
              regular |-> Regular(e, Pack.health_ceiling, Pack.health_half)
                          + Regular(e, Pack.health_ceiling, Pack.care_half)
                          + Regular(e, Pack.health_ceiling, Surcharge(e))]
    ELSE LET employer == PrivateSubsidy(e, Pack.health_general, e.health_premium)
                         + PrivateSubsidy(e, Pack.care, e.care_premium)
             employee == e.health_premium + e.care_premium - employer
             pay == e.sv_gross_pay + e.one_time
         IN  [employee |-> employee, employer |-> employer,
              regular |-> IF pay = 0 THEN employee
                          ELSE PortionOf(employee, e.sv_gross_pay, pay)]

\* What a payslip's month and its one-time pay owe, given a year of either.
OfMonthAndOnce(annual, once) == PerPeriod(annual, 12) + once - annual

IncomeTax(annual, taxed) == OfMonthAndOnce(AnnualIncomeTax(annual), AnnualIncomeTax(taxed))
Soli(annual, taxed) ==
    OfMonthAndOnce(AnnualSoli(AnnualIncomeTax(annual)), AnnualSoli(AnnualIncomeTax(taxed)))

\* Each step of a payslip takes what the steps before it found.
SocialInsurance(pension, unemployment, insurance, regular) ==
    [pension |-> pension, employee |-> pension + unemployment + insurance.employee,
     employer |-> pension + unemployment + insurance.employer, regular |-> regular + insurance.regular]

SocialInsuranceOf(e) ==
    SocialInsurance(Both(e, Pack.pension_ceiling, Pack.pension_half),
                    Both(e, Pack.pension_ceiling, Pack.unemployment_half), HealthAndCare(e),
                    Regular(e, Pack.pension_ceiling, Pack.pension_half)
                    + Regular(e, Pack.pension_ceiling, Pack.unemployment_half))

AnnualWages(e, social) == 12 * AtLeast(0, e.taxable_gross_pay - social.regular)
OneTimeWages(e, social) ==
    IF e.one_time > 0 THEN AtLeast(0, e.one_time - (social.employee - social.regular)) ELSE 0

SlipOf(e, gross, social, tax, soli, church) ==
    [gross_pay |-> gross, income_tax |-> tax, solidarity_surcharge |-> soli, church_tax |-> church,
     employee_social_insurance |-> social.employee, employer_social_insurance |-> social.employer,
     net_pay |-> gross - tax - soli - church - social.employee,
     employer_funded_total |-> gross + social.employer,
     pension |-> social.pension, ytd_after |-> e.ytd + e.sv_gross_pay + e.one_time]

TaxedSlip(e, social, tax, soli) ==
    SlipOf(e, e.taxable_gross_pay + e.one_time, social, tax, soli, Share(tax, Pct(e.church_tax_rate)))
YearlySlip(e, social, annual, taxed) ==
    TaxedSlip(e, social, IncomeTax(annual, taxed), Soli(annual, taxed))
InsuredSlip(e, social) ==
    YearlySlip(e, social, AnnualWages(e, social), AnnualWages(e, social) + OneTimeWages(e, social))

Payslip(e) == InsuredSlip(e, SocialInsuranceOf(e))

Journal(t) ==
    [debits |-> <<<<"SALARY_EXPENSE", t.gross_pay>>,
                 <<"EMPLOYER_SOCIAL_INSURANCE_EXPENSE", t.employer_social_insurance>>>>,
     credits |-> <<<<"NET_PAYROLL_PAYABLE", t.net_pay>>, <<"INCOME_TAX_PAYABLE", t.income_tax>>,
                  <<"SOLIDARITY_SURCHARGE_PAYABLE", t.solidarity_surcharge>>,
                  <<"CHURCH_TAX_PAYABLE", t.church_tax>>,
                  <<"SOCIAL_INSURANCE_PAYABLE", t.employee_social_insurance + t.employer_social_insurance>>>>]
=============================================================================
