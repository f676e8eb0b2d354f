----------------------------- MODULE PayrollZA -----------------------------
(***************************************************************************)
(* South Africa: src/lib/payroll-engine-za.ts, calculateZaPayroll.         *)
(***************************************************************************)
EXTENDS PayrollArithmetic

Pack ==
    [brackets |-> <<<<0, 0, 1800>>, <<245100, 4411800, 2600>>, <<383100, 7999800, 3100>>,
                    <<530200, 12559900, 3600>>, <<695800, 18521500, 3900>>,
                    <<887000, 25978300, 4100>>, <<1878600, 66633900, 4500>>>>,
     rebates |-> [primary |-> Units(17820), secondary |-> Units(9765), tertiary |-> Units(3249)],
     medical |-> [main |-> Units(376), first |-> Units(376), additional |-> Units(254)],
     uif_rate |-> Pct(1), uif_max |-> Units(17712), sdl_rate |-> Pct(1),
     status |-> "DRAFT_NEEDS_LEGAL_REVIEW"]

Eti ==
    [ineligible |-> Units(7500), full_month |-> 160, ages |-> 18..29,
     tables |-> <<[low |-> Units(2500), low_rate |-> Pct(60), mid |-> Units(5500),
                   flat |-> Units(1500), taper |-> Pct(75)],
                  [low |-> Units(2500), low_rate |-> Pct(30), mid |-> Units(5500),
                   flat |-> Units(750), taper |-> <<375, 1000>>]>>]

Employees(pays) ==
    [gross_pay : pays, age : {20, 40, 66, 76}, main_member : BOOLEAN, dependants : {0, 1, 3},
     sdl_liable : BOOLEAN, eti_eligible : BOOLEAN, eti_months : {6, 18, 30}, eti_hours : {80, 160}]

\* An employee as the engine is given one; Valid says which it accepts.
Employee ==
    [gross_pay : Int, age : Int, main_member : BOOLEAN, dependants : Int, sdl_liable : BOOLEAN,
     eti_eligible : BOOLEAN, eti_months : Int, eti_hours : Int]

Valid(e) ==
    /\ NonNegative(e, {"gross_pay", "age", "dependants"})
    /\ e.eti_eligible => e.age \in Eti.ages /\ e.eti_months \in 1..24 /\ e.eti_hours > 0

Paye(e) ==
    LET rebate == Pack.rebates.primary
                  + (IF e.age >= 65 THEN Pack.rebates.secondary ELSE 0)
                  + (IF e.age >= 75 THEN Pack.rebates.tertiary ELSE 0)
        annual == AtLeast(0, BracketLookup(12 * e.gross_pay, Pack.brackets) - rebate)
        credit == IF ~e.main_member THEN 0
                  ELSE Pack.medical.main
                       + (IF e.dependants >= 1 THEN Pack.medical.first ELSE 0)
                       + Pack.medical.additional * AtLeast(0, e.dependants - 1)
    IN  AtLeast(0, PerPeriod(annual, 12) - credit)

\* A short month is grossed up to find the band, and the incentive scaled back.
EtiIncentive(e) ==
    LET short == e.eti_hours < Eti.full_month
        pay == IF short THEN Share(e.gross_pay, <<Eti.full_month, e.eti_hours>>) ELSE e.gross_pay
        t == Eti.tables[IF e.eti_months <= 12 THEN 1 ELSE 2]
        raw == CASE pay < t.low -> Share(pay, t.low_rate)
                 [] pay >= t.low /\ pay < t.mid -> t.flat
                 [] pay >= t.mid /\ pay < Eti.ineligible -> AtLeast(0, t.flat + Share(t.mid - pay, t.taper))
                 [] pay >= Eti.ineligible -> 0
    IN  IF ~e.eti_eligible THEN 0
        ELSE IF short THEN Share(raw, <<e.eti_hours, Eti.full_month>>) ELSE raw

Payslip(e) ==
    LET uif == Share(AtMost(e.gross_pay, Pack.uif_max), Pack.uif_rate)
        sdl == IF e.sdl_liable THEN Share(e.gross_pay, Pack.sdl_rate) ELSE 0
    IN  [gross_pay |-> e.gross_pay, paye |-> Paye(e), employee_uif |-> uif, employer_uif |-> uif,
         employer_sdl |-> sdl, eti |-> EtiIncentive(e), net_pay |-> e.gross_pay - Paye(e) - uif,
         employer_funded_total |-> e.gross_pay + uif + sdl]

\* ETI is a debit to the tax payable and an income, outside the employee's pay.
Journal(t) ==
    [debits |-> <<<<"SALARY_EXPENSE", t.gross_pay>>,
                 <<"EMPLOYER_UIF_SDL_EXPENSE", t.employer_uif + t.employer_sdl>>,
                 <<"PAYE_PAYABLE", t.eti>>>>,
     credits |-> <<<<"NET_PAYROLL_PAYABLE", t.net_pay>>, <<"PAYE_PAYABLE", t.paye>>,
                  <<"UIF_PAYABLE", t.employee_uif + t.employer_uif>>, <<"SDL_PAYABLE", t.employer_sdl>>,
                  <<"ETI_GOVERNMENT_INCENTIVE_INCOME", t.eti>>>>]
=============================================================================
