----------------------------- MODULE PayrollCA -----------------------------
(***************************************************************************)
(* Canada outside Quebec: src/lib/payroll-engine-ca.ts, calculateCaPayroll.*)
(***************************************************************************)
EXTENDS PayrollArithmetic

\* Federal rows are <<from, K, rate>>: the tax is rate times all income, less K.
Federal ==
    [brackets |-> <<<<0, 0, 1400>>, <<58523, Units(3804), 2050>>, <<117045, Units(10241), 2600>>,
                    <<181440, Units(15685), 2900>>, <<258482, Units(26024), 3300>>>>,
     bpaf_full |-> Units(16452), bpaf_min |-> Units(14829), taper_start |-> 181440,
     taper_end |-> 258482, slope |-> <<1623, 77042>>, lowest |-> Bp(1400),
     employment |-> Units(1501)]

Cpp ==
    [exemption |-> Units(3500), ympe |-> Units(74600), yampe |-> Units(85000),
     base |-> [BEFORE_2027 |-> 495, FROM_2027 |-> 475], additional |-> 100, second |-> Bp(400)]

Ei == [max_insurable |-> Units(68900), rate |-> Bp(163), employer_multiple |-> <<14, 10>>]

Brackets ==
    [AB |-> <<<<0, 0, 800>>, <<61200, 489600, 1000>>, <<154259, 1420190, 1200>>,
              <<185111, 1790414, 1300>>, <<246813, 2592540, 1400>>, <<370220, 4320338, 1500>>>>,
     BC |-> <<<<0, 0, 614>>, <<50363, 309229, 770>>, <<100728, 697039, 1050>>,
              <<115648, 853699, 1229>>, <<140430, 1158261, 1470>>, <<190405, 1892894, 1680>>,
              <<265545, 3155246, 2050>>>>,
     MB |-> <<<<0, 0, 1080>>, <<47000, 507600, 1275>>, <<100000, 1183350, 1740>>>>,
     NB |-> <<<<0, 0, 940>>, <<52333, 491930, 1400>>, <<104666, 1224592, 1600>>, <<193861, 2651712, 1950>>>>,
     NL |-> <<<<0, 0, 870>>, <<44678, 388699, 1450>>, <<89354, 1036501, 1580>>,
              <<159528, 2145250, 1780>>, <<223340, 3281104, 1980>>, <<285319, 4508288, 2080>>,
              <<570638, 10442923, 2130>>, <<1141275, 22597491, 2180>>>>,
     NS |-> <<<<0, 0, 879>>, <<30995, 272446, 1495>>, <<61991, 735836, 1667>>,
              <<97417, 1326486, 1750>>, <<157124, 2371359, 2100>>>>,
     ON |-> <<<<0, 0, 505>>, <<53891, 272150, 915>>, <<107785, 765300, 1116>>,
              <<150000, 1236419, 1216>>, <<220000, 2087619, 1316>>>>,
     PE |-> <<<<0, 0, 950>>, <<33928, 322316, 1347>>, <<65820, 751899, 1660>>,
              <<106890, 1433661, 1762>>, <<142520, 2061466, 1900>>, <<200000, 3153586, 2100>>>>,
     SK |-> <<<<0, 0, 1050>>, <<54532, 572586, 1250>>, <<155805, 1838499, 1450>>>>,
     NT |-> <<<<0, 0, 590>>, <<53003, 312718, 860>>, <<106009, 768570, 1220>>, <<172346, 1577881, 1405>>>>,
     NU |-> <<<<0, 0, 400>>, <<55801, 223204, 700>>, <<111602, 613811, 900>>, <<181439, 1242344, 1150>>>>,
     YT |-> <<<<0, 0, 640>>, <<58523, 374547, 900>>, <<117045, 901245, 1090>>,
              <<181440, 1603151, 1280>>, <<500000, 5680719, 1500>>>>]

\* Manitoba tapers its basic amount, Yukon takes the federal one.
BasicAmounts ==
    [AB |-> 22769, BC |-> 13216, NB |-> 13664, NL |-> 15000, NS |-> 11932, ON |-> 12989,
     PE |-> 15000, SK |-> 20381, NT |-> 18198, NU |-> 19659]
Manitoba == [full |-> Units(15780), taper_start |-> 200000, taper_end |-> 400000, slope |-> <<789, 10000>>]
BcReduction == [from |-> Units(25570), to |-> Units(44952), max |-> Units(805), taper |-> Bp(356)]

Periods == [WEEKLY |-> 52, BIWEEKLY |-> 26, SEMIMONTHLY |-> 24, MONTHLY |-> 12]

\* wcb_rate is in percent, -1 when the employer gives no rate and no ceiling.
Employees(pays, ytds) ==
    [gross_pay : pays, province : DOMAIN Brackets \cup {"QC"}, frequency : {"BIWEEKLY", "MONTHLY"},
     ytd : ytds, pay_date : DOMAIN Cpp.base, wcb_rate : {-1, 3}, wcb_ceiling : {Units(30000)},
     ytd_wcb : {0}]

\* An employee as the engine is given one; Valid says which it accepts.
Employee ==
    [gross_pay : Int, province : STRING, frequency : STRING, ytd : Int, pay_date : DOMAIN Cpp.base,
     wcb_rate : Int, wcb_ceiling : Int, ytd_wcb : Int]

Valid(e) ==
    /\ NonNegative(e, {"gross_pay", "ytd", "ytd_wcb", "wcb_ceiling"})
    /\ e.province \in DOMAIN Brackets
    /\ e.frequency \in DOMAIN Periods
    /\ e.wcb_rate \in {-1} \cup 0..100

\* Pay up to the year's maximum, less the period's part of the basic exemption.
Cpp1Earnings(e) ==
    AtLeast(0, AtLeast(0, AtMost(e.gross_pay, Cpp.ympe - e.ytd))
               - PerPeriod(Cpp.exemption, Periods[e.frequency]))

EmployeeEi(e) == BandedContribution(e.ytd, e.gross_pay, 0, Ei.max_insurable, Ei.rate)

\* Income A: the year's pay less the additional CPP contributions.
TaxableIncome(e) ==
    AtLeast(0, Periods[e.frequency] * e.gross_pay
               - Share(Periods[e.frequency] * Cpp1Earnings(e), Bp(Cpp.additional)))

FederalBasicAmount(a) ==
    LinearTaper(a, Federal.taper_start, Federal.taper_end, Federal.bpaf_full, Federal.bpaf_min, Federal.slope)

\* Credits for the basic amount, base CPP and EI at the lowest rate of the table.
Credits(e, basic, rate) ==
    Share(basic, rate)
    + Share(Share(Periods[e.frequency] * Cpp1Earnings(e), Bp(Cpp.base[e.pay_date])), rate)
    + Share(EmployeeEi(e) * Periods[e.frequency], rate)

FederalTax(e) ==
    LET a == TaxableIncome(e)
        row == Row(a, Federal.brackets)
        employment == Share(AtMost(Federal.employment, Periods[e.frequency] * e.gross_pay), Federal.lowest)
    IN  AtLeast(0, Share(a, Bp(row[3])) - row[2]
                   - Credits(e, FederalBasicAmount(a), Federal.lowest) - employment)

ProvincialBasicAmount(province, a) ==
    CASE province = "YT" -> FederalBasicAmount(a)
      [] province = "MB" -> LinearTaper(a, Manitoba.taper_start, Manitoba.taper_end, Manitoba.full, 0, Manitoba.slope)
      [] OTHER -> Units(BasicAmounts[province])

\* British Columbia reduces the tax of low incomes.
Reduction(a, tax) ==
    CASE a <= BcReduction.from -> AtMost(tax, BcReduction.max)
      [] a > BcReduction.from /\ a <= BcReduction.to ->
           AtMost(tax, BcReduction.max + Share(BcReduction.from - a, BcReduction.taper))
      [] OTHER -> 0

ProvincialTax(e) ==
    LET a == TaxableIncome(e)
        table == Brackets[e.province]
        tax == AtLeast(0, BracketLookup(a, table)
                          - Credits(e, ProvincialBasicAmount(e.province, a), Bp(table[1][3])))
    IN  IF e.province = "BC" THEN AtLeast(0, tax - Reduction(a, tax)) ELSE tax

Payslip(e) ==
    LET periods == Periods[e.frequency]
        cpp1 == Share(Cpp1Earnings(e), Bp(Cpp.base[e.pay_date] + Cpp.additional))
        cpp2 == BandedContribution(e.ytd, e.gross_pay, Cpp.ympe, Cpp.yampe, Cpp.second)
        ei == EmployeeEi(e)
        employerEi == Share(ei, Ei.employer_multiple)
        wcb == IF e.wcb_rate = -1 THEN 0
               ELSE BandedContribution(e.ytd_wcb, e.gross_pay, 0, e.wcb_ceiling, Pct(e.wcb_rate))
        federal == PerPeriod(FederalTax(e), periods)
        provincial == PerPeriod(ProvincialTax(e), periods)
    IN  [gross_pay |-> e.gross_pay, federal_income_tax |-> federal, provincial_income_tax |-> provincial,
         employee_cpp1 |-> cpp1, employer_cpp1 |-> cpp1, employee_cpp2 |-> cpp2, employer_cpp2 |-> cpp2,
         employee_ei |-> ei, employer_ei |-> employerEi, employer_wcb |-> wcb,
         net_pay |-> e.gross_pay - (federal + provincial + cpp1 + cpp2 + ei),
         employer_funded_total |-> e.gross_pay + cpp1 + cpp2 + employerEi + wcb,
         ytd_after |-> e.ytd + e.gross_pay,
         ytd_wcb_after |-> e.ytd_wcb
             + (IF e.wcb_rate = -1 THEN 0
                ELSE AtLeast(0, AtMost(e.ytd_wcb + e.gross_pay, e.wcb_ceiling) - e.ytd_wcb))]

Journal(t) ==
    [debits |-> <<<<"SALARY_EXPENSE", t.gross_pay>>,
                 <<"EMPLOYER_CPP_EI_EXPENSE", t.employer_cpp1 + t.employer_cpp2 + t.employer_ei>>,
                 <<"EMPLOYER_WCB_EXPENSE", t.employer_wcb>>>>,
     credits |-> <<<<"NET_PAYROLL_PAYABLE", t.net_pay>>,
                  <<"FEDERAL_INCOME_TAX_PAYABLE", t.federal_income_tax>>,
                  <<"PROVINCIAL_INCOME_TAX_PAYABLE", t.provincial_income_tax>>,
                  <<"CPP_PAYABLE", t.employee_cpp1 + t.employer_cpp1 + t.employee_cpp2 + t.employer_cpp2>>,
                  <<"EI_PAYABLE", t.employee_ei + t.employer_ei>>, <<"WCB_PAYABLE", t.employer_wcb>>>>]
=============================================================================
