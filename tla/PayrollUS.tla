----------------------------- MODULE PayrollUS -----------------------------
(***************************************************************************)
(* United States: src/lib/payroll-engine-us.ts, calculateUsPayroll.        *)
(* An employee's optional fields stand in common ones: status is the       *)
(* state's filing status, allowances and more its counts, locality the     *)
(* city or county, sui the employer's own rate and wage base.              *)
(***************************************************************************)
EXTENDS PayrollUSStates

NoTaxStates == {"FL", "NV", "NH", "SD", "TN", "TX", "WY"}

Statuses ==
    [CA |-> {"SINGLE", "MARRIED_0_OR_1", "MARRIED_2_OR_MORE", "HEAD_OF_HOUSEHOLD"},
     NJ |-> {"A", "B"}, NY |-> {"SINGLE", "MARRIED"}, CO |-> DOMAIN Colorado.subtraction,
     OR |-> {"SINGLE", "MARRIED"}, NC |-> DOMAIN NorthCarolina.standard]

StatusesV11 ==
    [GA |-> DOMAIN GaKyMsUt.ga.standard, MS |-> DOMAIN GaKyMsUt.ms.base, UT |-> DOMAIN GaKyMsUt.ut.base,
     MN |-> DOMAIN MnMtNd.mn.brackets, MT |-> DOMAIN MnMtNd.mt.brackets, ND |-> DOMAIN MnMtNd.nd.brackets,
     OK |-> DOMAIN OkRiVa.ok.brackets]

StatusesV12 ==
    [MO |-> DOMAIN MaMoNeSc.mo.standard, NE |-> DOMAIN MaMoNeSc.ne.brackets,
     VT |-> DOMAIN VtWvKsId.vt.brackets, WV |-> DOMAIN VtWvKsId.wv.brackets,
     KS |-> DOMAIN VtWvKsId.ks.brackets, ID |-> DOMAIN VtWvKsId.id.threshold,
     NM |-> DOMAIN NmHi.nm, HI |-> DOMAIN NmHi.hi]

StatusesV14 ==
    [LA |-> DOMAIN LaIa.la.standard, IA |-> DOMAIN LaIa.ia.WEEKLY, AL |-> DOMAIN Alabama.threshold,
     MD |-> DOMAIN Maryland.brackets, CT |-> {"A_OR_D"}, DE |-> DOMAIN DeDc.standard,
     DC |-> {"S", "M", "N", "H"}, WI |-> DOMAIN Wisconsin.deduction]

StatesV5 == {"IL", "PA", "MI", "AZ", "AK", "WA", "IN"}
StatesV11 == DOMAIN StatusesV11 \cup {"KY", "RI", "VA"}
StatesV12 == DOMAIN StatusesV12 \cup {"MA", "SC", "AR"}
StatesV14 == DOMAIN StatusesV14 \cup {"OH"}
UsStates == NoTaxStates \cup StatesV5 \cup StatesV11 \cup StatesV12 \cup StatesV14 \cup DOMAIN Statuses

LocalityOf(state) ==
    CASE state = "NY" -> {"NONE", "NYC", "YONKERS", "YONKERS_WORK", "YONKERS_BOTH"}
      [] state = "PA" -> {"NONE", "PHL_RESIDENT", "PHL_WORK", "PHL_BOTH"}
      [] state = "CO" -> {"NONE", "DENVER"}
      [] state = "IN" -> DOMAIN Indiana.county
      [] state = "MD" -> DOMAIN Maryland.county \cup DOMAIN Maryland.graduated
      [] OTHER -> {"NONE"}

StatusOf(state) ==
    CASE state \in DOMAIN Statuses -> Statuses[state]
      [] state \in DOMAIN StatusesV11 -> StatusesV11[state]
      [] state \in DOMAIN StatusesV12 -> StatusesV12[state]
      [] state \in DOMAIN StatusesV14 -> StatusesV14[state]
      [] OTHER -> {"NONE"}

\* The year's wages before this period, by the tax they count for.
NoWages == [tax \in DOMAIN WageBases \cup {"medicare", "sui", "ny_pfl_tax"} |-> 0]

Employees(pays, ytds, states) ==
    UNION {[gross_pay : pays, pretax_401k : {0, Units(200)}, pretax_125 : {0}, frequency : DOMAIN Periods,
            filing : Filings, step2 : BOOLEAN, step3 : {0, Units(2000)}, extra : {0}, state : {state},
            status : StatusOf(state) \cup {"UNKNOWN"}, allowances : {0, 2}, more : {0}, adopted : {0}, elected : {250},
            locality : LocalityOf(state) \cup {"ELSEWHERE"}, dbl : BOOLEAN, half : {"H1", "H2"},
            sui : {<<>>, <<27, Units(9000)>>}, ytd : ytds] : state \in states}

\* An employee as the engine is given one; Valid says which it accepts.
Employee ==
    [gross_pay : Int, pretax_401k : Int, pretax_125 : Int, frequency : STRING, filing : STRING,
     step2 : BOOLEAN, step3 : Int, extra : Int, state : STRING, status : STRING, allowances : Int,
     more : Int, adopted : Int, elected : Int, locality : STRING, dbl : BOOLEAN, half : {"H1", "H2"},
     sui : {<<>>} \cup Int \X Int, ytd : [DOMAIN NoWages -> Int]]

(***************************************************************************)
(* What an employee must state, by the batch that added the state.         *)
(***************************************************************************)
ValidEmployee(e) ==
    /\ NonNegative(e, {"gross_pay", "pretax_401k", "pretax_125"})
    /\ e.pretax_401k + e.pretax_125 <= e.gross_pay
    /\ \A tax \in DOMAIN NoWages : e.ytd[tax] >= 0
    /\ e.sui # <<>> => 0 <= e.sui[1] /\ e.sui[1] <= 10000
    /\ e.frequency \in DOMAIN Periods
    /\ e.filing \in Filings
    /\ e.step2 \in BOOLEAN
    /\ e.state \in UsStates

ValidState(e) ==
    /\ e.state \in DOMAIN Statuses => e.status \in Statuses[e.state]
    /\ e.state \in {"NJ", "NY"} => e.pretax_401k = 0 /\ e.pretax_125 = 0
    /\ e.state = "NY" => e.locality # "YONKERS_BOTH" /\ (e.dbl => e.frequency = "WEEKLY")
    /\ e.state = "PA" => e.locality # "PHL_BOTH"
    /\ e.state = "CO" => (e.locality = "DENVER" => e.frequency = "MONTHLY")
    /\ e.state = "AZ" => e.elected \in ArizonaElections
    /\ e.state = "IN" => e.locality \in DOMAIN Indiana.county
    /\ e.state \in DOMAIN Statuses \cup StatesV5 => e.allowances >= 0 /\ e.more >= 0 /\ e.adopted >= 0

ValidV11(e) ==
    /\ e.state \in DOMAIN StatusesV11 => e.status \in StatusesV11[e.state]
    /\ e.state \in StatesV11 => e.allowances >= 0

ValidV12(e) ==
    /\ e.state \in DOMAIN StatusesV12 => e.status \in StatusesV12[e.state]
    /\ e.state \in StatesV12 => e.allowances >= 0

ValidV14(e) ==
    /\ e.state \in DOMAIN StatusesV14 => e.status \in StatusesV14[e.state]
    /\ e.state = "MD" => e.locality \in LocalityOf("MD")
    /\ e.state \in StatesV14 => e.allowances >= 0

(***************************************************************************)
(* Federal taxes.                                                          *)
(***************************************************************************)
FederalWages(e) == AtLeast(0, e.gross_pay - e.pretax_401k - e.pretax_125)
FicaWages(e) == AtLeast(0, e.gross_pay - e.pretax_125)

FicaAndFuta(e) ==
    LET wages == FicaWages(e)
        futaRate == IF e.state \in DOMAIN Futa.net_by_state THEN Futa.net_by_state[e.state] ELSE Futa.net
        above == AtLeast(0, e.ytd.medicare + wages - AtLeast(Fica.threshold, e.ytd.medicare))
    IN  [social_security |-> CeilingContribution(e.ytd.ss, wages, WageBases.ss, Fica.social_security),
         medicare |-> Share(wages, Fica.medicare),
         additional_medicare |-> Share(above, Fica.additional),
         futa |-> CeilingContribution(e.ytd.futa, wages, WageBases.futa, futaRate),
         sui |-> IF e.sui = <<>> THEN 0
                 ELSE CeilingContribution(e.ytd.sui, wages, e.sui[2], <<e.sui[1], 1000>>)]

\* A bug to catch: the year's deduction is taken off each period's wages.
FederalIncomeTaxPerPeriod(e) ==
    LET periods == Periods[e.frequency]
        reduction == IF e.step2 THEN 0 ELSE Step2Deduction[e.filing]
        adjusted == AtLeast(0, FederalWages(e) - reduction) * periods
        table == IF e.step2 THEN Step2Brackets[e.filing] ELSE StandardBrackets[e.filing]
    IN  AtLeast(0, PerPeriod(BracketLookup(adjusted, table), periods) - PerPeriod(e.step3, periods)) + e.extra

\* The percentage method: a year's wages, taxed, and the period's part of the tax.
FederalIncomeTax(e) ==
    LET periods == Periods[e.frequency]
        reduction == IF e.step2 THEN 0 ELSE Step2Deduction[e.filing]
        adjusted == AtLeast(0, FederalWages(e) * periods - reduction)
        table == IF e.step2 THEN Step2Brackets[e.filing] ELSE StandardBrackets[e.filing]
    IN  AtLeast(0, PerPeriod(BracketLookup(adjusted, table), periods) - PerPeriod(e.step3, periods)) + e.extra

(***************************************************************************)
(* States with rules of their own.  more counts California's estimated     *)
(* deductions, Illinois' second line and Indiana's dependents.             *)
(***************************************************************************)
CaliforniaTax(e) ==
    LET amounts == CaAmounts[e.frequency]
        wages == AtLeast(0, FederalWages(e) - e.more * amounts.estimated)
        table == IF e.status \in {"MARRIED_0_OR_1", "MARRIED_2_OR_MORE"} THEN "MARRIED" ELSE e.status
        tables == IF e.frequency = "WEEKLY" THEN CaWeekly ELSE CaMonthly
        tax == BracketLookup(AtLeast(0, wages - Units(amounts.standard[e.status])), tables[table])
    IN  IF FederalWages(e) > Units(amounts.exempt[e.status])
        THEN AtLeast(0, tax - e.allowances * amounts.credit) ELSE 0

NewJerseyTax(e) ==
    BracketLookup(AtLeast(0, e.gross_pay - e.allowances * Nj.allowance[e.frequency]),
                  IF e.frequency = "WEEKLY" THEN NjWeekly[e.status] ELSE NjMonthly[e.status])

NyNetWages(e) ==
    AtLeast(0, e.gross_pay - NyAmounts.deduction[e.frequency][e.status]
               - e.allowances * NyAmounts.exemption[e.frequency])

NewYorkTax(e) ==
    BracketLookup(NyNetWages(e), IF e.frequency = "WEEKLY" THEN NyWeekly[e.status] ELSE NyMonthly[e.status])

NewYorkLocalTax(e) ==
    LET exemptions == Yonkers.exemption[e.frequency]
        cityWages == AtLeast(0, e.gross_pay - NyAmounts.nyc[e.frequency][e.status]
                                - e.allowances * NyAmounts.exemption[e.frequency])
    IN  CASE e.locality = "NYC" -> BracketLookup(cityWages, NycBrackets[e.frequency])
          [] e.locality = "YONKERS" -> Share(NewYorkTax(e), Yonkers.resident)
          [] e.locality = "YONKERS_WORK" /\ e.gross_pay >= Units(exemptions[1][1]) ->
               Share(AtLeast(0, e.gross_pay - StepLookup(e.gross_pay, exemptions)), Yonkers.nonresident)
          [] OTHER -> 0

PhiladelphiaTax(e) ==
    IF e.locality \in DOMAIN Pennsylvania.philadelphia[e.half]
    THEN Share(e.gross_pay, Pennsylvania.philadelphia[e.half][e.locality]) ELSE 0

IllinoisTax(e) ==
    LET allowance == PerPeriod(e.allowances * Illinois.line1 + e.more * Illinois.line2, Periods[e.frequency])
    IN  Share(AtLeast(0, e.gross_pay - allowance), Illinois.rate)

MichiganTax(e) ==
    Share(AtLeast(0, e.gross_pay - PerPeriod(e.allowances * Michigan.exemption, Periods[e.frequency])), Michigan.rate)

ColoradoTax(e) ==
    PerPeriod(Share(AtLeast(0, Annual(e) - Colorado.subtraction[e.status]), Bp(Colorado.rate)), Periods[e.frequency])

DenverOpt(e) == e.state = "CO" /\ e.locality = "DENVER" /\ e.gross_pay >= Colorado.opt_from

\* At 50,000 a year Oregon changes table and limits what federal tax it subtracts.
OregonWide(e) == e.status = "MARRIED" \/ e.allowances >= 3
OregonRefuses(e) ==
    e.status = "SINGLE" /\ e.allowances >= 3 /\ Annual(e) >= Units(Oregon.phaseout.SINGLE.from)
OregonTax(e) ==
    LET over == Annual(e) >= Oregon.tier
        track == IF OregonWide(e) THEN "wide" ELSE "narrow"
        phaseout == Oregon.phaseout[e.status]
        federal == FederalIncomeTax(e) * Periods[e.frequency]
        limit == Oregon.subtraction
                 - Oregon.subtraction_step * Staircase(Annual(e), phaseout.from, phaseout.width, 5)
        base == AtLeast(0, Annual(e) - (IF over THEN AtMost(federal, limit) ELSE federal) - Oregon.standard[track])
        tax == BracketLookup(base, IF over THEN Oregon.over[track] ELSE Oregon.under[track])
    IN  PerPeriod(AtLeast(0, tax - e.allowances * Oregon.credit), Periods[e.frequency])

IndianaWages(e) ==
    LET periods == Periods[e.frequency]
    IN  AtLeast(0, e.gross_pay - PerPeriod(e.allowances * Indiana.personal, periods)
                   - PerPeriod(e.more * Indiana.dependent, periods)
                   - PerPeriod(e.adopted * Indiana.adopted, periods))

\* North Carolina withholds whole dollars.
NorthCarolinaTax(e) ==
    LET periods == Periods[e.frequency]
        wages == AtLeast(0, e.gross_pay - PerPeriod(NorthCarolina.standard[e.status], periods)
                            - e.allowances * PerPeriod(NorthCarolina.allowance, periods))
    IN  Units(Share(wages, <<NorthCarolina.rate[1], 1000000>>))

StateIncomeTax(e) ==
    CASE e.state = "CA" -> CaliforniaTax(e)
      [] e.state = "NJ" -> NewJerseyTax(e)
      [] e.state = "NY" -> NewYorkTax(e)
      [] e.state = "IL" -> IllinoisTax(e)
      [] e.state = "PA" -> Share(e.gross_pay, Pennsylvania.income)
      [] e.state = "MI" -> MichiganTax(e)
      [] e.state = "CO" -> ColoradoTax(e)
      [] e.state = "AZ" -> Share(e.gross_pay, Bp(e.elected))
      [] e.state = "OR" -> OregonTax(e)
      [] e.state = "IN" -> Share(IndianaWages(e), Indiana.rate)
      [] e.state = "NC" -> NorthCarolinaTax(e)
      [] e.state \in StatesV11 -> BatchV11(e)
      [] e.state \in StatesV12 -> BatchV12(e)
      [] e.state \in {"OH", "LA", "IA", "AL"} -> BatchV13(e)
      [] e.state \in {"MD", "CT", "DE", "DC", "WI"} -> BatchV14(e)
      [] e.state \in NoTaxStates \cup {"AK", "WA"} -> 0

LocalTax(e) ==
    CASE e.state = "NY" -> NewYorkLocalTax(e)
      [] e.state = "PA" -> PhiladelphiaTax(e)
      [] e.state = "IN" -> Share(IndianaWages(e), Indiana.county[e.locality])
      [] e.state = "MD" -> MarylandCounty(e)
      [] DenverOpt(e) -> Colorado.opt_employee
      [] OTHER -> 0

\* What the employee pays into the state's funds, with a wage base, a tax cap or neither.
PaidFamilyLeave(e) == CapTax(e.ytd.ny_pfl_tax, Share(e.gross_pay, NyLeave.pfl), NyLeave.pfl_cap)
Capped(e, base, rate) == CeilingContribution(e.ytd[base], e.gross_pay, WageBases[base], rate)
WaPfml(e) ==
    LET wages == AtMost(e.gross_pay, AtLeast(0, WageBases.wa_pfml - e.ytd.wa_pfml))
        thousands == (wages \div 100000) * Washington.pfml
        rest == wages % 100000
    IN  thousands \div 1000
        + HalfUp((thousands % 1000) * 100 + (rest \div 1000) * Washington.pfml
                 + ((rest % 1000) * Washington.pfml) \div 1000, 100000)

StateContributions(e) ==
    CASE e.state = "CA" -> Share(FicaWages(e), Bp(130))
      [] e.state = "NJ" -> Capped(e, "nj_ui_wf", Nj.ui_wf_swf) + Capped(e, "nj_tdi_fli", Nj.tdi)
                           + Capped(e, "nj_tdi_fli", Nj.fli)
      [] e.state = "NY" -> PaidFamilyLeave(e)
                           + (IF e.dbl THEN AtMost(Share(e.gross_pay, NyLeave.dbl), NyLeave.dbl_weekly_cap) ELSE 0)
      [] e.state = "PA" -> Share(e.gross_pay, Pennsylvania.uc)
      [] e.state = "CO" -> Capped(e, "co_famli", Colorado.famli)
      [] e.state = "AK" -> Capped(e, "ak_ui", AlaskaUi)
      [] e.state = "WA" -> WaPfml(e) + Share(e.gross_pay, Washington.cares)
      [] e.state = "OR" -> Share(e.gross_pay, Oregon.stt) + Capped(e, "or_paid_leave", Oregon.paid_leave)
      [] OTHER -> 0

\* The wages that make a table of the pack end, or that the pack refuses to estimate.
Refused(e) ==
    \/ e.state = "NY" /\ NyNetWages(e) >= NyMethodThree[e.frequency][e.status]
    \/ e.state = "OR" /\ OregonRefuses(e)
    \/ e.state = "AR" /\ ArkansasSmoothing(e)
    \/ e.state = "AL" /\ AlabamaSliding(e)

Valid(e) ==
    ValidEmployee(e) /\ ValidState(e) /\ ValidV11(e) /\ ValidV12(e) /\ ValidV14(e) /\ ~Refused(e)

\* Every base of the pack advances by the wages it still covers, whatever the state.
YtdAfter(e, pfl) ==
    [tax \in DOMAIN NoWages |->
       CASE tax = "medicare" -> e.ytd.medicare + FicaWages(e)
         [] tax = "ny_pfl_tax" -> e.ytd.ny_pfl_tax + pfl
         [] tax = "sui" ->
              e.ytd.sui + (IF e.sui = <<>> THEN 0
                           ELSE AtMost(FicaWages(e), AtLeast(0, e.sui[2] - e.ytd.sui)))
         [] OTHER ->
              e.ytd[tax] + AtMost(IF tax \in {"ss", "futa"} THEN FicaWages(e) ELSE e.gross_pay,
                                  AtLeast(0, WageBases[tax] - e.ytd[tax]))]

Payslip(e) ==
    LET f == FicaAndFuta(e)
        federal == FederalIncomeTax(e)
        opt == IF DenverOpt(e) THEN Colorado.opt_employer ELSE 0
        employee == federal + f.social_security + f.medicare + f.additional_medicare
                    + StateIncomeTax(e) + LocalTax(e) + StateContributions(e)
        employer == f.social_security + f.medicare + f.futa + f.sui + opt
    IN  [gross_pay |-> e.gross_pay, federal_income_tax |-> federal,
         fica_employee |-> f.social_security + f.medicare + f.additional_medicare,
         fica_employer |-> f.social_security + f.medicare, futa |-> f.futa, sui |-> f.sui,
         state_income_tax |-> StateIncomeTax(e), local_tax |-> LocalTax(e),
         state_contributions |-> StateContributions(e), denver_opt_employer |-> opt,
         pretax_deductions |-> e.pretax_401k + e.pretax_125,
         net_pay |-> e.gross_pay - employee - e.pretax_401k - e.pretax_125,
         employer_funded_total |-> e.gross_pay + employer,
         ytd_after |-> YtdAfter(e, IF e.state = "NY" THEN PaidFamilyLeave(e) ELSE 0)]

\* The code has a credit line for each state's tax and fund; here they stand together.
\* A bug to catch: the deferrals taken from the pay reach no account.
JournalWithoutDeferrals(t) ==
    [debits |-> <<<<"SALARY_EXPENSE", t.gross_pay>>,
                 <<"EMPLOYER_PAYROLL_TAX_EXPENSE", t.fica_employer + t.futa + t.sui + t.denver_opt_employer>>>>,
     credits |-> <<<<"NET_PAYROLL_PAYABLE", t.net_pay>>, <<"FEDERAL_INCOME_TAX_PAYABLE", t.federal_income_tax>>,
                  <<"FICA_PAYABLE", t.fica_employee + t.fica_employer>>, <<"FUTA_PAYABLE", t.futa>>,
                  <<"SUI_PAYABLE", t.sui>>, <<"STATE_INCOME_TAX_PAYABLE", t.state_income_tax>>,
                  <<"LOCAL_TAX_PAYABLE", t.local_tax>>, <<"STATE_CONTRIBUTIONS_PAYABLE", t.state_contributions>>,
                  <<"DENVER_BUSINESS_OPT_PAYABLE", t.denver_opt_employer>>>>]

Journal(t) ==
    [debits |-> <<<<"SALARY_EXPENSE", t.gross_pay>>,
                 <<"EMPLOYER_PAYROLL_TAX_EXPENSE", t.fica_employer + t.futa + t.sui + t.denver_opt_employer>>>>,
     credits |-> <<<<"NET_PAYROLL_PAYABLE", t.net_pay>>, <<"FEDERAL_INCOME_TAX_PAYABLE", t.federal_income_tax>>,
                  <<"FICA_PAYABLE", t.fica_employee + t.fica_employer>>, <<"FUTA_PAYABLE", t.futa>>,
                  <<"SUI_PAYABLE", t.sui>>, <<"STATE_INCOME_TAX_PAYABLE", t.state_income_tax>>,
                  <<"LOCAL_TAX_PAYABLE", t.local_tax>>, <<"STATE_CONTRIBUTIONS_PAYABLE", t.state_contributions>>,
                  <<"DENVER_BUSINESS_OPT_PAYABLE", t.denver_opt_employer>>,
                  <<"EMPLOYEE_PRETAX_DEDUCTIONS_PAYABLE", t.pretax_deductions>>>>]
=============================================================================
