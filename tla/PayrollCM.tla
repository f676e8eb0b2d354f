----------------------------- MODULE PayrollCM -----------------------------
(***************************************************************************)
(* Cameroon: src/lib/payroll-engine-cm.ts, calculateCmPayroll.             *)
(***************************************************************************)
EXTENDS PayrollArithmetic

IrppPack ==
    [brackets |-> <<<<0, 0, 1000>>, <<2000000, 20000000, 1500>>, <<3000000, 35000000, 2500>>,
                    <<5000000, 85000000, 3500>>>>,
     low_wage |-> Units(62000), professional_rate |-> Pct(30),
     professional_cap |-> Units(4800000), allowance |-> Units(500000), cac |-> Pct(10),
     benefits |-> [housing |-> 15, vehicle |-> 10, food |-> 10, telephone |-> 5]]

CnpsPack ==
    [pension |-> Bp(420), cap |-> Units(750000),
     family |-> [GENERAL_OR_DOMESTIC |-> Bp(700), AGRICULTURE |-> Bp(565), PRIVATE_EDUCATION |-> Bp(370)],
     risk |-> [A |-> Bp(175), B |-> Bp(250), C |-> Bp(500)],
     cfc_employee |-> Pct(1), cfc_employer |-> Bp(150), fne |-> Pct(1),
     status |-> "DRAFT_NEEDS_LEGAL_REVIEW"]

TdlTable ==
    <<<<0, 0>>, <<62000, Units(250)>>, <<75001, Units(500)>>, <<100001, Units(750)>>,
      <<125001, Units(1000)>>, <<150001, Units(1250)>>, <<200001, Units(1500)>>,
      <<250001, Units(2000)>>, <<300001, Units(2250)>>, <<500001, Units(2500)>>>>

CrtvTable ==
    <<<<0, 0>>, <<50001, Units(750)>>, <<100001, Units(1950)>>, <<200001, Units(3250)>>,
      <<300001, Units(4550)>>, <<400001, Units(5850)>>, <<500001, Units(7150)>>,
      <<600001, Units(8450)>>, <<700001, Units(9750)>>, <<800001, Units(11050)>>,
      <<900001, Units(12350)>>, <<1000001, Units(13000)>>>>

Employees(pays) ==
    [gross_pay : pays, sector : DOMAIN CnpsPack.family \cup {"OTHER"}, risk : {"A", "C"},
     cfc_fne_exempt : BOOLEAN, crtv_exempt : BOOLEAN, benefits : SUBSET {"housing", "vehicle"}]

\* An employee as the engine is given one; Valid says which it accepts.
Employee ==
    [gross_pay : Int, sector : STRING, risk : STRING, cfc_fne_exempt : BOOLEAN, crtv_exempt : BOOLEAN,
     benefits : SUBSET DOMAIN IrppPack.benefits]

Valid(e) ==
    /\ NonNegative(e, {"gross_pay"})
    /\ e.sector \in DOMAIN CnpsPack.family
    /\ e.risk \in DOMAIN CnpsPack.risk

InKind(e) ==
    LET percent == [b \in DOMAIN IrppPack.benefits |-> IF b \in e.benefits THEN IrppPack.benefits[b] ELSE 0]
    IN  percent["housing"] + percent["vehicle"] + percent["food"] + percent["telephone"]

\* Income tax on the year's pay less the professional deduction, pension and allowance.
Irpp(e, pension) ==
    LET taxable == e.gross_pay + Share(e.gross_pay, Pct(InKind(e)))
        annual == 12 * taxable
        professional == AtMost(Share(annual, IrppPack.professional_rate), IrppPack.professional_cap)
        base == AtLeast(0, annual - professional - 12 * pension - IrppPack.allowance)
    IN  IF taxable < IrppPack.low_wage THEN 0
        ELSE PerPeriod(BracketLookup(base, IrppPack.brackets), 12)

\* The base and basic salary default to the pay; CFC and FNE take it down to the thousand.
Payslip(e) ==
    LET pension == Share(AtMost(e.gross_pay, CnpsPack.cap), CnpsPack.pension)
        family == Share(AtMost(e.gross_pay, CnpsPack.cap), CnpsPack.family[e.sector])
        risk == Share(e.gross_pay, CnpsPack.risk[e.risk])
        irpp == Irpp(e, pension)
        cac == Share(irpp, IrppPack.cac)
        thousands == Units(1000) * (e.gross_pay \div Units(1000))
        employeeCfc == Share(thousands, CnpsPack.cfc_employee)
        employerCfc == IF e.cfc_fne_exempt THEN 0 ELSE Share(thousands, CnpsPack.cfc_employer)
        fne == IF e.cfc_fne_exempt THEN 0 ELSE Share(thousands, CnpsPack.fne)
        tdl == StepLookup(e.gross_pay, TdlTable)
        crtv == IF e.crtv_exempt THEN 0 ELSE StepLookup(e.gross_pay, CrtvTable)
    IN  [gross_pay |-> e.gross_pay, irpp |-> irpp, cac |-> cac,
         employee_cnps_pension |-> pension, employer_cnps_pension |-> pension,
         employer_cnps_family_allowance |-> family, employer_cnps_occupational_risk |-> risk,
         employee_cfc |-> employeeCfc, employer_cfc |-> employerCfc, employer_fne |-> fne,
         tdl |-> tdl, crtv |-> crtv,
         net_pay |-> e.gross_pay - irpp - cac - pension - employeeCfc - tdl - crtv,
         employer_funded_total |-> e.gross_pay + pension + family + risk + employerCfc + fne]

Journal(t) ==
    [debits |-> <<<<"SALARY_EXPENSE", t.gross_pay>>,
                 <<"EMPLOYER_CNPS_CFC_FNE_EXPENSE", t.employer_cnps_pension
                     + t.employer_cnps_family_allowance + t.employer_cnps_occupational_risk
                     + t.employer_cfc + t.employer_fne>>>>,
     credits |-> <<<<"NET_PAYROLL_PAYABLE", t.net_pay>>, <<"IRPP_PAYABLE", t.irpp>>, <<"CAC_PAYABLE", t.cac>>,
                  <<"CNPS_PENSION_PAYABLE", t.employee_cnps_pension + t.employer_cnps_pension>>,
                  <<"CNPS_FAMILY_ALLOWANCE_PAYABLE", t.employer_cnps_family_allowance>>,
                  <<"CNPS_OCCUPATIONAL_RISK_PAYABLE", t.employer_cnps_occupational_risk>>,
                  <<"CFC_PAYABLE", t.employee_cfc + t.employer_cfc>>, <<"FNE_PAYABLE", t.employer_fne>>,
                  <<"TDL_PAYABLE", t.tdl>>, <<"CRTV_PAYABLE", t.crtv>>>>]
=============================================================================
