----------------------------- MODULE PayrollMU -----------------------------
(***************************************************************************)
(* Mauritius: src/lib/payroll-engine-mu.ts, calculateMuPayroll.  PAYE is   *)
(* cumulative over the thirteen periods of the year.                       *)
(***************************************************************************)
EXTENDS PayrollArithmetic

Pack ==
    [brackets |-> <<<<0, 0, 0>>, <<500000, 0, 1000>>, <<1000000, 5000000, 2000>>,
                    <<12000000, 225000000, 3500>>>>,
     relief_periods |-> 13, low_emoluments |-> Units(38462),
     director |-> Pct(15), director_elected |-> Pct(20),
     csg_threshold |-> Units(50000),
     csg_low |-> [employee |-> Bp(150), employer |-> Pct(3)],
     csg_high |-> [employee |-> Pct(3), employer |-> Pct(6)],
     nsf |-> [employee |-> Pct(1), employer |-> Bp(250)],
     nsf_min_household |-> Units(2910), nsf_min_other |-> Units(4580),
     nsf_max |-> Units(29710), levy |-> Bp(150), prgf |-> Bp(450),
     status |-> "DRAFT_NEEDS_LEGAL_REVIEW"]

\* ytd is the year's emoluments before this period, withheld the PAYE before it.
Employees(pays, ytds, withheld, sequences) ==
    [gross_pay : pays, resident : BOOLEAN, sequence : sequences, ytd : ytds, withheld : withheld,
     reliefs : {0, Units(130000)}, category : {"PRIVATE_HOUSEHOLD", "OTHER"},
     prgf_exempt : BOOLEAN, director : {"NONE", "DEFAULT", "ELECTED"}]

\* An employee as the engine is given one; Valid says which it accepts.
Employee ==
    [gross_pay : Int, resident : BOOLEAN, sequence : Int, ytd : Int, withheld : Int, reliefs : Int,
     category : STRING, prgf_exempt : BOOLEAN, director : {"NONE", "DEFAULT", "ELECTED"}]

Valid(e) ==
    /\ NonNegative(e, {"gross_pay", "ytd", "withheld"})
    /\ e.sequence \in 1..Pack.relief_periods
    /\ (e.director = "NONE" /\ e.resident) => e.reliefs >= 0

CumulativeTax(e) ==
    LET relief == IF e.resident THEN HalfUp(e.reliefs * e.sequence, Pack.relief_periods) ELSE 0
    IN  BracketLookup(AtLeast(0, e.ytd + e.gross_pay - relief), Pack.brackets)

Paye(e) ==
    CASE e.director = "DEFAULT" -> Share(e.gross_pay, Pack.director)
      [] e.director = "ELECTED" -> Share(e.gross_pay, Pack.director_elected)
      [] e.director = "NONE" /\ e.gross_pay < Pack.low_emoluments -> 0
      [] OTHER -> AtLeast(0, CumulativeTax(e) - e.withheld)

NsfMinimum(e) ==
    IF e.category = "PRIVATE_HOUSEHOLD" THEN Pack.nsf_min_household ELSE Pack.nsf_min_other

Payslip(e) ==
    LET csg == IF e.gross_pay <= Pack.csg_threshold THEN Pack.csg_low ELSE Pack.csg_high
        nsfBase == AtMost(AtLeast(e.gross_pay, NsfMinimum(e)), Pack.nsf_max)
        employerCsg == Share(e.gross_pay, csg.employer)
        employeeCsg == Share(e.gross_pay, csg.employee)
        employerNsf == Share(nsfBase, Pack.nsf.employer)
        employeeNsf == Share(nsfBase, Pack.nsf.employee)
        levy == Share(e.gross_pay, Pack.levy)
        prgf == IF e.prgf_exempt THEN 0 ELSE Share(e.gross_pay, Pack.prgf)
    IN  [gross_pay |-> e.gross_pay, paye |-> Paye(e),
         employee_csg |-> employeeCsg, employer_csg |-> employerCsg,
         employee_nsf |-> employeeNsf, employer_nsf |-> employerNsf,
         employer_training_levy |-> levy, employer_prgf |-> prgf,
         net_pay |-> e.gross_pay - Paye(e) - employeeCsg - employeeNsf,
         employer_funded_total |-> e.gross_pay + employerCsg + employerNsf + levy + prgf,
         ytd_after |-> e.ytd + e.gross_pay, withheld_after |-> e.withheld + Paye(e)]

Journal(t) ==
    [debits |-> <<<<"SALARY_EXPENSE", t.gross_pay>>,
                 <<"EMPLOYER_CSG_NSF_LEVY_PRGF_EXPENSE", t.employer_csg + t.employer_nsf
                                                        + t.employer_training_levy + t.employer_prgf>>>>,
     credits |-> <<<<"NET_PAYROLL_PAYABLE", t.net_pay>>, <<"PAYE_PAYABLE", t.paye>>,
                  <<"CSG_PAYABLE", t.employee_csg + t.employer_csg>>,
                  <<"NSF_PAYABLE", t.employee_nsf + t.employer_nsf>>,
                  <<"TRAINING_LEVY_PAYABLE", t.employer_training_levy>>,
                  <<"PRGF_PAYABLE", t.employer_prgf>>>>]
=============================================================================
