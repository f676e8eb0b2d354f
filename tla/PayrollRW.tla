----------------------------- MODULE PayrollRW -----------------------------
(***************************************************************************)
(* Rwanda: src/lib/payroll-engine-rw.ts, calculateRwPayroll.               *)
(***************************************************************************)
EXTENDS PayrollArithmetic

Pack ==
    [brackets |-> <<<<0, 0, 0>>, <<60000, 0, 1000>>, <<100000, 400000, 2000>>, <<200000, 2400000, 3000>>>>,
     second_employer |-> Pct(30), casual_threshold |-> Units(60000), casual_above |-> Pct(15),
     pension |-> Pct(6), occupational |-> Pct(2), maternity |-> Bp(30), rama |-> Bp(750),
     cbhi |-> Bp(50), vehicle |-> 10, accommodation |-> 20, status |-> "DRAFT_NEEDS_LEGAL_REVIEW"]

Employees(pays) ==
    [gross_pay : pays, employee_type : {"REGULAR", "CASUAL"}, first_employer : BOOLEAN,
     oh_base : {Units(100000)}, rama_member : BOOLEAN, rama_salary : {Units(80000), -1},
     vehicle : BOOLEAN, accommodation : BOOLEAN]

\* An employee as the engine is given one; Valid says which it accepts.
Employee ==
    [gross_pay : Int, employee_type : STRING, first_employer : BOOLEAN, oh_base : Int,
     rama_member : BOOLEAN, rama_salary : Int, vehicle : BOOLEAN, accommodation : BOOLEAN]

Valid(e) ==
    /\ NonNegative(e, {"gross_pay", "oh_base"})
    /\ e.employee_type \in {"REGULAR", "CASUAL"}
    /\ e.rama_member => e.rama_salary >= 0

Taxable(e) ==
    e.gross_pay + Share(e.gross_pay, Pct((IF e.vehicle THEN Pack.vehicle ELSE 0)
                                         + (IF e.accommodation THEN Pack.accommodation ELSE 0)))

\* The revenue authority's rule: PAYE is rounded up to the whole franc.
WholeFranc(x) == Units((x + 99) \div 100)

Paye(e) ==
    WholeFranc(
        CASE e.employee_type = "CASUAL" ->
               Share(AtLeast(0, Taxable(e) - Pack.casual_threshold), Pack.casual_above)
          [] e.employee_type = "REGULAR" /\ e.first_employer -> BracketLookup(Taxable(e), Pack.brackets)
          [] OTHER -> Share(Taxable(e), Pack.second_employer))

Payslip(e) ==
    LET pension == Share(e.gross_pay, Pack.pension)
        maternity == Share(e.gross_pay, Pack.maternity)
        oh == Share(e.oh_base, Pack.occupational)
        rama == IF e.rama_member THEN Share(e.rama_salary, Pack.rama) ELSE 0
        net == e.gross_pay - Paye(e) - pension - maternity - rama
        cbhi == Share(AtLeast(0, net), Pack.cbhi)
    IN  [gross_pay |-> e.gross_pay, paye |-> Paye(e),
         employee_pension |-> pension, employer_pension |-> pension, employer_oh |-> oh,
         employee_maternity |-> maternity, employer_maternity |-> maternity,
         employee_rama |-> rama, employer_rama |-> rama, employee_cbhi |-> cbhi,
         net_pay |-> net - cbhi,
         employer_funded_total |-> e.gross_pay + pension + oh + maternity + rama]

Journal(t) ==
    [debits |-> <<<<"SALARY_EXPENSE", t.gross_pay>>,
                 <<"EMPLOYER_RSSB_EXPENSE", t.employer_pension + t.employer_oh
                                           + t.employer_maternity + t.employer_rama>>>>,
     credits |-> <<<<"NET_PAYROLL_PAYABLE", t.net_pay>>, <<"PAYE_PAYABLE", t.paye>>,
                  <<"RSSB_PENSION_PAYABLE", t.employee_pension + t.employer_pension>>,
                  <<"RSSB_OH_PAYABLE", t.employer_oh>>,
                  <<"RSSB_MATERNITY_PAYABLE", t.employee_maternity + t.employer_maternity>>,
                  <<"RAMA_PAYABLE", t.employee_rama + t.employer_rama>>,
                  <<"CBHI_PAYABLE", t.employee_cbhi>>>>]
=============================================================================
