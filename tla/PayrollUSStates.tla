-------------------------- MODULE PayrollUSStates --------------------------
(***************************************************************************)
(* United States: the thirty states and the District of Columbia that      *)
(* src/lib/payroll-engine-us.ts added in batches (v11 to v17).  All but    *)
(* Kentucky, Ohio and Iowa tax the year's wages less a deduction and       *)
(* divide by the periods of the year.  allowances is the state's count of  *)
(* allowances, exemptions or dependents, status its filing status.         *)
(***************************************************************************)
EXTENDS PayrollUSPack

Annual(e) == Periods[e.frequency] * e.gross_pay

\* The number of steps of a staircase reached: at from, from + width, at most last of them.
Staircase(a, from, width, last) ==
    IF a < Units(from) THEN 0 ELSE AtMost(last, 1 + (a - Units(from)) \div Units(width))

\* A table by filing status, or one for all of them.
TableFor(table, e) == IF e.status \in DOMAIN table THEN table[e.status] ELSE table.ALL

\* money(bracketLookup(wages - deduction) / periods)
TableTax(e, table, deduction) ==
    PerPeriod(BracketLookup(AtLeast(0, Annual(e) - deduction), TableFor(table, e)), Periods[e.frequency])

\* money((wages - deduction) * rate / periods), rounded once
FlatTax(e, rate, deduction) ==
    Share(AtLeast(0, Annual(e) - deduction), <<rate, 10000 * Periods[e.frequency]>>)

(***************************************************************************)
(* Batch v11.                                                              *)
(***************************************************************************)
GaKyMsUt ==
    [ga |-> [rate |-> 499, dependent |-> Units(5000),
             standard |-> [SINGLE_OR_HOH |-> Units(15000), MFS_OR_MFJ_BOTH_WORKING |-> Units(15000),
                           MFJ_ONE_WORKING |-> Units(30000)]],
     ky |-> [rate |-> Bp(350), standard |-> Units(3360)],
     ms |-> [brackets |-> [ALL |-> <<<<0, 0, 0>>, <<10000, 0, 400>>>>], dependent |-> Units(1500),
             base |-> [SINGLE |-> Units(8300), HEAD_OF_HOUSEHOLD |-> Units(12900), MARRIED |-> Units(16600)]],
     ut |-> [rate |-> Bp(445), phaseout |-> Bp(130), base |-> [SINGLE |-> Units(485), MARRIED |-> Units(970)],
             threshold |-> [SINGLE |-> Units(9348), MARRIED |-> Units(18696)]]]

MnMtNd ==
    [mn |-> [allowance |-> Units(5300),
             brackets |-> [SINGLE |-> <<<<0, 0, 0>>, <<4700, 0, 535>>, <<38010, 178209, 680>>,
                                        <<114130, 695825, 785>>, <<207850, 1431527, 985>>>>,
                           MARRIED |-> <<<<0, 0, 0>>, <<14700, 0, 535>>, <<63400, 260545, 680>>,
                                         <<208180, 1245049, 785>>, <<352630, 2378982, 985>>>>]],
     mt |-> [brackets |-> [SINGLE_OR_MFS_OR_BOTH_WORKING |->
         <<<<0, 0, 0>>, <<16100, 0, 470>>, <<63600, 223300, 565>>>>,
                           MARRIED_FILING_JOINTLY |->
                               <<<<0, 0, 0>>, <<32200, 0, 470>>, <<127200, 446500, 565>>>>,
                           HEAD_OF_HOUSEHOLD |-> <<<<0, 0, 0>>, <<24150, 0, 470>>,
                                                   <<95400, 334900, 565>>>>]],
     nd |-> [exemption |-> Units(5050),
             brackets |-> [SINGLE_OR_MFS |-> <<<<0, 0, 0>>, <<57625, 0, 195>>, <<258450, 391609, 250>>>>,
                           MARRIED_FILING_JOINTLY |->
                               <<<<0, 0, 0>>, <<57500, 0, 195>>, <<168525, 216499, 250>>>>,
                           HEAD_OF_HOUSEHOLD |-> <<<<0, 0, 0>>, <<78475, 0, 195>>,
                                                   <<289675, 411840, 250>>>>]]]

OkRiVa ==
    [ok |-> [exemption |-> Units(1000),
             brackets |-> [SINGLE_OR_HOH |-> <<<<0, 0, 0>>, <<10100, 0, 250>>, <<11250, 2875, 350>>,
                                               <<13550, 10925, 450>>>>,
                           MARRIED |-> <<<<0, 0, 0>>, <<20200, 0, 250>>, <<22500, 5750, 350>>,
                                         <<27100, 21850, 450>>>>]],
     ri |-> [exemption |-> Units(1000), ceiling |-> Units(290800), brackets |-> [ALL |->
         <<<<0, 0, 375>>, <<82050, 307688, 475>>, <<186450, 803588, 599>>>>]],
     va |-> [standard |-> Units(8750), exemption |-> Units(930), brackets |-> [ALL |->
         <<<<0, 0, 200>>, <<3000, 6000, 300>>, <<5000, 12000, 500>>, <<17000, 72000, 575>>>>]]]

\* A share of the wages, less a credit that shrinks above a threshold.
UtahTax(e) ==
    LET ut == GaKyMsUt.ut
        excess == AtLeast(0, Annual(e) - ut.threshold[e.status])
        credit == AtLeast(0, ut.base[e.status] - Share(excess, ut.phaseout))
    IN  PerPeriod(AtLeast(0, Share(Annual(e), ut.rate) - credit), Periods[e.frequency])

BatchV11(e) ==
    LET g == GaKyMsUt
        m == MnMtNd
        o == OkRiVa
    IN  CASE e.state = "GA" -> FlatTax(e, g.ga.rate, g.ga.standard[e.status] + e.allowances * g.ga.dependent)
          [] e.state = "KY" -> Share(AtLeast(0, e.gross_pay - PerPeriod(g.ky.standard, Periods[e.frequency])), g.ky.rate)
          [] e.state = "MS" -> TableTax(e, g.ms.brackets, g.ms.base[e.status] + e.allowances * g.ms.dependent)
          [] e.state = "UT" -> UtahTax(e)
          [] e.state = "MN" -> TableTax(e, m.mn.brackets, e.allowances * m.mn.allowance)
          [] e.state = "MT" -> TableTax(e, m.mt.brackets, 0)
          [] e.state = "ND" -> TableTax(e, m.nd.brackets, e.allowances * m.nd.exemption)
          [] e.state = "OK" -> TableTax(e, o.ok.brackets, e.allowances * o.ok.exemption)
          [] e.state = "RI" -> TableTax(e, o.ri.brackets, IF Annual(e) <= o.ri.ceiling THEN o.ri.exemption ELSE 0)
          [] e.state = "VA" -> TableTax(e, o.va.brackets, o.va.standard + e.allowances * o.va.exemption)

(***************************************************************************)
(* Batch v12.                                                              *)
(***************************************************************************)
MaMoNeSc ==
    [ma |-> [low_income |-> Units(8000), brackets |-> [ALL |->
        <<<<0, 0, 500>>, <<1107750, 5538750, 900>>>>]],
     mo |-> [standard |-> [SINGLE_OR_MFS_OR_MARRIED_SPOUSE_WORKS |-> Units(16100),
                           MARRIED_SPOUSE_NOT_WORK |-> Units(32200), HEAD_OF_HOUSEHOLD |-> Units(24150)],
             brackets |-> [ALL |-> <<<<0, 0, 0>>, <<1348, 0, 200>>, <<2696, 2700, 250>>,
                                     <<4044, 6100, 300>>, <<5392, 10100, 350>>, <<6740, 14800, 400>>,
                                     <<8088, 20200, 450>>, <<9436, 26300, 470>>>>]],
     ne |-> [allowance |-> Units(2440),
             brackets |-> [SINGLE_OR_HOH |-> <<<<0, 0, 0>>, <<3430, 0, 226>>, <<6710, 7413, 322>>,
                                               <<21810, 56035, 421>>, <<31610, 97293, 435>>,
                                               <<40130, 134355, 448>>, <<75370, 292230, 460>>>>,
                           MARRIED |-> <<<<0, 0, 0>>, <<8190, 0, 226>>, <<13010, 10893, 322>>,
                                         <<32400, 73329, 421>>, <<50400, 149109, 435>>,
                                         <<62530, 201875, 448>>, <<82920, 293222, 460>>>>]],
     sc |-> [standard |-> Pct(10), cap |-> Units(7500), allowance |-> Units(5000), brackets |-> [ALL |->
         <<<<0, 0, 0>>, <<3640, 0, 300>>, <<18230, 43770, 600>>>>]]]

VtWvKsId ==
    [vt |-> [allowance |-> Units(5100),
             brackets |-> [SINGLE_OR_HOH |-> <<<<0, 0, 0>>, <<3700, 0, 335>>, <<51600, 160465, 660>>,
                                               <<119700, 609925, 760>>, <<245700, 1567525, 875>>>>,
                           MARRIED |-> <<<<0, 0, 0>>, <<11138, 0, 335>>, <<91088, 267833, 660>>,
                                         <<204488, 1016273, 760>>, <<305788, 1786153, 875>>>>]],
     wv |-> [exemption |-> Units(2000),
             brackets |-> [ONE_EARNER_ONE_JOB |-> <<<<0, 0, 211>>, <<10000, 21100, 281>>,
                                                    <<25000, 63250, 316>>, <<40000, 110650, 422>>,
                                                    <<60000, 195050, 458>>>>,
                           TWO_EARNER_OR_MULTIPLE_JOBS |->
                               <<<<0, 0, 211>>, <<7500, 15825, 281>>, <<18750, 47438, 316>>,
                                 <<30000, 82988, 422>>, <<45000, 146288, 458>>>>]],
     ks |-> [exemption |-> Units(2320), one |-> Units(9160), married_two |-> Units(18320),
             brackets |-> [SINGLE_OR_HOH |-> <<<<0, 0, 0>>, <<3605, 0, 520>>, <<26605, 119600, 558>>>>,
                           MARRIED |-> <<<<0, 0, 0>>, <<8240, 0, 520>>, <<54240, 239200, 558>>>>]],
     id |-> [rate |-> 530, exemption |-> Units(3868), threshold |-> [SINGLE |-> Units(15000), MARRIED |-> Units(30000)]]]

NmHi ==
    [nm |-> [SINGLE |-> <<<<0, 0, 0>>, <<8050, 0, 150>>, <<13550, 8250, 320>>, <<20550, 30650, 320>>,
                          <<24550, 43450, 430>>, <<33550, 82150, 430>>, <<41550, 116550, 470>>,
                          <<58550, 196450, 470>>, <<74550, 271650, 490>>, <<218050, 974800, 590>>>>,
             MARRIED |-> <<<<0, 0, 0>>, <<16100, 0, 150>>, <<24100, 12000, 320>>,
                           <<32100, 37600, 320>>, <<41100, 66400, 430>>, <<57100, 135200, 430>>,
                           <<66100, 173900, 470>>, <<102100, 343100, 470>>, <<116100, 408900, 490>>,
                           <<331100, 1462400, 590>>>>,
             HEAD_OF_HOUSEHOLD |-> <<<<0, 0, 0>>, <<12075, 0, 150>>, <<20075, 12000, 320>>,
                                     <<28075, 37600, 320>>, <<37075, 66400, 430>>,
                                     <<53075, 135200, 430>>, <<62075, 173900, 470>>,
                                     <<98075, 343100, 470>>, <<112075, 408900, 490>>,
                                     <<327075, 1462400, 590>>>>],
     hi |-> [SINGLE_OR_HOH |-> <<<<0, 0, 140>>, <<9600, 13400, 320>>, <<14400, 28800, 550>>,
                                 <<19200, 55200, 640>>, <<24000, 85900, 680>>, <<36000, 167500, 720>>,
                                 <<48000, 253900, 760>>, <<125000, 839100, 790>>>>,
             MARRIED |-> <<<<0, 0, 140>>, <<19200, 26900, 320>>, <<28800, 57600, 550>>,
                           <<38400, 110400, 640>>, <<48000, 171800, 680>>, <<72000, 335000, 720>>,
                           <<96000, 507800, 760>>, <<250000, 1678200, 790>>>>],
     hi_exemption |-> Units(1144), hi_lump_sum |-> Units(4350)]

\* Rows are <<from, rate, amount subtracted>>; a zone between two of them is refused.
Arkansas ==
    [standard |-> Units(2470), credit |-> Units(29), zone |-> [low |-> Units(94701), high |-> Units(97601)],
     midpoints_below |-> Units(100001),
     brackets |-> <<<<0, 0, 0>>, <<5600, 200, 11198>>, <<11200, 300, 22397>>, <<16000, 340, 28797>>,
                    <<26400, 370, 36716>>>>, top |-> <<97601, 370, 7990>>]

MassachusettsTax(e) ==
    LET ma == MaMoNeSc.ma
        deduction == CASE e.allowances = 0 -> 0
                       [] e.allowances = 1 -> Units(4400)
                       [] OTHER -> Units(1000) * e.allowances + Units(3400)
    IN  IF e.allowances >= 1 /\ Annual(e) < ma.low_income THEN 0 ELSE TableTax(e, ma.brackets, deduction)

KansasDeduction(e) ==
    LET ks == VtWvKsId.ks
        free == IF e.status = "MARRIED" THEN 2 ELSE 1
    IN  CASE e.allowances = 0 -> 0
          [] e.allowances >= 1 /\ e.allowances < free -> ks.one
          [] e.allowances >= free ->
               (IF e.status = "MARRIED" THEN ks.married_two ELSE ks.one) + (e.allowances - free) * ks.exemption

ArkansasWages(e) == AtLeast(0, Annual(e) - Arkansas.standard)
ArkansasSmoothing(e) ==
    ArkansasWages(e) >= Arkansas.zone.low /\ ArkansasWages(e) < Arkansas.zone.high

\* Below 100,001 the wages count as the middle of their hundred.
ArkansasTax(e) ==
    LET raw == ArkansasWages(e)
        taxable == IF raw < Arkansas.midpoints_below THEN Units(100) * (raw \div Units(100)) + Units(50) ELSE raw
        row == IF taxable >= Arkansas.zone.high THEN Arkansas.top ELSE Row(taxable, Arkansas.brackets)
        tax == AtLeast(0, Share(taxable, Bp(row[2])) - row[3])
    IN  PerPeriod(AtLeast(0, tax - e.allowances * Arkansas.credit), Periods[e.frequency])

BatchV12(e) ==
    LET m == MaMoNeSc
        v == VtWvKsId
    IN  CASE e.state = "MA" -> MassachusettsTax(e)
          [] e.state = "MO" -> TableTax(e, m.mo.brackets, m.mo.standard[e.status])
          [] e.state = "NE" -> TableTax(e, m.ne.brackets, e.allowances * m.ne.allowance)
          [] e.state = "SC" -> TableTax(e, m.sc.brackets, AtMost(Share(Annual(e), m.sc.standard), m.sc.cap)
                                                          + e.allowances * m.sc.allowance)
          [] e.state = "VT" -> TableTax(e, v.vt.brackets, e.allowances * v.vt.allowance)
          [] e.state = "WV" -> TableTax(e, v.wv.brackets, e.allowances * v.wv.exemption)
          [] e.state = "KS" -> TableTax(e, v.ks.brackets, KansasDeduction(e))
          [] e.state = "ID" -> FlatTax(e, v.id.rate, e.allowances * v.id.exemption + v.id.threshold[e.status])
          [] e.state = "NM" -> TableTax(e, NmHi.nm, 0)
          [] e.state = "AR" -> ArkansasTax(e)
          [] e.state = "HI" -> TableTax(e, NmHi.hi, e.allowances * NmHi.hi_exemption + NmHi.hi_lump_sum)

(***************************************************************************)
(* Batch v13.                                                              *)
(***************************************************************************)
\* Ohio's limits have cents: the amounts here are cents.
Ohio ==
    [exemption |-> [WEEKLY |-> 1250, MONTHLY |-> 5417],
     brackets |-> [WEEKLY |-> [mid |-> 50096, mid_base |-> 802, top |-> 192308, top_base |-> 5054],
                   MONTHLY |-> [mid |-> 217083, mid_base |-> 3473, top |-> 833333, top_base |-> 21899]],
     rates |-> <<160, 299, 340>>]

LaIa ==
    [la |-> [rate |-> 309, standard |-> [SINGLE_OR_MFS |-> Units(12875), MARRIED_OR_HOH |-> Units(25750)]],
     ia_rate |-> Bp(380),
     ia |-> [WEEKLY |-> [OTHER_OR_MFJ_SPOUSE_WORKS |-> Units(250), HEAD_OF_HOUSEHOLD |-> Units(375),
                         MFJ_SPOUSE_NO_EARNED_INCOME |-> Units(500)],
             MONTHLY |-> [OTHER_OR_MFJ_SPOUSE_WORKS |-> 108333, HEAD_OF_HOUSEHOLD |-> Units(1625),
                          MFJ_SPOUSE_NO_EARNED_INCOME |-> 216667]]]

Alabama ==
    [threshold |-> [SINGLE |-> 35500, MARRIED_FILING_JOINTLY |-> 35500, MARRIED_FILING_SEPARATELY |-> 17750,
                    HEAD_OF_FAMILY |-> 35500],
     floor |-> [SINGLE |-> 2500, MARRIED_FILING_JOINTLY |-> 5000, MARRIED_FILING_SEPARATELY |-> 2500,
                HEAD_OF_FAMILY |-> 2500],
     personal |-> [SINGLE |-> 1500, MARRIED_FILING_JOINTLY |-> 3000, MARRIED_FILING_SEPARATELY |-> 1500,
                   HEAD_OF_FAMILY |-> 3000],
     dependents |-> <<<<0, Units(1000)>>, <<50000, Units(500)>>, <<100000, Units(300)>>>>,
     brackets |-> [ALL |-> <<<<0, 0, 200>>, <<500, 1000, 400>>, <<3000, 11000, 500>>>>, MARRIED_FILING_JOINTLY |->
         <<<<0, 0, 200>>, <<1000, 2000, 400>>, <<6000, 22000, 500>>>>]]

OhioTax(e) ==
    LET t == Ohio.brackets[e.frequency]
        x == AtLeast(0, e.gross_pay - e.allowances * Ohio.exemption[e.frequency])
    IN  CASE x < t.mid -> Share(x, Bp(Ohio.rates[1]))
          [] x >= t.mid /\ x < t.top -> t.mid_base + Share(x - t.mid, Bp(Ohio.rates[2]))
          [] x >= t.top -> t.top_base + Share(x - t.top, Bp(Ohio.rates[3]))

\* ia_allowance_amount is a yearly amount of tax: 40 for each allowance here.
IowaTax(e) ==
    AtLeast(0, Share(AtLeast(0, e.gross_pay - LaIa.ia[e.frequency][e.status]), LaIa.ia_rate)
               - PerPeriod(e.allowances * Units(40), Periods[e.frequency]))

\* Below the floor threshold Alabama's deduction slides, and the engine refuses.
AlabamaSliding(e) == Annual(e) < Units(Alabama.threshold[e.status])
AlabamaTax(e) ==
    TableTax(e, Alabama.brackets,
             Units(Alabama.floor[e.status] + Alabama.personal[e.status])
             + e.allowances * StepLookup(Annual(e), Alabama.dependents))

BatchV13(e) ==
    CASE e.state = "OH" -> OhioTax(e)
      [] e.state = "LA" -> FlatTax(e, LaIa.la.rate, LaIa.la.standard[e.status])
      [] e.state = "IA" -> IowaTax(e)
      [] e.state = "AL" -> AlabamaTax(e)

(***************************************************************************)
(* Batches v14 to v17.                                                     *)
(***************************************************************************)
\* Of the 22 flat counties: the lowest rate and the highest.
Maryland ==
    [standard |-> Units(3400), allowance |-> Units(3200),
     brackets |-> [SINGLE |-> <<<<0, 0, 0>>, <<100000, 475000, 500>>, <<125000, 600000, 525>>,
                                <<150000, 731250, 550>>, <<250000, 1281250, 575>>,
                                <<500000, 2718750, 625>>, <<1000000, 5843750, 650>>>>,
                   MARRIED |-> <<<<0, 0, 0>>, <<150000, 712500, 500>>, <<175000, 837500, 525>>,
                                 <<225000, 1100000, 550>>, <<300000, 1512500, 575>>,
                                 <<600000, 3237500, 625>>, <<1200000, 6987500, 650>>>>],
     county |-> [Worcester |-> 225, Dorchester |-> 330],
     graduated |-> [Anne_Arundel |-> [SINGLE |-> <<<<0, 0, 270>>, <<50000, 135000, 294>>,
                                                   <<400000, 1164000, 320>>>>,
                                      MARRIED |-> <<<<0, 0, 270>>, <<75000, 202500, 294>>,
                                                    <<480000, 1393200, 320>>>>],
                    Frederick |-> [SINGLE |-> <<<<0, 0, 225>>, <<25000, 56250, 275>>,
                                                <<50000, 125000, 296>>, <<150000, 421000, 320>>>>,
                                   MARRIED |-> <<<<0, 0, 225>>, <<25000, 56250, 275>>,
                                                 <<100000, 262500, 296>>, <<250000, 706500, 320>>>>]]]

ConnecticutBrackets == [ALL |-> <<<<0, 0, 200>>, <<10000, 20000, 450>>, <<50000, 200000, 550>>,
                                  <<100000, 475000, 600>>, <<200000, 1075000, 650>>,
                                  <<250000, 1400000, 690>>, <<500000, 3125000, 699>>>>]

DeDc ==
    [standard |-> [SINGLE_OR_MFS |-> Units(3250), MARRIED_FILING_JOINTLY |-> Units(6500)], credit |-> Units(110),
     de |-> [ALL |-> <<<<0, 0, 0>>, <<2000, 0, 220>>, <<5000, 6600, 390>>, <<10000, 26100, 480>>,
                       <<20000, 74100, 520>>, <<25000, 100100, 555>>, <<60000, 294350, 660>>>>],
     dc_dependent |-> Units(4300),
     dc |-> [ALL |-> <<<<0, 0, 400>>, <<10000, 40000, 600>>, <<40000, 220000, 650>>,
                       <<60000, 350000, 850>>, <<250000, 1965000, 925>>, <<500000, 4277500, 975>>,
                       <<1000000, 9152500, 1075>>>>]]

Wisconsin ==
    [exemption |-> Units(400), brackets |-> [ALL |->
        <<<<0, 0, 354>>, <<12760, 45170, 465>>, <<25520, 104504, 530>>, <<280950, 1458283, 765>>>>],
     deduction |-> [SINGLE |-> [from |-> 17780, to |-> 73630, amount |-> Units(6702), rate |-> <<-12, 100>>],
                    MARRIED |-> [from |-> 25727, to |-> 73032, amount |-> Units(9461), rate |-> <<-20, 100>>]]]

MarylandDeduction(e) == Maryland.standard + e.allowances * Maryland.allowance
MarylandCounty(e) ==
    IF e.locality \in DOMAIN Maryland.county
    THEN FlatTax(e, Maryland.county[e.locality], MarylandDeduction(e))
    ELSE TableTax(e, Maryland.graduated[e.locality], MarylandDeduction(e))

\* What phases out the lower rates, and then recaptures them, step by step.
ConnecticutTax(e) ==
    LET a == Annual(e)
        phaseOut == Units(25) * Staircase(a, 50250, 2500, 10)
        recapture == Units(25) * Staircase(a, 105000, 5000, 10) + Units(90) * Staircase(a, 200000, 5000, 30)
                     + Units(50) * Staircase(a, 500000, 5000, 9)
    IN  PerPeriod(BracketLookup(a, ConnecticutBrackets.ALL) + phaseOut + recapture, Periods[e.frequency])

DelawareTax(e) ==
    LET taxable == AtLeast(0, Annual(e) - DeDc.standard[e.status])
    IN  PerPeriod(AtLeast(0, BracketLookup(taxable, DeDc.de.ALL) - e.allowances * DeDc.credit), Periods[e.frequency])

WisconsinDeduction(e) ==
    LET d == Wisconsin.deduction[e.status]
    IN  CASE Annual(e) < Units(d.from) -> d.amount
          [] Annual(e) >= Units(d.to) -> 0
          [] OTHER -> AtLeast(0, d.amount + Share(Annual(e) - Units(d.from), d.rate))

BatchV14(e) ==
    CASE e.state = "MD" -> TableTax(e, Maryland.brackets, MarylandDeduction(e))
      [] e.state = "CT" -> ConnecticutTax(e)
      [] e.state = "DE" -> DelawareTax(e)
      [] e.state = "DC" -> TableTax(e, DeDc.dc, e.allowances * DeDc.dc_dependent)
      [] e.state = "WI" -> TableTax(e, Wisconsin.brackets, WisconsinDeduction(e) + e.allowances * Wisconsin.exemption)
=============================================================================
