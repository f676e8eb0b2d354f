--------------------------- MODULE PayrollUSPack ---------------------------
(***************************************************************************)
(* United States: the figures of PAYROLL_RULE_PACK_US in                   *)
(* src/lib/payroll-engine-us.ts for federal tax and for the states with    *)
(* rules of their own.  Of the four pay frequencies the weekly and the     *)
(* monthly ones stand here: the other two differ in their numbers only.    *)
(***************************************************************************)
EXTENDS PayrollArithmetic

Periods == [WEEKLY |-> 52, MONTHLY |-> 12]
Filings == {"MFJ", "SINGLE_MFS", "HOH"}

\* The wages each tax of the year is limited to.
WageBases ==
    [ss |-> Units(184500), futa |-> Units(7000), nj_ui_wf |-> Units(44800),
     nj_tdi_fli |-> Units(171100), co_famli |-> Units(184500), ak_ui |-> Units(54200),
     wa_pfml |-> Units(184500), or_paid_leave |-> Units(184500)]

Fica == [social_security |-> Bp(620), medicare |-> Bp(145), additional |-> Bp(90), threshold |-> Units(200000)]
Futa == [net |-> Bp(60), net_by_state |-> [CA |-> Bp(180)]]
Step2Deduction == [MFJ |-> Units(12900), SINGLE_MFS |-> Units(8600), HOH |-> Units(8600)]

StandardBrackets ==
    [MFJ |-> <<<<0, 0, 0>>, <<19300, 0, 1000>>, <<44100, 248000, 1200>>, <<120100, 1160000, 2200>>,
               <<230700, 3593200, 2400>>, <<422850, 8204800, 3200>>, <<531750, 11689600, 3500>>,
               <<788000, 20658350, 3700>>>>,
     SINGLE_MFS |-> <<<<0, 0, 0>>, <<7500, 0, 1000>>, <<19900, 124000, 1200>>, <<57900, 580000, 2200>>,
                      <<113200, 1796600, 2400>>, <<209275, 4102400, 3200>>, <<263725, 5844800, 3500>>,
                      <<648100, 19297925, 3700>>>>,
     HOH |-> <<<<0, 0, 0>>, <<15550, 0, 1000>>, <<33250, 177000, 1200>>, <<83000, 774000, 2200>>,
               <<121250, 1615500, 2400>>, <<217300, 3920700, 3200>>, <<271750, 5663100, 3500>>,
               <<656150, 19117100, 3700>>>>]

Step2Brackets ==
    [MFJ |-> <<<<0, 0, 0>>, <<16100, 0, 1000>>, <<28500, 124000, 1200>>, <<66500, 580000, 2200>>,
               <<121800, 1796600, 2400>>, <<217875, 4102400, 3200>>, <<272325, 5844800, 3500>>,
               <<400450, 10329175, 3700>>>>,
     SINGLE_MFS |-> <<<<0, 0, 0>>, <<8050, 0, 1000>>, <<14250, 62000, 1200>>, <<33250, 290000, 2200>>,
                      <<60900, 898300, 2400>>, <<108938, 2051200, 3200>>, <<136163, 2922400, 3500>>,
                      <<328350, 9648963, 3700>>>>,
     HOH |-> <<<<0, 0, 0>>, <<12075, 0, 1000>>, <<20925, 88500, 1200>>, <<45800, 387000, 2200>>,
               <<64925, 807750, 2400>>, <<112950, 1960350, 3200>>, <<140175, 2831550, 3500>>,
               <<332375, 9558550, 3700>>>>]

CaAmounts ==
    [WEEKLY |->
       [exempt |-> [SINGLE |-> 363, MARRIED_0_OR_1 |-> 363, MARRIED_2_OR_MORE |-> 727, HEAD_OF_HOUSEHOLD |-> 727],
        standard |-> [SINGLE |-> 110, MARRIED_0_OR_1 |-> 110, MARRIED_2_OR_MORE |-> 219, HEAD_OF_HOUSEHOLD |-> 219],
        estimated |-> Units(19), credit |-> 324],
     MONTHLY |->
       [exempt |-> [SINGLE |-> 1575, MARRIED_0_OR_1 |-> 1575, MARRIED_2_OR_MORE |-> 3149, HEAD_OF_HOUSEHOLD |-> 3149],
        standard |-> [SINGLE |-> 476, MARRIED_0_OR_1 |-> 476, MARRIED_2_OR_MORE |-> 951, HEAD_OF_HOUSEHOLD |-> 951],
        estimated |-> Units(83), credit |-> 1403]]

CaWeekly ==
    [SINGLE |-> <<<<0, 0, 110>>, <<213, 234, 220>>, <<505, 876, 440>>, <<797, 2161, 660>>,
                  <<1107, 4207, 880>>, <<1399, 6777, 1023>>, <<7144, 65548, 1133>>,
                  <<8573, 81739, 1243>>, <<14288, 152776, 1353>>, <<19231, 219655, 1463>>>>,
     MARRIED |-> <<<<0, 0, 110>>, <<426, 469, 220>>, <<1010, 1754, 440>>, <<1594, 4324, 660>>,
                   <<2214, 8416, 880>>, <<2798, 13555, 1023>>, <<14288, 131098, 1133>>,
                   <<17146, 163479, 1243>>, <<28575, 189396, 1353>>, <<38462, 315820, 1463>>>>,
     HEAD_OF_HOUSEHOLD |-> <<<<0, 0, 110>>, <<426, 469, 220>>, <<1010, 1754, 440>>,
                             <<1302, 3039, 660>>, <<1612, 5085, 880>>, <<1904, 7655, 1023>>,
                             <<9716, 87572, 1133>>, <<11659, 109586, 1243>>, <<19231, 203706, 1353>>,
                             <<19431, 206412, 1463>>>>]

CaMonthly ==
    [SINGLE |-> <<<<0, 0, 110>>, <<924, 1016, 220>>, <<2188, 3797, 440>>, <<3454, 9367, 660>>,
                  <<4796, 18224, 880>>, <<6060, 29347, 1023>>, <<30956, 284033, 1133>>,
                  <<37148, 354188, 1243>>, <<61912, 662005, 1353>>, <<83334, 951845, 1463>>>>,
     MARRIED |-> <<<<0, 0, 110>>, <<1848, 2033, 220>>, <<4376, 7595, 440>>, <<6908, 18736, 660>>,
                   <<9592, 36450, 880>>, <<12120, 58696, 1023>>, <<61912, 568068, 1133>>,
                   <<74296, 708379, 1243>>, <<83334, 820721, 1353>>, <<123826, 1368578, 1463>>>>,
     HEAD_OF_HOUSEHOLD |-> <<<<0, 0, 110>>, <<1848, 2033, 220>>, <<4378, 7599, 440>>,
                             <<5644, 13169, 660>>, <<6984, 22013, 880>>, <<8250, 33154, 1023>>,
                             <<42100, 379440, 1133>>, <<50520, 474839, 1243>>, <<83334, 882717, 1353>>,
                             <<84202, 894461, 1463>>>>]

NjWeekly ==
    [A |-> <<<<0, 0, 150>>, <<385, 577, 200>>, <<673, 1154, 390>>, <<769, 1528, 610>>,
             <<1442, 5635, 700>>, <<9615, 62846, 990>>, <<19231, 158038, 1180>>>>,
     B |-> <<<<0, 0, 150>>, <<385, 577, 200>>, <<962, 1731, 270>>, <<1346, 2769, 390>>,
             <<1538, 3519, 610>>, <<2885, 11731, 700>>, <<9615, 58846, 990>>, <<19231, 154038, 1180>>>>]

NjMonthly ==
    [A |-> <<<<0, 0, 150>>, <<1667, 2500, 200>>, <<2917, 5000, 390>>, <<3333, 6600, 610>>,
             <<6250, 24400, 700>>, <<41667, 272300, 990>>, <<83333, 684800, 1180>>>>,
     B |-> <<<<0, 0, 150>>, <<1667, 2500, 200>>, <<4167, 7500, 270>>, <<5833, 12000, 390>>,
             <<6667, 15300, 610>>, <<12500, 50800, 700>>, <<41667, 255000, 990>>,
             <<83333, 667500, 1180>>>>]

Nj == [ui_wf_swf |-> <<425, 100000>>, tdi |-> Bp(19), fli |-> Bp(23),
       allowance |-> [WEEKLY |-> 1920, MONTHLY |-> 8330]]

NyAmounts ==
    [deduction |-> [WEEKLY |-> [SINGLE |-> 14230, MARRIED |-> 15290],
                    MONTHLY |-> [SINGLE |-> 61670, MARRIED |-> 66250]],
     nyc |-> [WEEKLY |-> [SINGLE |-> 9615, MARRIED |-> 10575],
              MONTHLY |-> [SINGLE |-> 41670, MARRIED |-> 45830]],
     exemption |-> [WEEKLY |-> 1925, MONTHLY |-> 8330]]

NyWeekly ==
    [SINGLE |-> <<<<0, 0, 390>>, <<163, 638, 440>>, <<225, 908, 515>>, <<267, 1127, 540>>,
                  <<1551, 8058, 590>>, <<1862, 9890, 703>>, <<2070, 11358, 753>>, <<3032, 18602, 640>>,
                  <<4142, 25710, 1144>>, <<5104, 36713, 735>>>>,
     MARRIED |-> <<<<0, 0, 390>>, <<163, 638, 440>>, <<225, 908, 515>>, <<267, 1127, 540>>,
                   <<1551, 8058, 590>>, <<1862, 9890, 657>>, <<2070, 11260, 707>>,
                   <<3032, 18054, 801>>, <<4068, 26362, 640>>, <<6215, 40104, 1349>>,
                   <<7177, 53077, 735>>, <<20722, 152633, 765>>>>]

NyMonthly ==
    [SINGLE |-> <<<<0, 0, 390>>, <<708, 2767, 440>>, <<975, 3933, 515>>, <<1158, 4883, 540>>,
                  <<6721, 34917, 590>>, <<8067, 42858, 703>>, <<8971, 49217, 753>>,
                  <<13138, 80608, 640>>, <<17950, 111408, 1144>>, <<22117, 159092, 735>>>>,
     MARRIED |-> <<<<0, 0, 390>>, <<708, 2767, 440>>, <<975, 3933, 515>>, <<1158, 4883, 540>>,
                   <<6721, 34917, 590>>, <<8067, 42858, 657>>, <<8971, 48792, 707>>,
                   <<13138, 78233, 801>>, <<17629, 114233, 640>>, <<26933, 173783, 1349>>,
                   <<31100, 230000, 735>>, <<89796, 661408, 765>>>>]

\* Above these net wages the withholding tables end.
NyMethodThree ==
    [WEEKLY |-> [SINGLE |-> Units(20722), MARRIED |-> Units(41449)],
     MONTHLY |-> [SINGLE |-> Units(89796), MARRIED |-> Units(179613)]]

NycBrackets ==
    [WEEKLY |-> <<<<0, 0, 205>>, <<154, 315, 280>>, <<167, 354, 325>>, <<288, 746, 395>>,
                  <<481, 1506, 415>>, <<1154, 4300, 425>>>>,
     MONTHLY |-> <<<<0, 0, 205>>, <<667, 1367, 280>>, <<725, 1533, 325>>, <<1250, 3233, 395>>,
                   <<2083, 6525, 415>>, <<5000, 18633, 425>>>>]

\* Yonkers taxes those who only work there above a first threshold, less a step exemption.
Yonkers ==
    [resident |-> <<1675, 10000>>, nonresident |-> Bp(50),
     exemption |-> [WEEKLY |-> <<<<77, Units(58)>>, <<192, Units(38)>>, <<385, Units(19)>>, <<577, 0>>>>,
                    MONTHLY |-> <<<<333, Units(250)>>, <<833, Units(167)>>, <<1667, Units(83)>>, <<2500, 0>>>>]]

NyLeave == [pfl |-> <<432, 100000>>, pfl_cap |-> 41191, dbl |-> Bp(50), dbl_weekly_cap |-> 60]

Illinois == [rate |-> Bp(495), line1 |-> Units(2925), line2 |-> Units(1000)]

Pennsylvania ==
    [income |-> Bp(307), uc |-> Bp(7),
     philadelphia |-> [H1 |-> [PHL_RESIDENT |-> Bp(374), PHL_WORK |-> Bp(343)],
                       H2 |-> [PHL_RESIDENT |-> <<3735, 100000>>, PHL_WORK |-> <<3425, 100000>>]]]

Michigan == [rate |-> Bp(425), exemption |-> Units(5900)]

Colorado ==
    [rate |-> 440, subtraction |-> [MFJ_OR_QSS |-> Units(11000), OTHER_STATUS |-> Units(5500)],
     famli |-> Bp(44), opt_from |-> Units(500), opt_employee |-> 575, opt_employer |-> 400]

ArizonaElections == {0, 50, 100, 150, 200, 250, 300, 350}
AlaskaUi == Bp(50)
\* 1.13% of wages, of which the employee bears 71.43%; WA Cares has no ceiling.
Washington == [pfml |-> 807159, cares |-> Bp(58)]

Oregon ==
    [standard |-> [narrow |-> Units(2910), wide |-> Units(5820)], credit |-> Units(263),
     tier |-> Units(50000), stt |-> Bp(10), paid_leave |-> Bp(60),
     subtraction |-> Units(8750), subtraction_step |-> Units(1750),
     phaseout |-> [SINGLE |-> [from |-> 125000, width |-> 5000], MARRIED |-> [from |-> 250000, width |-> 10000]],
     under |-> [narrow |-> <<<<0, 26300, 475>>, <<4550, 47900, 675>>, <<11400, 94100, 875>>>>,
                wide |-> <<<<0, 26300, 475>>, <<9100, 69500, 675>>, <<22800, 162000, 875>>>>],
     over |-> [narrow |-> <<<<0, 0, 0>>, <<11400, 67800, 875>>, <<125000, 1061800, 990>>>>,
               wide |-> <<<<0, 0, 0>>, <<22800, 135700, 875>>, <<250000, 2123700, 990>>>>]]

\* Of the 92 counties: the lowest rate, the highest, one with more digits and the self-test's.
Indiana ==
    [rate |-> Bp(295), personal |-> Units(1000), dependent |-> Units(1500), adopted |-> Units(3000),
     county |-> [Porter |-> Bp(50), Randolph |-> Bp(300), Jasper |-> <<2864, 100000>>, Harrison |-> Bp(100)]]

NorthCarolina ==
    [rate |-> Bp(409), allowance |-> Units(2500),
     standard |-> [SINGLE_MARRIED_OR_SURVIVING_SPOUSE |-> Units(12750), HEAD_OF_HOUSEHOLD |-> Units(19125)]]
=============================================================================
