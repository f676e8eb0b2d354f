--------------------------- MODULE PayrollYearProofs ---------------------------
(***************************************************************************)
(* Proofs about PayrollYear, for every worker an engine accepts, every pay *)
(* and any number of periods.                                              *)
(***************************************************************************)
EXTENDS PayrollYear, FiniteSetTheorems, NaturalsInduction, WellFoundedInduction, TLAPS

-----------------------------------------------------------------------------
(* Rounding *)

\* Two amounts are at most k cents apart.
Near(x, y, k) == x - y <= k /\ y - x <= k

IsRate(rate) == rate = <<rate[1], rate[2]>> /\ rate[1] \in Int /\ rate[2] \in Int /\ rate[2] > 0

\* What a division leaves.
LEMMA DivisionLeaves ==
  ASSUME NEW m \in Int, NEW d \in Int, d > 0
  PROVE  m \div d \in Int /\ m % d \in 0..(d - 1) /\ m = d * (m \div d) + (m % d)
  OBVIOUS

\* Half a unit is the most that rounding changes.
LEMMA HalfUpRounds ==
  ASSUME NEW m \in Int, NEW d \in Int, d > 0
  PROVE  /\ HalfUp(m, d) \in Int
         /\ 2 * m - d < 2 * (d * HalfUp(m, d)) /\ 2 * (d * HalfUp(m, d)) <= 2 * m + d
<1> DEFINE q == m \div d
<1> DEFINE r == m % d
<1>1. q \in Int /\ r \in 0..(d-1) /\ m = d * q + r
  OBVIOUS
<1>2. HalfUp(m, d) = IF 2 * r >= d THEN q + 1 ELSE q
  BY <1>1 DEF HalfUp
<1> HIDE DEF q, r
<1>3. d * (q + 1) = d * q + d /\ d * q \in Int
  BY <1>1
<1>4. QED  BY <1>1, <1>2, <1>3

\* A share is rate times amount, rounded half up.
LEMMA ShareRounds ==
  ASSUME NEW x \in Int, NEW n \in Int, NEW d \in Int, d > 0
  PROVE  /\ Share(x, <<n, d>>) \in Int
         /\ 2 * (n * x) - d < 2 * (d * Share(x, <<n, d>>))
         /\ 2 * (d * Share(x, <<n, d>>)) <= 2 * (n * x) + d
<1> DEFINE q == x \div d
<1> DEFINE r == x % d
<1> DEFINE h == HalfUp(r * n, d)
<1>1. q \in Int /\ r \in Int /\ x = d * q + r
  OBVIOUS
<1>2. Share(x, <<n, d>>) = q * n + h
  BY DEF Share
<1> HIDE DEF q, r
<1>3. h \in Int /\ 2 * (r * n) - d < 2 * (d * h) /\ 2 * (d * h) <= 2 * (r * n) + d
  BY <1>1, HalfUpRounds
<1> HIDE DEF h
<1>4. n * x = n * (d * q) + n * r
  BY <1>1
<1>5. d * (q * n + h) = d * (q * n) + d * h
  BY <1>1, <1>3
<1>6. d * (q * n) = n * (d * q) /\ n * r = r * n
  BY <1>1
<1>7. n * (d * q) \in Int /\ r * n \in Int /\ d * h \in Int
  BY <1>1, <1>3
<1>8. QED  BY <1>1, <1>2, <1>3, <1>4, <1>5, <1>6, <1>7

\* Two shares and the share of both together differ by a cent at most.
LEMMA SharesAdd ==
  ASSUME NEW rate, IsRate(rate), NEW x \in Int, NEW y \in Int
  PROVE  /\ Share(x, rate) \in Int /\ Share(y, rate) \in Int /\ Share(x + y, rate) \in Int
         /\ Near(Share(x, rate) + Share(y, rate), Share(x + y, rate), 1)
<1> DEFINE n == rate[1]
<1> DEFINE d == rate[2]
<1>1. n \in Int /\ d \in Int /\ d > 0 /\ rate = <<n, d>>
  BY DEF IsRate
<1> DEFINE s == Share(x, rate)
<1> DEFINE t == Share(y, rate)
<1> DEFINE u == Share(x + y, rate)
<1> HIDE DEF n, d
<1>2. /\ s \in Int /\ 2 * (n * x) - d < 2 * (d * s) /\ 2 * (d * s) <= 2 * (n * x) + d
      /\ t \in Int /\ 2 * (n * y) - d < 2 * (d * t) /\ 2 * (d * t) <= 2 * (n * y) + d
      /\ u \in Int /\ 2 * (n * (x + y)) - d < 2 * (d * u) /\ 2 * (d * u) <= 2 * (n * (x + y)) + d
  BY <1>1, ShareRounds
<1> HIDE DEF s, t, u
<1>3. n * (x + y) = n * x + n * y /\ n * x \in Int /\ n * y \in Int
  BY <1>1
<1>4. d * (u - s - t) = d * u - d * s - d * t /\ d * u \in Int /\ d * s \in Int /\ d * t \in Int
  BY <1>1, <1>2
<1>5. 2 * (d * (u - s - t)) < 3 * d /\ 2 * (d * (u - s - t)) > -3 * d
  BY <1>1, <1>2, <1>3, <1>4
<1>6. ASSUME NEW k \in Int, 2 * (d * k) < 3 * d, 2 * (d * k) > -3 * d
      PROVE  k <= 1 /\ -1 <= k
  <2>1. ASSUME k >= 2 PROVE FALSE
    <3>1. d * k >= d * 2
      BY <1>1, <2>1
    <3>2. QED  BY <1>1, <1>6, <3>1
  <2>2. ASSUME k <= -2 PROVE FALSE
    <3>1. d * k <= d * (-2)
      BY <1>1, <2>2
    <3>2. QED  BY <1>1, <1>6, <3>1
  <2>3. QED  BY <2>1, <2>2
<1>7. u - s - t <= 1 /\ -1 <= u - s - t
  BY <1>2, <1>5, <1>6
<1>8. QED  BY <1>2, <1>7 DEF Near, s, t, u

\* A share of nothing is nothing.
LEMMA ShareOfNothing ==
  ASSUME NEW rate, IsRate(rate)
  PROVE  Share(0, rate) = 0
<1>1. 0 \div rate[2] = 0 /\ 0 % rate[2] = 0 /\ rate[1] \in Int /\ rate[2] > 0 /\ rate[2] \in Int
  BY DEF IsRate
<1>2. HalfUp(0, rate[2]) = 0
  BY <1>1 DEF HalfUp
<1>3. QED  BY <1>1, <1>2 DEF Share

\* A larger amount has no smaller share.
LEMMA SharesGrow ==
  ASSUME NEW rate, IsRate(rate), rate[1] >= 0, NEW x \in Int, NEW y \in Int, x <= y
  PROVE  Share(x, rate) \in Int /\ Share(y, rate) \in Int /\ Share(x, rate) <= Share(y, rate)
<1> DEFINE n == rate[1]
<1> DEFINE d == rate[2]
<1>1. n \in Int /\ n >= 0 /\ d \in Int /\ d > 0 /\ rate = <<n, d>>
  BY DEF IsRate
<1> DEFINE s == Share(x, rate)
<1> DEFINE t == Share(y, rate)
<1> HIDE DEF n, d
<1>2. /\ s \in Int /\ 2 * (n * x) - d < 2 * (d * s) /\ 2 * (d * s) <= 2 * (n * x) + d
      /\ t \in Int /\ 2 * (n * y) - d < 2 * (d * t) /\ 2 * (d * t) <= 2 * (n * y) + d
  BY <1>1, ShareRounds
<1> HIDE DEF s, t
<1>3. n * x <= n * y /\ n * x \in Int /\ n * y \in Int
  BY <1>1
<1>4. d * s - d * t < d /\ d * s \in Int /\ d * t \in Int
  BY <1>1, <1>2, <1>3
<1>5. ASSUME s > t PROVE FALSE
  <2>1. d * s >= d * (t + 1) /\ d * (t + 1) = d * t + d
    BY <1>1, <1>2, <1>5
  <2>2. QED  BY <1>1, <1>2, <1>4, <2>1
<1>6. QED  BY <1>2, <1>5 DEF s, t

-----------------------------------------------------------------------------
(* Ceilings: what is left of one telescopes *)

\* Periods that advance the amounts before them owe what the wages of all owe, to a cent.
LEMMA CeilingsKeepUp ==
  ASSUME NEW rate, IsRate(rate), NEW ceiling \in Int, NEW before \in Nat, NEW amount \in Nat,
         NEW ytd \in Int, AtLeast(0, ceiling - ytd) = AtLeast(0, ceiling - before)
  PROVE  /\ CeilingContribution(ytd, amount, ceiling, rate) \in Int
         /\ CeilingContribution(0, before, ceiling, rate) \in Int
         /\ CeilingContribution(0, before + amount, ceiling, rate) \in Int
         /\ Near(CeilingContribution(ytd, amount, ceiling, rate)
                   + CeilingContribution(0, before, ceiling, rate),
                 CeilingContribution(0, before + amount, ceiling, rate), 1)
<1> DEFINE x == AtMost(amount, AtLeast(0, ceiling - ytd))
<1> DEFINE y == AtMost(before, AtLeast(0, ceiling - 0))
<1>1. x \in Int /\ y \in Int /\ x + y = AtMost(before + amount, AtLeast(0, ceiling - 0))
  BY DEF AtMost, AtLeast
<1>2. /\ CeilingContribution(ytd, amount, ceiling, rate) = Share(x, rate)
      /\ CeilingContribution(0, before, ceiling, rate) = Share(y, rate)
      /\ CeilingContribution(0, before + amount, ceiling, rate) = Share(x + y, rate)
  BY <1>1 DEF CeilingContribution
<1> HIDE DEF x, y
<1>3. QED  BY <1>1, <1>2, SharesAdd

\* The same between two limits.
LEMMA BandsKeepUp ==
  ASSUME NEW rate, IsRate(rate), NEW floor \in Nat, NEW cap \in Int, floor <= cap,
         NEW before \in Nat, NEW amount \in Nat,
         NEW ytd \in Int, ytd = before \/ (floor = 0 /\ ytd = AtMost(before, cap))
  PROVE  /\ BandedContribution(ytd, amount, floor, cap, rate) \in Int
         /\ BandedContribution(0, before, floor, cap, rate) \in Int
         /\ BandedContribution(0, before + amount, floor, cap, rate) \in Int
         /\ Near(BandedContribution(ytd, amount, floor, cap, rate)
                   + BandedContribution(0, before, floor, cap, rate),
                 BandedContribution(0, before + amount, floor, cap, rate), 1)
<1> DEFINE x == AtLeast(0, AtMost(ytd + amount, cap) - AtLeast(ytd, floor))
<1> DEFINE y == AtLeast(0, AtMost(0 + before, cap) - AtLeast(0, floor))
<1>1. x \in Int /\ y \in Int
      /\ x + y = AtLeast(0, AtMost(0 + (before + amount), cap) - AtLeast(0, floor))
  BY DEF AtMost, AtLeast
<1>2. /\ BandedContribution(ytd, amount, floor, cap, rate) = Share(x, rate)
      /\ BandedContribution(0, before, floor, cap, rate) = Share(y, rate)
      /\ BandedContribution(0, before + amount, floor, cap, rate) = Share(x + y, rate)
  BY <1>1 DEF BandedContribution
<1> HIDE DEF x, y
<1>3. QED  BY <1>1, <1>2, SharesAdd

-----------------------------------------------------------------------------
(* Each engine has the arithmetic of PayrollArithmetic *)

\* Georgia's.
LEMMA GeArithmetic ==
  /\ \A x, rate : GE!Share(x, rate) = Share(x, rate)
  /\ \A x, y : GE!AtMost(x, y) = AtMost(x, y) /\ GE!AtLeast(x, y) = AtLeast(x, y)
  BY DEF GE!Share, Share, GE!HalfUp, HalfUp, GE!AtMost, AtMost, GE!AtLeast, AtLeast

\* Germany's.
LEMMA DeArithmetic ==
  /\ \A x, rate : DE!Share(x, rate) = Share(x, rate)
  /\ \A x, y : DE!AtMost(x, y) = AtMost(x, y) /\ DE!AtLeast(x, y) = AtLeast(x, y)
  /\ \A ytd, amount, ceiling, rate :
       DE!CeilingContribution(ytd, amount, ceiling, rate)
       = CeilingContribution(ytd, amount, ceiling, rate)
  BY DEF DE!Share, Share, DE!HalfUp, HalfUp, DE!AtMost, AtMost, DE!AtLeast, AtLeast,
         DE!CeilingContribution, CeilingContribution

\* Canada's.
LEMMA CaArithmetic ==
  /\ \A x, rate : CA!Share(x, rate) = Share(x, rate)
  /\ \A x, y : CA!AtMost(x, y) = AtMost(x, y) /\ CA!AtLeast(x, y) = AtLeast(x, y)
  /\ \A x, y : CA!PerPeriod(x, y) = HalfUp(x, y)
  /\ \A ytd, amount, floor, cap, rate :
       CA!BandedContribution(ytd, amount, floor, cap, rate)
       = BandedContribution(ytd, amount, floor, cap, rate)
  BY DEF CA!Share, Share, CA!HalfUp, HalfUp, CA!AtMost, AtMost, CA!AtLeast, AtLeast,
         CA!BandedContribution, BandedContribution, CA!PerPeriod

-----------------------------------------------------------------------------
(* Georgia *)

\* A pension participant's state pension keeps up with the year's.
LEMMA StatePensionKeepsUp ==
  ASSUME NEW before \in Nat, NEW taxable \in Nat
  PROVE  /\ GE!StatePension(before, taxable) \in Int
         /\ GE!StatePension(0, before) \in Int /\ GE!StatePension(0, before + taxable) \in Int
         /\ Near(GE!StatePension(before, taxable) + GE!StatePension(0, before),
                 GE!StatePension(0, before + taxable), 1)
<1> DEFINE first1(y, x) == AtMost(x, AtLeast(0, 2400000 - y))
<1> DEFINE second(y, x) == AtMost(x - first1(y, x), AtLeast(0, 6000000 - (y + first1(y, x))))
<1> DEFINE base(y, x) == 2 * first1(y, x) + second(y, x)
<1>1. ASSUME NEW y \in Nat, NEW x \in Nat
      PROVE  GE!StatePension(y, x) = Share(base(y, x), <<1, 100>>) /\ base(y, x) \in Int
  <2>1. GE!StatePension(y, x) = Share(base(y, x), <<1, 100>>)
    BY GeArithmetic DEF GE!StatePension, GE!Pack, GE!Units, GE!Pct
  <2>2. QED  BY <2>1 DEF AtMost, AtLeast
<1>2. base(before, taxable) + base(0, before) = base(0, before + taxable)
  BY DEF AtMost, AtLeast
<1>3. IsRate(<<1, 100>>)
  BY DEF IsRate
<1> HIDE DEF base
<1> DEFINE x == base(before, taxable)
<1> DEFINE y == base(0, before)
<1>4. /\ GE!StatePension(before, taxable) = Share(x, <<1, 100>>) /\ x \in Int
      /\ GE!StatePension(0, before) = Share(y, <<1, 100>>) /\ y \in Int
      /\ GE!StatePension(0, before + taxable) = Share(x + y, <<1, 100>>)
  BY <1>1, <1>2
<1> HIDE DEF x, y
<1>5. QED  BY <1>3, <1>4, SharesAdd

-----------------------------------------------------------------------------
(* What a year has added up, scheme by scheme *)

Schemes(c) ==
  CASE c = "GE" -> {"state_pension"}
    [] c = "DE" -> {"pension"}
    [] c = "CA" -> {"ei", "cpp2", "cpp1", "wcb"}
    [] c = "US" -> {"fica", "futa", "sui", "state"}
    [] c = "MU" -> {"paye"}
    [] OTHER -> {"none"}

\* The schemes whose sum stays near what the year's wages owe, each period's contribution
\* being near what its wages add: Mauritius settles later, New York caps the sum itself.
NearSchemes(c, f) ==
  CASE c = "CA" -> {"ei", "cpp2", "wcb"}
    [] c = "US" -> IF f.state = "NY" THEN {"fica", "futa", "sui"} ELSE Schemes(c)
    [] c \in {"GE", "DE"} -> Schemes(c)
    [] OTHER -> {}

\* What no period changes of a worker, as far as the year's contributions depend on it.
SameWorker(c, f, e) ==
  CASE c = "GE" -> e.pension_participant = f.pension_participant
    [] c = "CA" -> e.wcb_rate = f.wcb_rate /\ e.wcb_ceiling = f.wcb_ceiling
    [] c = "US" -> e.state = f.state /\ e.dbl = f.dbl /\ e.sui = f.sui
    [] c = "MU" -> e.director = f.director /\ e.resident = f.resident /\ e.reliefs = f.reliefs
    [] OTHER -> TRUE

AreSums(c, sums) ==
  sums = [s \in Schemes(c) |-> <<sums[s][1], sums[s][2]>>]
         /\ \A s \in Schemes(c) : sums[s][1] \in Nat

SumsAfter(sums, counted) ==
  [s \in DOMAIN sums |-> <<sums[s][1] + counted[s][1], sums[s][2] + counted[s][2]>>]

\* A period's contribution is what its wages add to what the year owes, to three cents.
KeepsUp(contribution, owedBefore, owedAfter) ==
  /\ contribution \in Int /\ owedBefore \in Int /\ owedAfter \in Int
  /\ Near(contribution + owedBefore, owedAfter, 3)

CountedKeepsUp(c, f, sums, counted) ==
  /\ counted = [s \in Schemes(c) |-> <<counted[s][1], counted[s][2]>>]
  /\ \A s \in Schemes(c) : counted[s][1] \in Nat
  /\ \A s \in NearSchemes(c, f) :
       KeepsUp(counted[s][2], Owed(f, s, sums[s][1]), Owed(f, s, sums[s][1] + counted[s][1]))

\* One cent is within three, and so are two and three.
LEMMA KeepsUpWithin ==
  ASSUME NEW x \in Int, NEW y \in Int, NEW z \in Int, NEW k \in 0..3, Near(x + y, z, k)
  PROVE  KeepsUp(x, y, z)
  BY DEF KeepsUp, Near

\* A band or a ceiling keeps up within a cent.
LEMMA BandKeepsUp ==
  ASSUME NEW rate, IsRate(rate), NEW floor \in Nat, NEW cap \in Int, floor <= cap,
         NEW before \in Nat, NEW amount \in Nat, NEW after, after = before + amount,
         NEW ytd \in Int, ytd = before \/ (floor = 0 /\ ytd = AtMost(before, cap))
  PROVE  KeepsUp(BandedContribution(ytd, amount, floor, cap, rate),
                 BandedContribution(0, before, floor, cap, rate),
                 BandedContribution(0, after, floor, cap, rate))
<1> DEFINE x == BandedContribution(ytd, amount, floor, cap, rate)
<1> DEFINE y == BandedContribution(0, before, floor, cap, rate)
<1> DEFINE z == BandedContribution(0, after, floor, cap, rate)
<1>1. x \in Int /\ y \in Int /\ z \in Int /\ Near(x + y, z, 1)
  BY BandsKeepUp
<1> HIDE DEF x, y, z
<1>2. KeepsUp(x, y, z)
  BY <1>1, KeepsUpWithin
<1>3. QED  BY <1>2 DEF x, y, z

SumsAreOwed(c, f, sums, n) ==
  \A s \in NearSchemes(c, f) :
    /\ sums[s][2] \in Int /\ Owed(f, s, sums[s][1]) \in Int
    /\ Near(sums[s][2], Owed(f, s, sums[s][1]), 3 * n)

\* Sums that keep up stay near what is owed, by three cents more each period.
LEMMA SumsKeepUp ==
  ASSUME NEW c \in Countries, NEW f, NEW sums, AreSums(c, sums), NEW n \in Nat,
         SumsAreOwed(c, f, sums, n), NEW counted, CountedKeepsUp(c, f, sums, counted)
  PROVE  /\ AreSums(c, SumsAfter(sums, counted))
         /\ SumsAreOwed(c, f, SumsAfter(sums, counted), n + 1)
<1> DEFINE after == SumsAfter(sums, counted)
<1>1. NearSchemes(c, f) \subseteq Schemes(c)
  BY DEF NearSchemes, Schemes, Countries
<1>2. DOMAIN sums = Schemes(c)
  BY DEF AreSums
<1>3. /\ DOMAIN after = Schemes(c)
      /\ \A s \in Schemes(c) :
           after[s] = <<sums[s][1] + counted[s][1], sums[s][2] + counted[s][2]>>
  BY <1>2 DEF SumsAfter
<1>4. after = [s \in Schemes(c) |-> after[s]]
  BY <1>2 DEF SumsAfter
<1> HIDE DEF after
<1>5. \A s \in Schemes(c) : sums[s][1] \in Nat /\ counted[s][1] \in Nat
  BY DEF AreSums, CountedKeepsUp
<1>6. \A s \in Schemes(c) : /\ after[s] = <<after[s][1], after[s][2]>>
                            /\ after[s][1] = sums[s][1] + counted[s][1] /\ after[s][1] \in Nat
                            /\ after[s][2] = sums[s][2] + counted[s][2]
  BY <1>3, <1>5
<1>7. AreSums(c, after)
  BY <1>4, <1>6 DEF AreSums
<1>8. ASSUME NEW s \in NearSchemes(c, f)
      PROVE  /\ after[s][2] \in Int /\ Owed(f, s, after[s][1]) \in Int
             /\ Near(after[s][2], Owed(f, s, after[s][1]), 3 * (n + 1))
  <2>1. s \in Schemes(c)
    BY <1>1
  <2> DEFINE before == Owed(f, s, sums[s][1])
  <2> DEFINE now == Owed(f, s, sums[s][1] + counted[s][1])
  <2>2. /\ KeepsUp(counted[s][2], before, now)
        /\ sums[s][2] \in Int /\ before \in Int /\ Near(sums[s][2], before, 3 * n)
    BY DEF CountedKeepsUp, SumsAreOwed
  <2>3. Owed(f, s, after[s][1]) = now
    BY <1>6, <2>1
  <2> HIDE DEF before, now
  <2>4. /\ sums[s][2] + counted[s][2] \in Int /\ now \in Int
        /\ Near(sums[s][2] + counted[s][2], now, 3 * (n + 1))
    BY <2>2 DEF KeepsUp, Near
  <2>5. QED  BY <1>6, <2>1, <2>3, <2>4
<1>9. SumsAreOwed(c, f, after, n + 1)
  BY <1>8 DEF SumsAreOwed
<1>10. QED  BY <1>7, <1>9 DEF after

\* In Mauritius, nothing but the wages decides what the year owes.
Settling(e) == e.director = "NONE" /\ (~e.resident \/ e.reliefs = 0)

\* The wage bases that no federal tax has.
StateBases == DOMAIN US!WageBases \ {"ss", "futa"}

\* In the United States every wage base has an amount of its own.
UsHandedOver(e, sums) ==
  /\ e.ytd["medicare"] = sums["fica"][1]
  /\ e.ytd["ss"] = AtMost(sums["fica"][1], US!WageBases["ss"])
  /\ e.ytd["futa"] = AtMost(sums["futa"][1], US!WageBases["futa"])
  /\ e.sui # <<>> => AtLeast(0, e.sui[2] - e.ytd["sui"]) = AtLeast(0, e.sui[2] - sums["sui"][1])
  /\ e.state # "CA" =>
       \A base \in StateBases : e.ytd[base] = AtMost(sums["state"][1], US!WageBases[base])
  /\ e.state = "NY" /\ ~e.dbl => e.ytd["ny_pfl_tax"] = sums["state"][2]

\* The amounts "before" of a period are those of the wages so far.
HandedOver(c, e, sums) ==
  CASE c = "GE" -> e.ytd = sums["state_pension"][1]
    [] c = "DE" -> e.ytd = sums["pension"][1]
    [] c = "CA" -> /\ e.ytd = sums["ei"][1] /\ e.ytd = sums["cpp2"][1]
                   /\ e.wcb_rate # -1 => e.ytd_wcb = AtMost(sums["wcb"][1], e.wcb_ceiling)
    [] c = "MU" -> /\ e.ytd = sums["paye"][1]
                   /\ Settling(e) => /\ e.withheld = sums["paye"][2]
                                     /\ e.withheld <= BracketLookup(e.ytd, MU!Pack.brackets)
    [] c = "US" -> UsHandedOver(e, sums)
    [] OTHER -> TRUE

-----------------------------------------------------------------------------
(* Georgia's year *)

\* A payslip counts its taxable salary, and hands it over.
LEMMA GeorgiaKeepsUp ==
  ASSUME NEW f, NEW e \in GE!Employee, GE!Valid(e), SameWorker("GE", f, e),
         NEW sums, AreSums("GE", sums), HandedOver("GE", e, sums)
  PROVE  /\ CountedKeepsUp("GE", f, sums, Counted("GE", e, GE!Payslip(e)))
         /\ HandedOver("GE", Carried("GE", e, GE!Payslip(e)),
                       SumsAfter(sums, Counted("GE", e, GE!Payslip(e))))
<1> DEFINE before == sums["state_pension"][1]
<1> DEFINE taxable == e.gross_pay + e.taxable_benefits
<1> DEFINE pension == IF e.pension_participant THEN GE!StatePension(e.ytd, taxable) ELSE 0
<1> DEFINE t == GE!Payslip(e)
<1>1. before \in Nat /\ e.ytd = before /\ DOMAIN sums = {"state_pension"}
  BY DEF AreSums, Schemes, HandedOver
<1>2. taxable \in Nat /\ e.pension_participant \in BOOLEAN
  BY DEF GE!Employee, GE!Valid, GE!NonNegative
<1>3. t.taxable_salary = taxable /\ t.state_pension = pension /\ t.ytd_after = e.ytd + taxable
  BY DEF GE!Payslip
<1>4. Counted("GE", e, t) = [state_pension |-> <<t.taxable_salary, t.state_pension>>]
  BY DEF Counted
<1>5. \A w : Owed(f, "state_pension", w) = IF e.pension_participant THEN GE!StatePension(0, w) ELSE 0
  BY DEF Owed, SameWorker
<1>6. Carried("GE", e, t) = [e EXCEPT !.ytd = t.ytd_after]
  BY DEF Carried
<1> HIDE DEF taxable, t, before
<1>7. KeepsUp(pension, Owed(f, "state_pension", before), Owed(f, "state_pension", before + taxable))
  <2>1. CASE e.pension_participant
    <3>1. /\ pension = GE!StatePension(before, taxable)
          /\ Owed(f, "state_pension", before) = GE!StatePension(0, before)
          /\ Owed(f, "state_pension", before + taxable) = GE!StatePension(0, before + taxable)
      BY <1>1, <1>5, <2>1
    <3> HIDE DEF pension
    <3>2. /\ pension \in Int /\ Owed(f, "state_pension", before) \in Int
          /\ Owed(f, "state_pension", before + taxable) \in Int
          /\ Near(pension + Owed(f, "state_pension", before),
                  Owed(f, "state_pension", before + taxable), 1)
      BY <1>1, <1>2, <3>1, StatePensionKeepsUp
    <3>3. QED  BY <3>2, KeepsUpWithin
  <2>2. CASE ~e.pension_participant
    BY <1>5, <2>2 DEF KeepsUp, Near
  <2>3. QED  BY <2>1, <2>2
<1>8. pension \in Int
  BY <1>7 DEF KeepsUp
<1> HIDE DEF pension
<1>9. Counted("GE", e, t) = [s \in {"state_pension"} |-> <<taxable, pension>>]
  BY <1>3, <1>4
<1>10. CountedKeepsUp("GE", f, sums, Counted("GE", e, t))
  BY <1>2, <1>7, <1>8, <1>9 DEF CountedKeepsUp, Schemes, NearSchemes, before
<1>11. SumsAfter(sums, Counted("GE", e, t))["state_pension"][1] = before + taxable
  BY <1>1, <1>9 DEF SumsAfter, before
<1>12. Carried("GE", e, t).ytd = before + taxable
  BY <1>1, <1>3, <1>6 DEF GE!Employee
<1>13. QED  BY <1>10, <1>11, <1>12 DEF HandedOver, t

-----------------------------------------------------------------------------
(* Germany's year *)

\* The regular pay and the one-time pay after it keep up, to a cent each.
LEMMA PensionKeepsUp ==
  ASSUME NEW e \in DE!Employee, DE!Valid(e), NEW before \in Nat, e.ytd = before
  PROVE  KeepsUp(DE!Both(e, 10140000, <<930, 10000>>),
                 CeilingContribution(0, before, 10140000, <<930, 10000>>),
                 CeilingContribution(0, before + (e.sv_gross_pay + e.one_time), 10140000,
                                     <<930, 10000>>))
<1> DEFINE rate == <<930, 10000>>
<1> DEFINE owed(w) == CeilingContribution(0, w, 10140000, rate)
<1> DEFINE regular == CeilingContribution(before, e.sv_gross_pay, 10140000, rate)
<1> DEFINE once == CeilingContribution(before + e.sv_gross_pay, e.one_time, 10140000, rate)
<1>1. e.sv_gross_pay \in Nat /\ e.one_time \in Nat
  BY DEF DE!Employee, DE!Valid, DE!NonNegative
<1>2. DE!Both(e, 10140000, rate) = regular + once
  BY DeArithmetic DEF DE!Both, DE!Regular, DE!OneTime
<1>3. IsRate(rate)
  BY DEF IsRate
<1> HIDE DEF rate
<1>4. /\ regular \in Int /\ owed(before) \in Int /\ owed(before + e.sv_gross_pay) \in Int
      /\ Near(regular + owed(before), owed(before + e.sv_gross_pay), 1)
  BY <1>1, <1>3, CeilingsKeepUp
<1> DEFINE middle == before + e.sv_gross_pay
<1>5. middle \in Nat /\ AtLeast(0, 10140000 - middle) = AtLeast(0, 10140000 - middle)
  BY <1>1
<1>6. /\ regular \in Int /\ owed(before) \in Int /\ owed(middle) \in Int
      /\ Near(regular + owed(before), owed(middle), 1)
  BY <1>4
<1> HIDE DEF middle
<1>7. /\ CeilingContribution(middle, e.one_time, 10140000, rate) \in Int
      /\ owed(middle + e.one_time) \in Int
      /\ Near(CeilingContribution(middle, e.one_time, 10140000, rate) + owed(middle),
              owed(middle + e.one_time), 1)
  BY <1>1, <1>3, <1>5, CeilingsKeepUp
<1>8. once \in Int /\ owed(middle + e.one_time) \in Int
      /\ Near(once + owed(middle), owed(middle + e.one_time), 1)
  BY <1>7 DEF middle
<1>9. middle + e.one_time = before + (e.sv_gross_pay + e.one_time)
  BY <1>1 DEF middle
<1> HIDE DEF owed, regular, once
<1>10. KeepsUp(regular + once, owed(before), owed(before + (e.sv_gross_pay + e.one_time)))
  BY <1>6, <1>8, <1>9 DEF KeepsUp, Near
<1>11. QED  BY <1>2, <1>10 DEF owed, rate

\* What a German payslip says of the pension and of the year.
LEMMA GermanSlip ==
  ASSUME NEW e
  PROVE  /\ DE!Payslip(e).pension = DE!SocialInsuranceOf(e).pension
         /\ DE!Payslip(e).ytd_after = e.ytd + e.sv_gross_pay + e.one_time
<1> DEFINE t == DE!Payslip(e)
<1>1. ASSUME NEW social, NEW gross, NEW tax, NEW soli, NEW church
      PROVE  /\ DE!SlipOf(e, gross, social, tax, soli, church).pension = social.pension
             /\ DE!SlipOf(e, gross, social, tax, soli, church).ytd_after
                = e.ytd + e.sv_gross_pay + e.one_time
  BY DEF DE!SlipOf
<1>2. \A social : \E gross, tax, soli, church :
        DE!InsuredSlip(e, social) = DE!SlipOf(e, gross, social, tax, soli, church)
  BY DEF DE!InsuredSlip, DE!YearlySlip, DE!TaxedSlip
<1>3. t = DE!InsuredSlip(e, DE!SocialInsuranceOf(e))
  BY DEF DE!Payslip
<1> HIDE DEF t
<1>4. t.pension = DE!SocialInsuranceOf(e).pension
      /\ t.ytd_after = e.ytd + e.sv_gross_pay + e.one_time
  BY <1>1, <1>2, <1>3
<1>5. QED  BY <1>4 DEF t

\* A payslip counts its pay of both kinds, and hands it over.
LEMMA GermanyKeepsUp ==
  ASSUME NEW f, NEW e \in DE!Employee, DE!Valid(e),
         NEW sums, AreSums("DE", sums), HandedOver("DE", e, sums)
  PROVE  /\ CountedKeepsUp("DE", f, sums, Counted("DE", e, DE!Payslip(e)))
         /\ HandedOver("DE", Carried("DE", e, DE!Payslip(e)),
                       SumsAfter(sums, Counted("DE", e, DE!Payslip(e))))
         /\ DE!Payslip(e).ytd_after \in Int
<1> DEFINE before == sums["pension"][1]
<1> DEFINE pay == e.sv_gross_pay + e.one_time
<1> DEFINE pension == DE!Both(e, 10140000, <<930, 10000>>)
<1> DEFINE t == DE!Payslip(e)
<1>1. before \in Nat /\ e.ytd = before /\ DOMAIN sums = {"pension"}
  BY DEF AreSums, Schemes, HandedOver
<1>2. pay \in Nat
  BY DEF DE!Employee, DE!Valid, DE!NonNegative
<1>3. /\ t.pension = DE!SocialInsuranceOf(e).pension
      /\ t.ytd_after = e.ytd + e.sv_gross_pay + e.one_time
  BY GermanSlip
<1>4. DE!Pack.pension_ceiling = 10140000 /\ DE!Pack.pension_half = <<930, 10000>>
  BY DEF DE!Pack, DE!Units, DE!Bp
<1>5. t.pension = pension
  BY <1>3, <1>4 DEF DE!SocialInsuranceOf, DE!SocialInsurance
<1>6. t.ytd_after = before + pay
  BY <1>1, <1>3 DEF DE!Employee
<1>7. Counted("DE", e, t) = [pension |-> <<pay, t.pension>>]
  BY DEF Counted
<1>8. \A w : Owed(f, "pension", w) = CeilingContribution(0, w, 10140000, <<930, 10000>>)
  BY <1>4 DEF Owed
<1>9. Carried("DE", e, t) = [e EXCEPT !.ytd = t.ytd_after]
  BY DEF Carried
<1>10. KeepsUp(pension, Owed(f, "pension", before), Owed(f, "pension", before + pay))
  BY <1>1, <1>8, PensionKeepsUp
<1>11. pension \in Int
  BY <1>10 DEF KeepsUp
<1> HIDE DEF pay, t, before, pension
<1>12. Counted("DE", e, t) = [s \in {"pension"} |-> <<pay, pension>>]
  BY <1>5, <1>7
<1>13. CountedKeepsUp("DE", f, sums, Counted("DE", e, t))
  BY <1>2, <1>10, <1>11, <1>12 DEF CountedKeepsUp, Schemes, NearSchemes, before
<1>14. SumsAfter(sums, Counted("DE", e, t))["pension"][1] = before + pay
  BY <1>1, <1>12 DEF SumsAfter, before
<1>15. Carried("DE", e, t).ytd = before + pay
  BY <1>6, <1>9 DEF DE!Employee
<1>16. QED  BY <1>1, <1>2, <1>6, <1>13, <1>14, <1>15 DEF HandedOver, t

-----------------------------------------------------------------------------
(* Canada's year *)

\* A band that starts at nothing owes the wages up to its cap.
LEMMA BandFromNothing ==
  ASSUME NEW rate, NEW cap \in Nat, NEW wages \in Nat
  PROVE  BandedContribution(0, wages, 0, cap, rate) = Share(AtMost(wages, cap), rate)
<1>1. AtLeast(0, AtMost(0 + wages, cap) - AtLeast(0, 0)) = AtMost(wages, cap)
  BY DEF AtMost, AtLeast
<1>2. QED  BY <1>1 DEF BandedContribution

\* The rates and limits of the rule pack.
LEMMA CanadianFigures ==
  /\ CA!Ei.max_insurable = 6890000 /\ CA!Ei.rate = <<163, 10000>>
  /\ CA!Cpp.ympe = 7460000 /\ CA!Cpp.yampe = 8500000 /\ CA!Cpp.second = <<400, 10000>>
  BY DEF CA!Ei, CA!Cpp, CA!Bp, CA!Units

\* Employment insurance and the second tier of the pension plan keep up.
LEMMA InsuranceKeepsUp ==
  ASSUME NEW f, NEW e \in CA!Employee, CA!Valid(e), NEW before \in Nat, e.ytd = before
  PROVE  /\ KeepsUp(CA!EmployeeEi(e), Owed(f, "ei", before), Owed(f, "ei", before + e.gross_pay))
         /\ KeepsUp(CA!BandedContribution(e.ytd, e.gross_pay, CA!Cpp.ympe, CA!Cpp.yampe,
                                          CA!Cpp.second),
                    Owed(f, "cpp2", before), Owed(f, "cpp2", before + e.gross_pay))
<1> DEFINE pay == e.gross_pay
<1> DEFINE ei == <<163, 10000>>
<1> DEFINE second == <<400, 10000>>
<1>1. pay \in Nat /\ before + pay \in Nat
  BY DEF CA!Employee, CA!Valid, CA!NonNegative
<1>2. IsRate(ei) /\ IsRate(second)
  BY DEF IsRate
<1>3. /\ \A w : Owed(f, "ei", w) = Share(AtMost(w, 6890000), ei)
      /\ \A w : Owed(f, "cpp2", w) = Share(AtLeast(0, AtMost(w, 8500000) - 7460000), second)
  BY CanadianFigures DEF Owed
<1>4. /\ CA!EmployeeEi(e) = BandedContribution(before, pay, 0, 6890000, ei)
      /\ CA!BandedContribution(e.ytd, e.gross_pay, CA!Cpp.ympe, CA!Cpp.yampe, CA!Cpp.second)
         = BandedContribution(before, pay, 7460000, 8500000, second)
  BY CanadianFigures, CaArithmetic DEF CA!EmployeeEi
<1> HIDE DEF pay, ei, second
<1>5. \A w \in Nat : Owed(f, "ei", w) = BandedContribution(0, w, 0, 6890000, ei)
  BY <1>3, BandFromNothing
<1>6. \A w \in Nat : Owed(f, "cpp2", w) = BandedContribution(0, w, 7460000, 8500000, second)
  <2>1. \A w \in Nat : AtLeast(0, AtMost(0 + w, 8500000) - AtLeast(0, 7460000))
                       = AtLeast(0, AtMost(w, 8500000) - 7460000)
    BY DEF AtMost, AtLeast
  <2>2. QED  BY <1>3, <2>1 DEF BandedContribution
<1> DEFINE after == before + pay
<1>7. after \in Nat /\ after = before + pay
  BY <1>1
<1> HIDE DEF after
<1>8. KeepsUp(BandedContribution(before, pay, 0, 6890000, ei),
              BandedContribution(0, before, 0, 6890000, ei),
              BandedContribution(0, after, 0, 6890000, ei))
  BY <1>1, <1>2, <1>7, BandKeepsUp
<1>9. KeepsUp(BandedContribution(before, pay, 7460000, 8500000, second),
              BandedContribution(0, before, 7460000, 8500000, second),
              BandedContribution(0, after, 7460000, 8500000, second))
  BY <1>1, <1>2, <1>7, BandKeepsUp
<1>10. QED  BY <1>1, <1>4, <1>5, <1>6, <1>7, <1>8, <1>9 DEF pay

\* What a payslip has of the employer's insurance, where a rate is given.
Wcb(e) == IF e.wcb_rate = -1 THEN 0
          ELSE CA!BandedContribution(e.ytd_wcb, e.gross_pay, 0, e.wcb_ceiling, CA!Pct(e.wcb_rate))
WcbAfter(e) ==
  e.ytd_wcb + (IF e.wcb_rate = -1 THEN 0
               ELSE CA!AtLeast(0, CA!AtMost(e.ytd_wcb + e.gross_pay, e.wcb_ceiling) - e.ytd_wcb))

\* Workers' compensation keeps up with the employer's own rate and ceiling.
LEMMA CompensationKeepsUp ==
  ASSUME NEW f, NEW e \in CA!Employee, CA!Valid(e), SameWorker("CA", f, e),
         NEW before \in Nat, e.wcb_rate # -1 => e.ytd_wcb = AtMost(before, e.wcb_ceiling)
  PROVE  /\ KeepsUp(Wcb(e), Owed(f, "wcb", before), Owed(f, "wcb", before + e.gross_pay))
         /\ e.wcb_rate # -1 => WcbAfter(e) = AtMost(before + e.gross_pay, e.wcb_ceiling)
<1> DEFINE pay == e.gross_pay
<1> DEFINE cap == e.wcb_ceiling
<1> DEFINE rate == <<e.wcb_rate, 100>>
<1>1. pay \in Nat /\ cap \in Nat /\ e.wcb_rate \in Int /\ before + pay \in Nat
  BY DEF CA!Employee, CA!Valid, CA!NonNegative
<1>2. \A w : Owed(f, "wcb", w) = IF e.wcb_rate = -1 THEN 0 ELSE Share(AtMost(w, cap), rate)
  BY DEF Owed, SameWorker, Pct
<1>3. CASE e.wcb_rate = -1
  BY <1>2, <1>3 DEF Wcb, KeepsUp, Near
<1>4. CASE e.wcb_rate # -1
  <2>1. Wcb(e) = BandedContribution(e.ytd_wcb, pay, 0, cap, rate)
    BY <1>4, CaArithmetic DEF Wcb, CA!Pct
  <2>2. WcbAfter(e) = AtMost(before + pay, cap)
    <3>1. WcbAfter(e) = e.ytd_wcb + AtLeast(0, AtMost(e.ytd_wcb + pay, cap) - e.ytd_wcb)
      BY <1>4, CaArithmetic DEF WcbAfter
    <3> HIDE DEF pay, cap
    <3>2. QED  BY <1>1, <1>4, <3>1 DEF AtMost, AtLeast, cap
  <2>3. IsRate(rate)
    BY <1>1 DEF IsRate
  <2>4. e.ytd_wcb = AtMost(before, cap) /\ e.ytd_wcb \in Int
    BY <1>1, <1>4 DEF AtMost
  <2> HIDE DEF pay, cap, rate
  <2>5. \A w \in Nat : Owed(f, "wcb", w) = BandedContribution(0, w, 0, cap, rate)
    BY <1>1, <1>2, <1>4, BandFromNothing
  <2> DEFINE after == before + pay
  <2>6. after \in Nat /\ after = before + pay
    BY <1>1
  <2> HIDE DEF after
  <2>7. KeepsUp(BandedContribution(e.ytd_wcb, pay, 0, cap, rate),
                BandedContribution(0, before, 0, cap, rate),
                BandedContribution(0, after, 0, cap, rate))
    BY <1>1, <2>3, <2>4, <2>6, BandKeepsUp
  <2>8. KeepsUp(Wcb(e), Owed(f, "wcb", before), Owed(f, "wcb", after))
    BY <1>1, <2>1, <2>5, <2>6, <2>7
  <2>9. QED  BY <1>4, <2>2, <2>6, <2>8 DEF pay, cap
<1>5. QED  BY <1>3, <1>4

\* A payslip counts its gross pay four times, and hands over the sums of two.
LEMMA CanadaKeepsUp ==
  ASSUME NEW f, NEW e \in CA!Employee, CA!Valid(e), SameWorker("CA", f, e),
         NEW sums, AreSums("CA", sums), HandedOver("CA", e, sums)
  PROVE  /\ CountedKeepsUp("CA", f, sums, Counted("CA", e, CA!Payslip(e)))
         /\ HandedOver("CA", Carried("CA", e, CA!Payslip(e)),
                       SumsAfter(sums, Counted("CA", e, CA!Payslip(e))))
<1> DEFINE schemes == {"ei", "cpp2", "cpp1", "wcb"}
<1> DEFINE pay == e.gross_pay
<1> DEFINE t == CA!Payslip(e)
<1> DEFINE counted == Counted("CA", e, t)
<1> DEFINE next == Carried("CA", e, t)
<1> DEFINE cpp2 == CA!BandedContribution(e.ytd, e.gross_pay, CA!Cpp.ympe, CA!Cpp.yampe, CA!Cpp.second)
<1>1. /\ DOMAIN sums = schemes /\ \A s \in schemes : sums[s][1] \in Nat
      /\ e.ytd = sums["ei"][1] /\ e.ytd = sums["cpp2"][1]
      /\ e.wcb_rate # -1 => e.ytd_wcb = AtMost(sums["wcb"][1], e.wcb_ceiling)
  BY DEF AreSums, Schemes, HandedOver
<1>2. pay \in Nat
  BY DEF CA!Employee, CA!Valid, CA!NonNegative
<1>3. /\ t.employee_ei = CA!EmployeeEi(e) /\ t.employee_cpp2 = cpp2 /\ t.employer_wcb = Wcb(e)
      /\ t.ytd_after = e.ytd + pay /\ t.ytd_wcb_after = WcbAfter(e)
  BY DEF CA!Payslip, Wcb, WcbAfter
<1>4. counted = [ei |-> <<pay, t.employee_ei>>, cpp2 |-> <<pay, t.employee_cpp2>>,
                 cpp1 |-> <<pay, t.employee_cpp1>>, wcb |-> <<pay, t.employer_wcb>>]
  BY DEF Counted
<1>5. next = [e EXCEPT !.ytd = t.ytd_after, !.ytd_wcb = t.ytd_wcb_after]
  BY DEF Carried
<1>6. /\ next.ytd = t.ytd_after /\ next.ytd_wcb = t.ytd_wcb_after
      /\ next.wcb_rate = e.wcb_rate /\ next.wcb_ceiling = e.wcb_ceiling
  BY <1>5 DEF CA!Employee
<1>7. /\ KeepsUp(CA!EmployeeEi(e), Owed(f, "ei", sums["ei"][1]), Owed(f, "ei", sums["ei"][1] + pay))
      /\ KeepsUp(cpp2, Owed(f, "cpp2", sums["cpp2"][1]), Owed(f, "cpp2", sums["cpp2"][1] + pay))
  BY <1>1, InsuranceKeepsUp
<1>8. /\ KeepsUp(Wcb(e), Owed(f, "wcb", sums["wcb"][1]), Owed(f, "wcb", sums["wcb"][1] + pay))
      /\ e.wcb_rate # -1 => WcbAfter(e) = AtMost(sums["wcb"][1] + pay, e.wcb_ceiling)
  BY <1>1, CompensationKeepsUp
<1> HIDE DEF pay, cpp2, t, counted, next
<1>9. /\ counted = [s \in schemes |-> <<counted[s][1], counted[s][2]>>]
      /\ \A s \in schemes : counted[s][1] = pay
      /\ counted["ei"][2] = CA!EmployeeEi(e) /\ counted["cpp2"][2] = cpp2
      /\ counted["wcb"][2] = Wcb(e)
  BY <1>3, <1>4
<1>10. CountedKeepsUp("CA", f, sums, counted)
  <2>1. ASSUME NEW s \in NearSchemes("CA", f)
        PROVE  KeepsUp(counted[s][2], Owed(f, s, sums[s][1]), Owed(f, s, sums[s][1] + counted[s][1]))
    <3>1. s \in {"ei", "cpp2", "wcb"}
      BY DEF NearSchemes
    <3>2. QED  BY <1>7, <1>8, <1>9, <3>1
  <2>2. QED  BY <1>2, <1>9, <2>1 DEF CountedKeepsUp, Schemes
<1>11. \A s \in schemes : SumsAfter(sums, counted)[s][1] = sums[s][1] + pay
  BY <1>1, <1>9 DEF SumsAfter
<1>12. HandedOver("CA", next, SumsAfter(sums, counted))
  BY <1>1, <1>3, <1>6, <1>8, <1>11 DEF HandedOver
<1>13. QED  BY <1>10, <1>12 DEF counted, next, t

-----------------------------------------------------------------------------
(* Mauritius' year *)

\* Mauritius'.
LEMMA MuArithmetic ==
  /\ \A x, rate : MU!Share(x, rate) = Share(x, rate)
  /\ \A x, y : MU!AtMost(x, y) = AtMost(x, y) /\ MU!AtLeast(x, y) = AtLeast(x, y)
  /\ \A x, y : MU!HalfUp(x, y) = HalfUp(x, y)
  /\ \A x, table : MU!BracketLookup(x, table) = BracketLookup(x, table)
  BY DEF MU!BracketLookup, BracketLookup, MU!Bp, Bp, MU!Share, Share, MU!HalfUp, HalfUp, MU!AtMost, AtMost, MU!AtLeast, AtLeast,
         MU!Row, Row, MU!Units, Units

\* The row of a table of four.
LEMMA RowOfFour ==
  ASSUME NEW a, NEW b, NEW c, NEW d, b[1] \in Nat, c[1] \in Nat, d[1] \in Nat,
         b[1] <= c[1], c[1] <= d[1], NEW x \in Int
  PROVE  Row(x, <<a, b, c, d>>) = IF x < 100 * b[1] THEN a ELSE IF x < 100 * c[1] THEN b
                                  ELSE IF x < 100 * d[1] THEN c ELSE d
<1> DEFINE table == <<a, b, c, d>>
<1> DEFINE P(k) == /\ \A j \in 2..k : Units(table[j][1]) <= x
                   /\ k < 4 => x < Units(table[k + 1][1])
<1>1. /\ Len(table) = 4 /\ table[1] = a /\ table[2] = b /\ table[3] = c /\ table[4] = d
  OBVIOUS
<1>2. Row(x, table) = table[CHOOSE k \in 1..4 : P(k)]
  BY <1>1 DEF Row
<1> DEFINE n == IF x < 100 * b[1] THEN 1 ELSE IF x < 100 * c[1] THEN 2
                ELSE IF x < 100 * d[1] THEN 3 ELSE 4
<1>3. \A k \in 1..4 : P(k) <=> k = n
  BY <1>1 DEF Units
<1>4. n \in 1..4
  OBVIOUS
<1> HIDE DEF P, n
<1>5. (CHOOSE k \in 1..4 : P(k)) = n
  BY <1>3, <1>4
<1>6. Row(x, table) = table[n]
  BY <1>2, <1>5
<1>7. QED  BY <1>1, <1>6 DEF n

\* The year's tax by the four rows of the rule pack.
LEMMA MuTable ==
  ASSUME NEW x \in Int
  PROVE  BracketLookup(x, MU!Pack.brackets)
         = IF x < 50000000 THEN Share(x, <<0, 10000>>)
           ELSE IF x < 100000000 THEN Share(x - 50000000, <<1000, 10000>>)
           ELSE IF x < 1200000000 THEN 5000000 + Share(x - 100000000, <<2000, 10000>>)
           ELSE 225000000 + Share(x - 1200000000, <<3500, 10000>>)
<1> DEFINE a == <<0, 0, 0>>
<1> DEFINE b == <<500000, 0, 1000>>
<1> DEFINE c == <<1000000, 5000000, 2000>>
<1> DEFINE d == <<12000000, 225000000, 3500>>
<1>1. MU!Pack.brackets = <<a, b, c, d>>
  BY DEF MU!Pack
<1>2. /\ a[1] = 0 /\ a[2] = 0 /\ a[3] = 0
      /\ b[1] = 500000 /\ b[2] = 0 /\ b[3] = 1000
      /\ c[1] = 1000000 /\ c[2] = 5000000 /\ c[3] = 2000
      /\ d[1] = 12000000 /\ d[2] = 225000000 /\ d[3] = 3500
  OBVIOUS
<1> HIDE DEF a, b, c, d
<1>3. Row(x, MU!Pack.brackets) = IF x < 50000000 THEN a ELSE IF x < 100000000 THEN b
                                 ELSE IF x < 1200000000 THEN c ELSE d
  BY <1>1, <1>2, RowOfFour
<1> DEFINE row == Row(x, MU!Pack.brackets)
<1>4. BracketLookup(x, MU!Pack.brackets) = row[2] + Share(x - Units(row[1]), Bp(row[3]))
  BY DEF BracketLookup
<1>5. IsRate(<<0, 10000>>) /\ IsRate(<<1000, 10000>>) /\ IsRate(<<2000, 10000>>)
      /\ IsRate(<<3500, 10000>>)
  BY DEF IsRate
<1>6. /\ Share(x, <<0, 10000>>) \in Int /\ Share(x - 50000000, <<1000, 10000>>) \in Int
  BY <1>5, SharesAdd
<1> HIDE DEF row
<1>7. CASE x < 50000000
  <2>1. row = a
    BY <1>3, <1>7 DEF row
  <2>2. row[2] + Share(x - Units(row[1]), Bp(row[3])) = 0 + Share(x - 0, <<0, 10000>>)
    BY <1>2, <2>1 DEF Units, Bp
  <2>3. x - 0 = x
    OBVIOUS
  <2>4. QED  BY <1>4, <1>6, <1>7, <2>2, <2>3
<1>8. CASE 50000000 <= x /\ x < 100000000
  <2>1. row = b
    BY <1>3, <1>8 DEF row
  <2>2. row[2] + Share(x - Units(row[1]), Bp(row[3])) = 0 + Share(x - 50000000, <<1000, 10000>>)
    BY <1>2, <2>1 DEF Units, Bp
  <2>3. QED  BY <1>4, <1>6, <1>8, <2>2
<1>9. CASE 100000000 <= x /\ x < 1200000000
  <2>1. row = c
    BY <1>3, <1>9 DEF row
  <2>2. row[2] + Share(x - Units(row[1]), Bp(row[3]))
        = 5000000 + Share(x - 100000000, <<2000, 10000>>)
    BY <1>2, <2>1 DEF Units, Bp
  <2>3. QED  BY <1>4, <1>9, <2>2
<1>10. CASE 1200000000 <= x
  <2>1. row = d
    BY <1>3, <1>10 DEF row
  <2>2. row[2] + Share(x - Units(row[1]), Bp(row[3]))
        = 225000000 + Share(x - 1200000000, <<3500, 10000>>)
    BY <1>2, <2>1 DEF Units, Bp
  <2>3. QED  BY <1>4, <1>10, <2>2
<1>11. QED  BY <1>7, <1>8, <1>9, <1>10

\* A higher income never owes less tax.
LEMMA MuTaxGrows ==
  ASSUME NEW x \in Nat, NEW y \in Nat, x <= y
  PROVE  /\ BracketLookup(x, MU!Pack.brackets) \in Nat /\ BracketLookup(y, MU!Pack.brackets) \in Nat
         /\ BracketLookup(x, MU!Pack.brackets) <= BracketLookup(y, MU!Pack.brackets)
<1> DEFINE r1 == <<0, 10000>>
<1> DEFINE r2 == <<1000, 10000>>
<1> DEFINE r3 == <<2000, 10000>>
<1> DEFINE r4 == <<3500, 10000>>
<1>1. IsRate(r1) /\ IsRate(r2) /\ IsRate(r3) /\ IsRate(r4)
      /\ r1[1] >= 0 /\ r2[1] >= 0 /\ r3[1] >= 0 /\ r4[1] >= 0
  BY DEF IsRate
<1>2. /\ Share(50000000, r1) = 0 /\ Share(50000000, r2) = 5000000
      /\ Share(1100000000, r3) = 220000000
  BY DEF Share, HalfUp
<1> DEFINE T(z) == BracketLookup(z, MU!Pack.brackets)
<1>3. \A z \in Nat : T(z) = IF z < 50000000 THEN Share(z, r1)
                            ELSE IF z < 100000000 THEN Share(z - 50000000, r2)
                            ELSE IF z < 1200000000 THEN 5000000 + Share(z - 100000000, r3)
                            ELSE 225000000 + Share(z - 1200000000, r4)
  BY MuTable
<1> HIDE DEF r1, r2, r3, r4, T
<1>4. ASSUME NEW rate, IsRate(rate), rate[1] >= 0, NEW z \in Nat
      PROVE  Share(z, rate) \in Int /\ Share(z, rate) >= 0
  <2>1. Share(0, rate) = 0 /\ 0 <= z
    BY <1>4, ShareOfNothing
  <2>2. QED  BY <1>4, <2>1, SharesGrow
<1>5. ASSUME NEW z \in Nat
      PROVE  /\ T(z) \in Int /\ 0 <= T(z)
             /\ z < 100000000 => T(z) <= 5000000
             /\ z < 50000000 => T(z) = 0
             /\ 100000000 <= z => 5000000 <= T(z)
             /\ z < 1200000000 => T(z) <= 225000000
             /\ 1200000000 <= z => 225000000 <= T(z)
  <2>1. CASE z < 50000000
    <3>1. Share(z, r1) \in Int /\ Share(z, r1) >= 0
      BY <1>1, <1>4
    <3>2. Share(z, r1) <= Share(50000000, r1)
      BY <1>1, <2>1, SharesGrow
    <3>3. T(z) = Share(z, r1)
      BY <1>3, <2>1
    <3>4. QED  BY <1>2, <2>1, <3>1, <3>2, <3>3
  <2>2. CASE 50000000 <= z /\ z < 100000000
    <3>1. z - 50000000 \in Nat /\ z - 50000000 <= 50000000
      BY <2>2
    <3>2. Share(z - 50000000, r2) \in Int /\ Share(z - 50000000, r2) >= 0
      BY <1>1, <1>4, <3>1
    <3>3. Share(z - 50000000, r2) <= Share(50000000, r2)
      BY <1>1, <3>1, SharesGrow
    <3>4. T(z) = Share(z - 50000000, r2)
      BY <1>3, <2>2
    <3>5. QED  BY <1>2, <2>2, <3>2, <3>3, <3>4
  <2>3. CASE 100000000 <= z /\ z < 1200000000
    <3>1. z - 100000000 \in Nat /\ z - 100000000 <= 1100000000
      BY <2>3
    <3>2. Share(z - 100000000, r3) \in Int /\ Share(z - 100000000, r3) >= 0
      BY <1>1, <1>4, <3>1
    <3>3. Share(z - 100000000, r3) <= Share(1100000000, r3)
      BY <1>1, <3>1, SharesGrow
    <3>4. T(z) = 5000000 + Share(z - 100000000, r3)
      BY <1>3, <2>3
    <3>5. QED  BY <1>2, <2>3, <3>2, <3>3, <3>4
  <2>4. CASE 1200000000 <= z
    <3>1. z - 1200000000 \in Nat
      BY <2>4
    <3>2. Share(z - 1200000000, r4) \in Int /\ Share(z - 1200000000, r4) >= 0
      BY <1>1, <1>4, <3>1
    <3>3. T(z) = 225000000 + Share(z - 1200000000, r4)
      BY <1>3, <2>4
    <3>4. QED  BY <2>4, <3>2, <3>3
  <2>5. QED  BY <2>1, <2>2, <2>3, <2>4
<1>6. T(x) <= T(y)
  <2>1. CASE 50000000 <= x /\ y < 100000000
    <3>1. x - 50000000 \in Int /\ y - 50000000 \in Int /\ x - 50000000 <= y - 50000000
      BY <2>1
    <3>2. Share(x - 50000000, r2) <= Share(y - 50000000, r2)
      BY <1>1, <3>1, SharesGrow
    <3>3. QED  BY <1>3, <2>1, <3>2
  <2>2. CASE 100000000 <= x /\ y < 1200000000
    <3>1. x - 100000000 \in Int /\ y - 100000000 \in Int /\ x - 100000000 <= y - 100000000
      BY <2>2
    <3>2. /\ Share(x - 100000000, r3) \in Int /\ Share(y - 100000000, r3) \in Int
          /\ Share(x - 100000000, r3) <= Share(y - 100000000, r3)
      BY <1>1, <3>1, SharesGrow
    <3>3. QED  BY <1>3, <2>2, <3>2
  <2>3. CASE 1200000000 <= x
    <3>1. x - 1200000000 \in Int /\ y - 1200000000 \in Int /\ x - 1200000000 <= y - 1200000000
      BY <2>3
    <3>2. /\ Share(x - 1200000000, r4) \in Int /\ Share(y - 1200000000, r4) \in Int
          /\ Share(x - 1200000000, r4) <= Share(y - 1200000000, r4)
      BY <1>1, <3>1, SharesGrow
    <3>3. QED  BY <1>3, <2>3, <3>2
  <2>4. CASE x < 50000000 \/ (x < 100000000 /\ 100000000 <= y)
             \/ (x < 1200000000 /\ 1200000000 <= y)
    BY <1>5, <2>4
  <2>5. QED  BY <2>1, <2>2, <2>3, <2>4
<1>7. QED  BY <1>5, <1>6 DEF T

\* What a period of a worker without reliefs withholds.
LEMMA MauritiusWithholds ==
  ASSUME NEW e \in MU!Employee, MU!Valid(e), Settling(e)
  PROVE  MU!Paye(e) = IF e.gross_pay < 3846200 THEN 0
                      ELSE AtLeast(0, BracketLookup(e.ytd + e.gross_pay, MU!Pack.brackets) - e.withheld)
<1> DEFINE relief == IF e.resident THEN HalfUp(e.reliefs * e.sequence, 13) ELSE 0
<1>1. /\ e.director = "NONE" /\ e.ytd \in Nat /\ e.gross_pay \in Nat /\ e.sequence \in Int
      /\ e.resident => e.reliefs = 0
  BY DEF MU!Employee, MU!Valid, MU!NonNegative, Settling
<1>2. relief = 0
  BY <1>1 DEF HalfUp
<1>3. MU!Pack.relief_periods = 13 /\ MU!Pack.low_emoluments = 3846200
  BY DEF MU!Pack, MU!Units
<1> HIDE DEF relief
<1>4. AtLeast(0, e.ytd + e.gross_pay - relief) = e.ytd + e.gross_pay
  BY <1>1, <1>2 DEF AtLeast
<1>5. MU!CumulativeTax(e) = BracketLookup(AtLeast(0, e.ytd + e.gross_pay - relief), MU!Pack.brackets)
  BY <1>3, MuArithmetic DEF MU!CumulativeTax, relief
<1>6. MU!Paye(e) = IF e.gross_pay < MU!Pack.low_emoluments THEN 0
                   ELSE MU!AtLeast(0, MU!CumulativeTax(e) - e.withheld)
  BY <1>1 DEF MU!Paye
<1>7. QED  BY <1>3, <1>4, <1>5, <1>6, MuArithmetic

\* A payslip adds its tax to what was withheld, and never passes the tax of the wages so far.
LEMMA MauritiusKeepsUp ==
  ASSUME NEW f, NEW e \in MU!Employee, MU!Valid(e),
         NEW sums, AreSums("MU", sums), HandedOver("MU", e, sums)
  PROVE  LET after == SumsAfter(sums, Counted("MU", e, MU!Payslip(e)))
         IN  /\ CountedKeepsUp("MU", f, sums, Counted("MU", e, MU!Payslip(e)))
             /\ HandedOver("MU", Carried("MU", e, MU!Payslip(e)), after)
             /\ Settling(e) /\ e.gross_pay >= MU!Pack.low_emoluments =>
                  after["paye"][2] = BracketLookup(after["paye"][1], MU!Pack.brackets)
<1> DEFINE before == sums["paye"][1]
<1> DEFINE pay == e.gross_pay
<1> DEFINE paye == MU!Paye(e)
<1> DEFINE t == MU!Payslip(e)
<1> DEFINE counted == Counted("MU", e, t)
<1> DEFINE next == Carried("MU", e, t)
<1> DEFINE after == SumsAfter(sums, counted)
<1> DEFINE T(w) == BracketLookup(w, MU!Pack.brackets)
<1>1. /\ before \in Nat /\ e.ytd = before /\ DOMAIN sums = {"paye"}
      /\ Settling(e) => e.withheld = sums["paye"][2] /\ e.withheld <= T(before)
  BY DEF AreSums, Schemes, HandedOver
<1>2. pay \in Nat /\ e.withheld \in Int
  BY DEF MU!Employee, MU!Valid, MU!NonNegative
<1>3. t.paye = paye /\ t.ytd_after = e.ytd + pay /\ t.withheld_after = e.withheld + paye
  BY DEF MU!Payslip
<1>4. counted = [paye |-> <<pay, t.paye>>]
  BY DEF Counted
<1>5. next = [e EXCEPT !.ytd = t.ytd_after, !.withheld = t.withheld_after, !.sequence = @ + 1]
  BY DEF Carried
<1>6. Settling(e) => paye = IF pay < 3846200 THEN 0 ELSE AtLeast(0, T(before + pay) - e.withheld)
  BY <1>1, MauritiusWithholds
<1>7. T(before) \in Nat /\ T(before + pay) \in Nat /\ T(before) <= T(before + pay)
  BY <1>1, <1>2, MuTaxGrows
<1>8. MU!Pack.low_emoluments = 3846200
  BY DEF MU!Pack, MU!Units
<1> HIDE DEF pay, paye, t, counted, next, before, T
<1>9. /\ next.ytd = before + pay /\ next.withheld = e.withheld + paye
      /\ next.director = e.director /\ next.resident = e.resident /\ next.reliefs = e.reliefs
  <2>1. e = [s \in DOMAIN e |-> e[s]] /\ {"ytd", "withheld", "sequence"} \subseteq DOMAIN e
    BY DEF MU!Employee
  <2>2. QED  BY <1>1, <1>3, <1>5, <2>1
<1>10. counted = [s \in {"paye"} |-> <<pay, paye>>]
  BY <1>3, <1>4
<1>11. CountedKeepsUp("MU", f, sums, counted)
  BY <1>2, <1>10 DEF CountedKeepsUp, Schemes, NearSchemes
<1>12. after["paye"] = <<before + pay, sums["paye"][2] + paye>>
  BY <1>1, <1>10 DEF SumsAfter, before
<1> HIDE DEF after
<1>13. Settling(next) = Settling(e)
  BY <1>9 DEF Settling
<1>14. ASSUME Settling(e)
       PROVE  /\ e.withheld + paye <= T(before + pay)
              /\ pay >= 3846200 => e.withheld + paye = T(before + pay)
  BY <1>1, <1>2, <1>6, <1>7, <1>14 DEF AtLeast
<1>15. HandedOver("MU", next, after)
  BY <1>1, <1>9, <1>12, <1>13, <1>14 DEF HandedOver, T
<1>16. Settling(e) /\ pay >= 3846200 => after["paye"][2] = T(after["paye"][1])
  BY <1>1, <1>12, <1>14
<1>17. QED  BY <1>8, <1>11, <1>15, <1>16 DEF after, counted, next, t, pay, T

-----------------------------------------------------------------------------
(* The United States' year *)

\* The United States'.
LEMMA UsArithmetic ==
  /\ \A x, rate : US!Share(x, rate) = Share(x, rate)
  /\ \A x, y : US!AtMost(x, y) = AtMost(x, y) /\ US!AtLeast(x, y) = AtLeast(x, y)
  /\ \A x, y : US!HalfUp(x, y) = HalfUp(x, y)
  /\ \A ytd, amount, ceiling, rate :
       US!CeilingContribution(ytd, amount, ceiling, rate)
       = CeilingContribution(ytd, amount, ceiling, rate)
  BY DEF US!Share, Share, US!HalfUp, HalfUp, US!AtMost, AtMost, US!AtLeast, AtLeast,
         US!CeilingContribution, CeilingContribution

\* A contribution is within k cents of what its wages add to what is owed.
Within(x, y, z, k) == x \in Int /\ y \in Int /\ z \in Int /\ Near(x + y, z, k)

\* Contributions to several funds are as near as the funds together.
LEMMA SumsWithin ==
  ASSUME NEW x, NEW y, NEW z, NEW u, NEW v, NEW w, NEW k \in Nat, NEW l \in Nat,
         Within(x, y, z, k), Within(u, v, w, l)
  PROVE  Within(x + u, y + v, z + w, k + l)
  BY DEF Within, Near

\* A contribution up to a ceiling keeps up within a cent.
LEMMA CeilingWithin ==
  ASSUME NEW rate, IsRate(rate), NEW ceiling \in Int, NEW before \in Nat, NEW amount \in Nat,
         NEW after, after = before + amount,
         NEW ytd \in Int, AtLeast(0, ceiling - ytd) = AtLeast(0, ceiling - before)
  PROVE  Within(CeilingContribution(ytd, amount, ceiling, rate),
                CeilingContribution(0, before, ceiling, rate),
                CeilingContribution(0, after, ceiling, rate), 1)
<1> DEFINE x == CeilingContribution(ytd, amount, ceiling, rate)
<1> DEFINE y == CeilingContribution(0, before, ceiling, rate)
<1> DEFINE z == CeilingContribution(0, after, ceiling, rate)
<1>1. x \in Int /\ y \in Int /\ z \in Int /\ Near(x + y, z, 1)
  BY CeilingsKeepUp
<1> HIDE DEF x, y, z
<1>2. Within(x, y, z, 1)
  BY <1>1 DEF Within
<1>3. QED  BY <1>2 DEF x, y, z

\* A contribution on all wages keeps up within a cent.
LEMMA ShareWithin ==
  ASSUME NEW rate, IsRate(rate), NEW before \in Int, NEW amount \in Int,
         NEW after, after = before + amount
  PROVE  Within(Share(amount, rate), Share(before, rate), Share(after, rate), 1)
<1> DEFINE x == Share(amount, rate)
<1> DEFINE y == Share(before, rate)
<1> DEFINE z == Share(after, rate)
<1>1. amount + before = after
  OBVIOUS
<1>2. x \in Int /\ y \in Int /\ z \in Int /\ Near(x + y, z, 1)
  BY <1>1, SharesAdd
<1> HIDE DEF x, y, z
<1>3. Within(x, y, z, 1)
  BY <1>2 DEF Within
<1>4. QED  BY <1>3 DEF x, y, z

\* The amount before a period advances by what its ceiling still covers.
LEMMA CeilingAdvances ==
  ASSUME NEW before \in Nat, NEW amount \in Nat, NEW cap \in Nat, NEW ytd, ytd = AtMost(before, cap)
  PROVE  /\ ytd \in Nat
         /\ AtLeast(0, cap - ytd) = AtLeast(0, cap - before)
         /\ ytd + AtMost(amount, AtLeast(0, cap - ytd)) = AtMost(before + amount, cap)
  BY DEF AtMost, AtLeast

\* The wage bases of the rule pack are amounts.
LEMMA WageBasesAreAmounts ==
  /\ \A base \in DOMAIN US!WageBases : US!WageBases[base] \in Nat
  /\ DOMAIN US!WageBases = {"ss", "futa", "nj_ui_wf", "nj_tdi_fli", "co_famli", "ak_ui", "wa_pfml",
                            "or_paid_leave"}
  /\ \A tax : tax \in DOMAIN US!NoWages <=>
                tax \in DOMAIN US!WageBases \/ tax \in {"medicare", "sui", "ny_pfl_tax"}
  /\ \A tax \in DOMAIN US!NoWages : US!NoWages[tax] = 0
  BY DEF US!WageBases, US!NoWages, US!Units

\* What the worker would be asked for, paid the wages at once in a new year.
LEMMA PaidAtOnceIs ==
  ASSUME NEW f \in US!Employee, f.ytd = US!NoWages, NEW w \in Nat
  PROVE  /\ PaidAtOnce(f, w).gross_pay = w /\ US!FicaWages(PaidAtOnce(f, w)) = w
         /\ PaidAtOnce(f, w).state = f.state /\ PaidAtOnce(f, w).dbl = f.dbl
         /\ PaidAtOnce(f, w).sui = f.sui /\ PaidAtOnce(f, w).ytd = US!NoWages
<1> DEFINE p == PaidAtOnce(f, w)
<1>1. /\ p.gross_pay = w /\ p.pretax_125 = 0 /\ p.state = f.state /\ p.dbl = f.dbl
      /\ p.sui = f.sui /\ p.ytd = f.ytd
  BY DEF PaidAtOnce, US!Employee
<1> HIDE DEF p
<1>2. US!FicaWages(p) = w
  BY <1>1, UsArithmetic DEF US!FicaWages, AtLeast
<1>3. QED  BY <1>1, <1>2 DEF p

\* What the contributions read of a worker of the United States.
LEMMA UsFields ==
  ASSUME NEW e \in US!Employee
  PROVE  /\ e.gross_pay \in Int /\ e.pretax_401k \in Int /\ e.pretax_125 \in Int
         /\ e.ytd \in [DOMAIN US!NoWages -> Int]
         /\ e.sui # <<>> => e.sui[1] \in Int /\ e.sui[2] \in Int
<1>1. /\ e.gross_pay \in Int /\ e.pretax_401k \in Int /\ e.pretax_125 \in Int
      /\ e.ytd \in [DOMAIN US!NoWages -> Int] /\ e.sui \in {<<>>} \cup Int \X Int
  BY DEF US!Employee
<1>2. QED  BY <1>1

\* The federal contributions of a period, in its own arithmetic.
LEMMA FederalContributions ==
  /\ \A e : US!FicaAndFuta(e).social_security
            = CeilingContribution(e.ytd["ss"], US!FicaWages(e), US!WageBases["ss"], <<620, 10000>>)
  /\ \A e : US!FicaAndFuta(e).medicare = Share(US!FicaWages(e), <<145, 10000>>)
  /\ \A e : US!FicaAndFuta(e).additional_medicare
            = Share(AtLeast(0, e.ytd["medicare"] + US!FicaWages(e)
                               - AtLeast(20000000, e.ytd["medicare"])), <<90, 10000>>)
  /\ \A e : US!FicaAndFuta(e).futa
            = CeilingContribution(e.ytd["futa"], US!FicaWages(e), US!WageBases["futa"],
                                  IF e.state = "CA" THEN <<180, 10000>> ELSE <<60, 10000>>)
  /\ \A e : US!FicaAndFuta(e).sui
            = IF e.sui = <<>> THEN 0
              ELSE CeilingContribution(e.ytd["sui"], US!FicaWages(e), e.sui[2], <<e.sui[1], 1000>>)
<1>1. /\ US!Fica.social_security = <<620, 10000>> /\ US!Fica.medicare = <<145, 10000>>
      /\ US!Fica.additional = <<90, 10000>> /\ US!Fica.threshold = 20000000
      /\ US!Futa.net = <<60, 10000>> /\ DOMAIN US!Futa.net_by_state = {"CA"}
      /\ US!Futa.net_by_state["CA"] = <<180, 10000>>
  BY DEF US!Fica, US!Futa, US!Bp, US!Units
<1>2. QED  BY <1>1, UsArithmetic DEF US!FicaAndFuta

\* A worker of the United States, with what the year has counted so far.
LEMMA UsPay ==
  ASSUME NEW e \in US!Employee, US!Valid(e)
  PROVE  e.gross_pay \in Nat /\ US!FicaWages(e) \in Nat
<1>1. e.gross_pay \in Nat /\ e.pretax_125 \in Int
  <2>1. US!NonNegative(e, {"gross_pay", "pretax_401k", "pretax_125"})
    BY DEF US!Valid, US!ValidEmployee
  <2>2. e.gross_pay >= 0
    BY <2>1, Zenon DEF US!NonNegative
  <2>3. e.gross_pay \in Int /\ e.pretax_125 \in Int
    BY UsFields
  <2>4. QED  BY <2>2, <2>3
<1>2. QED  BY <1>1, UsArithmetic DEF US!FicaWages, AtLeast

\* Social security, Medicare and what high earners add to it: a cent each.
LEMMA FicaKeepsUp ==
  ASSUME NEW f \in US!Employee, f.ytd = US!NoWages, NEW e, NEW before \in Nat,
         US!FicaWages(e) \in Nat,
         e.ytd["medicare"] = before, e.ytd["ss"] = AtMost(before, US!WageBases["ss"])
  PROVE  KeepsUp(US!FicaAndFuta(e).social_security + US!FicaAndFuta(e).medicare
                   + US!FicaAndFuta(e).additional_medicare,
                 Owed(f, "fica", before), Owed(f, "fica", before + US!FicaWages(e)))
<1> DEFINE wages == US!FicaWages(e)
<1> DEFINE cap == US!WageBases["ss"]
<1> DEFINE after == before + wages
<1> DEFINE ss(y, w) == CeilingContribution(y, w, cap, <<620, 10000>>)
<1> DEFINE medicare(w) == Share(w, <<145, 10000>>)
<1> DEFINE above(y, w) == AtLeast(0, y + w - AtLeast(20000000, y))
<1> DEFINE additional(y, w) == Share(above(y, w), <<90, 10000>>)
<1>1. cap \in Nat /\ US!NoWages["ss"] = 0 /\ US!NoWages["medicare"] = 0
  BY WageBasesAreAmounts
<1>2. after \in Nat /\ after = before + wages
  OBVIOUS
<1>3. ASSUME NEW w \in Nat
      PROVE  Owed(f, "fica", w) = ss(0, w) + medicare(w) + additional(0, w)
  <2> DEFINE p == PaidAtOnce(f, w)
  <2>1. US!FicaWages(p) = w /\ p.ytd = US!NoWages
    BY PaidAtOnceIs
  <2> HIDE DEF p
  <2>2. p.ytd["ss"] = 0 /\ p.ytd["medicare"] = 0
    BY <1>1, <2>1
  <2>3. US!FicaAndFuta(p).social_security = ss(p.ytd["ss"], US!FicaWages(p))
    BY FederalContributions
  <2>4. US!FicaAndFuta(p).medicare = medicare(US!FicaWages(p))
    BY FederalContributions
  <2>5. US!FicaAndFuta(p).additional_medicare = additional(p.ytd["medicare"], US!FicaWages(p))
    BY FederalContributions
  <2>6. Owed(f, "fica", w) = US!FicaAndFuta(p).social_security + US!FicaAndFuta(p).medicare
                             + US!FicaAndFuta(p).additional_medicare
    BY DEF Owed, p
  <2> HIDE DEF ss, medicare, additional
  <2>7. QED  BY <2>1, <2>2, <2>3, <2>4, <2>5, <2>6
<1>4. /\ US!FicaAndFuta(e).social_security = ss(e.ytd["ss"], wages)
      /\ US!FicaAndFuta(e).medicare = medicare(wages)
      /\ US!FicaAndFuta(e).additional_medicare = additional(before, wages)
  <2>1. US!FicaAndFuta(e).social_security = ss(e.ytd["ss"], wages)
    BY FederalContributions
  <2>2. US!FicaAndFuta(e).medicare = medicare(wages)
    BY FederalContributions
  <2>3. US!FicaAndFuta(e).additional_medicare = additional(e.ytd["medicare"], wages)
    BY FederalContributions
  <2> HIDE DEF ss, medicare, additional
  <2>4. QED  BY <2>1, <2>2, <2>3
<1>5. /\ IsRate(<<620, 10000>>) /\ IsRate(<<145, 10000>>) /\ IsRate(<<90, 10000>>)
  BY DEF IsRate
<1>6. e.ytd["ss"] \in Int /\ AtLeast(0, cap - e.ytd["ss"]) = AtLeast(0, cap - before)
  BY <1>1 DEF AtMost, AtLeast
<1>7. /\ above(before, wages) \in Int /\ above(0, before) \in Int
      /\ above(0, after) = above(0, before) + above(before, wages)
  BY DEF AtLeast
<1> HIDE DEF after, wages, cap, above
<1>8. Within(ss(e.ytd["ss"], wages), ss(0, before), ss(0, after), 1)
  BY <1>1, <1>2, <1>5, <1>6, CeilingWithin DEF wages
<1>9. Within(medicare(wages), medicare(before), medicare(after), 1)
  BY <1>2, <1>5, ShareWithin DEF wages
<1>10. Within(additional(before, wages), additional(0, before), additional(0, after), 1)
  BY <1>5, <1>7, ShareWithin
<1> HIDE DEF ss, medicare, additional
<1>11. Within(ss(e.ytd["ss"], wages) + medicare(wages), ss(0, before) + medicare(before),
              ss(0, after) + medicare(after), 2)
  BY <1>8, <1>9 DEF Within, Near
<1>12. Within(ss(e.ytd["ss"], wages) + medicare(wages) + additional(before, wages),
              ss(0, before) + medicare(before) + additional(0, before),
              ss(0, after) + medicare(after) + additional(0, after), 3)
  BY <1>10, <1>11 DEF Within, Near
<1>13. QED  BY <1>2, <1>3, <1>4, <1>12 DEF Within, KeepsUp, wages, after

\* Federal unemployment tax, and the state's at the employer's own rate: a cent each.
LEMMA UnemploymentKeepsUp ==
  ASSUME NEW f \in US!Employee, f.ytd = US!NoWages, NEW e \in US!Employee, US!Valid(e),
         SameWorker("US", f, e), US!FicaWages(e) \in Nat, NEW before \in Nat
  PROVE  /\ e.ytd["futa"] = AtMost(before, US!WageBases["futa"]) =>
              KeepsUp(US!FicaAndFuta(e).futa, Owed(f, "futa", before),
                      Owed(f, "futa", before + US!FicaWages(e)))
         /\ (e.sui # <<>> => AtLeast(0, e.sui[2] - e.ytd["sui"]) = AtLeast(0, e.sui[2] - before)) =>
              KeepsUp(US!FicaAndFuta(e).sui, Owed(f, "sui", before),
                      Owed(f, "sui", before + US!FicaWages(e)))
<1> DEFINE wages == US!FicaWages(e)
<1> DEFINE after == before + wages
<1> DEFINE net == IF e.state = "CA" THEN <<180, 10000>> ELSE <<60, 10000>>
<1> DEFINE cap == US!WageBases["futa"]
<1>1. cap \in Nat /\ US!NoWages["futa"] = 0 /\ US!NoWages["sui"] = 0
  BY WageBasesAreAmounts
<1>2. after \in Nat /\ after = before + wages
  OBVIOUS
<1>3. f.state = e.state /\ f.sui = e.sui
  BY DEF SameWorker
<1>4. e.ytd["sui"] \in Int /\ (e.sui # <<>> => e.sui[1] \in Int /\ e.sui[2] \in Int)
  BY WageBasesAreAmounts, UsFields
<1>5. ASSUME NEW w \in Nat
      PROVE  /\ Owed(f, "futa", w) = CeilingContribution(0, w, cap, net)
             /\ Owed(f, "sui", w) = IF e.sui = <<>> THEN 0
                                    ELSE CeilingContribution(0, w, e.sui[2], <<e.sui[1], 1000>>)
  <2> DEFINE p == PaidAtOnce(f, w)
  <2>1. US!FicaWages(p) = w /\ p.ytd = US!NoWages /\ p.state = e.state /\ p.sui = e.sui
    BY <1>3, PaidAtOnceIs
  <2> HIDE DEF p
  <2>2. /\ US!FicaAndFuta(p).futa = CeilingContribution(0, w, cap, net)
        /\ US!FicaAndFuta(p).sui = IF e.sui = <<>> THEN 0
                                   ELSE CeilingContribution(0, w, e.sui[2], <<e.sui[1], 1000>>)
    BY <1>1, <2>1, FederalContributions
  <2>3. Owed(f, "futa", w) = US!FicaAndFuta(p)["futa"] /\ Owed(f, "sui", w) = US!FicaAndFuta(p)["sui"]
    BY DEF Owed, p
  <2>4. QED  BY <2>2, <2>3
<1>6. /\ US!FicaAndFuta(e).futa = CeilingContribution(e.ytd["futa"], wages, cap, net)
      /\ US!FicaAndFuta(e).sui
           = IF e.sui = <<>> THEN 0
             ELSE CeilingContribution(e.ytd["sui"], wages, e.sui[2], <<e.sui[1], 1000>>)
  BY FederalContributions
<1>7. IsRate(net)
  BY DEF IsRate
<1>11. wages \in Nat
  OBVIOUS
<1> HIDE DEF after, wages, cap, net
<1>8. ASSUME e.ytd["futa"] = AtMost(before, cap)
      PROVE  KeepsUp(US!FicaAndFuta(e).futa, Owed(f, "futa", before), Owed(f, "futa", after))
  <2>1. e.ytd["futa"] \in Int /\ AtLeast(0, cap - e.ytd["futa"]) = AtLeast(0, cap - before)
    BY <1>1, <1>8 DEF AtMost, AtLeast
  <2>2. Within(CeilingContribution(e.ytd["futa"], wages, cap, net),
               CeilingContribution(0, before, cap, net), CeilingContribution(0, after, cap, net), 1)
    BY <1>1, <1>2, <1>7, <1>11, <2>1, CeilingWithin
  <2>3. QED  BY <1>2, <1>5, <1>6, <2>2, KeepsUpWithin DEF Within
<1>9. ASSUME e.sui # <<>> => AtLeast(0, e.sui[2] - e.ytd["sui"]) = AtLeast(0, e.sui[2] - before)
      PROVE  KeepsUp(US!FicaAndFuta(e).sui, Owed(f, "sui", before), Owed(f, "sui", after))
  <2>1. CASE e.sui = <<>>
    BY <1>2, <1>5, <1>6, <2>1 DEF KeepsUp, Near
  <2>2. CASE e.sui # <<>>
    <3> DEFINE base == e.sui[2]
    <3> DEFINE rate == <<e.sui[1], 1000>>
    <3>1. base \in Int /\ IsRate(rate)
      BY <1>4, <2>2 DEF IsRate
    <3>2. AtLeast(0, base - e.ytd["sui"]) = AtLeast(0, base - before)
      BY <1>9, <2>2
    <3>3. /\ US!FicaAndFuta(e).sui = CeilingContribution(e.ytd["sui"], wages, base, rate)
          /\ Owed(f, "sui", before) = CeilingContribution(0, before, base, rate)
          /\ Owed(f, "sui", after) = CeilingContribution(0, after, base, rate)
      BY <1>2, <1>5, <1>6, <2>2
    <3> HIDE DEF base, rate
    <3>4. Within(CeilingContribution(e.ytd["sui"], wages, base, rate),
                 CeilingContribution(0, before, base, rate), CeilingContribution(0, after, base, rate), 1)
      BY <1>2, <1>4, <3>1, <3>2, CeilingWithin DEF wages
    <3>5. QED  BY <3>3, <3>4, KeepsUpWithin DEF Within
  <2>3. QED  BY <2>1, <2>2
<1>10. QED  BY <1>8, <1>9 DEF after, wages, cap

\* Washington's premium on covered wages, as its two divisions have it.
WaPremium(wages) ==
  LET thousands == (wages \div 100000) * 807159
      rest == wages % 100000
  IN  thousands \div 1000
      + HalfUp((thousands % 1000) * 100 + (rest \div 1000) * 807159
               + ((rest % 1000) * 807159) \div 1000, 100000)

\* What the divisions drop is less than a thousandth of a cent.
LEMMA WaPremiumRounds ==
  ASSUME NEW wages \in Nat
  PROVE  /\ WaPremium(wages) \in Int
         /\ 2 * (807159 * wages) - 100002000 < 200000000 * WaPremium(wages)
         /\ 200000000 * WaPremium(wages) <= 2 * (807159 * wages) + 100000000
<1> DEFINE q == wages \div 100000
<1> DEFINE r == wages % 100000
<1>1. q \in Int /\ r \in Int /\ wages = 100000 * q + r
  OBVIOUS
<1> DEFINE thousands == q * 807159
<1> DEFINE a == thousands \div 1000
<1> DEFINE b == thousands % 1000
<1>2. thousands \in Int /\ a \in Int /\ b \in Int /\ thousands = 1000 * a + b
  <2>1. thousands \in Int
    BY <1>1
  <2> HIDE DEF thousands
  <2>2. QED  BY <2>1
<1> DEFINE c == r \div 1000
<1> DEFINE d == r % 1000
<1>3. c \in Int /\ d \in Int /\ r = 1000 * c + d
  <2> HIDE DEF r
  <2>1. r \in Int
    BY <1>1
  <2>2. QED  BY <2>1
<1> DEFINE g == (d * 807159) \div 1000
<1> DEFINE h == (d * 807159) % 1000
<1>4. g \in Int /\ h \in Int /\ 0 <= h /\ h <= 999 /\ d * 807159 = 1000 * g + h
  <2> DEFINE k == d * 807159
  <2> HIDE DEF d
  <2>1. k \in Int
    BY <1>3
  <2> HIDE DEF k
  <2>2. /\ k \div 1000 \in Int /\ k % 1000 \in Int /\ 0 <= k % 1000 /\ k % 1000 <= 999
        /\ k = 1000 * (k \div 1000) + (k % 1000)
    BY <2>1
  <2>3. QED  BY <2>2 DEF k
<1> DEFINE n == b * 100 + c * 807159 + g
<1> DEFINE cents == HalfUp(n, 100000)
<1>5. WaPremium(wages) = a + cents
  BY DEF WaPremium
<1> HIDE DEF q, r, a, b, c, d, g, h
<1>6. n \in Int /\ n = b * 100 + c * 807159 + g /\ thousands = q * 807159
  BY <1>2, <1>3, <1>4
<1> HIDE DEF n, thousands
<1>7. cents \in Int /\ 2 * n - 100000 < 2 * (100000 * cents) /\ 2 * (100000 * cents) <= 2 * n + 100000
  <2> DEFINE half == 100000
  <2>1. half = 100000
    OBVIOUS
  <2> HIDE DEF half
  <2>5. half \in Int /\ half > 0 /\ n \in Int
    BY <1>6, <2>1
  <2>2. /\ HalfUp(n, half) \in Int /\ 2 * n - half < 2 * (half * HalfUp(n, half))
        /\ 2 * (half * HalfUp(n, half)) <= 2 * n + half
    BY <2>5, HalfUpRounds
  <2>3. cents = HalfUp(n, half)
    BY <2>1
  <2> HIDE DEF cents
  <2>4. QED  BY <2>1, <2>2, <2>3, <2>5, SMT
<1>8. 807159 * wages = 100000000 * a + 1000 * n + h
  <2>1. 807159 * wages = 100000 * thousands + 807159 * r
    BY <1>1, <1>6
  <2>2. 807159 * r = 1000 * (c * 807159) + 1000 * g + h
    BY <1>3, <1>4
  <2>3. 100000 * thousands = 100000000 * a + 1000 * (b * 100)
    BY <1>2
  <2>4. 1000 * n = 1000 * (b * 100) + 1000 * (c * 807159) + 1000 * g
    BY <1>2, <1>3, <1>4, <1>6
  <2> DEFINE B == 1000 * (b * 100)
  <2> DEFINE C == 1000 * (c * 807159)
  <2>5. B \in Int /\ C \in Int /\ 1000 * g \in Int /\ h \in Int /\ 100000000 * a \in Int
    BY <1>2, <1>3, <1>4
  <2> HIDE DEF B, C
  <2>6. 807159 * wages = (100000000 * a + B) + (C + 1000 * g + h)
    BY <2>1, <2>2, <2>3 DEF B, C
  <2>7. 1000 * n = B + C + 1000 * g
    BY <2>4 DEF B, C
  <2>8. QED  BY <2>5, <2>6, <2>7
<1> HIDE DEF cents
<1>9. QED  BY <1>2, <1>4, <1>5, <1>6, <1>7, <1>8

\* Premiums on parts of the covered wages are the premium on them all, to a cent.
LEMMA WaPremiumsAdd ==
  ASSUME NEW x \in Nat, NEW y \in Nat, NEW z, z = x + y
  PROVE  Within(WaPremium(x), WaPremium(y), WaPremium(z), 1)
<1> DEFINE s == WaPremium(x)
<1> DEFINE t == WaPremium(y)
<1> DEFINE u == WaPremium(z)
<1>1. /\ s \in Int /\ 2 * (807159 * x) - 100002000 < 200000000 * s
      /\ 200000000 * s <= 2 * (807159 * x) + 100000000
  BY WaPremiumRounds
<1>2. /\ t \in Int /\ 2 * (807159 * y) - 100002000 < 200000000 * t
      /\ 200000000 * t <= 2 * (807159 * y) + 100000000
  BY WaPremiumRounds
<1>3. z \in Nat
  OBVIOUS
<1>4. /\ u \in Int /\ 2 * (807159 * z) - 100002000 < 200000000 * u
      /\ 200000000 * u <= 2 * (807159 * z) + 100000000
  BY <1>3, WaPremiumRounds
<1> HIDE DEF s, t, u
<1>5. s + t - u <= 1 /\ u - (s + t) <= 1
  BY <1>1, <1>2, <1>3, <1>4
<1>6. Within(s, t, u, 1)
  BY <1>1, <1>2, <1>4, <1>5 DEF Within, Near
<1>7. QED  BY <1>6 DEF s, t, u

\* Each state's own funds, with the rates of the rule pack.
LEMMA StateFunds ==
  /\ \A e : e.state = "CA" => US!StateContributions(e) = Share(US!FicaWages(e), <<130, 10000>>)
  /\ \A e : e.state = "NJ" =>
       US!StateContributions(e) = US!Capped(e, "nj_ui_wf", <<425, 100000>>)
         + US!Capped(e, "nj_tdi_fli", <<19, 10000>>) + US!Capped(e, "nj_tdi_fli", <<23, 10000>>)
  /\ \A e : e.state = "PA" => US!StateContributions(e) = Share(e.gross_pay, <<7, 10000>>)
  /\ \A e : e.state = "CO" => US!StateContributions(e) = US!Capped(e, "co_famli", <<44, 10000>>)
  /\ \A e : e.state = "AK" => US!StateContributions(e) = US!Capped(e, "ak_ui", <<50, 10000>>)
  /\ \A e : e.state = "WA" =>
       US!StateContributions(e)
       = WaPremium(AtMost(e.gross_pay, AtLeast(0, US!WageBases["wa_pfml"] - e.ytd["wa_pfml"])))
         + Share(e.gross_pay, <<58, 10000>>)
  /\ \A e : e.state = "OR" =>
       US!StateContributions(e)
       = Share(e.gross_pay, <<10, 10000>>) + US!Capped(e, "or_paid_leave", <<60, 10000>>)
  /\ \A e : e.state \notin {"CA", "NJ", "NY", "PA", "CO", "AK", "WA", "OR"} =>
       US!StateContributions(e) = 0
<1>1. \A e : e.state = "CA" => US!StateContributions(e) = Share(US!FicaWages(e), <<130, 10000>>)
  BY UsArithmetic DEF US!StateContributions, US!Bp
<1>2. \A e : e.state = "NJ" =>
       US!StateContributions(e) = US!Capped(e, "nj_ui_wf", <<425, 100000>>)
         + US!Capped(e, "nj_tdi_fli", <<19, 10000>>) + US!Capped(e, "nj_tdi_fli", <<23, 10000>>)
  <2>1. /\ US!Nj.ui_wf_swf = <<425, 100000>> /\ US!Nj.tdi = <<19, 10000>>
        /\ US!Nj.fli = <<23, 10000>>
    BY DEF US!Nj, US!Bp
  <2>2. QED  BY <2>1 DEF US!StateContributions
<1>3. \A e : e.state = "PA" => US!StateContributions(e) = Share(e.gross_pay, <<7, 10000>>)
  <2>1. US!Pennsylvania.uc = <<7, 10000>>
    BY DEF US!Pennsylvania, US!Bp
  <2>2. QED  BY <2>1, UsArithmetic DEF US!StateContributions
<1>4. \A e : e.state = "CO" => US!StateContributions(e) = US!Capped(e, "co_famli", <<44, 10000>>)
  <2>1. US!Colorado.famli = <<44, 10000>>
    BY DEF US!Colorado, US!Bp
  <2>2. QED  BY <2>1 DEF US!StateContributions
<1>5. \A e : e.state = "AK" => US!StateContributions(e) = US!Capped(e, "ak_ui", <<50, 10000>>)
  BY DEF US!StateContributions, US!AlaskaUi, US!Bp
<1>6. \A e : e.state = "WA" =>
       US!StateContributions(e)
       = WaPremium(AtMost(e.gross_pay, AtLeast(0, US!WageBases["wa_pfml"] - e.ytd["wa_pfml"])))
         + Share(e.gross_pay, <<58, 10000>>)
  <2>1. US!Washington.cares = <<58, 10000>> /\ US!Washington.pfml = 807159
    BY DEF US!Washington, US!Bp
  <2>2. \A e : US!WaPfml(e)
               = WaPremium(AtMost(e.gross_pay, AtLeast(0, US!WageBases["wa_pfml"] - e.ytd["wa_pfml"])))
    BY <2>1, UsArithmetic DEF US!WaPfml, WaPremium
  <2>3. QED  BY <2>1, <2>2, UsArithmetic DEF US!StateContributions
<1>7. \A e : e.state = "OR" =>
       US!StateContributions(e)
       = Share(e.gross_pay, <<10, 10000>>) + US!Capped(e, "or_paid_leave", <<60, 10000>>)
  <2>1. US!Oregon.stt = <<10, 10000>> /\ US!Oregon.paid_leave = <<60, 10000>>
    BY DEF US!Oregon, US!Bp
  <2>2. QED  BY <2>1, UsArithmetic DEF US!StateContributions
<1>8. \A e : e.state \notin {"CA", "NJ", "NY", "PA", "CO", "AK", "WA", "OR"} =>
       US!StateContributions(e) = 0
  BY DEF US!StateContributions
<1>9. QED  BY <1>1, <1>2, <1>3, <1>4, <1>5, <1>6, <1>7, <1>8

\* A fund of the state that stops at a wage base keeps up within a cent.
LEMMA CappedKeepsUp ==
  ASSUME NEW f \in US!Employee, f.ytd = US!NoWages, NEW e, e.gross_pay \in Nat, NEW before \in Nat,
         NEW after, after = before + e.gross_pay, NEW base \in StateBases,
         e.ytd[base] = AtMost(before, US!WageBases[base]), NEW rate, IsRate(rate)
  PROVE  Within(US!Capped(e, base, rate), US!Capped(PaidAtOnce(f, before), base, rate),
                US!Capped(PaidAtOnce(f, after), base, rate), 1)
<1> DEFINE cap == US!WageBases[base]
<1> DEFINE pay == e.gross_pay
<1> DEFINE ytd == e.ytd[base]
<1>1. cap \in Nat /\ US!NoWages[base] = 0 /\ pay \in Nat /\ after \in Nat
  BY WageBasesAreAmounts DEF StateBases
<1>2. ASSUME NEW w \in Nat
      PROVE  US!Capped(PaidAtOnce(f, w), base, rate) = CeilingContribution(0, w, cap, rate)
  <2> DEFINE p == PaidAtOnce(f, w)
  <2>1. p.gross_pay = w /\ p.ytd = US!NoWages
    BY PaidAtOnceIs
  <2> HIDE DEF p
  <2>2. US!Capped(p, base, rate) = CeilingContribution(0, w, cap, rate)
    BY <1>1, <2>1, UsArithmetic DEF US!Capped
  <2>3. QED  BY <2>2 DEF p
<1>3. US!Capped(e, base, rate) = CeilingContribution(ytd, pay, cap, rate)
  BY UsArithmetic DEF US!Capped
<1> HIDE DEF cap, pay, ytd
<1>4. ytd \in Int /\ AtLeast(0, cap - ytd) = AtLeast(0, cap - before)
  BY <1>1 DEF AtMost, AtLeast, ytd, cap
<1>5. after = before + pay
  BY DEF pay
<1>6. Within(CeilingContribution(ytd, pay, cap, rate), CeilingContribution(0, before, cap, rate),
             CeilingContribution(0, after, cap, rate), 1)
  BY <1>1, <1>4, <1>5, CeilingWithin
<1>7. QED  BY <1>1, <1>2, <1>3, <1>6

\* A fund of the state on all pay keeps up within a cent.
LEMMA SharedKeepsUp ==
  ASSUME NEW f \in US!Employee, f.ytd = US!NoWages, NEW pay \in Nat, NEW before \in Nat,
         NEW after, after = before + pay, NEW rate, IsRate(rate)
  PROVE  Within(Share(pay, rate), Share(PaidAtOnce(f, before).gross_pay, rate),
                Share(PaidAtOnce(f, after).gross_pay, rate), 1)
<1>1. after \in Nat
  OBVIOUS
<1>2. PaidAtOnce(f, before).gross_pay = before /\ PaidAtOnce(f, after).gross_pay = after
  BY <1>1, PaidAtOnceIs
<1>3. Within(Share(pay, rate), Share(before, rate), Share(after, rate), 1)
  BY ShareWithin
<1>4. QED  BY <1>2, <1>3

\* What Washington counts of a period's pay.
WaCovered(e) == AtMost(e.gross_pay, AtLeast(0, US!WageBases["wa_pfml"] - e.ytd["wa_pfml"]))

\* Washington's premium keeps up within a cent.
LEMMA WashingtonKeepsUp ==
  ASSUME NEW f \in US!Employee, f.ytd = US!NoWages, NEW e, e.gross_pay \in Nat, NEW before \in Nat,
         NEW after, after = before + e.gross_pay,
         e.ytd["wa_pfml"] = AtMost(before, US!WageBases["wa_pfml"])
  PROVE  Within(WaPremium(WaCovered(e)), WaPremium(WaCovered(PaidAtOnce(f, before))),
                WaPremium(WaCovered(PaidAtOnce(f, after))), 1)
<1> DEFINE cap == US!WageBases["wa_pfml"]
<1>1. cap \in Nat /\ US!NoWages["wa_pfml"] = 0 /\ after \in Nat
  BY WageBasesAreAmounts
<1>2. ASSUME NEW w \in Nat PROVE WaCovered(PaidAtOnce(f, w)) = AtMost(w, cap)
  <2>1. PaidAtOnce(f, w).gross_pay = w /\ PaidAtOnce(f, w).ytd = US!NoWages
    BY PaidAtOnceIs
  <2>2. AtLeast(0, cap - 0) = cap
    BY <1>1 DEF AtLeast
  <2>3. QED  BY <1>1, <2>1, <2>2 DEF WaCovered
<1> DEFINE x == WaCovered(e)
<1> DEFINE y == AtMost(before, cap)
<1> DEFINE z == AtMost(after, cap)
<1>3. x \in Nat /\ y \in Nat /\ z = x + y
  BY <1>1 DEF WaCovered, AtMost, AtLeast
<1> HIDE DEF x, y, z
<1>4. Within(WaPremium(x), WaPremium(y), WaPremium(z), 1)
  BY <1>3, WaPremiumsAdd
<1>5. WaCovered(PaidAtOnce(f, before)) = y /\ WaCovered(PaidAtOnce(f, after)) = z
  BY <1>1, <1>2 DEF y, z
<1>6. QED  BY <1>4, <1>5 DEF x

\* California's insurance counts what Social Security does, without a ceiling.
LEMMA CaliforniaKeepsUp ==
  ASSUME NEW f \in US!Employee, f.ytd = US!NoWages, f.state = "CA", NEW e, e.state = "CA",
         NEW wages \in Nat, wages = US!FicaWages(e), NEW before \in Nat,
         NEW after, after = before + wages
  PROVE  Within(US!StateContributions(e), US!StateContributions(PaidAtOnce(f, before)),
                US!StateContributions(PaidAtOnce(f, after)), 1)
<1> DEFINE rate == <<130, 10000>>
<1> DEFINE p == PaidAtOnce(f, before)
<1> DEFINE q == PaidAtOnce(f, after)
<1>1. IsRate(rate)
  BY DEF IsRate
<1>2. after \in Nat
  OBVIOUS
<1>3. /\ US!FicaWages(p) = before /\ p.state = "CA"
      /\ US!FicaWages(q) = after /\ q.state = "CA"
  BY <1>2, PaidAtOnceIs
<1> HIDE DEF p, q
<1>4. /\ US!StateContributions(e) = Share(wages, rate)
      /\ US!StateContributions(p) = Share(before, rate)
      /\ US!StateContributions(q) = Share(after, rate)
  BY <1>3, StateFunds
<1> HIDE DEF rate
<1>5. Within(Share(wages, rate), Share(before, rate), Share(after, rate), 1)
  BY <1>1, ShareWithin
<1>6. QED  BY <1>4, <1>5 DEF p, q

\* The contributions to a state's funds keep up, to a cent for each fund.
LEMMA StateKeepsUp ==
  ASSUME NEW f \in US!Employee, f.ytd = US!NoWages, NEW e, e.state = f.state, e.state # "NY",
         e.gross_pay \in Nat, US!FicaWages(e) \in Nat, NEW before \in Nat, NEW wages,
         wages = IF e.state = "CA" THEN US!FicaWages(e) ELSE e.gross_pay,
         e.state # "CA" =>
           \A base \in StateBases : e.ytd[base] = AtMost(before, US!WageBases[base])
  PROVE  KeepsUp(US!StateContributions(e), Owed(f, "state", before), Owed(f, "state", before + wages))
<1> DEFINE after == before + wages
<1> DEFINE p == PaidAtOnce(f, before)
<1> DEFINE q == PaidAtOnce(f, after)
<1>1. wages \in Nat /\ after \in Nat /\ after = before + wages
  OBVIOUS
<1>2. Owed(f, "state", before) = US!StateContributions(p)
      /\ Owed(f, "state", after) = US!StateContributions(q)
  BY DEF Owed
<1>3. p.state = e.state /\ q.state = e.state
  BY <1>1, PaidAtOnceIs
<1>4. {"nj_ui_wf", "nj_tdi_fli", "co_famli", "ak_ui", "wa_pfml", "or_paid_leave"} \subseteq StateBases
  BY WageBasesAreAmounts DEF StateBases
<1> DEFINE s == US!StateContributions(e)
<1> DEFINE t == US!StateContributions(p)
<1> DEFINE u == US!StateContributions(q)
<1> HIDE DEF after
<1>5. ASSUME NEW base \in StateBases, e.state # "CA", NEW rate, IsRate(rate)
      PROVE  Within(US!Capped(e, base, rate), US!Capped(p, base, rate), US!Capped(q, base, rate), 1)
  BY <1>1, <1>5, CappedKeepsUp
<1>6. ASSUME e.state # "CA", NEW rate, IsRate(rate)
      PROVE  Within(Share(e.gross_pay, rate), Share(p.gross_pay, rate), Share(q.gross_pay, rate), 1)
  BY <1>1, <1>6, SharedKeepsUp
<1>7. ASSUME e.state # "CA"
      PROVE  Within(WaPremium(WaCovered(e)), WaPremium(WaCovered(p)), WaPremium(WaCovered(q)), 1)
  BY <1>1, <1>4, <1>7, WashingtonKeepsUp
<1>9. /\ IsRate(<<425, 100000>>) /\ IsRate(<<19, 10000>>) /\ IsRate(<<23, 10000>>)
      /\ IsRate(<<7, 10000>>) /\ IsRate(<<44, 10000>>) /\ IsRate(<<50, 10000>>)
      /\ IsRate(<<58, 10000>>) /\ IsRate(<<10, 10000>>) /\ IsRate(<<60, 10000>>)
      /\ IsRate(<<130, 10000>>)
  BY DEF IsRate
<1> HIDE DEF p, q
<1>10. KeepsUp(s, t, u)
  <2>1. CASE e.state = "CA"
    <3>1. Within(s, t, u, 1)
      BY <1>1, <2>1, CaliforniaKeepsUp DEF p, q
    <3> HIDE DEF s, t, u
    <3>2. QED  BY <3>1 DEF Within, KeepsUp, Near
  <2>2. CASE e.state = "NJ"
    <3> DEFINE a(x) == US!Capped(x, "nj_ui_wf", <<425, 100000>>)
    <3> DEFINE b(x) == US!Capped(x, "nj_tdi_fli", <<19, 10000>>)
    <3> DEFINE c(x) == US!Capped(x, "nj_tdi_fli", <<23, 10000>>)
    <3>1. Within(a(e), a(p), a(q), 1) /\ Within(b(e), b(p), b(q), 1) /\ Within(c(e), c(p), c(q), 1)
      BY <1>4, <1>5, <1>9, <2>2
    <3>2. s = a(e) + b(e) + c(e) /\ t = a(p) + b(p) + c(p) /\ u = a(q) + b(q) + c(q)
      BY <1>3, <2>2, StateFunds
    <3> HIDE DEF a, b, c, s, t, u
    <3>3. QED  BY <3>1, <3>2 DEF Within, KeepsUp, Near
  <2>3. CASE e.state = "PA"
    <3>1. Within(s, t, u, 1)
      BY <1>3, <1>6, <1>9, <2>3, StateFunds
    <3> HIDE DEF s, t, u
    <3>2. QED  BY <3>1 DEF Within, KeepsUp, Near
  <2>4. CASE e.state = "CO"
    <3>1. Within(s, t, u, 1)
      BY <1>3, <1>4, <1>5, <1>9, <2>4, StateFunds
    <3> HIDE DEF s, t, u
    <3>2. QED  BY <3>1 DEF Within, KeepsUp, Near
  <2>5. CASE e.state = "AK"
    <3>1. Within(s, t, u, 1)
      BY <1>3, <1>4, <1>5, <1>9, <2>5, StateFunds
    <3> HIDE DEF s, t, u
    <3>2. QED  BY <3>1 DEF Within, KeepsUp, Near
  <2>6. CASE e.state = "WA"
    <3> DEFINE a(x) == WaPremium(WaCovered(x))
    <3> DEFINE b(x) == Share(x.gross_pay, <<58, 10000>>)
    <3>1. Within(a(e), a(p), a(q), 1) /\ Within(b(e), b(p), b(q), 1)
      BY <1>6, <1>7, <1>9, <2>6
    <3>2. s = a(e) + b(e) /\ t = a(p) + b(p) /\ u = a(q) + b(q)
      BY <1>3, <2>6, StateFunds DEF WaCovered
    <3> HIDE DEF a, b, s, t, u
    <3>3. QED  BY <3>1, <3>2 DEF Within, KeepsUp, Near
  <2>7. CASE e.state = "OR"
    <3> DEFINE a(x) == Share(x.gross_pay, <<10, 10000>>)
    <3> DEFINE b(x) == US!Capped(x, "or_paid_leave", <<60, 10000>>)
    <3>1. Within(a(e), a(p), a(q), 1) /\ Within(b(e), b(p), b(q), 1)
      BY <1>4, <1>5, <1>6, <1>9, <2>7
    <3>2. s = a(e) + b(e) /\ t = a(p) + b(p) /\ u = a(q) + b(q)
      BY <1>3, <2>7, StateFunds
    <3> HIDE DEF a, b, s, t, u
    <3>3. QED  BY <3>1, <3>2 DEF Within, KeepsUp, Near
  <2>8. CASE e.state \notin {"CA", "NJ", "NY", "PA", "CO", "AK", "WA", "OR"}
    <3>1. s = 0 /\ t = 0 /\ u = 0
      BY <1>3, <2>8, StateFunds
    <3> HIDE DEF s, t, u
    <3>2. QED  BY <3>1 DEF KeepsUp, Near
  <2>9. QED  BY <2>1, <2>2, <2>3, <2>4, <2>5, <2>6, <2>7, <2>8
<1>11. QED  BY <1>2, <1>10 DEF after

\* What a payslip hands over to the next period.
LEMMA UsAdvances ==
  ASSUME NEW e \in US!Employee, US!Valid(e)
  PROVE  LET after == Carried("US", e, US!Payslip(e))
             wages == US!FicaWages(e)
         IN  /\ after.sui = e.sui /\ after.state = e.state /\ after.dbl = e.dbl
             /\ after.ytd["medicare"] = e.ytd["medicare"] + wages
             /\ after.ytd["ny_pfl_tax"]
                  = e.ytd["ny_pfl_tax"] + (IF e.state = "NY" THEN US!PaidFamilyLeave(e) ELSE 0)
             /\ after.ytd["sui"]
                  = e.ytd["sui"] + (IF e.sui = <<>> THEN 0
                                    ELSE AtMost(wages, AtLeast(0, e.sui[2] - e.ytd["sui"])))
             /\ \A base \in {"ss", "futa"} :
                  after.ytd[base]
                  = e.ytd[base] + AtMost(wages, AtLeast(0, US!WageBases[base] - e.ytd[base]))
             /\ \A base \in StateBases :
                  after.ytd[base]
                  = e.ytd[base] + AtMost(e.gross_pay, AtLeast(0, US!WageBases[base] - e.ytd[base]))
<1> DEFINE pfl == IF e.state = "NY" THEN US!PaidFamilyLeave(e) ELSE 0
<1> DEFINE ytd == US!YtdAfter(e, pfl)
<1> DEFINE t == US!Payslip(e)
<1> DEFINE after == Carried("US", e, t)
<1>1. t.ytd_after = ytd
  BY DEF US!Payslip
<1>2. after = [e EXCEPT !.ytd = t.ytd_after]
  BY DEF Carried
<1> HIDE DEF t, after
<1>3. after.sui = e.sui /\ after.state = e.state /\ after.dbl = e.dbl /\ after.ytd = ytd
  BY <1>1, <1>2 DEF US!Employee
<1>4. /\ "medicare" \notin DOMAIN US!WageBases /\ "sui" \notin DOMAIN US!WageBases
      /\ "ny_pfl_tax" \notin DOMAIN US!WageBases
      /\ StateBases \subseteq DOMAIN US!NoWages /\ {"ss", "futa"} \subseteq DOMAIN US!NoWages
      /\ {"medicare", "sui", "ny_pfl_tax"} \subseteq DOMAIN US!NoWages
      /\ \A base \in StateBases : base \notin {"ss", "futa", "medicare", "sui", "ny_pfl_tax"}
  BY WageBasesAreAmounts DEF StateBases
<1>5. ytd["medicare"] = e.ytd["medicare"] + US!FicaWages(e)
  BY <1>4 DEF US!YtdAfter
<1>6. ytd["ny_pfl_tax"] = e.ytd["ny_pfl_tax"] + pfl
  BY <1>4 DEF US!YtdAfter
<1>7. ytd["sui"] = e.ytd["sui"] + (IF e.sui = <<>> THEN 0
                     ELSE AtMost(US!FicaWages(e), AtLeast(0, e.sui[2] - e.ytd["sui"])))
  BY <1>4, UsArithmetic DEF US!YtdAfter
<1>8. \A base \in {"ss", "futa"} :
        ytd[base] = e.ytd[base] + AtMost(US!FicaWages(e), AtLeast(0, US!WageBases[base] - e.ytd[base]))
  BY <1>4, UsArithmetic DEF US!YtdAfter
<1>9. \A base \in StateBases :
        ytd[base] = e.ytd[base] + AtMost(e.gross_pay, AtLeast(0, US!WageBases[base] - e.ytd[base]))
  BY <1>4, UsArithmetic DEF US!YtdAfter
<1> HIDE DEF ytd
<1>10. QED  BY <1>3, <1>5, <1>6, <1>7, <1>8, <1>9 DEF after, t

\* New York's leave: the year's cap is what the tax already paid leaves of it.
LEMMA LeaveOfAPeriod ==
  ASSUME NEW e, e.state = "NY", ~e.dbl
  PROVE  US!StateContributions(e)
         = AtMost(Share(e.gross_pay, <<432, 100000>>), AtLeast(0, 41191 - e.ytd["ny_pfl_tax"])) + 0
<1>1. US!NyLeave.pfl = <<432, 100000>> /\ US!NyLeave.pfl_cap = 41191
  BY DEF US!NyLeave
<1>2. US!PaidFamilyLeave(e)
      = AtMost(Share(e.gross_pay, <<432, 100000>>), AtLeast(0, 41191 - e.ytd["ny_pfl_tax"]))
  BY <1>1, UsArithmetic DEF US!PaidFamilyLeave, US!CapTax
<1>3. US!StateContributions(e) = US!PaidFamilyLeave(e) + 0
  BY DEF US!StateContributions
<1>4. QED  BY <1>2, <1>3

\* What New York has taken is near the year's share of all pay, up to the cap.
LeaveIsOwed(c, f, sums, n) ==
  c = "US" /\ f.state = "NY" /\ ~f.dbl =>
    /\ sums["state"][2] \in Int /\ sums["state"][2] <= 41191
    /\ Owed(f, "state", sums["state"][1]) \in Int
    /\ Near(sums["state"][2], Owed(f, "state", sums["state"][1]), 3 * n)

\* Another period keeps it there.
LEMMA LeaveKeepsUp ==
  ASSUME NEW f \in US!Employee, f.ytd = US!NoWages, f.state = "NY", ~f.dbl,
         NEW e, e.state = "NY", ~e.dbl, e.gross_pay \in Nat, NEW before \in Nat,
         NEW taken \in Int, e.ytd["ny_pfl_tax"] = taken, taken <= 41191, NEW n \in Nat,
         Near(taken, Owed(f, "state", before), 3 * n),
         NEW after, after = before + e.gross_pay
  PROVE  /\ US!StateContributions(e) \in Int /\ taken + US!StateContributions(e) <= 41191
         /\ US!StateContributions(e) = US!PaidFamilyLeave(e)
         /\ Owed(f, "state", after) \in Int
         /\ Near(taken + US!StateContributions(e), Owed(f, "state", after), 3 * (n + 1))
<1> DEFINE rate == <<432, 100000>>
<1> DEFINE pay == e.gross_pay
<1>1. IsRate(rate) /\ rate[1] >= 0 /\ after \in Nat /\ pay \in Nat /\ before <= after
  BY DEF IsRate
<1>2. US!NoWages["ny_pfl_tax"] = 0
  BY WageBasesAreAmounts
<1>3. ASSUME NEW w \in Nat, Share(w, rate) \in Int
      PROVE  Owed(f, "state", w) = AtMost(Share(w, rate), 41191)
  <2> DEFINE p == PaidAtOnce(f, w)
  <2>1. p.gross_pay = w /\ p.state = "NY" /\ ~p.dbl /\ p.ytd["ny_pfl_tax"] = 0
    BY <1>2, PaidAtOnceIs
  <2> HIDE DEF p
  <2>2. US!StateContributions(p)
        = AtMost(Share(p.gross_pay, rate), AtLeast(0, 41191 - p.ytd["ny_pfl_tax"])) + 0
    BY <2>1, LeaveOfAPeriod
  <2>3. Owed(f, "state", w) = US!StateContributions(p)
    BY DEF Owed, p
  <2> DEFINE s == Share(w, rate)
  <2>4. s \in Int
    BY <1>3
  <2> HIDE DEF s
  <2>5. AtMost(s, AtLeast(0, 41191 - 0)) + 0 = AtMost(s, 41191)
    BY <2>4 DEF AtMost, AtLeast
  <2>6. QED  BY <2>1, <2>2, <2>3, <2>5 DEF s
<1>4. US!StateContributions(e) = AtMost(Share(pay, rate), AtLeast(0, 41191 - taken)) + 0
  BY LeaveOfAPeriod
<1>5. US!StateContributions(e) = US!PaidFamilyLeave(e) + 0
  BY DEF US!StateContributions
<1>6. US!PaidFamilyLeave(e) = AtMost(Share(pay, rate), AtLeast(0, 41191 - taken))
  BY UsArithmetic DEF US!PaidFamilyLeave, US!CapTax, US!NyLeave
<1> HIDE DEF pay, rate
<1>7. /\ Share(pay, rate) \in Int /\ Share(before, rate) \in Int /\ Share(after, rate) \in Int
      /\ Near(Share(pay, rate) + Share(before, rate), Share(after, rate), 1)
  <2>1. after = pay + before
    BY <1>1 DEF pay
  <2>2. QED  BY <1>1, <2>1, SharesAdd
<1>8. Share(before, rate) <= Share(after, rate)
  BY <1>1, SharesGrow
<1>9. Share(pay, rate) >= 0
  BY <1>1, ShareOfNothing, SharesGrow
<1>10. Owed(f, "state", before) = AtMost(Share(before, rate), 41191)
       /\ Owed(f, "state", after) = AtMost(Share(after, rate), 41191)
  BY <1>1, <1>3, <1>7
<1> DEFINE x == Share(pay, rate)
<1> DEFINE y == Share(before, rate)
<1> DEFINE z == Share(after, rate)
<1> DEFINE c == AtMost(x, AtLeast(0, 41191 - taken)) + 0
<1>11. x \in Int /\ y \in Int /\ z \in Int /\ Near(x + y, z, 1) /\ y <= z /\ x >= 0
       /\ Near(taken, AtMost(y, 41191), 3 * n)
  BY <1>7, <1>8, <1>9, <1>10
<1> HIDE DEF x, y, z
<1>12. /\ c \in Int /\ taken + c <= 41191 /\ AtMost(z, 41191) \in Int
       /\ Near(taken + c, AtMost(z, 41191), 3 * (n + 1))
  BY <1>11 DEF Near, AtMost, AtLeast
<1>13. US!StateContributions(e) = c /\ US!PaidFamilyLeave(e) = c
  <2>1. US!PaidFamilyLeave(e) \in Int
    BY <1>6, <1>11 DEF AtMost, AtLeast, x
  <2>2. QED  BY <1>4, <1>5, <2>1 DEF x
<1> HIDE DEF c
<1>14. QED  BY <1>10, <1>12, <1>13 DEF z

\* A payslip of the United States counts the wages of four schemes, and hands them over.
LEMMA UnitedStatesKeepsUp ==
  ASSUME NEW f \in US!Employee, f.ytd = US!NoWages, NEW e \in US!Employee, US!Valid(e),
         SameWorker("US", f, e), NEW sums, AreSums("US", sums), UsHandedOver(e, sums),
         NEW n \in Nat, LeaveIsOwed("US", f, sums, n)
  PROVE  LET counted == Counted("US", e, US!Payslip(e))
         IN  /\ CountedKeepsUp("US", f, sums, counted)
             /\ UsHandedOver(Carried("US", e, US!Payslip(e)), SumsAfter(sums, counted))
             /\ LeaveIsOwed("US", f, SumsAfter(sums, counted), n + 1)
<1> DEFINE schemes == {"fica", "futa", "sui", "state"}
<1> DEFINE wages == US!FicaWages(e)
<1> DEFINE pay == e.gross_pay
<1> DEFINE stateWages == IF e.state = "CA" THEN wages ELSE pay
<1> DEFINE t == US!Payslip(e)
<1> DEFINE counted == Counted("US", e, t)
<1> DEFINE next == Carried("US", e, t)
<1> DEFINE after == SumsAfter(sums, counted)
<1> DEFINE fica == US!FicaAndFuta(e).social_security + US!FicaAndFuta(e).medicare
                   + US!FicaAndFuta(e).additional_medicare
<1>1. DOMAIN sums = schemes /\ \A s \in schemes : sums[s][1] \in Nat
  BY DEF AreSums, Schemes
<1>2. pay \in Nat /\ wages \in Nat /\ stateWages \in Nat
  BY UsPay
<1>3. e.state = f.state /\ e.dbl = f.dbl /\ e.sui = f.sui
  BY DEF SameWorker
<1>4. /\ t.fica_employee = fica /\ t.futa = US!FicaAndFuta(e).futa
      /\ t.sui = US!FicaAndFuta(e).sui /\ t.state_contributions = US!StateContributions(e)
  BY DEF US!Payslip
<1> HIDE DEF t, fica
<1>5. counted = [fica |-> <<wages, fica>>, futa |-> <<wages, US!FicaAndFuta(e).futa>>,
                 sui |-> <<wages, US!FicaAndFuta(e).sui>>,
                 state |-> <<stateWages, US!StateContributions(e)>>]
  BY <1>4 DEF Counted
<1> HIDE DEF counted
<1>6. KeepsUp(fica, Owed(f, "fica", sums["fica"][1]), Owed(f, "fica", sums["fica"][1] + wages))
  BY <1>1, <1>2, FicaKeepsUp DEF UsHandedOver, fica
<1>7. /\ KeepsUp(US!FicaAndFuta(e).futa, Owed(f, "futa", sums["futa"][1]),
                 Owed(f, "futa", sums["futa"][1] + wages))
      /\ KeepsUp(US!FicaAndFuta(e).sui, Owed(f, "sui", sums["sui"][1]),
                 Owed(f, "sui", sums["sui"][1] + wages))
  <2>1. /\ e.ytd["futa"] = AtMost(sums["futa"][1], US!WageBases["futa"])
        /\ e.sui # <<>> => AtLeast(0, e.sui[2] - e.ytd["sui"]) = AtLeast(0, e.sui[2] - sums["sui"][1])
    BY DEF UsHandedOver
  <2>2. sums["futa"][1] \in Nat /\ sums["sui"][1] \in Nat
    BY <1>1
  <2>3. KeepsUp(US!FicaAndFuta(e).futa, Owed(f, "futa", sums["futa"][1]),
                 Owed(f, "futa", sums["futa"][1] + wages))
    BY <1>2, <2>1, <2>2, UnemploymentKeepsUp
  <2>4. KeepsUp(US!FicaAndFuta(e).sui, Owed(f, "sui", sums["sui"][1]),
                 Owed(f, "sui", sums["sui"][1] + wages))
    BY <1>2, <2>1, <2>2, UnemploymentKeepsUp
  <2>5. QED  BY <2>3, <2>4
<1>8. e.state # "NY" =>
        KeepsUp(US!StateContributions(e), Owed(f, "state", sums["state"][1]),
                Owed(f, "state", sums["state"][1] + stateWages))
  <2>1. e.state # "CA" =>
          \A base \in StateBases : e.ytd[base] = AtMost(sums["state"][1], US!WageBases[base])
    BY DEF UsHandedOver
  <2>2. sums["state"][1] \in Nat
    BY <1>1
  <2>3. QED  BY <1>2, <1>3, <2>1, <2>2, StateKeepsUp
<1> HIDE DEF wages, pay, stateWages
<1>9. /\ counted = [s \in schemes |-> <<counted[s][1], counted[s][2]>>]
      /\ \A s \in schemes : counted[s][1] \in Nat
      /\ counted["fica"] = <<wages, fica>> /\ counted["futa"] = <<wages, US!FicaAndFuta(e).futa>>
      /\ counted["sui"] = <<wages, US!FicaAndFuta(e).sui>>
      /\ counted["state"] = <<stateWages, US!StateContributions(e)>>
  BY <1>2, <1>5
<1>10. CountedKeepsUp("US", f, sums, counted)
  <2>1. ASSUME NEW s \in NearSchemes("US", f)
        PROVE  KeepsUp(counted[s][2], Owed(f, s, sums[s][1]), Owed(f, s, sums[s][1] + counted[s][1]))
    <3>1. s \in {"fica", "futa", "sui"} \/ (s = "state" /\ e.state # "NY")
      BY <1>3 DEF NearSchemes, Schemes
    <3>2. QED  BY <1>6, <1>7, <1>8, <1>9, <3>1
  <2>2. QED  BY <1>9, <2>1 DEF CountedKeepsUp, Schemes
<1>11. \A s \in schemes : /\ after[s][1] = sums[s][1] + counted[s][1]
                          /\ after[s][2] = sums[s][2] + counted[s][2]
  BY <1>1 DEF SumsAfter
<1> HIDE DEF after
<1>12. /\ next.sui = e.sui /\ next.state = e.state /\ next.dbl = e.dbl
       /\ next.ytd["medicare"] = e.ytd["medicare"] + wages
       /\ next.ytd["ny_pfl_tax"]
            = e.ytd["ny_pfl_tax"] + (IF e.state = "NY" THEN US!PaidFamilyLeave(e) ELSE 0)
       /\ next.ytd["sui"]
            = e.ytd["sui"] + (IF e.sui = <<>> THEN 0
                              ELSE AtMost(wages, AtLeast(0, e.sui[2] - e.ytd["sui"])))
       /\ \A base \in {"ss", "futa"} :
            next.ytd[base] = e.ytd[base] + AtMost(wages, AtLeast(0, US!WageBases[base] - e.ytd[base]))
       /\ \A base \in StateBases :
            next.ytd[base] = e.ytd[base] + AtMost(pay, AtLeast(0, US!WageBases[base] - e.ytd[base]))
  BY UsAdvances DEF next, t, wages, pay
<1> HIDE DEF next
<1>13. LeaveIsOwed("US", f, after, n + 1)
  <2> SUFFICES ASSUME f.state = "NY", ~f.dbl
               PROVE  /\ after["state"][2] \in Int /\ after["state"][2] <= 41191
                      /\ Owed(f, "state", after["state"][1]) \in Int
                      /\ Near(after["state"][2], Owed(f, "state", after["state"][1]), 3 * (n + 1))
    BY DEF LeaveIsOwed
  <2> DEFINE before == sums["state"][1]
  <2> DEFINE taken == sums["state"][2]
  <2> DEFINE now == after["state"][1]
  <2>1. /\ taken \in Int /\ taken <= 41191 /\ Near(taken, Owed(f, "state", before), 3 * n)
        /\ e.ytd["ny_pfl_tax"] = taken /\ before \in Nat
    BY <1>1, <1>3 DEF LeaveIsOwed, UsHandedOver
  <2>2. now = before + e.gross_pay /\ e.gross_pay \in Nat
    BY <1>2, <1>3, <1>9, <1>11 DEF stateWages, pay
  <2>3. after["state"][2] = taken + US!StateContributions(e)
    BY <1>9, <1>11
  <2> HIDE DEF before, taken, now
  <2>4. /\ US!StateContributions(e) \in Int /\ taken + US!StateContributions(e) <= 41191
        /\ Owed(f, "state", now) \in Int
        /\ Near(taken + US!StateContributions(e), Owed(f, "state", now), 3 * (n + 1))
    BY <1>3, <2>1, <2>2, LeaveKeepsUp
  <2>5. QED  BY <2>1, <2>3, <2>4 DEF now
<1>14. UsHandedOver(next, after)
  <2>1. next.ytd["medicare"] = after["fica"][1]
    BY <1>9, <1>11, <1>12 DEF UsHandedOver
  <2>2. \A base \in {"ss", "futa"} : US!WageBases[base] \in Nat
    BY WageBasesAreAmounts
  <2>3. next.ytd["ss"] = AtMost(after["fica"][1], US!WageBases["ss"])
    <3> DEFINE before == sums["fica"][1]
    <3> DEFINE cap == US!WageBases["ss"]
    <3> DEFINE ytd == e.ytd["ss"]
    <3>1. before \in Nat /\ cap \in Nat /\ ytd = AtMost(before, cap)
      BY <1>1, <2>2 DEF UsHandedOver
    <3>2. /\ next.ytd["ss"] = ytd + AtMost(wages, AtLeast(0, cap - ytd))
          /\ after["fica"][1] = before + wages
      BY <1>9, <1>11, <1>12
    <3> HIDE DEF before, cap, ytd
    <3>3. ytd + AtMost(wages, AtLeast(0, cap - ytd)) = AtMost(before + wages, cap)
      BY <1>2, <3>1, CeilingAdvances
    <3>4. QED  BY <3>2, <3>3 DEF cap
  <2>4. next.ytd["futa"] = AtMost(after["futa"][1], US!WageBases["futa"])
    <3> DEFINE before == sums["futa"][1]
    <3> DEFINE cap == US!WageBases["futa"]
    <3> DEFINE ytd == e.ytd["futa"]
    <3>1. before \in Nat /\ cap \in Nat /\ ytd = AtMost(before, cap)
      BY <1>1, <2>2 DEF UsHandedOver
    <3>2. /\ next.ytd["futa"] = ytd + AtMost(wages, AtLeast(0, cap - ytd))
          /\ after["futa"][1] = before + wages
      BY <1>9, <1>11, <1>12
    <3> HIDE DEF before, cap, ytd
    <3>3. ytd + AtMost(wages, AtLeast(0, cap - ytd)) = AtMost(before + wages, cap)
      BY <1>2, <3>1, CeilingAdvances
    <3>4. QED  BY <3>2, <3>3 DEF cap
  <2>5. ASSUME e.sui # <<>>
        PROVE  AtLeast(0, e.sui[2] - next.ytd["sui"]) = AtLeast(0, e.sui[2] - after["sui"][1])
    <3> DEFINE base == e.sui[2]
    <3> DEFINE ytd == e.ytd["sui"]
    <3> DEFINE before == sums["sui"][1]
    <3>1. /\ base \in Int /\ ytd \in Int /\ before \in Nat
          /\ AtLeast(0, base - ytd) = AtLeast(0, base - before)
      BY <1>1, <2>5, WageBasesAreAmounts DEF UsHandedOver, US!Employee
    <3>2. next.ytd["sui"] = ytd + AtMost(wages, AtLeast(0, base - ytd))
          /\ after["sui"][1] = before + wages
      BY <1>9, <1>11, <1>12, <2>5
    <3> HIDE DEF base, ytd, before
    <3>3. AtLeast(0, base - (ytd + AtMost(wages, AtLeast(0, base - ytd))))
          = AtLeast(0, base - (before + wages))
      BY <1>2, <3>1 DEF AtMost, AtLeast
    <3>4. QED  BY <3>2, <3>3 DEF base
  <2>6. ASSUME e.state # "CA", NEW base \in StateBases
        PROVE  next.ytd[base] = AtMost(after["state"][1], US!WageBases[base])
    <3> DEFINE before == sums["state"][1]
    <3> DEFINE cap == US!WageBases[base]
    <3> DEFINE ytd == e.ytd[base]
    <3>1. before \in Nat /\ ytd = AtMost(before, cap)
      BY <1>1, <2>6 DEF UsHandedOver
    <3>2. cap \in Nat
      BY WageBasesAreAmounts DEF StateBases
    <3>3. next.ytd[base] = ytd + AtMost(pay, AtLeast(0, cap - ytd))
      BY <1>12
    <3>4. after["state"][1] = before + pay
      BY <1>9, <1>11, <2>6 DEF stateWages
    <3> HIDE DEF before, cap, ytd
    <3>5. ytd + AtMost(pay, AtLeast(0, cap - ytd)) = AtMost(before + pay, cap)
      BY <1>2, <3>1, <3>2, CeilingAdvances
    <3>6. QED  BY <3>3, <3>4, <3>5 DEF cap
  <2>7. ASSUME e.state = "NY", ~e.dbl
        PROVE  next.ytd["ny_pfl_tax"] = after["state"][2]
    <3>1. /\ sums["state"][2] \in Int /\ sums["state"][2] <= 41191 /\ sums["state"][1] \in Nat
          /\ Near(sums["state"][2], Owed(f, "state", sums["state"][1]), 3 * n)
          /\ e.ytd["ny_pfl_tax"] = sums["state"][2] /\ f.state = "NY" /\ ~f.dbl
      BY <1>1, <1>3, <2>7 DEF LeaveIsOwed, UsHandedOver
    <3>2. e.gross_pay \in Nat
      BY <1>2 DEF pay
    <3> DEFINE taken == sums["state"][2]
    <3> HIDE DEF taken
    <3>3. taken \in Int /\ taken <= 41191 /\ e.ytd["ny_pfl_tax"] = taken
          /\ Near(taken, Owed(f, "state", sums["state"][1]), 3 * n)
      BY <3>1 DEF taken
    <3>4. US!StateContributions(e) = US!PaidFamilyLeave(e)
      BY <2>7, <3>1, <3>2, <3>3, LeaveKeepsUp
    <3>5. QED  BY <1>9, <1>11, <1>12, <2>7, <3>1, <3>4
  <2>8. QED  BY <1>12, <2>1, <2>3, <2>4, <2>5, <2>6, <2>7 DEF UsHandedOver
<1>15. QED  BY <1>10, <1>13, <1>14 DEF after, counted, next, t

-----------------------------------------------------------------------------
(* The amounts of a year are whole, and a worker stays one the engine is given *)

\* Mauritius' tax, for directors and for whoever has reliefs as well.
LEMMA PayeIsWhole ==
  ASSUME NEW e \in MU!Employee, MU!Valid(e)
  PROVE  MU!Paye(e) \in Int
<1>1. /\ e.gross_pay \in Nat /\ e.ytd \in Nat /\ e.withheld \in Int
      /\ e.sequence \in Int /\ e.reliefs \in Int /\ e.director \in {"NONE", "DEFAULT", "ELECTED"}
  BY DEF MU!Employee, MU!Valid, MU!NonNegative
<1>2. /\ MU!Pack.director = <<15, 100>> /\ MU!Pack.director_elected = <<20, 100>>
      /\ MU!Pack.relief_periods = 13
  BY DEF MU!Pack, MU!Pct
<1>3. IsRate(<<15, 100>>) /\ IsRate(<<20, 100>>)
  BY DEF IsRate
<1>4. Share(e.gross_pay, <<15, 100>>) \in Int /\ Share(e.gross_pay, <<20, 100>>) \in Int
  BY <1>1, <1>3, SharesAdd
<1>5. MU!CumulativeTax(e) \in Int
  <2> DEFINE relief == IF e.resident THEN HalfUp(e.reliefs * e.sequence, 13) ELSE 0
  <2> DEFINE income == AtLeast(0, e.ytd + e.gross_pay - relief)
  <2>1. e.reliefs * e.sequence \in Int
    BY <1>1
  <2>2. HalfUp(e.reliefs * e.sequence, 13) \in Int
    BY <2>1, HalfUpRounds
  <2>3. income \in Nat
    <3>1. relief \in Int
      BY <2>2
    <3> HIDE DEF relief
    <3>2. QED  BY <1>1, <3>1 DEF AtLeast
  <2>4. MU!CumulativeTax(e) = BracketLookup(income, MU!Pack.brackets)
    BY <1>2, MuArithmetic DEF MU!CumulativeTax
  <2> HIDE DEF income
  <2>5. QED  BY <2>3, <2>4, MuTaxGrows
<1>6. AtLeast(0, MU!CumulativeTax(e) - e.withheld) \in Int
  BY <1>1, <1>5 DEF AtLeast
<1>7. QED  BY <1>1, <1>2, <1>4, <1>6, MuArithmetic DEF MU!Paye

\* The first tier of the Canada Pension Plan.
LEMMA FirstTierIsWhole ==
  ASSUME NEW e \in CA!Employee, CA!Valid(e)
  PROVE  CA!Payslip(e).employee_cpp1 \in Int
<1> DEFINE n == CA!Periods[e.frequency]
<1>1. e.gross_pay \in Int /\ e.ytd \in Int /\ e.frequency \in DOMAIN CA!Periods
      /\ e.pay_date \in DOMAIN CA!Cpp.base
  BY DEF CA!Employee, CA!Valid
<1>2. n \in Int /\ n > 0
  BY <1>1 DEF CA!Periods
<1>3. /\ CA!Cpp.exemption = 350000 /\ CA!Cpp.ympe = 7460000 /\ CA!Cpp.additional = 100
      /\ CA!Cpp.base[e.pay_date] \in Int
  BY <1>1 DEF CA!Cpp, CA!Units
<1> HIDE DEF n
<1>4. HalfUp(350000, n) \in Int
  BY <1>2, HalfUpRounds
<1>5. CA!Cpp1Earnings(e) \in Int
  <2>1. CA!Cpp1Earnings(e)
        = AtLeast(0, AtLeast(0, AtMost(e.gross_pay, 7460000 - e.ytd)) - HalfUp(350000, n))
    BY <1>3, CaArithmetic DEF CA!Cpp1Earnings, n
  <2>2. QED  BY <1>1, <1>4, <2>1 DEF AtMost, AtLeast
<1> DEFINE rate == <<CA!Cpp.base[e.pay_date] + 100, 10000>>
<1>6. IsRate(rate)
  BY <1>3 DEF IsRate
<1>7. CA!Payslip(e).employee_cpp1 = Share(CA!Cpp1Earnings(e), rate)
  BY <1>3, CaArithmetic DEF CA!Payslip, CA!Bp
<1> HIDE DEF rate
<1>8. QED  BY <1>5, <1>6, <1>7, SharesAdd

\* New York's leave and disability benefits.
LEMMA NewYorkIsWhole ==
  ASSUME NEW e \in US!Employee, US!Valid(e)
  PROVE  /\ US!PaidFamilyLeave(e) \in Int
         /\ e.state = "NY" => US!StateContributions(e) \in Int
<1>1. e.gross_pay \in Nat /\ e.ytd["ny_pfl_tax"] \in Int
  BY UsPay, WageBasesAreAmounts DEF US!Employee
<1>2. /\ US!NyLeave.pfl = <<432, 100000>> /\ US!NyLeave.pfl_cap = 41191
      /\ US!NyLeave.dbl = <<50, 10000>> /\ US!NyLeave.dbl_weekly_cap = 60
  BY DEF US!NyLeave, US!Bp
<1>3. IsRate(<<432, 100000>>) /\ IsRate(<<50, 10000>>)
  BY DEF IsRate
<1> DEFINE leave == Share(e.gross_pay, <<432, 100000>>)
<1> DEFINE disability == Share(e.gross_pay, <<50, 10000>>)
<1>4. leave \in Int /\ disability \in Int
  BY <1>1, <1>3, SharesAdd
<1>5. US!PaidFamilyLeave(e) = AtMost(leave, AtLeast(0, 41191 - e.ytd["ny_pfl_tax"]))
  BY <1>2, UsArithmetic DEF US!PaidFamilyLeave, US!CapTax
<1>6. e.state = "NY" =>
        US!StateContributions(e)
        = US!PaidFamilyLeave(e) + (IF e.dbl THEN AtMost(disability, 60) ELSE 0)
  BY <1>2, UsArithmetic DEF US!StateContributions
<1> HIDE DEF leave, disability
<1>7. US!PaidFamilyLeave(e) \in Int /\ AtMost(disability, 60) \in Int
  BY <1>1, <1>4, <1>5 DEF AtMost, AtLeast
<1>8. QED  BY <1>6, <1>7

\* The next period's employee, country by country: Georgia's is one the engine is given.
LEMMA CarriedInGeorgia ==
  ASSUME NEW e \in GE!Employee, GE!Valid(e)
  PROVE  /\ Carried("GE", e, GE!Payslip(e)) \in GE!Employee
         /\ \A f : SameWorker("GE", f, e) => SameWorker("GE", f, Carried("GE", e, GE!Payslip(e)))
<1> DEFINE t == GE!Payslip(e)
<1>1. t.ytd_after = e.ytd + (e.gross_pay + e.taxable_benefits)
  BY DEF GE!Payslip
<1>2. t.ytd_after \in Int
  BY <1>1 DEF GE!Employee
<1> HIDE DEF t
<1>3. Carried("GE", e, t) = [e EXCEPT !.ytd = t.ytd_after]
  BY DEF Carried
<1>4. Carried("GE", e, t) \in GE!Employee
      /\ Carried("GE", e, t).pension_participant = e.pension_participant
  BY <1>2, <1>3 DEF GE!Employee
<1>5. QED  BY <1>4 DEF SameWorker, t

\* Germany's worker carries the year's amount.
LEMMA CarriedInGermany ==
  ASSUME NEW e \in DE!Employee, NEW t, t.ytd_after \in Int
  PROVE  Carried("DE", e, t) \in DE!Employee
<1>1. Carried("DE", e, t) = [e EXCEPT !.ytd = t.ytd_after]
  BY DEF Carried
<1>2. QED  BY <1>1 DEF DE!Employee

\* Canada's carries two.
LEMMA CarriedInCanada ==
  ASSUME NEW e \in CA!Employee, CA!Valid(e)
  PROVE  /\ Carried("CA", e, CA!Payslip(e)) \in CA!Employee
         /\ \A f : SameWorker("CA", f, e) => SameWorker("CA", f, Carried("CA", e, CA!Payslip(e)))
<1> DEFINE t == CA!Payslip(e)
<1>1. t.ytd_after = e.ytd + e.gross_pay /\ t.ytd_wcb_after = WcbAfter(e)
  BY DEF CA!Payslip, WcbAfter
<1>2. t.ytd_after \in Int /\ t.ytd_wcb_after \in Int
  <2>1. e.ytd \in Int /\ e.gross_pay \in Int /\ e.ytd_wcb \in Int /\ e.wcb_ceiling \in Int
    BY DEF CA!Employee
  <2>2. QED  BY <1>1, <2>1, CaArithmetic DEF WcbAfter, AtMost, AtLeast
<1> HIDE DEF t
<1>3. Carried("CA", e, t) = [[e EXCEPT !.ytd = t.ytd_after] EXCEPT !.ytd_wcb = t.ytd_wcb_after]
  BY DEF Carried, CA!Employee
<1>4. [e EXCEPT !.ytd = t.ytd_after] \in CA!Employee
  BY <1>2 DEF CA!Employee
<1>5. Carried("CA", e, t) \in CA!Employee /\ Carried("CA", e, t).wcb_rate = e.wcb_rate
      /\ Carried("CA", e, t).wcb_ceiling = e.wcb_ceiling
  BY <1>2, <1>3, <1>4 DEF CA!Employee
<1>6. QED  BY <1>5 DEF SameWorker, t

\* The United States' carries one for every wage base.
LEMMA CarriedInTheUnitedStates ==
  ASSUME NEW e \in US!Employee, US!Valid(e)
  PROVE  /\ Carried("US", e, US!Payslip(e)) \in US!Employee
         /\ \A f : SameWorker("US", f, e) => SameWorker("US", f, Carried("US", e, US!Payslip(e)))
<1> DEFINE pfl == IF e.state = "NY" THEN US!PaidFamilyLeave(e) ELSE 0
<1> DEFINE ytd == US!YtdAfter(e, pfl)
<1> DEFINE t == US!Payslip(e)
<1>1. t.ytd_after = ytd
  BY DEF US!Payslip
<1>2. pfl \in Int
  BY NewYorkIsWhole
<1> HIDE DEF pfl, t
<1>3. ytd \in [DOMAIN US!NoWages -> Int]
  <2>1. e.ytd \in [DOMAIN US!NoWages -> Int] /\ (e.sui # <<>> => e.sui[2] \in Int)
    BY DEF US!Employee
  <2>2. ytd = [tax \in DOMAIN US!NoWages |-> ytd[tax]]
    BY DEF US!YtdAfter
  <2>3. ASSUME NEW tax \in DOMAIN US!NoWages PROVE ytd[tax] \in Int
    <3>1. e.ytd[tax] \in Int /\ e.gross_pay \in Int /\ US!FicaWages(e) \in Int
      BY <2>1, UsPay
    <3>2. CASE tax = "medicare"
      BY <3>1, <3>2 DEF US!YtdAfter
    <3>3. CASE tax = "ny_pfl_tax"
      BY <1>2, <3>1, <3>3 DEF US!YtdAfter
    <3>4. CASE tax = "sui"
      <4>1. ytd[tax] = e.ytd[tax]
                       + (IF e.sui = <<>> THEN 0
                          ELSE AtMost(US!FicaWages(e), AtLeast(0, e.sui[2] - e.ytd[tax])))
        BY <3>4, UsArithmetic DEF US!YtdAfter
      <4> HIDE DEF ytd
      <4>2. QED  BY <2>1, <3>1, <4>1 DEF AtMost, AtLeast
    <3>5. CASE tax \notin {"medicare", "ny_pfl_tax", "sui"}
      <4>1. US!WageBases[tax] \in Int
        BY <3>5, WageBasesAreAmounts
      <4>2. ytd[tax] = e.ytd[tax] + AtMost(IF tax \in {"ss", "futa"} THEN US!FicaWages(e)
                                           ELSE e.gross_pay, AtLeast(0, US!WageBases[tax] - e.ytd[tax]))
        BY <3>5, UsArithmetic DEF US!YtdAfter
      <4> HIDE DEF ytd
      <4>3. QED  BY <3>1, <4>1, <4>2 DEF AtMost, AtLeast
    <3>6. QED  BY <3>2, <3>3, <3>4, <3>5
  <2> HIDE DEF ytd
  <2>4. QED  BY <2>2, <2>3
<1> HIDE DEF ytd
<1>4. Carried("US", e, t) = [e EXCEPT !.ytd = t.ytd_after]
  BY DEF Carried
<1>5. Carried("US", e, t) \in US!Employee
      /\ Carried("US", e, t).state = e.state /\ Carried("US", e, t).dbl = e.dbl
      /\ Carried("US", e, t).sui = e.sui
  <2> DEFINE sums == t.ytd_after
  <2>1. sums \in [DOMAIN US!NoWages -> Int]
    BY <1>1, <1>3
  <2> HIDE DEF sums
  <2>2. [e EXCEPT !.ytd = sums] \in US!Employee
    BY <2>1 DEF US!Employee
  <2>3. /\ [e EXCEPT !.ytd = sums].state = e.state /\ [e EXCEPT !.ytd = sums].dbl = e.dbl
        /\ [e EXCEPT !.ytd = sums].sui = e.sui
    BY DEF US!Employee
  <2>4. QED  BY <1>4, <2>2, <2>3 DEF sums
<1>6. QED  BY <1>5 DEF SameWorker, t

\* Mauritius' counts the periods too.
LEMMA CarriedInMauritius ==
  ASSUME NEW e \in MU!Employee, MU!Valid(e)
  PROVE  /\ Carried("MU", e, MU!Payslip(e)) \in MU!Employee
         /\ \A f : SameWorker("MU", f, e) => SameWorker("MU", f, Carried("MU", e, MU!Payslip(e)))
<1> DEFINE t == MU!Payslip(e)
<1>1. t.ytd_after = e.ytd + e.gross_pay /\ t.withheld_after = e.withheld + MU!Paye(e)
  BY DEF MU!Payslip
<1>2. t.ytd_after \in Int /\ t.withheld_after \in Int /\ e.sequence + 1 \in Int
  BY <1>1, PayeIsWhole DEF MU!Employee
<1> HIDE DEF t
<1>3. Carried("MU", e, t)
      = [e EXCEPT !.ytd = t.ytd_after, !.withheld = t.withheld_after, !.sequence = @ + 1]
  BY DEF Carried
<1>4. Carried("MU", e, t) \in MU!Employee
      /\ Carried("MU", e, t).director = e.director /\ Carried("MU", e, t).resident = e.resident
      /\ Carried("MU", e, t).reliefs = e.reliefs
  BY <1>2, <1>3 DEF MU!Employee
<1>5. QED  BY <1>4 DEF SameWorker, t

-----------------------------------------------------------------------------
(* A period, in any country that adds a year up *)

Tracked == {"GE", "DE", "CA", "US", "MU"}

\* A period of pay changes nothing that the year depends on.
LEMMA PayIsTypedIn ==
  ASSUME NEW c \in Tracked, NEW e \in Employee(c), NEW pay \in Int
  PROVE  /\ WithPay(c, e, pay) \in Employee(c)
         /\ \A f : SameWorker(c, f, e) => SameWorker(c, f, WithPay(c, e, pay))
         /\ \A sums : HandedOver(c, e, sums) => HandedOver(c, WithPay(c, e, pay), sums)
<1> DEFINE next == WithPay(c, e, pay)
<1>1. CASE c = "GE"
  <2>1. e \in GE!Employee /\ next = [e EXCEPT !.gross_pay = pay]
    BY <1>1 DEF Employee, WithPay
  <2>2. next \in GE!Employee /\ next.ytd = e.ytd /\ next.pension_participant = e.pension_participant
    BY <2>1 DEF GE!Employee
  <2> HIDE DEF next
  <2>3. QED  BY <1>1, <2>2 DEF Employee, SameWorker, HandedOver, next
<1>2. CASE c = "DE"
  <2>1. e \in DE!Employee
        /\ next = [e EXCEPT !.sv_gross_pay = pay, !.taxable_gross_pay = pay]
    BY <1>2 DEF Employee, WithPay
  <2>2. next \in DE!Employee /\ next.ytd = e.ytd
    BY <2>1 DEF DE!Employee
  <2> HIDE DEF next
  <2>3. QED  BY <1>2, <2>2 DEF Employee, SameWorker, HandedOver, next
<1>3. CASE c = "CA"
  <2>1. e \in CA!Employee /\ next = [e EXCEPT !.gross_pay = pay]
    BY <1>3 DEF Employee, WithPay
  <2>2. next \in CA!Employee /\ next.ytd = e.ytd /\ next.ytd_wcb = e.ytd_wcb
        /\ next.wcb_rate = e.wcb_rate /\ next.wcb_ceiling = e.wcb_ceiling
    BY <2>1 DEF CA!Employee
  <2> HIDE DEF next
  <2>3. QED  BY <1>3, <2>2 DEF Employee, SameWorker, HandedOver, next
<1>4. CASE c = "US"
  <2>1. e \in US!Employee /\ next = [e EXCEPT !.gross_pay = pay]
    BY <1>4 DEF Employee, WithPay
  <2>2. next \in US!Employee /\ next.ytd = e.ytd /\ next.state = e.state /\ next.dbl = e.dbl
        /\ next.sui = e.sui
    BY <2>1 DEF US!Employee
  <2> HIDE DEF next
  <2>3. QED  BY <1>4, <2>2 DEF Employee, SameWorker, HandedOver, UsHandedOver, next
<1>5. CASE c = "MU"
  <2>1. e \in MU!Employee /\ next = [e EXCEPT !.gross_pay = pay]
    BY <1>5 DEF Employee, WithPay
  <2>2. next \in MU!Employee /\ next.ytd = e.ytd /\ next.withheld = e.withheld
        /\ next.director = e.director /\ next.resident = e.resident /\ next.reliefs = e.reliefs
    BY <2>1 DEF MU!Employee
  <2> HIDE DEF next
  <2>3. QED  BY <1>5, <2>2 DEF Employee, SameWorker, HandedOver, Settling, next
<1>6. QED  BY <1>1, <1>2, <1>3, <1>4, <1>5 DEF Tracked

\* What a period changes: the payslip's amounts join the year's.
PeriodIsCounted(c, f, e, sums, n) ==
  LET t == Payslip(c, e)
      counted == Counted(c, e, t)
      next == Carried(c, e, t)
      after == SumsAfter(sums, counted)
  IN  /\ CountedKeepsUp(c, f, sums, counted)
      /\ \A s \in Schemes(c) : counted[s][2] \in Int
      /\ next \in Employee(c) /\ SameWorker(c, f, next)
      /\ HandedOver(c, next, after)
      /\ LeaveIsOwed(c, f, after, n + 1)
      /\ c = "MU" /\ Settling(f) /\ t.gross_pay >= MU!Pack.low_emoluments =>
           after["paye"][2] = BracketLookup(after["paye"][1], MU!Pack.brackets)

\* Every accepted payslip is counted so.
LEMMA EveryPeriodIsCounted ==
  ASSUME NEW c \in Tracked, NEW f \in Employee(c), IsNewYear(c, f),
         NEW e \in Employee(c), Valid(c, e), SameWorker(c, f, e),
         NEW sums, AreSums(c, sums), HandedOver(c, e, sums),
         NEW n \in Nat, LeaveIsOwed(c, f, sums, n)
  PROVE  PeriodIsCounted(c, f, e, sums, n)
<1> DEFINE t == Payslip(c, e)
<1> DEFINE counted == Counted(c, e, t)
<1>1. CASE c = "GE"
  <2>1. e \in GE!Employee /\ GE!Valid(e) /\ t = GE!Payslip(e) /\ Employee(c) = GE!Employee
    BY <1>1 DEF Employee, Valid, Payslip
  <2>2. /\ CountedKeepsUp(c, f, sums, counted)
        /\ HandedOver(c, Carried(c, e, t), SumsAfter(sums, counted))
    BY <1>1, <2>1, GeorgiaKeepsUp
  <2>3. Carried(c, e, t) \in Employee(c) /\ SameWorker(c, f, Carried(c, e, t))
    BY <1>1, <2>1, CarriedInGeorgia
  <2> HIDE DEF t, counted
  <2>4. \A s \in Schemes(c) : counted[s][2] \in Int
    BY <1>1, <2>2 DEF CountedKeepsUp, KeepsUp, Schemes, NearSchemes
  <2>5. LeaveIsOwed(c, f, SumsAfter(sums, counted), n + 1)
    BY <1>1 DEF LeaveIsOwed
  <2>6. QED  BY <1>1, <2>2, <2>3, <2>4, <2>5 DEF PeriodIsCounted, t, counted
<1>2. CASE c = "DE"
  <2>1. e \in DE!Employee /\ DE!Valid(e) /\ t = DE!Payslip(e) /\ Employee(c) = DE!Employee
    BY <1>2 DEF Employee, Valid, Payslip
  <2>2. /\ CountedKeepsUp(c, f, sums, counted)
        /\ HandedOver(c, Carried(c, e, t), SumsAfter(sums, counted))
        /\ t.ytd_after \in Int
    BY <1>2, <2>1, GermanyKeepsUp
  <2> HIDE DEF t
  <2>3. Carried(c, e, t) \in Employee(c) /\ SameWorker(c, f, Carried(c, e, t))
    BY <1>2, <2>1, <2>2, CarriedInGermany DEF SameWorker
  <2> HIDE DEF counted
  <2>4. \A s \in Schemes(c) : counted[s][2] \in Int
    BY <1>2, <2>2 DEF CountedKeepsUp, KeepsUp, Schemes, NearSchemes
  <2>5. LeaveIsOwed(c, f, SumsAfter(sums, counted), n + 1)
    BY <1>2 DEF LeaveIsOwed
  <2>6. QED  BY <1>2, <2>2, <2>3, <2>4, <2>5 DEF PeriodIsCounted, t, counted
<1>3. CASE c = "CA"
  <2>1. e \in CA!Employee /\ CA!Valid(e) /\ t = CA!Payslip(e) /\ Employee(c) = CA!Employee
    BY <1>3 DEF Employee, Valid, Payslip
  <2>2. /\ CountedKeepsUp(c, f, sums, counted)
        /\ HandedOver(c, Carried(c, e, t), SumsAfter(sums, counted))
    BY <1>3, <2>1, CanadaKeepsUp
  <2>3. Carried(c, e, t) \in Employee(c) /\ SameWorker(c, f, Carried(c, e, t))
    BY <1>3, <2>1, CarriedInCanada
  <2>4. t.employee_cpp1 \in Int
    BY <2>1, FirstTierIsWhole
  <2> HIDE DEF t
  <2>5. counted["cpp1"][2] \in Int
    BY <1>3, <2>4 DEF Counted
  <2> HIDE DEF counted
  <2>6. \A s \in Schemes(c) : counted[s][2] \in Int
    BY <1>3, <2>2, <2>5 DEF CountedKeepsUp, KeepsUp, Schemes, NearSchemes
  <2>7. LeaveIsOwed(c, f, SumsAfter(sums, counted), n + 1)
    BY <1>3 DEF LeaveIsOwed
  <2>8. QED  BY <1>3, <2>2, <2>3, <2>6, <2>7 DEF PeriodIsCounted, t, counted
<1>4. CASE c = "US"
  <2>1. /\ e \in US!Employee /\ US!Valid(e) /\ t = US!Payslip(e) /\ Employee(c) = US!Employee
        /\ f \in US!Employee /\ f.ytd = US!NoWages
    BY <1>4 DEF Employee, Valid, Payslip, IsNewYear
  <2>2. UsHandedOver(e, sums)
    BY <1>4 DEF HandedOver
  <2>3. /\ CountedKeepsUp(c, f, sums, counted)
        /\ UsHandedOver(Carried(c, e, t), SumsAfter(sums, counted))
        /\ LeaveIsOwed(c, f, SumsAfter(sums, counted), n + 1)
    BY <1>4, <2>1, <2>2, UnitedStatesKeepsUp
  <2>4. Carried(c, e, t) \in Employee(c) /\ SameWorker(c, f, Carried(c, e, t))
    BY <1>4, <2>1, CarriedInTheUnitedStates
  <2>5. t.state_contributions = US!StateContributions(e) /\ e.state = f.state
    BY <1>4, <2>1 DEF US!Payslip, SameWorker
  <2> HIDE DEF t
  <2>6. f.state = "NY" => counted["state"][2] \in Int
    BY <1>4, <2>1, <2>5, NewYorkIsWhole DEF Counted
  <2> HIDE DEF counted
  <2>7. \A s \in Schemes(c) : counted[s][2] \in Int
    BY <1>4, <2>3, <2>6 DEF CountedKeepsUp, KeepsUp, Schemes, NearSchemes
  <2>8. HandedOver(c, Carried(c, e, t), SumsAfter(sums, counted))
    BY <1>4, <2>3 DEF HandedOver
  <2>9. QED  BY <1>4, <2>3, <2>4, <2>7, <2>8 DEF PeriodIsCounted, t, counted
<1>5. CASE c = "MU"
  <2>1. e \in MU!Employee /\ MU!Valid(e) /\ t = MU!Payslip(e) /\ Employee(c) = MU!Employee
    BY <1>5 DEF Employee, Valid, Payslip
  <2>2. /\ CountedKeepsUp(c, f, sums, counted)
        /\ HandedOver(c, Carried(c, e, t), SumsAfter(sums, counted))
        /\ Settling(e) /\ e.gross_pay >= MU!Pack.low_emoluments =>
             SumsAfter(sums, counted)["paye"][2]
             = BracketLookup(SumsAfter(sums, counted)["paye"][1], MU!Pack.brackets)
    BY <1>5, <2>1, MauritiusKeepsUp
  <2>3. Carried(c, e, t) \in Employee(c) /\ SameWorker(c, f, Carried(c, e, t))
    BY <1>5, <2>1, CarriedInMauritius
  <2>4. t.paye = MU!Paye(e) /\ t.gross_pay = e.gross_pay /\ MU!Paye(e) \in Int
    BY <2>1, PayeIsWhole DEF MU!Payslip
  <2>5. Settling(f) = Settling(e)
    BY <1>5 DEF SameWorker, Settling
  <2> HIDE DEF t
  <2>6. counted["paye"][2] \in Int
    BY <1>5, <2>4 DEF Counted
  <2> HIDE DEF counted
  <2>7. \A s \in Schemes(c) : counted[s][2] \in Int
    BY <1>5, <2>6 DEF Schemes
  <2>8. LeaveIsOwed(c, f, SumsAfter(sums, counted), n + 1)
    BY <1>5 DEF LeaveIsOwed
  <2>9. QED  BY <1>5, <2>2, <2>3, <2>4, <2>5, <2>7, <2>8 DEF PeriodIsCounted, t, counted
<1>6. QED  BY <1>1, <1>2, <1>3, <1>4, <1>5 DEF Tracked

-----------------------------------------------------------------------------
(* A new year *)

\* Nothing paid owes nothing below a ceiling.
LEMMA CeilingOfNothing ==
  ASSUME NEW cap \in Int, NEW rate, IsRate(rate)
  PROVE  CeilingContribution(0, 0, cap, rate) = 0
<1>1. AtMost(0, AtLeast(0, cap - 0)) = 0
  BY DEF AtMost, AtLeast
<1>2. QED  BY <1>1, ShareOfNothing DEF CeilingContribution

\* Nothing paid owes a state's funds nothing.
LEMMA NothingOwedToTheState ==
  ASSUME NEW f \in US!Employee, f.ytd = US!NoWages, f.state # "NY" \/ ~f.dbl
  PROVE  Owed(f, "state", 0) = 0
<1> DEFINE p == PaidAtOnce(f, 0)
<1>1. /\ p.gross_pay = 0 /\ US!FicaWages(p) = 0 /\ p.state = f.state /\ p.dbl = f.dbl
      /\ p.ytd = US!NoWages
  BY PaidAtOnceIs
<1>2. Owed(f, "state", 0) = US!StateContributions(p)
  BY DEF Owed
<1> HIDE DEF p
<1>3. /\ \A base \in StateBases : US!WageBases[base] \in Int /\ p.ytd[base] = 0
      /\ {"nj_ui_wf", "nj_tdi_fli", "co_famli", "ak_ui", "wa_pfml", "or_paid_leave"} \subseteq StateBases
      /\ p.ytd["ny_pfl_tax"] = 0
  BY <1>1, WageBasesAreAmounts DEF StateBases
<1>4. ASSUME NEW base \in StateBases, NEW rate, IsRate(rate)
      PROVE  US!Capped(p, base, rate) = 0
  <2>1. US!Capped(p, base, rate) = CeilingContribution(0, 0, US!WageBases[base], rate)
    BY <1>1, <1>3, UsArithmetic DEF US!Capped
  <2>2. QED  BY <1>3, <1>4, <2>1, CeilingOfNothing
<1>5. /\ IsRate(<<425, 100000>>) /\ IsRate(<<19, 10000>>) /\ IsRate(<<23, 10000>>)
      /\ IsRate(<<7, 10000>>) /\ IsRate(<<44, 10000>>) /\ IsRate(<<50, 10000>>)
      /\ IsRate(<<58, 10000>>) /\ IsRate(<<10, 10000>>) /\ IsRate(<<60, 10000>>)
      /\ IsRate(<<130, 10000>>) /\ IsRate(<<432, 100000>>)
  BY DEF IsRate
<1>6. US!StateContributions(p) = 0
  <2>1. CASE p.state = "CA"
    BY <1>1, <1>5, <2>1, StateFunds, ShareOfNothing
  <2>2. CASE p.state = "NJ"
    <3>1. /\ US!Capped(p, "nj_ui_wf", <<425, 100000>>) = 0
          /\ US!Capped(p, "nj_tdi_fli", <<19, 10000>>) = 0
          /\ US!Capped(p, "nj_tdi_fli", <<23, 10000>>) = 0
      BY <1>3, <1>4, <1>5
    <3>2. US!StateContributions(p) = 0 + 0 + 0
      BY <2>2, <3>1, StateFunds
    <3>3. QED  BY <3>2
  <2>3. CASE p.state = "NY"
    <3>1. US!StateContributions(p)
          = AtMost(Share(0, <<432, 100000>>), AtLeast(0, 41191 - 0)) + 0
      BY <1>1, <1>3, <2>3, LeaveOfAPeriod
    <3>2. Share(0, <<432, 100000>>) = 0
      BY <1>5, ShareOfNothing
    <3>3. QED  BY <3>1, <3>2, SMT DEF AtMost, AtLeast
  <2>4. CASE p.state = "PA"
    BY <1>1, <1>5, <2>4, StateFunds, ShareOfNothing
  <2>5. CASE p.state = "CO"
    BY <1>3, <1>4, <1>5, <2>5, StateFunds
  <2>6. CASE p.state = "AK"
    BY <1>3, <1>4, <1>5, <2>6, StateFunds
  <2>7. CASE p.state = "WA"
    <3>1. AtMost(0, AtLeast(0, US!WageBases["wa_pfml"] - 0)) = 0
      BY <1>3 DEF AtMost, AtLeast
    <3>2. US!StateContributions(p) = WaPremium(0) + Share(0, <<58, 10000>>)
      BY <1>1, <1>3, <2>7, <3>1, StateFunds
    <3>3. Share(0, <<58, 10000>>) = 0
      BY <1>5, ShareOfNothing
    <3>4. WaPremium(0) \in Int /\ -100002000 < 200000000 * WaPremium(0)
          /\ 200000000 * WaPremium(0) <= 100000000
      <4>1. 0 \in Nat /\ 2 * (807159 * 0) = 0
        OBVIOUS
      <4>2. QED  BY <4>1, WaPremiumRounds
    <3>5. WaPremium(0) = 0
      BY <3>4, SMT
    <3>6. QED  BY <3>2, <3>3, <3>5
  <2>8. CASE p.state = "OR"
    <3>1. /\ US!Capped(p, "or_paid_leave", <<60, 10000>>) = 0
          /\ Share(p.gross_pay, <<10, 10000>>) = 0
      BY <1>1, <1>3, <1>4, <1>5, ShareOfNothing
    <3>2. US!StateContributions(p) = 0 + 0
      BY <2>8, <3>1, StateFunds
    <3>3. QED  BY <3>2
  <2>9. CASE p.state \notin {"CA", "NJ", "NY", "PA", "CO", "AK", "WA", "OR"}
    BY <2>9, StateFunds
  <2>10. QED  BY <2>1, <2>2, <2>3, <2>4, <2>5, <2>6, <2>7, <2>8, <2>9
<1>7. QED  BY <1>2, <1>6

\* Nothing paid owes no scheme anything.
LEMMA NothingOwed ==
  ASSUME NEW c \in Tracked, NEW f \in Employee(c), IsNewYear(c, f),
         c = "CA" => f.wcb_ceiling >= 0, NEW s \in NearSchemes(c, f)
  PROVE  Owed(f, s, 0) = 0
<1>1. CASE c = "GE"
  <2>1. s = "state_pension"
    BY <1>1 DEF NearSchemes, Schemes
  <2>2. GE!StatePension(0, 0) = Share(0, <<1, 100>>)
    BY GeArithmetic DEF GE!StatePension, GE!Pack, GE!Units, GE!Pct, AtMost, AtLeast
  <2>3. GE!StatePension(0, 0) = 0
    BY <2>2, ShareOfNothing DEF IsRate
  <2>4. QED  BY <2>1, <2>3 DEF Owed
<1>2. CASE c = "DE"
  <2>1. s = "pension"
    BY <1>2 DEF NearSchemes, Schemes
  <2>2. /\ DE!Pack.pension_ceiling = 10140000 /\ DE!Pack.pension_half = <<930, 10000>>
        /\ IsRate(<<930, 10000>>)
    BY DEF DE!Pack, DE!Units, DE!Bp, IsRate
  <2>3. Owed(f, s, 0) = CeilingContribution(0, 0, 10140000, <<930, 10000>>)
    BY <2>1, <2>2 DEF Owed
  <2>4. QED  BY <2>2, <2>3, CeilingOfNothing
<1>3. CASE c = "CA"
  <2>1. s \in {"ei", "cpp2", "wcb"}
    BY <1>3 DEF NearSchemes
  <2>2. /\ Owed(f, "ei", 0) = Share(AtMost(0, 6890000), <<163, 10000>>)
        /\ Owed(f, "cpp2", 0) = Share(AtLeast(0, AtMost(0, 8500000) - 7460000), <<400, 10000>>)
        /\ Owed(f, "wcb", 0) = IF f.wcb_rate = -1 THEN 0
                               ELSE Share(AtMost(0, f.wcb_ceiling), Pct(f.wcb_rate))
    BY CanadianFigures DEF Owed
  <2>3. IsRate(<<163, 10000>>) /\ IsRate(<<400, 10000>>)
    BY DEF IsRate
  <2>4. AtMost(0, 6890000) = 0 /\ AtLeast(0, AtMost(0, 8500000) - 7460000) = 0
    BY SMT DEF AtMost, AtLeast
  <2>5. Owed(f, "ei", 0) = 0 /\ Owed(f, "cpp2", 0) = 0
    BY <2>2, <2>3, <2>4, ShareOfNothing
  <2>6. f.wcb_rate # -1 => Share(AtMost(0, f.wcb_ceiling), Pct(f.wcb_rate)) = 0
    <3>1. f.wcb_rate \in Int /\ f.wcb_ceiling \in Int /\ f.wcb_ceiling >= 0
      BY <1>3 DEF Employee, CA!Employee
    <3>2. IsRate(Pct(f.wcb_rate)) /\ AtMost(0, f.wcb_ceiling) = 0
      BY <3>1 DEF IsRate, Pct, AtMost
    <3>3. QED  BY <3>2, ShareOfNothing
  <2>7. QED  BY <2>1, <2>2, <2>5, <2>6
<1>4. CASE c = "US"
  <2>1. f \in US!Employee /\ f.ytd = US!NoWages
    BY <1>4 DEF Employee, IsNewYear
  <2> DEFINE p == PaidAtOnce(f, 0)
  <2>2. US!FicaWages(p) = 0 /\ p.ytd = US!NoWages /\ p.sui = f.sui
    BY <2>1, PaidAtOnceIs
  <2>3. /\ Owed(f, "fica", 0) = US!FicaAndFuta(p).social_security + US!FicaAndFuta(p).medicare
                                + US!FicaAndFuta(p).additional_medicare
        /\ Owed(f, "futa", 0) = US!FicaAndFuta(p)["futa"]
        /\ Owed(f, "sui", 0) = US!FicaAndFuta(p)["sui"]
    BY DEF Owed
  <2> HIDE DEF p
  <2>4. /\ p.ytd["ss"] = 0 /\ p.ytd["medicare"] = 0 /\ p.ytd["futa"] = 0 /\ p.ytd["sui"] = 0
        /\ US!WageBases["ss"] \in Int /\ US!WageBases["futa"] \in Int
        /\ p.sui # <<>> => p.sui[1] \in Int /\ p.sui[2] \in Int
    BY <2>1, <2>2, WageBasesAreAmounts, UsFields
  <2>5. /\ IsRate(<<620, 10000>>) /\ IsRate(<<145, 10000>>) /\ IsRate(<<90, 10000>>)
        /\ IsRate(<<60, 10000>>) /\ IsRate(<<180, 10000>>)
        /\ p.sui # <<>> => IsRate(<<p.sui[1], 1000>>)
    BY <2>4 DEF IsRate
  <2>6. US!FicaAndFuta(p).social_security = 0
    <3>1. US!FicaAndFuta(p).social_security
          = CeilingContribution(p.ytd["ss"], US!FicaWages(p), US!WageBases["ss"], <<620, 10000>>)
      BY FederalContributions
    <3>2. QED  BY <2>2, <2>4, <2>5, <3>1, CeilingOfNothing
  <2>7. US!FicaAndFuta(p).medicare = 0
    <3>1. US!FicaAndFuta(p).medicare = Share(US!FicaWages(p), <<145, 10000>>)
      BY FederalContributions
    <3>2. QED  BY <2>2, <2>5, <3>1, ShareOfNothing
  <2>8. US!FicaAndFuta(p).additional_medicare = 0
    <3>1. US!FicaAndFuta(p).additional_medicare
          = Share(AtLeast(0, p.ytd["medicare"] + US!FicaWages(p) - AtLeast(20000000, p.ytd["medicare"])),
                  <<90, 10000>>)
      BY FederalContributions
    <3>2. AtLeast(0, 0 + 0 - AtLeast(20000000, 0)) = 0
      BY SMT DEF AtLeast
    <3>3. QED  BY <2>2, <2>4, <2>5, <3>1, <3>2, ShareOfNothing
  <2>9. US!FicaAndFuta(p)["futa"] = 0
    <3> DEFINE net == IF p.state = "CA" THEN <<180, 10000>> ELSE <<60, 10000>>
    <3>1. US!FicaAndFuta(p).futa
          = CeilingContribution(p.ytd["futa"], US!FicaWages(p), US!WageBases["futa"], net)
      BY FederalContributions
    <3>2. IsRate(net)
      BY <2>5
    <3> HIDE DEF net
    <3>3. QED  BY <2>2, <2>4, <3>1, <3>2, CeilingOfNothing
  <2>10. US!FicaAndFuta(p)["sui"] = 0
    <3>1. US!FicaAndFuta(p).sui
          = IF p.sui = <<>> THEN 0
            ELSE CeilingContribution(p.ytd["sui"], US!FicaWages(p), p.sui[2], <<p.sui[1], 1000>>)
      BY FederalContributions
    <3>2. QED  BY <2>2, <2>4, <2>5, <3>1, CeilingOfNothing
  <2>11. s \in {"fica", "futa", "sui"} \/ (s = "state" /\ f.state # "NY")
    BY <1>4 DEF NearSchemes, Schemes
  <2>12. s = "state" => Owed(f, s, 0) = 0
    BY <2>1, <2>11, NothingOwedToTheState
  <2>13. Owed(f, "fica", 0) = 0
    BY <2>3, <2>6, <2>7, <2>8
  <2>14. QED  BY <2>3, <2>9, <2>10, <2>11, <2>12, <2>13
<1>5. CASE c = "MU"
  BY <1>5 DEF NearSchemes
<1>6. QED  BY <1>1, <1>2, <1>3, <1>4, <1>5 DEF Tracked

\* The sums of a year that starts.
NothingYet(c) == [s \in Schemes(c) |-> <<0, 0>>]

\* A year that starts hands over nothing, and owes nothing.
LEMMA NewYear ==
  ASSUME NEW c \in Tracked, NEW f \in Employee(c), IsNewYear(c, f),
         c = "CA" => f.wcb_ceiling >= 0
  PROVE  /\ AreSums(c, NothingYet(c)) /\ HandedOver(c, f, NothingYet(c))
         /\ SumsAreOwed(c, f, NothingYet(c), 0) /\ LeaveIsOwed(c, f, NothingYet(c), 0)
<1> DEFINE sums == NothingYet(c)
<1>1. /\ sums = [s \in Schemes(c) |-> <<0, 0>>]
      /\ \A s \in Schemes(c) : sums[s][1] = 0 /\ sums[s][2] = 0
  BY DEF NothingYet
<1> HIDE DEF sums
<1>2. AreSums(c, sums)
  BY <1>1 DEF AreSums
<1>3. NearSchemes(c, f) \subseteq Schemes(c)
  BY DEF NearSchemes, Schemes, Tracked
<1>4. SumsAreOwed(c, f, sums, 0)
  <2>1. ASSUME NEW s \in NearSchemes(c, f)
        PROVE  sums[s][1] = 0 /\ sums[s][2] = 0 /\ Owed(f, s, 0) = 0
    BY <1>1, <1>3, NothingOwed
  <2>2. Near(0, 0, 3 * 0)
    BY DEF Near
  <2>3. ASSUME NEW s \in NearSchemes(c, f)
        PROVE  /\ sums[s][2] \in Int /\ Owed(f, s, sums[s][1]) \in Int
               /\ Near(sums[s][2], Owed(f, s, sums[s][1]), 3 * 0)
    <3>1. sums[s][1] = 0 /\ sums[s][2] = 0 /\ Owed(f, s, 0) = 0
      BY <2>1
    <3>2. Owed(f, s, sums[s][1]) = 0
      BY <3>1
    <3>3. QED  BY <2>2, <3>1, <3>2
  <2>4. QED  BY <2>3 DEF SumsAreOwed
<1>5. LeaveIsOwed(c, f, sums, 0)
  <2>1. ASSUME c = "US", f.state = "NY", ~f.dbl
        PROVE  /\ sums["state"][2] \in Int /\ sums["state"][2] <= 41191
               /\ Owed(f, "state", sums["state"][1]) \in Int
               /\ Near(sums["state"][2], Owed(f, "state", sums["state"][1]), 3 * 0)
    <3>1. f \in US!Employee /\ f.ytd = US!NoWages
      BY <2>1 DEF Employee, IsNewYear
    <3>2. Owed(f, "state", 0) = 0
      BY <2>1, <3>1, NothingOwedToTheState
    <3>3. sums["state"][1] = 0 /\ sums["state"][2] = 0
      BY <1>1, <2>1 DEF Schemes
    <3>4. Owed(f, "state", sums["state"][1]) = 0
      BY <3>2, <3>3
    <3>5. QED  BY <3>3, <3>4, SMT DEF Near
  <2>2. QED  BY <2>1 DEF LeaveIsOwed
<1>6. HandedOver(c, f, sums)
  <2>1. CASE c = "GE"
    BY <1>1, <2>1 DEF HandedOver, IsNewYear, Schemes
  <2>2. CASE c = "DE"
    BY <1>1, <2>2 DEF HandedOver, IsNewYear, Schemes
  <2>3. CASE c = "CA"
    <3>1. /\ f.ytd = 0 /\ f.ytd_wcb = 0 /\ f.wcb_ceiling \in Int /\ f.wcb_ceiling >= 0
          /\ sums["ei"][1] = 0 /\ sums["cpp2"][1] = 0 /\ sums["wcb"][1] = 0
      BY <1>1, <2>3 DEF IsNewYear, Schemes, Employee, CA!Employee
    <3>2. AtMost(0, f.wcb_ceiling) = 0
      BY <3>1 DEF AtMost
    <3>3. QED  BY <2>3, <3>1, <3>2 DEF HandedOver
  <2>4. CASE c = "MU"
    <3>1. f.ytd = 0 /\ f.withheld = 0 /\ sums["paye"][1] = 0 /\ sums["paye"][2] = 0
      BY <1>1, <2>4 DEF IsNewYear, Schemes
    <3>2. 0 \in Nat /\ 0 <= 0
      OBVIOUS
    <3>3. BracketLookup(0, MU!Pack.brackets) \in Nat
      BY <3>2, MuTaxGrows
    <3>4. 0 <= BracketLookup(0, MU!Pack.brackets)
      BY <3>3
    <3>5. QED  BY <2>4, <3>1, <3>4 DEF HandedOver
  <2>5. CASE c = "US"
    <3>1. /\ f.ytd = US!NoWages
          /\ \A s \in {"fica", "futa", "sui", "state"} : sums[s][1] = 0 /\ sums[s][2] = 0
      BY <1>1, <2>5 DEF IsNewYear, Schemes
    <3>2. /\ \A base \in DOMAIN US!WageBases : f.ytd[base] = 0 /\ AtMost(0, US!WageBases[base]) = 0
          /\ f.ytd["medicare"] = 0 /\ f.ytd["sui"] = 0 /\ f.ytd["ny_pfl_tax"] = 0
          /\ {"ss", "futa"} \subseteq DOMAIN US!WageBases
      BY <3>1, WageBasesAreAmounts DEF AtMost
    <3>3. UsHandedOver(f, sums)
      BY <3>1, <3>2 DEF UsHandedOver, StateBases
    <3>4. QED  BY <2>5, <3>3 DEF HandedOver
  <2>6. QED  BY <2>1, <2>2, <2>3, <2>4, <2>5 DEF Tracked
<1>7. QED  BY <1>2, <1>4, <1>5, <1>6 DEF sums

-----------------------------------------------------------------------------
(* The year, period by period *)

\* What Mauritius has withheld after a period that is taxed is what the year so far owes.
TaxIsSettled(c, f, t, sums) ==
  c = "MU" /\ Settling(f) /\ t.gross_pay >= MU!Pack.low_emoluments =>
    sums["paye"][2] = BracketLookup(sums["paye"][1], MU!Pack.brackets)

\* The worker carries the year's amounts from period to period, and the sums are near what
\* the year's wages owe, by three cents a period.
YearAddsUp ==
  /\ country \in DOMAIN Workers /\ first \in Workers[country] /\ periods \in Nat
  /\ periods = 0 => worker = first
  /\ periods > 0 => DOMAIN paid = Schemes(country)
  /\ country \in Tracked =>
       worker \in Employee(country) /\ SameWorker(country, first, worker)
  /\ country \in Tracked /\ periods > 0 =>
       /\ AreSums(country, paid) /\ HandedOver(country, worker, paid)
       /\ SumsAreOwed(country, first, paid, periods)
       /\ LeaveIsOwed(country, first, paid, periods)
       /\ TaxIsSettled(country, first, slip, paid)

\* The first worker of a year is the same worker.
LEMMA FirstIsTheSame ==
  ASSUME NEW c, NEW f
  PROVE  SameWorker(c, f, f)
  BY DEF SameWorker

\* The workers a year may start with, as the constants give them.
LEMMA FirstIsNew ==
  ASSUME country \in DOMAIN Workers, first \in Workers[country]
  PROVE  /\ country \in Countries /\ first \in Employee(country) /\ IsNewYear(country, first)
         /\ \A pay \in Pays[country] : pay \in Int
  BY WorkersStartTheYear

\* A year starts with nothing to add up.
LEMMA YearStartsRight ==
  Init => YearAddsUp
<1> SUFFICES ASSUME Init
             PROVE  YearAddsUp
  OBVIOUS
<1>1. /\ country \in DOMAIN Workers /\ first \in Workers[country] /\ periods = 0
      /\ worker = first /\ ~(periods > 0) /\ periods \in Nat
  BY DEF Init
<1>2. first \in Employee(country)
  BY <1>1, FirstIsNew
<1>3. SameWorker(country, first, worker)
  BY <1>1, FirstIsTheSame
<1>4. QED  BY <1>1, <1>2, <1>3 DEF YearAddsUp

\* What the wages of a first period add to nothing is what they count.
LEMMA FirstSums ==
  ASSUME NEW c \in Tracked, NEW f, NEW sums, NEW counted, CountedKeepsUp(c, f, sums, counted),
         \A s \in Schemes(c) : counted[s][2] \in Int
  PROVE  SumsAfter(NothingYet(c), counted) = counted
<1>1. /\ counted = [s \in Schemes(c) |-> <<counted[s][1], counted[s][2]>>]
      /\ \A s \in Schemes(c) : counted[s][1] \in Int /\ counted[s][2] \in Int
  BY DEF CountedKeepsUp
<1>2. SumsAfter(NothingYet(c), counted)
      = [s \in Schemes(c) |-> <<0 + counted[s][1], 0 + counted[s][2]>>]
  BY DEF SumsAfter, NothingYet
<1>3. \A s \in Schemes(c) : 0 + counted[s][1] = counted[s][1] /\ 0 + counted[s][2] = counted[s][2]
  BY <1>1
<1>4. QED  BY <1>1, <1>2, <1>3

\* A run that the engine accepts keeps the year adding up.
LEMMA PrepareAddsUp ==
  ASSUME YearAddsUp, NEW pay \in Pays[country], Prepare(pay)
  PROVE  YearAddsUp'
<1> DEFINE e == WithPay(country, worker, pay)
<1> DEFINE t == Payslip(country, e)
<1> DEFINE counted == Counted(country, e, t)
<1> DEFINE sums == IF periods = 0 THEN NothingYet(country) ELSE paid
<1> DEFINE after == SumsAfter(sums, counted)
<1>1. /\ country' = country /\ first' = first /\ periods' = periods + 1
      /\ slip' = t /\ worker' = Carried(country, e, t) /\ paid' = Added(paid, counted)
      /\ Valid(country, e)
  BY DEF Prepare
<1>2. /\ country \in DOMAIN Workers /\ first \in Workers[country] /\ periods \in Nat
      /\ country \in Countries /\ first \in Employee(country) /\ IsNewYear(country, first)
      /\ pay \in Int
  BY FirstIsNew DEF YearAddsUp
<1>3. periods + 1 \in Nat /\ periods + 1 > 0 /\ periods + 1 # 0
  BY <1>2
<1>4. ASSUME country \in Tracked
      PROVE  /\ AreSums(country, after) /\ after = Added(paid, counted)
             /\ SumsAreOwed(country, first, after, periods + 1)
             /\ Carried(country, e, t) \in Employee(country)
             /\ SameWorker(country, first, Carried(country, e, t))
             /\ HandedOver(country, Carried(country, e, t), after)
             /\ LeaveIsOwed(country, first, after, periods + 1)
             /\ TaxIsSettled(country, first, t, after)
  <2>1. worker \in Employee(country) /\ SameWorker(country, first, worker)
    BY <1>4 DEF YearAddsUp
  <2>2. e \in Employee(country) /\ SameWorker(country, first, e)
    BY <1>2, <1>4, <2>1, PayIsTypedIn
  <2>3. country = "CA" => first.wcb_ceiling >= 0
    <3>1. ASSUME country = "CA"
          PROVE  e.wcb_ceiling >= 0 /\ e.wcb_ceiling = first.wcb_ceiling
      BY <1>1, <2>2, <3>1 DEF Valid, CA!Valid, CA!NonNegative, SameWorker
    <3>2. QED  BY <3>1
  <2>4. /\ AreSums(country, sums) /\ HandedOver(country, worker, sums)
        /\ SumsAreOwed(country, first, sums, periods)
        /\ LeaveIsOwed(country, first, sums, periods)
    <3>1. CASE periods = 0
      <4>1. worker = first
        BY <3>1 DEF YearAddsUp
      <4>2. QED  BY <1>2, <1>4, <2>3, <3>1, <4>1, NewYear
    <3>2. CASE periods # 0
      <4>1. periods > 0
        BY <1>2, <3>2
      <4>2. QED  BY <1>4, <3>2, <4>1 DEF YearAddsUp
    <3>3. QED  BY <3>1, <3>2
  <2>5. HandedOver(country, e, sums)
    BY <1>2, <1>4, <2>1, <2>4, PayIsTypedIn
  <2>6. PeriodIsCounted(country, first, e, sums, periods)
    <3> HIDE DEF e, sums
    <3>1. QED  BY <1>1, <1>2, <1>4, <2>2, <2>4, <2>5, EveryPeriodIsCounted
  <2> HIDE DEF e, sums
  <2>7. /\ CountedKeepsUp(country, first, sums, counted)
        /\ \A s \in Schemes(country) : counted[s][2] \in Int
        /\ Carried(country, e, t) \in Employee(country)
        /\ SameWorker(country, first, Carried(country, e, t))
        /\ HandedOver(country, Carried(country, e, t), after)
        /\ LeaveIsOwed(country, first, after, periods + 1)
        /\ TaxIsSettled(country, first, t, after)
    BY <2>6 DEF PeriodIsCounted, TaxIsSettled
  <2> HIDE DEF t, counted
  <2>8. AreSums(country, after) /\ SumsAreOwed(country, first, after, periods + 1)
    BY <1>2, <2>4, <2>7, SumsKeepUp
  <2>9. after = Added(paid, counted)
    <3>1. CASE periods = 0
      <4>1. Added(paid, counted) = counted /\ sums = NothingYet(country)
        BY <3>1 DEF Added, sums
      <4>2. QED  BY <1>4, <2>7, <4>1, FirstSums
    <3>2. CASE periods # 0
      BY <3>2 DEF Added, SumsAfter, sums
    <3>3. QED  BY <3>1, <3>2
  <2>10. QED  BY <2>7, <2>8, <2>9
<1>5. DOMAIN Added(paid, counted) = Schemes(country)
  <2>1. CASE country \in Tracked
    BY <1>4, <2>1 DEF AreSums
  <2>2. CASE country \notin Tracked
    <3>1. Schemes(country) = {"none"}
      BY <1>2, <2>2 DEF Schemes, Tracked
    <3>2. counted = [none |-> <<0, 0>>]
      BY <2>2 DEF Counted, Tracked
    <3>3. periods # 0 => DOMAIN paid = {"none"}
      BY <1>2, <3>1 DEF YearAddsUp
    <3> HIDE DEF counted
    <3>4. QED  BY <3>1, <3>2, <3>3 DEF Added
  <2>3. QED  BY <2>1, <2>2
<1> HIDE DEF after, counted, t, e
<1>6. QED  BY <1>1, <1>2, <1>3, <1>4, <1>5 DEF YearAddsUp

\* Every step keeps the year adding up.
LEMMA YearKeepsAddingUp ==
  YearAddsUp /\ [Next]_vars => YearAddsUp'
<1> SUFFICES ASSUME YearAddsUp, [Next]_vars
             PROVE  YearAddsUp'
  OBVIOUS
<1>1. ASSUME NEW pay \in Pays[country], Prepare(pay)
      PROVE  YearAddsUp'
  BY <1>1, PrepareAddsUp
<1>2. ASSUME NEW pay \in Pays[country], Refuse(pay)
      PROVE  YearAddsUp'
  <2>1. UNCHANGED <<country, first, worker, periods, slip, paid>>
    BY <1>2 DEF Refuse
  <2>2. QED  BY <2>1 DEF YearAddsUp
<1>3. CASE StartYear
  <2>1. country' = country /\ first' = first /\ worker' = first /\ periods' = 0
    BY <1>3 DEF StartYear
  <2>2. country \in DOMAIN Workers /\ first \in Workers[country]
    BY DEF YearAddsUp
  <2>3. first \in Employee(country) /\ SameWorker(country, first, first)
    BY <2>2, FirstIsNew, FirstIsTheSame
  <2>4. periods' \in Nat /\ ~(periods' > 0)
    BY <2>1
  <2>5. QED  BY <2>1, <2>2, <2>3, <2>4 DEF YearAddsUp
<1>4. CASE UNCHANGED vars
  BY <1>4 DEF YearAddsUp, vars
<1>5. QED  BY <1>1, <1>2, <1>3, <1>4 DEF Next

\* A year that adds up owes what its wages would at once.
LEMMA SumsAreWhatIsOwed ==
  YearAddsUp => SplitDoesNotMatter
<1> SUFFICES ASSUME YearAddsUp, periods > 0, NEW scheme \in DOMAIN paid \ {"none", "cpp1"},
                    Settled(scheme)
             PROVE  Distance(paid[scheme][2], Owed(first, scheme, paid[scheme][1])) <= Roundings
  BY DEF SplitDoesNotMatter
<1>1. country \in Countries /\ periods \in Nat /\ scheme \in Schemes(country)
  BY FirstIsNew DEF YearAddsUp
<1>2. country \in Tracked
  BY <1>1 DEF Tracked, Schemes
<1>3. /\ AreSums(country, paid) /\ SumsAreOwed(country, first, paid, periods)
      /\ LeaveIsOwed(country, first, paid, periods)
      /\ TaxIsSettled(country, first, slip, paid)
  BY <1>2 DEF YearAddsUp
<1>4. /\ paid[scheme][2] \in Int /\ Owed(first, scheme, paid[scheme][1]) \in Int
      /\ Near(paid[scheme][2], Owed(first, scheme, paid[scheme][1]), 3 * periods)
  <2>1. CASE scheme \in NearSchemes(country, first)
    BY <1>3, <2>1 DEF SumsAreOwed
  <2>2. CASE country = "US" /\ first.state = "NY" /\ scheme = "state"
    BY <1>3, <2>2 DEF LeaveIsOwed, Settled
  <2>3. CASE country = "MU"
    <3>1. scheme = "paye"
      BY <1>1, <2>3 DEF Schemes
    <3>2. Settling(first) /\ slip.gross_pay >= MU!Pack.low_emoluments
      BY <3>1 DEF Settled, Settling
    <3>3. paid["paye"][2] = BracketLookup(paid["paye"][1], MU!Pack.brackets)
      BY <1>3, <2>3, <3>2 DEF TaxIsSettled
    <3>4. paid["paye"][1] \in Nat
      BY <1>1, <1>3, <3>1 DEF AreSums
    <3> DEFINE wages == paid["paye"][1]
    <3> DEFINE owed == BracketLookup(wages, MU!Pack.brackets)
    <3> HIDE DEF wages, owed
    <3>5. wages \in Nat /\ wages <= wages
      BY <3>4 DEF wages
    <3>6. owed \in Nat
      BY <3>5, MuTaxGrows DEF owed
    <3>7. paid[scheme][2] = owed /\ Owed(first, scheme, paid[scheme][1]) = owed
      BY <3>1, <3>3 DEF Owed, owed, wages
    <3>8. Near(owed, owed, 3 * periods)
      BY <1>1, <3>6 DEF Near
    <3>9. QED  BY <3>6, <3>7, <3>8
  <2>4. scheme \in NearSchemes(country, first) \/ country = "MU"
        \/ (country = "US" /\ first.state = "NY" /\ scheme = "state")
    BY <1>1, <1>2 DEF NearSchemes, Schemes, Tracked
  <2>5. QED  BY <2>1, <2>2, <2>3, <2>4
<1> DEFINE x == paid[scheme][2]
<1> DEFINE y == Owed(first, scheme, paid[scheme][1])
<1> HIDE DEF x, y
<1>5. x \in Int /\ y \in Int /\ Near(x, y, 3 * periods)
  BY <1>4 DEF x, y
<1>6. Distance(x, y) <= Roundings
  BY <1>1, <1>5 DEF Distance, AtLeast, Near, Roundings
<1>7. QED  BY <1>6 DEF x, y

\* However a year's pay is split into periods, in every country, state and scheme that
\* stops at a ceiling or taxes the year so far, and for every pay and number of periods.
THEOREM SplitNeverMatters == Spec => []SplitDoesNotMatter
<1>1. Init => YearAddsUp
  BY YearStartsRight
<1>2. YearAddsUp /\ [Next]_vars => YearAddsUp'
  BY YearKeepsAddingUp
<1>3. YearAddsUp => SplitDoesNotMatter
  BY SumsAreWhatIsOwed
<1>4. QED  BY <1>1, <1>2, <1>3, PTL DEF Spec

-----------------------------------------------------------------------------
(* What a journal's lines come to *)

\* A set of numbers has a least.
LEMMA HasLeast ==
  ASSUME NEW S \in SUBSET Nat, S # {}
  PROVE  \E u \in S : \A v \in S : u <= v
<1> DEFINE R == OpToRel(<, Nat)
<1>1. IsWellFoundedOn(R, Nat)
  BY NatLessThanWellFounded
<1>2. \A v \in S, u \in S : v < u => <<v, u>> \in R
  BY DEF OpToRel
<1> HIDE DEF R
<1>3. PICK u \in S : \A v \in S : ~(<<v, u>> \in R)
  BY <1>1, WFMin
<1>4. u \in Nat /\ \A v \in S : v \in Nat /\ ~(v < u)
  BY <1>2, <1>3
<1>5. QED  BY <1>3, <1>4

\* f holds the running sums of the first n lines.
IsSum(f, lines, n) ==
  f = [k \in 0..n |-> IF k = 0 THEN 0 ELSE f[k - 1] + lines[k][2]]

\* A journal of any length has its running sums.
LEMMA SumsExist ==
  ASSUME NEW lines, NEW n \in Nat
  PROVE  \E f : IsSum(f, lines, n)
<1> DEFINE bad == {k \in Nat : ~\E f : IsSum(f, lines, k)}
<1> SUFFICES ASSUME bad # {} PROVE FALSE
  OBVIOUS
<1>1. PICK u \in bad : \A v \in bad : u <= v
  <2>1. bad \in SUBSET Nat
    OBVIOUS
  <2> HIDE DEF bad
  <2>2. QED  BY <2>1, HasLeast
<1>2. CASE u = 0
  <2> DEFINE f == [k \in 0..0 |-> 0]
  <2>1. IsSum(f, lines, 0)
    BY DEF IsSum
  <2>2. QED  BY <1>1, <1>2, <2>1
<1>3. CASE u # 0
  <2>1. u - 1 \in Nat /\ u - 1 \notin bad
    BY <1>1, <1>3
  <2>2. PICK f : IsSum(f, lines, u - 1)
    BY <2>1
  <2> DEFINE g == [k \in 0..u |-> IF k = u THEN f[u - 1] + lines[u][2] ELSE f[k]]
  <2>3. ASSUME NEW k \in 0..u
        PROVE  g[k] = IF k = 0 THEN 0 ELSE g[k - 1] + lines[k][2]
    <3>1. CASE k = u
      BY <1>3, <2>1, <3>1
    <3>2. CASE k # u
      <4>1. k \in 0..(u - 1) /\ g[k] = f[k] /\ (k # 0 => g[k - 1] = f[k - 1])
        BY <1>1, <3>2
      <4>2. f[k] = IF k = 0 THEN 0 ELSE f[k - 1] + lines[k][2]
        BY <2>2, <4>1 DEF IsSum
      <4> HIDE DEF g
      <4>3. QED  BY <4>1, <4>2
    <3>3. QED  BY <3>1, <3>2
  <2>4. g = [k \in 0..u |-> g[k]]
    OBVIOUS
  <2> HIDE DEF g
  <2>5. IsSum(g, lines, u)
    BY <2>3, <2>4 DEF IsSum
  <2>6. QED  BY <1>1, <2>5
<1>4. QED  BY <1>2, <1>3

\* The total is the last of them.
LEMMA TotalIsTheLast ==
  ASSUME NEW lines, Len(lines) \in Nat
  PROVE  \E f : IsSum(f, lines, Len(lines)) /\ Total(lines) = f[Len(lines)]
<1> DEFINE f == CHOOSE f : IsSum(f, lines, Len(lines))
<1>1. IsSum(f, lines, Len(lines))
  BY SumsExist
<1>2. Total(lines) = f[Len(lines)]
  BY DEF Total, IsSum
<1> HIDE DEF f
<1>3. QED  BY <1>1, <1>2

\* The total of two lines.
LEMMA TotalOfTwo ==
  ASSUME NEW lines, Len(lines) = 2,
         lines[1][2] \in Int /\ lines[2][2] \in Int
  PROVE  Total(lines)
         = lines[1][2] + lines[2][2]
<1>1. Len(lines) \in Nat
  OBVIOUS
<1>3. PICK f : IsSum(f, lines, 2) /\ Total(lines) = f[2]
  BY <1>1, TotalIsTheLast
<1>4. \A k \in 0..2 : f[k] = IF k = 0 THEN 0 ELSE f[k - 1] + lines[k][2]
  BY <1>3 DEF IsSum
<1>5. f[0] = 0
  BY <1>4
<1>6. f[1] = f[0] + lines[1][2]
  BY <1>4
<1>7. f[2] = f[1] + lines[2][2]
  BY <1>4
<1>8. f[2] = lines[1][2] + lines[2][2]
  BY <1>5, <1>6, <1>7
<1>9. QED  BY <1>3, <1>8

\* The total of three lines.
LEMMA TotalOfThree ==
  ASSUME NEW lines, Len(lines) = 3,
         lines[1][2] \in Int /\ lines[2][2] \in Int /\ lines[3][2] \in Int
  PROVE  Total(lines)
         = lines[1][2] + lines[2][2] + lines[3][2]
<1>1. Len(lines) \in Nat
  OBVIOUS
<1>3. PICK f : IsSum(f, lines, 3) /\ Total(lines) = f[3]
  BY <1>1, TotalIsTheLast
<1>4. \A k \in 0..3 : f[k] = IF k = 0 THEN 0 ELSE f[k - 1] + lines[k][2]
  BY <1>3 DEF IsSum
<1>5. f[0] = 0
  BY <1>4
<1>6. f[1] = f[0] + lines[1][2]
  BY <1>4
<1>7. f[2] = f[1] + lines[2][2]
  BY <1>4
<1>8. f[3] = f[2] + lines[3][2]
  BY <1>4
<1>9. f[3] = lines[1][2] + lines[2][2] + lines[3][2]
  BY <1>5, <1>6, <1>7, <1>8
<1>10. QED  BY <1>3, <1>9

\* The total of five lines.
LEMMA TotalOfFive ==
  ASSUME NEW lines, Len(lines) = 5,
         lines[1][2] \in Int /\ lines[2][2] \in Int /\ lines[3][2] \in Int /\ lines[4][2]
         \in Int /\ lines[5][2] \in Int
  PROVE  Total(lines)
         = lines[1][2] + lines[2][2] + lines[3][2] + lines[4][2] + lines[5][2]
<1>1. Len(lines) \in Nat
  OBVIOUS
<1>3. PICK f : IsSum(f, lines, 5) /\ Total(lines) = f[5]
  BY <1>1, TotalIsTheLast
<1>4. \A k \in 0..5 : f[k] = IF k = 0 THEN 0 ELSE f[k - 1] + lines[k][2]
  BY <1>3 DEF IsSum
<1>5. f[0] = 0
  BY <1>4
<1>6. f[1] = f[0] + lines[1][2]
  BY <1>4
<1>7. f[2] = f[1] + lines[2][2]
  BY <1>4
<1>8. f[3] = f[2] + lines[3][2]
  BY <1>4
<1>9. f[4] = f[3] + lines[4][2]
  BY <1>4
<1>10. f[5] = f[4] + lines[5][2]
  BY <1>4
<1>11. f[5] = lines[1][2] + lines[2][2] + lines[3][2] + lines[4][2] + lines[5][2]
  BY <1>5, <1>6, <1>7, <1>8, <1>9, <1>10
<1>12. QED  BY <1>3, <1>11

\* The total of six lines.
LEMMA TotalOfSix ==
  ASSUME NEW lines, Len(lines) = 6,
         lines[1][2] \in Int /\ lines[2][2] \in Int /\ lines[3][2] \in Int /\ lines[4][2]
         \in Int /\ lines[5][2] \in Int /\ lines[6][2] \in Int
  PROVE  Total(lines)
         = lines[1][2] + lines[2][2] + lines[3][2] + lines[4][2] + lines[5][2] +
           lines[6][2]
<1>1. Len(lines) \in Nat
  OBVIOUS
<1>3. PICK f : IsSum(f, lines, 6) /\ Total(lines) = f[6]
  BY <1>1, TotalIsTheLast
<1>4. \A k \in 0..6 : f[k] = IF k = 0 THEN 0 ELSE f[k - 1] + lines[k][2]
  BY <1>3 DEF IsSum
<1>5. f[0] = 0
  BY <1>4
<1>6. f[1] = f[0] + lines[1][2]
  BY <1>4
<1>7. f[2] = f[1] + lines[2][2]
  BY <1>4
<1>8. f[3] = f[2] + lines[3][2]
  BY <1>4
<1>9. f[4] = f[3] + lines[4][2]
  BY <1>4
<1>10. f[5] = f[4] + lines[5][2]
  BY <1>4
<1>11. f[6] = f[5] + lines[6][2]
  BY <1>4
<1>12. f[6] = lines[1][2] + lines[2][2] + lines[3][2] + lines[4][2] + lines[5][2] +
           lines[6][2]
  BY <1>5, <1>6, <1>7, <1>8, <1>9, <1>10, <1>11
<1>13. QED  BY <1>3, <1>12

\* The total of seven lines.
LEMMA TotalOfSeven ==
  ASSUME NEW lines, Len(lines) = 7,
         lines[1][2] \in Int /\ lines[2][2] \in Int /\ lines[3][2] \in Int /\ lines[4][2]
         \in Int /\ lines[5][2] \in Int /\ lines[6][2] \in Int /\ lines[7][2] \in Int
  PROVE  Total(lines)
         = lines[1][2] + lines[2][2] + lines[3][2] + lines[4][2] + lines[5][2] +
           lines[6][2] + lines[7][2]
<1>1. Len(lines) \in Nat
  OBVIOUS
<1>3. PICK f : IsSum(f, lines, 7) /\ Total(lines) = f[7]
  BY <1>1, TotalIsTheLast
<1>4. \A k \in 0..7 : f[k] = IF k = 0 THEN 0 ELSE f[k - 1] + lines[k][2]
  BY <1>3 DEF IsSum
<1>5. f[0] = 0
  BY <1>4
<1>6. f[1] = f[0] + lines[1][2]
  BY <1>4
<1>7. f[2] = f[1] + lines[2][2]
  BY <1>4
<1>8. f[3] = f[2] + lines[3][2]
  BY <1>4
<1>9. f[4] = f[3] + lines[4][2]
  BY <1>4
<1>10. f[5] = f[4] + lines[5][2]
  BY <1>4
<1>11. f[6] = f[5] + lines[6][2]
  BY <1>4
<1>12. f[7] = f[6] + lines[7][2]
  BY <1>4
<1>13. f[7] = lines[1][2] + lines[2][2] + lines[3][2] + lines[4][2] + lines[5][2] +
           lines[6][2] + lines[7][2]
  BY <1>5, <1>6, <1>7, <1>8, <1>9, <1>10, <1>11, <1>12
<1>14. QED  BY <1>3, <1>13

\* The total of ten lines.
LEMMA TotalOfTen ==
  ASSUME NEW lines, Len(lines) = 10,
         lines[1][2] \in Int /\ lines[2][2] \in Int /\ lines[3][2] \in Int /\ lines[4][2]
         \in Int /\ lines[5][2] \in Int /\ lines[6][2] \in Int /\ lines[7][2] \in Int /\
         lines[8][2] \in Int /\ lines[9][2] \in Int /\ lines[10][2] \in Int
  PROVE  Total(lines)
         = lines[1][2] + lines[2][2] + lines[3][2] + lines[4][2] + lines[5][2] +
           lines[6][2] + lines[7][2] + lines[8][2] + lines[9][2] + lines[10][2]
<1>1. Len(lines) \in Nat
  OBVIOUS
<1>3. PICK f : IsSum(f, lines, 10) /\ Total(lines) = f[10]
  BY <1>1, TotalIsTheLast
<1>4. \A k \in 0..10 : f[k] = IF k = 0 THEN 0 ELSE f[k - 1] + lines[k][2]
  BY <1>3 DEF IsSum
<1>5. f[0] = 0
  BY <1>4
<1>6. f[1] = f[0] + lines[1][2]
  BY <1>4
<1>7. f[2] = f[1] + lines[2][2]
  BY <1>4
<1>8. f[3] = f[2] + lines[3][2]
  BY <1>4
<1>9. f[4] = f[3] + lines[4][2]
  BY <1>4
<1>10. f[5] = f[4] + lines[5][2]
  BY <1>4
<1>11. f[6] = f[5] + lines[6][2]
  BY <1>4
<1>12. f[7] = f[6] + lines[7][2]
  BY <1>4
<1>13. f[8] = f[7] + lines[8][2]
  BY <1>4
<1>14. f[9] = f[8] + lines[9][2]
  BY <1>4
<1>15. f[10] = f[9] + lines[10][2]
  BY <1>4
<1>16. f[10] = lines[1][2] + lines[2][2] + lines[3][2] + lines[4][2] + lines[5][2] +
           lines[6][2] + lines[7][2] + lines[8][2] + lines[9][2] + lines[10][2]
  BY <1>5, <1>6, <1>7, <1>8, <1>9, <1>10, <1>11, <1>12, <1>13, <1>14, <1>15
<1>17. QED  BY <1>3, <1>16

-----------------------------------------------------------------------------
(* What the arithmetic returns is a number *)

\* A table of at least one row, and one of steps.
IsStaircase(t) ==
  Len(t) \in Nat /\ Len(t) >= 1 /\ \A k \in 1..Len(t) : t[k][1] \in Int /\ t[k][2] \in Int
IsTable(t) == IsStaircase(t) /\ \A k \in 1..Len(t) : t[k][3] \in Int

\* The smaller and the larger of two numbers.
LEMMA ExtremesAreWhole ==
  ASSUME NEW x \in Int, NEW y \in Int
  PROVE  AtMost(x, y) \in Int /\ AtLeast(x, y) \in Int
  BY DEF AtMost, AtLeast

\* A share at a rate.
LEMMA ShareIsWhole ==
  ASSUME NEW x \in Int, NEW rate, IsRate(rate)
  PROVE  Share(x, rate) \in Int
  BY SharesAdd

\* Some row is the last one that an amount reaches.
LEMMA RowIsInTable ==
  ASSUME NEW amount \in Int, NEW t, Len(t) \in Nat, Len(t) >= 1,
         \A k \in 1..Len(t) : t[k][1] \in Int
  PROVE  \E k \in 1..Len(t) : Row(amount, t) = t[k]
<1> DEFINE n == Len(t)
<1> DEFINE P(k) == /\ \A j \in 2..k : Units(t[j][1]) <= amount
                   /\ k < n => amount < Units(t[k + 1][1])
<1> DEFINE enough == {k \in Nat : k \in 1..n /\ (k < n => amount < Units(t[k + 1][1]))}
<1>1. n \in enough
  OBVIOUS
<1>2. PICK u \in enough : \A v \in enough : u <= v
  <2> enough \in SUBSET Nat
    OBVIOUS
  <2> HIDE DEF enough
  <2>1. QED  BY <1>1, HasLeast
<1>3. u \in 1..n /\ (u < n => amount < Units(t[u + 1][1]))
  BY <1>2
<1>4. ASSUME NEW j \in 2..u
      PROVE  Units(t[j][1]) <= amount
  <2>1. j - 1 \in 1..n /\ j - 1 < n /\ j \in 1..n /\ ~(u <= j - 1) /\ (j - 1) + 1 = j
    BY <1>3, <1>4
  <2>2. j - 1 \notin enough
    <3> HIDE DEF enough
    <3>1. QED  BY <1>2, <2>1
  <2>3. ~(amount < Units(t[j][1]))
    BY <2>1, <2>2
  <2>4. Units(t[j][1]) \in Int
    BY <2>1 DEF Units
  <2>5. QED  BY <2>3, <2>4
<1>5. P(u)
  BY <1>3, <1>4
<1>6. Row(amount, t) = t[CHOOSE k \in 1..n : P(k)]
  BY DEF Row
<1> HIDE DEF P
<1>7. (CHOOSE k \in 1..n : P(k)) \in 1..n
  BY <1>3, <1>5
<1>8. QED  BY <1>6, <1>7

\* A table's tax and a step's amount.
LEMMA LookupsAreWhole ==
  ASSUME NEW amount \in Int, NEW t
  PROVE  /\ IsTable(t) => BracketLookup(amount, t) \in Int
         /\ IsTable(t) => Row(amount, t)[2] \in Int /\ Row(amount, t)[3] \in Int
         /\ IsStaircase(t) => StepLookup(amount, t) \in Int
<1>1. ASSUME IsStaircase(t)
      PROVE  \E k \in 1..Len(t) : Row(amount, t) = t[k]
  BY <1>1, RowIsInTable DEF IsStaircase
<1>2. ASSUME IsStaircase(t)
      PROVE  StepLookup(amount, t) \in Int
  BY <1>1, <1>2 DEF IsStaircase, StepLookup
<1>3. ASSUME IsTable(t)
      PROVE  /\ BracketLookup(amount, t) \in Int
             /\ Row(amount, t)[2] \in Int /\ Row(amount, t)[3] \in Int
  <2> DEFINE row == Row(amount, t)
  <2>1. row[1] \in Int /\ row[2] \in Int /\ row[3] \in Int
    BY <1>1, <1>3 DEF IsTable, IsStaircase
  <2>2. BracketLookup(amount, t) = row[2] + Share(amount - Units(row[1]), Bp(row[3]))
    BY DEF BracketLookup
  <2> HIDE DEF row
  <2>3. amount - Units(row[1]) \in Int /\ IsRate(Bp(row[3]))
    BY <2>1 DEF Units, Bp, IsRate
  <2>4. Share(amount - Units(row[1]), Bp(row[3])) \in Int
    BY <2>3, ShareIsWhole
  <2>5. QED  BY <2>1, <2>2, <2>4 DEF row
<1>4. QED  BY <1>2, <1>3

\* A slope between two incomes.
LEMMA TaperIsWhole ==
  ASSUME NEW income \in Int, NEW from \in Int, NEW to, NEW high \in Int, NEW low \in Int,
         NEW slope, IsRate(slope)
  PROVE  LinearTaper(income, from, to, high, low, slope) \in Int
<1>1. Units(from) - income \in Int
  BY DEF Units
<1>2. Share(Units(from) - income, slope) \in Int
  BY <1>1, ShareIsWhole
<1>3. QED  BY <1>2 DEF LinearTaper

\* A contribution up to a ceiling and one between two.
LEMMA ContributionsAreWhole ==
  ASSUME NEW ytd \in Int, NEW amount \in Int, NEW floor \in Int, NEW cap \in Int,
         NEW rate, IsRate(rate)
  PROVE  /\ CeilingContribution(ytd, amount, cap, rate) \in Int
         /\ BandedContribution(ytd, amount, floor, cap, rate) \in Int
<1>1. /\ AtMost(amount, AtLeast(0, cap - ytd)) \in Int
      /\ AtLeast(0, AtMost(ytd + amount, cap) - AtLeast(ytd, floor)) \in Int
  BY DEF AtMost, AtLeast
<1>2. QED  BY <1>1, ShareIsWhole DEF CeilingContribution, BandedContribution

-----------------------------------------------------------------------------
(* In every engine *)

\* What Georgia's arithmetic returns is a number.
LEMMA GeAmounts ==
  /\ \A x \in Int : \A rate : IsRate(rate) => GE!Share(x, rate) \in Int
<1>1. \A x, rate : GE!Share(x, rate) = Share(x, rate)
  BY DEF GE!Share, Share, GE!HalfUp, HalfUp
<1>2. QED  BY <1>1, ShareIsWhole

\* What Germany's arithmetic returns is a number.
LEMMA DeAmounts ==
  /\ \A x \in Int : \A rate : IsRate(rate) => DE!Share(x, rate) \in Int
  /\ \A x, y \in Int : DE!AtMost(x, y) \in Int
  /\ \A x, y \in Int : DE!AtLeast(x, y) \in Int
  /\ \A x, d \in Int : d > 0 => DE!HalfUp(x, d) \in Int
  /\ \A x, d \in Int : d > 0 => DE!PerPeriod(x, d) \in Int
  /\ \A ytd, amount, cap \in Int : \A rate :
       IsRate(rate) => DE!CeilingContribution(ytd, amount, cap, rate) \in Int
<1>1. /\ \A x, rate : DE!Share(x, rate) = Share(x, rate)
      /\ \A x, y : DE!AtMost(x, y) = AtMost(x, y)
      /\ \A x, y : DE!AtLeast(x, y) = AtLeast(x, y)
      /\ \A x, d : DE!HalfUp(x, d) = HalfUp(x, d)
      /\ \A x, d : DE!PerPeriod(x, d) = HalfUp(x, d)
      /\ \A ytd, amount, cap, rate : DE!CeilingContribution(ytd, amount, cap, rate)
                                    = CeilingContribution(ytd, amount, cap, rate)
  BY DEF DE!Share, Share, DE!HalfUp, HalfUp, DE!AtMost, AtMost, DE!AtLeast, AtLeast,
         DE!PerPeriod, DE!CeilingContribution, CeilingContribution
<1>2. \A x \in Int : \A rate : IsRate(rate) => DE!Share(x, rate) \in Int
  BY <1>1, ShareIsWhole
<1>3. \A x, y \in Int : DE!AtMost(x, y) \in Int
  BY <1>1, ExtremesAreWhole
<1>4. \A x, y \in Int : DE!AtLeast(x, y) \in Int
  BY <1>1, ExtremesAreWhole
<1>5. \A x, d \in Int : d > 0 => DE!HalfUp(x, d) \in Int
  BY <1>1, HalfUpRounds
<1>6. \A x, d \in Int : d > 0 => DE!PerPeriod(x, d) \in Int
  BY <1>1, HalfUpRounds
<1>7. \A ytd, amount, cap \in Int : \A rate :
       IsRate(rate) => DE!CeilingContribution(ytd, amount, cap, rate) \in Int
  BY <1>1, ContributionsAreWhole
<1>8. QED  BY <1>2, <1>3, <1>4, <1>5, <1>6, <1>7

\* What the United Kingdom's arithmetic returns is a number.
LEMMA UkAmounts ==
  /\ \A x \in Int : \A rate : IsRate(rate) => UK!Share(x, rate) \in Int
  /\ \A x, y \in Int : UK!AtMost(x, y) \in Int
  /\ \A x, y \in Int : UK!AtLeast(x, y) \in Int
  /\ \A x, d \in Int : d > 0 => UK!HalfUp(x, d) \in Int
  /\ \A x, d \in Int : d > 0 => UK!PerPeriod(x, d) \in Int
  /\ \A x \in Int : \A t : IsTable(t) => UK!BracketLookup(x, t) \in Int
<1>1. /\ \A x, rate : UK!Share(x, rate) = Share(x, rate)
      /\ \A x, y : UK!AtMost(x, y) = AtMost(x, y)
      /\ \A x, y : UK!AtLeast(x, y) = AtLeast(x, y)
      /\ \A x, d : UK!HalfUp(x, d) = HalfUp(x, d)
      /\ \A x, d : UK!PerPeriod(x, d) = HalfUp(x, d)
      /\ \A x, t : UK!BracketLookup(x, t) = BracketLookup(x, t)
  BY DEF UK!Share, Share, UK!HalfUp, HalfUp, UK!AtMost, AtMost, UK!AtLeast, AtLeast,
         UK!PerPeriod, UK!BracketLookup, BracketLookup, UK!Row, Row, UK!Bp, Bp, UK!Units, Units
<1>2. \A x \in Int : \A rate : IsRate(rate) => UK!Share(x, rate) \in Int
  BY <1>1, ShareIsWhole
<1>3. \A x, y \in Int : UK!AtMost(x, y) \in Int
  BY <1>1, ExtremesAreWhole
<1>4. \A x, y \in Int : UK!AtLeast(x, y) \in Int
  BY <1>1, ExtremesAreWhole
<1>5. \A x, d \in Int : d > 0 => UK!HalfUp(x, d) \in Int
  BY <1>1, HalfUpRounds
<1>6. \A x, d \in Int : d > 0 => UK!PerPeriod(x, d) \in Int
  BY <1>1, HalfUpRounds
<1>7. \A x \in Int : \A t : IsTable(t) => UK!BracketLookup(x, t) \in Int
  BY <1>1, LookupsAreWhole
<1>8. QED  BY <1>2, <1>3, <1>4, <1>5, <1>6, <1>7

\* What Canada's arithmetic returns is a number.
LEMMA CaAmounts ==
  /\ \A x \in Int : \A rate : IsRate(rate) => CA!Share(x, rate) \in Int
  /\ \A x, y \in Int : CA!AtMost(x, y) \in Int
  /\ \A x, y \in Int : CA!AtLeast(x, y) \in Int
  /\ \A x, d \in Int : d > 0 => CA!HalfUp(x, d) \in Int
  /\ \A x, d \in Int : d > 0 => CA!PerPeriod(x, d) \in Int
  /\ \A x \in Int : \A t : IsTable(t) => CA!BracketLookup(x, t) \in Int
  /\ \A x \in Int : \A t :
       IsTable(t) => CA!Row(x, t)[2] \in Int /\ CA!Row(x, t)[3] \in Int
  /\ \A x, from, to, high, low \in Int : \A slope :
       IsRate(slope) => CA!LinearTaper(x, from, to, high, low, slope) \in Int
  /\ \A ytd, amount, floor, cap \in Int : \A rate :
       IsRate(rate) => CA!BandedContribution(ytd, amount, floor, cap, rate) \in Int
<1>1. /\ \A x, rate : CA!Share(x, rate) = Share(x, rate)
      /\ \A x, y : CA!AtMost(x, y) = AtMost(x, y)
      /\ \A x, y : CA!AtLeast(x, y) = AtLeast(x, y)
      /\ \A x, d : CA!HalfUp(x, d) = HalfUp(x, d)
      /\ \A x, d : CA!PerPeriod(x, d) = HalfUp(x, d)
      /\ \A x, t : CA!BracketLookup(x, t) = BracketLookup(x, t)
      /\ \A x, t : CA!Row(x, t) = Row(x, t)
      /\ \A x, from, to, high, low, slope : CA!LinearTaper(x, from, to, high, low, slope)
                                                = LinearTaper(x, from, to, high, low, slope)
      /\ \A ytd, amount, floor, cap, rate : CA!BandedContribution(ytd, amount, floor, cap, rate)
                                    = BandedContribution(ytd, amount, floor, cap, rate)
  BY DEF CA!Share, Share, CA!HalfUp, HalfUp, CA!AtMost, AtMost, CA!AtLeast, AtLeast,
         CA!PerPeriod, CA!BracketLookup, BracketLookup, CA!Row, Row, CA!Bp, Bp, CA!Units, Units,
         CA!LinearTaper, LinearTaper, CA!BandedContribution, BandedContribution
<1>2. \A x \in Int : \A rate : IsRate(rate) => CA!Share(x, rate) \in Int
  BY <1>1, ShareIsWhole
<1>3. \A x, y \in Int : CA!AtMost(x, y) \in Int
  BY <1>1, ExtremesAreWhole
<1>4. \A x, y \in Int : CA!AtLeast(x, y) \in Int
  BY <1>1, ExtremesAreWhole
<1>5. \A x, d \in Int : d > 0 => CA!HalfUp(x, d) \in Int
  BY <1>1, HalfUpRounds
<1>6. \A x, d \in Int : d > 0 => CA!PerPeriod(x, d) \in Int
  BY <1>1, HalfUpRounds
<1>7. \A x \in Int : \A t : IsTable(t) => CA!BracketLookup(x, t) \in Int
  BY <1>1, LookupsAreWhole
<1>8. \A x \in Int : \A t :
       IsTable(t) => CA!Row(x, t)[2] \in Int /\ CA!Row(x, t)[3] \in Int
  BY <1>1, LookupsAreWhole
<1>9. \A x, from, to, high, low \in Int : \A slope :
       IsRate(slope) => CA!LinearTaper(x, from, to, high, low, slope) \in Int
  BY <1>1, TaperIsWhole
<1>10. \A ytd, amount, floor, cap \in Int : \A rate :
       IsRate(rate) => CA!BandedContribution(ytd, amount, floor, cap, rate) \in Int
  BY <1>1, ContributionsAreWhole
<1>11. QED  BY <1>2, <1>3, <1>4, <1>5, <1>6, <1>7, <1>8, <1>9, <1>10

\* What Kenya's arithmetic returns is a number.
LEMMA KeAmounts ==
  /\ \A x \in Int : \A rate : IsRate(rate) => KE!Share(x, rate) \in Int
  /\ \A x, y \in Int : KE!AtMost(x, y) \in Int
  /\ \A x, y \in Int : KE!AtLeast(x, y) \in Int
  /\ \A x \in Int : \A t : IsTable(t) => KE!BracketLookup(x, t) \in Int
<1>1. /\ \A x, rate : KE!Share(x, rate) = Share(x, rate)
      /\ \A x, y : KE!AtMost(x, y) = AtMost(x, y)
      /\ \A x, y : KE!AtLeast(x, y) = AtLeast(x, y)
      /\ \A x, t : KE!BracketLookup(x, t) = BracketLookup(x, t)
  BY DEF KE!Share, Share, KE!HalfUp, HalfUp, KE!AtMost, AtMost, KE!AtLeast, AtLeast,
         KE!BracketLookup, BracketLookup, KE!Row, Row, KE!Bp, Bp, KE!Units, Units
<1>2. \A x \in Int : \A rate : IsRate(rate) => KE!Share(x, rate) \in Int
  BY <1>1, ShareIsWhole
<1>3. \A x, y \in Int : KE!AtMost(x, y) \in Int
  BY <1>1, ExtremesAreWhole
<1>4. \A x, y \in Int : KE!AtLeast(x, y) \in Int
  BY <1>1, ExtremesAreWhole
<1>5. \A x \in Int : \A t : IsTable(t) => KE!BracketLookup(x, t) \in Int
  BY <1>1, LookupsAreWhole
<1>6. QED  BY <1>2, <1>3, <1>4, <1>5

\* What South Africa's arithmetic returns is a number.
LEMMA ZaAmounts ==
  /\ \A x \in Int : \A rate : IsRate(rate) => ZA!Share(x, rate) \in Int
  /\ \A x, y \in Int : ZA!AtMost(x, y) \in Int
  /\ \A x, y \in Int : ZA!AtLeast(x, y) \in Int
  /\ \A x, d \in Int : d > 0 => ZA!HalfUp(x, d) \in Int
  /\ \A x, d \in Int : d > 0 => ZA!PerPeriod(x, d) \in Int
  /\ \A x \in Int : \A t : IsTable(t) => ZA!BracketLookup(x, t) \in Int
<1>1. /\ \A x, rate : ZA!Share(x, rate) = Share(x, rate)
      /\ \A x, y : ZA!AtMost(x, y) = AtMost(x, y)
      /\ \A x, y : ZA!AtLeast(x, y) = AtLeast(x, y)
      /\ \A x, d : ZA!HalfUp(x, d) = HalfUp(x, d)
      /\ \A x, d : ZA!PerPeriod(x, d) = HalfUp(x, d)
      /\ \A x, t : ZA!BracketLookup(x, t) = BracketLookup(x, t)
  BY DEF ZA!Share, Share, ZA!HalfUp, HalfUp, ZA!AtMost, AtMost, ZA!AtLeast, AtLeast,
         ZA!PerPeriod, ZA!BracketLookup, BracketLookup, ZA!Row, Row, ZA!Bp, Bp, ZA!Units, Units
<1>2. \A x \in Int : \A rate : IsRate(rate) => ZA!Share(x, rate) \in Int
  BY <1>1, ShareIsWhole
<1>3. \A x, y \in Int : ZA!AtMost(x, y) \in Int
  BY <1>1, ExtremesAreWhole
<1>4. \A x, y \in Int : ZA!AtLeast(x, y) \in Int
  BY <1>1, ExtremesAreWhole
<1>5. \A x, d \in Int : d > 0 => ZA!HalfUp(x, d) \in Int
  BY <1>1, HalfUpRounds
<1>6. \A x, d \in Int : d > 0 => ZA!PerPeriod(x, d) \in Int
  BY <1>1, HalfUpRounds
<1>7. \A x \in Int : \A t : IsTable(t) => ZA!BracketLookup(x, t) \in Int
  BY <1>1, LookupsAreWhole
<1>8. QED  BY <1>2, <1>3, <1>4, <1>5, <1>6, <1>7

\* What Rwanda's arithmetic returns is a number.
LEMMA RwAmounts ==
  /\ \A x \in Int : \A rate : IsRate(rate) => RW!Share(x, rate) \in Int
  /\ \A x, y \in Int : RW!AtMost(x, y) \in Int
  /\ \A x, y \in Int : RW!AtLeast(x, y) \in Int
  /\ \A x \in Int : \A t : IsTable(t) => RW!BracketLookup(x, t) \in Int
<1>1. /\ \A x, rate : RW!Share(x, rate) = Share(x, rate)
      /\ \A x, y : RW!AtMost(x, y) = AtMost(x, y)
      /\ \A x, y : RW!AtLeast(x, y) = AtLeast(x, y)
      /\ \A x, t : RW!BracketLookup(x, t) = BracketLookup(x, t)
  BY DEF RW!Share, Share, RW!HalfUp, HalfUp, RW!AtMost, AtMost, RW!AtLeast, AtLeast,
         RW!BracketLookup, BracketLookup, RW!Row, Row, RW!Bp, Bp, RW!Units, Units
<1>2. \A x \in Int : \A rate : IsRate(rate) => RW!Share(x, rate) \in Int
  BY <1>1, ShareIsWhole
<1>3. \A x, y \in Int : RW!AtMost(x, y) \in Int
  BY <1>1, ExtremesAreWhole
<1>4. \A x, y \in Int : RW!AtLeast(x, y) \in Int
  BY <1>1, ExtremesAreWhole
<1>5. \A x \in Int : \A t : IsTable(t) => RW!BracketLookup(x, t) \in Int
  BY <1>1, LookupsAreWhole
<1>6. QED  BY <1>2, <1>3, <1>4, <1>5

\* What Mauritius's arithmetic returns is a number.
LEMMA MuAmounts ==
  /\ \A x \in Int : \A rate : IsRate(rate) => MU!Share(x, rate) \in Int
  /\ \A x, y \in Int : MU!AtMost(x, y) \in Int
  /\ \A x, y \in Int : MU!AtLeast(x, y) \in Int
<1>1. /\ \A x, rate : MU!Share(x, rate) = Share(x, rate)
      /\ \A x, y : MU!AtMost(x, y) = AtMost(x, y)
      /\ \A x, y : MU!AtLeast(x, y) = AtLeast(x, y)
  BY DEF MU!Share, Share, MU!HalfUp, HalfUp, MU!AtMost, AtMost, MU!AtLeast, AtLeast
<1>2. \A x \in Int : \A rate : IsRate(rate) => MU!Share(x, rate) \in Int
  BY <1>1, ShareIsWhole
<1>3. \A x, y \in Int : MU!AtMost(x, y) \in Int
  BY <1>1, ExtremesAreWhole
<1>4. \A x, y \in Int : MU!AtLeast(x, y) \in Int
  BY <1>1, ExtremesAreWhole
<1>5. QED  BY <1>2, <1>3, <1>4

\* What Cameroon's arithmetic returns is a number.
LEMMA CmAmounts ==
  /\ \A x \in Int : \A rate : IsRate(rate) => CM!Share(x, rate) \in Int
  /\ \A x, y \in Int : CM!AtMost(x, y) \in Int
  /\ \A x, y \in Int : CM!AtLeast(x, y) \in Int
  /\ \A x, d \in Int : d > 0 => CM!HalfUp(x, d) \in Int
  /\ \A x, d \in Int : d > 0 => CM!PerPeriod(x, d) \in Int
  /\ \A x \in Int : \A t : IsTable(t) => CM!BracketLookup(x, t) \in Int
  /\ \A x \in Int : \A t : IsStaircase(t) => CM!StepLookup(x, t) \in Int
<1>1. /\ \A x, rate : CM!Share(x, rate) = Share(x, rate)
      /\ \A x, y : CM!AtMost(x, y) = AtMost(x, y)
      /\ \A x, y : CM!AtLeast(x, y) = AtLeast(x, y)
      /\ \A x, d : CM!HalfUp(x, d) = HalfUp(x, d)
      /\ \A x, d : CM!PerPeriod(x, d) = HalfUp(x, d)
      /\ \A x, t : CM!BracketLookup(x, t) = BracketLookup(x, t)
      /\ \A x, t : CM!StepLookup(x, t) = StepLookup(x, t)
  BY DEF CM!Share, Share, CM!HalfUp, HalfUp, CM!AtMost, AtMost, CM!AtLeast, AtLeast,
         CM!PerPeriod, CM!BracketLookup, BracketLookup, CM!Row, Row, CM!Bp, Bp, CM!Units, Units,
         CM!StepLookup, StepLookup
<1>2. \A x \in Int : \A rate : IsRate(rate) => CM!Share(x, rate) \in Int
  BY <1>1, ShareIsWhole
<1>3. \A x, y \in Int : CM!AtMost(x, y) \in Int
  BY <1>1, ExtremesAreWhole
<1>4. \A x, y \in Int : CM!AtLeast(x, y) \in Int
  BY <1>1, ExtremesAreWhole
<1>5. \A x, d \in Int : d > 0 => CM!HalfUp(x, d) \in Int
  BY <1>1, HalfUpRounds
<1>6. \A x, d \in Int : d > 0 => CM!PerPeriod(x, d) \in Int
  BY <1>1, HalfUpRounds
<1>7. \A x \in Int : \A t : IsTable(t) => CM!BracketLookup(x, t) \in Int
  BY <1>1, LookupsAreWhole
<1>8. \A x \in Int : \A t : IsStaircase(t) => CM!StepLookup(x, t) \in Int
  BY <1>1, LookupsAreWhole
<1>9. QED  BY <1>2, <1>3, <1>4, <1>5, <1>6, <1>7, <1>8

\* What the United States' arithmetic returns is a number.
LEMMA UsAmounts ==
  /\ \A x \in Int : \A rate : IsRate(rate) => US!Share(x, rate) \in Int
  /\ \A x, y \in Int : US!AtMost(x, y) \in Int
  /\ \A x, y \in Int : US!AtLeast(x, y) \in Int
  /\ \A x, d \in Int : d > 0 => US!HalfUp(x, d) \in Int
  /\ \A x, d \in Int : d > 0 => US!PerPeriod(x, d) \in Int
  /\ \A x \in Int : \A t : IsTable(t) => US!BracketLookup(x, t) \in Int
  /\ \A x \in Int : \A t : IsStaircase(t) => US!StepLookup(x, t) \in Int
  /\ \A x \in Int : \A t :
       IsTable(t) => US!Row(x, t)[2] \in Int /\ US!Row(x, t)[3] \in Int
  /\ \A ytd, amount, cap \in Int : \A rate :
       IsRate(rate) => US!CeilingContribution(ytd, amount, cap, rate) \in Int
<1>1. /\ \A x, rate : US!Share(x, rate) = Share(x, rate)
      /\ \A x, y : US!AtMost(x, y) = AtMost(x, y)
      /\ \A x, y : US!AtLeast(x, y) = AtLeast(x, y)
      /\ \A x, d : US!HalfUp(x, d) = HalfUp(x, d)
      /\ \A x, d : US!PerPeriod(x, d) = HalfUp(x, d)
      /\ \A x, t : US!BracketLookup(x, t) = BracketLookup(x, t)
      /\ \A x, t : US!StepLookup(x, t) = StepLookup(x, t)
      /\ \A x, t : US!Row(x, t) = Row(x, t)
      /\ \A ytd, amount, cap, rate : US!CeilingContribution(ytd, amount, cap, rate)
                                    = CeilingContribution(ytd, amount, cap, rate)
  BY DEF US!Share, Share, US!HalfUp, HalfUp, US!AtMost, AtMost, US!AtLeast, AtLeast,
         US!PerPeriod, US!BracketLookup, BracketLookup, US!Row, Row, US!Bp, Bp, US!Units, Units,
         US!StepLookup, StepLookup, US!CeilingContribution, CeilingContribution
<1>2. \A x \in Int : \A rate : IsRate(rate) => US!Share(x, rate) \in Int
  BY <1>1, ShareIsWhole
<1>3. \A x, y \in Int : US!AtMost(x, y) \in Int
  BY <1>1, ExtremesAreWhole
<1>4. \A x, y \in Int : US!AtLeast(x, y) \in Int
  BY <1>1, ExtremesAreWhole
<1>5. \A x, d \in Int : d > 0 => US!HalfUp(x, d) \in Int
  BY <1>1, HalfUpRounds
<1>6. \A x, d \in Int : d > 0 => US!PerPeriod(x, d) \in Int
  BY <1>1, HalfUpRounds
<1>7. \A x \in Int : \A t : IsTable(t) => US!BracketLookup(x, t) \in Int
  BY <1>1, LookupsAreWhole
<1>8. \A x \in Int : \A t : IsStaircase(t) => US!StepLookup(x, t) \in Int
  BY <1>1, LookupsAreWhole
<1>9. \A x \in Int : \A t :
       IsTable(t) => US!Row(x, t)[2] \in Int /\ US!Row(x, t)[3] \in Int
  BY <1>1, LookupsAreWhole
<1>10. \A ytd, amount, cap \in Int : \A rate :
       IsRate(rate) => US!CeilingContribution(ytd, amount, cap, rate) \in Int
  BY <1>1, ContributionsAreWhole
<1>11. QED  BY <1>2, <1>3, <1>4, <1>5, <1>6, <1>7, <1>8, <1>9, <1>10

-----------------------------------------------------------------------------
(* Every engine's journal balances *)

\* Georgia's.
LEMMA GeorgiaBalances ==
  ASSUME NEW e \in GE!Employee
  PROVE  JournalBalances(GE!Journal(GE!Payslip(e)))
<1> DEFINE t == GE!Payslip(e)
<1>1. IsRate(GE!Pack.income_tax) /\ IsRate(GE!Pack.pension)
  BY DEF IsRate, GE!Pack, GE!Pct
<1>2. /\ e.gross_pay \in Int /\ e.taxable_benefits \in Int /\ e.exempt_cash_reimbursements \in Int
  BY DEF GE!Employee
<1>3. /\ t.cash_pay \in Int /\ t.income_tax \in Int /\ t.employee_pension \in Int
      /\ t.employer_pension = t.employee_pension
      /\ t.net_pay = t.cash_pay - t.income_tax - t.employee_pension
  BY <1>1, <1>2, GeAmounts DEF GE!Payslip
<1> HIDE DEF t
<1>4. t.employer_pension \in Int /\ t.net_pay \in Int
  BY <1>3
<1>5. /\ t.employee_pension + t.employer_pension \in Int
  BY <1>3, <1>4
<1>6. /\ Len(GE!Journal(t).debits) = 2
      /\ GE!Journal(t).debits[1][2] = t.cash_pay
      /\ GE!Journal(t).debits[2][2] = t.employer_pension
  BY DEF GE!Journal
<1>7. /\ Len(GE!Journal(t).credits) = 3
      /\ GE!Journal(t).credits[1][2] = t.net_pay
      /\ GE!Journal(t).credits[2][2] = t.income_tax
      /\ GE!Journal(t).credits[3][2] = t.employee_pension + t.employer_pension
  BY DEF GE!Journal
<1>8. Total(GE!Journal(t).debits)
      = t.cash_pay + t.employer_pension
  BY <1>3, <1>4, <1>5, <1>6, TotalOfTwo
<1>9. Total(GE!Journal(t).credits)
      = t.net_pay + t.income_tax + (t.employee_pension + t.employer_pension)
  BY <1>3, <1>4, <1>5, <1>7, TotalOfThree
<1>10. QED  BY <1>3, <1>4, <1>5, <1>8, <1>9 DEF JournalBalances, t

\* Germany's income tax of a year's wages.
LEMMA GermanTaxIsWhole ==
  ASSUME NEW x \in Int
  PROVE  DE!AnnualIncomeTax(x) \in Int /\ DE!AnnualSoli(x) \in Int
<1> DEFINE p == DE!IncomeTaxPack
<1>1. /\ p.grundfreibetrag \in Int /\ p.zone2_upper \in Int /\ p.zone3_upper \in Int
      /\ p.zone4_upper \in Int /\ p.soli_freigrenze \in Int
      /\ IsRate(p.soli_rate) /\ IsRate(p.soli_taper)
      /\ p.zone2.a \in Int /\ p.zone2.b \in Int /\ p.zone2.c \in Int
      /\ p.zone3.a \in Int /\ p.zone3.b \in Int /\ p.zone3.c \in Int
      /\ IsRate(p.zone4.rate) /\ p.zone4.subtract \in Int
      /\ IsRate(p.zone5.rate) /\ p.zone5.subtract \in Int
  BY SMT DEF IsRate, DE!IncomeTaxPack, DE!Units, DE!Pct, DE!Bp
<1> HIDE DEF p
<1>2. \A y \in Int, n \in Int : DE!PerTenThousandEuro(y, n) \in Int
  <2> SUFFICES ASSUME NEW y \in Int, NEW n \in Int
               PROVE  DE!PerTenThousandEuro(y, n) \in Int
    OBVIOUS
  <2> DEFINE a == y \div 1000000
  <2> DEFINE b == (y % 1000000) \div 1000
  <2> DEFINE m == (y % 1000) * n
  <2>1. a \in Int /\ b \in Int /\ m \in Int
    BY SMT
  <2>2. DE!PerTenThousandEuro(y, n) = a * n + DE!HalfUp(b * n + (m \div 1000), 1000)
    BY DEF DE!PerTenThousandEuro
  <2> HIDE DEF a, b, m
  <2>3. b * n + (m \div 1000) \in Int /\ a * n \in Int
    BY <2>1
  <2>4. DE!HalfUp(b * n + (m \div 1000), 1000) \in Int
    BY <2>3, DeAmounts
  <2>5. QED  BY <2>2, <2>3, <2>4
<1>3. \A y \in Int, a \in Int, b \in Int, c \in Int :
        DE!PerTenThousandEuro(y, DE!PerTenThousandEuro(y, a) + b) + c \in Int
  <2> SUFFICES ASSUME NEW y \in Int, NEW a \in Int, NEW b \in Int, NEW c \in Int
               PROVE  DE!PerTenThousandEuro(y, DE!PerTenThousandEuro(y, a) + b) + c \in Int
    OBVIOUS
  <2>1. DE!PerTenThousandEuro(y, a) \in Int
    BY <1>2
  <2>2. DE!PerTenThousandEuro(y, a) + b \in Int
    BY <2>1
  <2> DEFINE slope == DE!PerTenThousandEuro(y, a) + b
  <2> HIDE DEF slope
  <2>3. DE!PerTenThousandEuro(y, slope) \in Int
    BY <1>2, <2>2 DEF slope
  <2>4. QED  BY <2>3 DEF slope
<1>4. /\ x - p.grundfreibetrag \in Int /\ x - p.zone2_upper \in Int
      /\ x - p.soli_freigrenze \in Int
  BY <1>1
<1>5. /\ DE!Polynomial(p.zone2, x - p.grundfreibetrag) \in Int
      /\ DE!Polynomial(p.zone3, x - p.zone2_upper) \in Int
      /\ DE!Share(x, p.zone4.rate) \in Int /\ DE!Share(x, p.zone5.rate) \in Int
      /\ DE!Share(x, p.soli_rate) \in Int /\ DE!Share(x - p.soli_freigrenze, p.soli_taper) \in Int
  BY <1>1, <1>3, <1>4, DeAmounts DEF DE!Polynomial
<1>6. DE!AnnualIncomeTax(x)
      = CASE x <= p.grundfreibetrag -> 0
          [] x > p.grundfreibetrag /\ x <= p.zone2_upper ->
               DE!Polynomial(p.zone2, x - p.grundfreibetrag)
          [] x > p.zone2_upper /\ x <= p.zone3_upper -> DE!Polynomial(p.zone3, x - p.zone2_upper)
          [] x > p.zone3_upper /\ x <= p.zone4_upper -> DE!Share(x, p.zone4.rate) - p.zone4.subtract
          [] x > p.zone4_upper -> DE!Share(x, p.zone5.rate) - p.zone5.subtract
  BY DEF DE!AnnualIncomeTax, p
<1>7. DE!AnnualSoli(x)
      = IF x <= p.soli_freigrenze THEN 0
        ELSE DE!AtMost(DE!Share(x, p.soli_rate), DE!Share(x - p.soli_freigrenze, p.soli_taper))
  BY DEF DE!AnnualSoli, p
<1>8. DE!AnnualSoli(x) \in Int
  BY <1>5, <1>7, DeAmounts
<1>9. /\ x <= p.grundfreibetrag \/ (x > p.grundfreibetrag /\ x <= p.zone2_upper)
         \/ (x > p.zone2_upper /\ x <= p.zone3_upper) \/ (x > p.zone3_upper /\ x <= p.zone4_upper)
         \/ x > p.zone4_upper
      /\ DE!Share(x, p.zone4.rate) - p.zone4.subtract \in Int
      /\ DE!Share(x, p.zone5.rate) - p.zone5.subtract \in Int
  BY <1>1, <1>5
<1>10. QED  BY <1>5, <1>6, <1>8, <1>9

\* Germany's social insurance, statutory or private.
LEMMA GermanInsuranceIsWhole ==
  ASSUME NEW e \in DE!Employee, DE!Valid(e)
  PROVE  /\ DE!SocialInsuranceOf(e).employee \in Int /\ DE!SocialInsuranceOf(e).employer \in Int
         /\ DE!SocialInsuranceOf(e).regular \in Int
<1>1. /\ DE!Pack.pension_ceiling \in Int /\ DE!Pack.health_ceiling \in Int
      /\ IsRate(DE!Pack.pension_half) /\ IsRate(DE!Pack.unemployment_half)
      /\ IsRate(DE!Pack.health_half) /\ IsRate(DE!Pack.care_half) /\ IsRate(DE!Pack.health_general)
      /\ IsRate(DE!Pack.care) /\ IsRate(DE!Surcharge(e))
  BY SMT DEF IsRate, DE!Pack, DE!Surcharge, DE!Bp, DE!Units
<1>2. /\ e.ytd \in Int /\ e.sv_gross_pay \in Int /\ e.one_time \in Int
      /\ e.health_premium \in Int /\ e.care_premium \in Int
  BY DEF DE!Employee
<1>7. e.sv_gross_pay >= 0 /\ e.one_time >= 0
  BY DEF DE!Valid, DE!NonNegative
<1>3. \A ceiling \in Int : \A rate : IsRate(rate) =>
        /\ DE!Regular(e, ceiling, rate) \in Int /\ DE!OneTime(e, ceiling, rate) \in Int
        /\ DE!Both(e, ceiling, rate) \in Int
  <2>1. e.ytd + e.sv_gross_pay \in Int
    BY <1>2
  <2>2. \A ceiling \in Int : \A rate : IsRate(rate) =>
          DE!Regular(e, ceiling, rate) \in Int /\ DE!OneTime(e, ceiling, rate) \in Int
    BY <1>2, <2>1, DeAmounts DEF DE!Regular, DE!OneTime
  <2>3. QED  BY <2>2 DEF DE!Both
<1>4. \A rate : IsRate(rate) => /\ DE!PrivateSubsidy(e, rate, e.health_premium) \in Int
                                /\ DE!PrivateSubsidy(e, rate, e.care_premium) \in Int
  <2>1. \A x \in Int : DE!HalfUp(x, 2) \in Int
    BY DeAmounts
  <2>2. QED  BY <1>1, <1>2, <1>3, <2>1, DeAmounts DEF DE!PrivateSubsidy
<1> DEFINE h == DE!HealthAndCare(e)
<1>5. h.employee \in Int /\ h.employer \in Int /\ h.regular \in Int
  <2>1. CASE e.insurance_type = "STATUTORY"
    BY <1>1, <1>3, <2>1 DEF DE!HealthAndCare
  <2>2. CASE e.insurance_type # "STATUTORY"
    <3> DEFINE employer == DE!PrivateSubsidy(e, DE!Pack.health_general, e.health_premium)
                           + DE!PrivateSubsidy(e, DE!Pack.care, e.care_premium)
    <3> DEFINE employee == e.health_premium + e.care_premium - employer
    <3> DEFINE pay == e.sv_gross_pay + e.one_time
    <3>1. employer \in Int /\ employee \in Int /\ pay \in Int
      BY <1>1, <1>2, <1>4
    <3>2. h = [employee |-> employee, employer |-> employer,
               regular |-> IF pay = 0 THEN employee
                           ELSE DE!PortionOf(employee, e.sv_gross_pay, pay)]
      BY <2>2 DEF DE!HealthAndCare
    <3> HIDE DEF employee, employer
    <3>3. ASSUME pay # 0
          PROVE  DE!PortionOf(employee, e.sv_gross_pay, pay) \in Int
      <4> DEFINE unit == IF e.sv_gross_pay % 1250 = 0 /\ pay % 1250 = 0 THEN 1250 ELSE 1
      <4>1. pay > 0
        BY <1>2, <1>7, <3>3
      <4>2. e.sv_gross_pay \div unit \in Int /\ pay \div unit \in Int /\ pay \div unit > 0
        BY <1>2, <3>1, <4>1
      <4>3. DE!PortionOf(employee, e.sv_gross_pay, pay)
            = DE!Share(employee, <<e.sv_gross_pay \div unit, pay \div unit>>)
        BY DEF DE!PortionOf
      <4> HIDE DEF unit, pay
      <4>4. IsRate(<<e.sv_gross_pay \div unit, pay \div unit>>)
        BY <4>2 DEF IsRate
      <4>5. QED  BY <3>1, <4>3, <4>4, DeAmounts
    <3> HIDE DEF pay
    <3>4. QED  BY <3>1, <3>2, <3>3
  <2>3. QED  BY <2>1, <2>2
<1> HIDE DEF h
<1>6. DE!SocialInsuranceOf(e)
      = DE!SocialInsurance(DE!Both(e, DE!Pack.pension_ceiling, DE!Pack.pension_half),
                           DE!Both(e, DE!Pack.pension_ceiling, DE!Pack.unemployment_half), h,
                           DE!Regular(e, DE!Pack.pension_ceiling, DE!Pack.pension_half)
                           + DE!Regular(e, DE!Pack.pension_ceiling, DE!Pack.unemployment_half))
  BY DEF DE!SocialInsuranceOf, h
<1>8. QED  BY <1>1, <1>3, <1>5, <1>6 DEF DE!SocialInsurance

\* Germany's.
LEMMA GermanyBalances ==
  ASSUME NEW e \in DE!Employee, DE!Valid(e)
  PROVE  JournalBalances(DE!Journal(DE!Payslip(e)))
<1> DEFINE social == DE!SocialInsuranceOf(e)
<1> DEFINE annual == DE!AnnualWages(e, social)
<1> DEFINE taxed == annual + DE!OneTimeWages(e, social)
<1> DEFINE tax == DE!IncomeTax(annual, taxed)
<1> DEFINE soli == DE!Soli(annual, taxed)
<1> DEFINE church == DE!Share(tax, DE!Pct(e.church_tax_rate))
<1> DEFINE gross == e.taxable_gross_pay + e.one_time
<1> DEFINE t == DE!Payslip(e)
<1>1. t = DE!SlipOf(e, gross, social, tax, soli, church)
  BY DEF DE!Payslip, DE!InsuredSlip, DE!YearlySlip, DE!TaxedSlip
<1> HIDE DEF t
<1>2. /\ e.taxable_gross_pay \in Int /\ e.one_time \in Int /\ e.church_tax_rate \in Int
  BY DEF DE!Employee
<1>3. social.employee \in Int /\ social.employer \in Int /\ social.regular \in Int
  BY GermanInsuranceIsWhole
<1> HIDE DEF social
<1>4. annual \in Int /\ taxed \in Int
  <2>1. e.taxable_gross_pay - social.regular \in Int
        /\ e.one_time - (social.employee - social.regular) \in Int
    BY <1>2, <1>3
  <2>2. /\ DE!AtLeast(0, e.taxable_gross_pay - social.regular) \in Int
        /\ DE!AtLeast(0, e.one_time - (social.employee - social.regular)) \in Int
    BY <2>1 DEF DE!AtLeast
  <2>3. annual \in Int
    BY <2>2 DEF DE!AnnualWages
  <2>4. DE!OneTimeWages(e, social) \in Int
    BY <2>2 DEF DE!OneTimeWages
  <2> HIDE DEF annual
  <2>5. QED  BY <2>3, <2>4
<1> HIDE DEF annual, taxed
<1>5. tax \in Int /\ soli \in Int
  <2>1. \A x \in Int : DE!PerPeriod(x, 12) \in Int
    BY DeAmounts
  <2>2. \A x, y \in Int : DE!OfMonthAndOnce(x, y) \in Int
    BY <2>1 DEF DE!OfMonthAndOnce
  <2>3. /\ DE!AnnualIncomeTax(annual) \in Int /\ DE!AnnualIncomeTax(taxed) \in Int
    BY <1>4, GermanTaxIsWhole
  <2>4. /\ DE!AnnualSoli(DE!AnnualIncomeTax(annual)) \in Int
        /\ DE!AnnualSoli(DE!AnnualIncomeTax(taxed)) \in Int
    BY <2>3, GermanTaxIsWhole
  <2>5. QED  BY <2>2, <2>3, <2>4 DEF DE!IncomeTax, DE!Soli
<1> HIDE DEF tax, soli
<1>6. church \in Int
  <2>1. IsRate(DE!Pct(e.church_tax_rate))
    BY <1>2 DEF IsRate, DE!Pct
  <2>2. QED  BY <1>5, <2>1, DeAmounts
<1> HIDE DEF church
<1>7. gross \in Int
  BY <1>2
<1> HIDE DEF gross
<1>8. /\ t.gross_pay = gross /\ t.income_tax = tax /\ t.solidarity_surcharge = soli
      /\ t.church_tax = church /\ t.employee_social_insurance = social.employee
      /\ t.employer_social_insurance = social.employer
      /\ t.net_pay = gross - tax - soli - church - social.employee
  BY <1>1 DEF DE!SlipOf
<1>9. /\ t.gross_pay \in Int /\ t.income_tax \in Int /\ t.solidarity_surcharge \in Int
      /\ t.church_tax \in Int /\ t.employee_social_insurance \in Int
      /\ t.employer_social_insurance \in Int
      /\ t.net_pay = t.gross_pay - t.income_tax - t.solidarity_surcharge - t.church_tax
                     - t.employee_social_insurance
      /\ t.net_pay \in Int
  BY <1>3, <1>5, <1>6, <1>7, <1>8
<1>10. /\ t.employee_social_insurance + t.employer_social_insurance \in Int
  BY <1>9
<1>11. /\ Len(DE!Journal(t).debits) = 2
      /\ DE!Journal(t).debits[1][2] = t.gross_pay
      /\ DE!Journal(t).debits[2][2] = t.employer_social_insurance
  BY DEF DE!Journal
<1>12. /\ Len(DE!Journal(t).credits) = 5
      /\ DE!Journal(t).credits[1][2] = t.net_pay
      /\ DE!Journal(t).credits[2][2] = t.income_tax
      /\ DE!Journal(t).credits[3][2] = t.solidarity_surcharge
      /\ DE!Journal(t).credits[4][2] = t.church_tax
      /\ DE!Journal(t).credits[5][2] = t.employee_social_insurance +
         t.employer_social_insurance
  BY DEF DE!Journal
<1>13. Total(DE!Journal(t).debits)
      = t.gross_pay + t.employer_social_insurance
  BY <1>9, <1>10, <1>11, TotalOfTwo
<1>14. Total(DE!Journal(t).credits)
      = t.net_pay + t.income_tax + t.solidarity_surcharge + t.church_tax +
        (t.employee_social_insurance + t.employer_social_insurance)
  BY <1>9, <1>10, <1>12, TotalOfFive
<1>15. QED  BY <1>9, <1>10, <1>13, <1>14 DEF JournalBalances, t

\* The United Kingdom's thresholds and tables.
LEMMA BritishFigures ==
  /\ \A f \in DOMAIN UK!Thresholds :
       /\ UK!Thresholds[f].periods \in Int /\ UK!Thresholds[f].periods > 0
       /\ UK!Thresholds[f].primary \in Int /\ UK!Thresholds[f].uel \in Int
       /\ UK!Thresholds[f].secondary \in Int /\ UK!Thresholds[f].postgraduate \in Int
       /\ UK!Thresholds[f].lower \in Int /\ UK!Thresholds[f].upper \in Int
       /\ \A plan \in UK!Plans \ {"NONE"} : UK!Thresholds[f][plan] \in Int
  /\ \A nation \in DOMAIN UK!Brackets : IsTable(UK!Brackets[nation])
  /\ UK!Pack.personal_allowance \in Int /\ UK!Pack.ssp_weekly \in Int
  /\ UK!Pack.employee_to_uel \in Int /\ UK!Pack.employee_above_uel \in Int
  /\ UK!Pack.undergraduate \in Int /\ UK!Pack.postgraduate \in Int
  /\ IsRate(UK!Pack.employer_ni) /\ IsRate(UK!Pack.pension_employee)
  /\ IsRate(UK!Pack.pension_employer) /\ IsRate(UK!Pct(1))
<1>1. \A f \in DOMAIN UK!Thresholds :
        /\ UK!Thresholds[f].periods \in Int /\ UK!Thresholds[f].periods > 0
        /\ UK!Thresholds[f].primary \in Int /\ UK!Thresholds[f].uel \in Int
        /\ UK!Thresholds[f].secondary \in Int /\ UK!Thresholds[f].postgraduate \in Int
        /\ UK!Thresholds[f].lower \in Int /\ UK!Thresholds[f].upper \in Int
        /\ \A plan \in UK!Plans \ {"NONE"} : UK!Thresholds[f][plan] \in Int
  BY SMT DEF UK!Thresholds, UK!Units, UK!Plans
<1>2. IsTable(UK!Brackets["England"]) /\ IsTable(UK!Brackets["Wales"])
  BY SMT DEF UK!Brackets, UK!RestOfUk, IsTable, IsStaircase
<1>3. IsTable(UK!Brackets["Scotland"])
  BY SMT DEF UK!Brackets, IsTable, IsStaircase
<1>4. DOMAIN UK!Brackets = {"England", "Wales", "Scotland"}
  BY DEF UK!Brackets
<1>5. /\ UK!Pack.personal_allowance \in Int /\ UK!Pack.ssp_weekly \in Int
      /\ UK!Pack.employee_to_uel \in Int /\ UK!Pack.employee_above_uel \in Int
      /\ UK!Pack.undergraduate \in Int /\ UK!Pack.postgraduate \in Int
      /\ IsRate(UK!Pack.employer_ni) /\ IsRate(UK!Pack.pension_employee)
      /\ IsRate(UK!Pack.pension_employer) /\ IsRate(UK!Pct(1))
  BY SMT DEF UK!Pack, UK!Pct, UK!Units, IsRate
<1>6. QED  BY <1>1, <1>2, <1>3, <1>4, <1>5

\* The United Kingdom's.
LEMMA BritainBalances ==
  ASSUME NEW e \in UK!Employee, UK!Valid(e)
  PROVE  JournalBalances(UK!Journal(UK!Payslip(e)))
<1> DEFINE h == UK!Thresholds[e.frequency]
<1> DEFINE gross == e.gross_pay + UK!Ssp(e)
<1> DEFINE t == UK!Payslip(e)
<1>1. /\ e.gross_pay \in Int /\ e.frequency \in DOMAIN UK!Thresholds
      /\ e.nation \in DOMAIN UK!Brackets /\ e.ssp_days \in Int /\ e.days_per_week \in Int
      /\ e.plan \in UK!Plans
      /\ (e.ssp_days # -1 => e.days_per_week > 0)
  BY DEF UK!Employee, UK!Valid
<1>2. /\ h.periods \in Int /\ h.periods > 0 /\ h.primary \in Int /\ h.uel \in Int
      /\ h.secondary \in Int /\ h.postgraduate \in Int /\ h.lower \in Int /\ h.upper \in Int
      /\ (e.plan # "NONE" => h[e.plan] \in Int)
  BY <1>1, BritishFigures
<1>3. UK!Ssp(e) \in Int
  <2>1. e.ssp_days # -1 => UK!HalfUp(UK!Pack.ssp_weekly, e.days_per_week) \in Int
    BY <1>1, BritishFigures, UkAmounts
  <2>2. QED  BY <1>1, <2>1 DEF UK!Ssp
<1>4. gross \in Int
  BY <1>1, <1>3
<1> HIDE DEF h, gross
<1>5. UK!IncomeTax(e, gross) \in Int
  <2> DEFINE taxable == UK!AtLeast(0, h.periods * gross - UK!Pack.personal_allowance)
  <2> DEFINE tax == UK!BracketLookup(taxable, UK!Brackets[e.nation])
  <2>1. taxable \in Int
    BY <1>2, <1>4, BritishFigures DEF UK!AtLeast
  <2> HIDE DEF taxable
  <2>2. tax \in Int
    BY <1>1, <2>1, BritishFigures, UkAmounts
  <2>3. UK!IncomeTax(e, gross) = UK!PerPeriod(tax, h.periods)
    BY DEF UK!IncomeTax, taxable, h
  <2> HIDE DEF tax
  <2>4. h.periods \in Int /\ h.periods > 0
    BY <1>2
  <2>5. QED  BY <2>2, <2>3, <2>4, UkAmounts
<1>6. \A threshold \in Int, percent \in Int : UK!LoanDeduction(gross, threshold, percent) \in Int
  <2> SUFFICES ASSUME NEW threshold \in Int, NEW percent \in Int
               PROVE  UK!LoanDeduction(gross, threshold, percent) \in Int
    OBVIOUS
  <2> DEFINE x == UK!AtLeast(0, gross - threshold) * percent
  <2>1. x \in Int
    BY <1>4 DEF UK!AtLeast
  <2>2. UK!LoanDeduction(gross, threshold, percent) = UK!Units(x \div 10000)
    BY DEF UK!LoanDeduction
  <2> HIDE DEF x
  <2>3. x \div 10000 \in Int
    BY <2>1
  <2>4. QED  BY <2>2, <2>3 DEF UK!Units
<1> DEFINE toUel == UK!AtLeast(0, UK!AtMost(gross, h.uel) - h.primary)
<1> DEFINE aboveUel == UK!AtLeast(0, gross - h.uel)
<1> DEFINE ni == UK!Share(UK!Pack.employee_to_uel * toUel + UK!Pack.employee_above_uel * aboveUel,
                          UK!Pct(1))
<1> DEFINE employerNi == UK!Share(UK!AtLeast(0, gross - h.secondary), UK!Pack.employer_ni)
<1> DEFINE loan == IF e.plan = "NONE" THEN 0
                   ELSE UK!LoanDeduction(gross, h[e.plan], UK!Pack.undergraduate)
<1> DEFINE postgraduate == IF e.postgraduate_loan
                           THEN UK!LoanDeduction(gross, h.postgraduate, UK!Pack.postgraduate)
                           ELSE 0
<1> DEFINE qualifying == IF e.pension_enrolled
                         THEN UK!AtLeast(0, UK!AtMost(gross, h.upper) - h.lower) ELSE 0
<1> DEFINE pension == UK!Share(qualifying, UK!Pack.pension_employee)
<1> DEFINE employerPension == UK!Share(qualifying, UK!Pack.pension_employer)
<1>7. ni \in Int
  <2>1. toUel \in Int /\ aboveUel \in Int
    BY <1>2, <1>4 DEF UK!AtLeast, UK!AtMost
  <2> HIDE DEF toUel, aboveUel
  <2> DEFINE x == UK!Pack.employee_to_uel * toUel + UK!Pack.employee_above_uel * aboveUel
  <2>2. x \in Int
    BY <2>1, BritishFigures
  <2> HIDE DEF x
  <2>3. UK!Share(x, UK!Pct(1)) \in Int
    BY <2>2, BritishFigures, UkAmounts
  <2>4. QED  BY <2>3 DEF x
<1>8. employerNi \in Int
  <2>1. UK!AtLeast(0, gross - h.secondary) \in Int
    BY <1>2, <1>4 DEF UK!AtLeast
  <2>2. QED  BY <2>1, BritishFigures, UkAmounts
<1>9. pension \in Int /\ employerPension \in Int
  <2>1. qualifying \in Int
    BY <1>2, <1>4 DEF UK!AtLeast, UK!AtMost
  <2> HIDE DEF qualifying
  <2>2. QED  BY <2>1, BritishFigures, UkAmounts
<1>10. loan \in Int /\ postgraduate \in Int
  <2>1. /\ h.postgraduate \in Int /\ UK!Pack.postgraduate \in Int /\ UK!Pack.undergraduate \in Int
        /\ (e.plan # "NONE" => h[e.plan] \in Int)
    BY <1>2, BritishFigures
  <2>2. UK!LoanDeduction(gross, h.postgraduate, UK!Pack.postgraduate) \in Int
    BY <1>6, <2>1
  <2>3. ASSUME e.plan # "NONE"
        PROVE  UK!LoanDeduction(gross, h[e.plan], UK!Pack.undergraduate) \in Int
    BY <1>6, <2>1, <2>3
  <2>4. QED  BY <2>2, <2>3
<1>11. /\ t.gross_pay = gross /\ t.paye_income_tax = UK!IncomeTax(e, gross)
       /\ t.employee_ni = ni /\ t.employer_ni = employerNi /\ t.student_loan = loan
       /\ t.postgraduate_loan = postgraduate /\ t.employee_pension = pension
       /\ t.employer_pension = employerPension
       /\ t.net_pay = gross - UK!IncomeTax(e, gross) - ni - loan - postgraduate - pension
  BY DEF UK!Payslip, gross, h
<1> HIDE DEF t, ni, employerNi, loan, postgraduate, pension, employerPension
<1>12. /\ t.gross_pay \in Int /\ t.paye_income_tax \in Int /\ t.employee_ni \in Int
       /\ t.employer_ni \in Int /\ t.student_loan \in Int /\ t.postgraduate_loan \in Int
       /\ t.employee_pension \in Int /\ t.employer_pension \in Int
       /\ t.net_pay = t.gross_pay - t.paye_income_tax - t.employee_ni - t.student_loan
                      - t.postgraduate_loan - t.employee_pension
       /\ t.net_pay \in Int
  BY <1>4, <1>5, <1>7, <1>8, <1>9, <1>10, <1>11
<1>13. /\ t.employer_ni + t.employer_pension \in Int
      /\ t.employee_ni + t.employer_ni \in Int
      /\ t.student_loan + t.postgraduate_loan \in Int
      /\ t.employee_pension + t.employer_pension \in Int
  BY <1>12
<1>14. /\ Len(UK!Journal(t).debits) = 2
      /\ UK!Journal(t).debits[1][2] = t.gross_pay
      /\ UK!Journal(t).debits[2][2] = t.employer_ni + t.employer_pension
  BY DEF UK!Journal
<1>15. /\ Len(UK!Journal(t).credits) = 5
      /\ UK!Journal(t).credits[1][2] = t.net_pay
      /\ UK!Journal(t).credits[2][2] = t.paye_income_tax
      /\ UK!Journal(t).credits[3][2] = t.employee_ni + t.employer_ni
      /\ UK!Journal(t).credits[4][2] = t.student_loan + t.postgraduate_loan
      /\ UK!Journal(t).credits[5][2] = t.employee_pension + t.employer_pension
  BY DEF UK!Journal
<1>16. Total(UK!Journal(t).debits)
      = t.gross_pay + (t.employer_ni + t.employer_pension)
  BY <1>12, <1>13, <1>14, TotalOfTwo
<1>17. Total(UK!Journal(t).credits)
      = t.net_pay + t.paye_income_tax + (t.employee_ni + t.employer_ni) + (t.student_loan +
        t.postgraduate_loan) + (t.employee_pension + t.employer_pension)
  BY <1>12, <1>13, <1>15, TotalOfFive
<1>18. QED  BY <1>12, <1>13, <1>16, <1>17 DEF JournalBalances, t

\* Canada's rates and limits.
LEMMA CanadianTables ==
  /\ IsTable(CA!Federal.brackets)
  /\ \A province \in DOMAIN CA!Brackets :
       IsTable(CA!Brackets[province]) /\ CA!Brackets[province][1][3] \in Int
  /\ \A province \in DOMAIN CA!Brackets \ {"YT", "MB"} : CA!BasicAmounts[province] \in Int
<1>1. IsTable(CA!Federal.brackets)
  BY SMT DEF CA!Federal, CA!Units, IsTable, IsStaircase
<1>2. \A province \in DOMAIN CA!Brackets :
        IsTable(CA!Brackets[province]) /\ CA!Brackets[province][1][3] \in Int
  <2> DEFINE known == {"AB", "BC", "MB", "NB", "NL", "NS", "ON", "PE", "SK", "NT", "NU", "YT"}
  <2>0. DOMAIN CA!Brackets = known
    BY SMT DEF CA!Brackets
  <2>1. IsTable(CA!Brackets.AB) /\ CA!Brackets.AB[1][3] \in Int
    BY SMT DEF CA!Brackets, IsTable, IsStaircase
  <2>2. IsTable(CA!Brackets.BC) /\ CA!Brackets.BC[1][3] \in Int
    BY SMT DEF CA!Brackets, IsTable, IsStaircase
  <2>3. IsTable(CA!Brackets.MB) /\ CA!Brackets.MB[1][3] \in Int
    BY SMT DEF CA!Brackets, IsTable, IsStaircase
  <2>4. IsTable(CA!Brackets.NB) /\ CA!Brackets.NB[1][3] \in Int
    BY SMT DEF CA!Brackets, IsTable, IsStaircase
  <2>5. IsTable(CA!Brackets.NL) /\ CA!Brackets.NL[1][3] \in Int
    BY SMT DEF CA!Brackets, IsTable, IsStaircase
  <2>6. IsTable(CA!Brackets.NS) /\ CA!Brackets.NS[1][3] \in Int
    BY SMT DEF CA!Brackets, IsTable, IsStaircase
  <2>7. IsTable(CA!Brackets.ON) /\ CA!Brackets.ON[1][3] \in Int
    BY SMT DEF CA!Brackets, IsTable, IsStaircase
  <2>8. IsTable(CA!Brackets.PE) /\ CA!Brackets.PE[1][3] \in Int
    BY SMT DEF CA!Brackets, IsTable, IsStaircase
  <2>9. IsTable(CA!Brackets.SK) /\ CA!Brackets.SK[1][3] \in Int
    BY SMT DEF CA!Brackets, IsTable, IsStaircase
  <2>10. IsTable(CA!Brackets.NT) /\ CA!Brackets.NT[1][3] \in Int
    BY SMT DEF CA!Brackets, IsTable, IsStaircase
  <2>11. IsTable(CA!Brackets.NU) /\ CA!Brackets.NU[1][3] \in Int
    BY SMT DEF CA!Brackets, IsTable, IsStaircase
  <2>12. IsTable(CA!Brackets.YT) /\ CA!Brackets.YT[1][3] \in Int
    BY SMT DEF CA!Brackets, IsTable, IsStaircase
  <2>13. QED
    BY <2>0, <2>1, <2>2, <2>3, <2>4, <2>5, <2>6, <2>7, <2>8, <2>9, <2>10, <2>11, <2>12
<1>3. \A province \in DOMAIN CA!Brackets \ {"YT", "MB"} : CA!BasicAmounts[province] \in Int
  BY SMT DEF CA!Brackets, CA!BasicAmounts
<1>4. QED  BY <1>1, <1>2, <1>3

\* Canada's other rates, amounts and limits.
LEMMA CanadianAmounts ==
  /\ CA!Federal.bpaf_full \in Int /\ CA!Federal.bpaf_min \in Int /\ CA!Federal.taper_start \in Int
  /\ CA!Federal.taper_end \in Int /\ IsRate(CA!Federal.slope) /\ IsRate(CA!Federal.lowest)
  /\ CA!Federal.employment \in Int
  /\ CA!Manitoba.full \in Int /\ CA!Manitoba.taper_start \in Int /\ CA!Manitoba.taper_end \in Int
  /\ IsRate(CA!Manitoba.slope)
  /\ CA!BcReduction.from \in Int /\ CA!BcReduction.max \in Int /\ IsRate(CA!BcReduction.taper)
  /\ CA!Cpp.exemption \in Int /\ CA!Cpp.ympe \in Int /\ CA!Cpp.yampe \in Int
  /\ CA!Cpp.additional \in Int /\ IsRate(CA!Cpp.second)
  /\ \A date \in DOMAIN CA!Cpp.base : CA!Cpp.base[date] \in Int
  /\ CA!Ei.max_insurable \in Int /\ IsRate(CA!Ei.rate) /\ IsRate(CA!Ei.employer_multiple)
  /\ \A frequency \in DOMAIN CA!Periods :
       CA!Periods[frequency] \in Int /\ CA!Periods[frequency] > 0
<1>1. /\ CA!Federal.bpaf_full \in Int /\ CA!Federal.bpaf_min \in Int
      /\ CA!Federal.taper_start \in Int /\ CA!Federal.taper_end \in Int
      /\ IsRate(CA!Federal.slope) /\ IsRate(CA!Federal.lowest) /\ CA!Federal.employment \in Int
  BY SMT DEF CA!Federal, CA!Units, CA!Bp, IsRate
<1>2. /\ CA!Manitoba.full \in Int /\ CA!Manitoba.taper_start \in Int
      /\ CA!Manitoba.taper_end \in Int /\ IsRate(CA!Manitoba.slope)
      /\ CA!BcReduction.from \in Int /\ CA!BcReduction.max \in Int
      /\ IsRate(CA!BcReduction.taper)
  BY SMT DEF CA!Manitoba, CA!BcReduction, CA!Units, CA!Bp, IsRate
<1>3. /\ CA!Cpp.exemption \in Int /\ CA!Cpp.ympe \in Int /\ CA!Cpp.yampe \in Int
      /\ CA!Cpp.additional \in Int /\ IsRate(CA!Cpp.second)
      /\ \A date \in DOMAIN CA!Cpp.base : CA!Cpp.base[date] \in Int
      /\ CA!Ei.max_insurable \in Int /\ IsRate(CA!Ei.rate) /\ IsRate(CA!Ei.employer_multiple)
  BY SMT DEF CA!Cpp, CA!Ei, CA!Units, CA!Bp, IsRate
<1>4. \A frequency \in DOMAIN CA!Periods :
        CA!Periods[frequency] \in Int /\ CA!Periods[frequency] > 0
  BY SMT DEF CA!Periods
<1>5. QED  BY <1>1, <1>2, <1>3, <1>4

\* What Canada asks of the fields that its taxes read.
IsCanadian(e) ==
  /\ e.gross_pay \in Int /\ e.ytd \in Int /\ e.wcb_ceiling \in Int /\ e.ytd_wcb \in Int
  /\ e.wcb_rate \in Int /\ e.pay_date \in DOMAIN CA!Cpp.base
  /\ e.province \in DOMAIN CA!Brackets /\ e.frequency \in DOMAIN CA!Periods

\* Canada's contributions and its yearly income.
LEMMA CanadianBases ==
  ASSUME NEW e, IsCanadian(e)
  PROVE  /\ CA!Cpp1Earnings(e) \in Int /\ CA!EmployeeEi(e) \in Int /\ CA!TaxableIncome(e) \in Int
         /\ CA!Periods[e.frequency] \in Int /\ CA!Periods[e.frequency] > 0
         /\ CA!Cpp.base[e.pay_date] \in Int
<1> DEFINE timesPaid == CA!Periods[e.frequency]
<1> DEFINE exempt == CA!PerPeriod(CA!Cpp.exemption, timesPaid)
<1> DEFINE insured == CA!AtMost(e.gross_pay, CA!Cpp.ympe - e.ytd)
<1>1. e.gross_pay \in Int /\ e.ytd \in Int /\ timesPaid \in Int /\ timesPaid > 0
      /\ CA!Cpp.base[e.pay_date] \in Int
  BY CanadianAmounts DEF IsCanadian
<1>2. CA!Cpp1Earnings(e) \in Int
  <2>1. CA!Cpp1Earnings(e) = CA!AtLeast(0, CA!AtLeast(0, insured) - exempt)
    BY DEF CA!Cpp1Earnings
  <2> HIDE DEF timesPaid
  <2>2. exempt \in Int
    BY <1>1, CanadianAmounts, CaAmounts
  <2>3. insured \in Int
    BY <1>1, CanadianAmounts DEF CA!AtMost
  <2> HIDE DEF exempt, insured
  <2>4. CA!AtLeast(0, insured) \in Int
    BY <2>3 DEF CA!AtLeast
  <2>5. CA!AtLeast(0, CA!AtLeast(0, insured) - exempt) \in Int
    BY <2>2, <2>4, CaAmounts
  <2>6. QED  BY <2>1, <2>5
<1>3. CA!EmployeeEi(e) \in Int
  <2>1. 0 \in Int /\ CA!Ei.max_insurable \in Int /\ IsRate(CA!Ei.rate)
    BY CanadianAmounts
  <2>2. QED  BY <1>1, <2>1, CaAmounts DEF CA!EmployeeEi
<1>4. CA!TaxableIncome(e) \in Int
  <2> DEFINE year == timesPaid * CA!Cpp1Earnings(e)
  <2> DEFINE additional == CA!Share(year, CA!Bp(CA!Cpp.additional))
  <2>1. CA!TaxableIncome(e) = CA!AtLeast(0, timesPaid * e.gross_pay - additional)
    BY DEF CA!TaxableIncome
  <2> HIDE DEF timesPaid
  <2>2. year \in Int /\ timesPaid * e.gross_pay \in Int
    BY <1>1, <1>2
  <2> HIDE DEF year
  <2>3. IsRate(CA!Bp(CA!Cpp.additional))
    BY CanadianAmounts DEF CA!Bp, IsRate
  <2>4. additional \in Int
    BY <2>2, <2>3, CaAmounts
  <2> HIDE DEF additional
  <2>5. QED  BY <2>1, <2>2, <2>4 DEF CA!AtLeast
<1>5. QED  BY <1>1, <1>2, <1>3, <1>4

\* Canada's credits.
LEMMA CanadianCredits ==
  ASSUME NEW e, IsCanadian(e), NEW basic \in Int, NEW rate, IsRate(rate)
  PROVE  CA!Credits(e, basic, rate) \in Int
<1> DEFINE timesPaid == CA!Periods[e.frequency]
<1> DEFINE pension == CA!Share(timesPaid * CA!Cpp1Earnings(e), CA!Bp(CA!Cpp.base[e.pay_date]))
<1> DEFINE insurance == CA!EmployeeEi(e) * timesPaid
<1>1. CA!Credits(e, basic, rate)
      = CA!Share(basic, rate) + CA!Share(pension, rate) + CA!Share(insurance, rate)
  BY DEF CA!Credits
<1>2. /\ timesPaid * CA!Cpp1Earnings(e) \in Int /\ insurance \in Int
      /\ IsRate(CA!Bp(CA!Cpp.base[e.pay_date]))
  BY CanadianBases DEF CA!Bp, IsRate
<1>3. pension \in Int
  BY <1>2, CaAmounts
<1> HIDE DEF pension, insurance
<1>4. /\ CA!Share(basic, rate) \in Int /\ CA!Share(pension, rate) \in Int
      /\ CA!Share(insurance, rate) \in Int
  BY <1>2, <1>3, CaAmounts
<1>5. QED  BY <1>1, <1>4

\* The federal basic amount, and the provincial ones.
LEMMA CanadianBasicAmounts ==
  ASSUME NEW a \in Int, NEW province \in DOMAIN CA!Brackets
  PROVE  CA!FederalBasicAmount(a) \in Int /\ CA!ProvincialBasicAmount(province, a) \in Int
<1>1. CA!FederalBasicAmount(a) \in Int
  <2>1. /\ CA!Federal.bpaf_full \in Int /\ CA!Federal.bpaf_min \in Int
        /\ CA!Federal.taper_start \in Int /\ CA!Federal.taper_end \in Int
        /\ IsRate(CA!Federal.slope)
    BY CanadianAmounts
  <2>2. QED  BY <2>1, CaAmounts DEF CA!FederalBasicAmount
<1>2. CA!LinearTaper(a, CA!Manitoba.taper_start, CA!Manitoba.taper_end, CA!Manitoba.full, 0,
                     CA!Manitoba.slope) \in Int
  <2>1. /\ 0 \in Int /\ CA!Manitoba.full \in Int /\ CA!Manitoba.taper_start \in Int
        /\ CA!Manitoba.taper_end \in Int /\ IsRate(CA!Manitoba.slope)
    BY CanadianAmounts
  <2>2. QED  BY <2>1, CaAmounts
<1>3. ASSUME province \notin {"YT", "MB"}
      PROVE  CA!Units(CA!BasicAmounts[province]) \in Int
  BY <1>3, CanadianTables DEF CA!Units
<1>4. QED  BY <1>1, <1>2, <1>3 DEF CA!ProvincialBasicAmount

\* Canada's federal tax.
LEMMA CanadianTaxIsWhole ==
  ASSUME NEW e, IsCanadian(e)
  PROVE  CA!FederalTax(e) \in Int
<1> DEFINE timesPaid == CA!Periods[e.frequency]
<1> DEFINE a == CA!TaxableIncome(e)
<1> DEFINE row == CA!Row(a, CA!Federal.brackets)
<1> DEFINE year == CA!AtMost(CA!Federal.employment, timesPaid * e.gross_pay)
<1> DEFINE employment == CA!Share(year, CA!Federal.lowest)
<1> DEFINE credits == CA!Credits(e, CA!FederalBasicAmount(a), CA!Federal.lowest)
<1>1. CA!FederalTax(e)
      = CA!AtLeast(0, CA!Share(a, CA!Bp(row[3])) - row[2] - credits - employment)
  BY DEF CA!FederalTax
<1>2. a \in Int /\ timesPaid * e.gross_pay \in Int /\ e.province \in DOMAIN CA!Brackets
  BY CanadianBases DEF IsCanadian
<1> HIDE DEF a
<1>3. year \in Int
  BY <1>2, CanadianAmounts DEF CA!AtMost
<1> HIDE DEF year
<1>4. employment \in Int
  BY <1>3, CanadianAmounts, CaAmounts
<1>5. credits \in Int
  BY <1>2, CanadianBasicAmounts, CanadianAmounts, CanadianCredits
<1>6. row[2] \in Int /\ row[3] \in Int
  BY <1>2, CanadianTables, CaAmounts
<1> HIDE DEF row, credits, employment
<1>7. IsRate(CA!Bp(row[3]))
  BY <1>6 DEF CA!Bp, IsRate
<1>8. CA!Share(a, CA!Bp(row[3])) \in Int
  BY <1>2, <1>7, CaAmounts
<1>9. QED  BY <1>1, <1>4, <1>5, <1>6, <1>8 DEF CA!AtLeast

\* Canada's provincial tax.
LEMMA ProvincialTaxIsWhole ==
  ASSUME NEW e, IsCanadian(e)
  PROVE  CA!ProvincialTax(e) \in Int
<1> DEFINE a == CA!TaxableIncome(e)
<1> DEFINE table == CA!Brackets[e.province]
<1> DEFINE basic == CA!ProvincialBasicAmount(e.province, a)
<1> DEFINE credits == CA!Credits(e, basic, CA!Bp(table[1][3]))
<1> DEFINE found == CA!BracketLookup(a, table)
<1> DEFINE tax == CA!AtLeast(0, found - credits)
<1>1. CA!ProvincialTax(e)
      = IF e.province = "BC" THEN CA!AtLeast(0, tax - CA!Reduction(a, tax)) ELSE tax
  BY DEF CA!ProvincialTax
<1>2. a \in Int /\ e.province \in DOMAIN CA!Brackets
  BY CanadianBases DEF IsCanadian
<1>3. IsTable(table) /\ table[1][3] \in Int
  BY <1>2, CanadianTables
<1> HIDE DEF a
<1>4. basic \in Int
  BY <1>2, CanadianBasicAmounts
<1> HIDE DEF table, basic
<1>5. IsRate(CA!Bp(table[1][3]))
  BY <1>3 DEF CA!Bp, IsRate
<1>6. credits \in Int
  BY <1>4, <1>5, CanadianCredits
<1>7. found \in Int
  BY <1>2, <1>3, CaAmounts
<1> HIDE DEF credits, found
<1>8. tax \in Int
  BY <1>6, <1>7 DEF CA!AtLeast
<1> HIDE DEF tax
<1>9. CA!Reduction(a, tax) \in Int
  <2>1. CA!BcReduction.from - a \in Int
    BY <1>2, CanadianAmounts
  <2>2. CA!Share(CA!BcReduction.from - a, CA!BcReduction.taper) \in Int
    BY <2>1, CanadianAmounts, CaAmounts
  <2>3. QED  BY <1>8, <2>2, CanadianAmounts DEF CA!Reduction, CA!AtMost
<1>10. QED  BY <1>1, <1>8, <1>9 DEF CA!AtLeast

\* Canada's.
LEMMA CanadaBalances ==
  ASSUME NEW e \in CA!Employee, CA!Valid(e)
  PROVE  JournalBalances(CA!Journal(CA!Payslip(e)))
<1> DEFINE timesPaid == CA!Periods[e.frequency]
<1> DEFINE rate == CA!Bp(CA!Cpp.base[e.pay_date] + CA!Cpp.additional)
<1> DEFINE cpp1 == CA!Share(CA!Cpp1Earnings(e), rate)
<1> DEFINE cpp2 == CA!BandedContribution(e.ytd, e.gross_pay, CA!Cpp.ympe, CA!Cpp.yampe,
                                         CA!Cpp.second)
<1> DEFINE ei == CA!EmployeeEi(e)
<1> DEFINE employerEi == CA!Share(ei, CA!Ei.employer_multiple)
<1> DEFINE wcb == IF e.wcb_rate = -1 THEN 0
                  ELSE CA!BandedContribution(e.ytd_wcb, e.gross_pay, 0, e.wcb_ceiling,
                                             CA!Pct(e.wcb_rate))
<1> DEFINE federal == CA!PerPeriod(CA!FederalTax(e), timesPaid)
<1> DEFINE provincial == CA!PerPeriod(CA!ProvincialTax(e), timesPaid)
<1> DEFINE t == CA!Payslip(e)
<1>1. IsCanadian(e)
  BY DEF CA!Employee, CA!Valid, IsCanadian
<1>2. /\ e.gross_pay \in Int /\ e.ytd \in Int /\ e.wcb_ceiling \in Int /\ e.ytd_wcb \in Int
      /\ e.wcb_rate \in Int
  BY <1>1 DEF IsCanadian
<1>3. cpp1 \in Int
  <2>1. IsRate(rate)
    BY <1>1, CanadianBases, CanadianAmounts DEF CA!Bp, IsRate
  <2> HIDE DEF rate
  <2>2. QED  BY <1>1, <2>1, CanadianBases, CaAmounts
<1>4. cpp2 \in Int
  BY <1>2, CanadianAmounts, CaAmounts
<1>5. ei \in Int /\ employerEi \in Int
  BY <1>1, CanadianBases, CanadianAmounts, CaAmounts
<1>6. wcb \in Int
  <2>1. 0 \in Int /\ IsRate(CA!Pct(e.wcb_rate))
    BY <1>2 DEF CA!Pct, IsRate
  <2>2. CA!BandedContribution(e.ytd_wcb, e.gross_pay, 0, e.wcb_ceiling, CA!Pct(e.wcb_rate)) \in Int
    BY <1>2, <2>1, CaAmounts
  <2>3. QED  BY <2>2
<1>7. federal \in Int /\ provincial \in Int
  BY <1>1, CanadianBases, CanadianTaxIsWhole, ProvincialTaxIsWhole, CaAmounts
<1>8. /\ t.gross_pay = e.gross_pay /\ t.federal_income_tax = federal
      /\ t.provincial_income_tax = provincial
      /\ t.employee_cpp1 = cpp1 /\ t.employer_cpp1 = cpp1 /\ t.employee_cpp2 = cpp2
      /\ t.employer_cpp2 = cpp2 /\ t.employee_ei = ei /\ t.employer_ei = employerEi
      /\ t.employer_wcb = wcb
      /\ t.net_pay = e.gross_pay - (federal + provincial + cpp1 + cpp2 + ei)
  BY DEF CA!Payslip
<1> HIDE DEF t, cpp1, cpp2, ei, employerEi, wcb, federal, provincial
<1>9. /\ t.gross_pay \in Int /\ t.federal_income_tax \in Int /\ t.provincial_income_tax \in Int
      /\ t.employee_cpp1 \in Int /\ t.employer_cpp1 = t.employee_cpp1 /\ t.employee_cpp2 \in Int
      /\ t.employer_cpp2 = t.employee_cpp2 /\ t.employee_ei \in Int /\ t.employer_ei \in Int
      /\ t.employer_wcb \in Int
      /\ t.net_pay = t.gross_pay - t.federal_income_tax - t.provincial_income_tax
                     - t.employee_cpp1 - t.employee_cpp2 - t.employee_ei
      /\ t.net_pay \in Int
  BY <1>2, <1>3, <1>4, <1>5, <1>6, <1>7, <1>8
<1>10. /\ t.employer_cpp1 + t.employer_cpp2 + t.employer_ei \in Int
      /\ t.employee_cpp1 + t.employer_cpp1 + t.employee_cpp2 + t.employer_cpp2 \in Int
      /\ t.employee_ei + t.employer_ei \in Int
  BY <1>9
<1>11. /\ Len(CA!Journal(t).debits) = 3
      /\ CA!Journal(t).debits[1][2] = t.gross_pay
      /\ CA!Journal(t).debits[2][2] = t.employer_cpp1 + t.employer_cpp2 + t.employer_ei
      /\ CA!Journal(t).debits[3][2] = t.employer_wcb
  BY DEF CA!Journal
<1>12. /\ Len(CA!Journal(t).credits) = 6
      /\ CA!Journal(t).credits[1][2] = t.net_pay
      /\ CA!Journal(t).credits[2][2] = t.federal_income_tax
      /\ CA!Journal(t).credits[3][2] = t.provincial_income_tax
      /\ CA!Journal(t).credits[4][2] = t.employee_cpp1 + t.employer_cpp1 + t.employee_cpp2 +
         t.employer_cpp2
      /\ CA!Journal(t).credits[5][2] = t.employee_ei + t.employer_ei
      /\ CA!Journal(t).credits[6][2] = t.employer_wcb
  BY DEF CA!Journal
<1>13. Total(CA!Journal(t).debits)
      = t.gross_pay + (t.employer_cpp1 + t.employer_cpp2 + t.employer_ei) + t.employer_wcb
  BY <1>9, <1>10, <1>11, TotalOfThree
<1>14. Total(CA!Journal(t).credits)
      = t.net_pay + t.federal_income_tax + t.provincial_income_tax + (t.employee_cpp1 +
        t.employer_cpp1 + t.employee_cpp2 + t.employer_cpp2) + (t.employee_ei +
        t.employer_ei) + t.employer_wcb
  BY <1>9, <1>10, <1>12, TotalOfSix
<1>15. QED  BY <1>9, <1>10, <1>13, <1>14 DEF JournalBalances, t

\* Kenya's table, caps and rates.
LEMMA KenyanFigures ==
  /\ IsTable(KE!Pack.brackets)
  /\ KE!Pack.personal_relief \in Int /\ KE!Pack.insurance_relief_cap \in Int
  /\ KE!Pack.pension_deduction_cap \in Int /\ KE!Pack.mortgage_interest_cap \in Int
  /\ KE!Pack.medical_cap \in Int /\ KE!Pack.shif_minimum \in Int /\ KE!Pack.nita \in Int
  /\ IsRate(KE!Pack.insurance_relief_rate) /\ IsRate(KE!Pack.nssf_rate)
  /\ IsRate(KE!Pack.shif_rate) /\ IsRate(KE!Pack.ahl_rate)
  /\ IsRate(KE!Benefits.housing_percent) /\ IsRate(KE!Benefits.car_cost_percent)
  /\ \A car \in KE!Cars \ {"NONE", "LEASED"} : KE!Benefits.car_by_band[car] \in Int
  /\ \A schedule \in {"Y3_JAN", "Y4_FROM_FEB"} :
       KE!Pack.nssf[schedule].tier1 \in Int /\ KE!Pack.nssf[schedule].overall \in Int
<1>1. IsTable(KE!Pack.brackets)
  BY SMT DEF KE!Pack, IsTable, IsStaircase
<1>2. \A car \in KE!Cars \ {"NONE", "LEASED"} : KE!Benefits.car_by_band[car] \in Int
  BY SMT DEF KE!Benefits, KE!Cars, KE!Units
<1>3. QED  BY <1>1, <1>2, SMT DEF KE!Pack, KE!Benefits, KE!Units, KE!Pct, KE!Bp, IsRate

\* Kenya's.
LEMMA KenyaBalances ==
  ASSUME NEW e \in KE!Employee, KE!Valid(e)
  PROVE  JournalBalances(KE!Journal(KE!Payslip(e)))
<1> DEFINE ahl == KE!Share(e.gross_pay, KE!Pack.ahl_rate)
<1> DEFINE t == KE!Payslip(e)
<1>1. /\ e.gross_pay \in Int /\ e.deductions \in Int /\ e.insurance_premium \in Int
      /\ e.rent \in Int /\ e.recovered \in Int /\ e.car \in KE!Cars /\ e.car_cost \in Int
  BY DEF KE!Employee, KE!Valid
<1>2. ahl \in Int
  BY <1>1, KenyanFigures, KeAmounts
<1>3. KE!Nssf(e) \in Int
  <2> DEFINE schedule == KE!Pack.nssf[IF e.pay_date = "FEB" THEN "Y4_FROM_FEB" ELSE "Y3_JAN"]
  <2>1. schedule.tier1 \in Int /\ schedule.overall \in Int
    BY KenyanFigures
  <2> DEFINE low == KE!AtMost(e.gross_pay, schedule.tier1)
  <2> DEFINE high == KE!AtLeast(0, KE!AtMost(e.gross_pay, schedule.overall) - schedule.tier1)
  <2>2. KE!Nssf(e) = KE!Share(low, KE!Pack.nssf_rate) + KE!Share(high, KE!Pack.nssf_rate)
    BY DEF KE!Nssf
  <2> HIDE DEF schedule
  <2>3. low \in Int /\ high \in Int
    BY <1>1, <2>1 DEF KE!AtMost, KE!AtLeast
  <2> HIDE DEF low, high
  <2>4. KE!Share(low, KE!Pack.nssf_rate) \in Int /\ KE!Share(high, KE!Pack.nssf_rate) \in Int
    BY <2>3, KenyanFigures, KeAmounts
  <2>5. QED  BY <2>2, <2>4
<1>4. KE!Shif(e) \in Int
  <2>1. KE!Share(e.gross_pay, KE!Pack.shif_rate) \in Int
    BY <1>1, KenyanFigures, KeAmounts
  <2>2. QED  BY <2>1, KenyanFigures DEF KE!Shif, KE!AtLeast
<1>5. KE!HousingBenefit(e) \in Int
  <2>1. KE!Share(e.gross_pay, KE!Benefits.housing_percent) \in Int
    BY <1>1, KenyanFigures, KeAmounts
  <2>2. QED  BY <1>1, <2>1 DEF KE!HousingBenefit, KE!AtLeast
<1>6. KE!CarBenefit(e) \in Int
  <2>1. KE!Share(e.car_cost, KE!Benefits.car_cost_percent) \in Int
    BY <1>1, KenyanFigures, KeAmounts
  <2>2. e.car \notin {"NONE", "LEASED"} => KE!Benefits.car_by_band[e.car] \in Int
    BY <1>1, KenyanFigures
  <2>3. QED  BY <1>1, <2>1, <2>2 DEF KE!CarBenefit, KE!AtLeast
<1>7. KE!Paye(e) \in Int
  <2> DEFINE taxable == KE!AtLeast(0, e.gross_pay + KE!HousingBenefit(e) + KE!CarBenefit(e)
                           - ahl - KE!Shif(e)
                           - KE!AtMost(KE!Nssf(e) + e.deductions, KE!Pack.pension_deduction_cap)
                           - KE!AtMost(e.deductions, KE!Pack.mortgage_interest_cap)
                           - KE!AtMost(e.deductions, KE!Pack.medical_cap))
  <2> DEFINE premium == KE!Share(e.insurance_premium, KE!Pack.insurance_relief_rate)
  <2> DEFINE relief == KE!AtMost(premium, KE!Pack.insurance_relief_cap)
  <2> DEFINE tax == KE!BracketLookup(taxable, KE!Pack.brackets)
  <2>1. KE!Paye(e) = IF e.resident THEN KE!AtLeast(0, tax - KE!Pack.personal_relief - relief)
                     ELSE tax
    BY DEF KE!Paye
  <2> HIDE DEF ahl
  <2>2. /\ KE!AtMost(KE!Nssf(e) + e.deductions, KE!Pack.pension_deduction_cap) \in Int
        /\ KE!AtMost(e.deductions, KE!Pack.mortgage_interest_cap) \in Int
        /\ KE!AtMost(e.deductions, KE!Pack.medical_cap) \in Int
    BY <1>1, <1>3, KenyanFigures DEF KE!AtMost
  <2>3. taxable \in Int
    BY <1>1, <1>2, <1>4, <1>5, <1>6, <2>2 DEF KE!AtLeast
  <2> HIDE DEF taxable
  <2>4. premium \in Int
    BY <1>1, KenyanFigures, KeAmounts
  <2> HIDE DEF premium
  <2>5. relief \in Int
    BY <2>4, KenyanFigures DEF KE!AtMost
  <2> HIDE DEF relief
  <2>6. tax \in Int
    BY <2>3, KenyanFigures, KeAmounts
  <2> HIDE DEF tax
  <2>7. QED  BY <2>1, <2>5, <2>6, KenyanFigures DEF KE!AtLeast
<1>8. /\ t.gross_pay = e.gross_pay /\ t.paye = KE!Paye(e)
      /\ t.employee_nssf = KE!Nssf(e) /\ t.employer_nssf = KE!Nssf(e)
      /\ t.employee_shif = KE!Shif(e) /\ t.employee_ahl = ahl /\ t.employer_ahl = ahl
      /\ t.employer_nita = KE!Pack.nita
      /\ t.net_pay = e.gross_pay - KE!Paye(e) - KE!Nssf(e) - KE!Shif(e) - ahl
  BY DEF KE!Payslip
<1> HIDE DEF t, ahl
<1>9. /\ t.gross_pay \in Int /\ t.paye \in Int /\ t.employee_nssf \in Int
      /\ t.employer_nssf = t.employee_nssf /\ t.employee_shif \in Int /\ t.employee_ahl \in Int
      /\ t.employer_ahl = t.employee_ahl /\ t.employer_nita \in Int
      /\ t.net_pay = t.gross_pay - t.paye - t.employee_nssf - t.employee_shif - t.employee_ahl
      /\ t.net_pay \in Int
  BY <1>1, <1>2, <1>3, <1>4, <1>7, <1>8, KenyanFigures
<1>10. /\ t.employer_nssf + t.employer_ahl + t.employer_nita \in Int
      /\ t.employee_nssf + t.employer_nssf \in Int
      /\ t.employee_ahl + t.employer_ahl \in Int
  BY <1>9
<1>11. /\ Len(KE!Journal(t).debits) = 2
      /\ KE!Journal(t).debits[1][2] = t.gross_pay
      /\ KE!Journal(t).debits[2][2] = t.employer_nssf + t.employer_ahl + t.employer_nita
  BY DEF KE!Journal
<1>12. /\ Len(KE!Journal(t).credits) = 6
      /\ KE!Journal(t).credits[1][2] = t.net_pay
      /\ KE!Journal(t).credits[2][2] = t.paye
      /\ KE!Journal(t).credits[3][2] = t.employee_nssf + t.employer_nssf
      /\ KE!Journal(t).credits[4][2] = t.employee_shif
      /\ KE!Journal(t).credits[5][2] = t.employee_ahl + t.employer_ahl
      /\ KE!Journal(t).credits[6][2] = t.employer_nita
  BY DEF KE!Journal
<1>13. Total(KE!Journal(t).debits)
      = t.gross_pay + (t.employer_nssf + t.employer_ahl + t.employer_nita)
  BY <1>9, <1>10, <1>11, TotalOfTwo
<1>14. Total(KE!Journal(t).credits)
      = t.net_pay + t.paye + (t.employee_nssf + t.employer_nssf) + t.employee_shif +
        (t.employee_ahl + t.employer_ahl) + t.employer_nita
  BY <1>9, <1>10, <1>12, TotalOfSix
<1>15. QED  BY <1>9, <1>10, <1>13, <1>14 DEF JournalBalances, t

\* South Africa's table, rebates and rates.
LEMMA SouthAfricanFigures ==
  /\ IsTable(ZA!Pack.brackets)
  /\ ZA!Pack.rebates.primary \in Int /\ ZA!Pack.rebates.secondary \in Int
  /\ ZA!Pack.rebates.tertiary \in Int /\ ZA!Pack.medical.main \in Int
  /\ ZA!Pack.medical.first \in Int /\ ZA!Pack.medical.additional \in Int
  /\ IsRate(ZA!Pack.uif_rate) /\ ZA!Pack.uif_max \in Int /\ IsRate(ZA!Pack.sdl_rate)
  /\ ZA!Eti.ineligible \in Int /\ ZA!Eti.full_month = 160
  /\ \A k \in {1, 2} :
       /\ ZA!Eti.tables[k].low \in Int /\ IsRate(ZA!Eti.tables[k].low_rate)
       /\ ZA!Eti.tables[k].mid \in Int /\ ZA!Eti.tables[k].flat \in Int
       /\ IsRate(ZA!Eti.tables[k].taper)
<1>1. IsTable(ZA!Pack.brackets)
  BY SMT DEF ZA!Pack, IsTable, IsStaircase
<1>2. \A k \in {1, 2} :
        /\ ZA!Eti.tables[k].low \in Int /\ IsRate(ZA!Eti.tables[k].low_rate)
        /\ ZA!Eti.tables[k].mid \in Int /\ ZA!Eti.tables[k].flat \in Int
        /\ IsRate(ZA!Eti.tables[k].taper)
  BY SMT DEF ZA!Eti, ZA!Units, ZA!Pct, IsRate
<1>3. QED  BY <1>1, <1>2, SMT DEF ZA!Pack, ZA!Eti, ZA!Units, ZA!Pct, IsRate

\* South Africa's.
LEMMA SouthAfricaBalances ==
  ASSUME NEW e \in ZA!Employee, ZA!Valid(e)
  PROVE  JournalBalances(ZA!Journal(ZA!Payslip(e)))
<1> DEFINE uif == ZA!Share(ZA!AtMost(e.gross_pay, ZA!Pack.uif_max), ZA!Pack.uif_rate)
<1> DEFINE sdl == IF e.sdl_liable THEN ZA!Share(e.gross_pay, ZA!Pack.sdl_rate) ELSE 0
<1> DEFINE t == ZA!Payslip(e)
<1>1. /\ e.gross_pay \in Int /\ e.age \in Int /\ e.dependants \in Int
      /\ e.eti_months \in Int /\ e.eti_hours \in Int
      /\ (e.eti_eligible => e.eti_hours > 0)
  BY DEF ZA!Employee, ZA!Valid
<1>2. uif \in Int /\ sdl \in Int
  <2>1. ZA!AtMost(e.gross_pay, ZA!Pack.uif_max) \in Int
    BY <1>1, SouthAfricanFigures DEF ZA!AtMost
  <2>2. uif \in Int
    BY <2>1, SouthAfricanFigures, ZaAmounts
  <2>3. IsRate(ZA!Pack.sdl_rate) /\ e.gross_pay \in Int
    BY <1>1, SouthAfricanFigures
  <2>4. ZA!Share(e.gross_pay, ZA!Pack.sdl_rate) \in Int
    BY <2>3, ZaAmounts
  <2>5. QED  BY <2>2, <2>4
<1>3. ZA!Paye(e) \in Int
  <2> DEFINE rebate == ZA!Pack.rebates.primary
                       + (IF e.age >= 65 THEN ZA!Pack.rebates.secondary ELSE 0)
                       + (IF e.age >= 75 THEN ZA!Pack.rebates.tertiary ELSE 0)
  <2> DEFINE year == 12 * e.gross_pay
  <2> DEFINE tax == ZA!BracketLookup(year, ZA!Pack.brackets)
  <2> DEFINE annual == ZA!AtLeast(0, tax - rebate)
  <2> DEFINE credit == IF ~e.main_member THEN 0
                       ELSE ZA!Pack.medical.main
                            + (IF e.dependants >= 1 THEN ZA!Pack.medical.first ELSE 0)
                            + ZA!Pack.medical.additional * ZA!AtLeast(0, e.dependants - 1)
  <2>1. ZA!Paye(e) = ZA!AtLeast(0, ZA!PerPeriod(annual, 12) - credit)
    BY DEF ZA!Paye
  <2>2. rebate \in Int
    BY SouthAfricanFigures
  <2>3. year \in Int
    BY <1>1
  <2> HIDE DEF year
  <2>4. tax \in Int
    BY <2>3, SouthAfricanFigures, ZaAmounts
  <2>5. credit \in Int
    <3>1. ZA!AtLeast(0, e.dependants - 1) \in Int
      BY <1>1 DEF ZA!AtLeast
    <3>2. ZA!Pack.medical.additional * ZA!AtLeast(0, e.dependants - 1) \in Int
      BY <3>1, SouthAfricanFigures
    <3>3. QED  BY <3>2, SouthAfricanFigures
  <2> HIDE DEF rebate, tax, credit
  <2>6. annual \in Int
    BY <2>2, <2>4 DEF ZA!AtLeast
  <2> HIDE DEF annual
  <2>7. ZA!PerPeriod(annual, 12) \in Int
    BY <2>6, ZaAmounts
  <2>8. QED  BY <2>1, <2>5, <2>7 DEF ZA!AtLeast
<1>4. ZA!EtiIncentive(e) \in Int
  <2> DEFINE short == e.eti_hours < ZA!Eti.full_month
  <2> DEFINE pay == IF short THEN ZA!Share(e.gross_pay, <<ZA!Eti.full_month, e.eti_hours>>)
                    ELSE e.gross_pay
  <2> DEFINE h == ZA!Eti.tables[IF e.eti_months <= 12 THEN 1 ELSE 2]
  <2> DEFINE raw == CASE pay < h.low -> ZA!Share(pay, h.low_rate)
                      [] pay >= h.low /\ pay < h.mid -> h.flat
                      [] pay >= h.mid /\ pay < ZA!Eti.ineligible ->
                           ZA!AtLeast(0, h.flat + ZA!Share(h.mid - pay, h.taper))
                      [] pay >= ZA!Eti.ineligible -> 0
  <2>1. ZA!EtiIncentive(e)
        = IF ~e.eti_eligible THEN 0
          ELSE IF short THEN ZA!Share(raw, <<e.eti_hours, ZA!Eti.full_month>>) ELSE raw
    BY DEF ZA!EtiIncentive
  <2>2. /\ h.low \in Int /\ IsRate(h.low_rate) /\ h.mid \in Int /\ h.flat \in Int
        /\ IsRate(h.taper)
    BY SouthAfricanFigures
  <2> HIDE DEF h
  <2> SUFFICES ASSUME e.eti_eligible
               PROVE  (IF short THEN ZA!Share(raw, <<e.eti_hours, ZA!Eti.full_month>>) ELSE raw)
                      \in Int
    <3> HIDE DEF raw, short
    <3>1. QED  BY <2>1
  <2>3. IsRate(<<ZA!Eti.full_month, e.eti_hours>>) /\ IsRate(<<e.eti_hours, ZA!Eti.full_month>>)
    BY <1>1, SouthAfricanFigures DEF IsRate
  <2>4. pay \in Int
    BY <1>1, <2>3, ZaAmounts
  <2> HIDE DEF pay, short
  <2>5. h.mid - pay \in Int
    BY <2>2, <2>4
  <2>6. ZA!Share(pay, h.low_rate) \in Int /\ ZA!Share(h.mid - pay, h.taper) \in Int
    BY <2>2, <2>4, <2>5, ZaAmounts
  <2>7. ZA!AtLeast(0, h.flat + ZA!Share(h.mid - pay, h.taper)) \in Int
    BY <2>2, <2>6 DEF ZA!AtLeast
  <2>8. \/ pay < h.low \/ (pay >= h.low /\ pay < h.mid)
        \/ (pay >= h.mid /\ pay < ZA!Eti.ineligible) \/ pay >= ZA!Eti.ineligible
    BY <2>2, <2>4, SouthAfricanFigures
  <2>9. raw \in Int
    BY <2>2, <2>6, <2>7, <2>8
  <2> HIDE DEF raw
  <2>10. QED  BY <2>3, <2>9, ZaAmounts
<1>5. /\ t.gross_pay = e.gross_pay /\ t.paye = ZA!Paye(e) /\ t.employee_uif = uif
      /\ t.employer_uif = uif /\ t.employer_sdl = sdl /\ t.eti = ZA!EtiIncentive(e)
      /\ t.net_pay = e.gross_pay - ZA!Paye(e) - uif
  BY DEF ZA!Payslip
<1> HIDE DEF t, uif, sdl
<1>6. /\ t.gross_pay \in Int /\ t.paye \in Int /\ t.employee_uif \in Int
      /\ t.employer_uif = t.employee_uif /\ t.employer_sdl \in Int /\ t.eti \in Int
      /\ t.net_pay = t.gross_pay - t.paye - t.employee_uif /\ t.net_pay \in Int
  BY <1>1, <1>2, <1>3, <1>4, <1>5
<1>7. /\ t.employer_uif + t.employer_sdl \in Int
      /\ t.employee_uif + t.employer_uif \in Int
  BY <1>6
<1>8. /\ Len(ZA!Journal(t).debits) = 3
      /\ ZA!Journal(t).debits[1][2] = t.gross_pay
      /\ ZA!Journal(t).debits[2][2] = t.employer_uif + t.employer_sdl
      /\ ZA!Journal(t).debits[3][2] = t.eti
  BY DEF ZA!Journal
<1>9. /\ Len(ZA!Journal(t).credits) = 5
      /\ ZA!Journal(t).credits[1][2] = t.net_pay
      /\ ZA!Journal(t).credits[2][2] = t.paye
      /\ ZA!Journal(t).credits[3][2] = t.employee_uif + t.employer_uif
      /\ ZA!Journal(t).credits[4][2] = t.employer_sdl
      /\ ZA!Journal(t).credits[5][2] = t.eti
  BY DEF ZA!Journal
<1>10. Total(ZA!Journal(t).debits)
      = t.gross_pay + (t.employer_uif + t.employer_sdl) + t.eti
  BY <1>6, <1>7, <1>8, TotalOfThree
<1>11. Total(ZA!Journal(t).credits)
      = t.net_pay + t.paye + (t.employee_uif + t.employer_uif) + t.employer_sdl + t.eti
  BY <1>6, <1>7, <1>9, TotalOfFive
<1>12. QED  BY <1>6, <1>7, <1>10, <1>11 DEF JournalBalances, t

\* Rwanda's table and rates.
LEMMA RwandanFigures ==
  /\ IsTable(RW!Pack.brackets)
  /\ IsRate(RW!Pack.second_employer) /\ RW!Pack.casual_threshold \in Int
  /\ IsRate(RW!Pack.casual_above) /\ IsRate(RW!Pack.pension) /\ IsRate(RW!Pack.occupational)
  /\ IsRate(RW!Pack.maternity) /\ IsRate(RW!Pack.rama) /\ IsRate(RW!Pack.cbhi)
  /\ RW!Pack.vehicle \in Int /\ RW!Pack.accommodation \in Int
<1>1. IsTable(RW!Pack.brackets)
  BY SMT DEF RW!Pack, IsTable, IsStaircase
<1>2. QED  BY <1>1, SMT DEF RW!Pack, RW!Units, RW!Pct, RW!Bp, IsRate

\* Rwanda's.
LEMMA RwandaBalances ==
  ASSUME NEW e \in RW!Employee, RW!Valid(e)
  PROVE  JournalBalances(RW!Journal(RW!Payslip(e)))
<1> DEFINE pension == RW!Share(e.gross_pay, RW!Pack.pension)
<1> DEFINE maternity == RW!Share(e.gross_pay, RW!Pack.maternity)
<1> DEFINE oh == RW!Share(e.oh_base, RW!Pack.occupational)
<1> DEFINE rama == IF e.rama_member THEN RW!Share(e.rama_salary, RW!Pack.rama) ELSE 0
<1> DEFINE net == e.gross_pay - RW!Paye(e) - pension - maternity - rama
<1> DEFINE cbhi == RW!Share(RW!AtLeast(0, net), RW!Pack.cbhi)
<1> DEFINE t == RW!Payslip(e)
<1>1. /\ e.gross_pay \in Int /\ e.oh_base \in Int /\ e.rama_salary \in Int
      /\ e.employee_type \in {"REGULAR", "CASUAL"}
  BY DEF RW!Employee, RW!Valid
<1>2. pension \in Int /\ maternity \in Int /\ oh \in Int /\ rama \in Int
  <2>1. RW!Share(e.rama_salary, RW!Pack.rama) \in Int
    BY <1>1, RwandanFigures, RwAmounts
  <2>2. pension \in Int /\ maternity \in Int /\ oh \in Int
    BY <1>1, RwandanFigures, RwAmounts
  <2>3. QED  BY <2>1, <2>2
<1>3. RW!Taxable(e) \in Int
  <2> DEFINE percent == (IF e.vehicle THEN RW!Pack.vehicle ELSE 0)
                        + (IF e.accommodation THEN RW!Pack.accommodation ELSE 0)
  <2>1. RW!Taxable(e) = e.gross_pay + RW!Share(e.gross_pay, RW!Pct(percent))
    BY DEF RW!Taxable
  <2>2. percent \in Int
    BY RwandanFigures
  <2> HIDE DEF percent
  <2>3. IsRate(RW!Pct(percent))
    BY <2>2 DEF RW!Pct, IsRate
  <2>4. RW!Share(e.gross_pay, RW!Pct(percent)) \in Int
    BY <1>1, <2>3, RwAmounts
  <2>5. QED  BY <1>1, <2>1, <2>4
<1>4. RW!Paye(e) \in Int
  <2> DEFINE above == RW!AtLeast(0, RW!Taxable(e) - RW!Pack.casual_threshold)
  <2> DEFINE tax == CASE e.employee_type = "CASUAL" -> RW!Share(above, RW!Pack.casual_above)
                      [] e.employee_type = "REGULAR" /\ e.first_employer ->
                           RW!BracketLookup(RW!Taxable(e), RW!Pack.brackets)
                      [] OTHER -> RW!Share(RW!Taxable(e), RW!Pack.second_employer)
  <2>1. RW!Paye(e) = RW!WholeFranc(tax)
    BY DEF RW!Paye
  <2>2. above \in Int
    BY <1>3, RwandanFigures DEF RW!AtLeast
  <2> HIDE DEF above
  <2>3. /\ RW!Share(above, RW!Pack.casual_above) \in Int
        /\ RW!BracketLookup(RW!Taxable(e), RW!Pack.brackets) \in Int
        /\ RW!Share(RW!Taxable(e), RW!Pack.second_employer) \in Int
    BY <1>3, <2>2, RwandanFigures, RwAmounts
  <2>4. tax \in Int
    BY <2>3
  <2> HIDE DEF tax
  <2>5. (tax + 99) \div 100 \in Int
    BY <2>4
  <2>6. QED  BY <2>1, <2>5 DEF RW!WholeFranc, RW!Units
<1>5. net \in Int
  BY <1>1, <1>2, <1>4
<1>6. cbhi \in Int
  <2>1. RW!AtLeast(0, net) \in Int
    BY <1>5 DEF RW!AtLeast
  <2> HIDE DEF net
  <2>2. QED  BY <2>1, RwandanFigures, RwAmounts
<1>7. /\ t.gross_pay = e.gross_pay /\ t.paye = RW!Paye(e) /\ t.employee_pension = pension
      /\ t.employer_pension = pension /\ t.employer_oh = oh /\ t.employee_maternity = maternity
      /\ t.employer_maternity = maternity /\ t.employee_rama = rama /\ t.employer_rama = rama
      /\ t.employee_cbhi = cbhi /\ t.net_pay = net - cbhi
  BY DEF RW!Payslip
<1> HIDE DEF t, pension, maternity, oh, rama, cbhi
<1>8. /\ t.gross_pay \in Int /\ t.paye \in Int /\ t.employee_pension \in Int
      /\ t.employer_pension = t.employee_pension /\ t.employer_oh \in Int
      /\ t.employee_maternity \in Int /\ t.employer_maternity = t.employee_maternity
      /\ t.employee_rama \in Int /\ t.employer_rama = t.employee_rama /\ t.employee_cbhi \in Int
      /\ t.net_pay = t.gross_pay - t.paye - t.employee_pension - t.employee_maternity
                     - t.employee_rama - t.employee_cbhi
      /\ t.net_pay \in Int
  BY <1>1, <1>2, <1>4, <1>6, <1>7
<1>9. /\ t.employer_pension + t.employer_oh + t.employer_maternity + t.employer_rama \in Int
      /\ t.employee_pension + t.employer_pension \in Int
      /\ t.employee_maternity + t.employer_maternity \in Int
      /\ t.employee_rama + t.employer_rama \in Int
  BY <1>8
<1>10. /\ Len(RW!Journal(t).debits) = 2
      /\ RW!Journal(t).debits[1][2] = t.gross_pay
      /\ RW!Journal(t).debits[2][2] = t.employer_pension + t.employer_oh +
         t.employer_maternity + t.employer_rama
  BY DEF RW!Journal
<1>11. /\ Len(RW!Journal(t).credits) = 7
      /\ RW!Journal(t).credits[1][2] = t.net_pay
      /\ RW!Journal(t).credits[2][2] = t.paye
      /\ RW!Journal(t).credits[3][2] = t.employee_pension + t.employer_pension
      /\ RW!Journal(t).credits[4][2] = t.employer_oh
      /\ RW!Journal(t).credits[5][2] = t.employee_maternity + t.employer_maternity
      /\ RW!Journal(t).credits[6][2] = t.employee_rama + t.employer_rama
      /\ RW!Journal(t).credits[7][2] = t.employee_cbhi
  BY DEF RW!Journal
<1>12. Total(RW!Journal(t).debits)
      = t.gross_pay + (t.employer_pension + t.employer_oh + t.employer_maternity +
        t.employer_rama)
  BY <1>8, <1>9, <1>10, TotalOfTwo
<1>13. Total(RW!Journal(t).credits)
      = t.net_pay + t.paye + (t.employee_pension + t.employer_pension) + t.employer_oh +
        (t.employee_maternity + t.employer_maternity) + (t.employee_rama + t.employer_rama)
        + t.employee_cbhi
  BY <1>8, <1>9, <1>11, TotalOfSeven
<1> DEFINE debit == Total(RW!Journal(t).debits)
<1> DEFINE credit == Total(RW!Journal(t).credits)
<1> HIDE DEF debit, credit
<1>14. debit = credit
  BY <1>8, <1>12, <1>13 DEF debit, credit
<1>15. QED  BY <1>14 DEF JournalBalances, t, debit, credit

\* The rates and limits of Mauritius.
LEMMA MauritianFigures ==
  /\ IsRate(MU!Pack.csg_low.employee) /\ IsRate(MU!Pack.csg_low.employer)
  /\ IsRate(MU!Pack.csg_high.employee) /\ IsRate(MU!Pack.csg_high.employer)
  /\ IsRate(MU!Pack.nsf.employee) /\ IsRate(MU!Pack.nsf.employer)
  /\ MU!Pack.nsf_min_household \in Int /\ MU!Pack.nsf_min_other \in Int /\ MU!Pack.nsf_max \in Int
  /\ IsRate(MU!Pack.levy) /\ IsRate(MU!Pack.prgf)
  BY SMT DEF MU!Pack, MU!Units, MU!Pct, MU!Bp, IsRate

\* Mauritius'.
LEMMA MauritiusBalances ==
  ASSUME NEW e \in MU!Employee, MU!Valid(e)
  PROVE  JournalBalances(MU!Journal(MU!Payslip(e)))
<1> DEFINE csg == IF e.gross_pay <= MU!Pack.csg_threshold THEN MU!Pack.csg_low ELSE MU!Pack.csg_high
<1> DEFINE nsfBase == MU!AtMost(MU!AtLeast(e.gross_pay, MU!NsfMinimum(e)), MU!Pack.nsf_max)
<1> DEFINE employerCsg == MU!Share(e.gross_pay, csg.employer)
<1> DEFINE employeeCsg == MU!Share(e.gross_pay, csg.employee)
<1> DEFINE employerNsf == MU!Share(nsfBase, MU!Pack.nsf.employer)
<1> DEFINE employeeNsf == MU!Share(nsfBase, MU!Pack.nsf.employee)
<1> DEFINE levy == MU!Share(e.gross_pay, MU!Pack.levy)
<1> DEFINE prgf == IF e.prgf_exempt THEN 0 ELSE MU!Share(e.gross_pay, MU!Pack.prgf)
<1> DEFINE t == MU!Payslip(e)
<1>1. e.gross_pay \in Int /\ MU!Paye(e) \in Int
  BY PayeIsWhole DEF MU!Employee
<1>2. employerCsg \in Int /\ employeeCsg \in Int
  <2>1. IsRate(csg.employer) /\ IsRate(csg.employee)
    BY MauritianFigures
  <2> HIDE DEF csg
  <2>2. QED  BY <1>1, <2>1, MuAmounts
<1>3. employerNsf \in Int /\ employeeNsf \in Int
  <2>1. MU!NsfMinimum(e) \in Int
    BY MauritianFigures DEF MU!NsfMinimum
  <2>2. nsfBase \in Int
    BY <1>1, <2>1, MauritianFigures DEF MU!AtMost, MU!AtLeast
  <2> HIDE DEF nsfBase
  <2>3. QED  BY <2>2, MauritianFigures, MuAmounts
<1>4. levy \in Int /\ prgf \in Int
  <2>1. MU!Share(e.gross_pay, MU!Pack.levy) \in Int /\ MU!Share(e.gross_pay, MU!Pack.prgf) \in Int
    BY <1>1, MauritianFigures, MuAmounts
  <2>2. QED  BY <2>1
<1>5. /\ t.gross_pay = e.gross_pay /\ t.paye = MU!Paye(e) /\ t.employee_csg = employeeCsg
      /\ t.employer_csg = employerCsg /\ t.employee_nsf = employeeNsf
      /\ t.employer_nsf = employerNsf /\ t.employer_training_levy = levy /\ t.employer_prgf = prgf
      /\ t.net_pay = e.gross_pay - MU!Paye(e) - employeeCsg - employeeNsf
  BY DEF MU!Payslip
<1> HIDE DEF t, employeeCsg, employerCsg, employeeNsf, employerNsf, levy, prgf
<1>6. /\ t.gross_pay \in Int /\ t.paye \in Int /\ t.employee_csg \in Int /\ t.employer_csg \in Int
      /\ t.employee_nsf \in Int /\ t.employer_nsf \in Int /\ t.employer_training_levy \in Int
      /\ t.employer_prgf \in Int
      /\ t.net_pay = t.gross_pay - t.paye - t.employee_csg - t.employee_nsf
      /\ t.net_pay \in Int
  BY <1>1, <1>2, <1>3, <1>4, <1>5
<1>7. /\ t.employer_csg + t.employer_nsf + t.employer_training_levy + t.employer_prgf \in Int
      /\ t.employee_csg + t.employer_csg \in Int
      /\ t.employee_nsf + t.employer_nsf \in Int
  BY <1>6
<1>8. /\ Len(MU!Journal(t).debits) = 2
      /\ MU!Journal(t).debits[1][2] = t.gross_pay
      /\ MU!Journal(t).debits[2][2] = t.employer_csg + t.employer_nsf +
         t.employer_training_levy + t.employer_prgf
  BY DEF MU!Journal
<1>9. /\ Len(MU!Journal(t).credits) = 6
      /\ MU!Journal(t).credits[1][2] = t.net_pay
      /\ MU!Journal(t).credits[2][2] = t.paye
      /\ MU!Journal(t).credits[3][2] = t.employee_csg + t.employer_csg
      /\ MU!Journal(t).credits[4][2] = t.employee_nsf + t.employer_nsf
      /\ MU!Journal(t).credits[5][2] = t.employer_training_levy
      /\ MU!Journal(t).credits[6][2] = t.employer_prgf
  BY DEF MU!Journal
<1>10. Total(MU!Journal(t).debits)
      = t.gross_pay + (t.employer_csg + t.employer_nsf + t.employer_training_levy +
        t.employer_prgf)
  BY <1>6, <1>7, <1>8, TotalOfTwo
<1>11. Total(MU!Journal(t).credits)
      = t.net_pay + t.paye + (t.employee_csg + t.employer_csg) + (t.employee_nsf +
        t.employer_nsf) + t.employer_training_levy + t.employer_prgf
  BY <1>6, <1>7, <1>9, TotalOfSix
<1>12. QED  BY <1>6, <1>7, <1>10, <1>11 DEF JournalBalances, t

\* Cameroon's tables and rates.
LEMMA CameroonianFigures ==
  /\ IsTable(CM!IrppPack.brackets) /\ IsStaircase(CM!TdlTable) /\ IsStaircase(CM!CrtvTable)
  /\ IsRate(CM!IrppPack.professional_rate) /\ CM!IrppPack.professional_cap \in Int
  /\ CM!IrppPack.allowance \in Int /\ IsRate(CM!IrppPack.cac)
  /\ CM!IrppPack.benefits["housing"] \in Int /\ CM!IrppPack.benefits["vehicle"] \in Int
  /\ CM!IrppPack.benefits["food"] \in Int /\ CM!IrppPack.benefits["telephone"] \in Int
  /\ DOMAIN CM!IrppPack.benefits = {"housing", "vehicle", "food", "telephone"}
  /\ IsRate(CM!CnpsPack.pension) /\ CM!CnpsPack.cap \in Int
  /\ IsRate(CM!CnpsPack.cfc_employee) /\ IsRate(CM!CnpsPack.cfc_employer)
  /\ IsRate(CM!CnpsPack.fne)
  /\ \A sector \in DOMAIN CM!CnpsPack.family : IsRate(CM!CnpsPack.family[sector])
  /\ \A risk \in DOMAIN CM!CnpsPack.risk : IsRate(CM!CnpsPack.risk[risk])
<1>1. IsTable(CM!IrppPack.brackets)
  BY SMT DEF CM!IrppPack, IsTable, IsStaircase
<1>2. IsStaircase(CM!TdlTable)
  BY SMT DEF CM!TdlTable, IsStaircase, CM!Units
<1>3. IsStaircase(CM!CrtvTable)
  BY SMT DEF CM!CrtvTable, IsStaircase, CM!Units
<1>4. \A sector \in DOMAIN CM!CnpsPack.family : IsRate(CM!CnpsPack.family[sector])
  BY SMT DEF CM!CnpsPack, CM!Bp, IsRate
<1>5. \A risk \in DOMAIN CM!CnpsPack.risk : IsRate(CM!CnpsPack.risk[risk])
  BY SMT DEF CM!CnpsPack, CM!Bp, IsRate
<1>6. /\ IsRate(CM!IrppPack.professional_rate) /\ CM!IrppPack.professional_cap \in Int
      /\ CM!IrppPack.allowance \in Int /\ IsRate(CM!IrppPack.cac)
      /\ CM!IrppPack.benefits["housing"] \in Int /\ CM!IrppPack.benefits["vehicle"] \in Int
      /\ CM!IrppPack.benefits["food"] \in Int /\ CM!IrppPack.benefits["telephone"] \in Int
      /\ DOMAIN CM!IrppPack.benefits = {"housing", "vehicle", "food", "telephone"}
  BY SMT DEF CM!IrppPack, CM!Units, CM!Pct, IsRate
<1>7. /\ IsRate(CM!CnpsPack.pension) /\ CM!CnpsPack.cap \in Int
      /\ IsRate(CM!CnpsPack.cfc_employee) /\ IsRate(CM!CnpsPack.cfc_employer)
      /\ IsRate(CM!CnpsPack.fne)
  BY SMT DEF CM!CnpsPack, CM!Units, CM!Pct, CM!Bp, IsRate
<1>8. QED  BY <1>1, <1>2, <1>3, <1>4, <1>5, <1>6, <1>7

\* Cameroon's income tax.
LEMMA CameroonianTaxIsWhole ==
  ASSUME NEW e, e.gross_pay \in Int, NEW pension \in Int
  PROVE  CM!Irpp(e, pension) \in Int
<1> DEFINE kind == CM!InKind(e)
<1> DEFINE taxable == e.gross_pay + CM!Share(e.gross_pay, CM!Pct(kind))
<1> DEFINE annual == 12 * taxable
<1> DEFINE share == CM!Share(annual, CM!IrppPack.professional_rate)
<1> DEFINE professional == CM!AtMost(share, CM!IrppPack.professional_cap)
<1> DEFINE base == CM!AtLeast(0, annual - professional - 12 * pension - CM!IrppPack.allowance)
<1> DEFINE tax == CM!BracketLookup(base, CM!IrppPack.brackets)
<1>1. CM!Irpp(e, pension)
      = IF taxable < CM!IrppPack.low_wage THEN 0 ELSE CM!PerPeriod(tax, 12)
  BY DEF CM!Irpp
<1>2. kind \in Int
  BY CameroonianFigures DEF CM!InKind
<1> HIDE DEF kind
<1>3. IsRate(CM!Pct(kind))
  BY <1>2 DEF CM!Pct, IsRate
<1>4. CM!Share(e.gross_pay, CM!Pct(kind)) \in Int
  BY <1>3, CmAmounts
<1>5. annual \in Int
  BY <1>4
<1> HIDE DEF taxable, annual
<1>6. share \in Int
  BY <1>5, CameroonianFigures, CmAmounts
<1> HIDE DEF share
<1>7. professional \in Int
  BY <1>6, CameroonianFigures DEF CM!AtMost
<1> HIDE DEF professional
<1>8. base \in Int
  BY <1>5, <1>7, CameroonianFigures DEF CM!AtLeast
<1> HIDE DEF base
<1>9. tax \in Int
  BY <1>8, CameroonianFigures, CmAmounts
<1> HIDE DEF tax
<1>10. CM!PerPeriod(tax, 12) \in Int
  BY <1>9, CmAmounts
<1>11. QED  BY <1>1, <1>10

\* Cameroon's.
LEMMA CameroonBalances ==
  ASSUME NEW e \in CM!Employee, CM!Valid(e)
  PROVE  JournalBalances(CM!Journal(CM!Payslip(e)))
<1> DEFINE insured == CM!AtMost(e.gross_pay, CM!CnpsPack.cap)
<1> DEFINE pension == CM!Share(insured, CM!CnpsPack.pension)
<1> DEFINE family == CM!Share(insured, CM!CnpsPack.family[e.sector])
<1> DEFINE risk == CM!Share(e.gross_pay, CM!CnpsPack.risk[e.risk])
<1> DEFINE irpp == CM!Irpp(e, pension)
<1> DEFINE cac == CM!Share(irpp, CM!IrppPack.cac)
<1> DEFINE thousands == CM!Units(1000) * (e.gross_pay \div CM!Units(1000))
<1> DEFINE employeeCfc == CM!Share(thousands, CM!CnpsPack.cfc_employee)
<1> DEFINE employerCfc == IF e.cfc_fne_exempt THEN 0
                          ELSE CM!Share(thousands, CM!CnpsPack.cfc_employer)
<1> DEFINE fne == IF e.cfc_fne_exempt THEN 0 ELSE CM!Share(thousands, CM!CnpsPack.fne)
<1> DEFINE tdl == CM!StepLookup(e.gross_pay, CM!TdlTable)
<1> DEFINE crtv == IF e.crtv_exempt THEN 0 ELSE CM!StepLookup(e.gross_pay, CM!CrtvTable)
<1> DEFINE t == CM!Payslip(e)
<1>1. /\ e.gross_pay \in Int /\ e.sector \in DOMAIN CM!CnpsPack.family
      /\ e.risk \in DOMAIN CM!CnpsPack.risk
  BY DEF CM!Employee, CM!Valid
<1>2. pension \in Int /\ family \in Int /\ risk \in Int
  <2>1. insured \in Int
    BY <1>1, CameroonianFigures DEF CM!AtMost
  <2> HIDE DEF insured
  <2>2. /\ IsRate(CM!CnpsPack.pension) /\ IsRate(CM!CnpsPack.family[e.sector])
        /\ IsRate(CM!CnpsPack.risk[e.risk])
    BY <1>1, CameroonianFigures
  <2>3. QED  BY <1>1, <2>1, <2>2, CmAmounts
<1>3. irpp \in Int
  BY <1>1, <1>2, CameroonianTaxIsWhole
<1>4. cac \in Int
  <2> HIDE DEF irpp
  <2>1. QED  BY <1>3, CameroonianFigures, CmAmounts
<1>5. employeeCfc \in Int /\ employerCfc \in Int /\ fne \in Int
  <2>1. thousands \in Int
    BY <1>1 DEF CM!Units
  <2> HIDE DEF thousands
  <2>2. employeeCfc \in Int
    BY <2>1, CameroonianFigures, CmAmounts
  <2>3. CM!Share(thousands, CM!CnpsPack.cfc_employer) \in Int
    BY <2>1, CameroonianFigures, CmAmounts
  <2>4. CM!Share(thousands, CM!CnpsPack.fne) \in Int
    BY <2>1, CameroonianFigures, CmAmounts
  <2>5. QED  BY <2>2, <2>3, <2>4
<1>6. tdl \in Int /\ crtv \in Int
  <2>1. CM!StepLookup(e.gross_pay, CM!TdlTable) \in Int
    BY <1>1, CameroonianFigures, CmAmounts
  <2>2. CM!StepLookup(e.gross_pay, CM!CrtvTable) \in Int
    BY <1>1, CameroonianFigures, CmAmounts
  <2>3. QED  BY <2>1, <2>2
<1>7. /\ t.gross_pay = e.gross_pay /\ t.irpp = irpp /\ t.cac = cac
      /\ t.employee_cnps_pension = pension /\ t.employer_cnps_pension = pension
      /\ t.employer_cnps_family_allowance = family /\ t.employer_cnps_occupational_risk = risk
      /\ t.employee_cfc = employeeCfc /\ t.employer_cfc = employerCfc /\ t.employer_fne = fne
      /\ t.tdl = tdl /\ t.crtv = crtv
      /\ t.net_pay = e.gross_pay - irpp - cac - pension - employeeCfc - tdl - crtv
  BY DEF CM!Payslip
<1> HIDE DEF t, pension, family, risk, irpp, cac, employeeCfc, employerCfc, fne, tdl, crtv
<1>8. /\ t.gross_pay \in Int /\ t.irpp \in Int /\ t.cac \in Int
      /\ t.employee_cnps_pension \in Int /\ t.employer_cnps_pension = t.employee_cnps_pension
      /\ t.employer_cnps_family_allowance \in Int /\ t.employer_cnps_occupational_risk \in Int
      /\ t.employee_cfc \in Int /\ t.employer_cfc \in Int /\ t.employer_fne \in Int
      /\ t.tdl \in Int /\ t.crtv \in Int
      /\ t.net_pay = t.gross_pay - t.irpp - t.cac - t.employee_cnps_pension - t.employee_cfc
                     - t.tdl - t.crtv
      /\ t.net_pay \in Int
  BY <1>1, <1>2, <1>3, <1>4, <1>5, <1>6, <1>7
<1>9. /\ t.employer_cnps_pension + t.employer_cnps_family_allowance +
         t.employer_cnps_occupational_risk + t.employer_cfc + t.employer_fne \in Int
      /\ t.employee_cnps_pension + t.employer_cnps_pension \in Int
      /\ t.employee_cfc + t.employer_cfc \in Int
  BY <1>8
<1>10. /\ Len(CM!Journal(t).debits) = 2
      /\ CM!Journal(t).debits[1][2] = t.gross_pay
      /\ CM!Journal(t).debits[2][2] = t.employer_cnps_pension +
         t.employer_cnps_family_allowance + t.employer_cnps_occupational_risk +
         t.employer_cfc + t.employer_fne
  BY DEF CM!Journal
<1>11. /\ Len(CM!Journal(t).credits) = 10
      /\ CM!Journal(t).credits[1][2] = t.net_pay
      /\ CM!Journal(t).credits[2][2] = t.irpp
      /\ CM!Journal(t).credits[3][2] = t.cac
      /\ CM!Journal(t).credits[4][2] = t.employee_cnps_pension + t.employer_cnps_pension
      /\ CM!Journal(t).credits[5][2] = t.employer_cnps_family_allowance
      /\ CM!Journal(t).credits[6][2] = t.employer_cnps_occupational_risk
      /\ CM!Journal(t).credits[7][2] = t.employee_cfc + t.employer_cfc
      /\ CM!Journal(t).credits[8][2] = t.employer_fne
      /\ CM!Journal(t).credits[9][2] = t.tdl
      /\ CM!Journal(t).credits[10][2] = t.crtv
  BY DEF CM!Journal
<1>12. Total(CM!Journal(t).debits)
      = t.gross_pay + (t.employer_cnps_pension + t.employer_cnps_family_allowance +
        t.employer_cnps_occupational_risk + t.employer_cfc + t.employer_fne)
  BY <1>8, <1>9, <1>10, TotalOfTwo
<1>13. Total(CM!Journal(t).credits)
      = t.net_pay + t.irpp + t.cac + (t.employee_cnps_pension + t.employer_cnps_pension) +
        t.employer_cnps_family_allowance + t.employer_cnps_occupational_risk +
        (t.employee_cfc + t.employer_cfc) + t.employer_fne + t.tdl + t.crtv
  BY <1>8, <1>9, <1>11, TotalOfTen
<1>14. QED  BY <1>8, <1>9, <1>12, <1>13 DEF JournalBalances, t

-----------------------------------------------------------------------------
(* The United States' tables *)

\* Tables by filing status.
IsTables(T) == \A status \in DOMAIN T : IsTable(T[status])

\* Rows of three figures, and of two.
HasRows(t, n) ==
  Len(t) = n /\ \A k \in 1..n : t[k][1] \in Int /\ t[k][2] \in Int /\ t[k][3] \in Int
HasSteps(t, n) == Len(t) = n /\ \A k \in 1..n : t[k][1] \in Int /\ t[k][2] \in Int

\* They make a table.
LEMMA RowsMakeATable ==
  ASSUME NEW t, NEW n \in Nat, n >= 1, HasRows(t, n)
  PROVE  IsTable(t)
  BY DEF HasRows, IsTable, IsStaircase

\* They make a staircase.
LEMMA StepsMakeAStaircase ==
  ASSUME NEW t, NEW n \in Nat, n >= 1, HasSteps(t, n)
  PROVE  IsStaircase(t)
  BY DEF HasSteps, IsStaircase

\* The federal figures.
LEMMA FederalTables ==
  /\ \A filing \in US!Filings :
       /\ IsTable(US!StandardBrackets[filing]) /\ IsTable(US!Step2Brackets[filing])
       /\ US!Step2Deduction[filing] \in Int
  /\ \A frequency \in DOMAIN US!Periods :
       US!Periods[frequency] \in Int /\ US!Periods[frequency] > 0
<1>1. \A filing \in US!Filings : IsTable(US!StandardBrackets[filing])
  <2>1. /\ HasRows(US!StandardBrackets.MFJ, 8) /\ HasRows(US!StandardBrackets.SINGLE_MFS, 8)
        /\ HasRows(US!StandardBrackets.HOH, 8)
    BY SMT DEF US!StandardBrackets, HasRows
  <2>2. QED  BY <2>1, RowsMakeATable DEF US!Filings
<1>2. \A filing \in US!Filings : IsTable(US!Step2Brackets[filing])
  <2>1. /\ HasRows(US!Step2Brackets.MFJ, 8) /\ HasRows(US!Step2Brackets.SINGLE_MFS, 8)
        /\ HasRows(US!Step2Brackets.HOH, 8)
    BY SMT DEF US!Step2Brackets, HasRows
  <2>2. QED  BY <2>1, RowsMakeATable DEF US!Filings
<1>3. \A filing \in US!Filings : US!Step2Deduction[filing] \in Int
  BY SMT DEF US!Filings, US!Step2Deduction, US!Units
<1>4. \A frequency \in DOMAIN US!Periods :
        US!Periods[frequency] \in Int /\ US!Periods[frequency] > 0
  BY SMT DEF US!Periods
<1>5. QED  BY <1>1, <1>2, <1>3, <1>4

\* California's.
LEMMA CaliforniaTables ==
  /\ DOMAIN US!Periods = {"WEEKLY", "MONTHLY"}
  /\ \A status \in {"SINGLE", "MARRIED", "HEAD_OF_HOUSEHOLD"} :
       IsTable(US!CaWeekly[status]) /\ IsTable(US!CaMonthly[status])
  /\ \A frequency \in DOMAIN US!Periods :
       /\ US!CaAmounts[frequency].estimated \in Int /\ US!CaAmounts[frequency].credit \in Int
       /\ \A status \in US!Statuses["CA"] : US!CaAmounts[frequency].standard[status] \in Int
  /\ US!Statuses["CA"] = {"SINGLE", "MARRIED_0_OR_1", "MARRIED_2_OR_MORE", "HEAD_OF_HOUSEHOLD"}
<1>1. DOMAIN US!Periods = {"WEEKLY", "MONTHLY"}
  BY SMT DEF US!Periods
<1>2. \A status \in {"SINGLE", "MARRIED", "HEAD_OF_HOUSEHOLD"} : IsTable(US!CaWeekly[status])
  <2>1. /\ HasRows(US!CaWeekly.SINGLE, 10) /\ HasRows(US!CaWeekly.HEAD_OF_HOUSEHOLD, 10)
        /\ HasRows(US!CaWeekly.MARRIED, 10)
    BY SMT DEF US!CaWeekly, HasRows
  <2>2. QED  BY <2>1, RowsMakeATable
<1>3. \A status \in {"SINGLE", "MARRIED", "HEAD_OF_HOUSEHOLD"} : IsTable(US!CaMonthly[status])
  <2>1. /\ HasRows(US!CaMonthly.SINGLE, 10) /\ HasRows(US!CaMonthly.HEAD_OF_HOUSEHOLD, 10)
        /\ HasRows(US!CaMonthly.MARRIED, 10)
    BY SMT DEF US!CaMonthly, HasRows
  <2>2. QED  BY <2>1, RowsMakeATable
<1>4. US!Statuses["CA"] = {"SINGLE", "MARRIED_0_OR_1", "MARRIED_2_OR_MORE", "HEAD_OF_HOUSEHOLD"}
  BY DEF US!Statuses
<1>5. \A frequency \in DOMAIN US!Periods :
       /\ US!CaAmounts[frequency].estimated \in Int /\ US!CaAmounts[frequency].credit \in Int
       /\ \A status \in US!Statuses["CA"] : US!CaAmounts[frequency].standard[status] \in Int
  BY <1>1, <1>4, SMT DEF US!CaAmounts, US!Units
<1>6. QED  BY <1>1, <1>2, <1>3, <1>4, <1>5

\* New Jersey's and New York's.
LEMMA EasternTables ==
  /\ US!Statuses["NJ"] = {"A", "B"} /\ US!Statuses["NY"] = {"SINGLE", "MARRIED"}
  /\ \A status \in {"A", "B"} : IsTable(US!NjWeekly[status]) /\ IsTable(US!NjMonthly[status])
  /\ \A status \in {"SINGLE", "MARRIED"} :
       IsTable(US!NyWeekly[status]) /\ IsTable(US!NyMonthly[status])
  /\ \A frequency \in {"WEEKLY", "MONTHLY"} :
       /\ US!Nj.allowance[frequency] \in Int /\ US!NyAmounts.exemption[frequency] \in Int
       /\ IsTable(US!NycBrackets[frequency]) /\ IsStaircase(US!Yonkers.exemption[frequency])
       /\ \A status \in {"SINGLE", "MARRIED"} :
            /\ US!NyAmounts.deduction[frequency][status] \in Int
            /\ US!NyAmounts.nyc[frequency][status] \in Int
  /\ IsRate(US!Yonkers.resident) /\ IsRate(US!Yonkers.nonresident)
<1>1. US!Statuses["NJ"] = {"A", "B"} /\ US!Statuses["NY"] = {"SINGLE", "MARRIED"}
  BY DEF US!Statuses
<1>2. \A status \in {"A", "B"} : IsTable(US!NjWeekly[status]) /\ IsTable(US!NjMonthly[status])
  <2>1. /\ HasRows(US!NjWeekly.A, 7) /\ HasRows(US!NjWeekly.B, 8)
        /\ HasRows(US!NjMonthly.A, 7) /\ HasRows(US!NjMonthly.B, 8)
    BY SMT DEF US!NjWeekly, US!NjMonthly, HasRows
  <2>2. QED  BY <2>1, RowsMakeATable
<1>3. \A status \in {"SINGLE", "MARRIED"} : IsTable(US!NyWeekly[status])
  <2>1. /\ HasRows(US!NyWeekly.SINGLE, 10) /\ HasRows(US!NyWeekly.MARRIED, 12)
    BY SMT DEF US!NyWeekly, HasRows
  <2>2. QED  BY <2>1, RowsMakeATable
<1>4. \A status \in {"SINGLE", "MARRIED"} : IsTable(US!NyMonthly[status])
  <2>1. /\ HasRows(US!NyMonthly.SINGLE, 10) /\ HasRows(US!NyMonthly.MARRIED, 12)
    BY SMT DEF US!NyMonthly, HasRows
  <2>2. QED  BY <2>1, RowsMakeATable
<1>5. \A frequency \in {"WEEKLY", "MONTHLY"} : IsTable(US!NycBrackets[frequency])
  <2>1. /\ HasRows(US!NycBrackets.WEEKLY, 6) /\ HasRows(US!NycBrackets.MONTHLY, 6)
    BY SMT DEF US!NycBrackets, HasRows
  <2>2. QED  BY <2>1, RowsMakeATable
<1>6. \A frequency \in {"WEEKLY", "MONTHLY"} : IsStaircase(US!Yonkers.exemption[frequency])
  <2>1. /\ HasSteps(US!Yonkers.exemption.WEEKLY, 4)
        /\ HasSteps(US!Yonkers.exemption.MONTHLY, 4)
    BY SMT DEF US!Yonkers, US!Units, HasSteps
  <2>2. QED  BY <2>1, StepsMakeAStaircase
<1>7. \A frequency \in {"WEEKLY", "MONTHLY"} :
        US!Nj.allowance[frequency] \in Int /\ US!NyAmounts.exemption[frequency] \in Int
  BY SMT DEF US!Nj, US!NyAmounts
<1>8. \A frequency \in {"WEEKLY", "MONTHLY"} :
        \A status \in {"SINGLE", "MARRIED"} :
          /\ US!NyAmounts.deduction[frequency][status] \in Int
          /\ US!NyAmounts.nyc[frequency][status] \in Int
  BY SMT DEF US!NyAmounts
<1>9. IsRate(US!Yonkers.resident) /\ IsRate(US!Yonkers.nonresident)
  BY SMT DEF US!Yonkers, US!Bp, IsRate
<1>10. QED  BY <1>1, <1>2, <1>3, <1>4, <1>5, <1>6, <1>7, <1>8, <1>9

\* Oregon's.
LEMMA OregonTables ==
  /\ US!Statuses["OR"] = {"SINGLE", "MARRIED"}
  /\ US!Oregon.credit \in Int /\ US!Oregon.subtraction \in Int /\ US!Oregon.subtraction_step \in Int
  /\ \A track \in {"narrow", "wide"} :
       /\ US!Oregon.standard[track] \in Int
       /\ IsTable(US!Oregon.under[track]) /\ IsTable(US!Oregon.over[track])
  /\ \A status \in {"SINGLE", "MARRIED"} :
       /\ US!Oregon.phaseout[status].from \in Int
       /\ US!Oregon.phaseout[status].width \in Int /\ US!Oregon.phaseout[status].width > 0
<1>1. US!Statuses["OR"] = {"SINGLE", "MARRIED"}
  BY DEF US!Statuses
<1>2. /\ US!Oregon.credit \in Int /\ US!Oregon.subtraction \in Int
      /\ US!Oregon.subtraction_step \in Int
  BY SMT DEF US!Oregon, US!Units
<1>3. \A track \in {"narrow", "wide"} : US!Oregon.standard[track] \in Int
  BY SMT DEF US!Oregon, US!Units
<1>4. \A track \in {"narrow", "wide"} :
        IsTable(US!Oregon.under[track]) /\ IsTable(US!Oregon.over[track])
  <2>1. /\ HasRows(US!Oregon.under.narrow, 3) /\ HasRows(US!Oregon.under.wide, 3)
        /\ HasRows(US!Oregon.over.narrow, 3) /\ HasRows(US!Oregon.over.wide, 3)
    BY SMT DEF US!Oregon, HasRows
  <2>2. QED  BY <2>1, RowsMakeATable
<1>5. \A status \in {"SINGLE", "MARRIED"} :
       /\ US!Oregon.phaseout[status].from \in Int
       /\ US!Oregon.phaseout[status].width \in Int /\ US!Oregon.phaseout[status].width > 0
  BY SMT DEF US!Oregon
<1>6. QED  BY <1>1, <1>2, <1>3, <1>4, <1>5

\* The rates and amounts of the states with flat rates.
LEMMA FlatStates ==
  /\ IsRate(US!Illinois.rate) /\ US!Illinois.line1 \in Int /\ US!Illinois.line2 \in Int
  /\ IsRate(US!Pennsylvania.income)
  /\ \A half \in {"H1", "H2"} : \A place \in DOMAIN US!Pennsylvania.philadelphia[half] :
       IsRate(US!Pennsylvania.philadelphia[half][place])
  /\ IsRate(US!Michigan.rate) /\ US!Michigan.exemption \in Int
  /\ US!Colorado.rate \in Int /\ US!Colorado.opt_employee \in Int
  /\ US!Colorado.opt_employer \in Int
  /\ \A status \in US!Statuses["CO"] : US!Colorado.subtraction[status] \in Int
  /\ IsRate(US!Indiana.rate) /\ US!Indiana.personal \in Int /\ US!Indiana.dependent \in Int
  /\ US!Indiana.adopted \in Int
  /\ \A county \in DOMAIN US!Indiana.county : IsRate(US!Indiana.county[county])
  /\ US!NorthCarolina.rate[1] \in Int /\ US!NorthCarolina.allowance \in Int
  /\ \A status \in US!Statuses["NC"] : US!NorthCarolina.standard[status] \in Int
<1>1. /\ IsRate(US!Illinois.rate) /\ US!Illinois.line1 \in Int /\ US!Illinois.line2 \in Int
      /\ IsRate(US!Pennsylvania.income)
      /\ IsRate(US!Michigan.rate) /\ US!Michigan.exemption \in Int
  BY SMT DEF US!Illinois, US!Pennsylvania, US!Michigan, US!Units, US!Bp, IsRate
<1>2. \A half \in {"H1", "H2"} : \A place \in DOMAIN US!Pennsylvania.philadelphia[half] :
        IsRate(US!Pennsylvania.philadelphia[half][place])
  BY SMT DEF US!Pennsylvania, US!Bp, IsRate
<1>3. /\ US!Colorado.rate \in Int /\ US!Colorado.opt_employee \in Int
      /\ US!Colorado.opt_employer \in Int
      /\ \A status \in DOMAIN US!Colorado.subtraction : US!Colorado.subtraction[status] \in Int
  BY SMT DEF US!Colorado, US!Units
<1>4. /\ US!Statuses["CO"] = DOMAIN US!Colorado.subtraction
      /\ US!Statuses["NC"] = DOMAIN US!NorthCarolina.standard
  BY DEF US!Statuses
<1>5. /\ IsRate(US!Indiana.rate) /\ US!Indiana.personal \in Int /\ US!Indiana.dependent \in Int
      /\ US!Indiana.adopted \in Int
      /\ \A county \in DOMAIN US!Indiana.county : IsRate(US!Indiana.county[county])
  BY SMT DEF US!Indiana, US!Units, US!Bp, IsRate
<1>6. /\ US!NorthCarolina.rate[1] \in Int /\ US!NorthCarolina.allowance \in Int
      /\ \A status \in DOMAIN US!NorthCarolina.standard : US!NorthCarolina.standard[status] \in Int
  BY SMT DEF US!NorthCarolina, US!Units, US!Bp
<1>7. QED  BY <1>1, <1>2, <1>3, <1>4, <1>5, <1>6

\* The figures of batch v11.
LEMMA BatchV11Figures ==
  /\ US!GaKyMsUt.ga.rate \in Int /\ US!GaKyMsUt.ga.dependent \in Int
  /\ \A status \in DOMAIN US!GaKyMsUt.ga.standard : US!GaKyMsUt.ga.standard[status] \in Int
  /\ IsRate(US!GaKyMsUt.ky.rate) /\ US!GaKyMsUt.ky.standard \in Int
  /\ IsTables(US!GaKyMsUt.ms.brackets) /\ "ALL" \in DOMAIN US!GaKyMsUt.ms.brackets
  /\ US!GaKyMsUt.ms.dependent \in Int
  /\ \A status \in DOMAIN US!GaKyMsUt.ms.base : US!GaKyMsUt.ms.base[status] \in Int
  /\ IsRate(US!GaKyMsUt.ut.rate) /\ IsRate(US!GaKyMsUt.ut.phaseout)
  /\ \A status \in DOMAIN US!GaKyMsUt.ut.base :
       US!GaKyMsUt.ut.base[status] \in Int /\ US!GaKyMsUt.ut.threshold[status] \in Int
  /\ IsTables(US!MnMtNd.mn.brackets) /\ US!MnMtNd.mn.allowance \in Int
  /\ IsTables(US!MnMtNd.mt.brackets)
  /\ IsTables(US!MnMtNd.nd.brackets) /\ US!MnMtNd.nd.exemption \in Int
  /\ IsTables(US!OkRiVa.ok.brackets) /\ US!OkRiVa.ok.exemption \in Int
  /\ IsTables(US!OkRiVa.ri.brackets) /\ "ALL" \in DOMAIN US!OkRiVa.ri.brackets
  /\ US!OkRiVa.ri.exemption \in Int
  /\ IsTables(US!OkRiVa.va.brackets) /\ "ALL" \in DOMAIN US!OkRiVa.va.brackets
  /\ US!OkRiVa.va.standard \in Int /\ US!OkRiVa.va.exemption \in Int
<1>1. /\ US!GaKyMsUt.ga.rate \in Int /\ US!GaKyMsUt.ga.dependent \in Int
      /\ \A status \in DOMAIN US!GaKyMsUt.ga.standard : US!GaKyMsUt.ga.standard[status] \in Int
      /\ IsRate(US!GaKyMsUt.ky.rate) /\ US!GaKyMsUt.ky.standard \in Int
  BY SMT DEF US!GaKyMsUt, US!Units, US!Bp, IsRate
<1>2. IsTables(US!GaKyMsUt.ms.brackets) /\ "ALL" \in DOMAIN US!GaKyMsUt.ms.brackets
  <2>1. DOMAIN US!GaKyMsUt.ms.brackets = {"ALL"}
    BY SMT DEF US!GaKyMsUt
  <2>2. HasRows(US!GaKyMsUt.ms.brackets.ALL, 2)
    BY SMT DEF US!GaKyMsUt, HasRows
  <2>3. QED  BY <2>1, <2>2, RowsMakeATable DEF IsTables
<1>3. /\ US!GaKyMsUt.ms.dependent \in Int
      /\ \A status \in DOMAIN US!GaKyMsUt.ms.base : US!GaKyMsUt.ms.base[status] \in Int
      /\ IsRate(US!GaKyMsUt.ut.rate) /\ IsRate(US!GaKyMsUt.ut.phaseout)
      /\ \A status \in DOMAIN US!GaKyMsUt.ut.base :
           US!GaKyMsUt.ut.base[status] \in Int /\ US!GaKyMsUt.ut.threshold[status] \in Int
  BY SMT DEF US!GaKyMsUt, US!Units, US!Bp, IsRate
<1>4. IsTables(US!MnMtNd.mn.brackets)
  <2>1. DOMAIN US!MnMtNd.mn.brackets = {"SINGLE", "MARRIED"}
    BY SMT DEF US!MnMtNd
  <2>2. /\ HasRows(US!MnMtNd.mn.brackets.SINGLE, 5)
        /\ HasRows(US!MnMtNd.mn.brackets.MARRIED, 5)
    BY SMT DEF US!MnMtNd, HasRows
  <2>3. QED  BY <2>1, <2>2, RowsMakeATable DEF IsTables
<1>5. IsTables(US!MnMtNd.mt.brackets)
  <2>1. DOMAIN US!MnMtNd.mt.brackets =
          {"HEAD_OF_HOUSEHOLD", "SINGLE_OR_MFS_OR_BOTH_WORKING", "MARRIED_FILING_JOINTLY"}
    BY SMT DEF US!MnMtNd
  <2>2. /\ HasRows(US!MnMtNd.mt.brackets.HEAD_OF_HOUSEHOLD, 3)
        /\ HasRows(US!MnMtNd.mt.brackets.SINGLE_OR_MFS_OR_BOTH_WORKING, 3)
        /\ HasRows(US!MnMtNd.mt.brackets.MARRIED_FILING_JOINTLY, 3)
    BY SMT DEF US!MnMtNd, HasRows
  <2>3. QED  BY <2>1, <2>2, RowsMakeATable DEF IsTables
<1>6. IsTables(US!MnMtNd.nd.brackets)
  <2>1. DOMAIN US!MnMtNd.nd.brackets =
          {"HEAD_OF_HOUSEHOLD", "MARRIED_FILING_JOINTLY", "SINGLE_OR_MFS"}
    BY SMT DEF US!MnMtNd
  <2>2. /\ HasRows(US!MnMtNd.nd.brackets.HEAD_OF_HOUSEHOLD, 3)
        /\ HasRows(US!MnMtNd.nd.brackets.MARRIED_FILING_JOINTLY, 3)
        /\ HasRows(US!MnMtNd.nd.brackets.SINGLE_OR_MFS, 3)
    BY SMT DEF US!MnMtNd, HasRows
  <2>3. QED  BY <2>1, <2>2, RowsMakeATable DEF IsTables
<1>7. IsTables(US!OkRiVa.ok.brackets)
  <2>1. DOMAIN US!OkRiVa.ok.brackets = {"SINGLE_OR_HOH", "MARRIED"}
    BY SMT DEF US!OkRiVa
  <2>2. /\ HasRows(US!OkRiVa.ok.brackets.SINGLE_OR_HOH, 4)
        /\ HasRows(US!OkRiVa.ok.brackets.MARRIED, 4)
    BY SMT DEF US!OkRiVa, HasRows
  <2>3. QED  BY <2>1, <2>2, RowsMakeATable DEF IsTables
<1>8. IsTables(US!OkRiVa.ri.brackets) /\ "ALL" \in DOMAIN US!OkRiVa.ri.brackets
  <2>1. DOMAIN US!OkRiVa.ri.brackets = {"ALL"}
    BY SMT DEF US!OkRiVa
  <2>2. HasRows(US!OkRiVa.ri.brackets.ALL, 3)
    BY SMT DEF US!OkRiVa, HasRows
  <2>3. QED  BY <2>1, <2>2, RowsMakeATable DEF IsTables
<1>9. IsTables(US!OkRiVa.va.brackets) /\ "ALL" \in DOMAIN US!OkRiVa.va.brackets
  <2>1. DOMAIN US!OkRiVa.va.brackets = {"ALL"}
    BY SMT DEF US!OkRiVa
  <2>2. HasRows(US!OkRiVa.va.brackets.ALL, 4)
    BY SMT DEF US!OkRiVa, HasRows
  <2>3. QED  BY <2>1, <2>2, RowsMakeATable DEF IsTables
<1>10. /\ US!MnMtNd.mn.allowance \in Int /\ US!MnMtNd.nd.exemption \in Int
       /\ US!OkRiVa.ok.exemption \in Int /\ US!OkRiVa.ri.exemption \in Int
       /\ US!OkRiVa.va.standard \in Int /\ US!OkRiVa.va.exemption \in Int
  BY SMT DEF US!MnMtNd, US!OkRiVa, US!Units
<1>11. QED  BY <1>1, <1>2, <1>3, <1>4, <1>5, <1>6, <1>7, <1>8, <1>9, <1>10

\* The figures of batch v12.
LEMMA BatchV12Figures ==
  /\ IsTables(US!MaMoNeSc.ma.brackets) /\ "ALL" \in DOMAIN US!MaMoNeSc.ma.brackets
  /\ IsTables(US!MaMoNeSc.mo.brackets) /\ "ALL" \in DOMAIN US!MaMoNeSc.mo.brackets
  /\ \A status \in DOMAIN US!MaMoNeSc.mo.standard : US!MaMoNeSc.mo.standard[status] \in Int
  /\ IsTables(US!MaMoNeSc.ne.brackets) /\ US!MaMoNeSc.ne.allowance \in Int
  /\ IsTables(US!MaMoNeSc.sc.brackets) /\ "ALL" \in DOMAIN US!MaMoNeSc.sc.brackets
  /\ IsRate(US!MaMoNeSc.sc.standard) /\ US!MaMoNeSc.sc.cap \in Int
  /\ US!MaMoNeSc.sc.allowance \in Int
  /\ IsTables(US!VtWvKsId.vt.brackets) /\ US!VtWvKsId.vt.allowance \in Int
  /\ IsTables(US!VtWvKsId.wv.brackets) /\ US!VtWvKsId.wv.exemption \in Int
  /\ IsTables(US!VtWvKsId.ks.brackets) /\ US!VtWvKsId.ks.exemption \in Int
  /\ US!VtWvKsId.ks.one \in Int /\ US!VtWvKsId.ks.married_two \in Int
  /\ US!VtWvKsId.id.rate \in Int /\ US!VtWvKsId.id.exemption \in Int
  /\ \A status \in DOMAIN US!VtWvKsId.id.threshold : US!VtWvKsId.id.threshold[status] \in Int
  /\ IsTables(US!NmHi.nm) /\ IsTables(US!NmHi.hi)
  /\ US!NmHi.hi_exemption \in Int /\ US!NmHi.hi_lump_sum \in Int
  /\ US!Arkansas.standard \in Int /\ US!Arkansas.credit \in Int
  /\ IsTable(US!Arkansas.brackets)
  /\ US!Arkansas.top[2] \in Int /\ US!Arkansas.top[3] \in Int
<1>1. IsTables(US!MaMoNeSc.ma.brackets) /\ "ALL" \in DOMAIN US!MaMoNeSc.ma.brackets
  <2>1. DOMAIN US!MaMoNeSc.ma.brackets = {"ALL"}
    BY SMT DEF US!MaMoNeSc
  <2>2. HasRows(US!MaMoNeSc.ma.brackets.ALL, 2)
    BY SMT DEF US!MaMoNeSc, HasRows
  <2>3. QED  BY <2>1, <2>2, RowsMakeATable DEF IsTables
<1>2. IsTables(US!MaMoNeSc.mo.brackets) /\ "ALL" \in DOMAIN US!MaMoNeSc.mo.brackets
  <2>1. DOMAIN US!MaMoNeSc.mo.brackets = {"ALL"}
    BY SMT DEF US!MaMoNeSc
  <2>2. HasRows(US!MaMoNeSc.mo.brackets.ALL, 8)
    BY SMT DEF US!MaMoNeSc, HasRows
  <2>3. QED  BY <2>1, <2>2, RowsMakeATable DEF IsTables
<1>3. IsTables(US!MaMoNeSc.ne.brackets)
  <2>1. DOMAIN US!MaMoNeSc.ne.brackets = {"SINGLE_OR_HOH", "MARRIED"}
    BY SMT DEF US!MaMoNeSc
  <2>2. /\ HasRows(US!MaMoNeSc.ne.brackets.SINGLE_OR_HOH, 7)
        /\ HasRows(US!MaMoNeSc.ne.brackets.MARRIED, 7)
    BY SMT DEF US!MaMoNeSc, HasRows
  <2>3. QED  BY <2>1, <2>2, RowsMakeATable DEF IsTables
<1>4. IsTables(US!MaMoNeSc.sc.brackets) /\ "ALL" \in DOMAIN US!MaMoNeSc.sc.brackets
  <2>1. DOMAIN US!MaMoNeSc.sc.brackets = {"ALL"}
    BY SMT DEF US!MaMoNeSc
  <2>2. HasRows(US!MaMoNeSc.sc.brackets.ALL, 3)
    BY SMT DEF US!MaMoNeSc, HasRows
  <2>3. QED  BY <2>1, <2>2, RowsMakeATable DEF IsTables
<1>5. IsTables(US!VtWvKsId.vt.brackets)
  <2>1. DOMAIN US!VtWvKsId.vt.brackets = {"SINGLE_OR_HOH", "MARRIED"}
    BY SMT DEF US!VtWvKsId
  <2>2. /\ HasRows(US!VtWvKsId.vt.brackets.SINGLE_OR_HOH, 5)
        /\ HasRows(US!VtWvKsId.vt.brackets.MARRIED, 5)
    BY SMT DEF US!VtWvKsId, HasRows
  <2>3. QED  BY <2>1, <2>2, RowsMakeATable DEF IsTables
<1>6. IsTables(US!VtWvKsId.wv.brackets)
  <2>1. DOMAIN US!VtWvKsId.wv.brackets = {"ONE_EARNER_ONE_JOB", "TWO_EARNER_OR_MULTIPLE_JOBS"}
    BY SMT DEF US!VtWvKsId
  <2>2. /\ HasRows(US!VtWvKsId.wv.brackets.ONE_EARNER_ONE_JOB, 5)
        /\ HasRows(US!VtWvKsId.wv.brackets.TWO_EARNER_OR_MULTIPLE_JOBS, 5)
    BY SMT DEF US!VtWvKsId, HasRows
  <2>3. QED  BY <2>1, <2>2, RowsMakeATable DEF IsTables
<1>7. IsTables(US!VtWvKsId.ks.brackets)
  <2>1. DOMAIN US!VtWvKsId.ks.brackets = {"SINGLE_OR_HOH", "MARRIED"}
    BY SMT DEF US!VtWvKsId
  <2>2. /\ HasRows(US!VtWvKsId.ks.brackets.SINGLE_OR_HOH, 3)
        /\ HasRows(US!VtWvKsId.ks.brackets.MARRIED, 3)
    BY SMT DEF US!VtWvKsId, HasRows
  <2>3. QED  BY <2>1, <2>2, RowsMakeATable DEF IsTables
<1>8. IsTables(US!NmHi.nm)
  <2>1. DOMAIN US!NmHi.nm = {"SINGLE", "HEAD_OF_HOUSEHOLD", "MARRIED"}
    BY SMT DEF US!NmHi
  <2>2. /\ HasRows(US!NmHi.nm.SINGLE, 10) /\ HasRows(US!NmHi.nm.HEAD_OF_HOUSEHOLD, 10)
        /\ HasRows(US!NmHi.nm.MARRIED, 10)
    BY SMT DEF US!NmHi, HasRows
  <2>3. QED  BY <2>1, <2>2, RowsMakeATable DEF IsTables
<1>9. IsTables(US!NmHi.hi)
  <2>1. DOMAIN US!NmHi.hi = {"SINGLE_OR_HOH", "MARRIED"}
    BY SMT DEF US!NmHi
  <2>2. /\ HasRows(US!NmHi.hi.SINGLE_OR_HOH, 8) /\ HasRows(US!NmHi.hi.MARRIED, 8)
    BY SMT DEF US!NmHi, HasRows
  <2>3. QED  BY <2>1, <2>2, RowsMakeATable DEF IsTables
<1>10. IsTable(US!Arkansas.brackets)
  <2>1. HasRows(US!Arkansas.brackets, 5)
    BY SMT DEF US!Arkansas, HasRows
  <2>2. QED  BY <2>1, RowsMakeATable
<1>11. /\ \A status \in DOMAIN US!MaMoNeSc.mo.standard : US!MaMoNeSc.mo.standard[status] \in Int
       /\ US!MaMoNeSc.ne.allowance \in Int
       /\ IsRate(US!MaMoNeSc.sc.standard) /\ US!MaMoNeSc.sc.cap \in Int
       /\ US!MaMoNeSc.sc.allowance \in Int
  <2>1. \A status \in DOMAIN US!MaMoNeSc.mo.standard : US!MaMoNeSc.mo.standard[status] \in Int
    BY SMT DEF US!MaMoNeSc, US!Units
  <2>2. US!MaMoNeSc.ne.allowance \in Int
    BY SMT DEF US!MaMoNeSc, US!Units
  <2>3. /\ IsRate(US!MaMoNeSc.sc.standard) /\ US!MaMoNeSc.sc.cap \in Int
        /\ US!MaMoNeSc.sc.allowance \in Int
    BY SMT DEF US!MaMoNeSc, US!Units, US!Pct, IsRate
  <2>4. QED  BY <2>1, <2>2, <2>3
<1>12. /\ US!VtWvKsId.vt.allowance \in Int /\ US!VtWvKsId.wv.exemption \in Int
       /\ US!VtWvKsId.ks.exemption \in Int
       /\ US!VtWvKsId.ks.one \in Int /\ US!VtWvKsId.ks.married_two \in Int
       /\ US!VtWvKsId.id.rate \in Int /\ US!VtWvKsId.id.exemption \in Int
       /\ \A status \in DOMAIN US!VtWvKsId.id.threshold : US!VtWvKsId.id.threshold[status] \in Int
  <2>1. US!VtWvKsId.vt.allowance \in Int /\ US!VtWvKsId.wv.exemption \in Int
    BY SMT DEF US!VtWvKsId, US!Units
  <2>2. /\ US!VtWvKsId.ks.exemption \in Int
        /\ US!VtWvKsId.ks.one \in Int /\ US!VtWvKsId.ks.married_two \in Int
    BY SMT DEF US!VtWvKsId, US!Units
  <2>3. US!VtWvKsId.id.rate \in Int /\ US!VtWvKsId.id.exemption \in Int
    BY SMT DEF US!VtWvKsId, US!Units
  <2>4. \A status \in DOMAIN US!VtWvKsId.id.threshold : US!VtWvKsId.id.threshold[status] \in Int
    BY SMT DEF US!VtWvKsId, US!Units
  <2>5. QED  BY <2>1, <2>2, <2>3, <2>4
<1>13. /\ US!NmHi.hi_exemption \in Int /\ US!NmHi.hi_lump_sum \in Int
       /\ US!Arkansas.standard \in Int /\ US!Arkansas.credit \in Int
       /\ US!Arkansas.top[2] \in Int /\ US!Arkansas.top[3] \in Int
  BY SMT DEF US!NmHi, US!Arkansas, US!Units
<1>14. QED  BY <1>1, <1>2, <1>3, <1>4, <1>5, <1>6, <1>7, <1>8, <1>9, <1>10, <1>11, <1>12, <1>13

\* The figures of batches v13 to v17.
LEMMA LaterBatchesFigures ==
  /\ \A frequency \in {"WEEKLY", "MONTHLY"} :
       /\ US!Ohio.exemption[frequency] \in Int
       /\ US!Ohio.brackets[frequency].mid \in Int /\ US!Ohio.brackets[frequency].mid_base \in Int
       /\ US!Ohio.brackets[frequency].top \in Int /\ US!Ohio.brackets[frequency].top_base \in Int
       /\ \A status \in DOMAIN US!LaIa.ia.WEEKLY : US!LaIa.ia[frequency][status] \in Int
  /\ US!Ohio.rates[1] \in Int /\ US!Ohio.rates[2] \in Int /\ US!Ohio.rates[3] \in Int
  /\ US!LaIa.la.rate \in Int /\ IsRate(US!LaIa.ia_rate)
  /\ \A status \in DOMAIN US!LaIa.la.standard : US!LaIa.la.standard[status] \in Int
  /\ IsTables(US!Alabama.brackets) /\ "ALL" \in DOMAIN US!Alabama.brackets
  /\ IsStaircase(US!Alabama.dependents)
  /\ \A status \in DOMAIN US!Alabama.threshold :
       US!Alabama.floor[status] \in Int /\ US!Alabama.personal[status] \in Int
<1>1. \A frequency \in {"WEEKLY", "MONTHLY"} :
        /\ US!Ohio.exemption[frequency] \in Int
        /\ US!Ohio.brackets[frequency].mid \in Int /\ US!Ohio.brackets[frequency].mid_base \in Int
        /\ US!Ohio.brackets[frequency].top \in Int /\ US!Ohio.brackets[frequency].top_base \in Int
  BY SMT DEF US!Ohio
<1>2. US!Ohio.rates[1] \in Int /\ US!Ohio.rates[2] \in Int /\ US!Ohio.rates[3] \in Int
  BY SMT DEF US!Ohio
<1>3. \A frequency \in {"WEEKLY", "MONTHLY"} :
        \A status \in DOMAIN US!LaIa.ia.WEEKLY : US!LaIa.ia[frequency][status] \in Int
  BY SMT DEF US!LaIa, US!Units
<1>4. /\ US!LaIa.la.rate \in Int /\ IsRate(US!LaIa.ia_rate)
      /\ \A status \in DOMAIN US!LaIa.la.standard : US!LaIa.la.standard[status] \in Int
  BY SMT DEF US!LaIa, US!Units, US!Bp, IsRate
<1>5. IsTables(US!Alabama.brackets) /\ "ALL" \in DOMAIN US!Alabama.brackets
  <2>1. DOMAIN US!Alabama.brackets = {"ALL", "MARRIED_FILING_JOINTLY"}
    BY SMT DEF US!Alabama
  <2>2. /\ HasRows(US!Alabama.brackets.ALL, 3)
        /\ HasRows(US!Alabama.brackets.MARRIED_FILING_JOINTLY, 3)
    BY SMT DEF US!Alabama, HasRows
  <2>3. QED  BY <2>1, <2>2, RowsMakeATable DEF IsTables
<1>6. IsStaircase(US!Alabama.dependents)
  <2>1. HasSteps(US!Alabama.dependents, 3)
    BY SMT DEF US!Alabama, HasSteps, US!Units
  <2>2. QED  BY <2>1, StepsMakeAStaircase
<1>7. \A status \in DOMAIN US!Alabama.threshold :
        US!Alabama.floor[status] \in Int /\ US!Alabama.personal[status] \in Int
  BY SMT DEF US!Alabama
<1>8. QED  BY <1>1, <1>2, <1>3, <1>4, <1>5, <1>6, <1>7

\* Maryland's, Connecticut's, Delaware's, Wisconsin's and the District of Columbia's.
LEMMA LastBatchesFigures ==
  /\ IsTables(US!Maryland.brackets) /\ US!Maryland.standard \in Int /\ US!Maryland.allowance \in Int
  /\ \A county \in DOMAIN US!Maryland.county : US!Maryland.county[county] \in Int
  /\ \A county \in DOMAIN US!Maryland.graduated :
       /\ IsTables(US!Maryland.graduated[county])
       /\ DOMAIN US!Maryland.graduated[county] = DOMAIN US!Maryland.brackets
  /\ IsTable(US!ConnecticutBrackets.ALL)
  /\ IsTable(US!DeDc.de.ALL) /\ US!DeDc.credit \in Int /\ US!DeDc.dc_dependent \in Int
  /\ \A status \in DOMAIN US!DeDc.standard : US!DeDc.standard[status] \in Int
  /\ IsTables(US!DeDc.dc) /\ "ALL" \in DOMAIN US!DeDc.dc
  /\ IsTables(US!Wisconsin.brackets) /\ "ALL" \in DOMAIN US!Wisconsin.brackets
  /\ US!Wisconsin.exemption \in Int
  /\ \A status \in DOMAIN US!Wisconsin.deduction :
       /\ US!Wisconsin.deduction[status].from \in Int
       /\ US!Wisconsin.deduction[status].amount \in Int
       /\ IsRate(US!Wisconsin.deduction[status].rate)
<1>1. IsTables(US!Maryland.brackets)
  <2>1. DOMAIN US!Maryland.brackets = {"SINGLE", "MARRIED"}
    BY SMT DEF US!Maryland
  <2>2. /\ HasRows(US!Maryland.brackets.SINGLE, 7)
        /\ HasRows(US!Maryland.brackets.MARRIED, 7)
    BY SMT DEF US!Maryland, HasRows
  <2>3. QED  BY <2>1, <2>2, RowsMakeATable DEF IsTables
<1>2. \A county \in DOMAIN US!Maryland.graduated : IsTables(US!Maryland.graduated[county])
  <2>1. DOMAIN US!Maryland.graduated = {"Anne_Arundel", "Frederick"}
    BY SMT DEF US!Maryland
  <2>2. /\ DOMAIN US!Maryland.graduated.Anne_Arundel = {"SINGLE", "MARRIED"}
        /\ DOMAIN US!Maryland.graduated.Frederick = {"SINGLE", "MARRIED"}
    BY SMT DEF US!Maryland
  <2>3. /\ HasRows(US!Maryland.graduated.Anne_Arundel.SINGLE, 3)
        /\ HasRows(US!Maryland.graduated.Anne_Arundel.MARRIED, 3)
        /\ HasRows(US!Maryland.graduated.Frederick.SINGLE, 4)
        /\ HasRows(US!Maryland.graduated.Frederick.MARRIED, 4)
    BY SMT DEF US!Maryland, HasRows
  <2>4. QED  BY <2>1, <2>2, <2>3, RowsMakeATable DEF IsTables
<1>3. \A county \in DOMAIN US!Maryland.graduated :
        DOMAIN US!Maryland.graduated[county] = DOMAIN US!Maryland.brackets
  BY SMT DEF US!Maryland
<1>4. /\ US!Maryland.standard \in Int /\ US!Maryland.allowance \in Int
      /\ \A county \in DOMAIN US!Maryland.county : US!Maryland.county[county] \in Int
  BY SMT DEF US!Maryland, US!Units
<1>5. IsTable(US!ConnecticutBrackets.ALL)
  <2>1. HasRows(US!ConnecticutBrackets.ALL, 7)
    BY SMT DEF US!ConnecticutBrackets, HasRows
  <2>2. QED  BY <2>1, RowsMakeATable
<1>6. IsTable(US!DeDc.de.ALL)
  <2>1. HasRows(US!DeDc.de.ALL, 7)
    BY SMT DEF US!DeDc, HasRows
  <2>2. QED  BY <2>1, RowsMakeATable
<1>7. IsTables(US!DeDc.dc) /\ "ALL" \in DOMAIN US!DeDc.dc
  <2>1. DOMAIN US!DeDc.dc = {"ALL"}
    BY SMT DEF US!DeDc
  <2>2. HasRows(US!DeDc.dc.ALL, 7)
    BY SMT DEF US!DeDc, HasRows
  <2>3. QED  BY <2>1, <2>2, RowsMakeATable DEF IsTables
<1>8. /\ US!DeDc.credit \in Int /\ US!DeDc.dc_dependent \in Int
      /\ \A status \in DOMAIN US!DeDc.standard : US!DeDc.standard[status] \in Int
  BY SMT DEF US!DeDc, US!Units
<1>9. IsTables(US!Wisconsin.brackets) /\ "ALL" \in DOMAIN US!Wisconsin.brackets
  <2>1. DOMAIN US!Wisconsin.brackets = {"ALL"}
    BY SMT DEF US!Wisconsin
  <2>2. HasRows(US!Wisconsin.brackets.ALL, 4)
    BY SMT DEF US!Wisconsin, HasRows
  <2>3. QED  BY <2>1, <2>2, RowsMakeATable DEF IsTables
<1>10. /\ US!Wisconsin.exemption \in Int
       /\ \A status \in DOMAIN US!Wisconsin.deduction :
            /\ US!Wisconsin.deduction[status].from \in Int
            /\ US!Wisconsin.deduction[status].amount \in Int
            /\ IsRate(US!Wisconsin.deduction[status].rate)
  <2>1. US!Wisconsin.exemption \in Int
    BY SMT DEF US!Wisconsin, US!Units
  <2>2. ASSUME NEW status \in DOMAIN US!Wisconsin.deduction
        PROVE  /\ US!Wisconsin.deduction[status].from \in Int
               /\ US!Wisconsin.deduction[status].amount \in Int
    BY SMT DEF US!Wisconsin, US!Units
  <2>3. ASSUME NEW status \in DOMAIN US!Wisconsin.deduction
        PROVE  IsRate(US!Wisconsin.deduction[status].rate)
    BY SMT DEF US!Wisconsin, IsRate
  <2>4. QED  BY <2>1, <2>2, <2>3
<1>11. QED  BY <1>1, <1>2, <1>3, <1>4, <1>5, <1>6, <1>7, <1>8, <1>9, <1>10

-----------------------------------------------------------------------------
(* The United States' taxes *)

\* What the United States ask of the fields that their taxes read.
IsAmerican(e) ==
  /\ e.gross_pay \in Int /\ e.pretax_401k \in Int /\ e.pretax_125 \in Int
  /\ e.step3 \in Int /\ e.extra \in Int /\ e.step2 \in BOOLEAN
  /\ e.allowances \in Int /\ e.more \in Int /\ e.adopted \in Int /\ e.elected \in Int
  /\ e.half \in {"H1", "H2"} /\ e.sui \in {<<>>} \cup Int \X Int
  /\ e.frequency \in DOMAIN US!Periods /\ e.filing \in US!Filings
  /\ US!ValidState(e) /\ US!ValidV11(e) /\ US!ValidV12(e) /\ US!ValidV14(e)

\* Every employee that the engine accepts is one.
LEMMA AmericanFields ==
  ASSUME NEW e \in US!Employee, US!Valid(e)
  PROVE  IsAmerican(e) /\ e.state \in US!UsStates
<1>1. /\ e.gross_pay \in Int /\ e.pretax_401k \in Int /\ e.pretax_125 \in Int
      /\ e.step3 \in Int /\ e.extra \in Int /\ e.step2 \in BOOLEAN
      /\ e.allowances \in Int /\ e.more \in Int /\ e.adopted \in Int /\ e.elected \in Int
      /\ e.half \in {"H1", "H2"} /\ e.sui \in {<<>>} \cup Int \X Int
  BY DEF US!Employee
<1>2. /\ e.frequency \in DOMAIN US!Periods /\ e.filing \in US!Filings /\ e.state \in US!UsStates
      /\ US!ValidState(e) /\ US!ValidV11(e) /\ US!ValidV12(e) /\ US!ValidV14(e)
  BY DEF US!Valid, US!ValidEmployee
<1>3. QED  BY <1>1, <1>2, Zenon DEF IsAmerican

\* The year's wages, and the wages that federal tax is on.
LEMMA AmericanWages ==
  ASSUME NEW e, IsAmerican(e)
  PROVE  /\ US!Periods[e.frequency] \in Int /\ US!Periods[e.frequency] > 0
         /\ US!Annual(e) \in Int /\ US!FederalWages(e) \in Int /\ US!FicaWages(e) \in Int
<1>1. US!Periods[e.frequency] \in Int /\ US!Periods[e.frequency] > 0
  BY FederalTables DEF IsAmerican
<1>2. /\ e.gross_pay \in Int /\ e.gross_pay - e.pretax_401k - e.pretax_125 \in Int
      /\ e.gross_pay - e.pretax_125 \in Int
  <2>1. e.gross_pay \in Int /\ e.pretax_401k \in Int /\ e.pretax_125 \in Int
    BY Zenon DEF IsAmerican
  <2>2. QED  BY <2>1
<1>3. US!Annual(e) \in Int
  BY <1>1, <1>2 DEF US!Annual
<1>4. US!FederalWages(e) \in Int
  BY <1>2 DEF US!FederalWages, US!AtLeast
<1>5. US!FicaWages(e) \in Int
  BY <1>2 DEF US!FicaWages, US!AtLeast
<1>6. QED  BY <1>1, <1>3, <1>4, <1>5

\* A table by status, on the year's wages less a deduction.
LEMMA TableTaxIsWhole ==
  ASSUME NEW e, IsAmerican(e), NEW T, IsTables(T), e.status \in DOMAIN T \/ "ALL" \in DOMAIN T,
         NEW deduction \in Int
  PROVE  US!TableTax(e, T, deduction) \in Int
<1> DEFINE base == US!AtLeast(0, US!Annual(e) - deduction)
<1> DEFINE table == US!TableFor(T, e)
<1> DEFINE tax == US!BracketLookup(base, table)
<1> DEFINE timesPaid == US!Periods[e.frequency]
<1>1. US!TableTax(e, T, deduction) = US!PerPeriod(tax, timesPaid)
  BY DEF US!TableTax
<1>2. timesPaid \in Int /\ timesPaid > 0
  BY AmericanWages
<1>3. base \in Int
  BY AmericanWages DEF US!AtLeast
<1>4. IsTable(table)
  BY DEF US!TableFor, IsTables
<1> HIDE DEF base, table, timesPaid
<1>5. tax \in Int
  BY <1>3, <1>4, UsAmounts
<1> HIDE DEF tax
<1>6. QED  BY <1>1, <1>2, <1>5, UsAmounts

\* A flat rate on the year's wages less a deduction.
LEMMA FlatTaxIsWhole ==
  ASSUME NEW e, IsAmerican(e), NEW rate \in Int, NEW deduction \in Int
  PROVE  US!FlatTax(e, rate, deduction) \in Int
<1> DEFINE base == US!AtLeast(0, US!Annual(e) - deduction)
<1> DEFINE share == <<rate, 10000 * US!Periods[e.frequency]>>
<1>1. US!FlatTax(e, rate, deduction) = US!Share(base, share)
  BY DEF US!FlatTax
<1>2. base \in Int
  BY AmericanWages DEF US!AtLeast
<1>3. IsRate(share)
  BY AmericanWages DEF IsRate
<1> HIDE DEF base, share
<1>4. QED  BY <1>1, <1>2, <1>3, UsAmounts

\* The steps of a staircase.
LEMMA StaircaseIsWhole ==
  ASSUME NEW a \in Int, NEW from \in Int, NEW width \in Int, width > 0, NEW last \in Int
  PROVE  US!Staircase(a, from, width, last) \in Int
<1> DEFINE size == US!Units(width)
<1> DEFINE above == a - US!Units(from)
<1>1. size \in Int /\ size > 0 /\ above \in Int
  BY DEF US!Units
<1> DEFINE reached == 1 + above \div size
<1>2. US!Staircase(a, from, width, last)
      = IF a < US!Units(from) THEN 0 ELSE US!AtMost(last, reached)
  BY DEF US!Staircase
<1> HIDE DEF size, above
<1>3. reached \in Int
  BY <1>1
<1> HIDE DEF reached
<1>4. US!AtMost(last, reached) \in Int
  BY <1>3 DEF US!AtMost
<1>5. QED  BY <1>2, <1>4

\* Federal income tax.
LEMMA FederalTaxIsWhole ==
  ASSUME NEW e, IsAmerican(e)
  PROVE  US!FederalIncomeTax(e) \in Int
<1> DEFINE timesPaid == US!Periods[e.frequency]
<1> DEFINE reduction == IF e.step2 THEN 0 ELSE US!Step2Deduction[e.filing]
<1> DEFINE adjusted == US!AtLeast(0, US!FederalWages(e) * timesPaid - reduction)
<1> DEFINE table == IF e.step2 THEN US!Step2Brackets[e.filing] ELSE US!StandardBrackets[e.filing]
<1> DEFINE tax == US!PerPeriod(US!BracketLookup(adjusted, table), timesPaid)
<1> DEFINE credit == US!PerPeriod(e.step3, timesPaid)
<1>1. US!FederalIncomeTax(e) = US!AtLeast(0, tax - credit) + e.extra
  BY DEF US!FederalIncomeTax
<1>2. timesPaid \in Int /\ timesPaid > 0 /\ US!FederalWages(e) * timesPaid \in Int
  BY AmericanWages
<1>3. e.step3 \in Int /\ e.extra \in Int /\ e.filing \in US!Filings
  BY DEF IsAmerican
<1>4. reduction \in Int /\ IsTable(table)
  BY <1>3, FederalTables
<1> HIDE DEF timesPaid, reduction, table
<1>5. adjusted \in Int
  BY <1>2, <1>4 DEF US!AtLeast
<1> HIDE DEF adjusted
<1>6. US!BracketLookup(adjusted, table) \in Int
  BY <1>4, <1>5, UsAmounts
<1>7. tax \in Int /\ credit \in Int
  BY <1>2, <1>3, <1>6, UsAmounts
<1> HIDE DEF tax, credit
<1>8. QED  BY <1>1, <1>3, <1>7 DEF US!AtLeast

\* The statuses that the states accept.
LEMMA StatusesOfTheFirst ==
  ASSUME NEW e, IsAmerican(e), e.state \in DOMAIN US!Statuses
  PROVE  e.status \in US!Statuses[e.state]
  BY DEF IsAmerican, US!ValidState

\* California's tax.
LEMMA CaliforniaTaxIsWhole ==
  ASSUME NEW e, IsAmerican(e), e.state = "CA"
  PROVE  US!CaliforniaTax(e) \in Int
<1> DEFINE amounts == US!CaAmounts[e.frequency]
<1> DEFINE wages == US!AtLeast(0, US!FederalWages(e) - e.more * amounts.estimated)
<1> DEFINE name == IF e.status \in {"MARRIED_0_OR_1", "MARRIED_2_OR_MORE"} THEN "MARRIED"
                   ELSE e.status
<1> DEFINE tables == IF e.frequency = "WEEKLY" THEN US!CaWeekly ELSE US!CaMonthly
<1> DEFINE base == US!AtLeast(0, wages - US!Units(amounts.standard[e.status]))
<1> DEFINE tax == US!BracketLookup(base, tables[name])
<1>1. US!CaliforniaTax(e)
      = IF US!FederalWages(e) > US!Units(amounts.exempt[e.status])
        THEN US!AtLeast(0, tax - e.allowances * amounts.credit) ELSE 0
  BY DEF US!CaliforniaTax
<1>2. e.status \in US!Statuses["CA"]
  BY StatusesOfTheFirst DEF US!Statuses
<1>3. e.frequency \in DOMAIN US!Periods /\ e.allowances \in Int /\ e.more \in Int
  BY DEF IsAmerican
<1>4. IsTable(tables[name])
  BY <1>2, CaliforniaTables
<1>5. /\ amounts.estimated \in Int /\ amounts.credit \in Int
      /\ amounts.standard[e.status] \in Int
  BY <1>2, <1>3, CaliforniaTables
<1>6. e.more * amounts.estimated \in Int /\ e.allowances * amounts.credit \in Int
  BY <1>3, <1>5
<1>7. wages \in Int
  BY <1>6, AmericanWages DEF US!AtLeast
<1> HIDE DEF wages, tables, name
<1>8. base \in Int
  BY <1>5, <1>7 DEF US!AtLeast, US!Units
<1> HIDE DEF base
<1>9. tax \in Int
  BY <1>4, <1>8, UsAmounts
<1> HIDE DEF tax, amounts
<1>10. QED  BY <1>1, <1>6, <1>9 DEF US!AtLeast

\* New Jersey's tax.
LEMMA NewJerseyTaxIsWhole ==
  ASSUME NEW e, IsAmerican(e), e.state = "NJ"
  PROVE  US!NewJerseyTax(e) \in Int
<1> DEFINE allowed == e.allowances * US!Nj.allowance[e.frequency]
<1> DEFINE base == US!AtLeast(0, e.gross_pay - allowed)
<1> DEFINE table == IF e.frequency = "WEEKLY" THEN US!NjWeekly[e.status]
                    ELSE US!NjMonthly[e.status]
<1>1. US!NewJerseyTax(e) = US!BracketLookup(base, table)
  BY DEF US!NewJerseyTax
<1>2. e.status \in {"A", "B"}
  BY StatusesOfTheFirst, EasternTables DEF US!Statuses
<1>3. e.frequency \in {"WEEKLY", "MONTHLY"} /\ e.allowances \in Int /\ e.gross_pay \in Int
  BY CaliforniaTables DEF IsAmerican
<1>4. IsTable(table)
  BY <1>2, EasternTables
<1>5. allowed \in Int
  BY <1>3, EasternTables
<1> HIDE DEF allowed, table
<1>6. base \in Int
  BY <1>3, <1>5 DEF US!AtLeast
<1> HIDE DEF base
<1>7. QED  BY <1>1, <1>4, <1>6, UsAmounts

\* New York's tax, with the city's and Yonkers'.
LEMMA NewYorkTaxesAreWhole ==
  ASSUME NEW e, IsAmerican(e), e.state = "NY"
  PROVE  US!NewYorkTax(e) \in Int /\ US!NewYorkLocalTax(e) \in Int
<1> DEFINE exempt == e.allowances * US!NyAmounts.exemption[e.frequency]
<1> DEFINE table == IF e.frequency = "WEEKLY" THEN US!NyWeekly[e.status]
                    ELSE US!NyMonthly[e.status]
<1>1. e.status \in {"SINGLE", "MARRIED"}
  BY StatusesOfTheFirst, EasternTables DEF US!Statuses
<1>2. e.frequency \in {"WEEKLY", "MONTHLY"} /\ e.allowances \in Int /\ e.gross_pay \in Int
  BY CaliforniaTables DEF IsAmerican
<1>3. exempt \in Int
  BY <1>2, EasternTables
<1>4. US!NewYorkTax(e) \in Int
  <2>1. US!NewYorkTax(e) = US!BracketLookup(US!NyNetWages(e), table)
    BY DEF US!NewYorkTax
  <2>2. US!NyNetWages(e)
        = US!AtLeast(0, e.gross_pay - US!NyAmounts.deduction[e.frequency][e.status] - exempt)
    BY DEF US!NyNetWages
  <2> HIDE DEF exempt
  <2>3. US!NyAmounts.deduction[e.frequency][e.status] \in Int
    BY <1>1, <1>2, EasternTables
  <2>4. US!NyNetWages(e) \in Int
    BY <1>2, <1>3, <2>2, <2>3 DEF US!AtLeast
  <2>5. IsTable(table)
    BY <1>1, EasternTables
  <2> HIDE DEF table
  <2>6. QED  BY <2>1, <2>4, <2>5, UsAmounts
<1>5. US!NewYorkLocalTax(e) \in Int
  <2> DEFINE exemptions == US!Yonkers.exemption[e.frequency]
  <2> DEFINE deduction == US!NyAmounts.nyc[e.frequency][e.status]
  <2> DEFINE cityWages == US!AtLeast(0, e.gross_pay - deduction - exempt)
  <2> DEFINE city == US!BracketLookup(cityWages, US!NycBrackets[e.frequency])
  <2> DEFINE resident == US!Share(US!NewYorkTax(e), US!Yonkers.resident)
  <2> DEFINE step == US!StepLookup(e.gross_pay, exemptions)
  <2> DEFINE earned == US!AtLeast(0, e.gross_pay - step)
  <2> DEFINE ownShare == US!Share(earned, US!Yonkers.nonresident)
  <2>1. US!NewYorkLocalTax(e) \in {city, resident, ownShare, 0}
    BY DEF US!NewYorkLocalTax
  <2> HIDE DEF exempt
  <2>2. /\ deduction \in Int /\ IsTable(US!NycBrackets[e.frequency]) /\ IsStaircase(exemptions)
        /\ IsRate(US!Yonkers.resident) /\ IsRate(US!Yonkers.nonresident)
    BY <1>1, <1>2, EasternTables
  <2> HIDE DEF deduction, exemptions
  <2>3. cityWages \in Int
    BY <1>2, <1>3, <2>2 DEF US!AtLeast
  <2> HIDE DEF cityWages
  <2>4. city \in Int /\ resident \in Int /\ step \in Int
    BY <1>2, <1>4, <2>2, <2>3, UsAmounts
  <2> HIDE DEF step, city, resident
  <2>5. earned \in Int
    BY <1>2, <2>4 DEF US!AtLeast
  <2> HIDE DEF earned
  <2>6. ownShare \in Int
    BY <2>2, <2>5, UsAmounts
  <2> HIDE DEF ownShare
  <2>7. QED  BY <2>1, <2>4, <2>6
<1>6. QED  BY <1>4, <1>5

\* The statuses of the states that came in batches.
LEMMA StatusesOfTheBatches ==
  ASSUME NEW e, IsAmerican(e)
  PROVE  /\ e.state = "GA" => e.status \in DOMAIN US!GaKyMsUt.ga.standard
         /\ e.state = "MS" => e.status \in DOMAIN US!GaKyMsUt.ms.base
         /\ e.state = "UT" => e.status \in DOMAIN US!GaKyMsUt.ut.base
         /\ e.state = "MN" => e.status \in DOMAIN US!MnMtNd.mn.brackets
         /\ e.state = "MT" => e.status \in DOMAIN US!MnMtNd.mt.brackets
         /\ e.state = "ND" => e.status \in DOMAIN US!MnMtNd.nd.brackets
         /\ e.state = "OK" => e.status \in DOMAIN US!OkRiVa.ok.brackets
         /\ e.state = "MO" => e.status \in DOMAIN US!MaMoNeSc.mo.standard
         /\ e.state = "NE" => e.status \in DOMAIN US!MaMoNeSc.ne.brackets
         /\ e.state = "VT" => e.status \in DOMAIN US!VtWvKsId.vt.brackets
         /\ e.state = "WV" => e.status \in DOMAIN US!VtWvKsId.wv.brackets
         /\ e.state = "KS" => e.status \in DOMAIN US!VtWvKsId.ks.brackets
         /\ e.state = "ID" => e.status \in DOMAIN US!VtWvKsId.id.threshold
         /\ e.state = "NM" => e.status \in DOMAIN US!NmHi.nm
         /\ e.state = "HI" => e.status \in DOMAIN US!NmHi.hi
         /\ e.state = "LA" => e.status \in DOMAIN US!LaIa.la.standard
         /\ e.state = "IA" => e.status \in DOMAIN US!LaIa.ia.WEEKLY
         /\ e.state = "AL" => e.status \in DOMAIN US!Alabama.threshold
         /\ e.state = "MD" => e.status \in DOMAIN US!Maryland.brackets
         /\ e.state = "DE" => e.status \in DOMAIN US!DeDc.standard
         /\ e.state = "WI" => e.status \in DOMAIN US!Wisconsin.deduction
<1>1. /\ e.state \in DOMAIN US!StatusesV11 => e.status \in US!StatusesV11[e.state]
      /\ e.state \in DOMAIN US!StatusesV12 => e.status \in US!StatusesV12[e.state]
      /\ e.state \in DOMAIN US!StatusesV14 => e.status \in US!StatusesV14[e.state]
  BY DEF IsAmerican, US!ValidV11, US!ValidV12, US!ValidV14
<1>2. /\ e.state = "GA" => e.status \in DOMAIN US!GaKyMsUt.ga.standard
      /\ e.state = "MS" => e.status \in DOMAIN US!GaKyMsUt.ms.base
      /\ e.state = "UT" => e.status \in DOMAIN US!GaKyMsUt.ut.base
      /\ e.state = "MN" => e.status \in DOMAIN US!MnMtNd.mn.brackets
      /\ e.state = "MT" => e.status \in DOMAIN US!MnMtNd.mt.brackets
      /\ e.state = "ND" => e.status \in DOMAIN US!MnMtNd.nd.brackets
      /\ e.state = "OK" => e.status \in DOMAIN US!OkRiVa.ok.brackets
  BY <1>1 DEF US!StatusesV11
<1>3. /\ e.state = "MO" => e.status \in DOMAIN US!MaMoNeSc.mo.standard
      /\ e.state = "NE" => e.status \in DOMAIN US!MaMoNeSc.ne.brackets
      /\ e.state = "VT" => e.status \in DOMAIN US!VtWvKsId.vt.brackets
      /\ e.state = "WV" => e.status \in DOMAIN US!VtWvKsId.wv.brackets
      /\ e.state = "KS" => e.status \in DOMAIN US!VtWvKsId.ks.brackets
      /\ e.state = "ID" => e.status \in DOMAIN US!VtWvKsId.id.threshold
      /\ e.state = "NM" => e.status \in DOMAIN US!NmHi.nm
      /\ e.state = "HI" => e.status \in DOMAIN US!NmHi.hi
  BY <1>1 DEF US!StatusesV12
<1>4. /\ e.state = "LA" => e.status \in DOMAIN US!LaIa.la.standard
      /\ e.state = "IA" => e.status \in DOMAIN US!LaIa.ia.WEEKLY
      /\ e.state = "AL" => e.status \in DOMAIN US!Alabama.threshold
      /\ e.state = "MD" => e.status \in DOMAIN US!Maryland.brackets
      /\ e.state = "DE" => e.status \in DOMAIN US!DeDc.standard
      /\ e.state = "WI" => e.status \in DOMAIN US!Wisconsin.deduction
  BY <1>1 DEF US!StatusesV14
<1>5. QED  BY <1>2, <1>3, <1>4

\* Illinois' and Michigan's tax: a rate on the pay above allowances.
LEMMA AllowanceTaxIsWhole ==
  ASSUME NEW e, IsAmerican(e), NEW allowance \in Int, NEW rate, IsRate(rate)
  PROVE  US!Share(US!AtLeast(0, e.gross_pay - US!PerPeriod(allowance, US!Periods[e.frequency])),
                  rate) \in Int
<1> DEFINE part == US!PerPeriod(allowance, US!Periods[e.frequency])
<1> DEFINE base == US!AtLeast(0, e.gross_pay - part)
<1>1. part \in Int
  BY AmericanWages, UsAmounts
<1> HIDE DEF part
<1>2. base \in Int
  BY <1>1 DEF IsAmerican, US!AtLeast
<1> HIDE DEF base
<1>3. QED  BY <1>2, UsAmounts DEF base, part

\* Illinois', Michigan's, Pennsylvania's and Arizona's taxes.
LEMMA FlatStatesAreWhole ==
  ASSUME NEW e, IsAmerican(e)
  PROVE  /\ US!IllinoisTax(e) \in Int /\ US!MichiganTax(e) \in Int
         /\ US!PhiladelphiaTax(e) \in Int
         /\ US!Share(e.gross_pay, US!Pennsylvania.income) \in Int
         /\ US!Share(e.gross_pay, US!Bp(e.elected)) \in Int
<1>1. /\ e.gross_pay \in Int /\ e.allowances \in Int /\ e.more \in Int /\ e.elected \in Int
      /\ e.half \in {"H1", "H2"}
  BY DEF IsAmerican
<1>2. US!IllinoisTax(e) \in Int
  <2> DEFINE lines == e.allowances * US!Illinois.line1 + e.more * US!Illinois.line2
  <2>1. US!IllinoisTax(e)
        = US!Share(US!AtLeast(0, e.gross_pay - US!PerPeriod(lines, US!Periods[e.frequency])),
                   US!Illinois.rate)
    BY DEF US!IllinoisTax
  <2>2. lines \in Int /\ IsRate(US!Illinois.rate)
    BY <1>1, FlatStates
  <2> HIDE DEF lines
  <2>3. QED  BY <2>1, <2>2, AllowanceTaxIsWhole
<1>3. US!MichiganTax(e) \in Int
  <2> DEFINE exempt == e.allowances * US!Michigan.exemption
  <2>1. US!MichiganTax(e)
        = US!Share(US!AtLeast(0, e.gross_pay - US!PerPeriod(exempt, US!Periods[e.frequency])),
                   US!Michigan.rate)
    BY DEF US!MichiganTax
  <2>2. exempt \in Int /\ IsRate(US!Michigan.rate)
    BY <1>1, FlatStates
  <2> HIDE DEF exempt
  <2>3. QED  BY <2>1, <2>2, AllowanceTaxIsWhole
<1>4. US!PhiladelphiaTax(e) \in Int
  <2> DEFINE rates == US!Pennsylvania.philadelphia[e.half]
  <2>1. US!PhiladelphiaTax(e)
        = IF e.locality \in DOMAIN rates THEN US!Share(e.gross_pay, rates[e.locality]) ELSE 0
    BY DEF US!PhiladelphiaTax
  <2>2. e.locality \in DOMAIN rates => IsRate(rates[e.locality])
    BY <1>1, FlatStates
  <2> HIDE DEF rates
  <2>3. e.locality \in DOMAIN rates => US!Share(e.gross_pay, rates[e.locality]) \in Int
    BY <1>1, <2>2, UsAmounts
  <2>4. QED  BY <2>1, <2>3
<1>5. US!Share(e.gross_pay, US!Pennsylvania.income) \in Int
  BY <1>1, FlatStates, UsAmounts
<1>6. US!Share(e.gross_pay, US!Bp(e.elected)) \in Int
  <2>1. IsRate(US!Bp(e.elected))
    BY <1>1 DEF US!Bp, IsRate
  <2>2. QED  BY <1>1, <2>1, UsAmounts
<1>7. QED  BY <1>2, <1>3, <1>4, <1>5, <1>6

\* Colorado's tax.
LEMMA ColoradoTaxIsWhole ==
  ASSUME NEW e, IsAmerican(e), e.state = "CO"
  PROVE  US!ColoradoTax(e) \in Int
<1> DEFINE base == US!AtLeast(0, US!Annual(e) - US!Colorado.subtraction[e.status])
<1> DEFINE tax == US!Share(base, US!Bp(US!Colorado.rate))
<1>1. US!ColoradoTax(e) = US!PerPeriod(tax, US!Periods[e.frequency])
  BY DEF US!ColoradoTax
<1>2. e.status \in US!Statuses["CO"]
  BY StatusesOfTheFirst DEF US!Statuses
<1>3. US!Colorado.subtraction[e.status] \in Int /\ US!Colorado.rate \in Int
  BY <1>2, FlatStates
<1>4. base \in Int
  BY <1>3, AmericanWages DEF US!AtLeast
<1>5. IsRate(US!Bp(US!Colorado.rate))
  BY <1>3 DEF US!Bp, IsRate
<1> HIDE DEF base
<1>6. tax \in Int
  BY <1>4, <1>5, UsAmounts
<1> HIDE DEF tax
<1>7. QED  BY <1>1, <1>6, AmericanWages, UsAmounts

\* Oregon's tax.
LEMMA OregonTaxIsWhole ==
  ASSUME NEW e, IsAmerican(e), e.state = "OR"
  PROVE  US!OregonTax(e) \in Int
<1> DEFINE timesPaid == US!Periods[e.frequency]
<1> DEFINE over == US!Annual(e) >= US!Oregon.tier
<1> DEFINE track == IF US!OregonWide(e) THEN "wide" ELSE "narrow"
<1> DEFINE phaseout == US!Oregon.phaseout[e.status]
<1> DEFINE federal == US!FederalIncomeTax(e) * timesPaid
<1> DEFINE steps == US!Staircase(US!Annual(e), phaseout.from, phaseout.width, 5)
<1> DEFINE limit == US!Oregon.subtraction - US!Oregon.subtraction_step * steps
<1> DEFINE subtracted == IF over THEN US!AtMost(federal, limit) ELSE federal
<1> DEFINE base == US!AtLeast(0, US!Annual(e) - subtracted - US!Oregon.standard[track])
<1> DEFINE table == IF over THEN US!Oregon.over[track] ELSE US!Oregon.under[track]
<1> DEFINE tax == US!BracketLookup(base, table)
<1> DEFINE due == US!AtLeast(0, tax - e.allowances * US!Oregon.credit)
<1>1. US!OregonTax(e) = US!PerPeriod(due, timesPaid)
  BY DEF US!OregonTax
<1>2. timesPaid \in Int /\ timesPaid > 0 /\ US!Annual(e) \in Int
  BY AmericanWages
<1>3. e.status \in {"SINGLE", "MARRIED"} /\ e.allowances \in Int
  BY StatusesOfTheFirst, OregonTables DEF US!Statuses, IsAmerican
<1>4. track \in {"narrow", "wide"}
  OBVIOUS
<1> HIDE DEF track
<1>5. IsTable(table) /\ US!Oregon.standard[track] \in Int
  BY <1>4, OregonTables
<1>6. phaseout.from \in Int /\ phaseout.width \in Int /\ phaseout.width > 0
  BY <1>3, OregonTables
<1> HIDE DEF timesPaid, over, phaseout, table
<1>7. federal \in Int
  BY <1>2, FederalTaxIsWhole
<1>8. steps \in Int
  <2>1. 5 \in Int
    OBVIOUS
  <2>2. QED  BY <1>2, <1>6, <2>1, StaircaseIsWhole
<1> HIDE DEF federal, steps
<1>9. /\ US!Oregon.subtraction \in Int /\ US!Oregon.subtraction_step \in Int
      /\ US!Oregon.credit \in Int
  BY OregonTables
<1>10. limit \in Int
  BY <1>8, <1>9
<1> HIDE DEF limit
<1>11. subtracted \in Int
  BY <1>7, <1>10 DEF US!AtMost
<1> HIDE DEF subtracted
<1>12. base \in Int
  BY <1>2, <1>5, <1>11 DEF US!AtLeast
<1> HIDE DEF base
<1>13. tax \in Int
  BY <1>5, <1>12, UsAmounts
<1> HIDE DEF tax
<1>14. due \in Int
  BY <1>3, <1>9, <1>13 DEF US!AtLeast
<1> HIDE DEF due
<1>15. QED  BY <1>1, <1>2, <1>14, UsAmounts

\* Indiana's wages, its tax and its county's.
LEMMA IndianaTaxesAreWhole ==
  ASSUME NEW e, IsAmerican(e), e.state = "IN"
  PROVE  /\ US!Share(US!IndianaWages(e), US!Indiana.rate) \in Int
         /\ US!Share(US!IndianaWages(e), US!Indiana.county[e.locality]) \in Int
<1> DEFINE timesPaid == US!Periods[e.frequency]
<1> DEFINE personal == e.allowances * US!Indiana.personal
<1> DEFINE dependent == e.more * US!Indiana.dependent
<1> DEFINE adopted == e.adopted * US!Indiana.adopted
<1>1. US!IndianaWages(e)
      = US!AtLeast(0, e.gross_pay - US!PerPeriod(personal, timesPaid)
                      - US!PerPeriod(dependent, timesPaid) - US!PerPeriod(adopted, timesPaid))
  BY DEF US!IndianaWages
<1>2. e.gross_pay \in Int /\ e.allowances \in Int /\ e.more \in Int /\ e.adopted \in Int
  BY DEF IsAmerican
<1>3. personal \in Int /\ dependent \in Int /\ adopted \in Int
  BY <1>2, FlatStates
<1>4. timesPaid \in Int /\ timesPaid > 0
  BY AmericanWages
<1> HIDE DEF personal, dependent, adopted, timesPaid
<1>5. /\ US!PerPeriod(personal, timesPaid) \in Int /\ US!PerPeriod(dependent, timesPaid) \in Int
      /\ US!PerPeriod(adopted, timesPaid) \in Int
  BY <1>3, <1>4, UsAmounts
<1>6. US!IndianaWages(e) \in Int
  BY <1>1, <1>2, <1>5 DEF US!AtLeast
<1>7. e.locality \in DOMAIN US!Indiana.county
  BY DEF IsAmerican, US!ValidState
<1>8. IsRate(US!Indiana.rate) /\ IsRate(US!Indiana.county[e.locality])
  BY <1>7, FlatStates
<1>9. QED  BY <1>6, <1>8, UsAmounts

\* North Carolina's tax.
LEMMA NorthCarolinaTaxIsWhole ==
  ASSUME NEW e, IsAmerican(e), e.state = "NC"
  PROVE  US!NorthCarolinaTax(e) \in Int
<1> DEFINE timesPaid == US!Periods[e.frequency]
<1> DEFINE standard == US!PerPeriod(US!NorthCarolina.standard[e.status], timesPaid)
<1> DEFINE allowance == US!PerPeriod(US!NorthCarolina.allowance, timesPaid)
<1> DEFINE wages == US!AtLeast(0, e.gross_pay - standard - e.allowances * allowance)
<1> DEFINE rate == <<US!NorthCarolina.rate[1], 1000000>>
<1>1. US!NorthCarolinaTax(e) = US!Units(US!Share(wages, rate))
  BY DEF US!NorthCarolinaTax
<1>2. e.status \in US!Statuses["NC"]
  BY StatusesOfTheFirst DEF US!Statuses
<1>3. /\ US!NorthCarolina.standard[e.status] \in Int /\ US!NorthCarolina.allowance \in Int
      /\ US!NorthCarolina.rate[1] \in Int
  BY <1>2, FlatStates
<1>4. standard \in Int /\ allowance \in Int
  BY <1>3, AmericanWages, UsAmounts
<1> HIDE DEF standard, allowance
<1>5. e.gross_pay \in Int /\ e.allowances * allowance \in Int
  BY <1>4 DEF IsAmerican
<1>6. wages \in Int
  BY <1>4, <1>5 DEF US!AtLeast
<1>7. IsRate(rate)
  BY <1>3 DEF IsRate
<1> HIDE DEF wages, rate
<1>8. US!Share(wages, rate) \in Int
  BY <1>6, <1>7, UsAmounts
<1>9. QED  BY <1>1, <1>8 DEF US!Units

\* Utah's tax.
LEMMA UtahTaxIsWhole ==
  ASSUME NEW e, IsAmerican(e), e.state = "UT"
  PROVE  US!UtahTax(e) \in Int
<1> DEFINE ut == US!GaKyMsUt.ut
<1> DEFINE excess == US!AtLeast(0, US!Annual(e) - ut.threshold[e.status])
<1> DEFINE phasedOut == US!Share(excess, ut.phaseout)
<1> DEFINE credit == US!AtLeast(0, ut.base[e.status] - phasedOut)
<1> DEFINE full == US!Share(US!Annual(e), ut.rate)
<1> DEFINE tax == US!AtLeast(0, full - credit)
<1>1. US!UtahTax(e) = US!PerPeriod(tax, US!Periods[e.frequency])
  BY DEF US!UtahTax
<1>2. /\ ut.threshold[e.status] \in Int /\ ut.base[e.status] \in Int
      /\ IsRate(ut.rate) /\ IsRate(ut.phaseout)
  BY StatusesOfTheBatches, BatchV11Figures
<1> HIDE DEF ut
<1>3. US!Annual(e) \in Int
  BY AmericanWages
<1>4. excess \in Int
  BY <1>2, <1>3 DEF US!AtLeast
<1> HIDE DEF excess
<1>5. phasedOut \in Int /\ full \in Int
  BY <1>2, <1>3, <1>4, UsAmounts
<1> HIDE DEF phasedOut, full
<1>6. credit \in Int
  BY <1>2, <1>5 DEF US!AtLeast
<1> HIDE DEF credit
<1>7. tax \in Int
  BY <1>5, <1>6 DEF US!AtLeast
<1> HIDE DEF tax
<1>8. QED  BY <1>1, <1>7, AmericanWages, UsAmounts

\* The tax of batch v11.
LEMMA BatchV11IsWhole ==
  ASSUME NEW e, IsAmerican(e), e.state \in US!StatesV11
  PROVE  US!BatchV11(e) \in Int
<1> DEFINE g == US!GaKyMsUt
<1> DEFINE m == US!MnMtNd
<1> DEFINE o == US!OkRiVa
<1>1. e.allowances \in Int /\ 0 \in Int
  BY DEF IsAmerican
<1>2. CASE e.state = "GA"
  <2> DEFINE deduction == g.ga.standard[e.status] + e.allowances * g.ga.dependent
  <2>1. US!BatchV11(e) = US!FlatTax(e, g.ga.rate, deduction)
    BY <1>2 DEF US!BatchV11
  <2>2. deduction \in Int /\ g.ga.rate \in Int
    BY <1>1, <1>2, StatusesOfTheBatches, BatchV11Figures
  <2> HIDE DEF deduction
  <2>3. QED  BY <2>1, <2>2, FlatTaxIsWhole
<1>3. CASE e.state = "KY"
  <2> DEFINE part == US!PerPeriod(g.ky.standard, US!Periods[e.frequency])
  <2>1. US!BatchV11(e) = US!Share(US!AtLeast(0, e.gross_pay - part), g.ky.rate)
    BY <1>3 DEF US!BatchV11
  <2>2. g.ky.standard \in Int /\ IsRate(g.ky.rate)
    BY BatchV11Figures
  <2> HIDE DEF g
  <2>3. QED  BY <2>1, <2>2, AllowanceTaxIsWhole
<1>4. CASE e.state = "MS"
  <2> DEFINE deduction == g.ms.base[e.status] + e.allowances * g.ms.dependent
  <2>1. US!BatchV11(e) = US!TableTax(e, g.ms.brackets, deduction)
    BY <1>4 DEF US!BatchV11
  <2>2. deduction \in Int /\ IsTables(g.ms.brackets) /\ "ALL" \in DOMAIN g.ms.brackets
    BY <1>1, <1>4, StatusesOfTheBatches, BatchV11Figures
  <2> HIDE DEF deduction, g
  <2>3. QED  BY <2>1, <2>2, TableTaxIsWhole
<1>5. CASE e.state = "UT"
  <2>1. US!BatchV11(e) = US!UtahTax(e)
    BY <1>5 DEF US!BatchV11
  <2>2. QED  BY <1>5, <2>1, UtahTaxIsWhole
<1>6. CASE e.state = "MN"
  <2> DEFINE deduction == e.allowances * m.mn.allowance
  <2>1. US!BatchV11(e) = US!TableTax(e, m.mn.brackets, deduction)
    BY <1>6 DEF US!BatchV11
  <2>2. deduction \in Int /\ IsTables(m.mn.brackets) /\ e.status \in DOMAIN m.mn.brackets
    BY <1>1, <1>6, StatusesOfTheBatches, BatchV11Figures
  <2> HIDE DEF deduction, m
  <2>3. QED  BY <2>1, <2>2, TableTaxIsWhole
<1>7. CASE e.state = "MT"
  <2>1. US!BatchV11(e) = US!TableTax(e, m.mt.brackets, 0)
    BY <1>7 DEF US!BatchV11
  <2>2. IsTables(m.mt.brackets) /\ e.status \in DOMAIN m.mt.brackets
    BY <1>7, StatusesOfTheBatches, BatchV11Figures
  <2> HIDE DEF m
  <2>3. QED  BY <1>1, <2>1, <2>2, TableTaxIsWhole
<1>8. CASE e.state = "ND"
  <2> DEFINE deduction == e.allowances * m.nd.exemption
  <2>1. US!BatchV11(e) = US!TableTax(e, m.nd.brackets, deduction)
    BY <1>8 DEF US!BatchV11
  <2>2. deduction \in Int /\ IsTables(m.nd.brackets) /\ e.status \in DOMAIN m.nd.brackets
    BY <1>1, <1>8, StatusesOfTheBatches, BatchV11Figures
  <2> HIDE DEF deduction, m
  <2>3. QED  BY <2>1, <2>2, TableTaxIsWhole
<1>9. CASE e.state = "OK"
  <2> DEFINE deduction == e.allowances * o.ok.exemption
  <2>1. US!BatchV11(e) = US!TableTax(e, o.ok.brackets, deduction)
    BY <1>9 DEF US!BatchV11
  <2>2. deduction \in Int /\ IsTables(o.ok.brackets) /\ e.status \in DOMAIN o.ok.brackets
    BY <1>1, <1>9, StatusesOfTheBatches, BatchV11Figures
  <2> HIDE DEF deduction, o
  <2>3. QED  BY <2>1, <2>2, TableTaxIsWhole
<1>10. CASE e.state = "RI"
  <2> DEFINE deduction == IF US!Annual(e) <= o.ri.ceiling THEN o.ri.exemption ELSE 0
  <2>1. US!BatchV11(e) = US!TableTax(e, o.ri.brackets, deduction)
    BY <1>10 DEF US!BatchV11
  <2>2. deduction \in Int /\ IsTables(o.ri.brackets) /\ "ALL" \in DOMAIN o.ri.brackets
    BY <1>1, BatchV11Figures
  <2> HIDE DEF deduction, o
  <2>3. QED  BY <2>1, <2>2, TableTaxIsWhole
<1>11. CASE e.state = "VA"
  <2> DEFINE deduction == o.va.standard + e.allowances * o.va.exemption
  <2>1. US!BatchV11(e) = US!TableTax(e, o.va.brackets, deduction)
    BY <1>11 DEF US!BatchV11
  <2>2. deduction \in Int /\ IsTables(o.va.brackets) /\ "ALL" \in DOMAIN o.va.brackets
    BY <1>1, BatchV11Figures
  <2> HIDE DEF deduction, o
  <2>3. QED  BY <2>1, <2>2, TableTaxIsWhole
<1>12. e.state \in {"GA", "MS", "UT", "MN", "MT", "ND", "OK", "KY", "RI", "VA"}
  BY DEF US!StatesV11, US!StatusesV11
<1>13. QED  BY <1>2, <1>3, <1>4, <1>5, <1>6, <1>7, <1>8, <1>9, <1>10, <1>11, <1>12

\* Massachusetts' tax.
LEMMA MassachusettsTaxIsWhole ==
  ASSUME NEW e, IsAmerican(e)
  PROVE  US!MassachusettsTax(e) \in Int
<1> DEFINE ma == US!MaMoNeSc.ma
<1> DEFINE deduction == CASE e.allowances = 0 -> 0
                          [] e.allowances = 1 -> US!Units(4400)
                          [] OTHER -> US!Units(1000) * e.allowances + US!Units(3400)
<1>1. US!MassachusettsTax(e) \in {0, US!TableTax(e, ma.brackets, deduction)}
  BY DEF US!MassachusettsTax
<1>2. deduction \in {0, US!Units(4400), US!Units(1000) * e.allowances + US!Units(3400)}
  OBVIOUS
<1> HIDE DEF deduction
<1>3. deduction \in Int
  BY <1>2 DEF US!Units, IsAmerican
<1>4. IsTables(ma.brackets) /\ "ALL" \in DOMAIN ma.brackets
  BY BatchV12Figures
<1> HIDE DEF ma
<1>5. US!TableTax(e, ma.brackets, deduction) \in Int
  BY <1>3, <1>4, TableTaxIsWhole
<1>6. QED  BY <1>1, <1>5

\* What Kansas deducts for the exemptions it is told of.
LEMMA KansasDeductionIsWhole ==
  ASSUME NEW e, IsAmerican(e), e.state \in US!StatesV12
  PROVE  US!KansasDeduction(e) \in Int
<1> DEFINE ks == US!VtWvKsId.ks
<1> DEFINE free == IF e.status = "MARRIED" THEN 2 ELSE 1
<1> DEFINE base == IF e.status = "MARRIED" THEN ks.married_two ELSE ks.one
<1> DEFINE more == base + (e.allowances - free) * ks.exemption
<1>1. e.allowances \in Int /\ e.allowances >= 0
  BY DEF IsAmerican, US!ValidV12
<1>2. US!KansasDeduction(e) \in {0, ks.one, more}
  BY <1>1 DEF US!KansasDeduction
<1>3. ks.one \in Int /\ ks.married_two \in Int /\ ks.exemption \in Int
  BY BatchV12Figures
<1> HIDE DEF ks
<1>4. free \in Int /\ base \in Int
  BY <1>3
<1> HIDE DEF free, base
<1>5. more \in Int
  BY <1>1, <1>3, <1>4
<1> HIDE DEF more
<1>6. QED  BY <1>2, <1>3, <1>5

\* Arkansas' tax.
LEMMA ArkansasTaxIsWhole ==
  ASSUME NEW e, IsAmerican(e)
  PROVE  US!ArkansasTax(e) \in Int
<1> DEFINE raw == US!ArkansasWages(e)
<1> DEFINE middle == US!Units(100) * (raw \div US!Units(100)) + US!Units(50)
<1> DEFINE taxable == IF raw < US!Arkansas.midpoints_below THEN middle ELSE raw
<1> DEFINE row == IF taxable >= US!Arkansas.zone.high THEN US!Arkansas.top
                  ELSE US!Row(taxable, US!Arkansas.brackets)
<1> DEFINE share == US!Share(taxable, US!Bp(row[2]))
<1> DEFINE tax == US!AtLeast(0, share - row[3])
<1> DEFINE due == US!AtLeast(0, tax - e.allowances * US!Arkansas.credit)
<1>1. US!ArkansasTax(e) = US!PerPeriod(due, US!Periods[e.frequency])
  BY DEF US!ArkansasTax
<1>2. US!Arkansas.standard \in Int /\ US!Arkansas.credit \in Int
  BY BatchV12Figures
<1>3. raw \in Int
  BY <1>2, AmericanWages DEF US!ArkansasWages, US!AtLeast
<1> HIDE DEF raw
<1>4. middle \in Int
  BY <1>3 DEF US!Units
<1> HIDE DEF middle
<1>5. taxable \in Int
  BY <1>3, <1>4
<1> HIDE DEF taxable
<1>6. /\ US!Row(taxable, US!Arkansas.brackets)[2] \in Int
      /\ US!Row(taxable, US!Arkansas.brackets)[3] \in Int
  BY <1>5, BatchV12Figures, UsAmounts
<1>7. row[2] \in Int /\ row[3] \in Int
  BY <1>6, BatchV12Figures
<1> HIDE DEF row
<1>8. IsRate(US!Bp(row[2]))
  BY <1>7 DEF US!Bp, IsRate
<1>9. share \in Int
  BY <1>5, <1>8, UsAmounts
<1> HIDE DEF share
<1>10. tax \in Int
  BY <1>7, <1>9 DEF US!AtLeast
<1> HIDE DEF tax
<1>11. e.allowances * US!Arkansas.credit \in Int
  BY <1>2 DEF IsAmerican
<1>12. due \in Int
  BY <1>10, <1>11 DEF US!AtLeast
<1> HIDE DEF due
<1>13. QED  BY <1>1, <1>12, AmericanWages, UsAmounts

\* The tax of batch v12.
LEMMA BatchV12IsWhole ==
  ASSUME NEW e, IsAmerican(e), e.state \in US!StatesV12
  PROVE  US!BatchV12(e) \in Int
<1> DEFINE m == US!MaMoNeSc
<1> DEFINE v == US!VtWvKsId
<1>1. e.allowances \in Int /\ 0 \in Int
  BY DEF IsAmerican
<1>2. CASE e.state = "MA"
  <2>1. US!BatchV12(e) = US!MassachusettsTax(e)
    BY <1>2 DEF US!BatchV12
  <2>2. QED  BY <2>1, MassachusettsTaxIsWhole
<1>3. CASE e.state = "MO"
  <2>1. US!BatchV12(e) = US!TableTax(e, m.mo.brackets, m.mo.standard[e.status])
    BY <1>3 DEF US!BatchV12
  <2>2. m.mo.standard[e.status] \in Int /\ IsTables(m.mo.brackets) /\ "ALL" \in DOMAIN m.mo.brackets
    BY <1>3, StatusesOfTheBatches, BatchV12Figures
  <2> HIDE DEF m
  <2>3. QED  BY <2>1, <2>2, TableTaxIsWhole
<1>4. CASE e.state = "NE"
  <2> DEFINE deduction == e.allowances * m.ne.allowance
  <2>1. US!BatchV12(e) = US!TableTax(e, m.ne.brackets, deduction)
    BY <1>4 DEF US!BatchV12
  <2>2. deduction \in Int /\ IsTables(m.ne.brackets) /\ e.status \in DOMAIN m.ne.brackets
    BY <1>1, <1>4, StatusesOfTheBatches, BatchV12Figures
  <2> HIDE DEF deduction, m
  <2>3. QED  BY <2>1, <2>2, TableTaxIsWhole
<1>5. CASE e.state = "SC"
  <2> DEFINE share == US!Share(US!Annual(e), m.sc.standard)
  <2> DEFINE deduction == US!AtMost(share, m.sc.cap) + e.allowances * m.sc.allowance
  <2>1. US!BatchV12(e) = US!TableTax(e, m.sc.brackets, deduction)
    BY <1>5 DEF US!BatchV12
  <2>2. /\ IsRate(m.sc.standard) /\ m.sc.cap \in Int /\ m.sc.allowance \in Int
        /\ IsTables(m.sc.brackets) /\ "ALL" \in DOMAIN m.sc.brackets
    BY BatchV12Figures
  <2> HIDE DEF m
  <2>3. share \in Int
    BY <2>2, AmericanWages, UsAmounts
  <2> HIDE DEF share
  <2>4. deduction \in Int
    BY <1>1, <2>2, <2>3 DEF US!AtMost
  <2> HIDE DEF deduction
  <2>5. QED  BY <2>1, <2>2, <2>4, TableTaxIsWhole
<1>6. CASE e.state = "VT"
  <2> DEFINE deduction == e.allowances * v.vt.allowance
  <2>1. US!BatchV12(e) = US!TableTax(e, v.vt.brackets, deduction)
    BY <1>6 DEF US!BatchV12
  <2>2. deduction \in Int /\ IsTables(v.vt.brackets) /\ e.status \in DOMAIN v.vt.brackets
    BY <1>1, <1>6, StatusesOfTheBatches, BatchV12Figures
  <2> HIDE DEF deduction, v
  <2>3. QED  BY <2>1, <2>2, TableTaxIsWhole
<1>7. CASE e.state = "WV"
  <2> DEFINE deduction == e.allowances * v.wv.exemption
  <2>1. US!BatchV12(e) = US!TableTax(e, v.wv.brackets, deduction)
    BY <1>7 DEF US!BatchV12
  <2>2. deduction \in Int /\ IsTables(v.wv.brackets) /\ e.status \in DOMAIN v.wv.brackets
    BY <1>1, <1>7, StatusesOfTheBatches, BatchV12Figures
  <2> HIDE DEF deduction, v
  <2>3. QED  BY <2>1, <2>2, TableTaxIsWhole
<1>8. CASE e.state = "KS"
  <2>1. US!BatchV12(e) = US!TableTax(e, v.ks.brackets, US!KansasDeduction(e))
    BY <1>8 DEF US!BatchV12
  <2>2. IsTables(v.ks.brackets) /\ e.status \in DOMAIN v.ks.brackets
    BY <1>8, StatusesOfTheBatches, BatchV12Figures
  <2> HIDE DEF v
  <2>3. QED  BY <2>1, <2>2, KansasDeductionIsWhole, TableTaxIsWhole
<1>9. CASE e.state = "ID"
  <2> DEFINE deduction == e.allowances * v.id.exemption + v.id.threshold[e.status]
  <2>1. US!BatchV12(e) = US!FlatTax(e, v.id.rate, deduction)
    BY <1>9 DEF US!BatchV12
  <2>2. deduction \in Int /\ v.id.rate \in Int
    BY <1>1, <1>9, StatusesOfTheBatches, BatchV12Figures
  <2> HIDE DEF deduction, v
  <2>3. QED  BY <2>1, <2>2, FlatTaxIsWhole
<1>10. CASE e.state = "NM"
  <2>1. US!BatchV12(e) = US!TableTax(e, US!NmHi.nm, 0)
    BY <1>10 DEF US!BatchV12
  <2>2. IsTables(US!NmHi.nm) /\ e.status \in DOMAIN US!NmHi.nm
    BY <1>10, StatusesOfTheBatches, BatchV12Figures
  <2>3. QED  BY <1>1, <2>1, <2>2, TableTaxIsWhole
<1>11. CASE e.state = "AR"
  <2>1. US!BatchV12(e) = US!ArkansasTax(e)
    BY <1>11 DEF US!BatchV12
  <2>2. QED  BY <2>1, ArkansasTaxIsWhole
<1>12. CASE e.state = "HI"
  <2> DEFINE deduction == e.allowances * US!NmHi.hi_exemption + US!NmHi.hi_lump_sum
  <2>1. US!BatchV12(e) = US!TableTax(e, US!NmHi.hi, deduction)
    BY <1>12 DEF US!BatchV12
  <2>2. deduction \in Int /\ IsTables(US!NmHi.hi) /\ e.status \in DOMAIN US!NmHi.hi
    BY <1>1, <1>12, StatusesOfTheBatches, BatchV12Figures
  <2> HIDE DEF deduction
  <2>3. QED  BY <2>1, <2>2, TableTaxIsWhole
<1>13. e.state \in {"MO", "NE", "VT", "WV", "KS", "ID", "NM", "HI", "MA", "SC", "AR"}
  BY DEF US!StatesV12, US!StatusesV12
<1>14. QED  BY <1>2, <1>3, <1>4, <1>5, <1>6, <1>7, <1>8, <1>9, <1>10, <1>11, <1>12, <1>13

\* Ohio's tax.
LEMMA OhioTaxIsWhole ==
  ASSUME NEW e, IsAmerican(e)
  PROVE  US!OhioTax(e) \in Int
<1> DEFINE t == US!Ohio.brackets[e.frequency]
<1> DEFINE exempt == US!Ohio.exemption[e.frequency]
<1> DEFINE x == US!AtLeast(0, e.gross_pay - e.allowances * exempt)
<1> DEFINE low == US!Share(x, US!Bp(US!Ohio.rates[1]))
<1> DEFINE mid == US!Share(x - t.mid, US!Bp(US!Ohio.rates[2]))
<1> DEFINE top == US!Share(x - t.top, US!Bp(US!Ohio.rates[3]))
<1>1. e.frequency \in {"WEEKLY", "MONTHLY"} /\ e.gross_pay \in Int /\ e.allowances \in Int
  BY CaliforniaTables DEF IsAmerican
<1>2. /\ t.mid \in Int /\ t.mid_base \in Int /\ t.top \in Int /\ t.top_base \in Int
      /\ exempt \in Int
  BY <1>1, LaterBatchesFigures
<1> HIDE DEF t, exempt
<1>3. x \in Int
  BY <1>1, <1>2 DEF US!AtLeast
<1>4. US!OhioTax(e) \in {low, t.mid_base + mid, t.top_base + top}
  <2>1. x < t.mid \/ (x >= t.mid /\ x < t.top) \/ x >= t.top
    BY <1>2, <1>3
  <2>2. QED  BY <2>1 DEF US!OhioTax, t, exempt
<1> HIDE DEF x
<1>5. /\ IsRate(US!Bp(US!Ohio.rates[1])) /\ IsRate(US!Bp(US!Ohio.rates[2]))
      /\ IsRate(US!Bp(US!Ohio.rates[3]))
  BY LaterBatchesFigures DEF US!Bp, IsRate
<1>6. x - t.mid \in Int /\ x - t.top \in Int
  BY <1>2, <1>3
<1>7. low \in Int /\ mid \in Int /\ top \in Int
  BY <1>3, <1>5, <1>6, UsAmounts
<1> HIDE DEF low, mid, top
<1>8. QED  BY <1>2, <1>4, <1>7

\* Iowa's tax.
LEMMA IowaTaxIsWhole ==
  ASSUME NEW e, IsAmerican(e), e.state = "IA"
  PROVE  US!IowaTax(e) \in Int
<1> DEFINE standard == US!LaIa.ia[e.frequency][e.status]
<1> DEFINE base == US!AtLeast(0, e.gross_pay - standard)
<1> DEFINE tax == US!Share(base, US!LaIa.ia_rate)
<1> DEFINE allowed == e.allowances * US!Units(40)
<1> DEFINE credit == US!PerPeriod(allowed, US!Periods[e.frequency])
<1>1. US!IowaTax(e) = US!AtLeast(0, tax - credit)
  BY DEF US!IowaTax
<1>2. e.frequency \in {"WEEKLY", "MONTHLY"} /\ e.gross_pay \in Int /\ e.allowances \in Int
  BY CaliforniaTables DEF IsAmerican
<1>3. standard \in Int /\ IsRate(US!LaIa.ia_rate)
  BY <1>2, StatusesOfTheBatches, LaterBatchesFigures
<1> HIDE DEF standard
<1>4. base \in Int /\ allowed \in Int
  BY <1>2, <1>3 DEF US!AtLeast, US!Units
<1> HIDE DEF base, allowed
<1>5. tax \in Int /\ credit \in Int
  BY <1>3, <1>4, AmericanWages, UsAmounts
<1> HIDE DEF tax, credit
<1>6. QED  BY <1>1, <1>5 DEF US!AtLeast

\* Alabama's tax.
LEMMA AlabamaTaxIsWhole ==
  ASSUME NEW e, IsAmerican(e), e.state = "AL"
  PROVE  US!AlabamaTax(e) \in Int
<1> DEFINE dependent == US!StepLookup(US!Annual(e), US!Alabama.dependents)
<1> DEFINE own == US!Units(US!Alabama.floor[e.status] + US!Alabama.personal[e.status])
<1> DEFINE deduction == own + e.allowances * dependent
<1>1. US!AlabamaTax(e) = US!TableTax(e, US!Alabama.brackets, deduction)
  BY DEF US!AlabamaTax
<1>2. /\ US!Alabama.floor[e.status] \in Int /\ US!Alabama.personal[e.status] \in Int
      /\ IsStaircase(US!Alabama.dependents)
      /\ IsTables(US!Alabama.brackets) /\ "ALL" \in DOMAIN US!Alabama.brackets
  BY StatusesOfTheBatches, LaterBatchesFigures
<1>3. dependent \in Int
  BY <1>2, AmericanWages, UsAmounts
<1> HIDE DEF dependent
<1>4. own \in Int
  BY <1>2 DEF US!Units
<1> HIDE DEF own
<1>5. deduction \in Int
  BY <1>3, <1>4 DEF IsAmerican
<1> HIDE DEF deduction
<1>6. QED  BY <1>1, <1>2, <1>5, TableTaxIsWhole

\* The tax of batch v13.
LEMMA BatchV13IsWhole ==
  ASSUME NEW e, IsAmerican(e), e.state \in {"OH", "LA", "IA", "AL"}
  PROVE  US!BatchV13(e) \in Int
<1>1. CASE e.state = "OH"
  <2>1. US!BatchV13(e) = US!OhioTax(e)
    BY <1>1 DEF US!BatchV13
  <2>2. QED  BY <2>1, OhioTaxIsWhole
<1>2. CASE e.state = "LA"
  <2>1. US!BatchV13(e) = US!FlatTax(e, US!LaIa.la.rate, US!LaIa.la.standard[e.status])
    BY <1>2 DEF US!BatchV13
  <2>2. US!LaIa.la.rate \in Int /\ US!LaIa.la.standard[e.status] \in Int
    BY <1>2, StatusesOfTheBatches, LaterBatchesFigures
  <2>3. QED  BY <2>1, <2>2, FlatTaxIsWhole
<1>3. CASE e.state = "IA"
  <2>1. US!BatchV13(e) = US!IowaTax(e)
    BY <1>3 DEF US!BatchV13
  <2>2. QED  BY <1>3, <2>1, IowaTaxIsWhole
<1>4. CASE e.state = "AL"
  <2>1. US!BatchV13(e) = US!AlabamaTax(e)
    BY <1>4 DEF US!BatchV13
  <2>2. QED  BY <1>4, <2>1, AlabamaTaxIsWhole
<1>5. QED  BY <1>1, <1>2, <1>3, <1>4

\* Maryland's deduction and its counties' tax.
LEMMA MarylandIsWhole ==
  ASSUME NEW e, IsAmerican(e), e.state = "MD"
  PROVE  US!MarylandDeduction(e) \in Int /\ US!MarylandCounty(e) \in Int
<1> DEFINE flat == US!FlatTax(e, US!Maryland.county[e.locality], US!MarylandDeduction(e))
<1> DEFINE graduated == US!TableTax(e, US!Maryland.graduated[e.locality], US!MarylandDeduction(e))
<1>1. US!MarylandDeduction(e) \in Int
  BY LastBatchesFigures DEF US!MarylandDeduction, IsAmerican
<1>2. US!MarylandCounty(e) = IF e.locality \in DOMAIN US!Maryland.county THEN flat ELSE graduated
  BY DEF US!MarylandCounty
<1>3. e.locality \in DOMAIN US!Maryland.county \cup DOMAIN US!Maryland.graduated
  BY DEF IsAmerican, US!ValidV14, US!LocalityOf
<1>4. ASSUME e.locality \in DOMAIN US!Maryland.county PROVE flat \in Int
  <2>1. US!Maryland.county[e.locality] \in Int
    BY <1>4, LastBatchesFigures
  <2>2. QED  BY <1>1, <2>1, FlatTaxIsWhole
<1>5. ASSUME e.locality \in DOMAIN US!Maryland.graduated PROVE graduated \in Int
  <2>1. /\ IsTables(US!Maryland.graduated[e.locality])
        /\ e.status \in DOMAIN US!Maryland.graduated[e.locality]
    BY <1>5, StatusesOfTheBatches, LastBatchesFigures
  <2>2. QED  BY <1>1, <2>1, TableTaxIsWhole
<1> HIDE DEF flat, graduated
<1>6. QED  BY <1>1, <1>2, <1>3, <1>4, <1>5

\* Connecticut's tax.
LEMMA ConnecticutTaxIsWhole ==
  ASSUME NEW e, IsAmerican(e)
  PROVE  US!ConnecticutTax(e) \in Int
<1> DEFINE a == US!Annual(e)
<1> DEFINE low == US!Staircase(a, 50250, 2500, 10)
<1> DEFINE firstBand == US!Staircase(a, 105000, 5000, 10)
<1> DEFINE second == US!Staircase(a, 200000, 5000, 30)
<1> DEFINE third == US!Staircase(a, 500000, 5000, 9)
<1> DEFINE base == US!BracketLookup(a, US!ConnecticutBrackets.ALL)
<1> DEFINE tax == base + US!Units(25) * low
                  + (US!Units(25) * firstBand + US!Units(90) * second + US!Units(50) * third)
<1>1. US!ConnecticutTax(e) = US!PerPeriod(tax, US!Periods[e.frequency])
  BY DEF US!ConnecticutTax
<1>2. a \in Int
  BY AmericanWages
<1> HIDE DEF a
<1>3. low \in Int
  BY <1>2, StaircaseIsWhole
<1>4. firstBand \in Int
  BY <1>2, StaircaseIsWhole
<1>5. second \in Int
  BY <1>2, StaircaseIsWhole
<1>6. third \in Int
  BY <1>2, StaircaseIsWhole
<1>7. base \in Int
  BY <1>2, LastBatchesFigures, UsAmounts
<1> HIDE DEF low, firstBand, second, third, base
<1>8. tax \in Int
  BY <1>3, <1>4, <1>5, <1>6, <1>7 DEF US!Units
<1> HIDE DEF tax
<1>9. QED  BY <1>1, <1>8, AmericanWages, UsAmounts

\* Delaware's tax.
LEMMA DelawareTaxIsWhole ==
  ASSUME NEW e, IsAmerican(e), e.state = "DE"
  PROVE  US!DelawareTax(e) \in Int
<1> DEFINE taxable == US!AtLeast(0, US!Annual(e) - US!DeDc.standard[e.status])
<1> DEFINE tax == US!BracketLookup(taxable, US!DeDc.de.ALL)
<1> DEFINE due == US!AtLeast(0, tax - e.allowances * US!DeDc.credit)
<1>1. US!DelawareTax(e) = US!PerPeriod(due, US!Periods[e.frequency])
  BY DEF US!DelawareTax
<1>2. US!DeDc.standard[e.status] \in Int /\ US!DeDc.credit \in Int /\ IsTable(US!DeDc.de.ALL)
  BY StatusesOfTheBatches, LastBatchesFigures
<1>3. taxable \in Int
  BY <1>2, AmericanWages DEF US!AtLeast
<1> HIDE DEF taxable
<1>4. tax \in Int
  BY <1>2, <1>3, UsAmounts
<1> HIDE DEF tax
<1>5. e.allowances * US!DeDc.credit \in Int
  BY <1>2 DEF IsAmerican
<1>6. due \in Int
  BY <1>4, <1>5 DEF US!AtLeast
<1> HIDE DEF due
<1>7. QED  BY <1>1, <1>6, AmericanWages, UsAmounts

\* Wisconsin's deduction.
LEMMA WisconsinDeductionIsWhole ==
  ASSUME NEW e, IsAmerican(e), e.state = "WI"
  PROVE  US!WisconsinDeduction(e) \in Int
<1> DEFINE d == US!Wisconsin.deduction[e.status]
<1> DEFINE over == US!Annual(e) - US!Units(d.from)
<1> DEFINE slope == US!Share(over, d.rate)
<1> DEFINE sliding == US!AtLeast(0, d.amount + slope)
<1>1. US!WisconsinDeduction(e) \in {d.amount, 0, sliding}
  BY DEF US!WisconsinDeduction
<1>2. d.from \in Int /\ d.amount \in Int /\ IsRate(d.rate)
  BY StatusesOfTheBatches, LastBatchesFigures
<1> HIDE DEF d
<1>3. over \in Int
  BY <1>2, AmericanWages DEF US!Units
<1> HIDE DEF over
<1>4. slope \in Int
  BY <1>2, <1>3, UsAmounts
<1> HIDE DEF slope
<1>5. sliding \in Int
  BY <1>2, <1>4 DEF US!AtLeast
<1> HIDE DEF sliding
<1>6. QED  BY <1>1, <1>2, <1>5

\* The tax of the last batches.
LEMMA BatchV14IsWhole ==
  ASSUME NEW e, IsAmerican(e), e.state \in {"MD", "CT", "DE", "DC", "WI"}
  PROVE  US!BatchV14(e) \in Int
<1>1. e.allowances \in Int
  BY DEF IsAmerican
<1>2. CASE e.state = "MD"
  <2>1. US!BatchV14(e) = US!TableTax(e, US!Maryland.brackets, US!MarylandDeduction(e))
    BY <1>2 DEF US!BatchV14
  <2>2. IsTables(US!Maryland.brackets) /\ e.status \in DOMAIN US!Maryland.brackets
    BY <1>2, StatusesOfTheBatches, LastBatchesFigures
  <2>3. QED  BY <1>2, <2>1, <2>2, MarylandIsWhole, TableTaxIsWhole
<1>3. CASE e.state = "CT"
  <2>1. US!BatchV14(e) = US!ConnecticutTax(e)
    BY <1>3 DEF US!BatchV14
  <2>2. QED  BY <2>1, ConnecticutTaxIsWhole
<1>4. CASE e.state = "DE"
  <2>1. US!BatchV14(e) = US!DelawareTax(e)
    BY <1>4 DEF US!BatchV14
  <2>2. QED  BY <1>4, <2>1, DelawareTaxIsWhole
<1>5. CASE e.state = "DC"
  <2> DEFINE deduction == e.allowances * US!DeDc.dc_dependent
  <2>1. US!BatchV14(e) = US!TableTax(e, US!DeDc.dc, deduction)
    BY <1>5 DEF US!BatchV14
  <2>2. deduction \in Int /\ IsTables(US!DeDc.dc) /\ "ALL" \in DOMAIN US!DeDc.dc
    BY <1>1, LastBatchesFigures
  <2> HIDE DEF deduction
  <2>3. QED  BY <2>1, <2>2, TableTaxIsWhole
<1>6. CASE e.state = "WI"
  <2> DEFINE deduction == US!WisconsinDeduction(e) + e.allowances * US!Wisconsin.exemption
  <2>1. US!BatchV14(e) = US!TableTax(e, US!Wisconsin.brackets, deduction)
    BY <1>6 DEF US!BatchV14
  <2>2. /\ US!Wisconsin.exemption \in Int
        /\ IsTables(US!Wisconsin.brackets) /\ "ALL" \in DOMAIN US!Wisconsin.brackets
    BY LastBatchesFigures
  <2>3. deduction \in Int
    BY <1>1, <1>6, <2>2, WisconsinDeductionIsWhole
  <2> HIDE DEF deduction
  <2>4. QED  BY <2>1, <2>2, <2>3, TableTaxIsWhole
<1>7. QED  BY <1>2, <1>3, <1>4, <1>5, <1>6

\* Every state's income tax.
LEMMA StateIncomeTaxIsWhole ==
  ASSUME NEW e, IsAmerican(e), e.state \in US!UsStates
  PROVE  US!StateIncomeTax(e) \in Int
<1>1. /\ US!StatesV11 = {"GA", "MS", "UT", "MN", "MT", "ND", "OK", "KY", "RI", "VA"}
      /\ US!StatesV12 = {"MO", "NE", "VT", "WV", "KS", "ID", "NM", "HI", "MA", "SC", "AR"}
      /\ US!StatesV14 = {"LA", "IA", "AL", "MD", "CT", "DE", "DC", "WI", "OH"}
  <2>1. DOMAIN US!StatusesV11 = {"GA", "MS", "UT", "MN", "MT", "ND", "OK"}
    BY DEF US!StatusesV11
  <2>2. DOMAIN US!StatusesV12 = {"MO", "NE", "VT", "WV", "KS", "ID", "NM", "HI"}
    BY DEF US!StatusesV12
  <2>3. DOMAIN US!StatusesV14 = {"LA", "IA", "AL", "MD", "CT", "DE", "DC", "WI"}
    BY DEF US!StatusesV14
  <2>4. QED  BY <2>1, <2>2, <2>3 DEF US!StatesV11, US!StatesV12, US!StatesV14
<1>2. CASE e.state = "CA"
  BY <1>1, <1>2, CaliforniaTaxIsWhole DEF US!StateIncomeTax, US!NoTaxStates
<1>3. CASE e.state = "NJ"
  BY <1>1, <1>3, NewJerseyTaxIsWhole DEF US!StateIncomeTax, US!NoTaxStates
<1>4. CASE e.state = "NY"
  BY <1>1, <1>4, NewYorkTaxesAreWhole DEF US!StateIncomeTax, US!NoTaxStates
<1>5. CASE e.state = "IL"
  BY <1>1, <1>5, FlatStatesAreWhole DEF US!StateIncomeTax, US!NoTaxStates
<1>6. CASE e.state = "PA"
  BY <1>1, <1>6, FlatStatesAreWhole DEF US!StateIncomeTax, US!NoTaxStates
<1>7. CASE e.state = "MI"
  BY <1>1, <1>7, FlatStatesAreWhole DEF US!StateIncomeTax, US!NoTaxStates
<1>8. CASE e.state = "CO"
  BY <1>1, <1>8, ColoradoTaxIsWhole DEF US!StateIncomeTax, US!NoTaxStates
<1>9. CASE e.state = "AZ"
  BY <1>1, <1>9, FlatStatesAreWhole DEF US!StateIncomeTax, US!NoTaxStates
<1>10. CASE e.state = "OR"
  BY <1>1, <1>10, OregonTaxIsWhole DEF US!StateIncomeTax, US!NoTaxStates
<1>11. CASE e.state = "IN"
  BY <1>1, <1>11, IndianaTaxesAreWhole DEF US!StateIncomeTax, US!NoTaxStates
<1>12. CASE e.state = "NC"
  BY <1>1, <1>12, NorthCarolinaTaxIsWhole DEF US!StateIncomeTax, US!NoTaxStates
<1>13. CASE e.state \in US!StatesV11
  <2>1. US!StateIncomeTax(e) = US!BatchV11(e)
    BY <1>1, <1>13 DEF US!StateIncomeTax, US!NoTaxStates
  <2>2. QED  BY <1>13, <2>1, BatchV11IsWhole
<1>14. CASE e.state \in US!StatesV12
  <2>1. US!StateIncomeTax(e) = US!BatchV12(e)
    BY <1>1, <1>14 DEF US!StateIncomeTax, US!NoTaxStates
  <2>2. QED  BY <1>14, <2>1, BatchV12IsWhole
<1>15. CASE e.state \in {"OH", "LA", "IA", "AL"}
  <2>1. US!StateIncomeTax(e) = US!BatchV13(e)
    BY <1>1, <1>15 DEF US!StateIncomeTax, US!NoTaxStates
  <2>2. QED  BY <1>15, <2>1, BatchV13IsWhole
<1>16. CASE e.state \in {"MD", "CT", "DE", "DC", "WI"}
  <2>1. US!StateIncomeTax(e) = US!BatchV14(e)
    BY <1>1, <1>16 DEF US!StateIncomeTax, US!NoTaxStates
  <2>2. QED  BY <1>16, <2>1, BatchV14IsWhole
<1>17. CASE e.state \in US!NoTaxStates \cup {"AK", "WA"}
  BY <1>1, <1>17 DEF US!StateIncomeTax, US!NoTaxStates
<1>18. DOMAIN US!Statuses = {"CA", "NJ", "NY", "CO", "OR", "NC"}
  BY DEF US!Statuses
<1>19. e.state \in US!NoTaxStates \cup US!StatesV5 \cup US!StatesV11 \cup US!StatesV12
                   \cup US!StatesV14 \cup DOMAIN US!Statuses
  BY DEF US!UsStates
<1>20. QED  BY <1>1, <1>2, <1>3, <1>4, <1>5, <1>6, <1>7, <1>8, <1>9, <1>10, <1>11, <1>12, <1>13,
               <1>14, <1>15, <1>16, <1>17, <1>18, <1>19 DEF US!StatesV5

\* What cities and counties ask.
LEMMA LocalTaxIsWhole ==
  ASSUME NEW e, IsAmerican(e)
  PROVE  US!LocalTax(e) \in Int
<1>1. CASE e.state = "NY"
  BY <1>1, NewYorkTaxesAreWhole DEF US!LocalTax, US!DenverOpt
<1>2. CASE e.state = "PA"
  BY <1>2, FlatStatesAreWhole DEF US!LocalTax, US!DenverOpt
<1>3. CASE e.state = "IN"
  BY <1>3, IndianaTaxesAreWhole DEF US!LocalTax, US!DenverOpt
<1>4. CASE e.state = "MD"
  BY <1>4, MarylandIsWhole DEF US!LocalTax, US!DenverOpt
<1>5. CASE e.state \notin {"NY", "PA", "IN", "MD"}
  <2>1. US!LocalTax(e) \in {US!Colorado.opt_employee, 0}
    BY <1>5 DEF US!LocalTax
  <2>2. QED  BY <2>1, FlatStates
<1>6. QED  BY <1>1, <1>2, <1>3, <1>4, <1>5

\* What the employee pays into the states' funds.
LEMMA StateContributionsAreWhole ==
  ASSUME NEW e \in US!Employee, US!Valid(e)
  PROVE  US!StateContributions(e) \in Int
<1>1. /\ e.gross_pay \in Int /\ US!FicaWages(e) \in Int
      /\ \A base \in DOMAIN US!WageBases : US!WageBases[base] \in Int /\ e.ytd[base] \in Int
  <2>1. e.gross_pay \in Int /\ US!FicaWages(e) \in Int
    BY UsPay
  <2>2. \A tax \in DOMAIN US!NoWages : e.ytd[tax] \in Int
    BY DEF US!Employee
  <2>3. \A base \in DOMAIN US!WageBases : base \in DOMAIN US!NoWages /\ US!WageBases[base] \in Int
    BY WageBasesAreAmounts
  <2>4. QED  BY <2>1, <2>2, <2>3
<1>2. ASSUME NEW base \in DOMAIN US!WageBases, NEW rate, IsRate(rate)
      PROVE  US!Capped(e, base, rate) \in Int
  <2> DEFINE ytd == e.ytd[base]
  <2> DEFINE cap == US!WageBases[base]
  <2>1. US!Capped(e, base, rate) = US!CeilingContribution(ytd, e.gross_pay, cap, rate)
    BY DEF US!Capped
  <2>2. ytd \in Int /\ cap \in Int
    BY <1>1, <1>2
  <2>3. e.gross_pay \in Int
    BY <1>1
  <2>4. US!CeilingContribution(ytd, e.gross_pay, cap, rate) \in Int
    <3> HIDE DEF ytd, cap
    <3>1. QED  BY <1>2, <2>2, <2>3, UsAmounts
  <2>5. QED  BY <2>1, <2>4
<1>3. CASE e.state = "CA"
  <2>1. IsRate(<<130, 10000>>)
    BY DEF IsRate
  <2>2. QED  BY <1>1, <1>3, <2>1, StateFunds, ShareIsWhole
<1>4. CASE e.state = "NJ"
  <2>1. IsRate(<<425, 100000>>) /\ IsRate(<<19, 10000>>) /\ IsRate(<<23, 10000>>)
    BY DEF IsRate
  <2>2. /\ US!Capped(e, "nj_ui_wf", <<425, 100000>>) \in Int
        /\ US!Capped(e, "nj_tdi_fli", <<19, 10000>>) \in Int
        /\ US!Capped(e, "nj_tdi_fli", <<23, 10000>>) \in Int
    BY <1>2, <2>1, WageBasesAreAmounts
  <2>3. QED  BY <1>4, <2>2, StateFunds
<1>5. CASE e.state = "NY"
  BY <1>5, NewYorkIsWhole
<1>6. CASE e.state = "PA"
  <2>1. IsRate(<<7, 10000>>)
    BY DEF IsRate
  <2>2. QED  BY <1>1, <1>6, <2>1, StateFunds, ShareIsWhole
<1>7. CASE e.state = "CO"
  <2>1. IsRate(<<44, 10000>>)
    BY DEF IsRate
  <2>2. QED  BY <1>2, <1>7, <2>1, StateFunds, WageBasesAreAmounts
<1>8. CASE e.state = "AK"
  <2>1. IsRate(<<50, 10000>>)
    BY DEF IsRate
  <2>2. QED  BY <1>2, <1>8, <2>1, StateFunds, WageBasesAreAmounts
<1>9. CASE e.state = "WA"
  <2> DEFINE left == US!WageBases["wa_pfml"] - e.ytd["wa_pfml"]
  <2> DEFINE wages == AtMost(e.gross_pay, AtLeast(0, left))
  <2> DEFINE cares == Share(e.gross_pay, <<58, 10000>>)
  <2>1. US!StateContributions(e) = WaPremium(wages) + cares
    BY <1>9, StateFunds
  <2>2. IsRate(<<58, 10000>>)
    BY DEF IsRate
  <2>3. cares \in Int
    BY <1>1, <2>2, ShareIsWhole
  <2> HIDE DEF cares
  <2>4. left \in Int
    BY <1>1, WageBasesAreAmounts
  <2> HIDE DEF left
  <2>5. wages \in Nat
    BY <2>4, UsPay DEF AtMost, AtLeast
  <2> HIDE DEF wages
  <2>6. WaPremium(wages) \in Int
    BY <2>5, WaPremiumRounds
  <2>7. QED  BY <2>1, <2>3, <2>6
<1>10. CASE e.state = "OR"
  <2>1. IsRate(<<10, 10000>>) /\ IsRate(<<60, 10000>>)
    BY DEF IsRate
  <2>2. Share(e.gross_pay, <<10, 10000>>) \in Int
    BY <1>1, <2>1, ShareIsWhole
  <2>3. US!Capped(e, "or_paid_leave", <<60, 10000>>) \in Int
    BY <1>2, <2>1, WageBasesAreAmounts
  <2>4. QED  BY <1>10, <2>2, <2>3, StateFunds
<1>11. CASE e.state \notin {"CA", "NJ", "NY", "PA", "CO", "AK", "WA", "OR"}
  BY <1>11, StateFunds
<1>12. QED  BY <1>3, <1>4, <1>5, <1>6, <1>7, <1>8, <1>9, <1>10, <1>11

\* Social security, Medicare and the unemployment taxes.
LEMMA FederalContributionsAreWhole ==
  ASSUME NEW e \in US!Employee, US!Valid(e)
  PROVE  /\ US!FicaAndFuta(e).social_security \in Int /\ US!FicaAndFuta(e).medicare \in Int
         /\ US!FicaAndFuta(e).additional_medicare \in Int /\ US!FicaAndFuta(e).futa \in Int
         /\ US!FicaAndFuta(e).sui \in Int
<1> DEFINE wages == US!FicaWages(e)
<1> DEFINE ssYtd == e.ytd["ss"]
<1> DEFINE medicareYtd == e.ytd["medicare"]
<1> DEFINE futaYtd == e.ytd["futa"]
<1> DEFINE suiYtd == e.ytd["sui"]
<1> DEFINE ssBase == US!WageBases["ss"]
<1> DEFINE futaBase == US!WageBases["futa"]
<1> DEFINE futaRate == IF e.state = "CA" THEN <<180, 10000>> ELSE <<60, 10000>>
<1> DEFINE above == AtLeast(0, medicareYtd + wages - AtLeast(20000000, medicareYtd))
<1> DEFINE sui == CeilingContribution(suiYtd, wages, e.sui[2], <<e.sui[1], 1000>>)
<1>1. /\ wages \in Int /\ ssYtd \in Int /\ medicareYtd \in Int /\ futaYtd \in Int /\ suiYtd \in Int
      /\ ssBase \in Int /\ futaBase \in Int
  BY UsPay, WageBasesAreAmounts, UsFields
<1>2. US!FicaAndFuta(e).social_security = CeilingContribution(ssYtd, wages, ssBase, <<620, 10000>>)
  BY FederalContributions
<1>3. US!FicaAndFuta(e).medicare = Share(wages, <<145, 10000>>)
  BY FederalContributions
<1>4. US!FicaAndFuta(e).additional_medicare = Share(above, <<90, 10000>>)
  BY FederalContributions
<1>5. US!FicaAndFuta(e).futa = CeilingContribution(futaYtd, wages, futaBase, futaRate)
  BY FederalContributions
<1>6. US!FicaAndFuta(e).sui = IF e.sui = <<>> THEN 0 ELSE sui
  BY FederalContributions
<1>7. e.sui # <<>> => e.sui[1] \in Int /\ e.sui[2] \in Int
  BY DEF US!Employee
<1>8. /\ IsRate(<<620, 10000>>) /\ IsRate(<<145, 10000>>) /\ IsRate(<<90, 10000>>)
      /\ IsRate(futaRate)
      /\ e.sui # <<>> => IsRate(<<e.sui[1], 1000>>)
  BY <1>7 DEF IsRate
<1> HIDE DEF wages, ssYtd, medicareYtd, futaYtd, suiYtd, ssBase, futaBase, futaRate
<1>9. above \in Int
  BY <1>1 DEF AtLeast
<1> HIDE DEF above
<1>10. \A ytd, amount, cap \in Int : \A rate :
         IsRate(rate) => CeilingContribution(ytd, amount, cap, rate) \in Int
  BY ContributionsAreWhole
<1>11. US!FicaAndFuta(e).social_security \in Int
  <2> DEFINE rate == <<620, 10000>>
  <2>1. IsRate(rate)
    BY <1>8
  <2> HIDE DEF rate
  <2>2. CeilingContribution(ssYtd, wages, ssBase, rate) \in Int
    BY <1>1, <1>10, <2>1
  <2>3. QED  BY <1>2, <2>2 DEF rate
<1>12. US!FicaAndFuta(e).medicare \in Int /\ US!FicaAndFuta(e).additional_medicare \in Int
  BY <1>1, <1>3, <1>4, <1>8, <1>9, ShareIsWhole
<1>13. US!FicaAndFuta(e).futa \in Int
  BY <1>1, <1>5, <1>8, <1>10
<1>14. ASSUME e.sui # <<>> PROVE sui \in Int
  <2> DEFINE base == e.sui[2]
  <2> DEFINE rate == <<e.sui[1], 1000>>
  <2>1. base \in Int /\ IsRate(rate)
    BY <1>7, <1>8, <1>14
  <2> HIDE DEF base, rate
  <2>2. CeilingContribution(suiYtd, wages, base, rate) \in Int
    BY <1>1, <1>10, <2>1
  <2>3. QED  BY <2>2 DEF sui, base, rate
<1> HIDE DEF sui
<1>15. US!FicaAndFuta(e).sui \in Int
  BY <1>6, <1>14
<1>16. QED  BY <1>11, <1>12, <1>13, <1>15

\* The United States' journal.
LEMMA UnitedStatesBalances ==
  ASSUME NEW e \in US!Employee, US!Valid(e)
  PROVE  JournalBalances(US!Journal(US!Payslip(e)))
<1> DEFINE ss == US!FicaAndFuta(e).social_security
<1> DEFINE medicare == US!FicaAndFuta(e).medicare
<1> DEFINE additional == US!FicaAndFuta(e).additional_medicare
<1> DEFINE futa == US!FicaAndFuta(e).futa
<1> DEFINE sui == US!FicaAndFuta(e).sui
<1> DEFINE federal == US!FederalIncomeTax(e)
<1> DEFINE state == US!StateIncomeTax(e)
<1> DEFINE local == US!LocalTax(e)
<1> DEFINE funds == US!StateContributions(e)
<1> DEFINE opt == IF US!DenverOpt(e) THEN US!Colorado.opt_employer ELSE 0
<1> DEFINE t == US!Payslip(e)
<1>1. IsAmerican(e) /\ e.state \in US!UsStates
  BY AmericanFields
<1>2. ss \in Int /\ medicare \in Int /\ additional \in Int /\ futa \in Int /\ sui \in Int
  BY FederalContributionsAreWhole
<1>3. federal \in Int /\ state \in Int /\ local \in Int /\ funds \in Int
  BY <1>1, FederalTaxIsWhole, StateIncomeTaxIsWhole, LocalTaxIsWhole, StateContributionsAreWhole
<1>4. opt \in Int
  BY FlatStates
<1>5. e.gross_pay \in Int /\ e.pretax_401k \in Int /\ e.pretax_125 \in Int
  BY <1>1 DEF IsAmerican
<1>6. /\ t.gross_pay = e.gross_pay /\ t.federal_income_tax = federal
      /\ t.fica_employee = ss + medicare + additional /\ t.fica_employer = ss + medicare
      /\ t.futa = futa /\ t.sui = sui /\ t.state_income_tax = state /\ t.local_tax = local
      /\ t.state_contributions = funds /\ t.denver_opt_employer = opt
      /\ t.pretax_deductions = e.pretax_401k + e.pretax_125
      /\ t.net_pay = e.gross_pay
                     - (federal + ss + medicare + additional + state + local + funds)
                     - e.pretax_401k - e.pretax_125
  BY DEF US!Payslip
<1> HIDE DEF ss, medicare, additional, futa, sui, federal, state, local, funds, opt, t
<1>7. /\ t.gross_pay \in Int /\ t.federal_income_tax \in Int /\ t.fica_employee \in Int
      /\ t.fica_employer \in Int /\ t.futa \in Int /\ t.sui \in Int /\ t.state_income_tax \in Int
      /\ t.local_tax \in Int /\ t.state_contributions \in Int /\ t.denver_opt_employer \in Int
      /\ t.pretax_deductions \in Int
      /\ t.net_pay = t.gross_pay - t.federal_income_tax - t.fica_employee - t.state_income_tax
                     - t.local_tax - t.state_contributions - t.pretax_deductions
  BY <1>2, <1>3, <1>4, <1>5, <1>6
<1>8. t.net_pay \in Int
  BY <1>7
<1>9. /\ t.fica_employer + t.futa + t.sui + t.denver_opt_employer \in Int
      /\ t.fica_employee + t.fica_employer \in Int
  BY <1>7, <1>8
<1>10. /\ Len(US!Journal(t).debits) = 2
      /\ US!Journal(t).debits[1][2] = t.gross_pay
      /\ US!Journal(t).debits[2][2] = t.fica_employer + t.futa + t.sui +
         t.denver_opt_employer
  BY DEF US!Journal
<1>11. /\ Len(US!Journal(t).credits) = 10
      /\ US!Journal(t).credits[1][2] = t.net_pay
      /\ US!Journal(t).credits[2][2] = t.federal_income_tax
      /\ US!Journal(t).credits[3][2] = t.fica_employee + t.fica_employer
      /\ US!Journal(t).credits[4][2] = t.futa
      /\ US!Journal(t).credits[5][2] = t.sui
      /\ US!Journal(t).credits[6][2] = t.state_income_tax
      /\ US!Journal(t).credits[7][2] = t.local_tax
      /\ US!Journal(t).credits[8][2] = t.state_contributions
      /\ US!Journal(t).credits[9][2] = t.denver_opt_employer
      /\ US!Journal(t).credits[10][2] = t.pretax_deductions
  BY DEF US!Journal
<1>12. Total(US!Journal(t).debits)
      = t.gross_pay + (t.fica_employer + t.futa + t.sui + t.denver_opt_employer)
  BY <1>7, <1>8, <1>9, <1>10, TotalOfTwo
<1>13. Total(US!Journal(t).credits)
      = t.net_pay + t.federal_income_tax + (t.fica_employee + t.fica_employer) + t.futa +
        t.sui + t.state_income_tax + t.local_tax + t.state_contributions +
        t.denver_opt_employer + t.pretax_deductions
  BY <1>7, <1>8, <1>9, <1>11, TotalOfTen
<1>14. QED  BY <1>7, <1>8, <1>9, <1>12, <1>13 DEF JournalBalances, t

-----------------------------------------------------------------------------
(* Over the year *)

\* What a period of pay leaves of the worker's type, in the countries that add nothing up.
LEMMA PayIsTypedElsewhere ==
  ASSUME NEW c \in Countries \ Tracked, NEW e \in Employee(c), NEW pay \in Int
  PROVE  WithPay(c, e, pay) \in Employee(c)
<1>1. c \in {"GB", "KE", "ZA", "RW", "CM"}
  BY DEF Countries, Tracked
<1>2. WithPay(c, e, pay) = [e EXCEPT !.gross_pay = pay]
  BY <1>1 DEF WithPay
<1>3. CASE c = "GB"
  <2>1. e \in UK!Employee /\ Employee(c) = UK!Employee
    BY <1>3 DEF Employee
  <2>2. QED  BY <1>2, <2>1 DEF UK!Employee
<1>4. CASE c = "KE"
  <2>1. e \in KE!Employee /\ Employee(c) = KE!Employee
    BY <1>4 DEF Employee
  <2>2. QED  BY <1>2, <2>1 DEF KE!Employee
<1>5. CASE c = "ZA"
  <2>1. e \in ZA!Employee /\ Employee(c) = ZA!Employee
    BY <1>5 DEF Employee
  <2>2. QED  BY <1>2, <2>1 DEF ZA!Employee
<1>6. CASE c = "RW"
  <2>1. e \in RW!Employee /\ Employee(c) = RW!Employee
    BY <1>6 DEF Employee
  <2>2. QED  BY <1>2, <2>1 DEF RW!Employee
<1>7. CASE c = "CM"
  <2>1. e \in CM!Employee /\ Employee(c) = CM!Employee
    BY <1>7 DEF Employee
  <2>2. QED  BY <1>2, <2>1 DEF CM!Employee
<1>8. QED  BY <1>1, <1>3, <1>4, <1>5, <1>6, <1>7

\* The next period's worker is again one that the engine is given.
LEMMA CarriedIsTyped ==
  ASSUME NEW c \in Countries, NEW e \in Employee(c), Valid(c, e)
  PROVE  Carried(c, e, Payslip(c, e)) \in Employee(c)
<1>1. CASE c = "GE"
  <2>1. e \in GE!Employee /\ GE!Valid(e) /\ Payslip(c, e) = GE!Payslip(e)
    BY <1>1 DEF Employee, Valid, Payslip
  <2>2. QED  BY <1>1, <2>1, CarriedInGeorgia DEF Employee
<1>2. CASE c = "DE"
  <2>1. e \in DE!Employee /\ Payslip(c, e) = DE!Payslip(e)
    BY <1>2 DEF Employee, Payslip
  <2>2. DE!Payslip(e).ytd_after = e.ytd + e.sv_gross_pay + e.one_time
    BY GermanSlip
  <2>3. DE!Payslip(e).ytd_after \in Int
    BY <2>1, <2>2 DEF DE!Employee
  <2>4. QED  BY <1>2, <2>1, <2>3, CarriedInGermany DEF Employee
<1>3. CASE c = "CA"
  <2>1. e \in CA!Employee /\ CA!Valid(e) /\ Payslip(c, e) = CA!Payslip(e)
    BY <1>3 DEF Employee, Valid, Payslip
  <2>2. QED  BY <1>3, <2>1, CarriedInCanada DEF Employee
<1>4. CASE c = "US"
  <2>1. e \in US!Employee /\ US!Valid(e) /\ Payslip(c, e) = US!Payslip(e)
    BY <1>4 DEF Employee, Valid, Payslip
  <2>2. QED  BY <1>4, <2>1, CarriedInTheUnitedStates DEF Employee
<1>5. CASE c = "MU"
  <2>1. e \in MU!Employee /\ MU!Valid(e) /\ Payslip(c, e) = MU!Payslip(e)
    BY <1>5 DEF Employee, Valid, Payslip
  <2>2. QED  BY <1>5, <2>1, CarriedInMauritius DEF Employee
<1>6. CASE c \notin Tracked
  BY <1>6 DEF Carried, Tracked
<1>7. QED  BY <1>1, <1>2, <1>3, <1>4, <1>5, <1>6 DEF Tracked

\* Whatever a country accepts, its journal balances.
LEMMA EveryJournalBalances ==
  ASSUME NEW c \in Countries, NEW e \in Employee(c), Valid(c, e)
  PROVE  JournalBalances(Journal(c, Payslip(c, e)))
<1>1. CASE c = "GE"
  <2>1. e \in GE!Employee /\ GE!Valid(e) /\ Payslip(c, e) = GE!Payslip(e)
    BY <1>1 DEF Employee, Valid, Payslip
  <2>2. QED  BY <1>1, <2>1, GeorgiaBalances DEF Journal
<1>2. CASE c = "DE"
  <2>1. e \in DE!Employee /\ DE!Valid(e) /\ Payslip(c, e) = DE!Payslip(e)
    BY <1>2 DEF Employee, Valid, Payslip
  <2>2. QED  BY <1>2, <2>1, GermanyBalances DEF Journal
<1>3. CASE c = "US"
  <2>1. e \in US!Employee /\ US!Valid(e) /\ Payslip(c, e) = US!Payslip(e)
    BY <1>3 DEF Employee, Valid, Payslip
  <2>2. QED  BY <1>3, <2>1, UnitedStatesBalances DEF Journal
<1>4. CASE c = "GB"
  <2>1. e \in UK!Employee /\ UK!Valid(e) /\ Payslip(c, e) = UK!Payslip(e)
    BY <1>4 DEF Employee, Valid, Payslip
  <2>2. QED  BY <1>4, <2>1, BritainBalances DEF Journal
<1>5. CASE c = "CA"
  <2>1. e \in CA!Employee /\ CA!Valid(e) /\ Payslip(c, e) = CA!Payslip(e)
    BY <1>5 DEF Employee, Valid, Payslip
  <2>2. QED  BY <1>5, <2>1, CanadaBalances DEF Journal
<1>6. CASE c = "KE"
  <2>1. e \in KE!Employee /\ KE!Valid(e) /\ Payslip(c, e) = KE!Payslip(e)
    BY <1>6 DEF Employee, Valid, Payslip
  <2>2. QED  BY <1>6, <2>1, KenyaBalances DEF Journal
<1>7. CASE c = "ZA"
  <2>1. e \in ZA!Employee /\ ZA!Valid(e) /\ Payslip(c, e) = ZA!Payslip(e)
    BY <1>7 DEF Employee, Valid, Payslip
  <2>2. QED  BY <1>7, <2>1, SouthAfricaBalances DEF Journal
<1>8. CASE c = "RW"
  <2>1. e \in RW!Employee /\ RW!Valid(e) /\ Payslip(c, e) = RW!Payslip(e)
    BY <1>8 DEF Employee, Valid, Payslip
  <2>2. QED  BY <1>8, <2>1, RwandaBalances DEF Journal
<1>9. CASE c = "MU"
  <2>1. e \in MU!Employee /\ MU!Valid(e) /\ Payslip(c, e) = MU!Payslip(e)
    BY <1>9 DEF Employee, Valid, Payslip
  <2>2. QED  BY <1>9, <2>1, MauritiusBalances DEF Journal
<1>10. CASE c = "CM"
  <2>1. e \in CM!Employee /\ CM!Valid(e) /\ Payslip(c, e) = CM!Payslip(e)
    BY <1>10 DEF Employee, Valid, Payslip
  <2>2. QED  BY <1>10, <2>1, CameroonBalances DEF Journal
<1>11. QED  BY <1>1, <1>2, <1>3, <1>4, <1>5, <1>6, <1>7, <1>8, <1>9, <1>10 DEF Countries

\* The worker is always one that the engine of the country can be given.
JournalsStayBalanced ==
  /\ country \in DOMAIN Workers
  /\ first \in Workers[country]
  /\ worker \in Employee(country)
  /\ JournalsBalance

\* An accepted run leaves such a worker, and a journal that balances.
LEMMA PreparedJournalBalances ==
  ASSUME JournalsStayBalanced, NEW pay \in Pays[country], Prepare(pay)
  PROVE  JournalsStayBalanced'
<1> DEFINE e == WithPay(country, worker, pay)
<1>1. country \in Countries /\ pay \in Int
  BY WorkersStartTheYear DEF JournalsStayBalanced
<1>2. e \in Employee(country)
  BY <1>1, PayIsTypedIn, PayIsTypedElsewhere DEF JournalsStayBalanced
<1>3. /\ Valid(country, e) /\ slip' = Payslip(country, e)
      /\ worker' = Carried(country, e, Payslip(country, e))
      /\ country' = country /\ first' = first
  BY DEF Prepare
<1> HIDE DEF e
<1>4. worker' \in Employee(country)
  BY <1>1, <1>2, <1>3, CarriedIsTyped
<1>5. JournalBalances(Journal(country, slip'))
  BY <1>1, <1>2, <1>3, EveryJournalBalances
<1>6. QED  BY <1>3, <1>4, <1>5 DEF JournalsStayBalanced, JournalsBalance

\* JournalsBalance: whichever of the ten countries the worker is in, whatever the options and
\* the pay, the payslip's journal has the same total of debits and of credits.
THEOREM JournalsAlwaysBalance == Spec => []JournalsBalance
<1>1. Init => JournalsStayBalanced
  BY WorkersStartTheYear DEF Init, JournalsStayBalanced, JournalsBalance
<1>2. JournalsStayBalanced /\ [Next]_vars => JournalsStayBalanced'
  <2> SUFFICES ASSUME JournalsStayBalanced, [Next]_vars PROVE JournalsStayBalanced'
    OBVIOUS
  <2>1. CASE \E pay \in Pays[country] : Prepare(pay)
    BY <2>1, PreparedJournalBalances
  <2>2. CASE \E pay \in Pays[country] : Refuse(pay)
    BY <2>2 DEF Refuse, JournalsStayBalanced, JournalsBalance
  <2>3. CASE StartYear
    <3>1. first \in Employee(country)
      BY WorkersStartTheYear DEF JournalsStayBalanced
    <3>2. QED  BY <2>3, <3>1 DEF StartYear, JournalsStayBalanced, JournalsBalance
  <2>4. CASE UNCHANGED vars
    BY <2>4 DEF vars, JournalsStayBalanced, JournalsBalance
  <2>5. QED  BY <2>1, <2>2, <2>3, <2>4 DEF Next
<1>3. JournalsStayBalanced => JournalsBalance
  BY DEF JournalsStayBalanced
<1>4. QED  BY <1>1, <1>2, <1>3, PTL DEF Spec

================================================================================
