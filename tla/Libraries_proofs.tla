-------------------------- MODULE Libraries_proofs --------------------------
(***************************************************************************)
(* Proofs about the libraries that keep numbers.  FundingEngine: the       *)
(* accumulator stays within its bounds, and the premium agrees with the    *)
(* mark price.  RiskEngine: the type invariant, the books follow the cash, *)
(* and an accepted first order leaves the account healthy.  TelemetrySink: *)
(* the summaries are about the values recorded since the last drain.       *)
(***************************************************************************)
EXTENDS RiskEngine, FundingEngine, TelemetrySink, FiniteSetTheorems,
        NaturalsInduction, WellFoundedInduction, TLAPS

-----------------------------------------------------------------------------
(* Arithmetic                                                              *)

\* Division of numbers that are not negative.
LEMMA DivBounds ==
  ASSUME NEW x \in Nat, NEW y \in Nat \ {0}
  PROVE  /\ x \div y \in Nat
         /\ (x \div y) * y <= x
         /\ x < ((x \div y) * y) + y
OBVIOUS

\* Division towards zero: the sign, and the rest that is less than the divisor.
LEMMA QuotientBounds ==
  ASSUME NEW x \in Int, NEW y \in Nat \ {0}
  PROVE  /\ Quotient(x, y) \in Int
         /\ x >= 0 => /\ Quotient(x, y) >= 0
                      /\ Quotient(x, y) * y <= x /\ x < (Quotient(x, y) * y) + y
         /\ x <= 0 => /\ Quotient(x, y) <= 0
                      /\ x <= Quotient(x, y) * y /\ (Quotient(x, y) * y) - y < x
<1>1. CASE x >= 0
  BY <1>1, DivBounds DEF Quotient
<1>2. CASE x < 0
  <2>1. -x \in Nat
    BY <1>2
  <2>2. PICK q : q = (-x) \div y
    OBVIOUS
  <2>3. q \in Nat /\ q * y <= -x /\ -x < (q * y) + y
    BY <2>1, <2>2, DivBounds
  <2>4. (-q) * y = -(q * y)
    BY <2>3
  <2> QED
    BY <1>2, <2>2, <2>3, <2>4 DEF Quotient
<1> QED
  BY <1>1, <1>2

\* Products with a number that is not negative keep the order.
LEMMA ProductMonotone ==
  ASSUME NEW a \in Int, NEW b \in Int, NEW n \in Nat, a <= b
  PROVE  a * n <= b * n
OBVIOUS

\* And are ordered only if the factors are.
LEMMA ProductCancel ==
  ASSUME NEW a \in Int, NEW b \in Int, NEW n \in Nat, a * n < b * n
  PROVE  a < b
OBVIOUS

-----------------------------------------------------------------------------
(* FundingEngine                                                           *)

MarketFundingConfigs == [clamp_basis_points : Int, max_rate_basis_points : Nat]

\* The state of the market has its type.
FundingTypeOK ==
  /\ funding \in [config : MarketFundingConfigs, mark_price : Int, index_price : Nat,
                  premium_rate : Int, funding_accumulator : Int]
  /\ most \in Int /\ least \in Int

\* std::clamp, also with the bounds in the wrong order.
LEMMA ClampBounds ==
  ASSUME NEW v \in Int, NEW a \in Int, NEW b \in Int
  PROVE  /\ clamp(v, a, b) \in Int
         /\ a <= b /\ v <= a => clamp(v, a, b) = a
         /\ v >= b => clamp(v, a, b) = b
         /\ a <= v /\ v <= b => clamp(v, a, b) = v
         /\ a > b => clamp(v, a, b) = b
         /\ a <= b => a <= clamp(v, a, b) /\ clamp(v, a, b) <= b
BY DEF clamp, Smaller, Larger

\* What update_market computes has its type.
LEMMA UpdateTypes ==
  ASSUME NEW config \in MarketFundingConfigs, NEW i \in Nat, NEW mid \in Int
  PROVE  /\ MarkPriceOf(config, i, mid) \in Int
         /\ Distance(i, mid) \in Int
         /\ premium(config, i, mid) \in Int
<1>1. config.clamp_basis_points \in Int
  BY DEF MarketFundingConfigs
<1>2. PICK band : band = Quotient(i * config.clamp_basis_points, kBasisPointDenominator)
  OBVIOUS
<1>3. band \in Int
  <2>1. i * config.clamp_basis_points \in Int
    BY <1>1
  <2> QED
    BY <1>2, <2>1, QuotientBounds, FundingAssumption
<1>4. MarkPriceOf(config, i, mid) \in Int
  BY <1>2, <1>3, ClampBounds DEF MarkPriceOf
<1>5. Distance(i, mid) \in Int
  <2>1. (mid - i) * kBasisPointDenominator \in Int
    BY FundingAssumption
  <2> QED
    BY <2>1, QuotientBounds DEF Distance
<1>6. premium(config, i, mid) \in Int
  BY <1>1, <1>5 DEF premium, clamp, Smaller, Larger
<1> QED
  BY <1>4, <1>5, <1>6

\* The distance has the sign of the difference, and is its rate up to one unit.
LEMMA DistanceBounds ==
  ASSUME NEW i \in Nat \ {0}, NEW mid \in Int
  PROVE  /\ Distance(i, mid) \in Int
         /\ (mid - i) * kBasisPointDenominator \in Int
         /\ mid >= i => /\ Distance(i, mid) >= 0
                        /\ Distance(i, mid) * i <= (mid - i) * kBasisPointDenominator
                        /\ (mid - i) * kBasisPointDenominator < (Distance(i, mid) * i) + i
         /\ mid <= i => /\ Distance(i, mid) <= 0
                        /\ (mid - i) * kBasisPointDenominator <= Distance(i, mid) * i
                        /\ (Distance(i, mid) * i) - i < (mid - i) * kBasisPointDenominator
<1>1. PICK x : x = (mid - i) * kBasisPointDenominator
  OBVIOUS
<1>2. x \in Int /\ (mid >= i => x >= 0) /\ (mid <= i => x <= 0)
  BY <1>1, FundingAssumption
<1>3. Distance(i, mid) = Quotient(x, i)
  BY <1>1 DEF Distance
<1>4. PICK q : q = Quotient(x, i)
  OBVIOUS
<1>5. /\ q \in Int
      /\ x >= 0 => q >= 0 /\ q * i <= x /\ x < (q * i) + i
      /\ x <= 0 => q <= 0 /\ x <= q * i /\ (q * i) - i < x
  BY <1>2, <1>4, QuotientBounds
<1> QED
  BY <1>1, <1>2, <1>3, <1>4, <1>5

\* The rate has the direction of the premium, unless the clamp is negative.
LEMMA RateBounds ==
  ASSUME NEW config \in MarketFundingConfigs, NEW i \in Nat, NEW mid \in Int
  PROVE  LET rate == funding_rate(config, premium(config, i, mid))
             R == config.max_rate_basis_points
         IN  /\ rate \in Int /\ R \in Nat /\ -R <= rate /\ rate <= R
             /\ ~ (mid > i \/ config.clamp_basis_points < 0) => rate <= 0
             /\ ~ (mid < i \/ config.clamp_basis_points < 0) => rate >= 0
<1>1. config.clamp_basis_points \in Int /\ config.max_rate_basis_points \in Nat
  BY DEF MarketFundingConfigs
<1>2. Distance(i, mid) \in Int /\ premium(config, i, mid) \in Int
  BY UpdateTypes
<1>3. (mid <= i => Distance(i, mid) <= 0) /\ (mid >= i => Distance(i, mid) >= 0)
  BY DistanceBounds DEF Distance
<1>4. PICK d, c, p, R : /\ d = Distance(i, mid) /\ c = config.clamp_basis_points
                        /\ p = premium(config, i, mid) /\ R = config.max_rate_basis_points
  OBVIOUS
<1>5. d \in Int /\ c \in Int /\ p \in Int /\ R \in Nat
  BY <1>1, <1>2, <1>4
<1>6. p = clamp(d, -c, c)
  BY <1>4 DEF premium
<1>7. c >= 0 => (d <= 0 => p <= 0) /\ (d >= 0 => p >= 0)
  BY <1>5, <1>6 DEF clamp, Smaller, Larger
<1>8. PICK rate : rate = clamp(p, -R, R)
  OBVIOUS
<1>9. /\ rate \in Int /\ -R <= rate /\ rate <= R
      /\ p <= 0 => rate <= 0
      /\ p >= 0 => rate >= 0
  BY <1>5, <1>8 DEF clamp, Smaller, Larger
<1>10. funding_rate(config, premium(config, i, mid)) = rate
  BY <1>4, <1>8 DEF funding_rate
<1> QED
  BY <1>1, <1>3, <1>4, <1>5, <1>7, <1>9, <1>10

\* q is the quotient of x and y, towards zero.
Rounds(q, x, y) ==
  /\ x >= 0 => q >= 0 /\ q * y <= x /\ x < (q * y) + y
  /\ x <= 0 => q <= 0 /\ x <= q * y /\ (q * y) - y < x

\* The premium and the mark price, of which diff is the distance from the index.
Agree(rate, i, diff, D) == Abs((rate * i) - (diff * D)) <= Larger(i, D)

\* The two clamps agree: premium and mark price are bounded at the same distances.
LEMMA ClampsAgree ==
  ASSUME NEW c \in Int, NEW i \in Nat, NEW mid \in Int, NEW D \in Nat \ {0},
         NEW band \in Int, NEW p \in Int, NEW x \in Int, NEW d \in Int,
         d = mid - i, x = i * c, Rounds(band, x, D),
         i = 0 => p = 0,
         i # 0 => Rounds(p, d * D, i)
  PROVE  Agree(clamp(p, -c, c), i, clamp(mid, i - band, i + band) - i, D)
<1> USE DEF Agree
<1>a. /\ x >= 0 => band >= 0 /\ band * D <= x /\ x < (band * D) + D
      /\ x <= 0 => band <= 0 /\ x <= band * D /\ (band * D) - D < x
  BY DEF Rounds
<1>b. /\ i # 0 /\ d >= 0 => p >= 0 /\ p * i <= d * D /\ d * D < (p * i) + i
      /\ i # 0 /\ d <= 0 => p <= 0 /\ d * D <= p * i /\ (p * i) - i < d * D
  <2>1. (d >= 0 => d * D >= 0) /\ (d <= 0 => d * D <= 0)
    OBVIOUS
  <2> QED
    BY <2>1 DEF Rounds
<1>1. /\ band * D \in Int /\ p * i \in Int /\ d * D \in Int /\ c * i \in Int /\ x = c * i
      /\ (-c) * i = -x /\ (-band) * D = -(band * D)
  OBVIOUS
<1>2. CASE i = 0
  <2>1. x = 0 /\ band = 0
    <3>1. x = 0
      BY <1>2
    <3>2. band >= 0 /\ band <= 0
      BY <3>1, <1>a
    <3> QED
      BY <3>1, <3>2
  <2>2. clamp(mid, i - band, i + band) = 0
    BY <1>2, <2>1 DEF clamp, Smaller, Larger
  <2>3. clamp(p, -c, c) \in Int
    BY ClampBounds
  <2> QED
    BY <1>2, <2>2, <2>3 DEF Abs, Larger
<1>3. CASE c < 0
  <2>1. x <= 0
    BY <1>3
  <2>2. clamp(p, -c, c) = c
    BY <1>3 DEF clamp, Smaller, Larger
  <2>3. clamp(mid, i - band, i + band) - i = band
    <3>1. band <= 0
      BY <2>1, <1>a
    <3> QED
      BY <3>1 DEF clamp, Smaller, Larger
  <2> QED
    BY <1>1, <1>a, <2>1, <2>2, <2>3 DEF Abs, Larger
<1>4. CASE i # 0 /\ c >= 0
  <2>1. x >= 0 /\ band >= 0 /\ band * D <= x /\ x < (band * D) + D
    BY <1>4, <1>a
  <2>2. CASE d >= 0 /\ d <= band
    <3>1. d * D <= band * D
      BY <2>2, ProductMonotone
    <3>2. ~ (c < p)
      <4> SUFFICES ASSUME c < p PROVE FALSE
        OBVIOUS
      <4>1. c * i < p * i
        BY <1>4
      <4> QED
        BY <1>1, <1>b, <1>4, <2>1, <2>2, <3>1, <4>1
    <3>3. clamp(p, -c, c) = p
      BY <1>b, <1>4, <2>2, <3>2 DEF clamp, Smaller, Larger
    <3>4. clamp(mid, i - band, i + band) - i = d
      BY <2>2 DEF clamp, Smaller, Larger
    <3> QED
      BY <1>1, <1>b, <1>4, <2>2, <3>3, <3>4 DEF Abs, Larger
  <2>3. CASE d > band
    <3>1. (band * D) + D <= d * D
      <4>1. (band + 1) * D <= d * D
        BY <2>3, ProductMonotone
      <4> QED
        BY <1>1, <4>1
    <3>2. ~ (p < c)
      <4> SUFFICES ASSUME p < c PROVE FALSE
        OBVIOUS
      <4>1. (p + 1) * i <= c * i
        BY ProductMonotone
      <4>2. (p + 1) * i = (p * i) + i
        OBVIOUS
      <4> QED
        BY <1>1, <1>b, <1>4, <2>1, <2>3, <3>1, <4>1, <4>2
    <3>3. clamp(p, -c, c) = c
      BY <1>4, <3>2 DEF clamp, Smaller, Larger
    <3>4. clamp(mid, i - band, i + band) - i = band
      BY <2>1, <2>3 DEF clamp, Smaller, Larger
    <3> QED
      BY <1>1, <2>1, <3>3, <3>4 DEF Abs, Larger
  <2>4. CASE d < 0 /\ d >= -band
    <3>1. -(band * D) <= d * D
      <4>1. (-band) * D <= d * D
        BY <2>4, ProductMonotone
      <4> QED
        BY <1>1, <4>1
    <3>2. ~ (p < -c)
      <4> SUFFICES ASSUME p < -c PROVE FALSE
        OBVIOUS
      <4>1. p * i < (-c) * i
        BY <1>4
      <4> QED
        BY <1>1, <1>b, <1>4, <2>1, <2>4, <3>1, <4>1
    <3>3. clamp(p, -c, c) = p
      BY <1>b, <1>4, <2>4, <3>2 DEF clamp, Smaller, Larger
    <3>4. clamp(mid, i - band, i + band) - i = d
      BY <2>1, <2>4 DEF clamp, Smaller, Larger
    <3> QED
      BY <1>1, <1>b, <1>4, <2>4, <3>3, <3>4 DEF Abs, Larger
  <2>5. CASE d < -band
    <3>1. d * D <= -(band * D) - D
      <4>1. d * D <= (-band - 1) * D
        BY <2>5, ProductMonotone
      <4>2. (-band - 1) * D = -(band * D) - D
        OBVIOUS
      <4> QED
        BY <1>1, <4>1, <4>2
    <3>2. ~ (p > -c)
      <4> SUFFICES ASSUME p > -c PROVE FALSE
        OBVIOUS
      <4>1. (-c) * i <= (p - 1) * i
        BY ProductMonotone
      <4>2. (p - 1) * i = (p * i) - i
        OBVIOUS
      <4> QED
        BY <1>1, <1>b, <1>4, <2>1, <2>5, <3>1, <4>1, <4>2
    <3>3. clamp(p, -c, c) = -c
      BY <1>4, <3>2 DEF clamp, Smaller, Larger
    <3>4. clamp(mid, i - band, i + band) - i = -band
      BY <2>1, <2>5 DEF clamp, Smaller, Larger
    <3> QED
      BY <1>1, <2>1, <3>3, <3>4 DEF Abs, Larger
  <2> QED
    BY <2>1, <2>2, <2>3, <2>4, <2>5
<1> QED
  BY <1>2, <1>3, <1>4

\* Whatever prices an update is given, premium and mark price agree.
LEMMA UpdateAgrees ==
  ASSUME NEW config \in MarketFundingConfigs, NEW i \in Nat, NEW mid \in Int
  PROVE  Agree(premium(config, i, mid), i, MarkPriceOf(config, i, mid) - i,
               kBasisPointDenominator)
<1>1. PICK c, x, band, p, d, D :
        /\ c = config.clamp_basis_points /\ D = kBasisPointDenominator
        /\ x = i * c /\ band = Quotient(x, D) /\ p = Distance(i, mid) /\ d = mid - i
  OBVIOUS
<1>2. c \in Int /\ D \in Nat \ {0} /\ d \in Int /\ p \in Int
  BY <1>1, UpdateTypes, FundingAssumption DEF MarketFundingConfigs
<1>3. x \in Int
  BY <1>1, <1>2
<1>4. band \in Int /\ Rounds(band, x, D)
  BY <1>1, <1>2, <1>3, QuotientBounds DEF Rounds
<1>5. (i = 0 => p = 0) /\ (i # 0 => Rounds(p, d * D, i))
  <2>1. CASE i = 0
    BY <1>1, <2>1 DEF Distance
  <2>2. CASE i # 0
    <3>1. p = Quotient(d * D, i)
      BY <1>1, <2>2 DEF Distance
    <3>2. PICK y : y = d * D
      OBVIOUS
    <3>3. y \in Int
      BY <1>2, <3>2
    <3>4. Rounds(p, y, i)
      BY <2>2, <3>1, <3>2, <3>3, QuotientBounds DEF Rounds
    <3> QED
      BY <2>2, <3>2, <3>4
  <2> QED
    BY <2>1, <2>2
<1>6. Agree(clamp(p, -c, c), i, clamp(mid, i - band, i + band) - i, D)
  BY ONLY i \in Nat, mid \in Int, <1>1, <1>2, <1>3, <1>4, <1>5, ClampsAgree
<1>7. premium(config, i, mid) = clamp(p, -c, c)
  BY <1>1 DEF premium
<1>8. MarkPriceOf(config, i, mid) = clamp(mid, i - band, i + band)
  BY <1>1 DEF MarkPriceOf
<1> QED
  BY <1>1, <1>6, <1>7, <1>8

-----------------------------------------------------------------------------

\* The state of the funding engine has its type.
LEMMA FundingTyped == FundingSpec => []FundingTypeOK
<1>1. FundingInit => FundingTypeOK
  BY FundingAssumption DEF FundingInit, FundingTypeOK, DefaultFunding, MarketFundingConfigs
<1>2. FundingTypeOK /\ [FundingNext]_funding_vars => FundingTypeOK'
  <2> SUFFICES ASSUME FundingTypeOK, [FundingNext]_funding_vars PROVE FundingTypeOK'
    OBVIOUS
  <2>1. ASSUME NEW config \in FundingConfigs, configure_funding(config) PROVE FundingTypeOK'
    BY <2>1, FundingConfigAssumption DEF FundingTypeOK, configure_funding, MarketFundingConfigs
  <2>2. ASSUME NEW i \in IndexPrices, NEW mid \in MidPrices, NEW elapsed \in Elapsed,
               update_market(i, mid, elapsed)
        PROVE  FundingTypeOK'
    <3>1. i \in Nat /\ mid \in Int /\ elapsed \in Nat
      BY FundingAssumption
    <3>2. PICK config : config = funding.config
      OBVIOUS
    <3>3. config \in MarketFundingConfigs
      BY <3>2 DEF FundingTypeOK
    <3>4. PICK mark, rate, fr : /\ mark = MarkPriceOf(config, i, mid)
                                /\ rate = premium(config, i, mid)
                                /\ fr = funding_rate(config, rate)
      OBVIOUS
    <3>5. mark \in Int /\ rate \in Int
      BY <3>1, <3>3, <3>4, UpdateTypes
    <3>6. fr \in Int /\ config.max_rate_basis_points \in Nat
      BY <3>1, <3>3, <3>4, RateBounds
    <3>7. fr * elapsed \in Int /\ config.max_rate_basis_points * elapsed \in Int
      BY <3>1, <3>6
    <3>8. /\ funding' = [funding EXCEPT
                            !.index_price = i, !.mark_price = mark, !.premium_rate = rate,
                            !.funding_accumulator = @ + (fr * elapsed)]
          /\ most' \in {most, most + (config.max_rate_basis_points * elapsed)}
          /\ least' \in {least, least - (config.max_rate_basis_points * elapsed)}
      BY <2>2, <3>2, <3>4 DEF update_market
    <3>9. most' \in Int /\ least' \in Int
      BY <3>7, <3>8 DEF FundingTypeOK
    <3>10. PICK y : y = fr * elapsed
      OBVIOUS
    <3>11. y \in Int
      BY <3>7, <3>10
    <3>12. funding' \in [config : MarketFundingConfigs, mark_price : Int, index_price : Nat,
                         premium_rate : Int, funding_accumulator : Int]
      <4>1. PICK z : z = funding.funding_accumulator + y
        OBVIOUS
      <4>2. z \in Int
        BY <3>11, <4>1 DEF FundingTypeOK
      <4>3. funding \in [config : MarketFundingConfigs, mark_price : Int, index_price : Nat,
                        premium_rate : Int, funding_accumulator : Int]
        BY DEF FundingTypeOK
      <4>4. funding' = [funding EXCEPT !.index_price = i, !.mark_price = mark,
                                       !.premium_rate = rate, !.funding_accumulator = z]
        BY <3>8, <3>10, <4>1
      <4> QED
        BY ONLY <3>1, <3>5, <4>2, <4>3, <4>4
    <3> QED
      BY <3>9, <3>12 DEF FundingTypeOK
  <2>3. CASE UNCHANGED funding_vars
    BY <2>3 DEF FundingTypeOK, funding_vars
  <2> QED
    BY <2>1, <2>2, <2>3 DEF FundingNext
<1> QED
  BY <1>1, <1>2, PTL DEF FundingSpec

\* After every update the mark price and the premium agree, up to one unit of either
\* division: whatever configuration was loaded, negative clamps included, whatever
\* the prices and the denominator.
THEOREM PremiumMatchesMarkHolds == FundingSpec => []PremiumMatchesMark
<1>1. FundingInit => PremiumMatchesMark
  BY FundingAssumption DEF FundingInit, PremiumMatchesMark, Abs, Larger
<1>2. PremiumMatchesMark /\ FundingTypeOK /\ [FundingNext]_funding_vars => PremiumMatchesMark'
  <2> SUFFICES ASSUME PremiumMatchesMark, FundingTypeOK, [FundingNext]_funding_vars
               PROVE  PremiumMatchesMark'
    OBVIOUS
  <2>1. ASSUME NEW config \in FundingConfigs, configure_funding(config)
        PROVE  PremiumMatchesMark'
    BY <2>1 DEF PremiumMatchesMark, configure_funding, FundingTypeOK
  <2>2. ASSUME NEW i \in IndexPrices, NEW mid \in MidPrices, NEW elapsed \in Elapsed,
               update_market(i, mid, elapsed)
        PROVE  PremiumMatchesMark'
    <3>1. i \in Nat /\ mid \in Int
      BY FundingAssumption
    <3>2. PICK config : config = funding.config
      OBVIOUS
    <3>3. config \in MarketFundingConfigs
      BY <3>2 DEF FundingTypeOK
    <3>4. Agree(premium(config, i, mid), i, MarkPriceOf(config, i, mid) - i,
                kBasisPointDenominator)
      BY <3>1, <3>3, UpdateAgrees
    <3>5. /\ funding'.index_price = i
          /\ funding'.mark_price = MarkPriceOf(config, i, mid)
          /\ funding'.premium_rate = premium(config, i, mid)
      BY <2>2, <3>2 DEF update_market, FundingTypeOK
    <3> QED
      BY <3>4, <3>5 DEF PremiumMatchesMark, Agree
  <2>3. CASE UNCHANGED funding_vars
    BY <2>3 DEF PremiumMatchesMark, funding_vars
  <2> QED
    BY <2>1, <2>2, <2>3 DEF FundingNext
<1> QED
  BY <1>1, <1>2, FundingTyped, PTL DEF FundingSpec

\* Over any updates and reconfigurations the accumulator moves by the largest rate
\* allowed at most, and only in the direction of the premium, for every configuration
\* that passes validation.
THEOREM FundingBoundedHolds == FundingSpec => []FundingBounded
<1>1. FundingInit => FundingBounded
  BY DEF FundingInit, FundingBounded
<1>2. FundingBounded /\ FundingTypeOK /\ [FundingNext]_funding_vars => FundingBounded'
  <2> SUFFICES ASSUME FundingBounded, FundingTypeOK, [FundingNext]_funding_vars
               PROVE  FundingBounded'
    OBVIOUS
  <2>1. ASSUME NEW config \in FundingConfigs, configure_funding(config)
        PROVE  FundingBounded'
    BY <2>1 DEF FundingBounded, configure_funding, FundingTypeOK
  <2>2. ASSUME NEW i \in IndexPrices, NEW mid \in MidPrices, NEW elapsed \in Elapsed,
               update_market(i, mid, elapsed)
        PROVE  FundingBounded'
    <3>1. i \in Nat /\ mid \in Int /\ elapsed \in Nat
      BY FundingAssumption
    <3>2. PICK config : config = funding.config
      OBVIOUS
    <3>3. config \in MarketFundingConfigs /\ config.clamp_basis_points \in Int
      BY <3>2 DEF FundingTypeOK, MarketFundingConfigs
    <3>4. PICK rate, R, up, down, acc :
            /\ rate = funding_rate(config, premium(config, i, mid))
            /\ R = config.max_rate_basis_points
            /\ up = (mid > i \/ config.clamp_basis_points < 0)
            /\ down = (mid < i \/ config.clamp_basis_points < 0)
            /\ acc = funding.funding_accumulator
      OBVIOUS
    <3>5. /\ rate \in Int /\ R \in Nat /\ -R <= rate /\ rate <= R
          /\ ~ up => rate <= 0
          /\ ~ down => rate >= 0
      BY <3>1, <3>3, <3>4, RateBounds
    <3>6. /\ rate * elapsed <= R * elapsed /\ -(R * elapsed) <= rate * elapsed
          /\ ~ up => rate * elapsed <= 0
          /\ ~ down => rate * elapsed >= 0
          /\ rate * elapsed \in Int /\ R * elapsed \in Int
      BY <3>1, <3>5
    <3>7. /\ funding'.funding_accumulator = acc + (rate * elapsed)
          /\ most' = IF up THEN most + (R * elapsed) ELSE most
          /\ least' = IF down THEN least - (R * elapsed) ELSE least
      BY <2>2, <3>2, <3>4 DEF update_market, FundingTypeOK
    <3>8. acc \in Int /\ most \in Int /\ least \in Int /\ least <= acc /\ acc <= most
      BY <3>4 DEF FundingTypeOK, FundingBounded
    <3> QED
      BY <3>6, <3>7, <3>8 DEF FundingBounded
  <2>3. CASE UNCHANGED funding_vars
    BY <2>3 DEF FundingBounded, funding_vars
  <2> QED
    BY <2>1, <2>2, <2>3 DEF FundingNext
<1> QED
  BY <1>1, <1>2, FundingTyped, PTL DEF FundingSpec

-----------------------------------------------------------------------------
(* Sums over finite sets                                                   *)

\* A set of numbers that is not empty has a least one.
LEMMA LeastNumber ==
  ASSUME NEW T \in SUBSET Nat, T # {}
  PROVE  \E x \in T : \A y \in T : x <= y
<1> DEFINE R == OpToRel(<, Nat)
<1>1. IsWellFoundedOn(R, Nat)
  BY NatLessThanWellFounded, Zenon
<1>2. \A x, y \in Nat : <<x, y>> \in R <=> x < y
  BY DEF OpToRel
<1> HIDE DEF R
<1>3. PICK x \in T : \A y \in T : ~ (<<y, x>> \in R)
  BY <1>1, WFMin, Zenon
<1>4. ASSUME NEW y \in T PROVE x <= y
  <2>1. x \in Nat /\ y \in Nat /\ ~ (y < x)
    BY <1>2, <1>3
  <2> QED
    BY <2>1
<1> QED
  BY <1>4

\* The subsets of a finite set, and how many elements they have.
LEMMA SubsetSizes ==
  ASSUME NEW S, IsFiniteSet(S)
  PROVE  /\ \A s \in SUBSET S : IsFiniteSet(s) /\ Cardinality(s) \in Nat
         /\ \A s \in SUBSET S : Cardinality(s) <= Cardinality(S)
         /\ \A s \in SUBSET S : \A x \in s :
               /\ s \ {x} \in SUBSET S /\ Cardinality(s) > 0
               /\ Cardinality(s \ {x}) = Cardinality(s) - 1
<1>1. \A s \in SUBSET S : IsFiniteSet(s) /\ Cardinality(s) \in Nat /\ Cardinality(s) <= Cardinality(S)
  BY FS_Subset, FS_CardinalityType
<1>2. ASSUME NEW s \in SUBSET S, NEW x \in s
      PROVE  /\ s \ {x} \in SUBSET S /\ Cardinality(s) > 0
             /\ Cardinality(s \ {x}) = Cardinality(s) - 1
  <2>1. Cardinality(s \ {x}) = Cardinality(s) - 1
    BY <1>1, FS_RemoveElement
  <2>2. s \ {x} \in SUBSET S
    OBVIOUS
  <2>3. Cardinality(s \ {x}) \in Nat /\ Cardinality(s) \in Nat
    BY <1>1, <2>2
  <2> QED
    BY <2>1, <2>2, <2>3
<1> QED
  BY <1>1, <1>2

\* Of the subsets of S with a property (those in Bad), one is smallest.
LEMMA SmallestSubset ==
  ASSUME NEW S, IsFiniteSet(S), NEW Bad \in SUBSET (SUBSET S), Bad # {}
  PROVE  \E s \in Bad : \A t \in SUBSET S : Cardinality(t) < Cardinality(s) => t \notin Bad
<1> DEFINE T == {Cardinality(s) : s \in Bad}
<1>1. T \in SUBSET Nat /\ T # {}
  BY SubsetSizes
<1>2. PICK x \in T : \A y \in T : x <= y
  BY <1>1, LeastNumber
<1>3. PICK s \in Bad : x = Cardinality(s)
  OBVIOUS
<1>4. \A t \in Bad : Cardinality(s) <= Cardinality(t)
  BY <1>2, <1>3
<1>5. \A t \in SUBSET S : Cardinality(t) \in Nat
  BY SubsetSizes
<1> HIDE DEF T
<1>6. ASSUME NEW t \in SUBSET S, Cardinality(t) < Cardinality(s), t \in Bad PROVE FALSE
  <2>1. Cardinality(s) <= Cardinality(t) /\ Cardinality(t) \in Nat /\ Cardinality(s) \in Nat
    BY <1>4, <1>5, <1>6
  <2> QED
    BY <1>6, <2>1
<1> QED
  BY <1>6

\* An element of s, the one that SumFunctionOnSet takes first.
Some(s) == CHOOSE x \in s : TRUE

\* The element that a sum starts with is one of the set.
LEMMA SomeIn ==
  ASSUME NEW s, s # {}
  PROVE  Some(s) \in s
BY DEF Some

\* One step of the recursion of SumFunctionOnSet, and a solution of it.
SumStep(g, f, s) == IF s = {} THEN 0 ELSE f[Some(s)] + g[s \ {Some(s)}]
Solves(g, f, S) == g = [s \in SUBSET S |-> SumStep(g, f, s)]
Sums(f, S) == CHOOSE g : Solves(g, f, S)

\* A sum is the value of that function at the whole set.
LEMMA SumIsSums ==
  ASSUME NEW f, NEW S
  PROVE  SumFunctionOnSet(f, S) = Sums(f, S)[S]
BY Zenon DEF SumFunctionOnSet, FoldFunctionOnSet, MapThenFoldSet, Sums, Solves, SumStep, Some

\* The recursion has a solution: the one for subsets of n elements at most, for each n.
LEMMA SumsExist ==
  ASSUME NEW f, NEW S, IsFiniteSet(S)
  PROVE  \E g : Solves(g, f, S)
<1> DEFINE Upto(g, n) == /\ g = [s \in SUBSET S |-> g[s]]
                         /\ \A s \in SUBSET S : Cardinality(s) <= n => g[s] = SumStep(g, f, s)
           T == {n \in Nat : ~ \E g : Upto(g, n)}
<1>1. T = {}
  <2> SUFFICES ASSUME T # {} PROVE FALSE
    OBVIOUS
  <2>1. T \in SUBSET Nat
    OBVIOUS
  <2>2. PICK n \in T : \A y \in T : n <= y
    BY <2>1, LeastNumber
  <2>3. n \in Nat /\ ~ \E g : Upto(g, n)
    OBVIOUS
  <2>4. CASE n = 0
    <3> DEFINE h == [s \in SUBSET S |-> 0]
    <3>1. \A s \in SUBSET S : Cardinality(s) <= 0 => s = {}
      <4> SUFFICES ASSUME NEW s \in SUBSET S, Cardinality(s) <= 0, s # {} PROVE FALSE
        OBVIOUS
      <4>1. PICK x \in s : TRUE
        OBVIOUS
      <4>2. Cardinality(s) > 0 /\ Cardinality(s) \in Nat
        BY <4>1, SubsetSizes
      <4> QED
        BY <4>2
    <3>2. \A s \in SUBSET S : Cardinality(s) <= 0 => h[s] = SumStep(h, f, s)
      BY <3>1 DEF SumStep
    <3>3. h = [s \in SUBSET S |-> h[s]]
      OBVIOUS
    <3>4. Upto(h, 0)
      BY <3>2, <3>3
    <3> QED
      BY <2>3, <2>4, <3>4
  <2>5. CASE n # 0
    <3>1. n - 1 \in Nat /\ ~ (n - 1 \in T)
      <4> HIDE DEF T
      <4> QED
        BY <2>2, <2>3, <2>5
    <3>2. PICK g : Upto(g, n - 1)
      <4> HIDE DEF Upto
      <4> QED
        BY <3>1
    <3> DEFINE h == [s \in SUBSET S |-> IF Cardinality(s) <= n - 1 THEN g[s] ELSE SumStep(g, f, s)]
    <3>3. \A s \in SUBSET S : Cardinality(s) <= n - 1 => h[s] = g[s]
      OBVIOUS
    <3>4. ASSUME NEW s \in SUBSET S, Cardinality(s) <= n PROVE h[s] = SumStep(h, f, s)
      <4>1. h[s] = SumStep(g, f, s)
        BY <3>2
      <4>2. CASE s = {}
        BY <4>1, <4>2 DEF SumStep
      <4>3. CASE s # {}
        <5>1. Some(s) \in s
          BY <4>3, SomeIn
        <5>2. PICK r : r = s \ {Some(s)}
          OBVIOUS
        <5>3. /\ r \in SUBSET S /\ Cardinality(r) = Cardinality(s) - 1
              /\ Cardinality(s) \in Nat
          BY <5>1, <5>2, SubsetSizes
        <5>4. Cardinality(r) <= n - 1
          BY <2>3, <3>4, <5>3
        <5>5. h[r] = g[r]
          BY <3>3, <5>3, <5>4
        <5> HIDE DEF h
        <5> QED
          BY <4>1, <4>3, <5>2, <5>5 DEF SumStep
      <4> QED
        BY <4>2, <4>3
    <3>5. h = [s \in SUBSET S |-> h[s]]
      OBVIOUS
    <3>6. Upto(h, n)
      <4> HIDE DEF h
      <4> QED
        BY <3>4, <3>5
    <3> QED
      BY <2>3, <3>6
  <2> QED
    BY <2>4, <2>5
<1>2. Cardinality(S) \in Nat /\ \A s \in SUBSET S : Cardinality(s) <= Cardinality(S)
  BY SubsetSizes, FS_CardinalityType
<1>3. PICK g : Upto(g, Cardinality(S))
  <2> HIDE DEF Upto
  <2> QED
    BY <1>1, <1>2
<1>4. \A s \in SUBSET S : g[s] = SumStep(g, f, s)
  BY <1>2, <1>3
<1>5. g = [s \in SUBSET S |-> SumStep(g, f, s)]
  BY <1>3, <1>4
<1> QED
  BY <1>5 DEF Solves

\* It has no other, and only depends on what f says of the elements.
LEMMA SumsAgree ==
  ASSUME NEW f, NEW g, NEW S, NEW R, IsFiniteSet(S), R \subseteq S, \A x \in R : f[x] = g[x]
  PROVE  \A s \in SUBSET R : Sums(f, S)[s] = Sums(g, R)[s]
<1>1. IsFiniteSet(R)
  BY FS_Subset
<1>2. PICK a, b : a = Sums(f, S) /\ b = Sums(g, R)
  OBVIOUS
<1>3. Solves(a, f, S) /\ Solves(b, g, R)
  BY <1>1, <1>2, SumsExist DEF Sums
<1>4. /\ \A s \in SUBSET S : a[s] = SumStep(a, f, s)
      /\ \A s \in SUBSET R : b[s] = SumStep(b, g, s)
  BY <1>3 DEF Solves
<1> DEFINE Bad == {s \in SUBSET R : a[s] # b[s]}
<1>5. Bad = {}
  <2> SUFFICES ASSUME Bad # {} PROVE FALSE
    OBVIOUS
  <2>a. Bad \in SUBSET (SUBSET R)
    OBVIOUS
  <2>1. PICK s \in Bad : \A t \in SUBSET R : Cardinality(t) < Cardinality(s) => t \notin Bad
    <3> HIDE DEF Bad
    <3> QED
      BY <1>1, <2>a, SmallestSubset
  <2>2. s \in SUBSET R /\ s \in SUBSET S /\ a[s] # b[s]
    OBVIOUS
  <2>3. a[s] = SumStep(a, f, s) /\ b[s] = SumStep(b, g, s)
    BY <1>4, <2>2
  <2>4. s # {}
    BY <2>2, <2>3 DEF SumStep
  <2>5. PICK x, r : x = Some(s) /\ r = s \ {x}
    OBVIOUS
  <2>6. x \in s /\ x \in R /\ r \in SUBSET R
    BY <2>2, <2>4, <2>5, SomeIn
  <2>7. Cardinality(r) = Cardinality(s) - 1 /\ Cardinality(s) \in Nat
    BY <1>1, <2>2, <2>5, <2>6, SubsetSizes
  <2>8. Cardinality(r) < Cardinality(s)
    BY <2>7
  <2>9. r \notin Bad
    BY <2>1, <2>6, <2>8
  <2>10. a[r] = b[r] /\ f[x] = g[x]
    BY <2>6, <2>9
  <2> QED
    BY <2>2, <2>3, <2>4, <2>5, <2>10 DEF SumStep
<1> QED
  BY <1>2, <1>5

\* A sum depends on the elements that are added only.
LEMMA SumAgrees ==
  ASSUME NEW f, NEW g, NEW S, IsFiniteSet(S), \A x \in S : f[x] = g[x]
  PROVE  SumFunctionOnSet(f, S) = SumFunctionOnSet(g, S)
BY SumsAgree, SumIsSums

\* An empty sum is 0.
LEMMA SumOfNone ==
  ASSUME NEW f
  PROVE  SumFunctionOnSet(f, {}) = 0
<1>1. PICK a : a = Sums(f, {})
  OBVIOUS
<1>2. Solves(a, f, {})
  BY <1>1, SumsExist, FS_EmptySet DEF Sums
<1>3. a[{}] = SumStep(a, f, {})
  BY <1>2 DEF Solves
<1> QED
  BY <1>1, <1>3, SumIsSums DEF SumStep

\* A sum is its first element and the sum of the others.
LEMMA SumFirst ==
  ASSUME NEW f, NEW S, IsFiniteSet(S), S # {}
  PROVE  SumFunctionOnSet(f, S) = f[Some(S)] + SumFunctionOnSet(f, S \ {Some(S)})
<1>1. PICK a, r : a = Sums(f, S) /\ r = S \ {Some(S)}
  OBVIOUS
<1>2. Solves(a, f, S)
  BY <1>1, SumsExist DEF Sums
<1>3. a[S] = SumStep(a, f, S)
  BY <1>2 DEF Solves
<1>4. r \subseteq S
  BY <1>1
<1>5. a[r] = Sums(f, r)[r]
  BY <1>1, <1>4, SumsAgree
<1> QED
  BY <1>1, <1>3, <1>5, SumIsSums DEF SumStep

\* Sums of integers are integers, and may start with any element.
Splits(f, s) ==
  /\ SumFunctionOnSet(f, s) \in Int
  /\ \A x \in s : SumFunctionOnSet(f, s) = f[x] + SumFunctionOnSet(f, s \ {x})

\* By the smallest subset for which it fails: there is none.
LEMMA SumSplits ==
  ASSUME NEW f, NEW S, IsFiniteSet(S), \A x \in S : f[x] \in Int
  PROVE  Splits(f, S)
<1> DEFINE Bad == {s \in SUBSET S : ~ Splits(f, s)}
<1>1. Bad = {}
  <2> SUFFICES ASSUME Bad # {} PROVE FALSE
    OBVIOUS
  <2>1. PICK s \in Bad : \A t \in SUBSET S : Cardinality(t) < Cardinality(s) => t \notin Bad
    BY SmallestSubset
  <2>2. s \in SUBSET S /\ ~ Splits(f, s)
    OBVIOUS
  <2>3. IsFiniteSet(s) /\ Cardinality(s) \in Nat
    BY <2>2, SubsetSizes
  <2>4. s # {}
    <3>1. Splits(f, {})
      BY SumOfNone DEF Splits
    <3> QED
      BY <2>2, <3>1
  <2>5. \A x \in s : s \ {x} \in SUBSET S /\ Splits(f, s \ {x}) /\ IsFiniteSet(s \ {x})
    <3> SUFFICES ASSUME NEW x \in s
                 PROVE  s \ {x} \in SUBSET S /\ Splits(f, s \ {x}) /\ IsFiniteSet(s \ {x})
      OBVIOUS
    <3>1. s \ {x} \in SUBSET S /\ Cardinality(s \ {x}) = Cardinality(s) - 1
      BY <2>2, SubsetSizes
    <3>2. Cardinality(s \ {x}) < Cardinality(s)
      BY <2>3, <3>1
    <3>3. s \ {x} \notin Bad
      BY <2>1, <3>1, <3>2
    <3> QED
      BY <3>1, <3>3, SubsetSizes
  <2>6. PICK c : c = Some(s)
    OBVIOUS
  <2>7. c \in s
    BY <2>4, <2>6, SomeIn
  <2>8. SumFunctionOnSet(f, s) = f[c] + SumFunctionOnSet(f, s \ {c})
    BY <2>3, <2>4, <2>6, SumFirst
  <2>9. f[c] \in Int /\ SumFunctionOnSet(f, s \ {c}) \in Int
    BY <2>2, <2>5, <2>7 DEF Splits
  <2>10. ASSUME NEW x \in s
         PROVE  SumFunctionOnSet(f, s) = f[x] + SumFunctionOnSet(f, s \ {x})
    <3>1. CASE x = c
      BY <2>8, <3>1
    <3>2. CASE x # c
      <4>1. PICK d : d = SumFunctionOnSet(f, (s \ {c}) \ {x})
        OBVIOUS
      <4>2. (s \ {x}) \ {c} = (s \ {c}) \ {x} /\ x \in s \ {c} /\ c \in s \ {x}
        BY <2>7, <3>2
      <4>3. SumFunctionOnSet(f, s \ {c}) = f[x] + d
        BY <2>5, <2>7, <4>1, <4>2 DEF Splits
      <4>4. SumFunctionOnSet(f, s \ {x}) = f[c] + d
        BY <2>5, <4>1, <4>2 DEF Splits
      <4>5. d \in Int /\ f[x] \in Int
        <5>1. Cardinality((s \ {c}) \ {x}) < Cardinality(s) /\ (s \ {c}) \ {x} \in SUBSET S
          <6>1. /\ s \ {c} \in SUBSET S /\ Cardinality(s \ {c}) = Cardinality(s) - 1
            BY <2>2, <2>7, SubsetSizes
          <6>2. PICK r : r = s \ {c}
            OBVIOUS
          <6>3. r \in SUBSET S /\ x \in r
            BY <4>2, <6>1, <6>2
          <6>4. r \ {x} \in SUBSET S /\ Cardinality(r \ {x}) = Cardinality(r) - 1
            BY <6>3, SubsetSizes
          <6> QED
            BY <2>3, <6>1, <6>2, <6>4
        <5>2. (s \ {c}) \ {x} \notin Bad
          BY <2>1, <5>1
        <5> QED
          BY <2>2, <4>1, <5>1, <5>2 DEF Splits
      <4> QED
        BY <2>8, <2>9, <4>3, <4>4, <4>5
    <3> QED
      BY <3>1, <3>2
  <2>11. SumFunctionOnSet(f, s) \in Int
    BY <2>8, <2>9
  <2> QED
    BY <2>2, <2>10, <2>11 DEF Splits
<1>2. S \in SUBSET S
  OBVIOUS
<1> QED
  BY <1>1, <1>2

\* A sum after one element came, went or changed.
LEMMA SumOneMore ==
  ASSUME NEW f, NEW g, NEW S, IsFiniteSet(S), NEW x, x \notin S,
         \A y \in S : f[y] = g[y], \A y \in S \cup {x} : g[y] \in Int
  PROVE  /\ SumFunctionOnSet(g, S \cup {x}) = SumFunctionOnSet(f, S) + g[x]
         /\ SumFunctionOnSet(f, S) \in Int /\ g[x] \in Int
<1>1. PICK T : T = S \cup {x}
  OBVIOUS
<1>2. IsFiniteSet(T) /\ x \in T /\ T \ {x} = S /\ \A y \in T : g[y] \in Int
  BY <1>1, FS_AddElement
<1>3. Splits(g, T)
  BY <1>2, SumSplits
<1>4. SumFunctionOnSet(g, T) = g[x] + SumFunctionOnSet(g, S)
  BY <1>2, <1>3 DEF Splits
<1>5. SumFunctionOnSet(f, S) = SumFunctionOnSet(g, S)
  BY SumAgrees
<1>6. Splits(g, S)
  BY <1>1, <1>2, SumSplits
<1>7. SumFunctionOnSet(g, S) \in Int /\ g[x] \in Int
  BY <1>2, <1>6 DEF Splits
<1> QED
  BY <1>1, <1>4, <1>5, <1>7

\* Without one element, a sum is less by its value.
LEMMA SumOneLess ==
  ASSUME NEW f, NEW g, NEW S, IsFiniteSet(S), NEW x \in S,
         \A y \in S \ {x} : f[y] = g[y], \A y \in S : f[y] \in Int
  PROVE  /\ SumFunctionOnSet(g, S \ {x}) = SumFunctionOnSet(f, S) - f[x]
         /\ SumFunctionOnSet(f, S) \in Int /\ f[x] \in Int
<1>1. PICK R : R = S \ {x}
  OBVIOUS
<1>2. /\ IsFiniteSet(R) /\ x \notin R /\ R \cup {x} = S
      /\ \A y \in R : g[y] = f[y]
  BY <1>1, FS_Subset
<1>3. /\ SumFunctionOnSet(f, S) = SumFunctionOnSet(g, R) + f[x]
      /\ SumFunctionOnSet(g, R) \in Int /\ f[x] \in Int
  BY <1>2, SumOneMore
<1> QED
  BY <1>1, <1>3

\* One element is added, or has another value.
LEMMA SumUpdate ==
  ASSUME NEW f, NEW g, NEW S, NEW x, NEW a, IsFiniteSet(S),
         x \in S => a = f[x], x \notin S => a = 0,
         \A y \in S : f[y] \in Int, \A y \in S \ {x} : f[y] = g[y], g[x] \in Int
  PROVE  /\ SumFunctionOnSet(f, S) \in Int
         /\ SumFunctionOnSet(g, S \cup {x}) = SumFunctionOnSet(f, S) + (g[x] - a)
<1>1. CASE x \in S
  <2>1. PICK R : R = S \ {x}
    OBVIOUS
  <2>2. /\ SumFunctionOnSet(g, R) = SumFunctionOnSet(f, S) - f[x]
        /\ SumFunctionOnSet(f, S) \in Int /\ f[x] \in Int
    BY ONLY IsFiniteSet(S), \A y \in S : f[y] \in Int, \A y \in S \ {x} : f[y] = g[y],
            <1>1, <2>1, SumOneLess
  <2>3. IsFiniteSet(R) /\ x \notin R /\ R \cup {x} = S \cup {x}
    BY <1>1, <2>1, FS_Subset
  <2>4. \A y \in R \cup {x} : g[y] \in Int
    BY <2>1
  <2>5. SumFunctionOnSet(g, R \cup {x}) = SumFunctionOnSet(g, R) + g[x]
    BY <2>3, <2>4, SumOneMore
  <2>6. PICK b, c, d : /\ b = SumFunctionOnSet(f, S) /\ c = SumFunctionOnSet(g, R)
                       /\ d = g[x]
    OBVIOUS
  <2>7. a \in Int /\ b \in Int /\ d \in Int /\ c = b - a
    BY <1>1, <2>2, <2>6
  <2>8. c + d = b + (d - a)
    BY <2>7
  <2> QED
    BY ONLY <2>3, <2>5, <2>6, <2>7, <2>8
<1>2. CASE x \notin S
  <2>1. \A y \in S : f[y] = g[y]
    BY <1>2
  <2>2. \A y \in S \cup {x} : g[y] \in Int
    BY <2>1
  <2>3. /\ SumFunctionOnSet(g, S \cup {x}) = SumFunctionOnSet(f, S) + g[x]
        /\ SumFunctionOnSet(f, S) \in Int /\ g[x] \in Int
    BY ONLY IsFiniteSet(S), <1>2, <2>1, <2>2, SumOneMore
  <2> QED
    BY <1>2, <2>3
<1> QED
  BY <1>1, <1>2

\* Terms that are no larger have a sum that is no larger.
LEMMA SumMonotone ==
  ASSUME NEW f, NEW g, NEW S, IsFiniteSet(S),
         \A x \in S : f[x] \in Int /\ g[x] \in Int /\ f[x] <= g[x]
  PROVE  SumFunctionOnSet(f, S) <= SumFunctionOnSet(g, S)
<1> DEFINE Bad == {s \in SUBSET S : ~ (SumFunctionOnSet(f, s) <= SumFunctionOnSet(g, s))}
<1>1. Bad = {}
  <2> SUFFICES ASSUME Bad # {} PROVE FALSE
    OBVIOUS
  <2>1. PICK s \in Bad : \A t \in SUBSET S : Cardinality(t) < Cardinality(s) => t \notin Bad
    BY SmallestSubset
  <2>2. s \in SUBSET S /\ ~ (SumFunctionOnSet(f, s) <= SumFunctionOnSet(g, s))
    OBVIOUS
  <2>3. IsFiniteSet(s) /\ Cardinality(s) \in Nat
    BY <2>2, SubsetSizes
  <2>4. s # {}
    BY <2>2, SumOfNone
  <2>5. PICK x \in s : TRUE
    BY <2>4
  <2>6. PICK r : r = s \ {x}
    OBVIOUS
  <2>7. r \in SUBSET S /\ Cardinality(r) = Cardinality(s) - 1
    BY <2>2, <2>6, SubsetSizes
  <2>8. Cardinality(r) < Cardinality(s)
    BY <2>3, <2>7
  <2>9. r \notin Bad
    BY <2>1, <2>7, <2>8
  <2>10. SumFunctionOnSet(f, r) <= SumFunctionOnSet(g, r)
    BY <2>7, <2>9
  <2>11. Splits(f, s) /\ Splits(g, s)
    BY <2>2, <2>3, SumSplits
  <2>12. IsFiniteSet(r)
    BY <2>7, SubsetSizes
  <2>13. Splits(f, r) /\ Splits(g, r)
    BY <2>7, <2>12, SumSplits
  <2>14. /\ SumFunctionOnSet(f, s) = f[x] + SumFunctionOnSet(f, r)
         /\ SumFunctionOnSet(g, s) = g[x] + SumFunctionOnSet(g, r)
    BY <2>5, <2>6, <2>11 DEF Splits
  <2>15. SumFunctionOnSet(f, r) \in Int /\ SumFunctionOnSet(g, r) \in Int
    BY <2>13 DEF Splits
  <2>16. f[x] \in Int /\ g[x] \in Int /\ f[x] <= g[x]
    BY <2>2, <2>5
  <2> QED
    BY <2>2, <2>10, <2>14, <2>15, <2>16
<1>2. S \in SUBSET S
  OBVIOUS
<1> QED
  BY <1>1, <1>2

-----------------------------------------------------------------------------
(* RiskEngine: types                                                       *)

Accounts == [collateral : Int, realized_pnl : Int,
             positions : [Markets -> Positions \cup {NoPosition}]]

\* The records that orders may be, also after a fill of a part.
OrderRecords == [market : Markets, side : Sides, quantity : Int, price : Prices,
                 reduce_only : BOOLEAN]

\* What a fill makes of a position, and what it adds to the collateral.
Filled(pos, signed_qty, price) ==
  IF Adds(pos.quantity, signed_qty) THEN Added(pos, signed_qty, price)
                                    ELSE Reduced(pos, signed_qty, price)

Gain(pos, signed_qty, price, contract_size) ==
  IF Adds(pos.quantity, signed_qty) THEN 0
                                    ELSE Realized(pos, signed_qty, price, contract_size)

\* A position that is looked up is one, also where the account has none.
LEMMA PositionTypes ==
  ASSUME NEW acc \in Accounts, NEW m \in Markets
  PROVE  /\ PositionIn(acc, m) \in Positions
         /\ PositionIn(acc, m).quantity \in Int /\ PositionIn(acc, m).entry_price \in Int
         /\ acc.positions[m] # NoPosition => PositionIn(acc, m) = acc.positions[m]
<1>1. acc.positions[m] \in Positions \cup {NoPosition}
  BY DEF Accounts
<1>2. PositionIn(acc, m) \in Positions
  BY <1>1 DEF PositionIn, Positions
<1> QED
  BY <1>2 DEF PositionIn, Positions

\* Absolute values.
LEMMA AbsType ==
  ASSUME NEW x \in Int
  PROVE  Abs(x) \in Nat /\ (x >= 0 => Abs(x) = x) /\ (x <= 0 => Abs(x) = -x)
BY DEF Abs

\* The positions that a fill leaves.
LEMMA AddedTypes ==
  ASSUME NEW pos \in Positions, NEW s \in Int, NEW price \in Int
  PROVE  /\ Added(pos, s, price) \in Positions
         /\ Added(pos, s, price).quantity = pos.quantity + s
         /\ pos.quantity + s = 0 => Added(pos, s, price).entry_price = 0
<1>1. pos.quantity \in Int /\ pos.entry_price \in Int
  BY DEF Positions
<1>2. PICK q, e, total, N : /\ q = pos.quantity /\ e = pos.entry_price
                            /\ total = Abs(q) + Abs(s)
                            /\ N = (e * Abs(q)) + (price * Abs(s))
  OBVIOUS
<1>3. Abs(q) \in Nat /\ Abs(s) \in Nat /\ total \in Nat /\ (q + s # 0 => total # 0)
  BY <1>1, <1>2, AbsType DEF Abs
<1>4. e * Abs(q) \in Int /\ price * Abs(s) \in Int
  BY <1>1, <1>2, <1>3
<1>5. N \in Int
  BY <1>2, <1>4
<1>6. q + s # 0 => Quotient(N, total) \in Int
  BY <1>3, <1>5, QuotientBounds
<1>7. Added(pos, s, price) = [quantity |-> q + s,
                              entry_price |-> IF q + s = 0 THEN 0 ELSE Quotient(N, total)]
  BY <1>2 DEF Added
<1> QED
  BY <1>1, <1>2, <1>6, <1>7 DEF Positions

\* A position that is closed has no entry price.
LEMMA ReducedTypes ==
  ASSUME NEW pos \in Positions, NEW s \in Int, NEW price \in Int, NEW size \in Int
  PROVE  /\ Reduced(pos, s, price) \in Positions
         /\ Reduced(pos, s, price).quantity = pos.quantity + s
         /\ pos.quantity + s = 0 => Reduced(pos, s, price).entry_price = 0
         /\ Realized(pos, s, price, size) \in Int
<1>1. pos.quantity \in Int /\ pos.entry_price \in Int
  BY DEF Positions
<1>2. PICK closing, per : /\ closing = Smaller(Abs(pos.quantity), Abs(s))
                          /\ per = IF pos.quantity > 0 THEN price - pos.entry_price
                                                       ELSE pos.entry_price - price
  OBVIOUS
<1>3. closing \in Int /\ per \in Int
  BY <1>1, <1>2 DEF Smaller, Abs
<1>4. Realized(pos, s, price, size) = closing * per * size
  BY <1>2 DEF Realized
<1>5. closing * per * size \in Int
  BY <1>3
<1>6. Realized(pos, s, price, size) \in Int
  BY <1>4, <1>5
<1> QED
  BY <1>1, <1>6 DEF Reduced, Positions

\* Whichever case a fill is.
LEMMA FilledTypes ==
  ASSUME NEW pos \in Positions, NEW s \in Int, NEW price \in Int, NEW size \in Int
  PROVE  /\ Filled(pos, s, price) \in Positions
         /\ Filled(pos, s, price).quantity = pos.quantity + s
         /\ pos.quantity + s = 0 => Filled(pos, s, price).entry_price = 0
         /\ Gain(pos, s, price, size) \in Int
<1>1. CASE Adds(pos.quantity, s)
  <2>1. Filled(pos, s, price) = Added(pos, s, price) /\ Gain(pos, s, price, size) = 0
    BY <1>1 DEF Filled, Gain
  <2> QED
    BY <2>1, AddedTypes
<1>2. CASE ~ Adds(pos.quantity, s)
  <2>1. /\ Filled(pos, s, price) = Reduced(pos, s, price)
        /\ Gain(pos, s, price, size) = Realized(pos, s, price, size)
    BY <1>2 DEF Filled, Gain
  <2> QED
    BY <2>1, ReducedTypes
<1> QED
  BY <1>1, <1>2

\* A sell has a negative quantity.
LEMMA SignedType ==
  ASSUME NEW side \in Sides, NEW quantity \in Int
  PROVE  /\ Signed(side, quantity) \in Int
         /\ quantity > 0 => Signed(side, quantity) # 0 /\ Abs(Signed(side, quantity)) = quantity
BY DEF Signed, Sides, Abs

\* A market that is looked up has a state, also where it has none yet.
LEMMA MarketStateTypes ==
  ASSUME markets \in [Markets -> MarketStates \cup {NoMarket}], NEW m \in Markets
  PROVE  /\ ensure_market(m) \in MarketStates
         /\ ensure_market(m).mark_price \in Int
         /\ ensure_market(m).config \in Configs
         /\ ensure_market(m).config.contract_size \in Nat \ {0}
         /\ markets[m] # NoMarket => ensure_market(m) = markets[m]
<1>1. DefaultMarket \in MarketStates
  BY DEF DefaultMarket, MarketStates, Configs
<1>2. ensure_market(m) \in MarketStates
  BY <1>1 DEF ensure_market
<1>3. ensure_market(m).config \in Configs /\ ensure_market(m).mark_price \in Int
  BY <1>2 DEF MarketStates
<1>4. ensure_market(m).config.contract_size \in Nat \ {0}
  BY <1>3 DEF Configs
<1> QED
  BY <1>2, <1>3, <1>4 DEF ensure_market

\* apply_fill changes the position of one market, and the collateral.
FillOf(acc, new, m, pos, gain) ==
  /\ new \in Accounts
  /\ PositionIn(new, m) = pos /\ new.positions[m] = pos
  /\ \A n \in Markets \ {m} : /\ new.positions[n] = acc.positions[n]
                              /\ PositionIn(new, n) = PositionIn(acc, n)
  /\ new.collateral = acc.collateral + gain
  /\ new.realized_pnl = acc.realized_pnl + gain

\* apply_fill changes the position of its market and the collateral.
LEMMA FillChanges ==
  ASSUME markets \in [Markets -> MarketStates \cup {NoMarket}],
         NEW acc \in Accounts, NEW m \in Markets, NEW side \in Sides,
         NEW quantity \in Int, NEW price \in Int
  PROVE  LET pos == PositionIn(acc, m)
             s == Signed(side, quantity)
         IN  FillOf(acc, apply_fill(acc, m, side, quantity, price), m, Filled(pos, s, price),
                    Gain(pos, s, price, ensure_market(m).config.contract_size))
<1>1. PICK pos, s, size : /\ pos = PositionIn(acc, m) /\ s = Signed(side, quantity)
                          /\ size = ensure_market(m).config.contract_size
  OBVIOUS
<1>2. pos \in Positions /\ s \in Int /\ size \in Int
  BY <1>1, PositionTypes, SignedType, MarketStateTypes
<1>3. PICK new, gain : new = Filled(pos, s, price) /\ gain = Gain(pos, s, price, size)
  OBVIOUS
<1>4. new \in Positions /\ gain \in Int
  BY <1>2, <1>3, FilledTypes
<1>5. PICK a : a = apply_fill(acc, m, side, quantity, price)
  OBVIOUS
<1>6. a = IF Adds(pos.quantity, s)
          THEN [acc EXCEPT !.positions[m] = new]
          ELSE [acc EXCEPT !.positions[m] = new, !.realized_pnl = @ + gain,
                           !.collateral = @ + gain]
  BY <1>1, <1>3, <1>5 DEF apply_fill, Filled, Gain
<1>7. Adds(pos.quantity, s) => gain = 0
  BY <1>3 DEF Gain
<1>8. /\ a.positions = [acc.positions EXCEPT ![m] = new]
      /\ a.collateral = acc.collateral + gain
      /\ a.realized_pnl = acc.realized_pnl + gain
      /\ a \in Accounts
  <2>1. acc.collateral \in Int /\ acc.realized_pnl \in Int
    BY DEF Accounts
  <2>2. CASE Adds(pos.quantity, s)
    BY <1>4, <1>6, <1>7, <2>1, <2>2 DEF Accounts
  <2>3. CASE ~ Adds(pos.quantity, s)
    <3>1. PICK c, r : c = acc.collateral + gain /\ r = acc.realized_pnl + gain
      OBVIOUS
    <3>2. c \in Int /\ r \in Int
      BY <1>4, <2>1, <3>1
    <3>3. a = [acc EXCEPT !.positions[m] = new, !.realized_pnl = r, !.collateral = c]
      BY <1>6, <2>3, <3>1
    <3>4. a.positions = [acc.positions EXCEPT ![m] = new] /\ a.collateral = c /\ a.realized_pnl = r
      BY <3>3 DEF Accounts
    <3>5. a \in Accounts
      BY <1>4, <3>2, <3>3 DEF Accounts
    <3> QED
      BY <3>1, <3>4, <3>5
  <2> QED
    BY <2>2, <2>3
<1>9. a.positions[m] = new /\ \A n \in Markets \ {m} : a.positions[n] = acc.positions[n]
  BY <1>8 DEF Accounts
<1>10. new # NoPosition
  BY <1>4, NullAssumption
<1>11. /\ PositionIn(a, m) = new
       /\ \A n \in Markets \ {m} : PositionIn(a, n) = PositionIn(acc, n)
  BY <1>9, <1>10 DEF PositionIn
<1>12. FillOf(acc, a, m, new, gain)
  BY <1>8, <1>9, <1>11 DEF FillOf
<1> QED
  BY <1>1, <1>3, <1>5, <1>12

\* The fills that the matcher makes have these types.
LEMMA FillTypes ==
  ASSUME TypeOK, NEW o \in orders, NEW quantity \in Quantities, NEW price \in Prices
  PROVE  /\ o.market \in Markets /\ o.side \in Sides /\ o.quantity \in Int
         /\ quantity \in Int /\ price \in Int /\ o \in OrderRecords
         /\ account \in Accounts /\ markets \in [Markets -> MarketStates \cup {NoMarket}]
<1>1. o \in OrderRecords
  BY DEF TypeOK, OrderRecords
<1>2. o.market \in Markets /\ o.side \in Sides /\ o.quantity \in Int
  BY <1>1 DEF OrderRecords
<1> QED
  BY <1>1, <1>2, NumbersAssumption DEF TypeOK, Accounts

\* What is left of the order after a fill is a smaller one.
LEMMA LeftTypes ==
  ASSUME NEW o \in OrderRecords, NEW quantity \in Int
  PROVE  Left(o, quantity) \subseteq OrderRecords
<1>1. o.quantity - quantity \in Int
  BY DEF OrderRecords
<1> QED
  BY <1>1 DEF Left, OrderRecords

\* The market of a fill: the product and the bound are numbers.
LEMMA FillNumbers ==
  ASSUME NEW q \in Int, NEW s \in Int, NEW price \in Int, NEW size \in Nat, NEW quantity \in Nat \ {0}
  PROVE  /\ s * price * size \in Int
         /\ size * (Abs(q) + quantity - 1) \in Nat
<1>1. s * price * size \in Int
  OBVIOUS
<1>2. PICK n : n = Abs(q) + quantity - 1
  OBVIOUS
<1>3. n \in Nat
  BY <1>2, AbsType
<1>4. size * n \in Nat
  BY <1>3
<1> QED
  BY <1>1, <1>2, <1>4

\* The daemon configures its markets at start.
LEMMA RiskInit == Init => TypeOK
<1> SUFFICES ASSUME Init PROVE TypeOK
  OBVIOUS
<1>1. PICK config \in [Configured -> UNION {Config[m] : m \in Configured}],
           mark_price \in [Configured -> Prices \cup {0}] :
        /\ \A m \in Configured : config[m] \in Config[m]
        /\ markets = [m \in Markets |->
                        IF m \in Configured
                        THEN [config |-> config[m], mark_price |-> mark_price[m]]
                        ELSE NoMarket]
  BY DEF Init
<1>2. \A m \in Configured : config[m] \in Configs /\ mark_price[m] \in Int
  <2> SUFFICES ASSUME NEW m \in Configured
               PROVE  config[m] \in Configs /\ mark_price[m] \in Int
    OBVIOUS
  <2>1. m \in Markets /\ config[m] \in Config[m]
    BY <1>1, ConfigAssumption
  <2>2. mark_price[m] \in Prices \cup {0}
    OBVIOUS
  <2>3. Config[m] \subseteq Configs
    BY <2>1, ConfigAssumption
  <2>4. config[m] \in Configs
    BY <2>1, <2>3
  <2>5. mark_price[m] \in Int
    <3>1. Prices \cup {0} \subseteq Int
      BY NumbersAssumption
    <3> QED
      BY ONLY <2>2, <3>1
  <2> QED
    BY <2>4, <2>5
<1>3. \A m \in Configured :
         [config |-> config[m], mark_price |-> mark_price[m]] \in MarketStates
  BY <1>2 DEF MarketStates
<1>4. markets \in [Markets -> MarketStates \cup {NoMarket}]
  BY <1>1, <1>3
<1>5. account \in Accounts /\ \A m \in Markets : account.positions[m] = NoPosition
  BY DEF Init, Accounts
<1>6. \A m \in Markets : PositionIn(account, m).entry_price = 0
  BY <1>5 DEF PositionIn
<1>7. resized \in BOOLEAN
  BY Zenon DEF Init
<1>8. orders = {} /\ deposits = 0 /\ rounding = 0
  BY Zenon DEF Init
<1>9. cash \in [Markets -> Int] /\ net \in [Markets -> Int]
  BY DEF Init
<1> QED
  BY <1>4, <1>5, <1>6, <1>7, <1>8, <1>9 DEF TypeOK, Accounts

\* The state of the risk engine has its type, a flat position has no entry price, and
\* the bound on what was rounded away is no negative number, for any markets, prices,
\* quantities and configurations that pass validation.
THEOREM RiskTypeOK == Spec => []TypeOK
<1>1. Init => TypeOK
  BY RiskInit
<1>2. TypeOK /\ [Next]_vars => TypeOK'
  <2> SUFFICES ASSUME TypeOK, [Next]_vars PROVE TypeOK'
    OBVIOUS
  <2>t. markets \in [Markets -> MarketStates \cup {NoMarket}] /\ account \in Accounts
    BY DEF TypeOK, Accounts
  <2>1. ASSUME NEW m \in Markets, NEW config \in Config[m], configure_market(m, config)
        PROVE  TypeOK'
    <3>1. PICK new : new = [ensure_market(m) EXCEPT !.config = config]
      OBVIOUS
    <3>2. new \in MarketStates
      <4>1. ensure_market(m) \in MarketStates /\ config \in Configs
        BY <2>t, MarketStateTypes, ConfigAssumption
      <4> QED
        BY <3>1, <4>1 DEF MarketStates
    <3>3. markets' \in [Markets -> MarketStates \cup {NoMarket}]
      BY <2>1, <2>t, <3>1, <3>2 DEF configure_market
    <3>4. resized' \in BOOLEAN
      BY <2>1, Zenon DEF configure_market
    <3> QED
      BY <2>1, <3>3, <3>4 DEF TypeOK, configure_market, PositionIn
  <2>2. ASSUME NEW m \in Markets, NEW price \in Prices, set_mark_price(m, price)
        PROVE  TypeOK'
    <3>1. PICK new : new = [ensure_market(m) EXCEPT !.mark_price = price]
      OBVIOUS
    <3>2. new \in MarketStates
      <4>1. ensure_market(m) \in MarketStates /\ price \in Int
        BY <2>t, MarketStateTypes, NumbersAssumption
      <4> QED
        BY <3>1, <4>1 DEF MarketStates
    <3>3. markets' \in [Markets -> MarketStates \cup {NoMarket}]
      BY <2>2, <2>t, <3>1, <3>2 DEF set_mark_price
    <3> QED
      BY <2>2, <3>3 DEF TypeOK, set_mark_price, history, PositionIn
  <2>3. ASSUME NEW amount \in Int, Transfer(amount) PROVE TypeOK'
    <3>1. PICK c : c = account.collateral + amount
      OBVIOUS
    <3>2. c \in Int /\ deposits + amount \in Int
      BY <2>t, <3>1 DEF TypeOK, Accounts
    <3>3. account' = [account EXCEPT !.collateral = c]
      BY <2>3, <3>1 DEF Transfer
    <3>4. account' \in Accounts /\ account'.positions = account.positions
      BY <2>t, <3>2, <3>3 DEF Accounts
    <3>5. \A m \in Markets : PositionIn(account, m)' = PositionIn(account, m)
      BY <3>4 DEF PositionIn
    <3> QED
      BY <2>3, <3>2, <3>4, <3>5 DEF TypeOK, Transfer, Accounts
  <2>4. ASSUME NEW o \in Orders, PlaceOrder(o) PROVE TypeOK'
    <3>1. o \in OrderRecords
      BY NumbersAssumption DEF Orders, OrderRecords
    <3>2. orders' \subseteq OrderRecords
      BY <2>4, <3>1 DEF PlaceOrder, TypeOK, OrderRecords
    <3> QED
      BY <2>4, <3>2 DEF TypeOK, PlaceOrder, history, PositionIn, OrderRecords
  <2>5. ASSUME NEW o \in orders, NEW quantity \in Quantities, NEW price \in Prices,
               FillOrder(o, quantity, price)
        PROVE  TypeOK'
    <3>1. PICK m, pos, s, size : /\ m = o.market /\ pos = PositionIn(account, m)
                                 /\ s = Signed(o.side, quantity)
                                 /\ size = ensure_market(m).config.contract_size
      OBVIOUS
    <3>2. /\ m \in Markets /\ o.side \in Sides /\ quantity \in Int /\ price \in Int
          /\ o \in OrderRecords
      BY <3>1, FillTypes
    <3>3. /\ pos \in Positions /\ pos.quantity \in Int /\ s \in Int /\ size \in Nat \ {0}
          /\ ensure_market(m) \in MarketStates /\ quantity \in Nat \ {0}
      BY <2>5, <2>t, <3>1, <3>2, PositionTypes, SignedType, MarketStateTypes DEF FillOrder
    <3>4. FillOf(account, account', m, Filled(pos, s, price), Gain(pos, s, price, size))
      BY <2>5, <2>t, <3>1, <3>2, FillChanges DEF FillOrder
    <3>5. /\ Filled(pos, s, price).quantity = pos.quantity + s
          /\ pos.quantity + s = 0 => Filled(pos, s, price).entry_price = 0
      BY <3>2, <3>3, FilledTypes
    <3>6. \A n \in Markets : PositionIn(account', n).quantity = 0
                                => PositionIn(account', n).entry_price = 0
      <4> SUFFICES ASSUME NEW n \in Markets, PositionIn(account', n).quantity = 0
                   PROVE  PositionIn(account', n).entry_price = 0
        OBVIOUS
      <4>1. CASE n = m
        BY <3>4, <3>5, <4>1 DEF FillOf
      <4>2. CASE n # m
        <5>1. PositionIn(account', n) = PositionIn(account, n)
          BY <3>4, <4>2 DEF FillOf
        <5> QED
          BY <5>1 DEF TypeOK
      <4> QED
        BY <4>1, <4>2
    <3>7. markets' \in [Markets -> MarketStates \cup {NoMarket}]
      BY <2>5, <2>t, <3>1, <3>3 DEF FillOrder
    <3>8. orders' \subseteq OrderRecords
      <4>1. Left(o, quantity) \subseteq OrderRecords
        BY <3>2, LeftTypes
      <4> QED
        BY <2>5, <4>1 DEF FillOrder, TypeOK, OrderRecords
    <3>9. s * price * size \in Int /\ size * (Abs(pos.quantity) + quantity - 1) \in Nat
      BY <3>2, <3>3, FillNumbers
    <3>10. cash' \in [Markets -> Int] /\ net' \in [Markets -> Int] /\ rounding' \in Nat
      <4>1. PICK a, b : a = s * price * size /\ b = size * (Abs(pos.quantity) + quantity - 1)
        OBVIOUS
      <4>2. a \in Int /\ b \in Nat
        BY <3>9, <4>1
      <4>3. cash \in [Markets -> Int] /\ net \in [Markets -> Int] /\ rounding \in Nat
        BY DEF TypeOK
      <4>4. /\ cash' = [cash EXCEPT ![m] = @ + a] /\ net' = [net EXCEPT ![m] = @ + s]
            /\ rounding' \in {rounding, rounding + b}
        BY <2>5, <3>1, <4>1 DEF FillOrder
      <4> QED
        BY ONLY <3>2, <3>3, <4>2, <4>3, <4>4
    <3>11. account' \in Accounts /\ deposits' = deposits /\ resized' = resized
      BY <2>5, <3>4 DEF FillOf, FillOrder
    <3> QED
      BY <3>6, <3>7, <3>8, <3>10, <3>11 DEF TypeOK, Accounts, OrderRecords
  <2>6. ASSUME NEW o \in orders, CancelOrder(o) PROVE TypeOK'
    BY <2>6 DEF TypeOK, CancelOrder, history, PositionIn
  <2>9. ASSUME NEW o \in orders, NEW quantity \in Quantities, NEW price \in Prices,
               ReplaceOrder(o, quantity, price)
        PROVE  TypeOK'
    <3>1. quantity \in Int /\ o \in OrderRecords /\ orders \subseteq OrderRecords
      BY NumbersAssumption DEF TypeOK, OrderRecords
    <3>2. [o EXCEPT !.quantity = quantity, !.price = price] \in OrderRecords
      BY <3>1 DEF OrderRecords
    <3>3. orders' \subseteq OrderRecords
      BY <2>9, <3>1, <3>2 DEF ReplaceOrder
    <3> QED
      BY <2>9, <3>3 DEF TypeOK, ReplaceOrder, history, PositionIn, OrderRecords
  <2>7. CASE UNCHANGED vars
    BY <2>7 DEF TypeOK, vars, history, PositionIn
  <2>8. ASSUME NEW amount \in Amounts, credit_collateral(amount) \/ debit_collateral(amount)
        PROVE  TypeOK'
    <3>1. amount \in Int /\ -amount \in Int
      BY NumbersAssumption
    <3> QED
      BY <2>3, <2>8, <3>1 DEF credit_collateral, debit_collateral
  <2> QED
    BY <2>1, <2>2, <2>4, <2>5, <2>6, <2>7, <2>8, <2>9 DEF Next
<1> QED
  BY <1>1, <1>2, PTL DEF Spec

-----------------------------------------------------------------------------
(* RiskEngine: the books follow the cash                                   *)

\* Products of the numbers of one market, multiplied out.
LEMMA Distribute ==
  ASSUME NEW a \in Int, NEW b \in Int, NEW c \in Int, NEW z \in Int
  PROVE  /\ a * (b - c) * z = (a * b * z) - (a * c * z)
         /\ a * (b + c) * z = (a * b * z) + (a * c * z)
         /\ (a + b) * c * z = (a * c * z) + (b * c * z)
         /\ (-a) * b * z = -(a * b * z)
         /\ a * b * z \in Int /\ a * c * z \in Int /\ b * c * z \in Int
OBVIOUS

\* What a fill adds to the gap between the books and the cash: its profit, what was
\* paid, and the change of the position's cost.
Drift(pos, new, s, price, z, gain) ==
  gain + ((s * price * z) - (new.quantity * new.entry_price * z)
             + (pos.quantity * pos.entry_price * z))

\* A fill against a position adds nothing.
LEMMA ReducedExact ==
  ASSUME NEW pos \in Positions, NEW s \in Int, NEW price \in Int, NEW z \in Nat,
         s # 0, ~ Adds(pos.quantity, s)
  PROVE  Drift(pos, Reduced(pos, s, price), s, price, z, Realized(pos, s, price, z)) = 0
<1>1. PICK q, e, new, closing, per, gain :
        /\ q = pos.quantity /\ e = pos.entry_price /\ new = Reduced(pos, s, price)
        /\ closing = Smaller(Abs(q), Abs(s))
        /\ per = IF q > 0 THEN price - e ELSE e - price
        /\ gain = closing * per * z
  OBVIOUS
<1>2. q \in Int /\ e \in Int
  BY <1>1 DEF Positions
<1>3. Realized(pos, s, price, z) = gain
  BY <1>1 DEF Realized
<1>4. /\ new.quantity = q + s
      /\ new.entry_price = IF q + s = 0 THEN 0
                           ELSE IF (q > 0) # (q + s > 0) THEN price ELSE e
  BY <1>1 DEF Reduced
<1>5. gain + ((s * price * z) - (new.quantity * new.entry_price * z) + (q * e * z)) = 0
  <2>1. (q > 0 /\ s < 0) \/ (q < 0 /\ s > 0)
    BY <1>1, <1>2 DEF Adds
  <2>2. CASE q > 0 /\ q + s = 0
    <3>1. closing = q /\ per = price - e /\ s = -q
      BY <1>1, <1>2, <2>1, <2>2 DEF Smaller, Abs
    <3>2. new.quantity * new.entry_price * z = 0
      BY <1>2, <1>4, <2>2
    <3>3. /\ gain = (q * price * z) - (q * e * z)
          /\ s * price * z = -(q * price * z)
          /\ q * price * z \in Int /\ q * e * z \in Int
      BY <1>1, <1>2, <3>1, Distribute
    <3> QED
      BY <3>2, <3>3
  <2>3. CASE q > 0 /\ q + s > 0
    <3>1. closing = -s /\ per = price - e
      BY <1>1, <1>2, <2>1, <2>3 DEF Smaller, Abs
    <3>2. new.quantity * new.entry_price * z = (q + s) * e * z
      BY <1>2, <1>4, <2>3
    <3>3. /\ (-s) * (price - e) * z = ((-s) * price * z) - ((-s) * e * z)
          /\ (-s) * price * z = -(s * price * z) /\ (-s) * e * z = -(s * e * z)
          /\ (q + s) * e * z = (q * e * z) + (s * e * z)
          /\ s * price * z \in Int /\ s * e * z \in Int /\ q * e * z \in Int
      BY <1>2, Distribute
    <3> QED
      BY <1>1, <3>1, <3>2, <3>3
  <2>4. CASE q > 0 /\ q + s < 0
    <3>1. closing = q /\ per = price - e
      BY <1>1, <1>2, <2>1, <2>4 DEF Smaller, Abs
    <3>2. new.quantity * new.entry_price * z = (q + s) * price * z
      BY <1>2, <1>4, <2>4
    <3>3. /\ q * (price - e) * z = (q * price * z) - (q * e * z)
          /\ (q + s) * price * z = (q * price * z) + (s * price * z)
          /\ q * price * z \in Int /\ q * e * z \in Int /\ s * price * z \in Int
      BY <1>2, Distribute
    <3> QED
      BY <1>1, <3>1, <3>2, <3>3
  <2>5. CASE q < 0 /\ q + s = 0
    <3>1. closing = s /\ per = e - price /\ q = -s
      <4>1. q = -s /\ s > 0
        BY <1>2, <2>5
      <4>2. Abs(q) = s /\ Abs(s) = s
        BY <1>2, <4>1 DEF Abs
      <4> QED
        BY <1>1, <1>2, <2>5, <4>1, <4>2 DEF Smaller
    <3>2. new.quantity * new.entry_price * z = 0
      BY <1>2, <1>4, <2>5
    <3>3. /\ gain = (s * e * z) - (s * price * z)
          /\ q * e * z = -(s * e * z)
          /\ s * e * z \in Int /\ s * price * z \in Int
      BY <1>1, <1>2, <3>1, Distribute
    <3> QED
      BY <3>2, <3>3
  <2>6. CASE q < 0 /\ q + s < 0
    <3>1. closing = s /\ per = e - price
      BY <1>1, <1>2, <2>1, <2>6 DEF Smaller, Abs
    <3>2. new.quantity * new.entry_price * z = (q + s) * e * z
      BY <1>2, <1>4, <2>6
    <3>3. /\ s * (e - price) * z = (s * e * z) - (s * price * z)
          /\ (q + s) * e * z = (q * e * z) + (s * e * z)
          /\ s * price * z \in Int /\ s * e * z \in Int /\ q * e * z \in Int
      BY <1>2, Distribute
    <3> QED
      BY <1>1, <3>1, <3>2, <3>3
  <2>7. CASE q < 0 /\ q + s > 0
    <3>1. closing = -q /\ per = e - price
      BY <1>1, <1>2, <2>1, <2>7 DEF Smaller, Abs
    <3>2. new.quantity * new.entry_price * z = (q + s) * price * z
      BY <1>2, <1>4, <2>7
    <3>3. /\ (-q) * (e - price) * z = ((-q) * e * z) - ((-q) * price * z)
          /\ (-q) * e * z = -(q * e * z) /\ (-q) * price * z = -(q * price * z)
          /\ (q + s) * price * z = (q * price * z) + (s * price * z)
          /\ q * price * z \in Int /\ q * e * z \in Int /\ s * price * z \in Int
      BY <1>2, Distribute
    <3> QED
      BY <1>1, <3>1, <3>2, <3>3
  <2> QED
    BY <1>2, <2>1, <2>2, <2>3, <2>4, <2>5, <2>6, <2>7
<1> QED
  BY <1>1, <1>3, <1>5 DEF Drift

\* The cost of both parts of a position, less the cost at the average price.
LEMMA AverageCost ==
  ASSUME NEW q \in Int, NEW s \in Int, NEW e \in Int, NEW E \in Int, NEW price \in Int,
         NEW z \in Int
  PROVE  /\ (((e * q) + (price * s)) - (E * (q + s))) * z
               = (s * price * z) - ((q + s) * E * z) + (q * e * z)
         /\ -((((e * (-q)) + (price * (-s))) - (E * (-(q + s)))) * z)
               = (s * price * z) - ((q + s) * E * z) + (q * e * z)
OBVIOUS

\* A fill that adds to a position changes its average price: what the division
\* discards is less than one for each contract of the position.
LEMMA AddedRounds ==
  ASSUME NEW pos \in Positions, NEW s \in Int, NEW price \in Int, NEW z \in Nat,
         s # 0, Adds(pos.quantity, s)
  PROVE  Abs(Drift(pos, Added(pos, s, price), s, price, z, 0))
            <= z * (Abs(pos.quantity) + Abs(s) - 1)
<1>1. PICK q, e, new, T, N, E, w :
        /\ q = pos.quantity /\ e = pos.entry_price /\ new = Added(pos, s, price)
        /\ T = Abs(q) + Abs(s) /\ N = (e * Abs(q)) + (price * Abs(s))
        /\ E = Quotient(N, T) /\ w = N - (E * T)
  OBVIOUS
<1>2. q \in Int /\ e \in Int
  BY <1>1 DEF Positions
<1>3. (q >= 0 /\ s > 0) \/ (q <= 0 /\ s < 0)
  BY <1>1, <1>2 DEF Adds
<1>4. Abs(q) \in Nat /\ Abs(s) \in Nat /\ T \in Nat \ {0}
  BY <1>1, <1>2, <1>3 DEF Abs
<1>5. e * Abs(q) \in Int /\ price * Abs(s) \in Int
  BY <1>2, <1>4
<1>6. N \in Int
  BY <1>1, <1>5
<1>7. E \in Int /\ -(T - 1) <= w /\ w <= T - 1 /\ w \in Int
  <2>1. /\ E \in Int
        /\ N >= 0 => E * T <= N /\ N < (E * T) + T
        /\ N <= 0 => N <= E * T /\ (E * T) - T < N
    BY <1>1, <1>4, <1>6, QuotientBounds
  <2>2. E * T \in Int
    BY <1>4, <2>1
  <2> QED
    BY <1>1, <1>4, <1>6, <2>1, <2>2
<1>8. new.quantity = q + s /\ new.entry_price = E
  BY <1>1, <1>2, <1>3 DEF Added
<1>9. PICK d : d = 0 + ((s * price * z) - ((q + s) * E * z) + (q * e * z))
  OBVIOUS
<1>10. d = w * z \/ d = -(w * z)
  <2>1. CASE q >= 0 /\ s > 0
    <3>1. T = q + s /\ N = (e * q) + (price * s)
      BY <1>1, <1>2, <2>1 DEF Abs
    <3>2. w * z = (((e * q) + (price * s)) - (E * (q + s))) * z
      BY <1>1, <3>1
    <3>3. (((e * q) + (price * s)) - (E * (q + s))) * z
             = (s * price * z) - ((q + s) * E * z) + (q * e * z)
      BY <1>2, <1>7, AverageCost
    <3> QED
      BY <1>2, <1>7, <1>9, <3>2, <3>3
  <2>2. CASE q <= 0 /\ s < 0
    <3>a. Abs(q) = -q /\ Abs(s) = -s
      BY <1>2, <2>2 DEF Abs
    <3>1. T = -(q + s) /\ N = (e * (-q)) + (price * (-s))
      BY <1>1, <1>2, <3>a
    <3>2. -(w * z) = -((((e * (-q)) + (price * (-s))) - (E * (-(q + s)))) * z)
      BY <1>1, <3>1
    <3>3. -((((e * (-q)) + (price * (-s))) - (E * (-(q + s)))) * z)
             = (s * price * z) - ((q + s) * E * z) + (q * e * z)
      BY <1>2, <1>7, AverageCost
    <3> QED
      BY <1>2, <1>7, <1>9, <3>2, <3>3
  <2> QED
    BY <1>3, <2>1, <2>2
<1>11. /\ w * z <= z * (T - 1) /\ -(z * (T - 1)) <= w * z
       /\ w * z \in Int /\ z * (T - 1) \in Int
  <2>1. w * z <= (T - 1) * z /\ (-(T - 1)) * z <= w * z
    BY <1>4, <1>7, ProductMonotone
  <2>2. (-(T - 1)) * z = -((T - 1) * z) /\ (T - 1) * z = z * (T - 1)
    BY <1>4
  <2> QED
    BY <1>4, <1>7, <2>1, <2>2
<1>12. Abs(d) <= z * (T - 1)
  <2>1. PICK v, b : v = w * z /\ b = z * (T - 1)
    OBVIOUS
  <2>2. v \in Int /\ b \in Int /\ v <= b /\ -b <= v /\ (d = v \/ d = -v)
    BY <1>10, <1>11, <2>1
  <2>3. Abs(d) <= b
    BY <2>2 DEF Abs
  <2> QED
    BY <2>1, <2>3
<1>13. d = Drift(pos, new, s, price, z, 0)
  BY <1>1, <1>8, <1>9, Zenon DEF Drift
<1>14. z * (T - 1) = z * (Abs(pos.quantity) + Abs(s) - 1)
  <2>1. T - 1 = Abs(pos.quantity) + Abs(s) - 1
    BY <1>1, <1>4
  <2> QED
    BY ONLY <2>1
<1> QED
  BY ONLY <1>1, <1>12, <1>13, <1>14

-----------------------------------------------------------------------------

\* g has one argument more than f, or another value for x, which was a.
Changes(f, g, S, x, a) ==
  /\ DOMAIN f = S /\ DOMAIN g = S \cup {x} /\ g[x] \in Int
  /\ (x \in S => a = f[x]) /\ (x \notin S => a = 0)
  /\ \A y \in S : f[y] \in Int
  /\ \A y \in S \ {x} : f[y] = g[y]

\* A sum whose function changes at x only, where its value was a.
LEMMA SumChanges ==
  ASSUME NEW f, NEW g, NEW S, NEW x, NEW a, IsFiniteSet(S), Changes(f, g, S, x, a)
  PROVE  SumFunction(f) \in Int /\ SumFunction(g) = SumFunction(f) + (g[x] - a)
<1>a. /\ x \in S => a = f[x]
      /\ x \notin S => a = 0
      /\ \A y \in S : f[y] \in Int
      /\ \A y \in S \ {x} : f[y] = g[y]
      /\ g[x] \in Int /\ DOMAIN f = S /\ DOMAIN g = S \cup {x}
  BY DEF Changes
<1>1. /\ SumFunctionOnSet(f, S) \in Int
      /\ SumFunctionOnSet(g, S \cup {x}) = SumFunctionOnSet(f, S) + (g[x] - a)
  BY ONLY IsFiniteSet(S), <1>a, SumUpdate
<1>2. SumFunction(f) = SumFunctionOnSet(f, S) /\ SumFunction(g) = SumFunctionOnSet(g, S \cup {x})
  BY ONLY <1>a DEF SumFunction
<1> QED
  BY ONLY <1>1, <1>2

\* The markets that there are, and the sums of OpenProfit and Profit over them.
Live(mk) == {m \in Markets : mk[m] # NoMarket}

OpenTerm(acc, mk, m) ==
  PositionIn(acc, m).quantity * (mk[m].mark_price - PositionIn(acc, m).entry_price)
      * mk[m].config.contract_size

PaidTerm(nt, ch, mk, m) == (nt[m] * mk[m].mark_price * mk[m].config.contract_size) - ch[m]

OpenSum(acc, mk) == SumFunction([m \in Live(mk) |-> OpenTerm(acc, mk, m)])
PaidSum(nt, ch, mk) == SumFunction([m \in Live(mk) |-> PaidTerm(nt, ch, mk, m)])

\* The two sides of the books, as functions of the state.
LEMMA ProfitSums ==
  /\ OpenProfit = OpenSum(account, markets)
  /\ Profit = PaidSum(net, cash, markets)
BY DEF OpenProfit, Profit, OpenSum, PaidSum, OpenTerm, PaidTerm, Live

\* A state of the books: the positions are what was bought and sold, and nothing was
\* where there is no market.
Book(acc, mk, nt, ch) ==
  /\ mk \in [Markets -> MarketStates \cup {NoMarket}] /\ acc \in Accounts
  /\ nt \in [Markets -> Int] /\ ch \in [Markets -> Int]
  /\ \A m \in Markets : PositionIn(acc, m).quantity = nt[m]
  /\ \A m \in Markets : mk[m] = NoMarket => nt[m] = 0 /\ ch[m] = 0

\* Two states of the books that differ in one market.
OneMarket(acc, mk, nt, ch, acc2, mk2, nt2, ch2, m) ==
  \A n \in Markets \ {m} :
     /\ mk2[n] = mk[n] /\ PositionIn(acc2, n) = PositionIn(acc, n)
     /\ nt2[n] = nt[n] /\ ch2[n] = ch[n]

\* What was paid in a market, less what its position cost.
Missing(acc, ch, m, z) ==
  ch[m] - (PositionIn(acc, m).quantity * PositionIn(acc, m).entry_price * z)

\* In each market the two sides differ by what is missing, without the mark price.
LEMMA BookTerms ==
  ASSUME NEW acc, NEW mk, NEW nt, NEW ch, Book(acc, mk, nt, ch), NEW m \in Live(mk)
  PROVE  /\ OpenTerm(acc, mk, m) \in Int /\ PaidTerm(nt, ch, mk, m) \in Int
         /\ Missing(acc, ch, m, mk[m].config.contract_size) \in Int
         /\ OpenTerm(acc, mk, m) - PaidTerm(nt, ch, mk, m)
              = Missing(acc, ch, m, mk[m].config.contract_size)
<1>1. PICK q, e, k, z, c :
        /\ q = PositionIn(acc, m).quantity /\ e = PositionIn(acc, m).entry_price
        /\ k = mk[m].mark_price /\ z = mk[m].config.contract_size /\ c = ch[m]
  OBVIOUS
<1>2. m \in Markets /\ mk[m] \in MarketStates /\ acc \in Accounts
  BY DEF Live, Book
<1>3. q \in Int /\ e \in Int /\ c \in Int /\ nt[m] = q
  BY <1>1, <1>2, PositionTypes DEF Book
<1>4. k \in Int /\ z \in Int
  BY <1>1, <1>2 DEF MarketStates, Configs
<1>5. /\ q * (k - e) * z = (q * k * z) - (q * e * z)
      /\ q * k * z \in Int /\ q * e * z \in Int
  BY <1>3, <1>4, Distribute
<1>6. OpenTerm(acc, mk, m) = q * (k - e) * z
  BY ONLY <1>1 DEF OpenTerm
<1>7. PaidTerm(nt, ch, mk, m) = (q * k * z) - c
  BY ONLY <1>1, <1>3 DEF PaidTerm
<1>8. Missing(acc, ch, m, mk[m].config.contract_size) = c - (q * e * z)
  BY ONLY <1>1 DEF Missing
<1>9. PICK a, b : a = q * k * z /\ b = q * e * z
  OBVIOUS
<1> QED
  BY ONLY <1>3, <1>5, <1>6, <1>7, <1>8, <1>9

\* The markets that have a state are finitely many.
LEMMA LiveFinite ==
  ASSUME NEW mk
  PROVE  IsFiniteSet(Live(mk))
<1>1. Live(mk) \subseteq Markets
  BY DEF Live
<1> QED
  BY <1>1, FS_Subset, ConfigAssumption

\* Both sides are integers.
LEMMA BookSums ==
  ASSUME NEW acc, NEW mk, NEW nt, NEW ch, Book(acc, mk, nt, ch)
  PROVE  OpenSum(acc, mk) \in Int /\ PaidSum(nt, ch, mk) \in Int
<1>1. PICK S, f, g : /\ S = Live(mk) /\ f = [m \in S |-> OpenTerm(acc, mk, m)]
                     /\ g = [m \in S |-> PaidTerm(nt, ch, mk, m)]
  OBVIOUS
<1>2. IsFiniteSet(S)
  BY <1>1, LiveFinite
<1>3. /\ \A m \in S : f[m] \in Int /\ g[m] \in Int
      /\ DOMAIN f = S /\ DOMAIN g = S
  BY <1>1, BookTerms
<1>4. Splits(f, S) /\ Splits(g, S)
  BY <1>2, <1>3, SumSplits
<1>5. OpenSum(acc, mk) = SumFunctionOnSet(f, S) /\ PaidSum(nt, ch, mk) = SumFunctionOnSet(g, S)
  BY <1>1, <1>3 DEF OpenSum, PaidSum, SumFunction
<1> QED
  BY <1>4, <1>5 DEF Splits

\* When one market changes, the gap between open profit and profit changes by what is
\* missing in that market: mark prices do not matter.
LEMMA GapChanges ==
  ASSUME NEW acc, NEW mk, NEW nt, NEW ch, Book(acc, mk, nt, ch),
         NEW acc2, NEW mk2, NEW nt2, NEW ch2, Book(acc2, mk2, nt2, ch2),
         NEW m \in Markets, mk2[m] # NoMarket, NEW z \in Int,
         mk[m] # NoMarket => z = mk[m].config.contract_size,
         OneMarket(acc, mk, nt, ch, acc2, mk2, nt2, ch2, m)
  PROVE  (OpenSum(acc2, mk2) - PaidSum(nt2, ch2, mk2)) - (OpenSum(acc, mk) - PaidSum(nt, ch, mk))
            = Missing(acc2, ch2, m, mk2[m].config.contract_size) - Missing(acc, ch, m, z)
<1>1. PICK S, f, g, f2, g2 :
        /\ S = Live(mk)
        /\ f = [n \in S |-> OpenTerm(acc, mk, n)] /\ g = [n \in S |-> PaidTerm(nt, ch, mk, n)]
        /\ f2 = [n \in Live(mk2) |-> OpenTerm(acc2, mk2, n)]
        /\ g2 = [n \in Live(mk2) |-> PaidTerm(nt2, ch2, mk2, n)]
  OBVIOUS
<1>2. Live(mk2) = S \cup {m} /\ m \in Live(mk2)
  BY <1>1 DEF Live, OneMarket
<1>3. IsFiniteSet(S)
  BY <1>1, LiveFinite
<1>4. DOMAIN f = S /\ DOMAIN g = S /\ DOMAIN f2 = S \cup {m} /\ DOMAIN g2 = S \cup {m}
  BY <1>1, <1>2
<1>5. \A n \in S : f[n] \in Int /\ g[n] \in Int
  BY <1>1, BookTerms
<1>6. /\ f2[m] \in Int /\ g2[m] \in Int
      /\ f2[m] - g2[m] = Missing(acc2, ch2, m, mk2[m].config.contract_size)
  BY <1>1, <1>2, BookTerms
<1>7. \A n \in S \ {m} : f[n] = f2[n] /\ g[n] = g2[n]
  <2> SUFFICES ASSUME NEW n \in S \ {m} PROVE f[n] = f2[n] /\ g[n] = g2[n]
    OBVIOUS
  <2>1. /\ n \in Markets \ {m} /\ n \in Live(mk2)
        /\ f[n] = OpenTerm(acc, mk, n) /\ f2[n] = OpenTerm(acc2, mk2, n)
        /\ g[n] = PaidTerm(nt, ch, mk, n) /\ g2[n] = PaidTerm(nt2, ch2, mk2, n)
    BY <1>1, <1>2 DEF Live
  <2>2. /\ mk2[n] = mk[n] /\ PositionIn(acc2, n) = PositionIn(acc, n)
        /\ nt2[n] = nt[n] /\ ch2[n] = ch[n]
    BY <2>1 DEF OneMarket
  <2> QED
    BY ONLY <2>1, <2>2 DEF OpenTerm, PaidTerm
<1>8. PICK a, b : a = (IF m \in S THEN f[m] ELSE 0) /\ b = (IF m \in S THEN g[m] ELSE 0)
  OBVIOUS
<1>9. a \in Int /\ b \in Int /\ a - b = Missing(acc, ch, m, z)
  <2>1. CASE m \in S
    <3>1. a = OpenTerm(acc, mk, m) /\ b = PaidTerm(nt, ch, mk, m)
      BY <1>1, <1>8, <2>1
    <3>2. z = mk[m].config.contract_size /\ m \in Live(mk)
      BY <1>1, <2>1 DEF Live
    <3> QED
      BY <3>1, <3>2, BookTerms
  <2>2. CASE m \notin S
    <3>1. mk[m] = NoMarket /\ a = 0 /\ b = 0
      BY <1>1, <1>8, <2>2 DEF Live
    <3>2. ch[m] = 0 /\ PositionIn(acc, m).quantity = 0 /\ PositionIn(acc, m).entry_price \in Int
      BY <3>1, PositionTypes DEF Book
    <3>3. Missing(acc, ch, m, z) = 0
      BY <3>2 DEF Missing
    <3> QED
      BY <3>1, <3>3
  <2> QED
    BY <2>1, <2>2
<1>10. SumFunction(f) \in Int /\ SumFunction(f2) = SumFunction(f) + (f2[m] - a)
  <2>1. Changes(f, f2, S, m, a)
    BY <1>4, <1>5, <1>6, <1>7, <1>8 DEF Changes
  <2> QED
    BY ONLY <1>3, <2>1, SumChanges
<1>11. SumFunction(g) \in Int /\ SumFunction(g2) = SumFunction(g) + (g2[m] - b)
  <2>1. Changes(g, g2, S, m, b)
    BY <1>4, <1>5, <1>6, <1>7, <1>8 DEF Changes
  <2> QED
    BY ONLY <1>3, <2>1, SumChanges
<1>12. /\ OpenSum(acc, mk) = SumFunction(f) /\ PaidSum(nt, ch, mk) = SumFunction(g)
       /\ OpenSum(acc2, mk2) = SumFunction(f2) /\ PaidSum(nt2, ch2, mk2) = SumFunction(g2)
  BY <1>1 DEF OpenSum, PaidSum
<1>13. PICK F, G, x, y : /\ F = SumFunction(f) /\ G = SumFunction(g)
                         /\ x = f2[m] /\ y = g2[m]
  OBVIOUS
<1> QED
  BY ONLY <1>6, <1>9, <1>10, <1>11, <1>12, <1>13

\* Nothing was traded where there is no market.
Untraded == \A m \in Markets : markets[m] = NoMarket => net[m] = 0 /\ cash[m] = 0

\* The state of the engine is a state of the books.
LEMMA BooksAreBook ==
  TypeOK /\ BooksFollowCash /\ Untraded => Book(account, markets, net, cash)
BY DEF TypeOK, BooksFollowCash, Untraded, Book, Accounts

\* The collateral and the open profit are within r of the deposits and the profit.
Close(C, O, D, P, r) == Abs((C + O) - (D + P)) <= r

\* A step that moves the two sides apart by x at most widens the bound by as much.
LEMMA StaysClose ==
  ASSUME NEW C \in Int, NEW O \in Int, NEW D \in Int, NEW P \in Int, NEW r \in Int,
         NEW C2 \in Int, NEW O2 \in Int, NEW D2 \in Int, NEW P2 \in Int, NEW x \in Int,
         NEW more \in Int, Close(C, O, D, P, r),
         ((C2 - C) - (D2 - D)) + ((O2 - P2) - (O - P)) = x, Abs(x) <= more
  PROVE  Close(C2, O2, D2, P2, r + more)
<1>1. (C2 + O2) - (D2 + P2) = ((C + O) - (D + P)) + x
  OBVIOUS
<1>2. PICK y : y = (C + O) - (D + P)
  OBVIOUS
<1>3. y \in Int /\ Abs(y) <= r
  BY <1>2 DEF Close
<1>4. Abs(y + x) <= r + more
  BY <1>3 DEF Abs
<1> QED
  BY <1>1, <1>2, <1>4 DEF Close

\* A step that changes neither account nor markets nor cash.
LEMMA BooksKept ==
  ASSUME BooksFollowCash, Untraded,
         UNCHANGED <<account, markets, net, cash, deposits, rounding, resized>>
  PROVE  BooksFollowCash' /\ Untraded'
BY DEF BooksFollowCash, Untraded, OpenProfit, Profit, PositionIn

\* A step of one market that leaves the account and the cash alone: configure_market and
\* set_mark_price.
LEMMA MarketBooks ==
  ASSUME TypeOK, BooksFollowCash, Untraded, NEW m \in Markets, NEW new \in MarketStates,
         markets' = [markets EXCEPT ![m] = new],
         UNCHANGED <<account, net, cash, deposits, rounding>>,
         resized' \in BOOLEAN, resized => resized',
         ~ resized' => \/ PositionIn(account, m).quantity = 0
                       \/ new.config.contract_size = ensure_market(m).config.contract_size
  PROVE  BooksFollowCash' /\ Untraded'
<1>1. Book(account, markets, net, cash)
  BY BooksAreBook
<1>2. PICK mk2 : mk2 = markets'
  OBVIOUS
<1>3. /\ markets \in [Markets -> MarketStates \cup {NoMarket}] /\ account \in Accounts
      /\ new # NoMarket /\ NoMarket \notin MarketStates
  BY NullAssumption DEF TypeOK, Accounts
<1>4. /\ mk2 \in [Markets -> MarketStates \cup {NoMarket}] /\ mk2[m] = new
      /\ \A n \in Markets \ {m} : mk2[n] = markets[n]
  BY <1>2, <1>3
<1>5. Book(account, mk2, net, cash)
  BY <1>1, <1>3, <1>4 DEF Book
<1>6. PICK z : z = ensure_market(m).config.contract_size
  OBVIOUS
<1>7. z \in Int /\ (markets[m] # NoMarket => z = markets[m].config.contract_size)
  BY <1>3, <1>6, MarketStateTypes
<1>8. OneMarket(account, markets, net, cash, account, mk2, net, cash, m)
  BY <1>4 DEF OneMarket
<1>9. mk2[m] # NoMarket
  BY <1>3, <1>4
<1>10. (OpenSum(account, mk2) - PaidSum(net, cash, mk2))
          - (OpenSum(account, markets) - PaidSum(net, cash, markets))
          = Missing(account, cash, m, mk2[m].config.contract_size)
              - Missing(account, cash, m, z)
  BY ONLY m \in Markets, <1>1, <1>5, <1>7, <1>8, <1>9, GapChanges
<1>11. PICK q, e, c : /\ q = PositionIn(account, m).quantity
                      /\ e = PositionIn(account, m).entry_price /\ c = cash[m]
  OBVIOUS
<1>12. q \in Int /\ e \in Int /\ c \in Int
  BY <1>3, <1>11, PositionTypes DEF TypeOK
<1>13. /\ OpenSum(account, markets) \in Int /\ PaidSum(net, cash, markets) \in Int
       /\ OpenSum(account, mk2) \in Int /\ PaidSum(net, cash, mk2) \in Int
  BY <1>1, <1>5, BookSums
<1>14. PICK O, P, O2, P2 :
          /\ O = OpenSum(account, markets) /\ P = PaidSum(net, cash, markets)
          /\ O2 = OpenSum(account, mk2) /\ P2 = PaidSum(net, cash, mk2)
  OBVIOUS
<1>15. OpenProfit' = O2 /\ Profit' = P2 /\ OpenProfit = O /\ Profit = P
  BY <1>2, <1>14, ProfitSums DEF OpenProfit, Profit, OpenSum, PaidSum, OpenTerm, PaidTerm, Live
<1>16. ~ resized' => Close(account'.collateral, OpenProfit', deposits', Profit', rounding')
  <2> SUFFICES ASSUME ~ resized'
               PROVE  Close(account'.collateral, OpenProfit', deposits', Profit', rounding')
    OBVIOUS
  <2>1. Close(account.collateral, O, deposits, P, rounding)
    BY <1>15 DEF BooksFollowCash, Close
  <2>2. q = 0 \/ mk2[m].config.contract_size = z
    BY <1>4, <1>6, <1>11
  <2>3. Missing(account, cash, m, mk2[m].config.contract_size) = Missing(account, cash, m, z)
    <3>1. CASE mk2[m].config.contract_size = z
      BY <3>1
    <3>2. CASE q = 0
      <4>1. mk2[m].config.contract_size \in Int
        BY <1>4 DEF MarketStates, Configs
      <4> QED
        BY <1>7, <1>11, <1>12, <3>2, <4>1 DEF Missing
    <3> QED
      BY <2>2, <3>1, <3>2
  <2>4. Missing(account, cash, m, z) \in Int
    <3>1. q * e * z \in Int
      BY <1>7, <1>12
    <3>2. Missing(account, cash, m, z) = c - (q * e * z)
      BY <1>11 DEF Missing
    <3> QED
      BY <1>12, <3>1, <3>2
  <2>5. O2 - P2 = O - P
    BY <1>10, <1>13, <1>14, <2>3, <2>4
  <2>6. account.collateral \in Int /\ deposits \in Int /\ rounding \in Int
    BY <1>3 DEF TypeOK, Accounts
  <2>7. Close(account.collateral, O2, deposits, P2, rounding)
    BY <1>13, <1>14, <2>1, <2>5, <2>6 DEF Close
  <2> QED
    BY <1>15, <2>7
<1>17. \A n \in Markets : PositionIn(account', n).quantity = net'[n]
  BY DEF BooksFollowCash
<1>18. \A n \in Markets : markets'[n] = NoMarket => net'[n] = 0 /\ cash'[n] = 0
  BY <1>2, <1>5 DEF Book
<1> QED
  BY <1>16, <1>17, <1>18 DEF BooksFollowCash, Untraded, Close

\* A transfer changes collateral and deposits alike.
LEMMA TransferBooks ==
  ASSUME TypeOK, BooksFollowCash, Untraded, NEW amount \in Int, Transfer(amount)
  PROVE  BooksFollowCash' /\ Untraded'
<1>1. /\ account.collateral \in Int /\ account.realized_pnl \in Int /\ deposits \in Int
      /\ account \in Accounts
  BY DEF TypeOK, Accounts
<1>2. /\ account'.collateral = account.collateral + amount
      /\ account'.realized_pnl = account.realized_pnl
      /\ account'.positions = account.positions
      /\ deposits' = deposits + amount
      /\ UNCHANGED <<markets, cash, net, rounding, resized>>
  BY <1>1 DEF Transfer, Accounts
<1>3. \A m : PositionIn(account', m) = PositionIn(account, m)
  BY <1>2 DEF PositionIn
<1>4. OpenProfit' = OpenProfit /\ Profit' = Profit
  BY <1>2, <1>3 DEF OpenProfit, Profit
<1>5. OpenProfit \in Int /\ Profit \in Int
  BY BooksAreBook, BookSums, ProfitSums
<1>6. (account'.collateral + OpenProfit') - (deposits' + Profit')
         = (account.collateral + OpenProfit) - (deposits + Profit)
  BY <1>1, <1>2, <1>4, <1>5
<1> QED
  <2>1. account'.collateral = deposits' + account'.realized_pnl
    BY <1>1, <1>2 DEF BooksFollowCash
  <2> QED
    BY <1>2, <1>3, <1>6, <2>1 DEF BooksFollowCash, Untraded

\* A fill: the gap changes by Drift.
LEMMA FillBooks ==
  ASSUME TypeOK, TypeOK', BooksFollowCash, Untraded,
         NEW o \in orders, NEW quantity \in Quantities, NEW price \in Prices,
         FillOrder(o, quantity, price)
  PROVE  BooksFollowCash' /\ Untraded'
<1>1. PICK m, pos, s, z, new, gain :
        /\ m = o.market /\ pos = PositionIn(account, m) /\ s = Signed(o.side, quantity)
        /\ z = ensure_market(m).config.contract_size
        /\ new = Filled(pos, s, price) /\ gain = Gain(pos, s, price, z)
  OBVIOUS
<1>2. /\ m \in Markets /\ o.side \in Sides /\ quantity \in Int /\ price \in Int
      /\ account \in Accounts /\ markets \in [Markets -> MarketStates \cup {NoMarket}]
  BY <1>1, FillTypes
<1>3. /\ pos \in Positions /\ pos.quantity \in Int /\ pos.entry_price \in Int
      /\ s \in Int /\ z \in Nat \ {0}
      /\ ensure_market(m) \in MarketStates /\ quantity \in Nat \ {0} /\ s # 0
      /\ Abs(s) = quantity
      /\ markets[m] # NoMarket => z = markets[m].config.contract_size
  <2>1. pos \in Positions /\ pos.quantity \in Int /\ pos.entry_price \in Int
    BY <1>1, <1>2, PositionTypes
  <2>2. quantity \in Nat \ {0}
    BY <1>2 DEF FillOrder
  <2>3. s \in Int /\ s # 0 /\ Abs(s) = quantity
    BY <1>1, <1>2, <2>2, SignedType
  <2>4. /\ z \in Nat \ {0} /\ ensure_market(m) \in MarketStates
        /\ markets[m] # NoMarket => z = markets[m].config.contract_size
    BY <1>1, <1>2, MarketStateTypes
  <2> QED
    BY <2>1, <2>2, <2>3, <2>4
<1>4. FillOf(account, account', m, new, gain)
  BY <1>1, <1>2, FillChanges DEF FillOrder
<1>5. /\ new \in Positions /\ new.quantity = pos.quantity + s /\ gain \in Int
      /\ new.entry_price \in Int
  BY <1>1, <1>2, <1>3, FilledTypes DEF Positions
<1>6. PICK acc2, mk2, nt2, ch2 :
        acc2 = account' /\ mk2 = markets' /\ nt2 = net' /\ ch2 = cash'
  OBVIOUS
<1>7. /\ mk2 = [markets EXCEPT ![m] = ensure_market(m)]
      /\ ch2 = [cash EXCEPT ![m] = @ + (s * price * z)]
      /\ nt2 = [net EXCEPT ![m] = @ + s]
      /\ rounding' = IF Adds(pos.quantity, s)
                     THEN rounding + (z * (Abs(pos.quantity) + quantity - 1)) ELSE rounding
      /\ deposits' = deposits /\ resized' = resized
  BY <1>1, <1>6 DEF FillOrder
<1>8. cash \in [Markets -> Int] /\ net \in [Markets -> Int]
  BY DEF TypeOK
<1>9. /\ mk2[m] = ensure_market(m) /\ ch2[m] = cash[m] + (s * price * z)
      /\ nt2[m] = net[m] + s
      /\ \A n \in Markets \ {m} : mk2[n] = markets[n] /\ ch2[n] = cash[n] /\ nt2[n] = net[n]
  BY <1>2, <1>7, <1>8
<1>10. mk2[m] # NoMarket /\ mk2[m].config.contract_size = z
  BY <1>1, <1>3, <1>9, NullAssumption
<1>11. /\ acc2 \in Accounts /\ PositionIn(acc2, m) = new
       /\ \A n \in Markets \ {m} : PositionIn(acc2, n) = PositionIn(account, n)
       /\ acc2.collateral = account.collateral + gain
  BY <1>4, <1>6 DEF FillOf
<1>12. Book(account, markets, net, cash)
  BY BooksAreBook
<1>13. /\ mk2 \in [Markets -> MarketStates \cup {NoMarket}]
       /\ nt2 \in [Markets -> Int] /\ ch2 \in [Markets -> Int]
  BY <1>6 DEF TypeOK
<1>14. \A n \in Markets : PositionIn(acc2, n).quantity = nt2[n]
  BY <1>1, <1>5, <1>9, <1>11, <1>12 DEF Book
<1>15. \A n \in Markets : mk2[n] = NoMarket => nt2[n] = 0 /\ ch2[n] = 0
  BY <1>9, <1>10, <1>12 DEF Book
<1>16. Book(acc2, mk2, nt2, ch2)
  BY <1>11, <1>13, <1>14, <1>15 DEF Book
<1>17. OneMarket(account, markets, net, cash, acc2, mk2, nt2, ch2, m)
  BY <1>9, <1>11 DEF OneMarket
<1>18. PICK O, P, O2, P2 :
          /\ O = OpenSum(account, markets) /\ P = PaidSum(net, cash, markets)
          /\ O2 = OpenSum(acc2, mk2) /\ P2 = PaidSum(nt2, ch2, mk2)
  OBVIOUS
<1>19. O \in Int /\ P \in Int /\ O2 \in Int /\ P2 \in Int
  BY <1>12, <1>16, <1>18, BookSums
<1>20. (O2 - P2) - (O - P) = Missing(acc2, ch2, m, z) - Missing(account, cash, m, z)
  <2>1. z \in Int
    BY <1>3
  <2>2. (O2 - P2) - (O - P)
           = Missing(acc2, ch2, m, mk2[m].config.contract_size) - Missing(account, cash, m, z)
    BY ONLY <1>2, <1>3, <1>10, <1>12, <1>16, <1>17, <1>18, <2>1, GapChanges
  <2> QED
    BY <1>10, <2>2
<1>21. PICK d : d = Drift(pos, new, s, price, z, gain)
  OBVIOUS
<1>22. gain + ((O2 - P2) - (O - P)) = d /\ d \in Int
  <2>1. PICK a, b, c, e :
          /\ a = s * price * z /\ b = new.quantity * new.entry_price * z
          /\ c = pos.quantity * pos.entry_price * z /\ e = cash[m]
    OBVIOUS
  <2>2. a \in Int /\ c \in Int /\ e \in Int
    BY <1>2, <1>3, <1>8, <2>1
  <2>3. b \in Int
    <3>1. new.quantity \in Int
      BY <1>3, <1>5
    <3> QED
      BY <1>3, <1>5, <2>1, <3>1
  <2>4. Missing(acc2, ch2, m, z) = (e + a) - b
    BY <1>9, <1>11, <2>1 DEF Missing
  <2>5. Missing(account, cash, m, z) = e - c
    BY <1>1, <2>1 DEF Missing
  <2>6. d = gain + ((a - b) + c)
    BY <1>21, <2>1 DEF Drift
  <2> QED
    BY <1>5, <1>20, <2>2, <2>3, <2>4, <2>5, <2>6
<1>23. PICK more : more = IF Adds(pos.quantity, s)
                          THEN z * (Abs(pos.quantity) + quantity - 1) ELSE 0
  OBVIOUS
<1>24. more \in Int /\ Abs(d) <= more /\ rounding' = rounding + more
  <2>1. rounding \in Int /\ z \in Nat
    BY <1>3 DEF TypeOK
  <2>2. CASE Adds(pos.quantity, s)
    <3>1. new = Added(pos, s, price) /\ gain = 0
      BY <1>1, <2>2 DEF Filled, Gain
    <3>2. Abs(d) <= z * (Abs(pos.quantity) + Abs(s) - 1)
      BY <1>2, <1>3, <1>21, <2>1, <2>2, <3>1, AddedRounds
    <3>3. z * (Abs(pos.quantity) + quantity - 1) \in Nat
      BY <1>2, <1>3, FillNumbers
    <3> QED
      BY <1>3, <1>7, <1>23, <2>2, <3>2, <3>3
  <2>3. CASE ~ Adds(pos.quantity, s)
    <3>1. new = Reduced(pos, s, price) /\ gain = Realized(pos, s, price, z)
      BY <1>1, <2>3 DEF Filled, Gain
    <3>2. d = 0
      BY <1>2, <1>3, <1>21, <2>1, <2>3, <3>1, ReducedExact
    <3> QED
      BY <1>7, <1>23, <2>1, <2>3, <3>2 DEF Abs
  <2> QED
    BY <2>2, <2>3
<1>25. OpenProfit' = O2 /\ Profit' = P2 /\ OpenProfit = O /\ Profit = P
  BY <1>6, <1>18, ProfitSums DEF OpenProfit, Profit, OpenSum, PaidSum, OpenTerm, PaidTerm, Live
<1>26. ~ resized => Close(acc2.collateral, O2, deposits, P2, rounding')
  <2> SUFFICES ASSUME ~ resized PROVE Close(acc2.collateral, O2, deposits, P2, rounding')
    OBVIOUS
  <2>1. Close(account.collateral, O, deposits, P, rounding)
    BY <1>25 DEF BooksFollowCash, Close
  <2>2. /\ account.collateral \in Int /\ deposits \in Int /\ rounding \in Int
        /\ acc2.collateral \in Int
    BY <1>2, <1>11 DEF TypeOK, Accounts
  <2>3. ((acc2.collateral - account.collateral) - (deposits - deposits))
           + ((O2 - P2) - (O - P)) = d
    BY <1>5, <1>11, <1>19, <1>22, <2>2
  <2>4. Close(acc2.collateral, O2, deposits, P2, rounding + more)
    BY ONLY <1>19, <1>22, <1>24, <2>1, <2>2, <2>3, StaysClose
  <2> QED
    BY <1>24, <2>4
<1>27. acc2.collateral = deposits + acc2.realized_pnl
  <2>1. acc2.realized_pnl = account.realized_pnl + gain
    BY <1>4, <1>6 DEF FillOf
  <2>2. account.collateral = deposits + account.realized_pnl
    BY DEF BooksFollowCash
  <2>3. account.realized_pnl \in Int /\ deposits \in Int
    BY <1>2 DEF TypeOK, Accounts
  <2> QED
    BY <1>5, <1>11, <2>1, <2>2, <2>3
<1> QED
  BY <1>6, <1>7, <1>14, <1>15, <1>25, <1>26, <1>27 DEF BooksFollowCash, Untraded, Close

\* Positions, entry prices and collateral follow the cash: after any sequence of
\* orders, fills, transfers, mark prices and configurations the position is what was
\* bought less what was sold, the collateral is the deposits and the realized profit,
\* and collateral and open profit together are the deposits and the profit of all trades,
\* but for what the averages rounded away, as long as no contract size changed under an
\* open position.
THEOREM BooksFollowCashHolds == Spec => []BooksFollowCash
<1>1. Init => BooksFollowCash /\ Untraded
  <2> SUFFICES ASSUME Init PROVE BooksFollowCash /\ Untraded
    OBVIOUS
  <2>1. TypeOK
    BY RiskInit
  <2>2. /\ account.collateral = 0 /\ account.realized_pnl = 0
        /\ \A m \in Markets : account.positions[m] = NoPosition
    BY DEF Init
  <2>3. /\ cash = [m \in Markets |-> 0] /\ net = [m \in Markets |-> 0]
        /\ deposits = 0 /\ rounding = 0
    BY Zenon DEF Init
  <2>4. \A m \in Markets : /\ PositionIn(account, m).quantity = 0
                           /\ PositionIn(account, m).entry_price = 0
                           /\ net[m] = 0 /\ cash[m] = 0
    BY <2>2, <2>3 DEF PositionIn
  <2>5. Untraded
    BY <2>4 DEF Untraded
  <2>6. [m \in Live(markets) |-> OpenTerm(account, markets, m)]
           = [m \in Live(markets) |-> PaidTerm(net, cash, markets, m)]
    <3> SUFFICES ASSUME NEW m \in Live(markets)
                 PROVE  OpenTerm(account, markets, m) = PaidTerm(net, cash, markets, m)
      OBVIOUS
    <3>1. m \in Markets /\ markets[m] \in MarketStates
      BY <2>1 DEF Live, TypeOK
    <3>2. markets[m].mark_price \in Int /\ markets[m].config.contract_size \in Int
      BY <3>1 DEF MarketStates, Configs
    <3> QED
      BY <2>4, <3>1, <3>2 DEF OpenTerm, PaidTerm
  <2>7. OpenProfit = Profit
    BY <2>6, ProfitSums DEF OpenSum, PaidSum
  <2>8. Book(account, markets, net, cash)
    BY <2>1, <2>4 DEF Book, TypeOK, Accounts
  <2>9. OpenProfit \in Int
    BY <2>8, BookSums, ProfitSums
  <2>10. Abs((account.collateral + OpenProfit) - (deposits + Profit)) <= rounding
    BY <2>2, <2>3, <2>7, <2>9 DEF Abs
  <2> QED
    BY <2>2, <2>3, <2>4, <2>5, <2>10 DEF BooksFollowCash
<1>2. TypeOK /\ TypeOK' /\ BooksFollowCash /\ Untraded /\ [Next]_vars
         => BooksFollowCash' /\ Untraded'
  <2> SUFFICES ASSUME TypeOK, TypeOK', BooksFollowCash, Untraded, [Next]_vars
               PROVE  BooksFollowCash' /\ Untraded'
    OBVIOUS
  <2>t. markets \in [Markets -> MarketStates \cup {NoMarket}]
    BY DEF TypeOK
  <2>1. ASSUME NEW m \in Markets, NEW config \in Config[m], configure_market(m, config)
        PROVE  BooksFollowCash' /\ Untraded'
    <3>1. PICK new : new = [ensure_market(m) EXCEPT !.config = config]
      OBVIOUS
    <3>2. new \in MarketStates /\ new.config = config
      <4>1. ensure_market(m) \in MarketStates /\ config \in Configs
        BY <2>t, MarketStateTypes, ConfigAssumption
      <4> QED
        BY <3>1, <4>1 DEF MarketStates
    <3>3. /\ markets' = [markets EXCEPT ![m] = new]
          /\ UNCHANGED <<account, net, cash, deposits, rounding>>
      BY <2>1, <3>1 DEF configure_market
    <3>4. resized' \in BOOLEAN /\ (resized => resized')
      BY <2>1, Zenon DEF configure_market
    <3>5. ~ resized' => \/ PositionIn(account, m).quantity = 0
                        \/ new.config.contract_size = ensure_market(m).config.contract_size
      BY <2>1, <3>2, Zenon DEF configure_market
    <3> QED
      BY <3>2, <3>3, <3>4, <3>5, MarketBooks
  <2>2. ASSUME NEW m \in Markets, NEW price \in Prices, set_mark_price(m, price)
        PROVE  BooksFollowCash' /\ Untraded'
    <3>1. PICK new : new = [ensure_market(m) EXCEPT !.mark_price = price]
      OBVIOUS
    <3>2. new \in MarketStates /\ new.config = ensure_market(m).config
      <4>1. ensure_market(m) \in MarketStates /\ price \in Int
        BY <2>t, MarketStateTypes, NumbersAssumption
      <4> QED
        BY <3>1, <4>1 DEF MarketStates
    <3>3. /\ markets' = [markets EXCEPT ![m] = new]
          /\ UNCHANGED <<account, net, cash, deposits, rounding>>
      BY <2>2, <3>1 DEF set_mark_price, history
    <3>4. resized' = resized
      BY <2>2 DEF set_mark_price, history
    <3>5. resized' \in BOOLEAN
      BY Zenon DEF TypeOK
    <3> QED
      BY <3>2, <3>3, <3>4, <3>5, MarketBooks
  <2>3. ASSUME NEW amount \in Amounts, credit_collateral(amount) \/ debit_collateral(amount)
        PROVE  BooksFollowCash' /\ Untraded'
    <3>1. amount \in Int /\ -amount \in Int
      BY NumbersAssumption
    <3> QED
      BY <2>3, <3>1, TransferBooks DEF credit_collateral, debit_collateral
  <2>4. ASSUME NEW o \in Orders, PlaceOrder(o) PROVE BooksFollowCash' /\ Untraded'
    BY <2>4, BooksKept DEF PlaceOrder, history
  <2>5. ASSUME NEW o \in orders, NEW quantity \in Quantities, NEW price \in Prices,
               FillOrder(o, quantity, price)
        PROVE  BooksFollowCash' /\ Untraded'
    BY <2>5, FillBooks
  <2>6. ASSUME NEW o \in orders, CancelOrder(o) PROVE BooksFollowCash' /\ Untraded'
    BY <2>6, BooksKept DEF CancelOrder, history
  <2>8. ASSUME NEW o \in orders, NEW quantity \in Quantities, NEW price \in Prices,
               ReplaceOrder(o, quantity, price)
        PROVE  BooksFollowCash' /\ Untraded'
    BY <2>8, BooksKept DEF ReplaceOrder, history
  <2>7. CASE UNCHANGED vars
    BY <2>7, BooksKept DEF vars, history
  <2> QED
    BY <2>1, <2>2, <2>3, <2>4, <2>5, <2>6, <2>7, <2>8 DEF Next
<1> QED
  BY <1>1, <1>2, RiskTypeOK, PTL DEF Spec

-----------------------------------------------------------------------------
(* RiskEngine: an accepted first order leaves the account healthy          *)

\* Larger dividends have no smaller quotients.
LEMMA QuotientMonotone ==
  ASSUME NEW x \in Int, NEW y \in Int, NEW d \in Nat \ {0}, x <= y
  PROVE  Quotient(x, d) <= Quotient(y, d)
<1>1. PICK a, b : a = Quotient(x, d) /\ b = Quotient(y, d)
  OBVIOUS
<1>2. /\ a \in Int
      /\ x >= 0 => a >= 0 /\ a * d <= x /\ x < (a * d) + d
      /\ x <= 0 => a <= 0 /\ x <= a * d /\ (a * d) - d < x
  BY <1>1, QuotientBounds
<1>3. /\ b \in Int
      /\ y >= 0 => b >= 0 /\ b * d <= y /\ y < (b * d) + d
      /\ y <= 0 => b <= 0 /\ y <= b * d /\ (b * d) - d < y
  BY <1>1, QuotientBounds
<1>4. ~ (b < a)
  <2> SUFFICES ASSUME b < a PROVE FALSE
    OBVIOUS
  <2>1. (b * d) + d <= a * d
    <3>1. (b + 1) * d <= a * d
      BY <1>2, <1>3, ProductMonotone
    <3>2. (b + 1) * d = (b * d) + d
      BY <1>3
    <3> QED
      BY <3>1, <3>2
  <2>2. a * d \in Int /\ b * d \in Int
    BY <1>2, <1>3
  <2> QED
    BY <1>2, <1>3, <2>1, <2>2
<1> QED
  BY <1>1, <1>2, <1>3, <1>4

\* The average of one price is that price.
LEMMA QuotientExact ==
  ASSUME NEW p \in Nat, NEW n \in Nat \ {0}
  PROVE  Quotient(p * n, n) = p
<1>1. PICK a, x : a = Quotient(x, n) /\ x = p * n
  OBVIOUS
<1>2. x \in Int /\ x >= 0
  BY <1>1
<1>3. a \in Int /\ a >= 0 /\ a * n <= x /\ x < (a * n) + n
  BY <1>1, <1>2, QuotientBounds
<1>4. ~ (a > p)
  <2> SUFFICES ASSUME a > p PROVE FALSE
    OBVIOUS
  <2>1. p * n < a * n
    BY <1>3
  <2> QED
    BY <1>1, <1>2, <1>3, <2>1
<1>5. ~ (a < p)
  <2> SUFFICES ASSUME a < p PROVE FALSE
    OBVIOUS
  <2>1. (a + 1) * n <= p * n
    BY <1>3, ProductMonotone
  <2>2. (a + 1) * n = (a * n) + n
    BY <1>3
  <2> QED
    BY <1>1, <1>2, <1>3, <2>1, <2>2
<1> QED
  BY <1>1, <1>3, <1>4, <1>5

\* A higher rate asks for no smaller margin of a notional that is not negative.
LEMMA MarginMonotone ==
  ASSUME NEW n \in Nat, NEW a \in Int, NEW b \in Int, a <= b
  PROVE  /\ apply_basis_points(n, a) \in Int /\ apply_basis_points(n, b) \in Int
         /\ apply_basis_points(n, a) <= apply_basis_points(n, b)
<1>1. PICK x, y : x = (n * a) + (Denominator - 1) /\ y = (n * b) + (Denominator - 1)
  OBVIOUS
<1>2. n * a \in Int /\ n * b \in Int /\ n * a <= n * b
  OBVIOUS
<1>3. x \in Int /\ y \in Int /\ x <= y
  BY <1>1, <1>2, NumbersAssumption
<1>4. /\ Quotient(x, Denominator) \in Int /\ Quotient(y, Denominator) \in Int
      /\ Quotient(x, Denominator) <= Quotient(y, Denominator)
  BY <1>3, QuotientBounds, QuotientMonotone, NumbersAssumption
<1> QED
  BY <1>1, <1>4 DEF apply_basis_points

-----------------------------------------------------------------------------

\* No price is negative, and the margins of a market are ordered.
Prudent ==
  /\ \A m \in Markets : markets[m] # NoMarket =>
        /\ markets[m].mark_price >= 0
        /\ markets[m].config.maintenance_bp <= markets[m].config.initial_bp
  /\ \A m \in Markets : PositionIn(account, m).entry_price >= 0

\* The terms of the sums over the exposures.
MarkOf(acc, delta, m) == MarkPrice(m, Exposure(acc, m, delta), delta)

Notional(acc, delta, m) ==
  Abs(Exposure(acc, m, delta).quantity) * MarkOf(acc, delta, m) * markets[m].config.contract_size

MarginTerm(acc, delta, bp, m) ==
  apply_basis_points(Notional(acc, delta, m), markets[m].config[bp])

OpenIn(acc, delta, m) ==
  Exposure(acc, m, delta).quantity
     * (MarkOf(acc, delta, m) - Exposure(acc, m, delta).entry_price)
     * markets[m].config.contract_size

Existing(acc, delta) == {m \in Exposed(acc, delta) : Exposure(acc, m, delta).existed}

\* The sums of summarize, over the markets that have a state.
LEMMA SummarySums ==
  ASSUME NEW acc, NEW delta
  PROVE  /\ initial_margin(acc, delta)
               = SumFunction([m \in Exposed(acc, delta) |-> MarginTerm(acc, delta, "initial_bp", m)])
         /\ maintenance_margin(acc, delta)
               = SumFunction([m \in Exposed(acc, delta) |-> MarginTerm(acc, delta, "maintenance_bp", m)])
         /\ Unrealized(acc, delta)
               = SumFunction([m \in Existing(acc, delta) |-> OpenIn(acc, delta, m)])
BY DEF initial_margin, maintenance_margin, Margin, Unrealized, MarginTerm, OpenIn, Existing,
       Notional, MarkOf

\* These markets are finitely many.
LEMMA ExposedFinite ==
  ASSUME NEW acc, NEW delta
  PROVE  IsFiniteSet(Exposed(acc, delta)) /\ IsFiniteSet(Existing(acc, delta))
<1>1. Exposed(acc, delta) \subseteq Markets /\ Existing(acc, delta) \subseteq Markets
  BY DEF Exposed, Existing
<1> QED
  BY <1>1, FS_Subset, ConfigAssumption

\* Exposures have integers, whatever order is added.
LEMMA ExposureTypes ==
  ASSUME TypeOK, NEW acc \in Accounts, NEW delta, delta.quantity \in Int, delta.price \in Int,
         NEW m \in Exposed(acc, delta)
  PROVE  /\ m \in Markets /\ markets[m] \in MarketStates
         /\ Exposure(acc, m, delta).quantity \in Int
         /\ Exposure(acc, m, delta).entry_price \in Int
         /\ MarkOf(acc, delta, m) \in Int
         /\ markets[m].config.contract_size \in Nat \ {0}
         /\ markets[m].config.initial_bp \in Int /\ markets[m].config.maintenance_bp \in Int
         /\ OpenIn(acc, delta, m) \in Int
<1>1. m \in Markets /\ markets[m] \in MarketStates
  BY DEF Exposed, TypeOK
<1>2. /\ markets[m].config.contract_size \in Nat \ {0} /\ markets[m].mark_price \in Int
      /\ markets[m].config.initial_bp \in Int /\ markets[m].config.maintenance_bp \in Int
  BY <1>1 DEF MarketStates, Configs
<1>3. PICK e : e = Exposure(acc, m, delta)
  OBVIOUS
<1>4. e.quantity \in Int /\ e.entry_price \in Int
  <2>1. CASE acc.positions[m] # NoPosition
    <3>1. acc.positions[m].quantity \in Int /\ acc.positions[m].entry_price \in Int
      BY <1>1, <2>1 DEF Accounts, Positions
    <3> QED
      BY <1>3, <2>1, <3>1 DEF Exposure
  <2>2. CASE acc.positions[m] = NoPosition
    BY <1>3, <2>2 DEF Exposure
  <2> QED
    BY <2>1, <2>2
<1>5. MarkOf(acc, delta, m) \in Int
  BY <1>2, <1>3, <1>4 DEF MarkOf, MarkPrice
<1>6. OpenIn(acc, delta, m) \in Int
  <2>1. PICK q, k, z : /\ q = e.quantity /\ z = markets[m].config.contract_size
                       /\ k = MarkOf(acc, delta, m) - e.entry_price
    OBVIOUS
  <2>2. q * k * z \in Int
    <3>1. q \in Int /\ k \in Int /\ z \in Int
      BY <1>2, <1>4, <1>5, <2>1
    <3> QED
      BY <3>1
  <2> QED
    BY <1>3, <2>1, <2>2 DEF OpenIn
<1> QED
  BY <1>1, <1>2, <1>3, <1>4, <1>5, <1>6

\* The account after the first fill in a market, whole and at the limit price.
FirstFill(acc, new, o) ==
  /\ new \in Accounts /\ acc \in Accounts
  /\ acc.positions[o.market] = NoPosition
  /\ new.positions[o.market]
        = [quantity |-> Signed(o.side, o.quantity), entry_price |-> o.price]
  /\ new.positions[o.market] \in Positions
  /\ \A n \in Markets \ {o.market} : new.positions[n] = acc.positions[n]
  /\ new.collateral = acc.collateral /\ new.realized_pnl = acc.realized_pnl

\* A first order that is filled at once opens its position.
LEMMA FirstFillHappens ==
  ASSUME TypeOK, NEW o \in Orders, o.quantity > 0, o.price \in Nat,
         account.positions[o.market] = NoPosition
  PROVE  FirstFill(account, FilledAtOnce(o), o)
<1>1. /\ o.market \in Markets /\ o.side \in Sides /\ o.quantity \in Nat \ {0}
      /\ account \in Accounts /\ markets \in [Markets -> MarketStates \cup {NoMarket}]
  <2>1. o.market \in Markets /\ o.side \in Sides /\ o.quantity \in Quantities
    BY DEF Orders
  <2>2. o.quantity \in Int
    BY <2>1, NumbersAssumption
  <2> QED
    BY <2>1, <2>2 DEF TypeOK, Accounts
<1>2. PICK pos, s, z, new, gain :
        /\ pos = PositionIn(account, o.market) /\ s = Signed(o.side, o.quantity)
        /\ z = ensure_market(o.market).config.contract_size
        /\ new = Filled(pos, s, o.price) /\ gain = Gain(pos, s, o.price, z)
  OBVIOUS
<1>3. FillOf(account, FilledAtOnce(o), o.market, new, gain)
  BY <1>1, <1>2, FillChanges DEF FilledAtOnce
<1>4. pos = [quantity |-> 0, entry_price |-> 0]
  BY <1>2 DEF PositionIn
<1>5. s \in Int /\ s # 0 /\ Abs(s) = o.quantity
  BY <1>1, <1>2, SignedType
<1>6. Adds(pos.quantity, s)
  BY <1>4 DEF Adds
<1>7. gain = 0 /\ new = Added(pos, s, o.price)
  BY <1>2, <1>6 DEF Gain, Filled
<1>8. new = [quantity |-> s, entry_price |-> o.price]
  <2>1. Abs(0) = 0
    BY DEF Abs
  <2>2. new = [quantity |-> 0 + s,
               entry_price |-> IF 0 + s = 0 THEN 0
                               ELSE Quotient((0 * Abs(0)) + (o.price * Abs(s)), Abs(0) + Abs(s))]
    BY <1>4, <1>7 DEF Added
  <2>3. (0 * Abs(0)) + (o.price * Abs(s)) = o.price * o.quantity /\ Abs(0) + Abs(s) = o.quantity
    BY <1>1, <1>5, <2>1
  <2>4. Quotient(o.price * o.quantity, o.quantity) = o.price
    BY <1>1, QuotientExact
  <2>5. 0 + s = s
    BY <1>5
  <2> QED
    BY <1>5, <2>2, <2>3, <2>4, <2>5
<1>9. account.collateral \in Int /\ account.realized_pnl \in Int
  BY <1>1 DEF Accounts
<1>10. new \in Positions
  BY <1>5, <1>8 DEF Positions
<1> QED
  BY <1>1, <1>2, <1>3, <1>7, <1>8, <1>9, <1>10 DEF FirstFill, FillOf

\* The order as a delta exposes the account as its fill does.
SameExposure(acc, new, o, m) ==
  LET e == Exposure(acc, m, Delta(o))
      f == Exposure(new, m, NoDelta)
  IN  /\ e.quantity = f.quantity
      /\ e.quantity # 0 /\ m # o.market => e = f /\ e.existed
      /\ m = o.market => /\ ~ e.existed /\ f.existed /\ f.entry_price = o.price
                         /\ f.quantity = Signed(o.side, o.quantity)

\* The exposure that the check assumes is the one that the fill leaves.
LEMMA ExposuresAgree ==
  ASSUME NEW acc, NEW new, NEW o, FirstFill(acc, new, o), NEW m \in Markets,
         Signed(o.side, o.quantity) \in Int
  PROVE  SameExposure(acc, new, o, m)
<1>1. /\ Delta(o).market = o.market /\ Delta(o).quantity = Signed(o.side, o.quantity)
      /\ NoDelta.quantity = 0
  BY DEF Delta, NoDelta
<1>2. PICK e, f : e = Exposure(acc, m, Delta(o)) /\ f = Exposure(new, m, NoDelta)
  OBVIOUS
<1>3. CASE m = o.market
  <2>1. e = [quantity |-> Signed(o.side, o.quantity), entry_price |-> Delta(o).price,
             existed |-> FALSE]
    BY <1>1, <1>2, <1>3 DEF Exposure, FirstFill
  <2>2. PICK p : p = new.positions[m]
    OBVIOUS
  <2>3. p # NoPosition /\ p.quantity = Signed(o.side, o.quantity) /\ p.entry_price = o.price
    BY <1>3, <2>2, NullAssumption DEF FirstFill
  <2>4. f = [quantity |-> p.quantity + 0, entry_price |-> p.entry_price, existed |-> TRUE]
    BY <1>1, <1>2, <2>2, <2>3 DEF Exposure
  <2>5. p.quantity + 0 = p.quantity
    BY <2>3
  <2> QED
    BY <1>2, <1>3, <2>1, <2>3, <2>4, <2>5 DEF SameExposure
<1>4. CASE m # o.market
  <2>1. new.positions[m] = acc.positions[m]
    BY <1>4 DEF FirstFill
  <2>2. CASE acc.positions[m] = NoPosition
    <3>1. e.quantity = 0 /\ f.quantity = 0
      BY <1>1, <1>2, <1>4, <2>1, <2>2 DEF Exposure
    <3> QED
      BY <1>2, <1>4, <3>1 DEF SameExposure
  <2>3. CASE acc.positions[m] # NoPosition
    <3>1. e = f /\ e.existed
      BY <1>1, <1>2, <1>4, <2>1, <2>3 DEF Exposure
    <3> QED
      BY <1>2, <1>4, <3>1 DEF SameExposure
  <2> QED
    BY <2>2, <2>3
<1> QED
  BY <1>3, <1>4

\* The margins before the fill, with the order, are the margins after it; the open
\* profit grows by that of the order.
SummaryKept(acc, new, o) ==
  /\ Exposed(acc, Delta(o)) = Exposed(new, NoDelta)
  /\ \A m \in Exposed(acc, Delta(o)) : MarkOf(acc, Delta(o), m) = MarkOf(new, NoDelta, m)
  /\ initial_margin(acc, Delta(o)) = initial_margin(new, NoDelta)
  /\ Existing(new, NoDelta) = Existing(acc, Delta(o)) \cup {o.market}
  /\ o.market \notin Existing(acc, Delta(o))
  /\ \A m \in Existing(acc, Delta(o)) : OpenIn(acc, Delta(o), m) = OpenIn(new, NoDelta, m)

\* A first order in a market that is marked has that effect.
LEMMA SummariesAgree ==
  ASSUME NEW acc, NEW new, NEW o, FirstFill(acc, new, o), o.market \in Markets,
         Signed(o.side, o.quantity) \in Int \ {0},
         markets[o.market] # NoMarket, markets[o.market].mark_price # 0
  PROVE  SummaryKept(acc, new, o)
<1>1. \A m \in Markets : SameExposure(acc, new, o, m)
  BY ExposuresAgree
<1>2. PICK S : S = Exposed(acc, Delta(o))
  OBVIOUS
<1>3. Exposed(new, NoDelta) = S /\ o.market \in S
  BY <1>1, <1>2 DEF Exposed, SameExposure
<1>4. S \subseteq Markets /\ \A m \in S : Exposure(acc, m, Delta(o)).quantity # 0
  BY <1>2 DEF Exposed
<1>5. ASSUME NEW m \in S
      PROVE  /\ MarkOf(acc, Delta(o), m) = MarkOf(new, NoDelta, m)
             /\ Notional(acc, Delta(o), m) = Notional(new, NoDelta, m)
  <2>1. /\ SameExposure(acc, new, o, m) /\ Delta(o).market = o.market /\ NoDelta.price = 0
        /\ Exposure(acc, m, Delta(o)).quantity # 0
    BY <1>1, <1>4 DEF Delta, NoDelta
  <2>2. CASE m = o.market
    BY <2>1, <2>2 DEF MarkOf, MarkPrice, Notional, SameExposure
  <2>3. CASE m # o.market
    <3>1. Exposure(acc, m, Delta(o)) = Exposure(new, m, NoDelta)
      BY <2>1, <2>3 DEF SameExposure
    <3>2. MarkOf(acc, Delta(o), m) = MarkOf(new, NoDelta, m)
      BY <2>1, <2>3, <3>1 DEF MarkOf, MarkPrice
    <3> QED
      BY <3>1, <3>2 DEF Notional
  <2> QED
    BY <2>2, <2>3
<1>6. initial_margin(acc, Delta(o)) = initial_margin(new, NoDelta)
  <2>1. \A m \in S : MarginTerm(acc, Delta(o), "initial_bp", m)
                        = MarginTerm(new, NoDelta, "initial_bp", m)
    BY <1>5 DEF MarginTerm
  <2>2. [m \in S |-> MarginTerm(acc, Delta(o), "initial_bp", m)]
           = [m \in S |-> MarginTerm(new, NoDelta, "initial_bp", m)]
    BY <2>1
  <2>3. initial_margin(acc, Delta(o))
           = SumFunction([m \in S |-> MarginTerm(acc, Delta(o), "initial_bp", m)])
    BY <1>2, SummarySums
  <2>4. initial_margin(new, NoDelta)
           = SumFunction([m \in S |-> MarginTerm(new, NoDelta, "initial_bp", m)])
    BY <1>3, SummarySums
  <2> QED
    BY ONLY <2>2, <2>3, <2>4
<1>7. /\ Existing(new, NoDelta) = Existing(acc, Delta(o)) \cup {o.market}
      /\ o.market \notin Existing(acc, Delta(o))
  <2>1. \A m \in S \ {o.market} : /\ Exposure(new, m, NoDelta).existed
                                  /\ Exposure(acc, m, Delta(o)).existed
    BY <1>1, <1>4 DEF SameExposure
  <2>2. Exposure(new, o.market, NoDelta).existed /\ ~ Exposure(acc, o.market, Delta(o)).existed
    BY <1>1 DEF SameExposure
  <2> QED
    BY <1>2, <1>3, <2>1, <2>2 DEF Existing
<1>8. \A m \in Existing(acc, Delta(o)) : OpenIn(acc, Delta(o), m) = OpenIn(new, NoDelta, m)
  <2> SUFFICES ASSUME NEW m \in Existing(acc, Delta(o))
               PROVE  OpenIn(acc, Delta(o), m) = OpenIn(new, NoDelta, m)
    OBVIOUS
  <2>1. m \in S /\ m # o.market
    BY <1>2, <1>7 DEF Existing
  <2>2. Exposure(acc, m, Delta(o)) = Exposure(new, m, NoDelta)
    BY <1>1, <1>4, <2>1 DEF SameExposure
  <2> QED
    BY <1>5, <2>1, <2>2 DEF OpenIn
<1> QED
  BY <1>2, <1>3, <1>5, <1>6, <1>7, <1>8 DEF SummaryKept

\* An account whose prices are not negative needs no more maintenance than initial margin.
LEMMA MaintenanceLess ==
  ASSUME TypeOK, NEW acc \in Accounts,
         \A m \in Markets : markets[m] # NoMarket =>
            /\ markets[m].mark_price >= 0
            /\ markets[m].config.maintenance_bp <= markets[m].config.initial_bp,
         \A m \in Markets : PositionIn(acc, m).entry_price >= 0
  PROVE  /\ initial_margin(acc, NoDelta) \in Int /\ maintenance_margin(acc, NoDelta) \in Int
         /\ maintenance_margin(acc, NoDelta) <= initial_margin(acc, NoDelta)
<1>1. PICK S, f, g :
        /\ S = Exposed(acc, NoDelta)
        /\ f = [m \in S |-> MarginTerm(acc, NoDelta, "maintenance_bp", m)]
        /\ g = [m \in S |-> MarginTerm(acc, NoDelta, "initial_bp", m)]
  OBVIOUS
<1>2. NoDelta.quantity = 0 /\ NoDelta.price = 0
  BY DEF NoDelta
<1>3. ASSUME NEW m \in S PROVE f[m] \in Int /\ g[m] \in Int /\ f[m] <= g[m]
  <2>1. /\ m \in Markets /\ markets[m] \in MarketStates
        /\ Exposure(acc, m, NoDelta).quantity \in Int
        /\ MarkOf(acc, NoDelta, m) \in Int
        /\ markets[m].config.contract_size \in Nat \ {0}
        /\ markets[m].config.initial_bp \in Int /\ markets[m].config.maintenance_bp \in Int
    BY <1>1, <1>2, ExposureTypes
  <2>2. /\ markets[m] # NoMarket /\ markets[m].mark_price >= 0
        /\ markets[m].config.maintenance_bp <= markets[m].config.initial_bp
    BY <2>1, NullAssumption
  <2>3. MarkOf(acc, NoDelta, m) >= 0
    <3>1. Exposure(acc, m, NoDelta).entry_price >= 0
      <4>1. CASE acc.positions[m] # NoPosition
        <5>1. Exposure(acc, m, NoDelta).entry_price = acc.positions[m].entry_price
          BY <4>1 DEF Exposure
        <5>2. PositionIn(acc, m) = acc.positions[m]
          BY <2>1, <4>1, PositionTypes
        <5> QED
          BY <2>1, <5>1, <5>2
      <4>2. CASE acc.positions[m] = NoPosition
        BY <1>2, <4>2 DEF Exposure
      <4> QED
        BY <4>1, <4>2
    <3> QED
      BY <1>2, <2>2, <3>1 DEF MarkOf, MarkPrice
  <2>4. Notional(acc, NoDelta, m) \in Nat
    <3>1. PICK a, b, z : /\ a = Abs(Exposure(acc, m, NoDelta).quantity)
                         /\ b = MarkOf(acc, NoDelta, m) /\ z = markets[m].config.contract_size
      OBVIOUS
    <3>2. a \in Nat /\ b \in Nat /\ z \in Nat
      BY <2>1, <2>3, <3>1, AbsType
    <3>3. a * b * z \in Nat
      BY <3>2
    <3> QED
      BY <3>1, <3>3 DEF Notional
  <2>5. PICK n, x, y : /\ n = Notional(acc, NoDelta, m)
                       /\ x = markets[m].config.maintenance_bp
                       /\ y = markets[m].config.initial_bp
    OBVIOUS
  <2>6. /\ apply_basis_points(n, x) \in Int /\ apply_basis_points(n, y) \in Int
        /\ apply_basis_points(n, x) <= apply_basis_points(n, y)
    BY <2>1, <2>2, <2>4, <2>5, MarginMonotone
  <2>7. f[m] = apply_basis_points(n, x) /\ g[m] = apply_basis_points(n, y)
    BY <1>1, <2>5 DEF MarginTerm
  <2> QED
    BY <2>6, <2>7
<1>4. IsFiniteSet(S) /\ DOMAIN f = S /\ DOMAIN g = S
  BY <1>1, ExposedFinite
<1>5. SumFunctionOnSet(f, S) <= SumFunctionOnSet(g, S)
  BY <1>3, <1>4, SumMonotone
<1>6. Splits(f, S) /\ Splits(g, S)
  BY <1>3, <1>4, SumSplits
<1>7. maintenance_margin(acc, NoDelta) = SumFunctionOnSet(f, S)
  <2>1. maintenance_margin(acc, NoDelta) = SumFunction(f)
    BY <1>1, SummarySums
  <2> QED
    BY <1>4, <2>1 DEF SumFunction
<1>8. initial_margin(acc, NoDelta) = SumFunctionOnSet(g, S)
  <2>1. initial_margin(acc, NoDelta) = SumFunction(g)
    BY <1>1, SummarySums
  <2> QED
    BY <1>4, <2>1 DEF SumFunction
<1> QED
  BY <1>5, <1>6, <1>7, <1>8 DEF Splits

\* The first order in a market, filled, leaves what the pre-trade check asked for.
LEMMA FirstOrder ==
  ASSUME TypeOK, Prudent, Prices \subseteq Nat,
         NEW o \in Orders, account.positions[o.market] = NoPosition
  PROVE  HealthyAfter(o)
<1> SUFFICES ASSUME o.quantity > 0, markets[o.market] # NoMarket,
                    markets[o.market].mark_price # 0,
                    o.side = "buy" => o.price <= markets[o.market].mark_price,
                    o.side = "sell" => o.price >= markets[o.market].mark_price,
                    evaluate_order(account, o)
             PROVE  Liquidation(FilledAtOnce(o)).status = "healthy"
  BY DEF HealthyAfter
<1>1. /\ o.market \in Markets /\ o.side \in Sides /\ o.quantity \in Int /\ o.price \in Nat
      /\ account \in Accounts
  <2>1. o.market \in Markets /\ o.side \in Sides /\ o.quantity \in Quantities /\ o.price \in Prices
    BY DEF Orders
  <2> QED
    BY <2>1, NumbersAssumption DEF TypeOK, Accounts
<1>2. PICK m, s, new, d : /\ m = o.market /\ s = Signed(o.side, o.quantity)
                          /\ new = FilledAtOnce(o) /\ d = Delta(o)
  OBVIOUS
<1>3. s \in Int \ {0}
  BY <1>1, <1>2, SignedType
<1>4. FirstFill(account, new, o)
  BY <1>1, <1>2, FirstFillHappens
<1>5. SummaryKept(account, new, o)
  BY <1>1, <1>2, <1>3, <1>4, SummariesAgree
<1>6. new \in Accounts
  BY <1>4 DEF FirstFill
<1>7. \A n \in Markets : PositionIn(new, n).entry_price >= 0
  <2> SUFFICES ASSUME NEW n \in Markets PROVE PositionIn(new, n).entry_price >= 0
    OBVIOUS
  <2>1. CASE n = m
    <3>1. new.positions[n] # NoPosition /\ new.positions[n].entry_price = o.price
      BY <1>2, <1>4, <2>1, NullAssumption DEF FirstFill
    <3> QED
      BY <1>1, <3>1 DEF PositionIn
  <2>2. CASE n # m
    <3>1. new.positions[n] = account.positions[n]
      BY <1>2, <1>4, <2>2 DEF FirstFill
    <3>2. PositionIn(new, n) = PositionIn(account, n)
      BY <3>1 DEF PositionIn
    <3> QED
      BY <3>2 DEF Prudent
  <2> QED
    BY <2>1, <2>2
<1>8. /\ initial_margin(new, NoDelta) \in Int /\ maintenance_margin(new, NoDelta) \in Int
      /\ maintenance_margin(new, NoDelta) <= initial_margin(new, NoDelta)
  <2>1. \A n \in Markets : markets[n] # NoMarket =>
           /\ markets[n].mark_price >= 0
           /\ markets[n].config.maintenance_bp <= markets[n].config.initial_bp
    BY DEF Prudent
  <2> QED
    BY <1>6, <1>7, <2>1, MaintenanceLess
<1>9. PICK S, f, g : /\ S = Existing(account, d)
                     /\ f = [n \in S |-> OpenIn(account, d, n)]
                     /\ g = [n \in Existing(new, NoDelta) |-> OpenIn(new, NoDelta, n)]
  OBVIOUS
<1>10. /\ Existing(new, NoDelta) = S \cup {m} /\ m \notin S
       /\ \A n \in S : OpenIn(account, d, n) = OpenIn(new, NoDelta, n)
  BY <1>2, <1>5, <1>9 DEF SummaryKept
<1>11. /\ d.quantity \in Int /\ d.price \in Int
       /\ NoDelta.quantity \in Int /\ NoDelta.price \in Int
  BY <1>1, <1>2, <1>3 DEF Delta, NoDelta
<1>12. \A n \in S : OpenIn(account, d, n) \in Int
  <2>1. \A n \in S : n \in Exposed(account, d)
    BY <1>9 DEF Existing
  <2> QED
    BY <1>1, <1>11, <2>1, ExposureTypes
<1>13. m \in Exposed(new, NoDelta)
  BY <1>10 DEF Existing
<1>14. OpenIn(new, NoDelta, m) \in Nat
  <2>1. PICK k, p, z, e : /\ k = markets[m].mark_price /\ p = o.price
                          /\ z = markets[m].config.contract_size
                          /\ e = Exposure(new, m, NoDelta)
    OBVIOUS
  <2>2. k \in Int /\ p \in Int /\ z \in Nat /\ k # 0
    <3>1. /\ markets[m] \in MarketStates /\ markets[m].config.contract_size \in Nat \ {0}
      BY <1>6, <1>11, <1>13, ExposureTypes
    <3> QED
      BY <1>1, <1>2, <2>1, <3>1 DEF MarketStates
  <2>3. e.quantity = s /\ e.entry_price = p
    <3>1. SameExposure(account, new, o, m)
      BY <1>1, <1>2, <1>3, <1>4, ExposuresAgree
    <3> QED
      BY <1>2, <2>1, <3>1 DEF SameExposure
  <2>4. MarkOf(new, NoDelta, m) = k
    BY <2>1, <2>2 DEF MarkOf, MarkPrice
  <2>5. OpenIn(new, NoDelta, m) = s * (k - p) * z
    BY <2>1, <2>3, <2>4 DEF OpenIn
  <2>6. s * (k - p) \in Nat
    <3>1. CASE o.side = "buy"
      <4>1. s > 0 /\ k - p >= 0
        BY <1>1, <1>2, <2>1, <2>2, <3>1 DEF Signed
      <4> QED
        BY <1>3, <2>2, <4>1
    <3>2. CASE o.side = "sell"
      <4>1. s < 0 /\ k - p <= 0
        BY <1>1, <1>2, <2>1, <2>2, <3>2 DEF Signed
      <4>2. PICK a, b : a = -s /\ b = p - k
        OBVIOUS
      <4>3. a \in Nat /\ b \in Nat
        BY <1>3, <2>2, <4>1, <4>2
      <4>4. s = -a /\ k - p = -b
        BY <1>3, <2>2, <4>2
      <4>5. (-a) * (-b) = a * b /\ a * b \in Nat
        BY <4>3
      <4> QED
        BY <4>4, <4>5
    <3> QED
      BY <1>1, <3>1, <3>2 DEF Sides
  <2>7. PICK x : x = s * (k - p)
    OBVIOUS
  <2>8. x * z \in Nat
    BY <2>2, <2>6, <2>7
  <2> QED
    BY <2>5, <2>7, <2>8
<1>15. SumFunction(f) \in Int /\ SumFunction(g) = SumFunction(f) + (g[m] - 0)
  <2>1. IsFiniteSet(S)
    BY <1>9, ExposedFinite
  <2>2. Changes(f, g, S, m, 0)
    BY <1>9, <1>10, <1>12, <1>14 DEF Changes
  <2> QED
    BY <2>1, <2>2, SumChanges
<1>16. PICK U, U2, t, C, R, I, M :
         /\ U = Unrealized(account, d) /\ U2 = Unrealized(new, NoDelta)
         /\ t = OpenIn(new, NoDelta, m) /\ C = account.collateral /\ R = account.realized_pnl
         /\ I = initial_margin(new, NoDelta) /\ M = maintenance_margin(new, NoDelta)
  OBVIOUS
<1>17. U \in Int /\ t \in Nat /\ U2 = U + t
  <2>1. U = SumFunction(f) /\ U2 = SumFunction(g)
    BY <1>9, <1>16, SummarySums
  <2>2. g[m] = t
    BY <1>9, <1>10, <1>16
  <2> QED
    BY <1>14, <1>15, <1>16, <2>1, <2>2
<1>18. C \in Int /\ R \in Int /\ new.collateral = C /\ new.realized_pnl = R
  BY <1>1, <1>4, <1>16 DEF Accounts, FirstFill
<1>19. equity(account, d) = C + R + U /\ equity(new, NoDelta) = C + R + U2
  BY <1>16, <1>18 DEF equity
<1>20. initial_margin(account, d) = I
  BY <1>2, <1>5, <1>16 DEF SummaryKept
<1>21. ~ (I > C + R + U)
  BY <1>2, <1>19, <1>20 DEF evaluate_order, InsufficientMargin
<1>22. I \in Int /\ M \in Int /\ M <= I
  BY <1>8, <1>16
<1>23. PICK worth : worth = equity(new, NoDelta)
  OBVIOUS
<1>24. ~ (worth < I) /\ ~ (worth < M)
  BY <1>17, <1>18, <1>19, <1>21, <1>22, <1>23
<1>25. Liquidation(new).status = "healthy"
  BY <1>16, <1>23, <1>24 DEF Liquidation
<1> QED
  BY <1>2, <1>25

\* No fill makes an entry price negative.
LEMMA FilledPrudent ==
  ASSUME NEW pos \in Positions, NEW s \in Int, NEW price \in Nat, pos.entry_price >= 0
  PROVE  Filled(pos, s, price).entry_price >= 0
<1>1. pos.quantity \in Int /\ pos.entry_price \in Nat
  BY DEF Positions
<1>2. CASE ~ Adds(pos.quantity, s)
  BY <1>1, <1>2 DEF Filled, Reduced
<1>3. CASE Adds(pos.quantity, s)
  <2>1. PICK T, N : /\ T = Abs(pos.quantity) + Abs(s)
                    /\ N = (pos.entry_price * Abs(pos.quantity)) + (price * Abs(s))
    OBVIOUS
  <2>2. /\ Abs(pos.quantity) \in Nat /\ Abs(s) \in Nat
        /\ pos.quantity + s # 0 => T \in Nat \ {0}
    BY <1>1, <2>1 DEF Abs
  <2>3. pos.entry_price * Abs(pos.quantity) \in Nat /\ price * Abs(s) \in Nat
    BY <1>1, <2>2
  <2>4. N \in Nat
    BY <2>1, <2>3
  <2>5. pos.quantity + s # 0 => Quotient(N, T) >= 0
    BY <2>2, <2>4, QuotientBounds
  <2>6. Filled(pos, s, price).entry_price
           = IF pos.quantity + s = 0 THEN 0 ELSE Quotient(N, T)
    BY <1>3, <2>1 DEF Filled, Added
  <2> QED
    BY <2>5, <2>6
<1> QED
  BY <1>2, <1>3

\* A market's part of it.
PrudentMarket(state) ==
  state.mark_price >= 0 /\ state.config.maintenance_bp <= state.config.initial_bp

\* A market that is prudent stays so when another one is set.
LEMMA PrudentSet ==
  ASSUME TypeOK, Prudent, NEW m \in Markets, NEW new \in MarketStates,
         PrudentMarket(new), markets' = [markets EXCEPT ![m] = new],
         \A n \in Markets : PositionIn(account', n).entry_price >= 0
  PROVE  Prudent'
<1>1. \A n \in Markets : markets'[n] # NoMarket =>
         /\ markets'[n].mark_price >= 0
         /\ markets'[n].config.maintenance_bp <= markets'[n].config.initial_bp
  <2> SUFFICES ASSUME NEW n \in Markets, markets'[n] # NoMarket
               PROVE  PrudentMarket(markets'[n])
    BY DEF PrudentMarket
  <2>1. CASE n = m
    BY <2>1 DEF TypeOK
  <2>2. CASE n # m
    <3>1. markets'[n] = markets[n]
      BY <2>2 DEF TypeOK
    <3> QED
      BY <3>1 DEF Prudent, PrudentMarket
  <2> QED
    BY <2>1, <2>2
<1> QED
  BY <1>1 DEF Prudent

\* A market that is created is prudent.
LEMMA EnsuredPrudent ==
  ASSUME Prudent, NEW m \in Markets
  PROVE  PrudentMarket(ensure_market(m))
BY DEF Prudent, PrudentMarket, ensure_market, DefaultMarket

\* The pre-trade check is right for the first order of an account in a market: accepted
\* at the mark price or a better one and filled at once, it leaves the account with the
\* initial margin that it then needs, whatever the other positions.  The loader compares
\* the two margins of a market; prices are not negative.
THEOREM FirstOrderHealthyHolds ==
  ASSUME Prices \subseteq Nat,
         \A m \in Markets : \A config \in Config[m] : config.maintenance_bp <= config.initial_bp
  PROVE  Spec => []FirstOrderHealthy
<1>1. Init => Prudent
  <2> SUFFICES ASSUME Init PROVE Prudent
    OBVIOUS
  <2>1. PICK config \in [Configured -> UNION {Config[m] : m \in Configured}],
             mark_price \in [Configured -> Prices \cup {0}] :
          /\ \A m \in Configured : config[m] \in Config[m]
          /\ markets = [m \in Markets |->
                          IF m \in Configured
                          THEN [config |-> config[m], mark_price |-> mark_price[m]]
                          ELSE NoMarket]
    BY DEF Init
  <2>2. ASSUME NEW m \in Markets, markets[m] # NoMarket
        PROVE  /\ markets[m].mark_price >= 0
               /\ markets[m].config.maintenance_bp <= markets[m].config.initial_bp
    <3>1. m \in Configured /\ markets[m].config = config[m] /\ markets[m].mark_price = mark_price[m]
      BY <2>1, <2>2
    <3>2. config[m] \in Config[m] /\ mark_price[m] \in Prices \cup {0}
      BY <2>1, <3>1
    <3>3. Prices \cup {0} \subseteq Nat
      OBVIOUS
    <3>4. mark_price[m] \in Nat
      BY ONLY <3>2, <3>3
    <3>5. config[m].maintenance_bp <= config[m].initial_bp
      BY <3>2
    <3> QED
      BY <3>1, <3>4, <3>5
  <2>3. \A m \in Markets : account.positions[m] = NoPosition
    BY DEF Init
  <2>4. \A m \in Markets : PositionIn(account, m).entry_price >= 0
    BY <2>3 DEF PositionIn
  <2> QED
    BY <2>2, <2>4 DEF Prudent
<1>2. TypeOK /\ Prudent /\ [Next]_vars => Prudent'
  <2> SUFFICES ASSUME TypeOK, Prudent, [Next]_vars PROVE Prudent'
    OBVIOUS
  <2>t. markets \in [Markets -> MarketStates \cup {NoMarket}] /\ account \in Accounts
    BY DEF TypeOK, Accounts
  <2>p. \A n \in Markets : PositionIn(account, n).entry_price >= 0
    BY DEF Prudent
  <2>1. ASSUME NEW m \in Markets, NEW config \in Config[m], configure_market(m, config)
        PROVE  Prudent'
    <3>1. PICK new : new = [ensure_market(m) EXCEPT !.config = config]
      OBVIOUS
    <3>2. ensure_market(m) \in MarketStates /\ config \in Configs
      BY <2>t, MarketStateTypes, ConfigAssumption
    <3>3. new \in MarketStates /\ new.config = config /\ new.mark_price = ensure_market(m).mark_price
      BY <3>1, <3>2 DEF MarketStates
    <3>4. PrudentMarket(new)
      BY <3>3, EnsuredPrudent DEF PrudentMarket
    <3>5. markets' = [markets EXCEPT ![m] = new] /\ account' = account
      BY <2>1, <3>1 DEF configure_market
    <3>6. \A n \in Markets : PositionIn(account', n).entry_price >= 0
      BY <2>p, <3>5
    <3> QED
      BY <3>3, <3>4, <3>5, <3>6, PrudentSet
  <2>2. ASSUME NEW m \in Markets, NEW price \in Prices, set_mark_price(m, price)
        PROVE  Prudent'
    <3>1. PICK new : new = [ensure_market(m) EXCEPT !.mark_price = price]
      OBVIOUS
    <3>2. ensure_market(m) \in MarketStates /\ price \in Nat
      BY <2>t, MarketStateTypes
    <3>3. new \in MarketStates /\ new.config = ensure_market(m).config /\ new.mark_price = price
      BY <3>1, <3>2 DEF MarketStates
    <3>4. PrudentMarket(new)
      BY <3>2, <3>3, EnsuredPrudent DEF PrudentMarket
    <3>5. markets' = [markets EXCEPT ![m] = new] /\ account' = account
      BY <2>2, <3>1 DEF set_mark_price
    <3>6. \A n \in Markets : PositionIn(account', n).entry_price >= 0
      BY <2>p, <3>5
    <3> QED
      BY <3>3, <3>4, <3>5, <3>6, PrudentSet
  <2>3. ASSUME NEW amount, Transfer(amount) PROVE Prudent'
    <3>1. account'.positions = account.positions /\ markets' = markets
      BY <2>3, <2>t DEF Transfer, Accounts
    <3>2. \A n : PositionIn(account', n) = PositionIn(account, n)
      BY <3>1 DEF PositionIn
    <3> QED
      BY <3>1, <3>2 DEF Prudent
  <2>4. CASE UNCHANGED <<account, markets>>
    BY <2>4 DEF Prudent, PositionIn
  <2>5. ASSUME NEW o \in orders, NEW quantity \in Quantities, NEW price \in Prices,
               FillOrder(o, quantity, price)
        PROVE  Prudent'
    <3>1. PICK m, pos, s, z :
            /\ m = o.market /\ pos = PositionIn(account, m) /\ s = Signed(o.side, quantity)
            /\ z = ensure_market(m).config.contract_size
      OBVIOUS
    <3>2. m \in Markets /\ o.side \in Sides /\ quantity \in Int /\ price \in Int /\ price \in Nat
      BY <3>1, FillTypes
    <3>3. pos \in Positions /\ s \in Int /\ pos.entry_price >= 0
      BY <2>t, <2>p, <3>1, <3>2, PositionTypes, SignedType
    <3>4. FillOf(account, account', m, Filled(pos, s, price), Gain(pos, s, price, z))
      BY <2>5, <2>t, <3>1, <3>2, FillChanges DEF FillOrder
    <3>5. Filled(pos, s, price).entry_price >= 0
      BY <3>2, <3>3, FilledPrudent
    <3>6. \A n \in Markets : PositionIn(account', n).entry_price >= 0
      BY <2>p, <3>4, <3>5 DEF FillOf
    <3>7. markets' = [markets EXCEPT ![m] = ensure_market(m)]
      BY <2>5, <3>1 DEF FillOrder
    <3>8. ensure_market(m) \in MarketStates /\ PrudentMarket(ensure_market(m))
      BY <2>t, <3>2, MarketStateTypes, EnsuredPrudent
    <3> QED
      BY <3>2, <3>6, <3>7, <3>8, PrudentSet
  <2>6. ASSUME NEW o \in Orders, PlaceOrder(o) PROVE Prudent'
    BY <2>4, <2>6 DEF PlaceOrder
  <2>7. ASSUME NEW o \in orders, CancelOrder(o) PROVE Prudent'
    BY <2>4, <2>7 DEF CancelOrder
  <2>9. ASSUME NEW o \in orders, NEW quantity \in Quantities, NEW price \in Prices,
               ReplaceOrder(o, quantity, price)
        PROVE  Prudent'
    BY <2>4, <2>9 DEF ReplaceOrder
  <2>8. CASE UNCHANGED vars
    BY <2>4, <2>8 DEF vars
  <2> QED
    BY <2>1, <2>2, <2>3, <2>5, <2>6, <2>7, <2>8, <2>9
       DEF Next, credit_collateral, debit_collateral
<1>3. TypeOK /\ Prudent => FirstOrderHealthy
  BY FirstOrder DEF FirstOrderHealthy
<1> QED
  BY <1>1, <1>2, <1>3, RiskTypeOK, PTL DEF Spec

-----------------------------------------------------------------------------
(* TelemetrySink: powers of two, as numbers of subsets                     *)

Pow(n) == 2 ^ n

\* The number of subsets of a finite set.
LEMMA PowIsSubsets ==
  ASSUME NEW S, IsFiniteSet(S)
  PROVE  /\ IsFiniteSet(SUBSET S)
         /\ Cardinality(SUBSET S) = Pow(Cardinality(S))
BY FS_SUBSET DEF Pow

\* So powers are numbers.
LEMMA PowType ==
  ASSUME NEW n \in Nat
  PROVE  Pow(n) \in Nat
<1>1. IsFiniteSet(1 .. n) /\ Cardinality(1 .. n) = n
  BY FS_Interval
<1> QED
  BY <1>1, PowIsSubsets, FS_CardinalityType

\* The empty set has one subset.
LEMMA PowZero == Pow(0) = 1
<1>1. IsFiniteSet({}) /\ Cardinality({}) = 0
  BY FS_EmptySet
<1>2. SUBSET {} = {{}}
  OBVIOUS
<1>3. Cardinality({{}}) = 1
  BY FS_Singleton
<1> QED
  BY <1>1, <1>2, <1>3, PowIsSubsets

\* The subsets of a set with one more element are those without and those with it.
LEMMA PowNext ==
  ASSUME NEW n \in Nat
  PROVE  Pow(n + 1) = 2 * Pow(n)
<1>1. PICK S : S = 1 .. n
  OBVIOUS
<1>2. PICK T : T = S \cup {n + 1}
  OBVIOUS
<1>3. IsFiniteSet(S) /\ Cardinality(S) = n /\ n + 1 \notin S
  BY <1>1, FS_Interval
<1>4. IsFiniteSet(T) /\ Cardinality(T) = n + 1
  BY <1>2, <1>3, FS_AddElement
<1>5. PICK with : with = {s \cup {n + 1} : s \in SUBSET S}
  OBVIOUS
<1>6. SUBSET T = (SUBSET S) \cup with
  <2>1. ASSUME NEW t \in SUBSET T, n + 1 \in t
        PROVE  t \in with
    <3>1. t \ {n + 1} \in SUBSET S /\ t = (t \ {n + 1}) \cup {n + 1}
      BY <1>2, <2>1
    <3> QED
      BY <1>5, <3>1
  <2>2. \A t \in SUBSET T : n + 1 \notin t => t \in SUBSET S
    BY <1>2
  <2>3. \A t \in with : t \in SUBSET T
    BY <1>2, <1>5
  <2>4. \A t \in SUBSET S : t \in SUBSET T
    BY <1>2
  <2> QED
    BY <2>1, <2>2, <2>3, <2>4
<1>7. (SUBSET S) \cap with = {}
  BY <1>3, <1>5
<1>8. IsFiniteSet(SUBSET S) /\ Cardinality(SUBSET S) = Pow(n)
  BY <1>3, PowIsSubsets
<1>9. IsFiniteSet(with) /\ Cardinality(with) = Pow(n)
  <2>1. PICK f : f = [s \in SUBSET S |-> s \cup {n + 1}]
    OBVIOUS
  <2>2. f \in Bijection(SUBSET S, with)
    <3>1. f \in [SUBSET S -> with]
      BY <1>5, <2>1
    <3>2. ASSUME NEW a \in SUBSET S, NEW b \in SUBSET S, f[a] = f[b]
          PROVE  a = b
      <4>1. a \cup {n + 1} = b \cup {n + 1}
        BY <2>1, <3>2
      <4>2. n + 1 \notin a /\ n + 1 \notin b
        BY <1>3
      <4> QED
        BY <4>1, <4>2
    <3>3. \A w \in with : \E s \in SUBSET S : f[s] = w
      BY <1>5, <2>1
    <3> QED
      BY <3>1, <3>2, <3>3 DEF Bijection, Injection, Surjection, IsInjective
  <2>3. ExistsBijection(SUBSET S, with)
    BY <2>2 DEF ExistsBijection
  <2> QED
    BY <1>8, <2>3, FS_Bijection
<1>10. Cardinality((SUBSET S) \cup with) = Pow(n) + Pow(n)
  <2>1. /\ Cardinality((SUBSET S) \cup with)
           = Cardinality(SUBSET S) + Cardinality(with) - Cardinality((SUBSET S) \cap with)
    BY <1>8, <1>9, FS_Union
  <2>2. Cardinality((SUBSET S) \cap with) = 0
    BY <1>7, FS_EmptySet
  <2> QED
    BY <1>8, <1>9, <2>1, <2>2, PowType
<1>11. Cardinality(SUBSET T) = Pow(n + 1)
  BY <1>4, PowIsSubsets
<1>12. Pow(n + 1) = Pow(n) + Pow(n)
  BY <1>6, <1>10, <1>11
<1>13. \A p \in Nat : p + p = 2 * p
  OBVIOUS
<1> QED
  BY <1>12, <1>13, PowType

\* Powers are larger than their exponents.
LEMMA PowGrows ==
  ASSUME NEW n \in Nat
  PROVE  Pow(n) > n
<1> DEFINE T == {k \in Nat : ~ (Pow(k) > k)}
<1>1. T = {}
  <2> SUFFICES ASSUME T # {} PROVE FALSE
    OBVIOUS
  <2>1. PICK x \in T : \A y \in T : x <= y
    BY LeastNumber
  <2>2. x # 0
    BY <2>1, PowZero
  <2>3. PICK k \in Nat : x = k + 1
    <3>1. x - 1 \in Nat /\ x = (x - 1) + 1
      BY <2>1, <2>2
    <3> QED
      BY <3>1
  <2>4. Pow(k) > k
    BY <2>1, <2>3
  <2> QED
    BY <2>1, <2>3, <2>4, PowNext, PowType
<1> QED
  BY <1>1

\* And grow with them.
LEMMA PowMonotone ==
  ASSUME NEW m \in Nat, NEW n \in Nat, m <= n
  PROVE  Pow(m) <= Pow(n)
<1> DEFINE T == {d \in Nat : ~ (Pow(m) <= Pow(m + d))}
<1>1. T = {}
  <2> SUFFICES ASSUME T # {} PROVE FALSE
    OBVIOUS
  <2>1. PICK x \in T : \A y \in T : x <= y
    BY LeastNumber
  <2>2. x # 0
    BY <2>1, PowType
  <2>3. PICK k \in Nat : x = k + 1
    <3>1. x - 1 \in Nat /\ x = (x - 1) + 1
      BY <2>1, <2>2
    <3> QED
      BY <3>1
  <2>4. Pow(m) <= Pow(m + k)
    BY <2>1, <2>3
  <2>5. m + k \in Nat /\ m + x = (m + k) + 1
    BY <2>3
  <2>6. PICK p, q : p = Pow(m + k) /\ q = Pow((m + k) + 1)
    OBVIOUS
  <2>7. p \in Nat /\ q = 2 * p
    BY <2>5, <2>6, PowNext, PowType
  <2>8. ~ (Pow(m) <= q) /\ Pow(m) <= p /\ Pow(m) \in Nat
    BY <2>1, <2>4, <2>5, <2>6, PowType
  <2> QED
    BY <2>7, <2>8
<1>2. n - m \in Nat /\ m + (n - m) = n
  OBVIOUS
<1> QED
  BY <1>1, <1>2

-----------------------------------------------------------------------------
(* TelemetrySink: buckets                                                  *)

\* The powers of two around a number.
LEMMA BitWidthBounds ==
  ASSUME NEW x \in Nat \ {0}
  PROVE  /\ BitWidth(x) \in Nat \ {0}
         /\ Pow(BitWidth(x) - 1) <= x
         /\ x < Pow(BitWidth(x))
<1>1. \E n \in 0 .. x : Pow(n) > x /\ (n = 0 \/ Pow(n - 1) <= x)
  <2> DEFINE T == {n \in Nat : Pow(n) > x}
  <2>1. x \in T
    BY PowGrows
  <2>2. PICK n \in T : \A k \in T : n <= k
    BY <2>1, LeastNumber
  <2>3. n \in 0 .. x
    BY <2>1, <2>2
  <2>4. ASSUME n # 0 PROVE Pow(n - 1) <= x
    <3>1. n - 1 \in Nat /\ n - 1 \notin T
      BY <2>2, <2>4
    <3> QED
      BY <3>1, PowType
  <2> QED
    BY <2>2, <2>3, <2>4
<1>2. PICK w : w = BitWidth(x)
  OBVIOUS
<1>3. w \in 0 .. x /\ Pow(w) > x /\ (w = 0 \/ Pow(w - 1) <= x)
  BY <1>1, <1>2 DEF BitWidth, Pow
<1>4. w # 0
  BY <1>3, PowZero
<1> QED
  BY <1>2, <1>3, <1>4

\* Larger numbers have no fewer bits.
LEMMA BitWidthMonotone ==
  ASSUME NEW x \in Nat \ {0}, NEW y \in Nat \ {0}, x <= y
  PROVE  BitWidth(x) <= BitWidth(y)
<1>1. PICK v, w : v = BitWidth(x) /\ w = BitWidth(y)
  OBVIOUS
<1>2. v \in Nat \ {0} /\ w \in Nat \ {0} /\ Pow(v - 1) <= x /\ y < Pow(w)
  BY <1>1, BitWidthBounds
<1>3. ASSUME v > w PROVE FALSE
  <2>1. v - 1 \in Nat /\ w <= v - 1
    BY <1>2, <1>3
  <2>2. Pow(w) <= Pow(v - 1)
    BY <1>2, <2>1, PowMonotone
  <2> QED
    BY <1>2, <2>1, <2>2, PowType
<1> QED
  BY <1>1, <1>2, <1>3

Buckets == 0 .. kNumBuckets - 1

\* Every value has a bucket.
LEMMA BucketIndexType ==
  ASSUME NEW v \in Int
  PROVE  bucket_index(v) \in Buckets
<1>1. CASE v <= 0
  BY <1>1, TelemetryAssumption DEF bucket_index, Buckets
<1>2. CASE v > 0
  BY <1>2, TelemetryAssumption, BitWidthBounds DEF bucket_index, Buckets
<1> QED
  BY <1>1, <1>2

\* Larger values have higher buckets.
LEMMA BucketIndexMonotone ==
  ASSUME NEW v \in Int, NEW w \in Int, v <= w
  PROVE  bucket_index(v) <= bucket_index(w)
<1>1. CASE v <= 0
  <2>1. bucket_index(v) = 0
    BY <1>1 DEF bucket_index
  <2> QED
    BY <2>1, BucketIndexType DEF Buckets
<1>2. CASE v > 0
  <2>1. /\ BitWidth(v) <= BitWidth(w) /\ BitWidth(v) \in Nat /\ BitWidth(w) \in Nat
    BY <1>2, BitWidthMonotone, BitWidthBounds
  <2> QED
    BY <1>2, <2>1, TelemetryAssumption DEF bucket_index
<1> QED
  BY <1>1, <1>2

\* HoldingUpto the range of the buckets, the midpoint is that close to the value.
LEMMA MidpointClose ==
  ASSUME NEW x \in Int, x >= 2, x < Pow(kNumBuckets - 1),
         NEW v \in bucket_midpoint(bucket_index(x))
  PROVE  3 * x <= 4 * v /\ 4 * v <= 6 * x
<1>1. PICK w : w = BitWidth(x)
  OBVIOUS
<1>2. w \in Nat \ {0} /\ Pow(w - 1) <= x /\ x < Pow(w)
  BY <1>1, BitWidthBounds
<1>3. ASSUME w > kNumBuckets - 1 PROVE FALSE
  <2>1. kNumBuckets - 1 \in Nat /\ w - 1 \in Nat /\ kNumBuckets - 1 <= w - 1
    BY <1>2, <1>3, TelemetryAssumption
  <2>2. Pow(kNumBuckets - 1) <= Pow(w - 1)
    BY <2>1, PowMonotone
  <2> QED
    BY <1>2, <2>1, <2>2, PowType
<1>4. bucket_index(x) = w
  BY <1>1, <1>3 DEF bucket_index
<1>5. w # 1
  <2>1. Pow(1) = 2 * Pow(0)
    <3>1. Pow(0 + 1) = 2 * Pow(0) /\ 0 + 1 = 1
      BY PowNext
    <3> QED
      BY <3>1
  <2> QED
    BY <1>2, <2>1, PowZero
<1>6. PICK k \in Nat : w = k + 2
  <2>1. w - 2 \in Nat /\ w = (w - 2) + 2
    BY <1>2, <1>5
  <2> QED
    BY <2>1
<1>7. PICK p : p = Pow(k)
  OBVIOUS
<1>8. p \in Nat /\ Pow(k + 1) = 2 * p /\ Pow(k + 2) = 4 * p
  <2>1. p \in Nat /\ Pow(k + 1) = 2 * p
    BY <1>7, PowType, PowNext
  <2>2. Pow((k + 1) + 1) = 2 * Pow(k + 1) /\ (k + 1) + 1 = k + 2
    BY PowNext
  <2> QED
    BY <2>1, <2>2
<1>9. 2 * p <= x /\ x < 4 * p
  <2>1. w - 1 = k + 1
    BY <1>6
  <2> QED
    BY <1>2, <1>6, <1>8, <2>1
<1>10. v = 3 * p
  <2>1. w # 0 /\ w # 1 /\ w - 2 = k
    BY <1>6
  <2>2. bucket_midpoint(w) = {3 * Pow(w - 2)}
    BY <2>1, Zenon DEF bucket_midpoint, Pow
  <2> QED
    BY <1>4, <1>7, <2>1, <2>2
<1> QED
  BY <1>8, <1>9, <1>10

-----------------------------------------------------------------------------
(* TelemetrySink: ranks                                                    *)

\* A finite set of integers that is not empty has a largest and a smallest element.
HasEnds(s) == /\ \E x \in s : \A y \in s : y <= x
              /\ \E x \in s : \A y \in s : x <= y

\* By the smallest subset for which it fails: there is none.
LEMMA FiniteEnds ==
  ASSUME NEW S \in SUBSET Int, IsFiniteSet(S), S # {}
  PROVE  HasEnds(S)
<1> DEFINE Bad == {s \in SUBSET S : s # {} /\ ~ HasEnds(s)}
<1>1. Bad = {}
  <2> SUFFICES ASSUME Bad # {} PROVE FALSE
    OBVIOUS
  <2>0. Bad \in SUBSET (SUBSET S)
    OBVIOUS
  <2> HIDE DEF Bad
  <2>1. PICK s \in Bad : \A t \in SUBSET S : Cardinality(t) < Cardinality(s) => t \notin Bad
    BY <2>0, SmallestSubset
  <2> USE DEF Bad
  <2>2. PICK x : x \in s
    BY <2>1
  <2>3. PICK t : t = s \ {x}
    OBVIOUS
  <2>4. s \in SUBSET S /\ ~ HasEnds(s) /\ x \in Int
    BY <2>1, <2>2
  <2>5. t \in SUBSET S /\ Cardinality(t) = Cardinality(s) - 1 /\ Cardinality(s) \in Nat
    BY <2>2, <2>3, <2>4, SubsetSizes
  <2>6. t \notin Bad
    BY <2>1, <2>5
  <2>7. CASE t = {}
    <3>1. \A y \in s : y = x
      BY <2>3, <2>7
    <3> QED
      BY <2>2, <2>4, <3>1 DEF HasEnds
  <2>8. CASE t # {}
    <3>1. HasEnds(t)
      BY <2>5, <2>6, <2>8
    <3>2. PICK a \in t : \A y \in t : y <= a
      BY <3>1 DEF HasEnds
    <3>3. PICK b \in t : \A y \in t : b <= y
      BY <3>1 DEF HasEnds
    <3>4. /\ a \in s /\ b \in s /\ a \in Int /\ b \in Int
          /\ \A y \in s : y \in Int /\ (y = x \/ y \in t)
      BY <2>3, <2>4, <3>2, <3>3
    <3>5. \E m \in s : \A y \in s : y <= m
      <4>1. CASE a <= x
        BY <2>2, <2>4, <3>2, <3>4, <4>1
      <4>2. CASE x <= a
        BY <2>2, <2>4, <3>2, <3>4, <4>2
      <4> QED
        BY <2>4, <3>4, <4>1, <4>2
    <3>6. \E m \in s : \A y \in s : m <= y
      <4>1. CASE b <= x
        BY <2>2, <2>4, <3>3, <3>4, <4>1
      <4>2. CASE x <= b
        BY <2>2, <2>4, <3>3, <3>4, <4>2
      <4> QED
        BY <2>4, <3>4, <4>1, <4>2
    <3> QED
      BY <2>4, <3>5, <3>6 DEF HasEnds
  <2> QED
    BY <2>7, <2>8
<1> QED
  BY <1>1, Zenon

\* The places of the smaller elements, and of the elements up to x.
Below(q, x) == {i \in DOMAIN q : q[i] < x}
Upto(q, x) == {i \in DOMAIN q : q[i] <= x}

HasRank(q, x, n) == Cardinality(Below(q, x)) < n /\ Cardinality(Upto(q, x)) >= n

\* Sets of places are finite, and larger ones have more places.
LEMMA Places ==
  ASSUME NEW q \in Seq(Int)
  PROVE  /\ IsFiniteSet(DOMAIN q) /\ Cardinality(DOMAIN q) = Len(q)
         /\ \A s \in SUBSET DOMAIN q : IsFiniteSet(s) /\ Cardinality(s) \in Nat
         /\ \A s, t \in SUBSET DOMAIN q : s \subseteq t => Cardinality(s) <= Cardinality(t)
<1>1. DOMAIN q = 1 .. Len(q) /\ Len(q) \in Nat
  OBVIOUS
<1>2. IsFiniteSet(DOMAIN q) /\ Cardinality(DOMAIN q) = Len(q)
  BY <1>1, FS_Interval
<1>3. \A s \in SUBSET DOMAIN q : IsFiniteSet(s) /\ Cardinality(s) \in Nat
  BY <1>2, FS_Subset, FS_CardinalityType
<1>4. \A s, t \in SUBSET DOMAIN q : s \subseteq t => Cardinality(s) <= Cardinality(t)
  BY <1>3, FS_Subset
<1> QED
  BY <1>2, <1>3, <1>4

\* Every rank is that of some element.
LEMMA RankedHasRank ==
  ASSUME NEW q \in Seq(Int), NEW n \in 1 .. Len(q)
  PROVE  /\ Ranked(q, n) \in {q[i] : i \in DOMAIN q}
         /\ HasRank(q, Ranked(q, n), n)
<1>1. PICK V : V = {q[i] : i \in DOMAIN q}
  OBVIOUS
<1>2. V \in SUBSET Int /\ IsFiniteSet(V) /\ V # {}
  <2>1. \A i \in DOMAIN q : q[i] \in Int
    OBVIOUS
  <2>2. IsFiniteSet(V)
    <3>1. PICK f : f = [i \in DOMAIN q |-> q[i]]
      OBVIOUS
    <3>2. f \in Surjection(DOMAIN q, V)
      BY <1>1, <3>1 DEF Surjection
    <3> QED
      BY <3>2, Places, FS_Surjection DEF ExistsSurjection
  <2>3. 1 \in DOMAIN q
    OBVIOUS
  <2> QED
    BY <1>1, <2>1, <2>2, <2>3
<1>3. PICK T : T = {x \in V : Cardinality(Upto(q, x)) >= n}
  OBVIOUS
<1>4. T # {}
  <2>1. PICK x \in V : \A y \in V : y <= x
    BY <1>2, FiniteEnds DEF HasEnds
  <2>2. Upto(q, x) = DOMAIN q
    BY <1>1, <2>1 DEF Upto
  <2> QED
    BY <1>3, <2>1, <2>2, Places
<1>5. T \in SUBSET Int /\ IsFiniteSet(T)
  BY <1>2, <1>3, FS_Subset
<1>6. PICK x \in T : \A y \in T : x <= y
  BY <1>4, <1>5, FiniteEnds DEF HasEnds
<1>7. ASSUME Cardinality(Below(q, x)) >= n PROVE FALSE
  <2>1. PICK W : W = {v \in V : v < x}
    OBVIOUS
  <2>2. Below(q, x) # {}
    <3>1. Cardinality({}) = 0 /\ ~ (0 >= n)
      BY FS_EmptySet
    <3> QED
      BY <1>7, <3>1
  <2>3. W # {}
    BY <1>1, <2>1, <2>2 DEF Below
  <2>4. W \in SUBSET Int /\ IsFiniteSet(W)
    BY <1>2, <2>1, FS_Subset
  <2>5. PICK y \in W : \A z \in W : z <= y
    BY <2>3, <2>4, FiniteEnds DEF HasEnds
  <2>6. Below(q, x) \subseteq Upto(q, y)
    BY <1>1, <2>1, <2>5 DEF Below, Upto
  <2>7. Below(q, x) \in SUBSET DOMAIN q /\ Upto(q, y) \in SUBSET DOMAIN q
    BY DEF Below, Upto
  <2>8. /\ Cardinality(Below(q, x)) <= Cardinality(Upto(q, y))
        /\ Cardinality(Below(q, x)) \in Nat /\ Cardinality(Upto(q, y)) \in Nat
    BY <2>6, <2>7, Places
  <2>9. Cardinality(Upto(q, y)) >= n
    BY <1>7, <2>8
  <2>10. y \in T /\ y < x
    BY <1>3, <2>1, <2>5, <2>9
  <2> QED
    BY <1>5, <1>6, <2>10
<1>8. x \in V /\ HasRank(q, x, n)
  <2>1. Below(q, x) \in SUBSET DOMAIN q
    BY DEF Below
  <2>2. Cardinality(Below(q, x)) \in Nat
    BY <2>1, Places
  <2> QED
    BY <1>3, <1>6, <1>7, <2>2 DEF HasRank
<1>9. Ranked(q, n) = CHOOSE r \in V : HasRank(q, r, n)
  BY <1>1, Zenon DEF Ranked, HasRank, Below, Upto
<1> QED
  BY <1>1, <1>8, <1>9, Zenon

-----------------------------------------------------------------------------
(* TelemetrySink: histograms of sequences                                  *)

\* The places of the values of a bucket, and of the buckets up to b.
Holding(q, b) == {i \in DOMAIN q : bucket_index(q[i]) = b}
HoldingUpto(q, b) == {i \in DOMAIN q : bucket_index(q[i]) <= b}

Histograms == [buckets : [Buckets -> Nat], count : Nat, sum : Int]

\* h is what remains of the values q.
HistogramOf(h, q) ==
  /\ q \in Seq(Int) /\ h \in Histograms
  /\ h.count = Len(q) /\ h.sum = SumFunction(q)
  /\ \A b \in Buckets : h.buckets[b] = Cardinality(Holding(q, b))

\* A histogram that was reset is that of no values.
LEMMA EmptyIsHistogram == HistogramOf(EmptyHistogram, <<>>)
<1>1. \A b \in Buckets : Holding(<<>>, b) = {}
  BY DEF Holding
<1>2. SumFunction(<<>>) = 0
  <2>1. DOMAIN <<>> = {}
    OBVIOUS
  <2> QED
    BY <2>1, SumOfNone DEF SumFunction
<1>3. EmptyHistogram \in Histograms /\ EmptyHistogram.count = 0 /\ EmptyHistogram.sum = 0
  BY DEF EmptyHistogram, Histograms, Buckets
<1>4. \A b \in Buckets : EmptyHistogram.buckets[b] = 0
  BY DEF EmptyHistogram, Buckets
<1>5. <<>> \in Seq(Int) /\ Len(<<>>) = 0
  OBVIOUS
<1> QED
  BY <1>1, <1>2, <1>3, <1>4, <1>5, FS_EmptySet DEF HistogramOf

\* record adds one value to them.
LEMMA RecordedIsHistogram ==
  ASSUME NEW h, NEW q, HistogramOf(h, q), NEW v \in Int
  PROVE  HistogramOf(Recorded(h, v), Append(q, v))
<1>1. /\ q \in Seq(Int) /\ h \in Histograms /\ h.count = Len(q) /\ h.sum = SumFunction(q)
      /\ \A b \in Buckets : h.buckets[b] = Cardinality(Holding(q, b))
  BY DEF HistogramOf
<1>2. PICK r, k, n : r = Append(q, v) /\ k = bucket_index(v) /\ n = Len(q) + 1
  OBVIOUS
<1>3. /\ r \in Seq(Int) /\ Len(r) = n /\ n \in Nat /\ r[n] = v
      /\ DOMAIN q = 1 .. Len(q) /\ DOMAIN r = DOMAIN q \cup {n} /\ n \notin DOMAIN q
      /\ \A i \in DOMAIN q : r[i] = q[i]
  <2>1. /\ r \in Seq(Int) /\ Len(r) = n /\ n \in Nat /\ r[n] = v
        /\ DOMAIN q = 1 .. Len(q) /\ DOMAIN r = 1 .. n
        /\ \A i \in 1 .. Len(q) : r[i] = q[i]
    BY <1>1, <1>2
  <2>2. 1 .. n = 1 .. Len(q) \cup {n} /\ n \notin 1 .. Len(q)
    BY <1>1, <1>2
  <2> QED
    BY <2>1, <2>2
<1>4. k \in Buckets
  BY <1>2, BucketIndexType
<1>5. SumFunction(r) = SumFunction(q) + v /\ SumFunction(q) \in Int
  <2>1. IsFiniteSet(DOMAIN q)
    BY <1>1, Places
  <2>2. \A i \in DOMAIN q \cup {n} : r[i] \in Int
    BY <1>3
  <2>3. PICK S : S = DOMAIN q
    OBVIOUS
  <2>4. IsFiniteSet(S) /\ n \notin S /\ \A i \in S : q[i] = r[i]
    BY <1>3, <2>1, <2>3
  <2>5. \A i \in S \cup {n} : r[i] \in Int
    BY <2>2, <2>3
  <2>6. /\ SumFunctionOnSet(r, S \cup {n}) = SumFunctionOnSet(q, S) + r[n]
        /\ SumFunctionOnSet(q, S) \in Int
    BY ONLY <2>4, <2>5, SumOneMore
  <2> QED
    BY <1>3, <2>3, <2>6 DEF SumFunction
<1>6. PICK g : g = Recorded(h, v)
  OBVIOUS
<1>7. /\ h.buckets \in [Buckets -> Nat] /\ h.count \in Nat /\ h.sum \in Int
  BY <1>1 DEF Histograms
<1>8. g = [buckets |-> [h.buckets EXCEPT ![k] = @ + 1], count |-> h.count + 1, sum |-> h.sum + v]
  BY <1>2, <1>6 DEF Recorded
<1>9. g \in Histograms /\ g.count = Len(r) /\ g.sum = SumFunction(r)
  BY <1>1, <1>2, <1>3, <1>4, <1>5, <1>7, <1>8 DEF Histograms
<1>10. ASSUME NEW b \in Buckets
       PROVE  g.buckets[b] = Cardinality(Holding(r, b))
  <2>1. Holding(q, b) \in SUBSET DOMAIN q
    BY DEF Holding
  <2>2. IsFiniteSet(Holding(q, b)) /\ n \notin Holding(q, b)
    BY <1>1, <1>3, <2>1, Places
  <2>3. CASE b = k
    <3>1. Holding(r, b) = Holding(q, b) \cup {n}
      BY <1>2, <1>3, <2>3 DEF Holding
    <3>2. Cardinality(Holding(r, b)) = Cardinality(Holding(q, b)) + 1
      BY <2>2, <3>1, FS_AddElement
    <3>3. g.buckets[b] = h.buckets[b] + 1
      BY <1>4, <1>7, <1>8, <2>3
    <3> QED
      BY <1>1, <3>2, <3>3
  <2>4. CASE b # k
    <3>1. Holding(r, b) = Holding(q, b)
      BY <1>2, <1>3, <2>4 DEF Holding
    <3>2. g.buckets[b] = h.buckets[b]
      BY <1>4, <1>7, <1>8, <2>4
    <3> QED
      BY <1>1, <3>1, <3>2
  <2> QED
    BY <2>3, <2>4
<1>11. HistogramOf(g, r)
  BY <1>3, <1>9, <1>10 DEF HistogramOf
<1> QED
  BY <1>2, <1>6, <1>11

\* The loop of percentile adds up the values of the buckets so far.
LEMMA CumulativeCounts ==
  ASSUME NEW h, NEW q, HistogramOf(h, q), NEW b \in Buckets
  PROVE  cumulative(h, b) = Cardinality(HoldingUpto(q, b))
<1>1. /\ q \in Seq(Int) /\ h.buckets \in [Buckets -> Nat]
      /\ \A c \in Buckets : h.buckets[c] = Cardinality(Holding(q, c))
  BY DEF HistogramOf, Histograms
<1>2. PICK f : f = h.buckets
  OBVIOUS
<1>3. \A i \in DOMAIN q : bucket_index(q[i]) \in Buckets
  BY <1>1, BucketIndexType
<1>4. \A c : /\ IsFiniteSet(Holding(q, c)) /\ Cardinality(Holding(q, c)) \in Nat
             /\ IsFiniteSet(HoldingUpto(q, c)) /\ Cardinality(HoldingUpto(q, c)) \in Nat
  <2>1. \A c : Holding(q, c) \in SUBSET DOMAIN q /\ HoldingUpto(q, c) \in SUBSET DOMAIN q
    BY DEF Holding, HoldingUpto
  <2> QED
    BY <1>1, <2>1, Places
<1>5. \A c \in Buckets : c \in Nat /\ \A d \in 0 .. c : d \in Buckets
  BY TelemetryAssumption DEF Buckets
<1> DEFINE T == {c \in Buckets : SumFunctionOnSet(f, 0 .. c) # Cardinality(HoldingUpto(q, c))}
<1>6. T = {}
  <2> SUFFICES ASSUME T # {} PROVE FALSE
    OBVIOUS
  <2>1. T \in SUBSET Nat
    BY <1>5
  <2>2. PICK c \in T : \A y \in T : c <= y
    BY <2>1, LeastNumber
  <2>3. c \in Buckets /\ c \in Nat /\ f[c] = Cardinality(Holding(q, c)) /\ f[c] \in Nat
    BY <1>1, <1>2, <1>5, <2>2
  <2>4. CASE c = 0
    <3>1. {} \cup {0} = 0 .. 0
      OBVIOUS
    <3>2. PICK N : N = {}
      OBVIOUS
    <3>3. SumFunctionOnSet(f, 0 .. 0) = f[0]
      <4>1. IsFiniteSet(N) /\ 0 \notin N /\ \A y \in N : f[y] = f[y]
        BY <3>2, FS_EmptySet
      <4>2. \A y \in N \cup {0} : f[y] \in Int
        BY <2>3, <2>4, <3>2
      <4>3. SumFunctionOnSet(f, N \cup {0}) = SumFunctionOnSet(f, N) + f[0]
        BY ONLY <4>1, <4>2, SumOneMore
      <4> QED
        BY <2>3, <2>4, <3>1, <3>2, <4>3, SumOfNone
    <3>4. HoldingUpto(q, 0) = Holding(q, 0)
      BY <1>3 DEF HoldingUpto, Holding, Buckets
    <3> QED
      BY <2>2, <2>3, <2>4, <3>3, <3>4
  <2>5. CASE c # 0
    <3>1. PICK d \in Nat : c = d + 1
      <4>1. c - 1 \in Nat /\ c = (c - 1) + 1
        BY <2>3, <2>5
      <4> QED
        BY <4>1
    <3>2. d \in Buckets /\ d \notin T
      BY <1>5, <2>2, <2>3, <3>1
    <3>3. SumFunctionOnSet(f, 0 .. d) = Cardinality(HoldingUpto(q, d))
      BY <3>2
    <3>4. PICK S : S = 0 .. d
      OBVIOUS
    <3>5. IsFiniteSet(S) /\ c \notin S /\ S \cup {c} = 0 .. c
      BY <3>1, <3>4, FS_Interval
    <3>6. \A y \in S \cup {c} : f[y] \in Int
      BY <1>1, <1>2, <1>5, <2>3, <3>5
    <3>7. SumFunctionOnSet(f, S \cup {c}) = SumFunctionOnSet(f, S) + f[c]
      BY <3>5, <3>6, SumOneMore
    <3>8. HoldingUpto(q, c) = HoldingUpto(q, d) \cup Holding(q, c) /\ HoldingUpto(q, d) \cap Holding(q, c) = {}
      BY <1>3, <3>1 DEF HoldingUpto, Holding, Buckets
    <3>9. Cardinality(HoldingUpto(q, c)) = Cardinality(HoldingUpto(q, d)) + Cardinality(Holding(q, c))
      <4>1. Cardinality(HoldingUpto(q, d) \cup Holding(q, c))
              = Cardinality(HoldingUpto(q, d)) + Cardinality(Holding(q, c))
                  - Cardinality(HoldingUpto(q, d) \cap Holding(q, c))
        BY <1>4, FS_Union
      <4>2. Cardinality(HoldingUpto(q, d) \cap Holding(q, c)) = 0
        BY <3>8, FS_EmptySet
      <4>3. PICK u, v : u = Cardinality(HoldingUpto(q, d)) /\ v = Cardinality(Holding(q, c))
        OBVIOUS
      <4>4. u \in Nat /\ v \in Nat
        BY <1>4, <4>3
      <4>5. Cardinality(HoldingUpto(q, c)) = u + v - 0
        BY <3>8, <4>1, <4>2, <4>3
      <4> QED
        BY <4>3, <4>4, <4>5
    <3> QED
      BY <2>2, <2>3, <3>3, <3>4, <3>5, <3>7, <3>9
  <2> QED
    BY <2>4, <2>5
<1> QED
  BY <1>2, <1>6 DEF cumulative

\* percentile ends with the bucket of the value that has the rank.
LEMMA PercentileBucket ==
  ASSUME NEW h, NEW q, HistogramOf(h, q), target(h) \in 1 .. Len(q)
  PROVE  percentile_bucket(h) = bucket_index(Ranked(q, target(h)))
<1>1. PICK n, x : n = target(h) /\ x = Ranked(q, target(h))
  OBVIOUS
<1>2. q \in Seq(Int) /\ n \in 1 .. Len(q) /\ n \in Nat /\ DOMAIN h.buckets = Buckets
  BY <1>1 DEF HistogramOf, Histograms
<1>3. x \in Int /\ HasRank(q, x, n)
  BY <1>1, <1>2, RankedHasRank
<1>4. PICK b : b = bucket_index(x)
  OBVIOUS
<1>5. b \in Buckets /\ \A c \in Buckets : c \in Nat
  BY <1>3, <1>4, BucketIndexType DEF Buckets
<1>6. \A c : /\ HoldingUpto(q, c) \in SUBSET DOMAIN q
             /\ Below(q, c) \in SUBSET DOMAIN q /\ Upto(q, c) \in SUBSET DOMAIN q
  BY DEF HoldingUpto, Below, Upto
<1>7. \A c : /\ Cardinality(HoldingUpto(q, c)) \in Nat
             /\ Cardinality(Below(q, c)) \in Nat /\ Cardinality(Upto(q, c)) \in Nat
  BY <1>2, <1>6, Places
<1>8. \A i \in DOMAIN q : q[i] \in Int /\ bucket_index(q[i]) \in Nat
  <2>1. \A i \in DOMAIN q : q[i] \in Int
    BY <1>2
  <2> QED
    BY <1>5, <2>1, BucketIndexType
<1>9. cumulative(h, b) >= n
  <2>1. Upto(q, x) \subseteq HoldingUpto(q, b)
    BY <1>3, <1>4, <1>8, BucketIndexMonotone DEF Upto, HoldingUpto
  <2>2. Cardinality(Upto(q, x)) <= Cardinality(HoldingUpto(q, b))
    BY <1>2, <1>6, <2>1, Places
  <2>3. cumulative(h, b) = Cardinality(HoldingUpto(q, b))
    BY <1>5, CumulativeCounts
  <2> QED
    BY <1>2, <1>3, <1>7, <2>2, <2>3 DEF HasRank
<1>10. ASSUME NEW c \in Buckets, cumulative(h, c) >= n
       PROVE  b <= c
  <2> SUFFICES ASSUME c < b PROVE FALSE
    BY <1>5
  <2>1. HoldingUpto(q, c) \subseteq Below(q, x)
    <3>1. ASSUME NEW i \in DOMAIN q, bucket_index(q[i]) <= c, ~ (q[i] < x)
          PROVE  FALSE
      <4>1. x <= q[i] /\ q[i] \in Int
        BY <1>3, <1>8, <3>1
      <4>2. b <= bucket_index(q[i])
        BY <1>3, <1>4, <4>1, BucketIndexMonotone
      <4> QED
        BY <1>5, <1>8, <3>1, <4>2
    <3> QED
      BY <3>1 DEF HoldingUpto, Below
  <2>2. Cardinality(HoldingUpto(q, c)) <= Cardinality(Below(q, x))
    BY <1>2, <1>6, <2>1, Places
  <2>3. cumulative(h, c) = Cardinality(HoldingUpto(q, c))
    BY CumulativeCounts
  <2> QED
    BY <1>2, <1>3, <1>7, <1>10, <2>2, <2>3 DEF HasRank
<1>11. PICK B : B = {c \in DOMAIN h.buckets : cumulative(h, c) >= n}
  OBVIOUS
<1>12. b \in B /\ \A c \in B : b <= c /\ c \in Nat
  BY <1>2, <1>5, <1>9, <1>10, <1>11
<1>13. Min(B) = b
  <2>1. PICK m : m = Min(B)
    OBVIOUS
  <2>2. m \in B /\ \A c \in B : m <= c
    BY <1>12, <2>1, Zenon DEF Min
  <2> QED
    BY <1>12, <2>1, <2>2
<1> QED
  BY <1>1, <1>4, <1>11, <1>13 DEF percentile_bucket

-----------------------------------------------------------------------------
(* TelemetrySink: the summaries                                            *)

\* The inductive invariant: each slot has the histogram of what it was given.
SlotsInv ==
  /\ histograms_ = [s \in Slots |-> histograms_[s]]
  /\ recorded = [s \in Slots |-> recorded[s]]
  /\ \A s \in Slots : HistogramOf(histograms_[s], recorded[s])

\* The slots are empty at first.
LEMMA SlotsInvInit == TelemetryInit => SlotsInv
<1> SUFFICES ASSUME TelemetryInit PROVE SlotsInv
  OBVIOUS
<1>1. /\ histograms_ = [s \in Slots |-> EmptyHistogram]
      /\ recorded = [s \in Slots |-> <<>>]
  BY DEF TelemetryInit
<1> QED
  BY <1>1, EmptyIsHistogram DEF SlotsInv

\* record_latency adds its value to one slot.
LEMMA RecordKeepsSlots ==
  ASSUME SlotsInv, NEW id \in MetricIds, NEW latency \in Latencies, record_latency(id, latency)
  PROVE  SlotsInv'
<1>1. PICK k : k = id % kMaxMetricId
  OBVIOUS
<1>2. k \in Slots /\ latency \in Int
  BY <1>1, TelemetryAssumption DEF Slots
<1>3. /\ histograms_' = [histograms_ EXCEPT ![k] = Recorded(histograms_[k], latency)]
      /\ recorded' = [recorded EXCEPT ![k] = Append(recorded[k], latency)]
  BY <1>1 DEF record_latency
<1>4. /\ histograms_' = [s \in Slots |-> histograms_'[s]]
      /\ recorded' = [s \in Slots |-> recorded'[s]]
  BY <1>3 DEF SlotsInv
<1>5. ASSUME NEW s \in Slots
      PROVE  HistogramOf(histograms_'[s], recorded'[s])
  <2>1. HistogramOf(histograms_[s], recorded[s])
    BY DEF SlotsInv
  <2>2. CASE s = k
    <3>1. /\ histograms_'[s] = Recorded(histograms_[s], latency)
          /\ recorded'[s] = Append(recorded[s], latency)
      BY <1>2, <1>3, <2>2 DEF SlotsInv
    <3> QED
      BY <1>2, <2>1, <3>1, RecordedIsHistogram
  <2>3. CASE s # k
    <3>1. histograms_'[s] = histograms_[s] /\ recorded'[s] = recorded[s]
      BY <1>2, <1>3, <2>3 DEF SlotsInv
    <3> QED
      BY <2>1, <3>1
  <2> QED
    BY <2>2, <2>3
<1> QED
  BY <1>4, <1>5 DEF SlotsInv

\* drain_latency empties all slots: those that it skips are empty already.
LEMMA DrainKeepsSlots ==
  ASSUME SlotsInv, drain_latency
  PROVE  SlotsInv'
<1>1. /\ histograms_' = [s \in Slots |-> IF histograms_[s].count = 0 THEN histograms_[s]
                                         ELSE EmptyHistogram]
      /\ recorded' = [s \in Slots |-> <<>>]
  BY DEF drain_latency, reset
<1>2. ASSUME NEW s \in Slots
      PROVE  HistogramOf(histograms_'[s], recorded'[s])
  <2>1. HistogramOf(histograms_[s], recorded[s]) /\ recorded'[s] = <<>>
    BY <1>1 DEF SlotsInv
  <2>2. CASE histograms_[s].count = 0
    <3>1. recorded[s] = <<>>
      <4>1. recorded[s] \in Seq(Int) /\ Len(recorded[s]) = 0
        BY <2>1, <2>2 DEF HistogramOf
      <4> QED
        BY <4>1
    <3> QED
      BY <1>1, <2>1, <2>2, <3>1
  <2>3. CASE histograms_[s].count # 0
    BY <1>1, <2>1, <2>3, EmptyIsHistogram
  <2> QED
    BY <2>2, <2>3
<1> QED
  BY <1>1, <1>2 DEF SlotsInv

\* Every step keeps the invariant.
LEMMA SlotsInvNext ==
  ASSUME SlotsInv, [TelemetryNext]_telemetry_vars
  PROVE  SlotsInv'
<1>1. CASE UNCHANGED <<histograms_, recorded>>
  BY <1>1 DEF SlotsInv
<1>2. ASSUME NEW id \in MetricIds, push(id) PROVE SlotsInv'
  BY <1>1, <1>2 DEF push
<1>3. CASE drain
  BY <1>1, <1>3 DEF drain
<1>4. CASE UNCHANGED telemetry_vars
  BY <1>1, <1>4 DEF telemetry_vars
<1> QED
  BY <1>2, <1>3, <1>4, RecordKeepsSlots, DrainKeepsSlots DEF TelemetryNext

\* The rank of the 99th percentile is at most the number of values.
LEMMA TargetWithin ==
  ASSUME NEW n \in Nat
  PROVE  (n * 99) \div 100 \in Nat /\ (n * 99) \div 100 <= n
OBVIOUS

\* And the invariant gives the property.
LEMMA SlotsInvExact ==
  ASSUME SlotsInv
  PROVE  SummariesExact
<1> SUFFICES ASSUME NEW s \in Slots
             PROVE  LET h == histograms_[s]
                        p99 == Ranked(recorded[s], target(h))
                    IN  /\ h.count = Len(recorded[s])
                        /\ h.sum = SumFunction(recorded[s])
                        /\ (target(h) >= 1 /\ p99 >= 2 /\ p99 < 2 ^ (kNumBuckets - 1)) =>
                              \A v \in bucket_midpoint(percentile_bucket(h)) :
                                  3 * p99 <= 4 * v /\ 4 * v <= 6 * p99
  BY DEF SummariesExact
<1>1. PICK h, q : h = histograms_[s] /\ q = recorded[s]
  OBVIOUS
<1>2. PICK x : x = Ranked(q, target(h))
  OBVIOUS
<1>3. HistogramOf(h, q)
  BY <1>1 DEF SlotsInv
<1>4. q \in Seq(Int) /\ h.count = Len(q) /\ h.sum = SumFunction(q) /\ h.count \in Nat
  BY <1>3 DEF HistogramOf, Histograms
<1>5. ASSUME target(h) >= 1, x >= 2, x < Pow(kNumBuckets - 1),
             NEW v \in bucket_midpoint(percentile_bucket(h))
      PROVE  3 * x <= 4 * v /\ 4 * v <= 6 * x
  <2>1. target(h) \in Nat /\ target(h) <= Len(q)
    BY <1>4, TargetWithin DEF target
  <2>2. target(h) \in 1 .. Len(q)
    BY <1>4, <1>5, <2>1
  <2>3. x \in Int
    BY <1>2, <1>4, <2>2, RankedHasRank
  <2>4. percentile_bucket(h) = bucket_index(x)
    BY <1>2, <1>3, <2>2, PercentileBucket
  <2> QED
    BY <1>5, <2>3, <2>4, MidpointClose
<1> QED
  BY <1>1, <1>2, <1>4, <1>5 DEF Pow

\* A summary is about the values recorded since the last drain, of all ids that share
\* the slot: their number, their sum, and a 99th percentile as precise as its bucket;
\* for any number of ids, slots, buckets and records.
THEOREM SummariesExactHolds == TelemetrySpec => []SummariesExact
<1>1. TelemetryInit => SlotsInv
  BY SlotsInvInit
<1>2. SlotsInv /\ [TelemetryNext]_telemetry_vars => SlotsInv'
  BY SlotsInvNext
<1>3. SlotsInv => SummariesExact
  BY SlotsInvExact
<1> QED
  BY <1>1, <1>2, <1>3, PTL DEF TelemetrySpec
=============================================================================
