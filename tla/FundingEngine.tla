--------------------------- MODULE FundingEngine ---------------------------
(***************************************************************************)
(* tradecore::funding::FundingEngine (libs/funding/src/funding_engine.cpp),*)
(* for one market: markets have nothing in common.  The market is          *)
(* configured, also again, or created by the first update.                 *)
(***************************************************************************)
EXTENDS CxxArithmetic

CONSTANTS FundingConfigs,        \* what the market may be given
          IndexPrices, MidPrices,
          Elapsed,               \* seconds between updates
          kBasisPointDenominator,
          MaxUpdates             \* bound: updates

ASSUME FundingAssumption ==
    /\ IndexPrices \subseteq Nat /\ MidPrices \subseteq Int /\ Elapsed \subseteq Nat
    /\ kBasisPointDenominator \in Nat \ {0}

\* What the loader's validation leaves: no sign for the clamp, one for the rate.
ASSUME FundingConfigAssumption ==
    FundingConfigs \subseteq [clamp_basis_points : Int, max_rate_basis_points : Nat]

VARIABLES funding,     \* MarketState
          updates,     \* how many there were
          most, least  \* history: what the accumulator may be at most, and at least

funding_vars == <<funding, updates, most, least>>

\* The defaults of MarketFundingConfig, in its unit.
DefaultFunding ==
    [clamp_basis_points |-> kBasisPointDenominator \div 100,
     max_rate_basis_points |-> kBasisPointDenominator \div 50]

FundingInit ==
    /\ funding = [config |-> DefaultFunding, mark_price |-> 0, index_price |-> 0,
                  premium_rate |-> 0, funding_accumulator |-> 0]
    /\ updates = 0 /\ most = 0 /\ least = 0

configure_funding(config) ==
    /\ funding' = [funding EXCEPT !.config = config]
    /\ UNCHANGED <<updates, most, least>>

clamp(value, min_value, max_value) == Smaller(Larger(value, min_value), max_value)

\* The mark price is the middle of the book, kept within a band around the index.
MarkPriceOf(config, index_price, mid_price) ==
    LET band == Quotient(index_price * config.clamp_basis_points, kBasisPointDenominator)
    IN  clamp(mid_price, index_price - band, index_price + band)

\* The distance from the index, in basis points; none from an index that is 0.
Distance(index_price, mid_price) ==
    IF index_price > 0
    THEN Quotient((mid_price - index_price) * kBasisPointDenominator, index_price)
    ELSE 0

\* Mutant: the premium is not clamped.
premium_unclamped(config, index_price, mid_price) == Distance(index_price, mid_price)

premium(config, index_price, mid_price) ==
    clamp(Distance(index_price, mid_price),
          -config.clamp_basis_points, config.clamp_basis_points)

\* Mutant: the premium is the rate.
funding_rate_unclamped(config, rate) == rate

funding_rate(config, rate) ==
    clamp(rate, -config.max_rate_basis_points, config.max_rate_basis_points)

update_market(index_price, mid_price, elapsed) ==
    LET config == funding.config
        rate == premium(config, index_price, mid_price)
        cap == config.max_rate_basis_points * elapsed
    IN  /\ updates < MaxUpdates
        /\ updates' = updates + 1
        /\ funding' = [funding EXCEPT
                          !.index_price = index_price,
                          !.mark_price = MarkPriceOf(config, index_price, mid_price),
                          !.premium_rate = rate,
                          !.funding_accumulator = @ + (funding_rate(config, rate) * elapsed)]
        /\ most' = IF mid_price > index_price \/ config.clamp_basis_points < 0
                   THEN most + cap ELSE most
        /\ least' = IF mid_price < index_price \/ config.clamp_basis_points < 0
                    THEN least - cap ELSE least

FundingNext ==
    \/ \E config \in FundingConfigs : configure_funding(config)
    \/ \E index_price \in IndexPrices, mid_price \in MidPrices, elapsed \in Elapsed :
          update_market(index_price, mid_price, elapsed)

FundingSpec == FundingInit /\ [][FundingNext]_funding_vars

-----------------------------------------------------------------------------
(* Properties                                                              *)

\* The mark price and the premium are clamped separately, each with its own division:
\* they agree, up to one unit of the division, whatever band is configured.
PremiumMatchesMark ==
    Abs((funding.premium_rate * funding.index_price)
           - ((funding.mark_price - funding.index_price) * kBasisPointDenominator))
        <= Larger(funding.index_price, kBasisPointDenominator)

\* Over any sequence of updates and reconfigurations the accumulator grows by no more
\* than the largest rate allowed, and only in the direction of the premium.  (A
\* negative clamp_bp passes validation and makes every premium the same: then there
\* is the bound only.)
FundingBounded == funding.funding_accumulator \in least .. most
=============================================================================
