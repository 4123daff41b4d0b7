----------------------------- MODULE RiskEngine -----------------------------
(***************************************************************************)
(* tradecore::risk::RiskEngine and LiquidationManager (libs/risk/src/      *)
(* risk_engine.cpp, liquidation_engine.cpp) for one account: accounts have *)
(* nothing in common but the markets.                                      *)
(*                                                                         *)
(* The daemon evaluates an order once, before it goes to the matcher, and  *)
(* applies its fills when they happen, at once or after the order has been *)
(* resting.  The set of accepted orders stands for the matcher's book.     *)
(***************************************************************************)
EXTENDS CxxArithmetic, FiniteSetsExt

CONSTANTS Markets,
          Configured,   \* the markets that the daemon configures at start
          Config,       \* the MarketRiskConfigs that each market may be given
          Prices,       \* limit and fill prices, and mark prices
          Quantities,
          Amounts,      \* of collateral, credited or debited
          Denominator,  \* kBasisPointDenominator
          MaxOrders, MaxFills, MaxTransfers,  \* bounds of the model
          NoMarket, NoPosition

Sides == {"buy", "sell"}

\* The loader refuses other contract sizes.
Configs == [contract_size : Nat \ {0}, initial_bp : Int, maintenance_bp : Int]

MarketStates == [config : Configs, mark_price : Int]

Positions == [quantity : Int, entry_price : Int]

Orders == [market : Markets, side : Sides, quantity : Quantities, price : Prices,
           reduce_only : BOOLEAN]

ASSUME ConfigAssumption == /\ IsFiniteSet(Markets) /\ Configured \subseteq Markets
                           /\ \A m \in Markets : Config[m] \subseteq Configs
ASSUME NumbersAssumption == /\ Prices \subseteq Int /\ Quantities \subseteq Int
                            /\ Amounts \subseteq Int
                            /\ Denominator \in Nat \ {0}
ASSUME NullAssumption == NoMarket \notin MarketStates /\ NoPosition \notin Positions

VARIABLES markets,   \* markets_
          account,   \* AccountState
          orders,    \* the orders accepted and not yet filled
          fills, transfers,  \* how many there were
          deposits,  \* history: collateral credited less debited
          cash,      \* history: what was paid in each market, less what was received
          net,       \* history: what was bought in each market, less what was sold
          rounding,  \* history: what the averages may have rounded away, at most
          resized    \* history: the contract size changed under an open position

history == <<deposits, cash, net, rounding, resized>>
vars == <<markets, account, orders, fills, transfers, history>>

\* A market that ensure_market creates.
DefaultMarket == [config |-> [contract_size |-> 1, initial_bp |-> 0, maintenance_bp |-> 0],
                  mark_price |-> 0]

ensure_market(m) == IF markets[m] = NoMarket THEN DefaultMarket ELSE markets[m]

\* The daemon configures its markets, and sets their initial mark prices if it has any.
Init ==
    /\ \E config \in [Configured -> UNION {Config[m] : m \in Configured}],
          mark_price \in [Configured -> Prices \cup {0}] :
         /\ \A m \in Configured : config[m] \in Config[m]
         /\ markets = [m \in Markets |->
                         IF m \in Configured
                         THEN [config |-> config[m], mark_price |-> mark_price[m]]
                         ELSE NoMarket]
    /\ account = [collateral |-> 0, realized_pnl |-> 0,
                  positions |-> [m \in Markets |-> NoPosition]]
    /\ orders = {}
    /\ fills = 0 /\ transfers = 0
    /\ deposits = 0
    /\ cash = [m \in Markets |-> 0]
    /\ net = [m \in Markets |-> 0]
    /\ rounding = 0
    /\ resized = FALSE

Signed(side, quantity) == IF side = "buy" THEN quantity ELSE -quantity

-----------------------------------------------------------------------------
(* Fills                                                                   *)

\* position.quantity and signed_qty have the same sign, or there is no position.
Adds(quantity, signed_qty) ==
    \/ quantity = 0
    \/ quantity > 0 /\ signed_qty > 0
    \/ quantity < 0 /\ signed_qty < 0

\* The position after it was added to, at the average price.
Added(pos, signed_qty, price) ==
    LET total == Abs(pos.quantity) + Abs(signed_qty)
    IN  [quantity |-> pos.quantity + signed_qty,
         entry_price |->
            IF pos.quantity + signed_qty = 0 THEN 0
            ELSE Quotient((pos.entry_price * Abs(pos.quantity)) + (price * Abs(signed_qty)),
                          total)]

\* Mutant: a position that changes sides keeps its entry price.
Reduced_keeps_entry(pos, signed_qty, price) ==
    LET remainder == pos.quantity + signed_qty
    IN  [quantity |-> remainder,
         entry_price |-> IF remainder = 0 THEN 0 ELSE pos.entry_price]

\* Mutant: a position that was closed keeps its entry price.
Reduced_no_reset(pos, signed_qty, price) ==
    LET remainder == pos.quantity + signed_qty
    IN  [quantity |-> remainder,
         entry_price |-> IF (pos.quantity > 0) # (remainder > 0) /\ remainder # 0 THEN price
                         ELSE pos.entry_price]

\* The position after a fill against it: smaller, flat, or on the other side.
Reduced(pos, signed_qty, price) ==
    LET remainder == pos.quantity + signed_qty
    IN  [quantity |-> remainder,
         entry_price |-> IF remainder = 0 THEN 0
                         ELSE IF (pos.quantity > 0) # (remainder > 0) THEN price
                         ELSE pos.entry_price]

\* The profit of the part that is closed.
Realized(pos, signed_qty, price, contract_size) ==
    LET closing_qty == Smaller(Abs(pos.quantity), Abs(signed_qty))
        pnl_per_contract == IF pos.quantity > 0 THEN price - pos.entry_price
                                                ELSE pos.entry_price - price
    IN  closing_qty * pnl_per_contract * contract_size

\* try_emplace of an empty position.
PositionIn(acc, m) ==
    IF acc.positions[m] = NoPosition THEN [quantity |-> 0, entry_price |-> 0]
    ELSE acc.positions[m]

\* The account after apply_fill.
apply_fill(acc, m, side, quantity, price) ==
    LET pos == PositionIn(acc, m)
        signed_qty == Signed(side, quantity)
        realized == Realized(pos, signed_qty, price, ensure_market(m).config.contract_size)
    IN  IF Adds(pos.quantity, signed_qty)
        THEN [acc EXCEPT !.positions[m] = Added(pos, signed_qty, price)]
        ELSE [acc EXCEPT !.positions[m] = Reduced(pos, signed_qty, price),
                         !.realized_pnl = @ + realized,
                         !.collateral = @ + realized]

-----------------------------------------------------------------------------
(* account_summary_with_delta                                              *)

apply_basis_points(notional, bp) ==
    Quotient((notional * bp) + (Denominator - 1), Denominator)

\* An order as a delta, and no delta.
NoDelta == [market |-> NoMarket, quantity |-> 0, price |-> 0]

\* The order's quantity is added to a position at that position's entry price; a
\* market without one gets an exposure at the limit price.
Exposure(acc, m, delta) ==
    LET extra == IF delta.market = m THEN delta.quantity ELSE 0
    IN  IF acc.positions[m] # NoPosition
        THEN [quantity |-> acc.positions[m].quantity + extra,
              entry_price |-> acc.positions[m].entry_price, existed |-> TRUE]
        ELSE [quantity |-> extra, entry_price |-> delta.price, existed |-> FALSE]

\* The mark price, or what stands in for it.
MarkPrice(m, e, delta) ==
    IF markets[m].mark_price # 0 THEN markets[m].mark_price
    ELSE IF delta.market = m /\ delta.price # 0 THEN delta.price
    ELSE e.entry_price

\* The markets that count.
Exposed(acc, delta) ==
    {m \in Markets : Exposure(acc, m, delta).quantity # 0 /\ markets[m] # NoMarket}

\* The sum of the margins, bp being the rate that is asked for.
Margin(acc, delta, bp) ==
    SumFunction([m \in Exposed(acc, delta) |->
        LET e == Exposure(acc, m, delta)
        IN  apply_basis_points(Abs(e.quantity) * MarkPrice(m, e, delta)
                                  * markets[m].config.contract_size, markets[m].config[bp])])

initial_margin(acc, delta) == Margin(acc, delta, "initial_bp")

maintenance_margin(acc, delta) == Margin(acc, delta, "maintenance_bp")

Unrealized(acc, delta) ==
    SumFunction([m \in {m \in Exposed(acc, delta) : Exposure(acc, m, delta).existed} |->
        LET e == Exposure(acc, m, delta)
        IN  e.quantity * (MarkPrice(m, e, delta) - e.entry_price)
               * markets[m].config.contract_size])

equity(acc, delta) == acc.collateral + acc.realized_pnl + Unrealized(acc, delta)

-----------------------------------------------------------------------------
(* evaluate_order and LiquidationManager::evaluate                         *)

RejectedReduceOnly(acc, o) ==
    LET existing == PositionIn(acc, o.market).quantity
    IN  o.reduce_only /\ Abs(existing + Signed(o.side, o.quantity)) > Abs(existing)

Delta(o) == [market |-> o.market, quantity |-> Signed(o.side, o.quantity), price |-> o.price]

\* Mutant: the order needs its maintenance margin only.
InsufficientMargin_maintenance(acc, o) ==
    maintenance_margin(acc, Delta(o)) > equity(acc, Delta(o))

InsufficientMargin(acc, o) == initial_margin(acc, Delta(o)) > equity(acc, Delta(o))

evaluate_order(acc, o) ==
    /\ markets[o.market] # NoMarket
    /\ ~ RejectedReduceOnly(acc, o)
    /\ ~ InsufficientMargin(acc, o)

\* The status of an account, and what it lacks.
Liquidation(acc) ==
    LET worth == equity(acc, NoDelta)
        initial == initial_margin(acc, NoDelta)
        maintenance == maintenance_margin(acc, NoDelta)
    IN  IF maintenance = 0 THEN [status |-> "healthy", deficit |-> 0]
        ELSE IF worth < maintenance
             THEN [status |-> "full", deficit |-> maintenance - worth]
        ELSE IF worth < initial
             THEN [status |-> "partial", deficit |-> initial - worth]
        ELSE [status |-> "healthy", deficit |-> 0]

-----------------------------------------------------------------------------
(* The operations                                                          *)

configure_market(m, config) ==
    /\ markets' = [markets EXCEPT ![m] = [ensure_market(m) EXCEPT !.config = config]]
    /\ resized' = \/ resized
                  \/ /\ PositionIn(account, m).quantity # 0
                     /\ config.contract_size # ensure_market(m).config.contract_size
    /\ UNCHANGED <<account, orders, fills, transfers, deposits, cash, net, rounding>>

set_mark_price(m, price) ==
    /\ markets' = [markets EXCEPT ![m] = [ensure_market(m) EXCEPT !.mark_price = price]]
    /\ UNCHANGED <<account, orders, fills, transfers, history>>

Transfer(amount) ==
    /\ transfers < MaxTransfers
    /\ transfers' = transfers + 1
    /\ account' = [account EXCEPT !.collateral = @ + amount]
    /\ deposits' = deposits + amount
    /\ UNCHANGED <<markets, orders, fills, cash, net, rounding, resized>>

credit_collateral(amount) == Transfer(amount)

debit_collateral(amount) == Transfer(-amount)

\* An order is evaluated, and goes to the matcher when it is accepted.
PlaceOrder(o) ==
    /\ Cardinality(orders) < MaxOrders
    /\ o.quantity > 0
    /\ evaluate_order(account, o)
    /\ orders' = orders \cup {o}
    /\ UNCHANGED <<markets, account, fills, transfers, history>>

\* A fill is at the limit price or at a better one.
Within(o, price) == IF o.side = "buy" THEN price <= o.price ELSE price >= o.price

\* What is left of the order after a fill of quantity.
Left(o, quantity) ==
    IF o.quantity = quantity THEN {} ELSE {[o EXCEPT !.quantity = @ - quantity]}

\* The matcher fills an order, and the daemon applies the fill.
FillOrder(o, quantity, price) ==
    LET pos == PositionIn(account, o.market)
        signed_qty == Signed(o.side, quantity)
        size == ensure_market(o.market).config.contract_size
    IN  /\ fills < MaxFills
        /\ fills' = fills + 1
        /\ 0 < quantity /\ quantity <= o.quantity
        /\ Within(o, price)
        /\ markets' = [markets EXCEPT ![o.market] = ensure_market(o.market)]
        /\ account' = apply_fill(account, o.market, o.side, quantity, price)
        /\ orders' = (orders \ {o}) \cup Left(o, quantity)
        /\ cash' = [cash EXCEPT ![o.market] = @ + (signed_qty * price * size)]
        /\ net' = [net EXCEPT ![o.market] = @ + signed_qty]
        /\ rounding' = IF Adds(pos.quantity, signed_qty)
                       THEN rounding + (size * (Abs(pos.quantity) + quantity - 1))
                       ELSE rounding
        /\ UNCHANGED <<transfers, deposits, resized>>

\* The matcher cancels an order.
CancelOrder(o) ==
    /\ orders' = orders \ {o}
    /\ UNCHANGED <<markets, account, fills, transfers, history>>

\* The matcher replaces an order.  The daemon does not evaluate the new one.
ReplaceOrder(o, quantity, price) ==
    /\ quantity > 0
    /\ orders' = (orders \ {o}) \cup {[o EXCEPT !.quantity = quantity, !.price = price]}
    /\ UNCHANGED <<markets, account, fills, transfers, history>>

Next ==
    \/ \E m \in Markets : \E config \in Config[m] : configure_market(m, config)
    \/ \E m \in Markets, price \in Prices : set_mark_price(m, price)
    \/ \E amount \in Amounts : credit_collateral(amount) \/ debit_collateral(amount)
    \/ \E o \in Orders : PlaceOrder(o)
    \/ \E o \in orders, quantity \in Quantities, price \in Prices :
          FillOrder(o, quantity, price) \/ ReplaceOrder(o, quantity, price)
    \/ \E o \in orders : CancelOrder(o)

Spec == Init /\ [][Next]_vars

-----------------------------------------------------------------------------
(* Properties                                                              *)

\* The state has its type, and a flat position has no entry price.
TypeOK ==
    /\ markets \in [Markets -> MarketStates \cup {NoMarket}]
    /\ account \in [collateral : Int, realized_pnl : Int,
                    positions : [Markets -> Positions \cup {NoPosition}]]
    /\ orders \subseteq [market : Markets, side : Sides, quantity : Int, price : Prices,
                         reduce_only : BOOLEAN]
    /\ deposits \in Int /\ rounding \in Nat /\ resized \in BOOLEAN
    /\ cash \in [Markets -> Int] /\ net \in [Markets -> Int]
    /\ \A m \in Markets :
          PositionIn(account, m).quantity = 0 => PositionIn(account, m).entry_price = 0

\* The profits of the markets that have a mark price, from what was really paid.
Profit ==
    SumFunction([m \in {m \in Markets : markets[m] # NoMarket} |->
        (net[m] * markets[m].mark_price * markets[m].config.contract_size) - cash[m]])

\* What the books say the open positions are worth.
OpenProfit ==
    SumFunction([m \in {m \in Markets : markets[m] # NoMarket} |->
        PositionIn(account, m).quantity
            * (markets[m].mark_price - PositionIn(account, m).entry_price)
            * markets[m].config.contract_size])

\* Positions, entry prices and collateral follow the cash: after any sequence of
\* fills, collateral and open profit together are the deposits and the profit of
\* all trades, but for what the averages of entry prices rounded away.  The collateral
\* has the realized profit in it already, once: equity, which adds realized_pnl to it,
\* counts that profit twice.
BooksFollowCash ==
    /\ \A m \in Markets : PositionIn(account, m).quantity = net[m]
    /\ account.collateral = deposits + account.realized_pnl
    /\ resized \/ Abs((account.collateral + OpenProfit) - (deposits + Profit)) <= rounding

\* The account after order o was filled at once and whole, at its limit.
FilledAtOnce(o) == apply_fill(account, o.market, o.side, o.quantity, o.price)

\* Order o is accepted, at the mark price or a better one, and filled at once: the
\* account has the initial margin that it then needs, so that the liquidation manager
\* leaves it alone.
HealthyAfter(o) ==
    (/\ o.quantity > 0
     /\ markets[o.market] # NoMarket
     /\ markets[o.market].mark_price # 0
     /\ o.side = "buy" => o.price <= markets[o.market].mark_price
     /\ o.side = "sell" => o.price >= markets[o.market].mark_price
     /\ evaluate_order(account, o))
        => Liquidation(FilledAtOnce(o)).status = "healthy"

\* The pre-trade check is right for an account's first order in a market, whatever
\* positions it has in the others, when no other order of it is in the book.
FirstOrderHealthy ==
    orders = {} =>
        \A o \in Orders : account.positions[o.market] = NoPosition => HealthyAfter(o)
=============================================================================
