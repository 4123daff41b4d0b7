--------------------------- MODULE PriceTimeBook ---------------------------
(***************************************************************************)
(* What one market of the matcher promises, with no price levels, queues,  *)
(* iterators or display quantities: a set of resting orders, each with the *)
(* time at which it was booked, and at most one incoming order that trades *)
(* with the best resting order for as long as its limit allows, and is     *)
(* then booked or discarded.  MatchingEngine is shown to implement it.     *)
(***************************************************************************)
EXTENDS Integers, Sequences

CONSTANTS OrderIds,   \* the order identifiers of the market
          Prices,     \* the limit prices
          Quantities, \* the quantities an order may enter with
          NoOrder     \* the value of a free identifier

VARIABLES resting,    \* the resting order of each identifier, or NoOrder
          clock,      \* the next booking time
          incoming,   \* the order being executed, or NoOrder
          fills       \* the fills of the order being executed

bookVars == <<resting, clock, incoming, fills>>

Sides == {"buy", "sell"}

TimesInForce == {"GTC", "IOC", "FOK"}

Lesser(a, b) == IF a <= b THEN a ELSE b

Opposite(side) == IF side = "buy" THEN "sell" ELSE "buy"

\* A limit order on side accepts a counterparty at price p.
Accepts(side, limit, p) == IF side = "buy" THEN p <= limit ELSE p >= limit

\* Of two prices of resting orders on side, p is executed before q.
Better(side, p, q) == IF side = "buy" THEN p > q ELSE p < q

Resting(id) == resting[id] # NoOrder

\* The resting orders that the order o may trade with.
Counterparties(o) ==
    {id \in OrderIds : /\ Resting(id)
                       /\ resting[id].side = Opposite(o.side)
                       /\ Accepts(o.side, o.price, resting[id].price)}

\* Price-time priority: nobody on id's side has a better price, or the same
\* price and an earlier booking time.
HasPriority(id) ==
    \A other \in OrderIds :
        (Resting(other) /\ resting[other].side = resting[id].side) =>
            /\ ~ Better(resting[id].side, resting[other].price, resting[id].price)
            /\ resting[other].price = resting[id].price =>
                    resting[id].seq <= resting[other].seq

-----------------------------------------------------------------------------

BookInit ==
    /\ resting = [id \in OrderIds |-> NoOrder]
    /\ clock = 1
    /\ incoming = NoOrder
    /\ fills = <<>>

\* An order enters with the next booking time.  A post-only order enters only
\* when it cannot trade.
Enter(id, side) ==
    /\ incoming = NoOrder
    /\ \E price \in Prices, qty \in Quantities, tif \in TimesInForce,
          postOnly \in BOOLEAN :
          LET o == [id |-> id, side |-> side, price |-> price, qty |-> qty,
                    tif |-> tif, postOnly |-> postOnly, seq |-> clock]
          IN  /\ postOnly => Counterparties(o) = {}
              /\ incoming' = o
    /\ clock' = clock + 1
    /\ fills' = <<>>

NewOrder ==
    /\ \E id \in OrderIds, side \in Sides : Enter(id, side)
    /\ UNCHANGED resting

\* A replaced order leaves the book and enters again on its own side, behind
\* everyone; when it is refused it has only left the book.
ReplaceOrder ==
    \E id \in OrderIds :
        /\ Resting(id)
        /\ resting' = [resting EXCEPT ![id] = NoOrder]
        /\ Enter(id, resting[id].side)

\* Also the effect of a replace that is refused.
CancelOrder ==
    /\ incoming = NoOrder
    /\ \E id \in OrderIds :
           /\ Resting(id)
           /\ resting' = [resting EXCEPT ![id] = NoOrder]
    /\ fills' = <<>>
    /\ UNCHANGED <<clock, incoming>>

\* The incoming order trades, at the maker's price, with the counterparty that
\* has price-time priority, for as much as both of them have left.
Trade ==
    /\ incoming # NoOrder
    /\ incoming.qty > 0
    /\ ~ incoming.postOnly
    /\ \E id \in Counterparties(incoming) :
        LET q == Lesser(incoming.qty, resting[id].qty)
        IN  /\ HasPriority(id)
            /\ incoming' = [incoming EXCEPT !.qty = @ - q]
            /\ resting' = [resting EXCEPT ![id] =
                              IF resting[id].qty = q THEN NoOrder
                              ELSE [resting[id] EXCEPT !.qty = @ - q]]
            /\ fills' = Append(fills, [maker |-> id, taker |-> incoming.id,
                                       quantity |-> q,
                                       price |-> resting[id].price])
    /\ UNCHANGED clock

\* What is left of a good-till-cancelled order is booked once it can trade no
\* more.
Book ==
    /\ incoming # NoOrder
    /\ incoming.qty > 0
    /\ incoming.tif = "GTC"
    /\ ~ Resting(incoming.id)
    /\ Counterparties(incoming) = {}
    /\ resting' = [resting EXCEPT ![incoming.id] =
                      [side |-> incoming.side, price |-> incoming.price,
                       qty |-> incoming.qty, seq |-> incoming.seq]]
    /\ incoming' = NoOrder
    /\ UNCHANGED <<clock, fills>>

\* The incoming order is done: it has nothing left, or it can trade no more and
\* is either not to be booked or carries the identifier of a resting order.
Finish ==
    /\ incoming # NoOrder
    /\ incoming.qty > 0 => /\ Counterparties(incoming) = {}
                           /\ incoming.tif # "GTC" \/ Resting(incoming.id)
    /\ incoming' = NoOrder
    /\ UNCHANGED <<resting, clock, fills>>

\* The caller takes the fills of a finished order.
TakeFills ==
    /\ incoming = NoOrder
    /\ fills' = <<>>
    /\ UNCHANGED <<resting, clock, incoming>>

\* The market is emptied and its clock starts again.
ClearBook ==
    /\ incoming = NoOrder
    /\ resting' = [id \in OrderIds |-> NoOrder]
    /\ clock' = 1
    /\ UNCHANGED <<incoming, fills>>

BookNext ==
    \/ NewOrder \/ ReplaceOrder \/ CancelOrder \/ ClearBook
    \/ Trade \/ Book \/ Finish \/ TakeFills

BookSpec == BookInit /\ [][BookNext]_bookVars
=============================================================================
