--------------------------- MODULE MatchingEngine ---------------------------
(***************************************************************************)
(* One market shard of tradecore::matcher::MatchingEngine                  *)
(* (libs/matcher/src/matching_engine.cpp).  Shards share nothing but the   *)
(* map that holds them (an order id carries its market), so one is enough. *)
(*                                                                         *)
(* A call runs to completion before the next one (the daemon's event loop  *)
(* is the only caller), but place_order is modelled step by step: the two  *)
(* nested loops of match_order are the actions EnterLevel, Fill and        *)
(* LeaveLevel, driven by pc.  Left out: accounts and client timestamps,    *)
(* which the matcher only carries, and the memory arena.                   *)
(***************************************************************************)
EXTENDS Integers, Sequences, SequencesExt, Functions

CONSTANTS OrderIds,     \* the order ids of this market
          Prices,       \* limit prices (int64 ticks)
          Quantities,   \* requested quantities; zero and below are possible
          Displays,     \* requested iceberg display quantities
          FlagSets,     \* sets of the flags the matcher looks at
          MaxSequence,  \* bound of the model on next_sequence
          NoOrder,      \* an id that is not in book_orders
          NoPrice,      \* book.end()
          NoId          \* a null OrderRecord*

Sides == {"buy", "sell"}
TimesInForce == {"GTC", "IOC", "FOK"}
Flags == {"post_only", "hidden", "iceberg"}

\* struct OrderRequest.  display_quantity is read for iceberg orders only.
OrderRequests ==
    {r \in [id : OrderIds, side : Sides, price : Prices, quantity : Quantities,
            display_quantity : Displays \cup {0}, tif : TimesInForce,
            flags : FlagSets] :
        "iceberg" \notin r.flags => r.display_quantity = 0}

\* struct OrderRecord, the request's fields that are read later included.
OrderRecords ==
    [id : OrderIds, side : Sides, price : Prices, tif : TimesInForce,
     flags : SUBSET Flags, remaining : Int, display_remaining : Int,
     display_size : Int, fifo_seq : Nat]

FillEvents == [maker : OrderIds, taker : OrderIds, quantity : Int, price : Prices]

Rejects == {"UnknownMarket", "InsufficientLiquidity", "PostOnlyWouldCross",
            "OrderNotFound", "InvalidQuantity", "DuplicateOrderId",
            "InvalidDisplayQuantity"}

\* struct OrderResult (and CancelResult, ReplaceResult) without its fills.
Results == [accepted : BOOLEAN, fully_filled : BOOLEAN, resting : BOOLEAN,
            reject_code : Rejects \cup {"none"}]

ASSUME PricesAssumption == Prices \subseteq Int
ASSUME QuantitiesAssumption == Quantities \subseteq Int /\ Displays \subseteq Int
ASSUME FlagsAssumption == FlagSets \subseteq SUBSET Flags
ASSUME NullAssumption == /\ NoOrder \notin OrderRecords
                         /\ NoPrice \notin Prices
                         /\ NoId \notin OrderIds

VARIABLES
    known,          \* the market is in markets_
    book_orders,    \* the resting order of each id, or NoOrder
    levels,         \* the keys of bids ("buy") and asks ("sell")
    queue,          \* PriceLevel head..tail: the ids of each level, in list order
    depth,          \* PriceLevel total_qty and visible_qty
    next_sequence,  \* the FIFO sequence of the next order
    pc,             \* where the current call is
    taker,          \* taker_record, or NoOrder
    it,             \* the level iterator of consume_book
    maker,          \* the maker pointer of consume_book
    fills,          \* the fills of the current call
    result          \* the result of the current call

shard  == <<book_orders, levels, queue, depth, next_sequence>>
locals == <<taker, it, maker, fills, result>>
vars   == <<known, shard, pc, locals>>

NoDepth == [total |-> 0, visible |-> 0]
NoResult == [accepted |-> FALSE, fully_filled |-> FALSE, resting |-> FALSE,
             reject_code |-> "none"]

Opposite(side) == IF side = "buy" THEN "sell" ELSE "buy"

Lesser(a, b) == IF a <= b THEN a ELSE b

-----------------------------------------------------------------------------
(* Price levels and their iteration order                                  *)

\* Mutant: equal prices do not trade.
crosses_strictly(side, taker_price, maker_price) ==
    IF side = "buy" THEN maker_price < taker_price
                    ELSE maker_price > taker_price

\* bool crosses(side, taker_price, maker_price).
crosses(side, taker_price, maker_price) ==
    IF side = "buy" THEN maker_price <= taker_price
                    ELSE maker_price >= taker_price

\* The comparator of the map: bids are iterated from the greatest price, asks
\* from the least.
Before(side, p, q) == IF side = "buy" THEN p > q ELSE p < q

\* The positions an iterator to the first of the levels S may have: the first
\* one, or end() when there is none.
First(side, S) ==
    IF S = {} THEN {NoPrice}
    ELSE {p \in S : \A q \in S : ~ Before(side, q, p)}

\* Mutant: the iterator is not advanced.
Successor_stays(side, p, S) == {p}

\* The iterator's position after p.
Successor(side, p, S) == First(side, {q \in S : Before(side, p, q)})

\* The best level of the book on a side.
Begin(side) == First(side, levels[side])

\* Mutant: a level is never taken for empty.
empty_never(q) == FALSE

\* PriceLevel::empty.
empty(q) == q = <<>>

\* The place of record id in the list q.
At(q, id) == {i \in 1 .. Len(q) : q[i] = id}

\* The next pointer of the record at place i of the list q.
NextInList(q, i) == IF i < Len(q) THEN q[i + 1] ELSE NoId

-----------------------------------------------------------------------------
(* Orders and their quantities                                             *)

\* OrderRecord::refresh_display.
refresh_display(r) ==
    [r EXCEPT !.display_remaining =
        IF "hidden" \in r.flags THEN 0
        ELSE IF "iceberg" \in r.flags /\ r.display_size > 0
             THEN Lesser(r.display_size, r.remaining)
             ELSE r.remaining]

\* The taker_record that place_order builds for a request.
TakerRecord(req) ==
    LET size == IF "hidden" \in req.flags THEN 0
                ELSE IF "iceberg" \in req.flags THEN req.display_quantity
                ELSE req.quantity
    IN  [id |-> req.id, side |-> req.side, price |-> req.price, tif |-> req.tif,
         flags |-> req.flags, remaining |-> req.quantity, display_size |-> size,
         display_remaining |-> IF "hidden" \in req.flags THEN 0
                               ELSE Lesser(size, req.quantity),
         fifo_seq |-> next_sequence]

\* Mutant: the levels beyond the limit price are counted too.
fillable_everywhere(req) ==
    LET side == Opposite(req.side)
    IN  SumFunctionOnSet([p \in Prices |-> depth[side][p].total], levels[side])

\* What the request could trade at once: the quantity of the levels it crosses.
\* (The code stops adding once the request is covered.)
fillable_quantity(req) ==
    LET side == Opposite(req.side)
    IN  SumFunctionOnSet([p \in Prices |-> depth[side][p].total],
                         {p \in levels[side] : crosses(req.side, req.price, p)})

\* The first half of place_order: the checks made before anything changes.
\* They read the other side of the book only.
PostOnlyWouldCross(req) ==
    /\ "post_only" \in req.flags
    /\ \E p \in Begin(Opposite(req.side)) \ {NoPrice} :
           crosses(req.side, req.price, p)

InsufficientLiquidity(req) ==
    req.tif = "FOK" /\ fillable_quantity(req) < req.quantity

-----------------------------------------------------------------------------
(* PriceLevel: the quantities of a level, and unlinking a record           *)

\* push_back adds the record's quantities, remove takes them away.
AddTo(d, r) == [total |-> d.total + r.remaining,
                visible |-> d.visible + r.display_remaining]

TakeFrom(d, r) == [total |-> d.total - r.remaining,
                   visible |-> d.visible - r.display_remaining]

\* Mutant: the display that the fill used up is not taken off.
update_after_fill_adds(d, old, new) ==
    [total |-> d.total - (old.remaining - new.remaining),
     visible |-> d.visible + new.display_remaining]

\* update_after_fill: the record was old, and is new after the fill.
update_after_fill(d, old, new) ==
    [total |-> d.total - (old.remaining - new.remaining),
     visible |-> (d.visible - old.display_remaining) + new.display_remaining]

\* remove_order_from_book and book_orders.erase.  A resting record always has a
\* level (BookIntegrity), so the early returns for a missing one never happen.
RemoveOrder(id) ==
    LET r == book_orders[id]
        q == queue[r.side][r.price]
    IN  \E i \in At(q, id) :
          LET rest == RemoveAt(q, i)
          IN  /\ queue' = [queue EXCEPT ![r.side][r.price] = rest]
              /\ levels' = [levels EXCEPT ![r.side] =
                               IF empty(rest) THEN @ \ {r.price} ELSE @]
              /\ depth' = [depth EXCEPT ![r.side][r.price] =
                               IF empty(rest) THEN NoDepth ELSE TakeFrom(@, r)]
              /\ book_orders' = [book_orders EXCEPT ![id] = NoOrder]

-----------------------------------------------------------------------------
(* The calls                                                               *)

Init ==
    /\ known = FALSE
    /\ book_orders = [id \in OrderIds |-> NoOrder]
    /\ levels = [side \in Sides |-> {}]
    /\ queue = [side \in Sides |-> [p \in Prices |-> <<>>]]
    /\ depth = [side \in Sides |-> [p \in Prices |-> NoDepth]]
    /\ next_sequence = 1
    /\ pc = "idle"
    /\ taker = NoOrder
    /\ it = NoPrice
    /\ maker = NoId
    /\ fills = <<>>
    /\ result = NoResult

\* The call returns without executing an order.
Answer(res) ==
    /\ pc' = "ret"
    /\ result' = res
    /\ UNCHANGED <<taker, it, maker, fills>>

Reject(code) == Answer([NoResult EXCEPT !.reject_code = code])

\* add_market: try_emplace leaves an existing market alone.
AddMarket ==
    /\ pc = "idle"
    /\ known' = TRUE
    /\ UNCHANGED <<shard, pc, locals>>

\* clear_market: the market's shard is erased and a fresh one put in its place.
ClearMarket ==
    /\ pc = "idle"
    /\ known' = TRUE
    /\ book_orders' = [id \in OrderIds |-> NoOrder]
    /\ levels' = [side \in Sides |-> {}]
    /\ queue' = [side \in Sides |-> [p \in Prices |-> <<>>]]
    /\ depth' = [side \in Sides |-> [p \in Prices |-> NoDepth]]
    /\ next_sequence' = 1
    /\ UNCHANGED <<pc, locals>>

\* place_order up to the call of match_order, which starts at book.begin().
place_order(req) ==
    \/ /\ PostOnlyWouldCross(req)
       /\ Reject("PostOnlyWouldCross")
       /\ UNCHANGED next_sequence
    \/ /\ ~ PostOnlyWouldCross(req)
       /\ InsufficientLiquidity(req)
       /\ Reject("InsufficientLiquidity")
       /\ UNCHANGED next_sequence
    \/ /\ ~ PostOnlyWouldCross(req)
       /\ ~ InsufficientLiquidity(req)
       /\ taker' = TakerRecord(req)
       /\ next_sequence' = next_sequence + 1
       /\ it' \in Begin(Opposite(req.side))
       /\ pc' = "level"
       /\ UNCHANGED <<maker, fills, result>>

InvalidDisplay(req) ==
    /\ "iceberg" \in req.flags
    /\ req.display_quantity <= 0 \/ req.display_quantity > req.quantity

\* submit: the checks come before ensure_market creates a missing market.
Submit(req) ==
    /\ pc = "idle"
    /\ next_sequence <= MaxSequence
    /\ \/ /\ req.quantity <= 0
          /\ Reject("InvalidQuantity")
          /\ UNCHANGED <<known, next_sequence>>
       \/ /\ req.quantity > 0
          /\ InvalidDisplay(req)
          /\ Reject("InvalidDisplayQuantity")
          /\ UNCHANGED <<known, next_sequence>>
       \/ /\ req.quantity > 0
          /\ ~ InvalidDisplay(req)
          /\ known' = TRUE
          /\ place_order(req)
    /\ UNCHANGED <<book_orders, levels, queue, depth>>

NotFound == IF known THEN "OrderNotFound" ELSE "UnknownMarket"

Cancel(id) ==
    /\ pc = "idle"
    /\ \/ /\ book_orders[id] = NoOrder
          /\ Reject(NotFound)
          /\ UNCHANGED shard
       \/ /\ book_orders[id] # NoOrder
          /\ RemoveOrder(id)
          /\ Answer([NoResult EXCEPT !.accepted = TRUE])
          /\ UNCHANGED next_sequence
    /\ UNCHANGED known

\* replace: the resting order is removed, then placed again on its own side.
\* Neither the quantity nor the display quantity is validated here.
Replace(req) ==
    /\ pc = "idle"
    /\ next_sequence <= MaxSequence
    /\ \/ /\ book_orders[req.id] = NoOrder
          /\ Reject(NotFound)
          /\ UNCHANGED shard
       \/ /\ book_orders[req.id] # NoOrder
          /\ req.side = book_orders[req.id].side
          /\ RemoveOrder(req.id)
          /\ place_order(req)
    /\ UNCHANGED known

-----------------------------------------------------------------------------
(* match_order and the second half of place_order                          *)

Book == Opposite(taker.side)

\* The condition of the outer loop, with its break.
AtLevel ==
    /\ taker.remaining > 0
    /\ it # NoPrice
    /\ crosses(taker.side, taker.price, it)

EnterLevel ==
    /\ pc = "level"
    /\ AtLevel
    /\ maker' = IF queue[Book][it] = <<>> THEN NoId ELSE Head(queue[Book][it])
    /\ pc' = "maker"
    /\ UNCHANGED <<known, shard, taker, it, fills, result>>

StopMatching ==
    /\ pc = "level"
    /\ ~ AtLevel
    /\ pc' = "rest"
    /\ UNCHANGED <<known, shard, locals>>

\* One turn of the inner loop.  A maker with nothing left is unlinked and erased.
Fill ==
    /\ pc = "maker"
    /\ maker # NoId
    /\ taker.remaining > 0
    /\ LET old    == book_orders[maker]
           traded == Lesser(taker.remaining, old.remaining)
           new    == refresh_display([old EXCEPT !.remaining = @ - traded])
           filled == update_after_fill(depth[Book][it], old, new)
           q      == queue[Book][it]
       IN  \E i \in At(q, maker) :
             /\ taker' = [taker EXCEPT !.remaining = @ - traded]
             /\ maker' = NextInList(q, i)
             /\ fills' = Append(fills, [maker |-> maker, taker |-> taker.id,
                                        quantity |-> traded, price |-> it])
             /\ IF new.remaining = 0
                THEN /\ queue' = [queue EXCEPT ![Book][it] = RemoveAt(q, i)]
                     /\ depth' = [depth EXCEPT ![Book][it] = TakeFrom(filled, new)]
                     /\ book_orders' = [book_orders EXCEPT ![maker] = NoOrder]
                ELSE /\ depth' = [depth EXCEPT ![Book][it] = filled]
                     /\ book_orders' = [book_orders EXCEPT ![maker] = new]
                     /\ UNCHANGED queue
    /\ UNCHANGED <<known, levels, next_sequence, pc, it, result>>

\* The end of a turn of the outer loop: an empty level is erased.
LeaveLevel ==
    /\ pc = "maker"
    /\ maker = NoId \/ taker.remaining <= 0
    /\ it' \in Successor(Book, it, levels[Book])
    /\ IF empty(queue[Book][it])
       THEN /\ levels' = [levels EXCEPT ![Book] = @ \ {it}]
            /\ depth' = [depth EXCEPT ![Book][it] = NoDepth]
       ELSE UNCHANGED <<levels, depth>>
    /\ pc' = "level"
    /\ UNCHANGED <<known, book_orders, queue, next_sequence, taker, maker, fills,
                   result>>

\* Mutant: the order goes to the head of the list.
rest_order_first(r) ==
    /\ levels' = [levels EXCEPT ![r.side] = @ \cup {r.price}]
    /\ queue' = [queue EXCEPT ![r.side][r.price] = <<r.id>> \o @]
    /\ depth' = [depth EXCEPT ![r.side][r.price] = AddTo(@, r)]

\* rest_order: the level is created if need be; the order goes to its tail.
rest_order(r) ==
    /\ levels' = [levels EXCEPT ![r.side] = @ \cup {r.price}]
    /\ queue' = [queue EXCEPT ![r.side][r.price] = Append(@, r.id)]
    /\ depth' = [depth EXCEPT ![r.side][r.price] = AddTo(@, r)]

\* The order ends: nothing left, or not to rest, or its id is taken (after the
\* fills were made), or it rests.
Finish ==
    /\ pc = "rest"
    /\ pc' = "ret"
    /\ \/ /\ taker.remaining <= 0
          /\ result' = [NoResult EXCEPT !.accepted = TRUE, !.fully_filled = TRUE]
          /\ UNCHANGED shard
       \/ /\ taker.remaining > 0
          /\ taker.tif \in {"IOC", "FOK"}
          /\ result' = [NoResult EXCEPT !.accepted = TRUE]
          /\ UNCHANGED shard
       \/ /\ taker.remaining > 0
          /\ taker.tif \notin {"IOC", "FOK"}
          /\ book_orders[taker.id] # NoOrder
          /\ result' = [NoResult EXCEPT !.reject_code = "DuplicateOrderId"]
          /\ UNCHANGED shard
       \/ /\ taker.remaining > 0
          /\ taker.tif \notin {"IOC", "FOK"}
          /\ book_orders[taker.id] = NoOrder
          /\ book_orders' = [book_orders EXCEPT ![taker.id] = refresh_display(taker)]
          /\ rest_order(refresh_display(taker))
          /\ result' = [NoResult EXCEPT !.accepted = TRUE, !.resting = TRUE]
          /\ UNCHANGED next_sequence
    /\ UNCHANGED <<known, taker, it, maker, fills>>

\* Mutant: the vector of fills is kept for the next call.
Return_keeps_fills ==
    /\ pc = "ret"
    /\ pc' = "idle"
    /\ taker' = NoOrder /\ it' = NoPrice /\ maker' = NoId /\ result' = NoResult
    /\ UNCHANGED <<known, shard, fills>>

\* The caller has the result; the locals are gone.
Return ==
    /\ pc = "ret"
    /\ pc' = "idle"
    /\ taker' = NoOrder
    /\ it' = NoPrice
    /\ maker' = NoId
    /\ fills' = <<>>
    /\ result' = NoResult
    /\ UNCHANGED <<known, shard>>

Step == EnterLevel \/ StopMatching \/ Fill \/ LeaveLevel \/ Finish \/ Return

Next ==
    \/ AddMarket
    \/ ClearMarket
    \/ \E req \in OrderRequests : Submit(req)
    \/ \E req \in OrderRequests : Replace(req)
    \/ \E id \in OrderIds : Cancel(id)
    \/ Step

\* The steps of a call follow one another without waiting for anything.
Spec == Init /\ [][Next]_vars

FairSpec == Spec /\ WF_vars(Step)

-----------------------------------------------------------------------------
(* Properties                                                              *)

\* An order is being executed.
Executing == pc \in {"level", "maker", "rest"}

ShardTypeOK ==
    /\ known \in BOOLEAN
    /\ book_orders \in [OrderIds -> OrderRecords \cup {NoOrder}]
    /\ levels \in [Sides -> SUBSET Prices]
    /\ queue \in [Sides -> [Prices -> Seq(OrderIds)]]
    /\ depth \in [Sides -> [Prices -> [total : Int, visible : Int]]]
    /\ next_sequence \in Nat

CallTypeOK ==
    /\ pc \in {"idle", "level", "maker", "rest", "ret"}
    /\ taker \in OrderRecords \cup {NoOrder}
    /\ it \in Prices \cup {NoPrice}
    /\ maker \in OrderIds \cup {NoId}
    /\ fills \in Seq(FillEvents)
    /\ result \in Results
    /\ Executing => taker # NoOrder
    /\ pc = "maker" => it # NoPrice
    /\ pc = "idle" => fills = <<>>

\* Every field of the shard and of the running call holds a value of its C++
\* type, and the locals are those of the place where the call is.
TypeOK == ShardTypeOK /\ CallTypeOK

\* Every entry of a level's list is the record of a resting order of that side
\* and price with quantity left, and no record is linked twice.
ListsHoldOrders ==
    \A side \in Sides, p \in Prices : \A i \in 1 .. Len(queue[side][p]) :
        LET id == queue[side][p][i]
        IN  /\ book_orders[id] # NoOrder
            /\ book_orders[id].id = id
            /\ book_orders[id].side = side
            /\ book_orders[id].price = p
            /\ book_orders[id].remaining > 0
            /\ \A j \in 1 .. Len(queue[side][p]) : queue[side][p][j] = id => j = i

\* Every resting order is linked in the list of its level.
OrdersAreListed ==
    \A id \in OrderIds : book_orders[id] # NoOrder =>
        At(queue[book_orders[id].side][book_orders[id].price], id) # {}

\* A level exists when it has orders, and otherwise only while match_order, which
\* erases it when it leaves, is working on it.
NoEmptyLevels ==
    \A side \in Sides, p \in Prices :
        /\ queue[side][p] # <<>> => p \in levels[side]
        /\ p \in levels[side] /\ queue[side][p] = <<>> =>
              pc = "maker" /\ side = Book /\ p = it

\* The intrusive lists, the levels and the hash map of orders agree: no pointer
\* dangles, no order is unreachable and no empty level is left behind, whatever
\* the order of fills, cancels and replaces.
BookIntegrity == ListsHoldOrders /\ OrdersAreListed /\ NoEmptyLevels

\* What a resting order shows of its remaining quantity.
Shown(r) ==
    CASE "hidden" \in r.flags -> 0
      [] "hidden" \notin r.flags /\ "iceberg" \in r.flags /\ r.display_size > 0 ->
            Lesser(r.display_size, r.remaining)
      [] OTHER -> r.remaining

\* What the orders of the ids have left, and what they show of it.
DepthOf(orders, ids) ==
    [total |-> SumFunction([id \in ids |-> orders[id].remaining]),
     visible |-> SumFunction([id \in ids |-> Shown(orders[id])])]

\* The ids of the orders at a price.
OrdersAt(orders, side, p) ==
    {id \in OrderIds : /\ orders[id] # NoOrder
                       /\ orders[id].side = side
                       /\ orders[id].price = p}

\* The incrementally maintained total_qty and visible_qty of every level are the
\* sums over its orders of what remains and of what is shown, after any number
\* of fills, refreshes, cancels and replaces.
AggregatesExact ==
    \A side \in Sides, p \in Prices :
        depth[side][p] = DepthOf(book_orders, OrdersAt(book_orders, side, p))

\* The book is never crossed: every resting bid is below every resting ask, also
\* while a call is under way.
BookNotCrossed ==
    \A a, b \in OrderIds :
        (/\ book_orders[a] # NoOrder /\ book_orders[a].side = "buy"
         /\ book_orders[b] # NoOrder /\ book_orders[b].side = "sell")
            => book_orders[a].price < book_orders[b].price

\* A fill-or-kill order that passed the liquidity check on the level totals is
\* filled to the last unit by the lists of orders; one that was refused has
\* traded nothing.
FokAllOrNothing ==
    /\ (pc = "rest" /\ taker.tif = "FOK") => taker.remaining <= 0
    /\ (pc = "ret" /\ result.reject_code = "InsufficientLiquidity") => fills = <<>>

\* A call that has started ends, whatever the book looks like: the two loops of
\* match_order terminate.
CallsReturn == pc # "idle" ~> pc = "idle"

-----------------------------------------------------------------------------
(* The inductive invariant of the proofs                                   *)

\* Along a level's list the FIFO sequences rise.
ListsInTimeOrder ==
    \A side \in Sides, p \in Prices :
        \A i, j \in 1 .. Len(queue[side][p]) : i < j =>
            book_orders[queue[side][p][i]].fifo_seq
                < book_orders[queue[side][p][j]].fifo_seq

\* Every FIFO sequence has been issued, and the running order's is the latest.
SequencesIssued ==
    /\ next_sequence > 0
    /\ \A id \in OrderIds : book_orders[id] # NoOrder =>
          /\ book_orders[id].fifo_seq < next_sequence
          /\ Executing => book_orders[id].fifo_seq < taker.fifo_seq
    /\ Executing => taker.fifo_seq < next_sequence

\* Time priority is list order: a level's list runs from its oldest order to its
\* latest, and an order that is still executing is later than all of them.
TimePriority == ListsInTimeOrder /\ SequencesIssued

\* The levels on the other side that the running order crosses.
Crossed == {p \in levels[Book] : crosses(taker.side, taker.price, p)}

\* The loop invariants of match_order: while the order has quantity left, the
\* level iterator is at the best level and the maker pointer at the head of its
\* list; after the loop nothing is left to cross; a post-only order crosses
\* nothing at all.
MatchingLoop ==
    /\ (pc = "level" /\ taker.remaining > 0) => it \in Begin(Book)
    /\ pc = "maker" => it \in Crossed /\ it \in Begin(Book)
    /\ (pc = "maker" /\ taker.remaining > 0) =>
          maker = IF queue[Book][it] = <<>> THEN NoId ELSE queue[Book][it][1]
    /\ (pc = "rest" /\ taker.remaining > 0) => Crossed = {}
    /\ (Executing /\ "post_only" \in taker.flags) =>
          Crossed = {}

Inv == TypeOK /\ BookIntegrity /\ TimePriority /\ BookNotCrossed /\ MatchingLoop

-----------------------------------------------------------------------------
(* The abstract market that the shard implements                           *)

AbstractOrder(r) == [side |-> r.side, price |-> r.price, qty |-> r.remaining,
                     seq |-> r.fifo_seq]

AbstractResting ==
    [id \in OrderIds |-> IF book_orders[id] = NoOrder THEN NoOrder
                         ELSE AbstractOrder(book_orders[id])]

AbstractIncoming ==
    IF Executing
    THEN [id |-> taker.id, side |-> taker.side, price |-> taker.price,
          qty |-> taker.remaining, tif |-> taker.tif,
          postOnly |-> "post_only" \in taker.flags, seq |-> taker.fifo_seq]
    ELSE NoOrder

\* NoOrder is no abstract order either.
ASSUME AbstractNullAssumption ==
    /\ NoOrder \notin [side : Sides, price : Prices, qty : Int, seq : Nat]
    /\ NoOrder \notin [id : OrderIds, side : Sides, price : Prices, qty : Int,
                      tif : TimesInForce, postOnly : BOOLEAN, seq : Nat]

Market == INSTANCE PriceTimeBook WITH
            resting <- AbstractResting, clock <- next_sequence,
            incoming <- AbstractIncoming, fills <- fills

\* The shard implements the market of PriceTimeBook: every fill is with the
\* resting order that has price-time priority, at its price, for as much as both
\* have left, and an order rests only when it can trade no more.
ImplementsPriceTimeBook == Market!BookSpec
=============================================================================
