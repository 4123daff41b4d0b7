-------------------------- MODULE EventLoop_proofs --------------------------
(***************************************************************************)
(* Proofs about the event loop, for any accounts, nonces, payloads and     *)
(* sizes of ids, any order in which a turn drains the lanes, any number    *)
(* in the log at the start, and any number of frames.                      *)
(***************************************************************************)
EXTENDS EventLoop, SequenceTheorems, NaturalsInduction, WellFoundedInduction, TLAPS

-----------------------------------------------------------------------------
(* The inductive invariant                                                 *)

MarketOrders ==
    [id : OrderIds, side : Sides, price : Prices, qty : Int, tif : {"GTC"},
     postOnly : BOOLEAN, seq : Nat]
RestingOrders == [side : Sides, price : Prices, qty : Int, seq : Nat]
Fills == [maker : OrderIds, taker : OrderIds, quantity : Int, price : Prices]
Trades == [fill : Fills, side : Sides, taker : Nat, maker : Nat, offset : Int]
Logged == [kind : Kinds, n : Nat]

\* The types of the market, the matter of the calls, and the results.
MarketInv ==
    /\ resting \in [OrderIds -> RestingOrders \cup {NoOrder}] /\ clock \in Nat
    /\ fills \in Seq(Fills)
    /\ pc = "match" => incoming \in MarketOrders
    /\ executed \in Seq(Trades)

\* What the loop knows of the frame at each of its steps.
CallInv ==
    /\ pc \in Kinds => frame \in Frames(Nat) /\ frame.kind = pc
    /\ pc \in {"match", "fills"} =>
          frame \in Frames(Nat) /\ frame.kind \in {"new", "replace"} /\ taker \in Contexts
    /\ pc # "fills" => done = 0

\* A snapshot that covers the records up to its offset, of which this process
\* logged those from FirstOffset on.
Labelled(s) ==
    /\ s.offset - FirstOffset + 1 \in Nat
    /\ s.sequence = label(s.offset - FirstOffset + 1)

\* Blocks are counted as records are.
LogInv ==
    /\ block_number + processed = Len(log)
    /\ snapshots \in Seq([sequence : Nat, offset : Int])
    /\ \A i \in 1 .. Len(snapshots) : Labelled(snapshots[i])

\* Frames are in the lane of their kind, and later ones have higher numbers.
LaneInv ==
    /\ \A k \in Kinds : \A i \in 1 .. Len(lanes[k]) :
          lanes[k][i].kind = k /\ lanes[k][i].n <= arrived
    /\ \A i \in 1 .. Len(log) : log[i].n <= arrived
    /\ FramesAccounted

\* The order that the matcher works on is the frame's, and so is the context, unless
\* its id was given away twice.
OrderInv ==
    /\ pc = "match" => incoming.id = order_id(frame)
    /\ pc \in {"match", "fills"} /\ order_id(frame) \notin clashed =>
          taker.account = owner[order_id(frame)]
    /\ pc = "match" /\ order_id(frame) \notin clashed =>
          incoming.side = taker.side /\ resting[order_id(frame)] = NoOrder
    /\ pc = "fills" /\ order_id(frame) \notin clashed /\ resting[order_id(frame)] # NoOrder =>
          result = "resting" /\ resting[order_id(frame)].side = taker.side
    /\ ContextsMatchBook

\* The fills that are still to be processed, and the trades that are behind us.
Pending == IF pc \in {"match", "fills"} THEN Len(fills) - done ELSE 0
Settled == Len(executed) - Pending

Records ==
    [offset : Int, order_id : OrderIds, account : Accounts, price : Prices, quantity : Int]

\* Trade t of a fill f that is still to be processed; the maker's context is still
\* there, if no id was given away twice.
Owed(t, f) ==
    /\ t.fill = f /\ t.offset = Offset /\ t.taker = owner[order_id(frame)]
    /\ f.taker = order_id(frame)
    /\ clashed = {} =>
          /\ t.side = taker.side
          /\ resting_orders[f.maker] = [account |-> t.maker,
                                        side |-> Market!Opposite(taker.side)]

Due(i) == Owed(executed[Settled + i - done], fills[i])

\* Trade j has a metadata record.
Reported(j) == \E k \in 1 .. Len(metadata) : metadata[k] = Record(executed[j])

\* Every settled trade is in the books.
Booked ==
    /\ Settled = Len(metadata)
    /\ \A i \in 1 .. Len(metadata) : metadata[i] = Record(executed[i])
    /\ \A a \in Accounts : position[a] = Net(a, executed)[Len(metadata)]

\* The trades that have been processed are booked; the others are those of the order
\* being executed.
FillInv ==
    /\ metadata \in Seq(Records)
    /\ Settled \in Nat
    /\ \A i \in done + 1 .. done + Pending : Due(i)
    /\ \A j \in 1 .. Settled : executed[j].fill.taker \notin clashed => Reported(j)
    /\ clashed = {} => Booked

LoopInv == TypeOK /\ MarketInv /\ CallInv /\ LogInv /\ LaneInv /\ OrderInv /\ FillInv

-----------------------------------------------------------------------------
(* Operators                                                               *)

\* A set of numbers that is not empty has a least one.
LEMMA LeastNumber ==
    ASSUME NEW T \in SUBSET Nat, T # {}
    PROVE  \E x \in T : \A y \in T : x <= y
  <1> DEFINE R == OpToRel(<, Nat)
  <1>1. IsWellFoundedOn(R, Nat)
    BY NatLessThanWellFounded, Zenon
  <1>2. \A x, y \in Nat : <<x, y>> \in R <=> x < y
    BY DEF OpToRel
  <1> HIDE DEF R
  <1>3. PICK x \in T : \A y \in T : ~ (<<y, x>> \in R)
    BY <1>1, WFMin, Zenon
  <1>4. ASSUME NEW y \in T PROVE x <= y
    <2>1. x \in Nat /\ y \in Nat /\ ~ (y < x)
      BY <1>2, <1>3
    <2> QED
      BY <2>1
  <1> QED
    BY <1>4

\* The recursion of Net has a solution.
LEMMA NetExists ==
    ASSUME NEW a, NEW s, NEW m \in Nat
    PROVE  \E g : g = [n \in 0 .. m |-> IF n = 0 THEN 0 ELSE g[n - 1] + Bought(a, s[n])]
  <1> DEFINE Solves(g, k) ==
                g = [n \in 0 .. k |-> IF n = 0 THEN 0 ELSE g[n - 1] + Bought(a, s[n])]
             T == {k \in Nat : ~ \E g : Solves(g, k)}
  <1>1. SUFFICES ASSUME T # {} PROVE FALSE
    OBVIOUS
  <1>2. PICK x \in T : \A y \in T : x <= y
    BY <1>1, LeastNumber
  <1>3. CASE x = 0
    <2>1. Solves([n \in 0 .. 0 |-> 0], 0)
      OBVIOUS
    <2> QED
      BY <1>2, <1>3, <2>1
  <1>4. CASE x # 0
    <2>1. x \in Nat /\ x - 1 \in Nat /\ ~ (x - 1 \in T)
      <3> HIDE DEF Solves
      <3>1. T \in SUBSET Nat
        OBVIOUS
      <3> HIDE DEF T
      <3> QED
        BY <1>2, <1>4, <3>1
    <2>2. PICK g : Solves(g, x - 1)
      <3> HIDE DEF Solves
      <3> QED
        BY <2>1
    <2> DEFINE h == [n \in 0 .. x |-> IF n = x THEN g[x - 1] + Bought(a, s[x]) ELSE g[n]]
    <2>3. \A n \in 0 .. x - 1 : h[n] = g[n]
      BY <2>1
    <2>4. ASSUME NEW n \in 0 .. x
          PROVE  h[n] = IF n = 0 THEN 0 ELSE h[n - 1] + Bought(a, s[n])
      <3>1. CASE n = x
        <4>1. h[n] = g[x - 1] + Bought(a, s[x]) /\ h[n - 1] = g[n - 1] /\ n # 0
          BY <1>4, <2>1, <2>3, <3>1
        <4> QED
          BY <3>1, <4>1
      <3>2. CASE n # x
        <4>1. n \in 0 .. x - 1 /\ (n # 0 => n - 1 \in 0 .. x - 1)
          BY <2>1, <3>2
        <4>2. g[n] = IF n = 0 THEN 0 ELSE g[n - 1] + Bought(a, s[n])
          BY <2>2, <4>1
        <4> HIDE DEF h
        <4> QED
          BY <2>3, <4>1, <4>2
      <3> QED
        BY <3>1, <3>2
    <2>5. h = [n \in 0 .. x |-> h[n]]
      OBVIOUS
    <2> HIDE DEF h
    <2>6. Solves(h, x)
      BY <2>4, <2>5
    <2> QED
      BY <1>2, <2>6
  <1> QED
    BY <1>3, <1>4

\* Net, step by step.
LEMMA NetValues ==
    ASSUME NEW a, NEW s, Len(s) \in Nat
    PROVE  /\ Net(a, s)[0] = 0
           /\ \A n \in 1 .. Len(s) : Net(a, s)[n] = Net(a, s)[n - 1] + Bought(a, s[n])
  <1> DEFINE f == Net(a, s)
  <1>1. f = [n \in 0 .. Len(s) |-> IF n = 0 THEN 0 ELSE f[n - 1] + Bought(a, s[n])]
    BY NetExists DEF Net
  <1> HIDE DEF f
  <1>2. \A n \in 0 .. Len(s) : f[n] = IF n = 0 THEN 0 ELSE f[n - 1] + Bought(a, s[n])
    BY <1>1
  <1>3. f[0] = 0 /\ \A n \in 1 .. Len(s) : f[n] = f[n - 1] + Bought(a, s[n])
    BY <1>2
  <1> QED
    BY <1>3 DEF f

\* Later trades do not change it.
LEMMA NetOfPrefix ==
    ASSUME NEW a, NEW s, NEW t, Len(s) \in Nat, Len(t) \in Nat, Len(s) <= Len(t),
           \A i \in 1 .. Len(s) : t[i] = s[i],
           NEW m \in 0 .. Len(s)
    PROVE  Net(a, t)[m] = Net(a, s)[m]
  <1> DEFINE T == {n \in 0 .. Len(s) : Net(a, t)[n] # Net(a, s)[n]}
  <1>1. SUFFICES ASSUME T # {} PROVE FALSE
    OBVIOUS
  <1>2. T \in SUBSET Nat
    OBVIOUS
  <1>3. PICK x \in T : \A y \in T : x <= y
    BY <1>1, <1>2, LeastNumber
  <1>4. x \in 0 .. Len(s) /\ Net(a, t)[x] # Net(a, s)[x]
    BY <1>3
  <1>5. x # 0
    BY <1>4, NetValues
  <1>6. x - 1 \in 0 .. Len(s) /\ x \in 1 .. Len(s) /\ x \in 1 .. Len(t)
    BY <1>4, <1>5
  <1>7. Net(a, t)[x - 1] = Net(a, s)[x - 1]
    BY <1>3, <1>6
  <1>8. Net(a, t)[x] = Net(a, t)[x - 1] + Bought(a, t[x])
    BY <1>6, NetValues
  <1>9. Net(a, s)[x] = Net(a, s)[x - 1] + Bought(a, s[x])
    BY <1>6, NetValues
  <1> QED
    BY <1>4, <1>6, <1>7, <1>8, <1>9

\* What masking leaves of a number.
LEMMA Residue ==
    ASSUME NEW n \in Nat, NEW m \in Nat \ {0}
    PROVE  n % m \in 0 .. m - 1
  OBVIOUS

\* What decodes to a frame has the fields of its kind.
LEMMA FrameFields ==
    ASSUME NEW N, NEW f \in Frames(N)
    PROVE  /\ f.kind \in Kinds /\ f.n \in N /\ order_id(f) \in OrderIds
           /\ f.kind # "new" => order_id(f) = f.id
           /\ f.kind = "new" => f.order.side \in Sides
           /\ f.kind # "cancel" =>
                 /\ f.account \in Accounts /\ f.order.price \in Prices
                 /\ f.order.quantity \in Quantities /\ f.order.post_only \in BOOLEAN
  <1>1. CASE f \in [kind : {"new"}, n : N, account : Accounts, nonce : Nonces, order : Orders]
    <2>1. /\ f.kind = "new" /\ f.n \in N /\ f.account \in Accounts /\ f.nonce \in Nonces
          /\ f.order \in Orders
      BY <1>1
    <2>2. f.account % SessionIds \in 0 .. SessionIds - 1 /\ f.nonce % LocalIds \in 0 .. LocalIds - 1
      BY <2>1, NumbersAssumption, Residue
    <2>3. order_id(f) \in OrderIds
      BY <2>1, <2>2 DEF order_id, OrderIds
    <2>4. /\ f.order.side \in Sides /\ f.order.price \in Prices
          /\ f.order.quantity \in Quantities /\ f.order.post_only \in BOOLEAN
      BY <2>1, PayloadsAssumption
    <2> QED
      BY <2>1, <2>3, <2>4 DEF Kinds
  <1>2. CASE f \in [kind : {"cancel"}, n : N, id : OrderIds]
    <2>1. f.kind = "cancel" /\ f.n \in N /\ f.id \in OrderIds
      BY <1>2
    <2> QED
      BY <2>1 DEF Kinds, order_id
  <1>3. CASE f \in [kind : {"replace"}, n : N, account : Accounts, id : OrderIds,
                    order : Replaces]
    <2>1. /\ f.kind = "replace" /\ f.n \in N /\ f.account \in Accounts /\ f.id \in OrderIds
          /\ f.order \in Replaces
      BY <1>3
    <2>2. /\ f.order.price \in Prices
          /\ f.order.quantity \in Quantities /\ f.order.post_only \in BOOLEAN
      BY <2>1, PayloadsAssumption
    <2> QED
      BY <2>1, <2>2 DEF Kinds, order_id
  <1> QED
    BY <1>1, <1>2, <1>3 DEF Frames

\* The frame that arrives is one with a number.
LEMMA FrameArrived ==
    ASSUME NEW n \in Nat, NEW f \in Frames({n})
    PROVE  f \in Frames(Nat) /\ f.n = n
  BY DEF Frames

-----------------------------------------------------------------------------
(* The market's steps, as the loop sees them                               *)

TypeInv == TypeOK /\ MarketInv /\ CallInv

\* An order is given to the matcher.
LEMMA OrderEnters ==
    ASSUME TypeInv, SubmitOrder
    PROVE  /\ UNCHANGED resting /\ clock' \in Nat /\ fills' = <<>>
           /\ incoming' \in MarketOrders
           /\ incoming'.id = order_id(frame) /\ incoming'.side = frame.order.side
           /\ frame \in Frames(Nat) /\ frame.kind = "new" /\ order_id(frame) \in OrderIds
           /\ frame.account \in Accounts /\ frame.order.side \in Sides
  <1>1. /\ frame \in Frames(Nat) /\ frame.kind = "new" /\ order_id(frame) \in OrderIds
        /\ frame.account \in Accounts
        /\ frame.order.side \in Sides /\ frame.order.price \in Prices
        /\ frame.order.quantity \in Quantities /\ frame.order.post_only \in BOOLEAN
    BY FrameFields DEF TypeInv, CallInv, Kinds, SubmitOrder
  <1>2. clock \in Nat
    BY DEF TypeInv, MarketInv
  <1>3. /\ UNCHANGED resting /\ clock' = clock + 1 /\ fills' = <<>>
        /\ incoming' = Order(frame, frame.order.side)
    BY DEF SubmitOrder, Market!NewOrder, Market!Enter
  <1>4. /\ incoming' \in MarketOrders /\ incoming'.id = order_id(frame)
        /\ incoming'.side = frame.order.side
    BY <1>1, <1>2, <1>3, QuantitiesAssumption DEF Order, MarketOrders
  <1> QED
    BY <1>1, <1>2, <1>3, <1>4

\* An order is replaced: it leaves the book and comes again, with the side it had.
LEMMA OrderReenters ==
    ASSUME TypeInv, ReplaceResting
    PROVE  /\ resting' = [resting EXCEPT ![frame.id] = NoOrder]
           /\ clock' \in Nat /\ fills' = <<>>
           /\ incoming' \in MarketOrders /\ incoming'.id = frame.id
           /\ incoming'.side = resting[frame.id].side /\ resting[frame.id].side \in Sides
           /\ frame \in Frames(Nat) /\ frame.kind = "replace" /\ frame.id \in OrderIds
           /\ resting[frame.id] # NoOrder /\ order_id(frame) = frame.id
           /\ frame.account \in Accounts
  <1>1. /\ frame \in Frames(Nat) /\ frame.kind = "replace" /\ frame.id \in OrderIds
        /\ frame.order.price \in Prices /\ frame.order.quantity \in Quantities
        /\ frame.order.post_only \in BOOLEAN /\ order_id(frame) = frame.id
        /\ frame.account \in Accounts
    BY FrameFields DEF TypeInv, CallInv, Kinds, ReplaceResting
  <1>2. clock \in Nat /\ resting \in [OrderIds -> RestingOrders \cup {NoOrder}]
    BY DEF TypeInv, MarketInv
  <1>3. resting[frame.id] # NoOrder /\ resting[frame.id].side \in Sides
    BY <1>1, <1>2 DEF ReplaceResting, RestingOrders
  <1>a. PICK id \in OrderIds : /\ resting' = [resting EXCEPT ![id] = NoOrder]
                               /\ Market!Enter(id, resting[id].side)
    BY DEF ReplaceResting, Market!ReplaceOrder
  <1>4. incoming'.id = id /\ clock' = clock + 1 /\ fills' = <<>>
    BY <1>a DEF Market!Enter
  <1>5. incoming' = Order(frame, resting[frame.id].side)
    BY DEF ReplaceResting
  <1>6. /\ incoming' \in MarketOrders /\ incoming'.id = frame.id
        /\ incoming'.side = resting[frame.id].side
    BY <1>1, <1>2, <1>3, <1>5, QuantitiesAssumption DEF Order, MarketOrders
  <1> QED
    BY <1>1, <1>2, <1>3, <1>a, <1>4, <1>6

\* An order is taken out.
LEMMA OrderLeaves ==
    ASSUME TypeInv, Market!CancelOrder, NEW id \in OrderIds,
           resting[id] # NoOrder, resting'[id] = NoOrder
    PROVE  /\ resting' = [resting EXCEPT ![id] = NoOrder]
           /\ clock' \in Nat /\ fills' = <<>>
  <1>1. clock \in Nat /\ resting \in [OrderIds -> RestingOrders \cup {NoOrder}]
    BY DEF TypeInv, MarketInv
  <1>2. PICK other \in OrderIds : resting' = [resting EXCEPT ![other] = NoOrder]
    BY DEF Market!CancelOrder
  <1>3. other = id
    BY <1>1, <1>2
  <1> QED
    BY <1>1, <1>2, <1>3 DEF Market!CancelOrder

\* A trade of the running order with a resting one, which stays with less or goes.
Traded(id, q) ==
    /\ resting[id] # NoOrder /\ resting[id] \in RestingOrders
    /\ resting[id].side = Market!Opposite(incoming.side)
    /\ fills' = Append(fills, [maker |-> id, taker |-> incoming.id, quantity |-> q,
                               price |-> resting[id].price])
    /\ [maker |-> id, taker |-> incoming.id, quantity |-> q,
        price |-> resting[id].price] \in Fills
    /\ incoming' \in MarketOrders /\ incoming'.id = incoming.id /\ incoming'.side = incoming.side
    /\ resting' \in [OrderIds -> RestingOrders \cup {NoOrder}]
    /\ \A j \in OrderIds :
          resting'[j] # NoOrder => resting[j] # NoOrder /\ resting'[j].side = resting[j].side
    /\ UNCHANGED clock

LEMMA OrderTrades ==
    ASSUME TypeInv, Trade
    PROVE  \E id \in OrderIds, q \in Int : Traded(id, q)
  <1>1. /\ incoming \in MarketOrders /\ resting \in [OrderIds -> RestingOrders \cup {NoOrder}]
        /\ pc = "match" /\ Market!Trade
    BY DEF TypeInv, MarketInv, Trade
  <1>2. PICK id \in Market!Counterparties(incoming) :
            LET q == Market!Lesser(incoming.qty, resting[id].qty)
            IN  /\ incoming' = [incoming EXCEPT !.qty = @ - q]
                /\ resting' = [resting EXCEPT ![id] =
                              IF resting[id].qty = q THEN NoOrder
                              ELSE [resting[id] EXCEPT !.qty = @ - q]]
                /\ fills' = Append(fills, [maker |-> id, taker |-> incoming.id,
                                       quantity |-> q,
                                       price |-> resting[id].price])
    BY <1>1 DEF Market!Trade
  <1> DEFINE q == Market!Lesser(incoming.qty, resting[id].qty)
  <1>3. /\ id \in OrderIds /\ resting[id] # NoOrder /\ resting[id] \in RestingOrders
        /\ resting[id].side = Market!Opposite(incoming.side)
    BY <1>1 DEF Market!Counterparties, Market!Resting
  <1>4. q \in Int
    BY <1>1, <1>3 DEF MarketOrders, RestingOrders, Market!Lesser
  <1>5. /\ incoming' = [incoming EXCEPT !.qty = @ - q]
        /\ resting' = [resting EXCEPT ![id] =
                              IF resting[id].qty = q THEN NoOrder
                              ELSE [resting[id] EXCEPT !.qty = @ - q]]
        /\ fills' = Append(fills, [maker |-> id, taker |-> incoming.id, quantity |-> q,
                                   price |-> resting[id].price])
    BY <1>2
  <1>6. UNCHANGED clock
    BY <1>1 DEF Market!Trade
  <1> HIDE DEF q
  <1>7. incoming' \in MarketOrders /\ incoming'.id = incoming.id /\ incoming'.side = incoming.side
    BY <1>1, <1>4, <1>5 DEF MarketOrders
  <1>8. [resting[id] EXCEPT !.qty = @ - q] \in RestingOrders
        /\ [resting[id] EXCEPT !.qty = @ - q].side = resting[id].side
    BY <1>3, <1>4 DEF RestingOrders
  <1>9. /\ resting' \in [OrderIds -> RestingOrders \cup {NoOrder}]
        /\ \A j \in OrderIds :
              resting'[j] # NoOrder => resting[j] # NoOrder /\ resting'[j].side = resting[j].side
    BY <1>1, <1>3, <1>5, <1>8
  <1>10. [maker |-> id, taker |-> incoming.id, quantity |-> q,
          price |-> resting[id].price] \in Fills
    BY <1>1, <1>3, <1>4 DEF MarketOrders, RestingOrders, Fills
  <1> QED
    BY <1>3, <1>4, <1>5, <1>6, <1>7, <1>9, <1>10 DEF Traded

\* What is left of it is booked.
LEMMA OrderRests ==
    ASSUME TypeInv, Rests
    PROVE  /\ \E r \in RestingOrders : /\ resting' = [resting EXCEPT ![incoming.id] = r]
                                       /\ r.side = incoming.side
           /\ incoming.id \in OrderIds /\ UNCHANGED <<clock, fills>>
  <1>1. incoming \in MarketOrders
    BY DEF TypeInv, MarketInv, Rests
  <1> DEFINE r == [side |-> incoming.side, price |-> incoming.price,
                   qty |-> incoming.qty, seq |-> incoming.seq]
  <1>2. r \in RestingOrders /\ r.side = incoming.side /\ incoming.id \in OrderIds
    BY <1>1 DEF MarketOrders, RestingOrders
  <1>3. resting' = [resting EXCEPT ![incoming.id] = r] /\ UNCHANGED <<clock, fills>>
    BY DEF Rests, Market!Book
  <1> QED
    BY <1>2, <1>3

-----------------------------------------------------------------------------
(* Types                                                                   *)

\* A step that ends the work on a frame, with a market of the right types.
LEMMA TypesNextFrame ==
    ASSUME TypeInv, NextFrame, UNCHANGED <<executed, owner, clashed>>,
           resting' \in [OrderIds -> RestingOrders \cup {NoOrder}], clock' \in Nat,
           fills' \in Seq(Fills),
           resting_orders' \in [OrderIds -> Contexts \cup {NoContext}],
           position' \in [Accounts -> Int]
    PROVE  TypeInv'
  BY DEF TypeInv, TypeOK, MarketInv, CallInv, NextFrame, ingress, blocks, Kinds

\* Every step keeps the types.
LEMMA TypesKept ==
    ASSUME TypeInv, [Next]_vars
    PROVE  TypeInv'
  <1> USE DEF Kinds
  <1>0. /\ resting \in [OrderIds -> RestingOrders \cup {NoOrder}] /\ clock \in Nat
        /\ fills \in Seq(Fills) /\ executed \in Seq(Trades)
        /\ resting_orders \in [OrderIds -> Contexts \cup {NoContext}]
        /\ position \in [Accounts -> Int] /\ Len(fills) \in Nat /\ Len(log) \in Nat
        /\ Offset \in Int /\ done \in Nat /\ owner \in [OrderIds -> Nat]
    <2>1. /\ fills \in Seq(Fills) /\ log \in Seq(Logged)
      BY DEF TypeInv, TypeOK, MarketInv, Logged
    <2>2. Len(fills) \in Nat /\ Len(log) \in Nat
      BY <2>1, LenProperties
    <2> QED
      BY <2>2, OffsetAssumption DEF TypeInv, TypeOK, MarketInv, Offset
  <1>1. CASE UNCHANGED vars
    BY <1>1 DEF TypeInv, TypeOK, MarketInv, CallInv, vars, ingress, market, call, books, blocks,
       history
  <1>2. CASE Signal
    BY <1>2 DEF TypeInv, TypeOK, MarketInv, CallInv, Signal, market, call, books, blocks,
       history
  <1>3. ASSUME NEW f \in Frames({arrived + 1}), Receive(f) PROVE TypeInv'
    <2>1. f \in Frames(Nat) /\ f.kind \in Kinds
      <3>1. arrived + 1 \in Nat
        BY DEF TypeInv, TypeOK
      <3>2. f \in Frames(Nat)
        BY <3>1, FrameArrived
      <3> QED
        BY <3>2, FrameFields
    <2>2. lanes' \in [Kinds -> Seq(Frames(Nat))]
      BY <1>3, <2>1 DEF Receive, TypeInv, TypeOK
    <2>3. arrived' \in Nat
      BY <1>3, <2>1 DEF Receive, TypeInv, TypeOK
    <2> QED
      BY <1>3, <2>2, <2>3 DEF TypeInv, TypeOK, MarketInv, CallInv, Receive, market, call, books,
         blocks, history
  <1>4. CASE Take
    <2>1. /\ Lane \in Kinds /\ lanes[Lane] \in Seq(Frames(Nat)) /\ lanes[Lane] # <<>>
      BY <1>4, DrainOrderAssumption DEF Take, Lane, TypeInv, TypeOK
    <2>2. frame' \in Frames(Nat) /\ Tail(lanes[Lane]) \in Seq(Frames(Nat))
      BY <1>4, <2>1, HeadTailProperties DEF Take
    <2>3. frame'.kind \in Kinds /\ frame'.n \in Nat
      BY <2>2, FrameFields
    <2>4. lanes' \in [Kinds -> Seq(Frames(Nat))]
      BY <1>4, <2>1, <2>2 DEF Take, TypeInv, TypeOK
    <2>5. log' \in Seq([kind : Kinds, n : Nat])
      <3>1. [kind |-> frame'.kind, n |-> frame'.n] \in [kind : Kinds, n : Nat]
        BY <2>3
      <3> QED
        BY <1>4, <3>1, AppendProperties DEF Take, TypeInv, TypeOK
    <2> QED
      BY <1>4, <2>2, <2>3, <2>4, <2>5 DEF TypeInv, TypeOK, MarketInv, CallInv, Take, market,
         call, books, blocks, history
  <1>5. CASE NextLane
    BY <1>5 DEF TypeInv, TypeOK, MarketInv, CallInv, NextLane, ingress, market, call, books, blocks,
       history
  <1>6. CASE Refused
    BY <1>0, <1>6, TypesNextFrame DEF Refused, market, books, history
  <1>7. CASE SubmitOrder
    <2>1. /\ UNCHANGED resting /\ clock' \in Nat /\ fills' \in Seq(Fills)
          /\ incoming' \in MarketOrders /\ frame \in Frames(Nat) /\ frame.kind = "new"
          /\ order_id(frame) \in OrderIds /\ frame.account \in Accounts
          /\ frame.order.side \in Sides
      BY <1>7, OrderEnters
    <2>2. taker' \in Contexts
      BY <1>7, <2>1 DEF SubmitOrder, Executing, Contexts
    <2>3. owner' \in [OrderIds -> Nat] /\ clashed' \subseteq OrderIds
      BY <1>0, <1>7, <2>1, NumbersAssumption DEF SubmitOrder, TypeInv, TypeOK
    <2> QED
      BY <1>7, <2>1, <2>2, <2>3 DEF TypeInv, TypeOK, MarketInv, CallInv, SubmitOrder, Executing,
         ingress, books, blocks
  <1>8. CASE CancelResting
    <2>1. pc = "cancel" /\ frame.id \in OrderIds
      BY <1>8, FrameFields DEF CancelResting, TypeInv, CallInv
    <2>2. /\ resting' = [resting EXCEPT ![frame.id] = NoOrder] /\ clock' \in Nat /\ fills' = <<>>
      BY <1>8, <2>1, OrderLeaves DEF CancelResting
    <2>3. /\ resting' \in [OrderIds -> RestingOrders \cup {NoOrder}]
          /\ resting_orders' \in [OrderIds -> Contexts \cup {NoContext}]
      BY <1>0, <1>8, <2>1, <2>2 DEF CancelResting
    <2>4. NextFrame /\ UNCHANGED <<position, executed, owner, clashed>>
      BY <1>8 DEF CancelResting
    <2>5. fills' \in Seq(Fills) /\ position' \in [Accounts -> Int]
      BY <1>0, <2>2, <2>4
    <2> QED
      BY <2>2, <2>3, <2>4, <2>5, TypesNextFrame
  <1>9. CASE ReplaceResting
    <2>1. /\ resting' \in [OrderIds -> RestingOrders \cup {NoOrder}] /\ clock' \in Nat
          /\ fills' \in Seq(Fills) /\ incoming' \in MarketOrders
          /\ frame \in Frames(Nat) /\ frame.kind = "replace" /\ frame.id \in OrderIds
          /\ frame.account \in Accounts
      <3>1. /\ resting' = [resting EXCEPT ![frame.id] = NoOrder] /\ fills' = <<>>
            /\ clock' \in Nat /\ incoming' \in MarketOrders
            /\ frame \in Frames(Nat) /\ frame.kind = "replace" /\ frame.id \in OrderIds
            /\ frame.account \in Accounts
        BY <1>9, OrderReenters
      <3>2. resting' \in [OrderIds -> RestingOrders \cup {NoOrder}] /\ fills' \in Seq(Fills)
        BY <1>0, <3>1
      <3> QED
        BY <3>1, <3>2
    <2>2. taker' \in Contexts
      BY <1>0, <1>9, <2>1 DEF ReplaceResting, Executing, ReplaceContext, Contexts, Sides
    <2> QED
      BY <1>9, <2>1, <2>2 DEF TypeInv, TypeOK, MarketInv, CallInv, ReplaceResting, Executing,
         ingress, books, blocks
  <1>10. CASE ReplaceRejected
    <2>1. pc = "replace" /\ frame.id \in OrderIds
      BY <1>10, FrameFields DEF ReplaceRejected, TypeInv, CallInv
    <2>2. /\ resting' = [resting EXCEPT ![frame.id] = NoOrder] /\ clock' \in Nat /\ fills' = <<>>
      BY <1>10, <2>1, OrderLeaves DEF ReplaceRejected
    <2>3. resting' \in [OrderIds -> RestingOrders \cup {NoOrder}] /\ fills' \in Seq(Fills)
      BY <1>0, <2>1, <2>2
    <2> QED
      BY <1>0, <1>10, <2>2, <2>3, TypesNextFrame DEF ReplaceRejected, books, history
  <1>11. CASE Trade
    <2>1. PICK id \in OrderIds, q \in Int : Traded(id, q)
      BY <1>11, OrderTrades
    <2>2. fills' \in Seq(Fills) /\ Len(fills') = Len(fills) + 1 /\ fills'[Len(fills')] \in Fills
      BY <1>0, <2>1, AppendProperties DEF Traded
    <2>3. incoming.side \in Sides
      BY <1>11 DEF Trade, TypeInv, MarketInv, MarketOrders
    <2>4. executed' \in Seq(Trades)
      <3>1. PICK f : f = fills'[Len(fills')]
        OBVIOUS
      <3>2. PICK t : t = [fill |-> f, side |-> incoming.side, taker |-> owner[f.taker],
                          maker |-> owner[f.maker], offset |-> Offset]
        OBVIOUS
      <3>3. f \in Fills
        BY <2>2, <3>1
      <3>4. owner[f.taker] \in Nat /\ owner[f.maker] \in Nat
        BY <1>0, <3>3 DEF Fills
      <3>5. t \in Trades
        BY <1>0, <2>3, <3>2, <3>3, <3>4 DEF Trades
      <3>6. executed' = Append(executed, t)
        BY <1>11, <3>1, <3>2 DEF Trade
      <3> QED
        BY <1>0, <3>5, <3>6, AppendProperties
    <2> QED
      BY <1>11, <2>1, <2>2, <2>4 DEF TypeInv, TypeOK, MarketInv, CallInv, Trade, Traded, ingress,
         call, books, blocks
  <1>12. CASE Rests
    <2>1. resting' \in [OrderIds -> RestingOrders \cup {NoOrder}] /\ UNCHANGED <<clock, fills>>
      BY <1>0, <1>12, OrderRests
    <2> QED
      BY <1>0, <1>12, <2>1 DEF TypeInv, TypeOK, MarketInv, CallInv, Rests, Matched,
         ingress, books, blocks, history
  <1>13. CASE Filled
    <2>1. UNCHANGED <<resting, clock, fills>>
      BY <1>13 DEF Filled, Market!Finish
    <2> QED
      BY <1>0, <1>13, <2>1 DEF TypeInv, TypeOK, MarketInv, CallInv, Filled, Matched,
         ingress, books, blocks, history
  <1>14. CASE Duplicate
    <2>1. UNCHANGED <<resting, clock, fills>>
      BY <1>14 DEF Duplicate, Market!Finish
    <2> QED
      BY <1>0, <1>14, <2>1, TypesNextFrame DEF Duplicate, books, history
  <1>15. CASE ProcessFill
    <2>1. /\ done < Len(fills) /\ taker \in Contexts /\ pc = "fills" /\ done' = done + 1
      BY <1>15 DEF ProcessFill, TypeInv, CallInv
    <2>2. PICK f : f = fills[done + 1]
      OBVIOUS
    <2>3. f \in Fills
      BY <1>0, <2>1, <2>2
    <2>4. f.quantity \in Int /\ f.maker \in OrderIds
      BY <2>3 DEF Fills
    <2>5. \A c \in Contexts : Signed(c.side, f.quantity) \in Int /\ c.account \in Accounts
      BY <2>4 DEF Signed, Contexts
    <2>6. \A c \in Contexts, pos \in [Accounts -> Int] :
              apply_fill(pos, c, f.quantity) \in [Accounts -> Int]
      BY <2>5 DEF apply_fill
    <2>7. maker_fill(apply_fill(position, taker, f.quantity), f.maker, f.quantity)
              \in [Accounts -> Int]
      BY <1>0, <2>1, <2>4, <2>6 DEF maker_fill
    <2>8. position' \in [Accounts -> Int]
      BY <1>15, <2>2, <2>7 DEF ProcessFill
    <2> QED
      BY <1>0, <1>15, <2>1, <2>8 DEF TypeInv, TypeOK, MarketInv, CallInv, ProcessFill, ingress,
         market, blocks, history
  <1>16. CASE FillsProcessed
    <2>1. order_id(frame) \in OrderIds /\ taker \in Contexts
      BY <1>16, FrameFields DEF FillsProcessed, TypeInv, CallInv
    <2>2. resting_orders' \in [OrderIds -> Contexts \cup {NoContext}]
      BY <1>0, <1>16, <2>1 DEF FillsProcessed, KeepContext
    <2> QED
      BY <1>0, <1>16, <2>2, TypesNextFrame DEF FillsProcessed, market, history
  <1>17. CASE EndTurn
    BY <1>17 DEF TypeInv, TypeOK, MarketInv, CallInv, EndTurn, SnapshotDue, new_block, ingress,
       market, call, books, history
  <1> QED
    BY <1>1, <1>2, <1>3, <1>4, <1>5, <1>6, <1>7, <1>8, <1>9, <1>10, <1>11, <1>12, <1>13, <1>14,
       <1>15, <1>16, <1>17 DEF Next, Loop

-----------------------------------------------------------------------------
(* The log, its snapshots, and the lanes                                   *)

\* Only three steps touch the lanes, the log or the blocks.
LEMMA LogSteps ==
    ASSUME [Next]_vars
    PROVE  \/ \E f \in Frames({arrived + 1}) : Receive(f)
           \/ Take
           \/ EndTurn
           \/ UNCHANGED <<lanes, arrived, log, processed, block_number, snapshots>>
  BY DEF Next, Loop, Signal, NextLane, Refused, SubmitOrder, CancelResting, ReplaceResting,
     ReplaceRejected, Trade, Rests, Filled, Duplicate, ProcessFill, FillsProcessed, NextFrame,
     Executing, Matched, vars, ingress, blocks

\* Every step keeps the count of blocks at that of the records.
LEMMA LogKept ==
    ASSUME TypeInv, LogInv, [Next]_vars
    PROVE  LogInv'
  <1>0. /\ processed \in Nat /\ block_number \in Nat /\ log \in Seq(Logged)
        /\ Len(log) \in Nat /\ snapshots \in Seq([sequence : Nat, offset : Int])
        /\ Len(snapshots) \in Nat /\ block_number + processed = Len(log)
        /\ FirstOffset \in Nat /\ MaxLabel \in Nat
    BY LenProperties, OffsetAssumption, IntervalAssumption DEF TypeInv, TypeOK, LogInv, Logged
  <1>1. CASE \E f \in Frames({arrived + 1}) : Receive(f)
    BY <1>1 DEF Receive, LogInv, blocks
  <1>2. CASE Take
    <2>1. /\ processed' = processed + 1
          /\ log' = Append(log, [kind |-> frame'.kind, n |-> frame'.n])
          /\ UNCHANGED <<block_number, snapshots>>
      BY <1>2 DEF Take, blocks
    <2>2. Len(log') = Len(log) + 1
      BY <1>0, <2>1
    <2>3. block_number' + processed' = Len(log')
      BY <1>0, <2>1, <2>2
    <2> QED
      BY <2>1, <2>3 DEF LogInv
  <1>3. CASE EndTurn
    <2>1. /\ block_number' = block_number + processed /\ processed' = 0 /\ UNCHANGED log
      BY <1>3 DEF EndTurn, new_block
    <2>2. CASE UNCHANGED snapshots
      BY <1>0, <2>1, <2>2 DEF LogInv
    <2>3. CASE snapshots' = Append(snapshots, [sequence |-> label(new_block), offset |-> Offset])
      <3> DEFINE r == [sequence |-> label(new_block), offset |-> Offset]
      <3>1. r \in [sequence : Nat, offset : Int] /\ Labelled(r)
        <4>1. /\ new_block \in Nat /\ Offset \in Int /\ label(new_block) \in Nat
              /\ Offset - FirstOffset + 1 = new_block
          BY <1>0 DEF new_block, Offset, label
        <4>2. r.sequence = label(new_block) /\ r.offset = Offset
          OBVIOUS
        <4>3. r \in [sequence : Nat, offset : Int]
          BY <4>1
        <4> HIDE DEF r
        <4>4. Labelled(r)
          BY <4>1, <4>2 DEF Labelled
        <4> QED
          BY <4>3, <4>4
      <3> HIDE DEF r
      <3>2. /\ snapshots' \in Seq([sequence : Nat, offset : Int])
            /\ Len(snapshots') = Len(snapshots) + 1
            /\ \A i \in 1 .. Len(snapshots) : snapshots'[i] = snapshots[i]
            /\ snapshots'[Len(snapshots) + 1] = r
        BY <1>0, <2>3, <3>1, AppendProperties DEF r
      <3>3. \A i \in 1 .. Len(snapshots') : Labelled(snapshots'[i])
        <4>1. \A i \in 1 .. Len(snapshots) + 1 : i \in 1 .. Len(snapshots) \/ i = Len(snapshots) + 1
          BY <1>0
        <4> QED
          BY <3>1, <3>2, <4>1 DEF LogInv
      <3> QED
        BY <1>0, <2>1, <3>2, <3>3 DEF LogInv
    <2> QED
      BY <1>3, <2>2, <2>3 DEF EndTurn
  <1>4. CASE UNCHANGED <<lanes, arrived, log, processed, block_number, snapshots>>
    BY <1>4 DEF LogInv
  <1> QED
    BY <1>1, <1>2, <1>3, <1>4, LogSteps

\* What a log entry holds.
LEMMA LogEntries ==
    ASSUME TypeInv
    PROVE  \A i \in 1 .. Len(log) : log[i].n \in Nat /\ log[i].kind \in Kinds
  <1>1. log \in Seq(Logged)
    BY DEF TypeInv, TypeOK, Logged
  <1>2. \A i \in 1 .. Len(log) : log[i] \in Logged
    BY <1>1, ElementOfSeq
  <1> QED
    BY <1>2 DEF Logged

\* A frame that arrives goes behind those of its lane.
LEMMA LanesReceive ==
    ASSUME TypeInv, LaneInv, NEW f \in Frames({arrived + 1}), Receive(f)
    PROVE  LaneInv'
  <1>0. arrived \in Nat /\ lanes \in [Kinds -> Seq(Frames(Nat))] /\ Len(log) \in Nat
    BY LenProperties DEF TypeInv, TypeOK
  <1>1. /\ f \in Frames(Nat) /\ f.kind \in Kinds /\ f.n = arrived + 1
    <2>1. f \in Frames(Nat) /\ f.n = arrived + 1
      BY <1>0, FrameArrived
    <2> QED
      BY <2>1, FrameFields
  <1>2. /\ arrived' = arrived + 1 /\ UNCHANGED log
        /\ lanes' = [lanes EXCEPT ![f.kind] = Append(@, f)]
    BY DEF Receive
  <1>3. /\ \A k \in Kinds : lanes[k] \in Seq(Frames(Nat)) /\ Len(lanes[k]) \in Nat
        /\ \A k \in Kinds : k # f.kind => lanes'[k] = lanes[k]
        /\ lanes'[f.kind] = Append(lanes[f.kind], f)
    BY <1>0, <1>1, <1>2, LenProperties
  <1>4. /\ Len(lanes'[f.kind]) = Len(lanes[f.kind]) + 1
        /\ \A i \in 1 .. Len(lanes[f.kind]) : lanes'[f.kind][i] = lanes[f.kind][i]
        /\ lanes'[f.kind][Len(lanes[f.kind]) + 1] = f
    BY <1>1, <1>3, AppendProperties
  <1>5. \A k \in Kinds : \A i \in 1 .. Len(lanes'[k]) :
            \/ i \in 1 .. Len(lanes[k]) /\ lanes'[k][i] = lanes[k][i]
            \/ k = f.kind /\ i = Len(lanes[k]) + 1 /\ lanes'[k][i] = f
    <2> SUFFICES ASSUME NEW k \in Kinds, NEW i \in 1 .. Len(lanes'[k])
                 PROVE  \/ i \in 1 .. Len(lanes[k]) /\ lanes'[k][i] = lanes[k][i]
                        \/ k = f.kind /\ i = Len(lanes[k]) + 1 /\ lanes'[k][i] = f
      OBVIOUS
    <2>1. CASE k # f.kind
      BY <1>3, <2>1
    <2>2. CASE k = f.kind
      <3>1. i \in 1 .. Len(lanes[k]) \/ i = Len(lanes[k]) + 1
        BY <1>3, <1>4, <2>2
      <3> QED
        BY <1>4, <2>2, <3>1
    <2> QED
      BY <2>1, <2>2
  <1>6. \A k \in Kinds : \A i \in 1 .. Len(lanes[k]) :
            i \in 1 .. Len(lanes'[k]) /\ lanes'[k][i] = lanes[k][i]
    <2> SUFFICES ASSUME NEW k \in Kinds, NEW i \in 1 .. Len(lanes[k])
                 PROVE  i \in 1 .. Len(lanes'[k]) /\ lanes'[k][i] = lanes[k][i]
      OBVIOUS
    <2>1. CASE k # f.kind
      BY <1>3, <2>1
    <2>2. CASE k = f.kind
      <3>1. i \in 1 .. Len(lanes[k]) + 1
        BY <1>3
      <3> QED
        BY <1>4, <2>2, <3>1
    <2> QED
      BY <2>1, <2>2
  <1>7. /\ \A k \in Kinds : \A i \in 1 .. Len(lanes'[k]) :
              lanes'[k][i].kind = k /\ lanes'[k][i].n <= arrived'
        /\ \A i \in 1 .. Len(log') : log'[i].n <= arrived'
    <2>1. \A i \in 1 .. Len(log) : log[i].n \in Nat /\ log[i].n <= arrived
      BY LogEntries DEF LaneInv
    <2>2. \A k \in Kinds : \A i \in 1 .. Len(lanes[k]) :
              lanes[k][i].kind = k /\ lanes[k][i].n <= arrived /\ lanes[k][i].n \in Nat
      BY <1>3, FrameFields DEF LaneInv
    <2> QED
      BY <1>0, <1>1, <1>2, <1>5, <2>1, <2>2
  <1>8. \A n \in 1 .. arrived' :
          \/ \E i \in 1 .. Len(log') : log'[i].n = n
          \/ \E k \in Kinds : \E i \in 1 .. Len(lanes'[k]) : lanes'[k][i].n = n
    <2> SUFFICES ASSUME NEW n \in 1 .. arrived'
                 PROVE  \/ \E i \in 1 .. Len(log) : log[i].n = n
                        \/ \E k \in Kinds : \E i \in 1 .. Len(lanes'[k]) : lanes'[k][i].n = n
      BY <1>2
    <2>1. CASE n = arrived + 1
      <3>1. Len(lanes[f.kind]) + 1 \in 1 .. Len(lanes'[f.kind])
        BY <1>1, <1>3, <1>4
      <3> QED
        BY <1>1, <1>4, <2>1, <3>1
    <2>2. CASE n # arrived + 1
      <3>1. n \in 1 .. arrived
        BY <1>0, <1>2, <2>2
      <3>2. \/ \E i \in 1 .. Len(log) : log[i].n = n
            \/ \E k \in Kinds : \E i \in 1 .. Len(lanes[k]) : lanes[k][i].n = n
        BY <3>1 DEF LaneInv, FramesAccounted
      <3> QED
        BY <1>6, <3>2
    <2> QED
      BY <2>1, <2>2
  <1>9. Len(log') + Len(lanes'["new"]) + Len(lanes'["cancel"]) + Len(lanes'["replace"]) = arrived'
    <2>1. Len(log) + Len(lanes["new"]) + Len(lanes["cancel"]) + Len(lanes["replace"]) = arrived
      BY DEF LaneInv, FramesAccounted
    <2>2. /\ Len(lanes["new"]) \in Nat /\ Len(lanes["cancel"]) \in Nat
          /\ Len(lanes["replace"]) \in Nat
      BY <1>3 DEF Kinds
    <2>3. \/ /\ Len(lanes'["new"]) = Len(lanes["new"]) + 1
             /\ lanes'["cancel"] = lanes["cancel"] /\ lanes'["replace"] = lanes["replace"]
          \/ /\ Len(lanes'["cancel"]) = Len(lanes["cancel"]) + 1
             /\ lanes'["new"] = lanes["new"] /\ lanes'["replace"] = lanes["replace"]
          \/ /\ Len(lanes'["replace"]) = Len(lanes["replace"]) + 1
             /\ lanes'["cancel"] = lanes["cancel"] /\ lanes'["new"] = lanes["new"]
      BY <1>1, <1>3, <1>4 DEF Kinds
    <2>4. Len(log') = Len(log) /\ arrived' = arrived + 1
      BY <1>2
    <2>5. /\ Len(log) \in Nat /\ arrived \in Nat /\ Len(lanes["new"]) \in Nat
          /\ Len(lanes["cancel"]) \in Nat /\ Len(lanes["replace"]) \in Nat
      BY <1>0, <2>2
    <2>6. PICK l \in Nat, a \in Nat, b \in Nat, c \in Nat :
              /\ l = Len(log) /\ a = Len(lanes["new"]) /\ b = Len(lanes["cancel"])
              /\ c = Len(lanes["replace"])
      BY <2>5
    <2>7. PICK l1, a1, b1, c1 :
              /\ l1 = Len(log') /\ a1 = Len(lanes'["new"]) /\ b1 = Len(lanes'["cancel"])
              /\ c1 = Len(lanes'["replace"])
      OBVIOUS
    <2>8. l + a + b + c = arrived
      BY <2>1, <2>6, Zenon
    <2>9. /\ l1 = l
          /\ \/ a1 = a + 1 /\ b1 = b /\ c1 = c
             \/ b1 = b + 1 /\ a1 = a /\ c1 = c
             \/ c1 = c + 1 /\ a1 = a /\ b1 = b
      BY ONLY <2>3, <2>4, <2>6, <2>7
    <2>c. arrived' = arrived + 1 /\ arrived \in Nat
      BY <2>4, <2>5
    <2>10. l1 + a1 + b1 + c1 = arrived'
      BY ONLY <2>c, <2>8, <2>9, l \in Nat, a \in Nat, b \in Nat, c \in Nat
    <2> QED
      BY <2>7, <2>10, Zenon
  <1>10. \A i, j \in 1 .. Len(log') :
            i < j /\ log'[i].kind = log'[j].kind => log'[i].n < log'[j].n
    BY <1>2 DEF LaneInv, FramesAccounted
  <1>11. ASSUME NEW k \in Kinds, NEW j \in 1 .. Len(lanes'[k])
         PROVE  /\ \A i \in 1 .. j - 1 : lanes'[k][i].n < lanes'[k][j].n
                /\ \A i \in 1 .. Len(log') : log'[i].kind = k => log'[i].n < lanes'[k][j].n
    <2>1. \A i \in 1 .. Len(lanes[k]) : lanes[k][i].n \in Nat /\ lanes[k][i].n <= arrived
      BY <1>3, FrameFields DEF LaneInv
    <2>2. \A i \in 1 .. Len(log) : log[i].n \in Nat /\ log[i].n <= arrived
      BY LogEntries DEF LaneInv
    <2>3. CASE j \in 1 .. Len(lanes[k]) /\ lanes'[k][j] = lanes[k][j]
      <3>1. \A i \in 1 .. j - 1 : i \in 1 .. Len(lanes[k])
        BY <1>3, <2>3
      <3>2. /\ \A i \in 1 .. j - 1 : lanes[k][i].n < lanes[k][j].n
            /\ \A i \in 1 .. Len(log) : log[i].kind = k => log[i].n < lanes[k][j].n
        BY <2>3 DEF LaneInv, FramesAccounted
      <3> QED
        BY <1>2, <1>6, <2>3, <3>1, <3>2
    <2>4. CASE k = f.kind /\ j = Len(lanes[k]) + 1 /\ lanes'[k][j] = f
      <3>1. \A i \in 1 .. j - 1 : i \in 1 .. Len(lanes[k]) /\ lanes'[k][i] = lanes[k][i]
        BY <1>3, <1>6, <2>4
      <3> QED
        BY <1>0, <1>1, <1>2, <2>1, <2>2, <2>4, <3>1
    <2> QED
      BY <1>5, <2>3, <2>4
  <1> QED
    BY <1>7, <1>8, <1>9, <1>10, <1>11 DEF LaneInv, FramesAccounted

\* A frame that is taken from its lane is the oldest of its kind, and the log gets it.
LEMMA LanesTake ==
    ASSUME TypeInv, LaneInv, Take
    PROVE  LaneInv'
  <1>1. PICK k0 : k0 = Lane
    OBVIOUS
  <1>2. /\ k0 \in Kinds /\ lanes[k0] # <<>>
        /\ frame' = Head(lanes[k0]) /\ lanes' = [lanes EXCEPT ![k0] = Tail(@)]
        /\ log' = Append(log, [kind |-> frame'.kind, n |-> frame'.n]) /\ UNCHANGED arrived
    BY <1>1, DrainOrderAssumption DEF Take, Lane, TypeInv, TypeOK
  <1>3. /\ lanes \in [Kinds -> Seq(Frames(Nat))] /\ log \in Seq(Logged) /\ Len(log) \in Nat
        /\ \A k \in Kinds : lanes[k] \in Seq(Frames(Nat)) /\ Len(lanes[k]) \in Nat
        /\ arrived \in Nat
    BY LenProperties DEF TypeInv, TypeOK, Logged
  <1>4. /\ Len(lanes[k0]) \in Nat \ {0} /\ Head(lanes[k0]) = lanes[k0][1]
        /\ Len(Tail(lanes[k0])) = Len(lanes[k0]) - 1
        /\ \A i \in 1 .. Len(lanes[k0]) - 1 : Tail(lanes[k0])[i] = lanes[k0][i + 1]
    BY <1>2, <1>3, HeadTailProperties
  <1>5. PICK f : f = lanes[k0][1]
    OBVIOUS
  <1>a. PICK e : e = [kind |-> f.kind, n |-> f.n]
    OBVIOUS
  <1>6. /\ f \in Frames(Nat) /\ f.n \in Nat /\ f.n <= arrived /\ f.kind = k0
    <2>1. 1 \in 1 .. Len(lanes[k0])
      BY <1>4
    <2>2. f \in Frames(Nat)
      BY <1>2, <1>3, <1>5, <2>1
    <2> QED
      BY <1>2, <1>5, <2>1, <2>2, FrameFields DEF LaneInv
  <1>7. /\ Len(log') = Len(log) + 1 /\ log'[Len(log) + 1] = e
        /\ e.n = f.n /\ e.kind = f.kind
        /\ \A i \in 1 .. Len(log) : log'[i] = log[i]
    <2>1. log' = Append(log, e) /\ e.n = f.n /\ e.kind = f.kind
      BY <1>2, <1>4, <1>5, <1>a
    <2>2. e \in Logged
      BY <1>2, <1>6, <1>a DEF Logged
    <2> QED
      BY <1>3, <2>1, <2>2, AppendProperties
  <1>8. \A i \in 1 .. Len(log') : \/ i \in 1 .. Len(log) /\ log'[i] = log[i]
                                  \/ i = Len(log) + 1 /\ log'[i] = e
    <2>1. \A i \in 1 .. Len(log) + 1 : i \in 1 .. Len(log) \/ i = Len(log) + 1
      BY <1>3
    <2> QED
      BY <1>7, <2>1
  <1>9. \A k \in Kinds : \A i \in 1 .. Len(lanes'[k]) :
            /\ k # k0 => i \in 1 .. Len(lanes[k]) /\ lanes'[k][i] = lanes[k][i]
            /\ k = k0 => i + 1 \in 1 .. Len(lanes[k]) /\ lanes'[k][i] = lanes[k][i + 1]
    BY <1>2, <1>3, <1>4
  <1> DEFINE Later(k, i) == IF k = k0 THEN i + 1 ELSE i
  <1>10. \A k \in Kinds : \A i \in Nat : Later(k, i) = IF k = k0 THEN i + 1 ELSE i
    OBVIOUS
  <1>11. \A k \in Kinds : \A i \in 1 .. Len(lanes'[k]) :
            Later(k, i) \in 1 .. Len(lanes[k]) /\ lanes'[k][i] = lanes[k][Later(k, i)]
    <2> SUFFICES ASSUME NEW k \in Kinds, NEW i \in 1 .. Len(lanes'[k])
                 PROVE  Later(k, i) \in 1 .. Len(lanes[k]) /\ lanes'[k][i] = lanes[k][Later(k, i)]
      OBVIOUS
    <2> QED
      BY <1>9
  <1> HIDE DEF Later
  <1>12. /\ \A k \in Kinds : \A i \in 1 .. Len(lanes'[k]) :
               lanes'[k][i].kind = k /\ lanes'[k][i].n <= arrived'
         /\ \A i \in 1 .. Len(log') : log'[i].n <= arrived'
    <2>1. ASSUME NEW k \in Kinds, NEW i \in 1 .. Len(lanes'[k])
          PROVE  lanes'[k][i].kind = k /\ lanes'[k][i].n <= arrived'
      <3>1. PICK h \in 1 .. Len(lanes[k]) : lanes'[k][i] = lanes[k][h]
        BY <1>11
      <3>2. lanes[k][h].kind = k /\ lanes[k][h].n <= arrived
        BY DEF LaneInv
      <3> QED
        BY <1>2, <3>1, <3>2
    <2>2. ASSUME NEW i \in 1 .. Len(log') PROVE log'[i].n <= arrived'
      <3>1. CASE i \in 1 .. Len(log) /\ log'[i] = log[i]
        BY <1>2, <3>1 DEF LaneInv
      <3>2. CASE log'[i] = e
        BY <1>2, <1>6, <1>7, <3>2
      <3> QED
        BY <1>8, <3>1, <3>2
    <2> QED
      BY <2>1, <2>2
  <1>13. \A n \in 1 .. arrived' :
          \/ \E i \in 1 .. Len(log') : log'[i].n = n
          \/ \E k \in Kinds : \E i \in 1 .. Len(lanes'[k]) : lanes'[k][i].n = n
    <2> SUFFICES ASSUME NEW n \in 1 .. arrived
                 PROVE  \/ \E i \in 1 .. Len(log') : log'[i].n = n
                        \/ \E k \in Kinds : \E i \in 1 .. Len(lanes'[k]) : lanes'[k][i].n = n
      BY <1>2
    <2>1. CASE \E i \in 1 .. Len(log) : log[i].n = n
      <3>1. \A i \in 1 .. Len(log) : i \in 1 .. Len(log')
        BY <1>3, <1>7
      <3> QED
        BY <1>7, <2>1, <3>1
    <2>2. CASE \E k \in Kinds : \E i \in 1 .. Len(lanes[k]) : lanes[k][i].n = n
      <3>0. PICK k \in Kinds : \E i \in 1 .. Len(lanes[k]) : lanes[k][i].n = n
        BY <2>2
      <3>1. PICK i \in 1 .. Len(lanes[k]) : lanes[k][i].n = n
        BY <3>0
      <3>2. CASE k # k0
        <4>1. lanes'[k] = lanes[k]
          BY <1>2, <1>3, <3>2
        <4> QED
          BY <3>1, <4>1
      <3>3. CASE k = k0 /\ i = 1
        <4>1. Len(log) + 1 \in 1 .. Len(log')
          BY <1>3, <1>7
        <4> QED
          BY <1>5, <1>7, <3>1, <3>3, <4>1
      <3>4. CASE k = k0 /\ i # 1
        <4>1. lanes'[k] = Tail(lanes[k]) /\ i - 1 \in 1 .. Len(lanes[k]) - 1
          BY <1>2, <1>3, <1>4, <3>4
        <4>2. i - 1 \in 1 .. Len(lanes'[k]) /\ lanes'[k][i - 1] = lanes[k][i - 1 + 1]
          BY <1>4, <3>4, <4>1
        <4>3. i - 1 + 1 = i
          BY <1>3
        <4> QED
          BY <3>1, <4>2, <4>3
      <3> QED
        BY <3>2, <3>3, <3>4
    <2> QED
      BY <2>1, <2>2 DEF LaneInv, FramesAccounted
  <1>14. Len(log') + Len(lanes'["new"]) + Len(lanes'["cancel"]) + Len(lanes'["replace"]) = arrived'
    <2>1. Len(log) + Len(lanes["new"]) + Len(lanes["cancel"]) + Len(lanes["replace"]) = arrived
      BY DEF LaneInv, FramesAccounted
    <2>2. /\ Len(lanes'[k0]) = Len(lanes[k0]) - 1
          /\ \A k \in Kinds : k # k0 => lanes'[k] = lanes[k]
      BY <1>2, <1>3, <1>4
    <2>b. /\ Len(lanes["new"]) \in Nat /\ Len(lanes["cancel"]) \in Nat
          /\ Len(lanes["replace"]) \in Nat
      BY <1>3 DEF Kinds
    <2>3. \/ /\ Len(lanes'["new"]) = Len(lanes["new"]) - 1
             /\ lanes'["cancel"] = lanes["cancel"] /\ lanes'["replace"] = lanes["replace"]
          \/ /\ Len(lanes'["cancel"]) = Len(lanes["cancel"]) - 1
             /\ lanes'["new"] = lanes["new"] /\ lanes'["replace"] = lanes["replace"]
          \/ /\ Len(lanes'["replace"]) = Len(lanes["replace"]) - 1
             /\ lanes'["cancel"] = lanes["cancel"] /\ lanes'["new"] = lanes["new"]
      BY <1>2, <2>2 DEF Kinds
    <2>4. Len(log') = Len(log) + 1 /\ arrived' = arrived
      BY <1>2, <1>7
    <2>5. /\ Len(log) \in Nat /\ arrived \in Nat /\ Len(lanes["new"]) \in Nat
          /\ Len(lanes["cancel"]) \in Nat /\ Len(lanes["replace"]) \in Nat
      BY <1>3, <2>b
    <2>6. PICK l \in Nat, a \in Nat, b \in Nat, c \in Nat :
              /\ l = Len(log) /\ a = Len(lanes["new"]) /\ b = Len(lanes["cancel"])
              /\ c = Len(lanes["replace"])
      BY <2>5
    <2>7. PICK l1, a1, b1, c1 :
              /\ l1 = Len(log') /\ a1 = Len(lanes'["new"]) /\ b1 = Len(lanes'["cancel"])
              /\ c1 = Len(lanes'["replace"])
      OBVIOUS
    <2>8. l + a + b + c = arrived
      BY <2>1, <2>6, Zenon
    <2>9. /\ l1 = l + 1
          /\ \/ a1 = a - 1 /\ b1 = b /\ c1 = c
             \/ b1 = b - 1 /\ a1 = a /\ c1 = c
             \/ c1 = c - 1 /\ a1 = a /\ b1 = b
      BY ONLY <2>3, <2>4, <2>6, <2>7
    <2>c. arrived' = arrived /\ arrived \in Nat
      BY <2>4, <2>5
    <2>10. l1 + a1 + b1 + c1 = arrived'
      BY ONLY <2>c, <2>8, <2>9, l \in Nat, a \in Nat, b \in Nat, c \in Nat
    <2> QED
      BY <2>7, <2>10, Zenon
  <1>15. ASSUME NEW i \in 1 .. Len(log'), NEW j \in 1 .. Len(log'),
                i < j, log'[i].kind = log'[j].kind
         PROVE  log'[i].n < log'[j].n
    <2>1. i \in 1 .. Len(log) /\ log'[i] = log[i]
      BY <1>3, <1>7, <1>8, <1>15
    <2>2. CASE j \in 1 .. Len(log) /\ log'[j] = log[j]
      BY <1>15, <2>1, <2>2 DEF LaneInv, FramesAccounted
    <2>3. CASE log'[j] = e
      <3>1. log[i].kind = k0 /\ 1 \in 1 .. Len(lanes[k0])
        BY <1>4, <1>6, <1>7, <1>15, <2>1, <2>3
      <3>2. log[i].n < lanes[k0][1].n
        BY <1>2, <2>1, <3>1 DEF LaneInv, FramesAccounted
      <3> QED
        BY <1>5, <1>7, <2>1, <2>3, <3>1, <3>2
    <2> QED
      BY <1>8, <2>2, <2>3
  <1>16. ASSUME NEW k \in Kinds, NEW j \in 1 .. Len(lanes'[k])
         PROVE  /\ \A i \in 1 .. j - 1 : lanes'[k][i].n < lanes'[k][j].n
                /\ \A i \in 1 .. Len(log') : log'[i].kind = k => log'[i].n < lanes'[k][j].n
    <2>1. Len(lanes'[k]) \in Nat
      BY <1>2, <1>3, <1>4
    <2>2. PICK h \in 1 .. Len(lanes[k]) : h = Later(k, j)
      BY <1>11
    <2>a. Len(lanes[k]) \in Nat /\ j \in Nat /\ h \in Nat /\ h = IF k = k0 THEN j + 1 ELSE j
      BY <1>3, <1>10, <2>1, <2>2
    <2>3. lanes'[k][j] = lanes[k][h]
      BY <1>11, <2>2
    <2>4. /\ \A i \in 1 .. h - 1 : lanes[k][i].n < lanes[k][h].n
          /\ \A i \in 1 .. Len(log) : log[i].kind = k => log[i].n < lanes[k][h].n
      BY <2>2 DEF LaneInv, FramesAccounted
    <2>5. \A i \in 1 .. j - 1 : i \in 1 .. Len(lanes'[k]) /\ Later(k, i) \in 1 .. h - 1
      <3> SUFFICES ASSUME NEW i \in 1 .. j - 1
                   PROVE  i \in 1 .. Len(lanes'[k]) /\ Later(k, i) \in 1 .. h - 1
        OBVIOUS
      <3>1. Later(k, i) = IF k = k0 THEN i + 1 ELSE i
        BY <1>10, <2>a
      <3> QED
        BY <2>1, <2>a, <3>1
    <2>6. \A i \in 1 .. j - 1 : lanes'[k][i].n < lanes'[k][j].n
      BY <1>11, <2>3, <2>4, <2>5
    <2>7. ASSUME NEW i \in 1 .. Len(log'), log'[i].kind = k PROVE log'[i].n < lanes'[k][j].n
      <3>1. CASE i \in 1 .. Len(log) /\ log'[i] = log[i]
        BY <2>3, <2>4, <2>7, <3>1
      <3>2. CASE log'[i] = e
        <4>1. k = k0 /\ h = j + 1 /\ 1 \in 1 .. h - 1
          BY <1>6, <1>7, <2>1, <2>a, <2>7, <3>2
        <4> QED
          BY <1>5, <1>7, <2>3, <2>4, <3>2, <4>1
      <3> QED
        BY <1>8, <3>1, <3>2
    <2> QED
      BY <2>6, <2>7
  <1> QED
    BY <1>12, <1>13, <1>14, <1>15, <1>16 DEF LaneInv, FramesAccounted

\* A step that touches neither lanes nor log.
LEMMA SameLanes ==
    ASSUME LaneInv, UNCHANGED <<lanes, arrived, log>>
    PROVE  LaneInv'
  <1>1. lanes' = lanes /\ arrived' = arrived /\ log' = log
    OBVIOUS
  <1>a. Len(log) + Len(lanes["new"]) + Len(lanes["cancel"]) + Len(lanes["replace"]) = arrived
    BY DEF LaneInv, FramesAccounted
  <1>b. Len(log') + Len(lanes'["new"]) + Len(lanes'["cancel"]) + Len(lanes'["replace"]) = arrived'
    BY ONLY <1>1, <1>a
  <1>c. \A n \in 1 .. arrived' :
            \/ \E i \in 1 .. Len(log') : log'[i].n = n
            \/ \E k \in Kinds : \E i \in 1 .. Len(lanes'[k]) : lanes'[k][i].n = n
    BY <1>1 DEF LaneInv, FramesAccounted
  <1>d. /\ \A i, j \in 1 .. Len(log') :
              i < j /\ log'[i].kind = log'[j].kind => log'[i].n < log'[j].n
        /\ \A k \in Kinds : \A j \in 1 .. Len(lanes'[k]) :
              /\ \A i \in 1 .. j - 1 : lanes'[k][i].n < lanes'[k][j].n
              /\ \A i \in 1 .. Len(log') : log'[i].kind = k => log'[i].n < lanes'[k][j].n
    BY <1>1 DEF LaneInv, FramesAccounted
  <1>2. FramesAccounted'
    BY ONLY <1>b, <1>c, <1>d DEF FramesAccounted
  <1> QED
    BY <1>1, <1>2 DEF LaneInv

\* Every step accounts for the frames.
LEMMA LanesKept ==
    ASSUME TypeInv, LaneInv, [Next]_vars
    PROVE  LaneInv'
  <1>1. CASE EndTurn
    BY <1>1, SameLanes DEF EndTurn, ingress
  <1>2. CASE UNCHANGED <<lanes, arrived, log, processed, block_number, snapshots>>
    BY <1>2, SameLanes
  <1> QED
    BY <1>1, <1>2, LogSteps, LanesReceive, LanesTake

-----------------------------------------------------------------------------
(* The order being executed, and the contexts                              *)

\* The context of a resting order.
Context(id, side) == [account |-> owner[id], side |-> side]

\* Each resting order has its context, unless its id was given away twice.
AllHaveContext ==
    \A id \in OrderIds \ clashed : resting[id] # NoOrder =>
        resting_orders[id] = Context(id, resting[id].side)

\* Only an order whose id was given away twice is rejected as a duplicate.
LEMMA DuplicateClashed ==
    ASSUME TypeInv, OrderInv, Duplicate
    PROVE  order_id(frame) \in clashed
  <1> SUFFICES ASSUME order_id(frame) \notin clashed PROVE FALSE
    OBVIOUS
  <1>1. pc = "match" /\ incoming.qty > 0 /\ Market!Finish
    BY DEF Duplicate
  <1>2. /\ incoming \in MarketOrders /\ incoming.id = order_id(frame)
        /\ resting[order_id(frame)] = NoOrder
    BY <1>1 DEF TypeInv, MarketInv, OrderInv
  <1>3. incoming.tif = "GTC"
    BY <1>2 DEF MarketOrders
  <1> QED
    BY <1>1, <1>2, <1>3 DEF Market!Finish, Market!Resting

\* A step outside the matcher and the fills, after which each resting order has its context.
LEMMA OrdersBetween ==
    ASSUME pc' \notin {"match", "fills"}, AllHaveContext'
    PROVE  OrderInv'
  BY DEF OrderInv, ContextsMatchBook, AllHaveContext, Context

\* A step that leaves market and contexts alone.
LEMMA OrdersSame ==
    ASSUME OrderInv, UNCHANGED <<resting, resting_orders, owner, clashed>>,
           \/ pc # "fills" /\ pc' \notin {"match", "fills"}
           \/ UNCHANGED <<pc, frame, taker, incoming, result>>
    PROVE  OrderInv'
  <1>1. CASE UNCHANGED <<pc, frame, taker, incoming, result>>
    BY <1>1 DEF OrderInv, ContextsMatchBook
  <1>2. CASE pc # "fills" /\ pc' \notin {"match", "fills"}
    BY <1>2 DEF OrderInv, ContextsMatchBook
  <1> QED
    BY <1>1, <1>2

\* An order is submitted: from now on its id is the sender's, and if it was another
\* resting order's, it has clashed.
LEMMA OrdersSubmit ==
    ASSUME TypeInv, OrderInv, SubmitOrder
    PROVE  OrderInv'
  <1>0. owner \in [OrderIds -> Nat] /\ pc = "new"
    BY DEF TypeInv, TypeOK, SubmitOrder
  <1>1. PICK oid : oid = order_id(frame)
    OBVIOUS
  <1>2. /\ UNCHANGED resting /\ incoming'.id = oid /\ incoming'.side = frame.order.side
        /\ oid \in OrderIds
    BY <1>1, OrderEnters
  <1>3. /\ pc' = "match" /\ UNCHANGED <<frame, resting_orders>>
        /\ taker' = [account |-> frame.account, side |-> frame.order.side]
        /\ owner' = [owner EXCEPT ![oid] = frame.account]
        /\ clashed' = IF resting[oid] # NoOrder THEN clashed \cup {oid} ELSE clashed
    BY <1>1 DEF SubmitOrder, Executing, books, Market!Resting
  <1>4. order_id(frame') = oid
    BY <1>1, <1>3
  <1>5. taker'.account = owner'[oid] /\ incoming'.side = taker'.side
    BY <1>0, <1>2, <1>3
  <1>6. oid \notin clashed' => resting'[oid] = NoOrder
    BY <1>2, <1>3
  <1>7. AllHaveContext
    BY <1>0 DEF OrderInv, ContextsMatchBook, AllHaveContext, Context
  <1>8. AllHaveContext'
    <2> SUFFICES ASSUME NEW id \in OrderIds, id \notin clashed', resting'[id] # NoOrder
                 PROVE  resting_orders'[id] = [account |-> owner'[id], side |-> resting'[id].side]
      BY DEF AllHaveContext, Context
    <2>1. id # oid /\ id \notin clashed /\ owner'[id] = owner[id]
      BY <1>0, <1>3, <1>6
    <2> QED
      BY <1>2, <1>3, <1>7, <2>1 DEF AllHaveContext, Context
  <1>9. ContextsMatchBook'
    BY <1>8 DEF ContextsMatchBook, AllHaveContext, Context
  <1> QED
    BY <1>2, <1>3, <1>4, <1>5, <1>6, <1>9 DEF OrderInv

\* Every step keeps the contexts.
LEMMA OrdersKept ==
    ASSUME TypeInv, OrderInv, [Next]_vars
    PROVE  OrderInv'
  <1>0. /\ resting \in [OrderIds -> RestingOrders \cup {NoOrder}]
        /\ resting_orders \in [OrderIds -> Contexts \cup {NoContext}]
    BY DEF TypeInv, TypeOK, MarketInv
  <1>a. pc # "fills" => AllHaveContext
    BY DEF OrderInv, ContextsMatchBook, AllHaveContext, Context
  <1>b. PICK oid : oid = order_id(frame)
    OBVIOUS
  <1>c. UNCHANGED frame => order_id(frame)' = oid
    BY <1>b
  <1>1. CASE \/ UNCHANGED vars \/ Signal \/ ProcessFill
             \/ \E f \in Frames({arrived + 1}) : Receive(f)
    <2>1. UNCHANGED <<resting, resting_orders, owner, clashed, pc, frame, taker, incoming, result>>
      BY <1>1 DEF vars, Signal, Receive, ProcessFill, market, call, books, history
    <2> QED
      BY <2>1, OrdersSame
  <1>2. CASE NextLane \/ Refused \/ EndTurn
    <2>1. /\ UNCHANGED <<resting, resting_orders, owner, clashed>> /\ pc # "fills"
          /\ pc' \notin {"match", "fills"}
      BY <1>2 DEF NextLane, Refused, EndTurn, NextFrame, market, books, Kinds, history
    <2> QED
      BY <2>1, OrdersSame
  <1>3. CASE Take
    <2>1. /\ UNCHANGED <<resting, resting_orders, owner, clashed>>
          /\ pc = "drain" /\ pc' = frame'.kind
      BY <1>3 DEF Take, market, books, history
    <2>2. /\ lanes[Lane] \in Seq(Frames(Nat)) /\ lanes[Lane] # <<>> /\ frame' = Head(lanes[Lane])
      BY <1>3, DrainOrderAssumption DEF Take, Lane, TypeInv, TypeOK
    <2>3. frame' \in Frames(Nat)
      BY <2>2, HeadTailProperties
    <2>4. frame'.kind \in Kinds
      BY <2>3, FrameFields
    <2> QED
      BY <2>1, <2>4, OrdersSame DEF Kinds
  <1>4. CASE CancelResting
    <2>1. pc = "cancel" /\ frame.id \in OrderIds
      BY <1>4, FrameFields DEF CancelResting, TypeInv, CallInv, Kinds
    <2>2. resting' = [resting EXCEPT ![frame.id] = NoOrder]
      BY <1>4, <2>1, OrderLeaves DEF CancelResting
    <2>3. /\ resting_orders' = [resting_orders EXCEPT ![frame.id] = NoContext]
          /\ pc' = "drain" /\ UNCHANGED <<owner, clashed>>
      BY <1>4 DEF CancelResting, NextFrame
    <2>4. AllHaveContext'
      BY <1>0, <1>a, <2>1, <2>2, <2>3 DEF AllHaveContext, Context
    <2> QED
      BY <2>3, <2>4, OrdersBetween
  <1>5. CASE ReplaceRejected
    <2>1. pc = "replace" /\ frame.id \in OrderIds
      BY <1>5, FrameFields DEF ReplaceRejected, TypeInv, CallInv, Kinds
    <2>2. resting' = [resting EXCEPT ![frame.id] = NoOrder]
      BY <1>5, <2>1, OrderLeaves DEF ReplaceRejected
    <2>3. UNCHANGED <<resting_orders, owner, clashed>> /\ pc' = "drain"
      BY <1>5 DEF ReplaceRejected, NextFrame, books, history
    <2>4. AllHaveContext'
      BY <1>0, <1>a, <2>1, <2>2, <2>3 DEF AllHaveContext, Context
    <2> QED
      BY <2>3, <2>4, OrdersBetween
  <1>6. CASE ReplaceResting
    <2>1. /\ resting' = [resting EXCEPT ![oid] = NoOrder]
          /\ incoming'.id = oid /\ incoming'.side = resting[oid].side
          /\ oid \in OrderIds /\ resting[oid] # NoOrder /\ oid = frame.id
      BY <1>6, <1>b, OrderReenters
    <2>2. /\ pc = "replace" /\ pc' = "match"
          /\ UNCHANGED <<frame, resting_orders, owner, clashed>> /\ taker' = ReplaceContext
      BY <1>6 DEF ReplaceResting, Executing, books
    <2>3. ASSUME oid \notin clashed
          PROVE  taker'.account = owner[oid] /\ taker'.side = resting[oid].side
      <3>1. resting_orders[oid] = Context(oid, resting[oid].side)
        BY <1>a, <2>1, <2>2, <2>3 DEF AllHaveContext
      <3>2. resting_orders[oid] # NoContext
        <4>1. owner[oid] \in Nat /\ resting[oid].side \in Sides
          BY <1>0, <2>1 DEF TypeInv, TypeOK, RestingOrders
        <4> QED
          BY <3>1, <4>1, NullAssumption DEF Context
      <3> QED
        BY <2>1, <2>2, <3>1, <3>2 DEF ReplaceContext, Context
    <2>4. AllHaveContext'
      BY <1>0, <1>a, <2>1, <2>2 DEF AllHaveContext, Context
    <2>5. ContextsMatchBook'
      BY <2>4 DEF ContextsMatchBook, AllHaveContext, Context
    <2>6. resting'[oid] = NoOrder
      BY <1>0, <2>1
    <2> QED
      BY <1>c, <2>1, <2>2, <2>3, <2>5, <2>6 DEF OrderInv
  <1>7. CASE Trade
    <2>1. /\ \A j \in OrderIds :
                resting'[j] # NoOrder => resting[j] # NoOrder /\ resting'[j].side = resting[j].side
          /\ incoming'.id = incoming.id /\ incoming'.side = incoming.side
      BY <1>7, OrderTrades DEF Traded
    <2>2. pc = "match" /\ UNCHANGED <<pc, frame, resting_orders, taker, owner, clashed>>
      BY <1>7 DEF Trade, call, books
    <2>3. AllHaveContext'
      BY <1>a, <2>1, <2>2 DEF AllHaveContext, Context
    <2>4. ContextsMatchBook'
      BY <2>3 DEF ContextsMatchBook, AllHaveContext, Context
    <2>5. oid \in OrderIds
      BY <1>b, <2>2, FrameFields DEF TypeInv, CallInv
    <2> QED
      BY <1>b, <1>c, <2>1, <2>2, <2>4, <2>5 DEF OrderInv
  <1>8. CASE Rests
    <2>1. PICK r \in RestingOrders : /\ resting' = [resting EXCEPT ![incoming.id] = r]
                                     /\ r.side = incoming.side
      BY <1>8, OrderRests
    <2>2. /\ pc = "match" /\ pc' = "fills" /\ result' = "resting"
          /\ UNCHANGED <<frame, resting_orders, taker, owner, clashed>>
      BY <1>8 DEF Rests, Matched, books, history
    <2>3. /\ incoming.id = oid
          /\ oid \notin clashed => incoming.side = taker.side /\ taker.account = owner[oid]
      BY <1>b, <2>2 DEF OrderInv
    <2>4. oid \in OrderIds
      BY <1>b, <2>2, FrameFields DEF TypeInv, CallInv
    <2>5. /\ oid \notin clashed => resting'[oid].side = taker.side
          /\ \A id \in OrderIds : id # oid => resting'[id] = resting[id]
      BY <1>0, <2>1, <2>3, <2>4
    <2>6. ContextsMatchBook'
      BY <1>a, <1>c, <2>2, <2>5 DEF ContextsMatchBook, AllHaveContext, Context
    <2> QED
      BY <1>c, <2>2, <2>3, <2>5, <2>6 DEF OrderInv
  <1>9. CASE Filled
    <2>1. UNCHANGED resting
      BY <1>9 DEF Filled, Market!Finish
    <2>2. /\ pc = "match" /\ pc' = "fills"
          /\ UNCHANGED <<frame, resting_orders, taker, owner, clashed>>
      BY <1>9 DEF Filled, Matched, books, history
    <2>3. oid \notin clashed => resting[oid] = NoOrder /\ taker.account = owner[oid]
      BY <1>b, <2>2 DEF OrderInv
    <2>4. ContextsMatchBook'
      BY <1>a, <2>1, <2>2 DEF ContextsMatchBook, AllHaveContext, Context
    <2> QED
      BY <1>c, <2>1, <2>2, <2>3, <2>4 DEF OrderInv
  <1>10. CASE Duplicate
    <2>1. /\ UNCHANGED <<resting, resting_orders, owner, clashed>> /\ pc = "match"
          /\ pc' = "drain"
      BY <1>10 DEF Duplicate, NextFrame, Market!Finish, books, history
    <2> QED
      BY <2>1, OrdersSame
  <1>11. CASE FillsProcessed
    <2>1. pc = "fills" /\ oid \in OrderIds /\ taker \in Contexts
      BY <1>11, <1>b, FrameFields DEF FillsProcessed, TypeInv, CallInv
    <2>2. /\ UNCHANGED <<resting, owner, clashed>> /\ pc' = "drain"
          /\ resting_orders' = [resting_orders EXCEPT ![oid] =
                                  IF result = "resting" THEN taker ELSE NoContext]
      BY <1>11, <1>b DEF FillsProcessed, KeepContext, NextFrame, market, history
    <2>3. resting[oid] # NoOrder /\ oid \notin clashed =>
              result = "resting" /\ taker = Context(oid, resting[oid].side)
      BY <1>b, <2>1 DEF OrderInv, Context, Contexts
    <2>4. \A id \in OrderIds \ clashed : id # oid /\ resting[id] # NoOrder =>
              resting_orders[id] = Context(id, resting[id].side)
      BY <1>b DEF OrderInv, ContextsMatchBook, Context
    <2>5. AllHaveContext'
      <3> SUFFICES ASSUME NEW id \in OrderIds, id \notin clashed, resting[id] # NoOrder
                   PROVE  resting_orders'[id] = Context(id, resting[id].side)
        BY <2>2 DEF AllHaveContext, Context
      <3>1. CASE id = oid
        BY <1>0, <2>1, <2>2, <2>3, <3>1
      <3>2. CASE id # oid
        BY <1>0, <2>1, <2>2, <2>4, <3>2
      <3> QED
        BY <3>1, <3>2
    <2> QED
      BY <2>2, <2>5, OrdersBetween
  <1> QED
    BY <1>1, <1>2, <1>3, <1>4, <1>5, <1>6, <1>7, <1>8, <1>9, <1>10, <1>11, OrdersSubmit
    DEF Next, Loop

-----------------------------------------------------------------------------
(* Fills, positions and metadata                                           *)

\* A step with nothing to process before or after it.
LEMMA FillsNone ==
    ASSUME FillInv, Pending = 0, Pending' = 0, done' \in Nat, clashed \subseteq clashed',
           UNCHANGED <<executed, metadata, position>>
    PROVE  FillInv'
  <1>1. \A i : i \notin done' + 1 .. done' + Pending'
    OBVIOUS
  <1>2. Settled' = Settled
    BY DEF Settled
  <1>3. metadata' \in Seq(Records) /\ Settled' \in Nat
    BY <1>2 DEF FillInv
  <1>4. \A j \in 1 .. Settled' : executed'[j].fill.taker \notin clashed' => Reported(j)'
    BY <1>2 DEF FillInv, Reported
  <1>5. clashed' = {} => Booked'
    BY <1>2 DEF FillInv, Booked
  <1> QED
    BY <1>1, <1>3, <1>4, <1>5 DEF FillInv

\* A step that leaves the fills alone.
LEMMA FillsSame ==
    ASSUME FillInv, Pending' = Pending,
           UNCHANGED <<executed, metadata, position, done, fills, taker, frame, log,
                       resting_orders, owner, clashed>>
    PROVE  FillInv'
  <1>1. Offset' = Offset /\ Settled' = Settled
    BY DEF Offset, Settled
  <1>2. \A i \in done' + 1 .. done' + Pending' : Due(i)'
    BY <1>1 DEF FillInv, Due, Owed
  <1>3. \A j \in 1 .. Settled' : executed'[j].fill.taker \notin clashed' => Reported(j)'
    BY <1>1 DEF FillInv, Reported
  <1>4. clashed' = {} => Booked'
    BY <1>1 DEF FillInv, Booked
  <1> QED
    BY <1>1, <1>2, <1>3, <1>4 DEF FillInv

\* The trades of an order that is rejected as a duplicate get no record, but its id
\* has clashed.
LEMMA FillsDuplicate ==
    ASSUME TypeInv, OrderInv, FillInv, Duplicate
    PROVE  FillInv'
  <1>0. /\ pc = "match" /\ done = 0 /\ fills \in Seq(Fills) /\ executed \in Seq(Trades)
        /\ order_id(frame) \in clashed
    BY DuplicateClashed DEF TypeInv, TypeOK, MarketInv, CallInv, Duplicate
  <1>1. /\ pc' = "drain" /\ done' = 0 /\ UNCHANGED <<executed, metadata, position, clashed>>
    BY DEF Duplicate, NextFrame, books, history
  <1>2. Len(fills) \in Nat /\ Len(executed) \in Nat
    BY <1>0, LenProperties
  <1>3. Pending = Len(fills) /\ Pending' = 0
    BY <1>0, <1>1, <1>2 DEF Pending
  <1>4. Settled \in Nat /\ Settled = Len(executed) - Len(fills) /\ Settled' = Len(executed)
    BY <1>1, <1>2, <1>3 DEF Settled, FillInv
  <1>5. ASSUME NEW j \in 1 .. Len(executed), executed[j].fill.taker \notin clashed
        PROVE  Reported(j)
    <2>1. CASE j \in 1 .. Settled
      BY <1>5, <2>1 DEF FillInv
    <2>2. CASE j \notin 1 .. Settled
      <3>1. PICK i : i = j - Settled
        OBVIOUS
      <3>2. i \in done + 1 .. done + Pending /\ Settled + i - done = j
        BY <1>0, <1>2, <1>3, <1>4, <2>2, <3>1
      <3>3. Due(i)
        BY <3>2 DEF FillInv
      <3>4. executed[j].fill.taker = order_id(frame)
        BY <3>2, <3>3 DEF Due, Owed
      <3> QED
        BY <1>0, <1>5, <3>4
    <2> QED
      BY <2>1, <2>2
  <1>6. \A j \in 1 .. Settled' : executed'[j].fill.taker \notin clashed' => Reported(j)'
    BY <1>1, <1>4, <1>5 DEF Reported
  <1>7. \A i : i \notin done' + 1 .. done' + Pending'
    BY <1>1, <1>3
  <1>8. metadata' \in Seq(Records) /\ Settled' \in Nat /\ clashed' # {}
    BY <1>0, <1>1, <1>2, <1>4 DEF FillInv
  <1> QED
    BY <1>6, <1>7, <1>8 DEF FillInv

\* A trade is one more to process.
LEMMA FillsTrade ==
    ASSUME TypeInv, TypeInv', OrderInv, FillInv, Trade
    PROVE  FillInv'
  <1>0. /\ fills \in Seq(Fills) /\ executed \in Seq(Trades) /\ executed' \in Seq(Trades)
        /\ metadata \in Seq(Records) /\ pc = "match" /\ done = 0 /\ incoming \in MarketOrders
        /\ Settled \in Nat
    BY DEF TypeInv, TypeOK, MarketInv, CallInv, Trade, FillInv
  <1>1. Len(fills) \in Nat /\ Len(executed) \in Nat /\ Len(metadata) \in Nat
    BY <1>0, LenProperties
  <1>2. PICK id \in OrderIds, q \in Int : Traded(id, q)
    BY OrderTrades
  <1>3. PICK f : f = [maker |-> id, taker |-> incoming.id, quantity |-> q,
                      price |-> resting[id].price]
    OBVIOUS
  <1>4. f \in Fills /\ fills' = Append(fills, f) /\ f.taker = incoming.id /\ f.maker = id
    BY <1>2, <1>3 DEF Traded
  <1>5. /\ Len(fills') = Len(fills) + 1 /\ fills'[Len(fills) + 1] = f
        /\ \A i \in 1 .. Len(fills) : fills'[i] = fills[i]
    BY <1>0, <1>4, AppendProperties
  <1>6. PICK t : t = [fill |-> f, side |-> incoming.side, taker |-> owner[f.taker],
                      maker |-> owner[f.maker], offset |-> Offset]
    OBVIOUS
  <1>7. /\ executed' = Append(executed, t)
        /\ UNCHANGED <<pc, frame, log, done, taker, resting_orders, position, metadata, owner,
                       clashed>>
    BY <1>1, <1>5, <1>6 DEF Trade, call, books
  <1>8. PICK k : k = Len(fills) + 1
    OBVIOUS
  <1>9. /\ Len(executed') = Len(executed) + 1 /\ executed'[Len(executed) + 1] = t
        /\ \A i \in 1 .. Len(executed) : executed'[i] = executed[i]
    <2>1. t \in Trades
      <3>1. /\ incoming.side \in Sides /\ owner[f.taker] \in Nat /\ owner[f.maker] \in Nat
            /\ Len(log) \in Nat
        BY <1>0, <1>4, LenProperties DEF MarketOrders, Fills, TypeInv, TypeOK
      <3> QED
        BY <1>4, <1>6, <3>1, OffsetAssumption DEF Trades, Offset
    <2> QED
      BY <1>0, <1>7, <2>1, AppendProperties
  <1>10. Pending = Len(fills) /\ Pending' = Len(fills) + 1
    BY <1>0, <1>1, <1>5, <1>7 DEF Pending
  <1>11. /\ Settled = Len(executed) - Len(fills) /\ Settled' = Settled
         /\ Settled + k - 0 = Len(executed) + 1
    BY <1>1, <1>8, <1>9, <1>10 DEF Settled
  <1>12. Offset' = Offset /\ order_id(frame)' = order_id(frame)
    BY <1>7 DEF Offset
  <1>13. ASSUME NEW i \in 1 .. Len(fills) PROVE Due(i)'
    <2>1. i \in done + 1 .. done + Pending
      BY <1>0, <1>1, <1>10
    <2>2. Due(i)
      BY <2>1 DEF FillInv
    <2>3. Settled + i - 0 \in 1 .. Len(executed)
      BY <1>0, <1>1, <1>11
    <2>4. executed'[Settled' + i - done'] = executed[Settled + i - done] /\ fills'[i] = fills[i]
      BY <1>0, <1>5, <1>7, <1>9, <1>11, <2>3
    <2> QED
      BY <1>7, <1>12, <2>2, <2>4 DEF Due, Owed
  <1>14. Due(k)'
    <2>1. executed'[Settled' + k - done'] = t /\ fills'[k] = f
      BY <1>0, <1>5, <1>7, <1>8, <1>9, <1>11
    <2>2. incoming.id = order_id(frame)
      BY <1>0 DEF OrderInv
    <2>3. /\ t.fill = f /\ t.offset = Offset /\ t.taker = owner[order_id(frame)]
          /\ t.maker = owner[id] /\ t.side = incoming.side /\ f.taker = order_id(frame)
      BY <1>4, <1>6, <2>2
    <2>4. ASSUME clashed = {}
          PROVE  /\ t.side = taker.side
                 /\ resting_orders[f.maker] = [account |-> t.maker,
                                               side |-> Market!Opposite(taker.side)]
      <3>1. incoming.side = taker.side
        BY <1>0, <2>4 DEF OrderInv
      <3>2. resting[id] # NoOrder /\ resting[id].side = Market!Opposite(incoming.side)
        BY <1>2 DEF Traded
      <3>3. resting_orders[id] = [account |-> owner[id], side |-> resting[id].side]
        BY <1>0, <2>4, <3>2 DEF OrderInv, ContextsMatchBook
      <3> QED
        BY <1>4, <2>3, <3>1, <3>2, <3>3
    <2>5. Owed(t, f)
      BY <2>3, <2>4 DEF Owed
    <2> QED
      BY <1>7, <1>12, <2>1, <2>5 DEF Due, Owed
  <1>15. \A i \in done' + 1 .. done' + Pending' : Due(i)'
    <2> SUFFICES ASSUME NEW i \in done' + 1 .. done' + Pending' PROVE Due(i)'
      OBVIOUS
    <2>1. i \in 1 .. Len(fills) \/ i = k
      BY <1>0, <1>1, <1>7, <1>8, <1>10
    <2> QED
      BY <1>13, <1>14, <2>1
  <1>16. \A j \in 1 .. Settled' : executed'[j].fill.taker \notin clashed' => Reported(j)'
    <2>1. \A j \in 1 .. Settled : j \in 1 .. Len(executed)
      BY <1>0, <1>1, <1>11
    <2>2. \A j \in 1 .. Settled : executed'[j] = executed[j]
      BY <1>9, <2>1
    <2>3. \A j \in 1 .. Settled : executed[j].fill.taker \notin clashed => Reported(j)
      BY DEF FillInv
    <2> QED
      BY <1>7, <1>11, <2>2, <2>3 DEF Reported
  <1>17. ASSUME clashed' = {} PROVE Booked'
    <2>1. Booked
      BY <1>7, <1>17 DEF FillInv
    <2>2. Settled = Len(metadata) /\ Len(metadata) <= Len(executed)
      BY <1>0, <1>1, <1>11, <2>1 DEF Booked
    <2>3. \A i \in 1 .. Len(metadata) : executed'[i] = executed[i]
      <3>1. \A i \in 1 .. Len(metadata) : i \in 1 .. Len(executed)
        BY <1>1, <2>2
      <3> QED
        BY <1>9, <3>1
    <2>4. \A i \in 1 .. Len(metadata') : metadata'[i] = Record(executed'[i])
      BY <1>7, <2>1, <2>3 DEF Booked
    <2>5. ASSUME NEW a \in Accounts
          PROVE  position'[a] = Net(a, executed')[Len(metadata')]
      <3>1. /\ Len(executed') \in Nat /\ Len(executed) <= Len(executed')
            /\ Len(metadata) \in 0 .. Len(executed)
        BY <1>1, <1>9, <2>2
      <3>2. Net(a, executed')[Len(metadata)] = Net(a, executed)[Len(metadata)]
        BY <1>1, <1>9, <3>1, NetOfPrefix
      <3>3. position[a] = Net(a, executed)[Len(metadata)]
        BY <2>1 DEF Booked
      <3> QED
        BY <1>7, <3>2, <3>3
    <2> QED
      BY <1>7, <1>11, <2>2, <2>4, <2>5 DEF Booked
  <1>18. metadata' \in Seq(Records) /\ Settled' \in Nat
    BY <1>0, <1>7, <1>11
  <1> QED
    BY <1>15, <1>16, <1>17, <1>18 DEF FillInv

\* What two opposite fills do to the positions is what the trade did.
LEMMA BothSides ==
    ASSUME NEW pos \in [Accounts -> Int], NEW c \in Contexts, NEW d \in Contexts,
           NEW q \in Int, NEW t, NEW a \in Accounts,
           d.side = Market!Opposite(c.side), t.side = c.side, t.fill.quantity = q,
           t.taker = c.account, t.maker = d.account
    PROVE  apply_fill(apply_fill(pos, c, q), d, q)[a] = pos[a] + Bought(a, t)
  <1>1. PICK s : s = Signed(c.side, q)
    OBVIOUS
  <1>2. s \in Int /\ Signed(d.side, q) = -s
    BY <1>1 DEF Signed, Market!Opposite, Contexts, Sides
  <1>3. c.account \in Accounts /\ d.account \in Accounts
    BY DEF Contexts
  <1>4. PICK p : p = [pos EXCEPT ![c.account] = @ + s]
    OBVIOUS
  <1>5. p = apply_fill(pos, c, q) /\ p \in [Accounts -> Int]
    BY <1>1, <1>2, <1>3, <1>4 DEF apply_fill
  <1>6. apply_fill(p, d, q) = [p EXCEPT ![d.account] = @ + (-s)]
    BY <1>2 DEF apply_fill
  <1>7. p[a] = pos[a] + (IF c.account = a THEN s ELSE 0)
    BY <1>2, <1>3, <1>4
  <1>8. apply_fill(p, d, q)[a] = p[a] - (IF d.account = a THEN s ELSE 0)
    BY <1>2, <1>3, <1>5, <1>6
  <1>9. Bought(a, t) = (IF c.account = a THEN s ELSE 0) - (IF d.account = a THEN s ELSE 0)
    BY <1>1 DEF Bought
  <1>10. pos[a] \in Int /\ p[a] \in Int
    BY <1>5
  <1> QED
    BY <1>2, <1>5, <1>7, <1>8, <1>9, <1>10

\* One turn of process_fills reports the first trade that is not settled, and books it
\* on both sides if no id was given away twice.
LEMMA FillsProcess ==
    ASSUME TypeInv, OrderInv, FillInv, ProcessFill
    PROVE  FillInv'
  <1>0. /\ fills \in Seq(Fills) /\ executed \in Seq(Trades)
        /\ metadata \in Seq(Records) /\ pc = "fills" /\ done \in Nat /\ done < Len(fills)
        /\ taker \in Contexts /\ position \in [Accounts -> Int] /\ Settled \in Nat
        /\ resting_orders \in [OrderIds -> Contexts \cup {NoContext}]
    BY DEF TypeInv, TypeOK, MarketInv, CallInv, ProcessFill, FillInv
  <1>1. Len(fills) \in Nat /\ Len(executed) \in Nat /\ Len(metadata) \in Nat
    BY <1>0, LenProperties
  <1>2. PICK f, k, m : f = fills[done + 1] /\ k = done + 1 /\ m = Settled + 1
    OBVIOUS
  <1>3. /\ position' = maker_fill(apply_fill(position, taker, f.quantity), f.maker, f.quantity)
        /\ metadata' = push_trade_metadata(f) /\ done' = done + 1
        /\ UNCHANGED <<pc, frame, log, fills, taker, resting_orders, executed, owner, clashed>>
    BY <1>2 DEF ProcessFill, market, history
  <1>4. /\ Pending = Len(fills) - done /\ Pending' = Len(fills) - (done + 1)
        /\ Settled = Len(executed) - (Len(fills) - done) /\ Settled' = m
        /\ m \in 1 .. Len(executed)
    <2>1. Pending = Len(fills) - done /\ Pending' = Len(fills) - (done + 1)
      BY <1>0, <1>3 DEF Pending
    <2>2. /\ Settled = Len(executed) - (Len(fills) - done)
          /\ Settled' = Len(executed) - (Len(fills) - (done + 1))
      BY <1>3, <2>1 DEF Settled
    <2> QED
      BY <1>0, <1>1, <1>2, <2>1, <2>2
  <1>5. \A i \in done + 1 .. Len(fills) : Due(i)
    <2>1. done + Pending = Len(fills)
      BY <1>0, <1>1, <1>4
    <2> QED
      BY <2>1 DEF FillInv
  <1>6. k \in done + 1 .. Len(fills) /\ k \in 1 .. Len(fills) /\ Settled + k - done = m
    BY <1>0, <1>1, <1>2
  <1>7. PICK t : t = executed[m]
    OBVIOUS
  <1>8. Owed(t, f) /\ f \in Fills /\ t \in Trades
    <2>1. Due(k) /\ f = fills[k]
      BY <1>2, <1>5, <1>6
    <2>2. f \in Fills /\ t \in Trades
      BY <1>0, <1>4, <1>6, <1>7, <2>1, ElementOfSeq
    <2> QED
      BY <1>6, <1>7, <2>1, <2>2 DEF Due
  <1>9. f.quantity \in Int /\ f.maker \in OrderIds /\ f.taker \in OrderIds /\ f.price \in Prices
    BY <1>8 DEF Fills
  <1>10. PICK r : r = [offset |-> Offset, order_id |-> f.taker, account |-> taker.account,
                       price |-> f.price, quantity |-> f.quantity]
    OBVIOUS
  <1>11. f.taker \notin clashed => r = Record(t)
    <2> SUFFICES ASSUME f.taker \notin clashed PROVE r = Record(t)
      OBVIOUS
    <2>1. /\ f.taker = order_id(frame) /\ t.taker = owner[order_id(frame)]
          /\ t.fill = f /\ t.offset = Offset
      BY <1>8 DEF Owed
    <2>2. taker.account = owner[order_id(frame)]
      BY <1>0, <2>1 DEF OrderInv
    <2> QED
      BY <1>10, <2>1, <2>2 DEF Record
  <1>12. r \in Records
    <2>1. Len(log) \in Nat /\ taker.account \in Accounts
      BY <1>0, LenProperties DEF TypeInv, TypeOK, Contexts
    <2> QED
      BY <1>9, <1>10, <2>1, OffsetAssumption DEF Records, Offset
  <1>13. metadata' = Append(metadata, r)
    BY <1>3, <1>10 DEF push_trade_metadata
  <1>14. /\ metadata' \in Seq(Records) /\ Len(metadata') = Len(metadata) + 1
         /\ metadata'[Len(metadata) + 1] = r
         /\ \A i \in 1 .. Len(metadata) : metadata'[i] = metadata[i]
    BY <1>0, <1>12, <1>13, AppendProperties
  <1>15. \A i \in done' + 1 .. done' + Pending' : Due(i)'
    <2> SUFFICES ASSUME NEW i \in done' + 1 .. done' + Pending' PROVE Due(i)'
      OBVIOUS
    <2>1. i \in done + 1 .. Len(fills)
      BY <1>0, <1>1, <1>3, <1>4
    <2>2. Due(i)
      BY <1>5, <2>1
    <2>3. Offset' = Offset
      BY <1>3 DEF Offset
    <2>4. Settled' + i - done' = Settled + i - done
      <3>1. i \in Int /\ Settled \in Int /\ done \in Int
        BY <1>0, <1>1, <2>1
      <3>2. Settled' = Settled + 1 /\ done' = done + 1
        BY <1>2, <1>3, <1>4
      <3> QED
        BY ONLY <3>1, <3>2
    <2>5. executed'[Settled' + i - done'] = executed[Settled + i - done] /\ fills'[i] = fills[i]
      BY <1>3, <2>4
    <2> QED
      BY <1>3, <2>2, <2>3, <2>5 DEF Due, Owed
  <1>16. ASSUME NEW j \in 1 .. Settled', executed'[j].fill.taker \notin clashed'
         PROVE  \E i \in 1 .. Len(metadata') : metadata'[i] = Record(executed'[j])
    <2>1. j \in 1 .. Settled \/ j = m
      BY <1>0, <1>2, <1>4
    <2>2. CASE j \in 1 .. Settled
      <3>1. Reported(j)
        BY <1>3, <1>16, <2>2 DEF FillInv
      <3>2. PICK i \in 1 .. Len(metadata) : metadata[i] = Record(executed[j])
        BY <3>1 DEF Reported
      <3>3. i \in 1 .. Len(metadata')
        BY <1>1, <1>14
      <3> QED
        BY <1>3, <1>14, <3>2, <3>3
    <2>3. CASE j = m
      <3>1. t.fill = f /\ executed'[j] = t
        BY <1>3, <1>7, <1>8, <2>3 DEF Owed
      <3>2. f.taker \notin clashed
        BY <1>3, <1>16, <3>1
      <3>3. Len(metadata) + 1 \in 1 .. Len(metadata')
        BY <1>1, <1>14
      <3> QED
        BY <1>11, <1>14, <3>1, <3>2, <3>3
    <2> QED
      BY <2>1, <2>2, <2>3
  <1>17. ASSUME clashed' = {} PROVE Booked'
    <2>0. /\ clashed = {} /\ Booked /\ r = Record(t) /\ m = Len(metadata) + 1
          /\ t.side = taker.side /\ t.fill = f /\ t.taker = taker.account
      <3>1. clashed = {} /\ Booked
        BY <1>3, <1>17 DEF FillInv
      <3>2. r = Record(t) /\ t.side = taker.side /\ t.fill = f
        BY <1>8, <1>11, <3>1 DEF Owed
      <3>3. t.taker = taker.account
        BY <1>0, <1>8, <3>1 DEF Owed, OrderInv
      <3> QED
        BY <1>2, <3>1, <3>2, <3>3 DEF Booked
    <2>1. Settled' = Len(metadata')
      BY <1>4, <1>14, <2>0
    <2>2. \A i \in 1 .. Len(metadata') : metadata'[i] = Record(executed'[i])
      <3> SUFFICES ASSUME NEW i \in 1 .. Len(metadata') PROVE metadata'[i] = Record(executed'[i])
        OBVIOUS
      <3>1. i \in 1 .. Len(metadata) \/ i = m
        BY <1>1, <1>14, <2>0
      <3>2. CASE i \in 1 .. Len(metadata)
        <4>1. metadata[i] = Record(executed[i])
          BY <2>0, <3>2 DEF Booked
        <4> QED
          BY <1>3, <1>14, <3>2, <4>1
      <3>3. CASE i = m
        BY <1>3, <1>7, <1>14, <2>0, <3>3
      <3> QED
        BY <3>1, <3>2, <3>3
    <2>3. PICK d : d = resting_orders[f.maker]
      OBVIOUS
    <2>4. d.side = Market!Opposite(taker.side) /\ d.account = t.maker /\ d # NoContext
          /\ d \in Contexts
      <3>1. d = [account |-> t.maker, side |-> Market!Opposite(taker.side)]
        BY <1>8, <2>0, <2>3 DEF Owed
      <3>2. t.maker \in Nat /\ Market!Opposite(taker.side) \in Sides
        BY <1>8 DEF Trades, Market!Opposite, Sides
      <3>3. d # NoContext
        BY <3>1, <3>2, NullAssumption
      <3>4. d \in Contexts
        BY <1>0, <1>9, <2>3, <3>3
      <3> QED
        BY <3>1, <3>3, <3>4
    <2>5. position' = apply_fill(apply_fill(position, taker, f.quantity), d, f.quantity)
      BY <1>3, <2>3, <2>4 DEF maker_fill
    <2>6. ASSUME NEW a \in Accounts PROVE position'[a] = Net(a, executed')[Len(metadata')]
      <3>1. PICK q : q = f.quantity
        OBVIOUS
      <3>2. /\ q \in Int /\ t.fill.quantity = q /\ d \in Contexts /\ t.side = taker.side
            /\ d.side = Market!Opposite(taker.side)
            /\ t.taker = taker.account /\ t.maker = d.account
            /\ position \in [Accounts -> Int] /\ taker \in Contexts
        BY <1>0, <1>9, <2>0, <2>4, <3>1
      <3>3. apply_fill(apply_fill(position, taker, q), d, q)[a] = position[a] + Bought(a, t)
        BY ONLY <3>2, BothSides, a \in Accounts
      <3>4. position[a] = Net(a, executed)[Len(metadata)]
        BY <2>0 DEF Booked
      <3>5. Net(a, executed)[m] = Net(a, executed)[m - 1] + Bought(a, executed[m])
        BY <1>1, <1>4, NetValues
      <3>6. m - 1 = Len(metadata) /\ Len(metadata') = m
        BY <1>1, <1>14, <2>0
      <3> QED
        BY <1>3, <1>7, <2>5, <3>1, <3>3, <3>4, <3>5, <3>6
    <2> QED
      BY <2>1, <2>2, <2>6 DEF Booked
  <1>18. Settled' \in Nat
    BY <1>0, <1>2, <1>4
  <1>19. \A j \in 1 .. Settled' : executed'[j].fill.taker \notin clashed' => Reported(j)'
    BY <1>16 DEF Reported
  <1> QED
    BY <1>14, <1>15, <1>17, <1>18, <1>19 DEF FillInv

\* Every step keeps the books of the fills.
LEMMA FillsKept ==
    ASSUME TypeInv, TypeInv', OrderInv, FillInv, [Next]_vars
    PROVE  FillInv'
  <1>0. done \in Nat /\ done' \in Nat /\ (pc # "fills" => done = 0)
    BY DEF TypeInv, TypeOK, CallInv
  <1>1. CASE UNCHANGED vars \/ Signal \/ \E f \in Frames({arrived + 1}) : Receive(f)
    <2>1. UNCHANGED <<pc, executed, metadata, position, done, fills, taker, frame, log,
                      resting_orders, owner, clashed>>
      BY <1>1 DEF vars, Signal, Receive, market, call, books, history
    <2>2. Pending' = Pending
      BY <2>1 DEF Pending
    <2> QED
      BY <2>1, <2>2, FillsSame
  <1>2. CASE Rests \/ Filled
    <2>1. /\ UNCHANGED <<executed, metadata, position, done, fills, taker, frame, log,
                         resting_orders, owner, clashed>>
          /\ pc = "match" /\ pc' = "fills"
      BY <1>2 DEF Rests, Filled, Matched, books, history, Market!Book, Market!Finish
    <2>2. Pending' = Pending
      BY <2>1 DEF Pending
    <2> QED
      BY <2>1, <2>2, FillsSame
  <1>3. CASE NextLane \/ Refused \/ CancelResting \/ ReplaceRejected \/ EndTurn
    <2>1. /\ UNCHANGED <<executed, metadata, position, clashed>>
          /\ pc \notin {"match", "fills"} /\ pc' \notin {"match", "fills"}
      BY <1>3 DEF NextLane, Refused, CancelResting, ReplaceRejected, EndTurn, NextFrame, books,
         Kinds, history
    <2>2. Pending = 0 /\ Pending' = 0
      BY <2>1 DEF Pending
    <2> QED
      BY <1>0, <2>1, <2>2, FillsNone
  <1>4. CASE Take
    <2>1. UNCHANGED <<executed, metadata, position, clashed>> /\ pc = "drain" /\ pc' = frame'.kind
      BY <1>4 DEF Take, books, history
    <2>2. /\ lanes[Lane] \in Seq(Frames(Nat)) /\ lanes[Lane] # <<>> /\ frame' = Head(lanes[Lane])
      BY <1>4, DrainOrderAssumption DEF Take, Lane, TypeInv, TypeOK
    <2>3. frame' \in Frames(Nat)
      BY <2>2, HeadTailProperties
    <2>4. pc' \notin {"match", "fills"}
      BY <2>1, <2>3, FrameFields DEF Kinds
    <2>5. Pending = 0 /\ Pending' = 0
      BY <2>1, <2>4 DEF Pending
    <2> QED
      BY <1>0, <2>1, <2>5, FillsNone
  <1>5. CASE SubmitOrder \/ ReplaceResting
    <2>1. fills' = <<>>
      BY <1>5, OrderEnters, OrderReenters
    <2>2. /\ UNCHANGED <<executed, metadata, position, done>> /\ pc \notin {"match", "fills"}
          /\ clashed \subseteq clashed'
      BY <1>5 DEF SubmitOrder, ReplaceResting, Executing, books
    <2>3. Pending = 0 /\ Pending' = 0
      BY <1>0, <2>1, <2>2 DEF Pending
    <2> QED
      BY <1>0, <2>2, <2>3, FillsNone
  <1>6. CASE FillsProcessed
    <2>1. /\ UNCHANGED <<executed, metadata, position, clashed>> /\ done = Len(fills)
          /\ pc = "fills" /\ pc' = "drain"
      BY <1>6 DEF FillsProcessed, NextFrame, history
    <2>2. Pending = 0 /\ Pending' = 0
      BY <1>0, <2>1 DEF Pending
    <2> QED
      BY <1>0, <2>1, <2>2, FillsNone
  <1> QED
    BY <1>1, <1>2, <1>3, <1>4, <1>5, <1>6, FillsTrade, FillsProcess, FillsDuplicate DEF Next, Loop

-----------------------------------------------------------------------------
(* Theorems                                                                *)

LEMMA LoopInitInv ==
    ASSUME Init
    PROVE  LoopInv
  <1> USE DEF Init, Kinds
  <1>1. TypeOK
    <2>1. lanes \in [Kinds -> Seq(Frames(Nat))] /\ log \in Seq([kind : Kinds, n : Nat])
      <3>1. <<>> \in Seq(Frames(Nat)) /\ <<>> \in Seq([kind : Kinds, n : Nat])
        BY EmptySeq
      <3> QED
        BY <3>1
    <2>2. /\ position \in [Accounts -> Int]
          /\ resting_orders \in [OrderIds -> Contexts \cup {NoContext}]
          /\ owner \in [OrderIds -> Nat]
      OBVIOUS
    <2>3. shutdown \in BOOLEAN /\ clashed \subseteq OrderIds
      BY Zenon
    <2>4. /\ arrived \in Nat /\ turn \in 1 .. 3 /\ done \in Nat
          /\ processed \in Nat /\ block_number \in Nat /\ last_snapshot_block \in Nat
      OBVIOUS
    <2>5. /\ pc = "drain" /\ frame = NoFrame /\ result = "none" /\ taker = NoContext
      OBVIOUS
    <2> HIDE DEF Init
    <2> QED
      BY <2>1, <2>2, <2>3, <2>4, <2>5 DEF TypeOK
  <1>2. MarketInv /\ CallInv
    BY DEF MarketInv, CallInv, Market!BookInit
  <1>3. LogInv
    BY DEF LogInv
  <1>4. \A k \in Kinds : lanes[k] = <<>> /\ Len(lanes[k]) = 0
    OBVIOUS
  <1>5. LaneInv
    <2>1. /\ Len(log) = 0 /\ Len(lanes["new"]) = 0 /\ Len(lanes["cancel"]) = 0
          /\ Len(lanes["replace"]) = 0 /\ arrived = 0
      BY <1>4
    <2>2. Len(log) + Len(lanes["new"]) + Len(lanes["cancel"]) + Len(lanes["replace"]) = arrived
      BY ONLY <2>1
    <2>3. \A i : i \notin 1 .. 0
      OBVIOUS
    <2> QED
      BY <1>4, <2>1, <2>2, <2>3 DEF LaneInv, FramesAccounted
  <1>6. \A id \in OrderIds : resting[id] = NoOrder
    BY DEF Market!BookInit
  <1>7. OrderInv
    BY <1>6 DEF OrderInv, ContextsMatchBook
  <1>8. FillInv
    <2>1. Pending = 0 /\ metadata = <<>> /\ executed = <<>> /\ done = 0
      BY DEF Pending
    <2>2. Len(executed) = 0 /\ Len(metadata) = 0
      BY <2>1
    <2>3. \A a \in Accounts : position[a] = Net(a, executed)[Len(metadata)]
      <3>1. \A a \in Accounts : position[a] = 0
        OBVIOUS
      <3>2. \A a \in Accounts : Net(a, executed)[0] = 0
        BY <2>2, NetValues
      <3> QED
        BY <2>2, <3>1, <3>2
    <2> HIDE DEF Init
    <2>4. \A i : i \notin 1 .. 0
      OBVIOUS
    <2>5. Settled = 0 /\ metadata \in Seq(Records)
      BY <2>1, <2>2 DEF Settled
    <2>6. \A i : i \notin done + 1 .. done + Pending
      BY <2>1, <2>4
    <2>7. Booked
      BY <2>2, <2>3, <2>4, <2>5 DEF Booked
    <2> QED
      BY <2>4, <2>5, <2>6, <2>7 DEF FillInv
  <1> QED
    BY <1>1, <1>2, <1>3, <1>5, <1>7, <1>8 DEF LoopInv

LEMMA LoopNextKeepsInv ==
    ASSUME LoopInv, [Next]_vars
    PROVE  LoopInv'
  <1>1. TypeInv /\ LogInv /\ LaneInv /\ OrderInv /\ FillInv
    BY DEF LoopInv, TypeInv
  <1>2. TypeInv'
    BY <1>1, TypesKept
  <1>3. LogInv' /\ LaneInv'
    BY <1>1, LogKept, LanesKept
  <1>4. OrderInv'
    BY <1>1, OrdersKept
  <1>5. FillInv'
    BY <1>1, <1>2, FillsKept
  <1> QED
    BY <1>2, <1>3, <1>4, <1>5 DEF LoopInv, TypeInv

\* The inductive invariant holds.
THEOREM LoopInvHolds == Spec => []LoopInv
  <1>1. Init => LoopInv
    BY LoopInitInv
  <1>2. LoopInv /\ [Next]_vars => LoopInv'
    BY LoopNextKeepsInv
  <1> QED
    BY <1>1, <1>2, PTL DEF Spec

\* The state keeps its types, and process_fills stays within the list of fills.
THEOREM LoopTypeCorrect == Spec => []TypeOK
  <1>1. LoopInv => TypeOK
    BY DEF LoopInv
  <1> QED
    BY <1>1, LoopInvHolds, PTL

\* Every frame that was accepted is in its lane or in the log, exactly once, and the
\* log keeps the order of arrival within a lane, whichever lane is drained when.
THEOREM FramesAreAccounted == Spec => []FramesAccounted
  <1>1. LoopInv => FramesAccounted
    BY DEF LoopInv, LaneInv
  <1> QED
    BY <1>1, LoopInvHolds, PTL

\* A snapshot is labelled with the number of records that this process logged, clamped to
\* what a label can hold, wherever the log began: never above the last record that
\* it covers, and equal to it exactly in a log that was empty and while nothing is clamped.
THEOREM SnapshotsCoverLog == Spec => []SnapshotCoversLog
  <1>1. LoopInv => SnapshotCoversLog
    <2> SUFFICES ASSUME LoopInv, NEW i \in 1 .. Len(snapshots)
                 PROVE  LET s == snapshots[i]
                            records == s.offset - FirstOffset + 1
                        IN  /\ s.sequence = IF records <= MaxLabel THEN records ELSE MaxLabel
                            /\ s.sequence <= s.offset
                            /\ s.sequence = s.offset <=> FirstOffset = 1 /\ s.offset <= MaxLabel
      BY DEF SnapshotCoversLog
    <2>1. PICK s : s = snapshots[i]
      OBVIOUS
    <2>2. s.sequence \in Nat /\ s.offset \in Int /\ Labelled(s)
      <3>1. snapshots \in Seq([sequence : Nat, offset : Int])
        BY DEF LoopInv, LogInv
      <3>2. s \in [sequence : Nat, offset : Int]
        BY <2>1, <3>1, ElementOfSeq
      <3> QED
        BY <2>1, <3>2 DEF LoopInv, LogInv
    <2>3. PICK q, o : q = s.sequence /\ o = s.offset
      OBVIOUS
    <2>4. /\ q \in Nat /\ o \in Int /\ o - FirstOffset + 1 \in Nat
          /\ q = IF o - FirstOffset + 1 <= MaxLabel THEN o - FirstOffset + 1 ELSE MaxLabel
      BY <2>2, <2>3 DEF Labelled, label
    <2>5. FirstOffset \in Nat /\ FirstOffset # 0 /\ MaxLabel \in Nat
      BY OffsetAssumption, IntervalAssumption
    <2>6. q <= o /\ (q = o <=> FirstOffset = 1 /\ o <= MaxLabel)
      BY ONLY <2>4, <2>5
    <2> QED
      BY <2>1, <2>3, <2>4, <2>6
  <1> QED
    BY <1>1, LoopInvHolds, PTL

\* The contexts that main keeps agree with the matcher's book between any two steps, for
\* every id that was never submitted while an order with it rested, however account
\* and nonce are masked.
THEOREM ContextsMatch == Spec => []ContextsMatchBook
  <1>1. LoopInv => ContextsMatchBook
    BY DEF LoopInv, OrderInv
  <1> QED
    BY <1>1, LoopInvHolds, PTL

\* Every trade of a taker whose id was not given away twice has its record; and until
\* any id is, metadata and positions are exactly those of the trades.
THEOREM FillsAreBooked == Spec => []FillsBooked
  <1>1. LoopInv => FillsBooked
    <2> SUFFICES ASSUME LoopInv, Between PROVE FillsBooked
      BY DEF FillsBooked
    <2>1. Pending = 0
      BY DEF Pending, Between
    <2>2. FillInv /\ Len(metadata) \in Nat /\ Len(executed) \in Nat
      <3>1. FillInv /\ executed \in Seq(Trades) /\ metadata \in Seq(Records)
        BY DEF LoopInv, FillInv, MarketInv
      <3> QED
        BY <3>1, LenProperties
    <2>3. Settled = Len(executed)
      BY <2>1, <2>2 DEF Settled
    <2>4. \A j \in 1 .. Len(executed) : executed[j].fill.taker \notin clashed =>
              \E k \in 1 .. Len(metadata) : metadata[k] = Record(executed[j])
      BY <2>2, <2>3 DEF FillInv, Reported
    <2>5. ASSUME clashed = {}
          PROVE  /\ \A a \in Accounts : position[a] = Net(a, executed)[Len(executed)]
                 /\ Len(metadata) = Len(executed)
                 /\ \A i \in 1 .. Len(executed) : metadata[i] = Record(executed[i])
      <3>1. Booked
        BY <2>2, <2>5 DEF FillInv
      <3>2. Len(metadata) = Len(executed)
        BY <2>3, <3>1 DEF Booked
      <3> QED
        BY <3>1, <3>2 DEF Booked
    <2> QED
      BY <2>4, <2>5 DEF FillsBooked
  <1> QED
    BY <1>1, LoopInvHolds, PTL
=============================================================================
