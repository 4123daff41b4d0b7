----------------------- MODULE MatchingEngine_proofs -----------------------
(***************************************************************************)
(* Proofs about MatchingEngine.  Inv is inductive: the data structures     *)
(* agree (BookIntegrity), list order is time order (TimePriority), the     *)
(* book is not crossed, and the iterator and the maker pointer are where   *)
(* the loops of match_order need them (MatchingLoop).  The first lemmas    *)
(* are about lists and levels, then there is one per action.  From Inv     *)
(* follow the invariants that TLC checks, and the step simulation of the   *)
(* abstract market.  The last two parts are about quantities: a theory of  *)
(* sums over finite sets, then QuantityInv (a level's totals are the sums  *)
(* over its orders) and FokInv (a running fill-or-kill order is covered    *)
(* by the levels it crosses).                                              *)
(***************************************************************************)
EXTENDS MatchingEngine, SequenceTheorems, FiniteSetTheorems, NaturalsInduction,
        WellFoundedInduction, TLAPS

\* What is left of a list of ids after the one at place i is unlinked.
LEMMA RemoveAtProperties ==
  ASSUME NEW S, NEW q \in Seq(S), NEW i \in 1 .. Len(q)
  PROVE  /\ RemoveAt(q, i) \in Seq(S)
         /\ Len(RemoveAt(q, i)) = Len(q) - 1
         /\ \A j \in 1 .. Len(q) - 1 :
               RemoveAt(q, i)[j] = IF j < i THEN q[j] ELSE q[j + 1]
<1> DEFINE a == SubSeq(q, 1, i - 1)
           b == SubSeq(q, i + 1, Len(q))
<1>1. Len(q) \in Nat /\ \A j \in 1 .. Len(q) : q[j] \in S
  BY LenProperties, ElementOfSeq
<1>2. /\ a \in Seq(S)
      /\ Len(a) = i - 1
      /\ \A j \in 1 .. (i - 1) : a[j] = q[j]
  BY <1>1, SubSeqProperties
<1>3. /\ b \in Seq(S)
      /\ Len(b) = Len(q) - i
      /\ \A j \in 1 .. (Len(q) - i) : b[j] = q[i + j]
  BY <1>1, SubSeqProperties
<1>4. /\ a \o b \in Seq(S)
      /\ Len(a \o b) = Len(a) + Len(b)
      /\ \A j \in 1 .. Len(a) + Len(b) :
            (a \o b)[j] = IF j <= Len(a) THEN a[j] ELSE b[j - Len(a)]
  BY <1>2, <1>3, ConcatProperties
<1>5. RemoveAt(q, i) = a \o b
  BY DEF RemoveAt
<1> HIDE DEF a, b
<1>6. Len(a \o b) = Len(q) - 1
  BY <1>1, <1>2, <1>3, <1>4
<1>7. ASSUME NEW j \in 1 .. Len(q) - 1
      PROVE  (a \o b)[j] = IF j < i THEN q[j] ELSE q[j + 1]
  <2>1. CASE j < i
    BY <1>1, <1>2, <1>3, <1>4, <2>1
  <2>2. CASE ~ (j < i)
    <3>1. (a \o b)[j] = b[j - (i - 1)]
      BY <1>1, <1>2, <1>3, <1>4, <2>2
    <3>2. /\ j - (i - 1) \in 1 .. (Len(q) - i)
          /\ i + (j - (i - 1)) = j + 1
      BY <1>1, <2>2
    <3> QED
      BY <1>3, <2>2, <3>1, <3>2
  <2> QED
    BY <2>1, <2>2
<1> QED
  BY <1>4, <1>5, <1>6, <1>7

\* The lists and the map of orders after an order is unlinked and erased.
LEMMA UnlinkKeepsLists ==
  ASSUME TypeOK, ListsHoldOrders, OrdersAreListed, ListsInTimeOrder,
         NEW id \in OrderIds, NEW side \in Sides, NEW p \in Prices,
         NEW i \in At(queue[side][p], id),
         book_orders' = [book_orders EXCEPT ![id] = NoOrder],
         queue' = [queue EXCEPT ![side][p] = RemoveAt(queue[side][p], i)]
  PROVE  /\ book_orders' \in [OrderIds -> OrderRecords \cup {NoOrder}]
         /\ queue' \in [Sides -> [Prices -> Seq(OrderIds)]]
         /\ ListsHoldOrders' /\ OrdersAreListed' /\ ListsInTimeOrder'
<1> DEFINE q == queue[side][p]
           r == RemoveAt(q, i)
<1>1. /\ q \in Seq(OrderIds) /\ i \in 1 .. Len(q) /\ q[i] = id
      /\ Len(q) \in Nat
  BY LenProperties DEF TypeOK, ShardTypeOK, At
<1>2. /\ r \in Seq(OrderIds)
      /\ Len(r) = Len(q) - 1
      /\ \A j \in 1 .. Len(q) - 1 : r[j] = IF j < i THEN q[j] ELSE q[j + 1]
  BY <1>1, RemoveAtProperties
<1> HIDE DEF r
<1>3. /\ queue' \in [Sides -> [Prices -> Seq(OrderIds)]]
      /\ queue'[side][p] = r
      /\ \A s \in Sides, x \in Prices :
            (s # side \/ x # p) => queue'[s][x] = queue[s][x]
  BY <1>2 DEF TypeOK, ShardTypeOK, r
<1>4. /\ book_orders' \in [OrderIds -> OrderRecords \cup {NoOrder}]
      /\ \A o \in OrderIds : o # id => book_orders'[o] = book_orders[o]
      /\ book_orders'[id] = NoOrder
      /\ book_orders[id] # NoOrder
      /\ book_orders[id].side = side /\ book_orders[id].price = p
  BY <1>1 DEF TypeOK, ShardTypeOK, ListsHoldOrders
<1>5. \A s \in Sides, x \in Prices : \A j \in 1 .. Len(queue'[s][x]) :
         \E k \in 1 .. Len(queue[s][x]) :
            /\ queue'[s][x][j] = queue[s][x][k]
            /\ queue[s][x][k] # id
            /\ queue[s][x][k] \in OrderIds
            /\ (s = side /\ x = p) => k = IF j < i THEN j ELSE j + 1
            /\ (s # side \/ x # p) => k = j
  <2> SUFFICES ASSUME NEW s \in Sides, NEW x \in Prices,
                      NEW j \in 1 .. Len(queue'[s][x])
               PROVE  \E k \in 1 .. Len(queue[s][x]) :
                        /\ queue'[s][x][j] = queue[s][x][k]
                        /\ queue[s][x][k] # id
                        /\ queue[s][x][k] \in OrderIds
                        /\ (s = side /\ x = p) => k = IF j < i THEN j ELSE j + 1
                        /\ (s # side \/ x # p) => k = j
    OBVIOUS
  <2>1. CASE s = side /\ x = p
    <3> DEFINE k == IF j < i THEN j ELSE j + 1
    <3>1. k \in 1 .. Len(q) /\ r[j] = q[k] /\ k # i
      BY <1>1, <1>2, <1>3, <2>1
    <3>2. q[k] # id
      BY <1>1, <2>1, <3>1 DEF ListsHoldOrders
    <3>3. q[k] \in OrderIds
      BY <1>1, <3>1, ElementOfSeq
    <3> HIDE DEF k
    <3> QED
      BY <1>3, <2>1, <3>1, <3>2, <3>3 DEF k
  <2>2. CASE s # side \/ x # p
    <3>1. queue'[s][x] = queue[s][x] /\ queue[s][x] \in Seq(OrderIds)
      BY <1>3, <2>2 DEF TypeOK, ShardTypeOK
    <3>2. queue[s][x][j] \in OrderIds
      BY <3>1, ElementOfSeq
    <3>3. book_orders[queue[s][x][j]].side = s /\ book_orders[queue[s][x][j]].price = x
      BY <3>1 DEF ListsHoldOrders
    <3> QED
      BY <1>4, <2>2, <3>1, <3>2, <3>3
  <2> QED
    BY <2>1, <2>2
<1>6. ListsHoldOrders'
  <2> SUFFICES ASSUME NEW s \in Sides, NEW x \in Prices,
                      NEW j \in 1 .. Len(queue'[s][x])
               PROVE  LET o == queue'[s][x][j]
                      IN  /\ book_orders'[o] # NoOrder
                          /\ book_orders'[o].id = o
                          /\ book_orders'[o].side = s
                          /\ book_orders'[o].price = x
                          /\ book_orders'[o].remaining > 0
                          /\ \A m \in 1 .. Len(queue'[s][x]) :
                                queue'[s][x][m] = o => m = j
    BY DEF ListsHoldOrders
  <2>1. PICK k \in 1 .. Len(queue[s][x]) :
            /\ queue'[s][x][j] = queue[s][x][k]
            /\ queue[s][x][k] # id
            /\ queue[s][x][k] \in OrderIds
            /\ (s = side /\ x = p) => k = IF j < i THEN j ELSE j + 1
            /\ (s # side \/ x # p) => k = j
    BY <1>5
  <2>2. ASSUME NEW m \in 1 .. Len(queue'[s][x]), queue'[s][x][m] = queue'[s][x][j]
        PROVE  m = j
    <3>1. PICK n \in 1 .. Len(queue[s][x]) :
              /\ queue'[s][x][m] = queue[s][x][n]
              /\ queue[s][x][n] # id
              /\ queue[s][x][n] \in OrderIds
              /\ (s = side /\ x = p) => n = IF m < i THEN m ELSE m + 1
              /\ (s # side \/ x # p) => n = m
      BY <1>5
    <3>2. n = k
      <4>1. queue[s][x][n] = queue[s][x][k]
        BY <2>1, <2>2, <3>1
      <4> QED
        BY <4>1 DEF ListsHoldOrders
    <3>3. queue'[s][x] \in Seq(OrderIds) /\ Len(queue'[s][x]) \in Nat
      BY <1>3, LenProperties
    <3> QED
      BY <1>1, <2>1, <3>1, <3>2, <3>3
  <2>3. book_orders'[queue'[s][x][j]] = book_orders[queue[s][x][k]]
    BY <1>4, <2>1
  <2> QED
    BY <2>1, <2>2, <2>3 DEF ListsHoldOrders
<1>7. OrdersAreListed'
  <2> SUFFICES ASSUME NEW o \in OrderIds, book_orders'[o] # NoOrder
               PROVE  At(queue'[book_orders'[o].side][book_orders'[o].price], o) # {}
    BY DEF OrdersAreListed
  <2>1. o # id /\ book_orders'[o] = book_orders[o]
    BY <1>4
  <2> DEFINE s == book_orders[o].side
             x == book_orders[o].price
  <2>2. s \in Sides /\ x \in Prices
    BY <2>1 DEF TypeOK, ShardTypeOK, OrderRecords
  <2>3. PICK k \in 1 .. Len(queue[s][x]) : queue[s][x][k] = o
    BY <2>1 DEF OrdersAreListed, At
  <2> HIDE DEF s, x
  <2>4. \E j \in 1 .. Len(queue'[s][x]) : queue'[s][x][j] = o
    <3>1. CASE s = side /\ x = p
      <4> DEFINE j == IF k < i THEN k ELSE k - 1
      <4>1. k # i
        BY <1>1, <2>1, <2>3, <3>1
      <4>2. j \in 1 .. Len(q) - 1 /\ (IF j < i THEN j ELSE j + 1) = k
        BY <1>1, <2>3, <3>1, <4>1
      <4>3. r[j] = o
        BY <1>2, <2>3, <3>1, <4>2
      <4> QED
        BY <1>2, <1>3, <3>1, <4>2, <4>3
    <3>2. CASE s # side \/ x # p
      BY <1>3, <2>2, <2>3, <3>2
    <3> QED
      BY <3>1, <3>2
  <2> QED
    BY <2>1, <2>4 DEF At, s, x
<1>8. ListsInTimeOrder'
  <2> SUFFICES ASSUME NEW s \in Sides, NEW x \in Prices,
                      NEW j \in 1 .. Len(queue'[s][x]),
                      NEW m \in 1 .. Len(queue'[s][x]), j < m
               PROVE  book_orders'[queue'[s][x][j]].fifo_seq
                        < book_orders'[queue'[s][x][m]].fifo_seq
    BY DEF ListsInTimeOrder
  <2>1. PICK k \in 1 .. Len(queue[s][x]) :
            /\ queue'[s][x][j] = queue[s][x][k]
            /\ queue[s][x][k] # id
            /\ queue[s][x][k] \in OrderIds
            /\ (s = side /\ x = p) => k = IF j < i THEN j ELSE j + 1
            /\ (s # side \/ x # p) => k = j
    BY <1>5
  <2>2. PICK n \in 1 .. Len(queue[s][x]) :
            /\ queue'[s][x][m] = queue[s][x][n]
            /\ queue[s][x][n] # id
            /\ queue[s][x][n] \in OrderIds
            /\ (s = side /\ x = p) => n = IF m < i THEN m ELSE m + 1
            /\ (s # side \/ x # p) => n = m
    BY <1>5
  <2>3. queue'[s][x] \in Seq(OrderIds) /\ Len(queue'[s][x]) \in Nat
    BY <1>3, LenProperties
  <2>4. k < n
    BY <1>1, <2>1, <2>2, <2>3
  <2> QED
    BY <1>4, <2>1, <2>2, <2>4 DEF ListsInTimeOrder
<1> QED
  BY <1>3, <1>4, <1>6, <1>7, <1>8

\* The lists and the map of orders after an order comes to rest.
LEMMA AppendKeepsLists ==
  ASSUME TypeOK, ListsHoldOrders, OrdersAreListed, ListsInTimeOrder,
         NEW r \in OrderRecords, r.remaining > 0,
         book_orders[r.id] = NoOrder,
         \A o \in OrderIds : book_orders[o] # NoOrder =>
            book_orders[o].fifo_seq < r.fifo_seq,
         book_orders' = [book_orders EXCEPT ![r.id] = r],
         queue' = [queue EXCEPT ![r.side][r.price] = Append(@, r.id)]
  PROVE  /\ book_orders' \in [OrderIds -> OrderRecords \cup {NoOrder}]
         /\ queue' \in [Sides -> [Prices -> Seq(OrderIds)]]
         /\ ListsHoldOrders' /\ OrdersAreListed' /\ ListsInTimeOrder'
<1> DEFINE id == r.id
           side == r.side
           p == r.price
           q == queue[side][p]
           a == Append(q, id)
<1>1. id \in OrderIds /\ side \in Sides /\ p \in Prices
  BY DEF OrderRecords
<1>2. /\ q \in Seq(OrderIds)
      /\ Len(q) \in Nat
      /\ a \in Seq(OrderIds)
      /\ Len(a) = Len(q) + 1
      /\ \A j \in 1 .. Len(q) : a[j] = q[j]
      /\ a[Len(q) + 1] = id
  <2>1. q \in Seq(OrderIds)
    BY <1>1 DEF TypeOK, ShardTypeOK
  <2>2. Len(q) \in Nat
    BY <2>1, LenProperties
  <2> HIDE DEF q, id
  <2> QED
    BY <1>1, <2>1, <2>2, AppendProperties
<1>3. /\ queue' \in [Sides -> [Prices -> Seq(OrderIds)]]
      /\ queue'[side][p] = a
      /\ \A s \in Sides, x \in Prices :
            (s # side \/ x # p) => queue'[s][x] = queue[s][x]
  BY <1>1, <1>2 DEF TypeOK, ShardTypeOK
<1>4. /\ book_orders' \in [OrderIds -> OrderRecords \cup {NoOrder}]
      /\ \A o \in OrderIds : o # id => book_orders'[o] = book_orders[o]
      /\ book_orders'[id] = r
      /\ r # NoOrder
  BY <1>1, NullAssumption DEF TypeOK, ShardTypeOK
<1>5. \A s \in Sides, x \in Prices : \A j \in 1 .. Len(queue[s][x]) :
         /\ queue[s][x][j] \in OrderIds
         /\ queue[s][x][j] # id
         /\ book_orders'[queue[s][x][j]] = book_orders[queue[s][x][j]]
  <2> TAKE s \in Sides, x \in Prices
  <2> TAKE j \in 1 .. Len(queue[s][x])
  <2>1. queue[s][x] \in Seq(OrderIds)
    BY DEF TypeOK, ShardTypeOK
  <2>2. queue[s][x][j] \in OrderIds
    BY <2>1, ElementOfSeq
  <2>3. book_orders[queue[s][x][j]] # NoOrder
    BY DEF ListsHoldOrders
  <2> QED
    BY <1>4, <2>2, <2>3
<1> HIDE DEF a, q, id, side, p
<1>6. \A s \in Sides, x \in Prices : \A j \in 1 .. Len(queue'[s][x]) :
         \/ /\ j \in 1 .. Len(queue[s][x])
            /\ queue'[s][x][j] = queue[s][x][j]
         \/ /\ s = side /\ x = p
            /\ j = Len(queue[s][x]) + 1
            /\ queue'[s][x][j] = id
  <2> TAKE s \in Sides, x \in Prices
  <2> TAKE j \in 1 .. Len(queue'[s][x])
  <2>1. CASE s = side /\ x = p
    BY <1>2, <1>3, <2>1 DEF q
  <2>2. CASE s # side \/ x # p
    BY <1>3, <2>2
  <2> QED
    BY <2>1, <2>2
<1>7. ListsHoldOrders'
  <2> SUFFICES ASSUME NEW s \in Sides, NEW x \in Prices,
                      NEW j \in 1 .. Len(queue'[s][x])
               PROVE  LET o == queue'[s][x][j]
                      IN  /\ book_orders'[o] # NoOrder
                          /\ book_orders'[o].id = o
                          /\ book_orders'[o].side = s
                          /\ book_orders'[o].price = x
                          /\ book_orders'[o].remaining > 0
                          /\ \A m \in 1 .. Len(queue'[s][x]) :
                                queue'[s][x][m] = o => m = j
    BY DEF ListsHoldOrders
  <2>1. CASE j \in 1 .. Len(queue[s][x]) /\ queue'[s][x][j] = queue[s][x][j]
    <3>1. ASSUME NEW m \in 1 .. Len(queue'[s][x]),
                 queue'[s][x][m] = queue'[s][x][j]
          PROVE  m = j
      <4>1. m \in 1 .. Len(queue[s][x]) /\ queue'[s][x][m] = queue[s][x][m]
        BY <1>5, <1>6, <2>1, <3>1
      <4> QED
        BY <2>1, <3>1, <4>1 DEF ListsHoldOrders
    <3> DEFINE o == queue[s][x][j]
    <3>2. /\ book_orders[o] # NoOrder
          /\ book_orders[o].id = o
          /\ book_orders[o].side = s
          /\ book_orders[o].price = x
          /\ book_orders[o].remaining > 0
      BY <2>1 DEF ListsHoldOrders
    <3>3. book_orders'[o] = book_orders[o]
      BY <1>5, <2>1
    <3> HIDE DEF o
    <3> QED
      BY <2>1, <3>1, <3>2, <3>3 DEF o
  <2>2. CASE s = side /\ x = p /\ j = Len(queue[s][x]) + 1 /\ queue'[s][x][j] = id
    <3>1. ASSUME NEW m \in 1 .. Len(queue'[s][x]),
                 queue'[s][x][m] = queue'[s][x][j]
          PROVE  m = j
      BY <1>5, <1>6, <2>2, <3>1
    <3> QED
      BY <1>4, <2>2, <3>1 DEF id, side, p
  <2> QED
    BY <1>6, <2>1, <2>2
<1>8. OrdersAreListed'
  <2> SUFFICES ASSUME NEW o \in OrderIds, book_orders'[o] # NoOrder
               PROVE  At(queue'[book_orders'[o].side][book_orders'[o].price], o) # {}
    BY DEF OrdersAreListed
  <2>1. CASE o = id
    <3>1. book_orders'[o].side = side /\ book_orders'[o].price = p
      BY <1>4, <2>1 DEF side, p
    <3>2. Len(q) + 1 \in At(a, id)
      BY <1>2 DEF At
    <3> QED
      BY <1>3, <2>1, <3>1, <3>2
  <2>2. CASE o # id
    <3> DEFINE s == book_orders[o].side
               x == book_orders[o].price
    <3>1. book_orders'[o] = book_orders[o]
      BY <1>4, <2>2
    <3>2. s \in Sides /\ x \in Prices
      BY <3>1 DEF TypeOK, ShardTypeOK, OrderRecords
    <3>3. PICK k \in 1 .. Len(queue[s][x]) : queue[s][x][k] = o
      BY <3>1 DEF OrdersAreListed, At
    <3> HIDE DEF s, x
    <3>4. k \in 1 .. Len(queue'[s][x]) /\ queue'[s][x][k] = o
      <4>1. CASE s = side /\ x = p
        BY <1>2, <1>3, <3>3, <4>1 DEF q
      <4>2. CASE s # side \/ x # p
        BY <1>3, <3>2, <3>3, <4>2
      <4> QED
        BY <4>1, <4>2
    <3> QED
      BY <3>1, <3>4 DEF At, s, x
  <2> QED
    BY <2>1, <2>2
<1>9. ListsInTimeOrder'
  <2> SUFFICES ASSUME NEW s \in Sides, NEW x \in Prices,
                      NEW j \in 1 .. Len(queue'[s][x]),
                      NEW m \in 1 .. Len(queue'[s][x]), j < m
               PROVE  book_orders'[queue'[s][x][j]].fifo_seq
                        < book_orders'[queue'[s][x][m]].fifo_seq
    BY DEF ListsInTimeOrder
  <2>1. queue[s][x] \in Seq(OrderIds) /\ Len(queue[s][x]) \in Nat
    BY LenProperties DEF TypeOK, ShardTypeOK
  <2>2. CASE m \in 1 .. Len(queue[s][x]) /\ queue'[s][x][m] = queue[s][x][m]
    <3>1. j \in 1 .. Len(queue[s][x]) /\ queue'[s][x][j] = queue[s][x][j]
      BY <1>6, <2>1, <2>2
    <3> QED
      BY <1>5, <2>2, <3>1 DEF ListsInTimeOrder
  <2>3. CASE s = side /\ x = p /\ m = Len(queue[s][x]) + 1 /\ queue'[s][x][m] = id
    <3>1. j \in 1 .. Len(queue[s][x]) /\ queue'[s][x][j] = queue[s][x][j]
      BY <1>6, <2>1, <2>3
    <3>2. book_orders[queue[s][x][j]] # NoOrder
      BY <3>1 DEF ListsHoldOrders
    <3> QED
      <4>1. book_orders'[queue'[s][x][j]] = book_orders[queue[s][x][j]]
        <5>1. j \in 1 .. Len(queue[s][x])
          BY <3>1
        <5>2. book_orders'[queue[s][x][j]] = book_orders[queue[s][x][j]]
          BY <1>5, <5>1
        <5> QED
          BY <3>1, <5>2
      <4>2. book_orders[queue[s][x][j]].fifo_seq < r.fifo_seq
        BY <1>5, <3>1, <3>2
      <4> QED
        BY <1>4, <2>3, <4>1, <4>2
  <2> QED
    BY <1>6, <2>2, <2>3
<1> QED
  BY <1>3, <1>4, <1>7, <1>8, <1>9

-----------------------------------------------------------------------------
(* The iterators                                                           *)

\* The first level is a level, and when an order does not cross the first level
\* of the other side, it crosses none.
LEMMA FirstProperties ==
  ASSUME NEW side \in Sides, NEW S \in SUBSET Prices, NEW price \in Prices,
         NEW p \in First(Opposite(side), S)
  PROVE  /\ p \in Prices \cup {NoPrice}
         /\ p = NoPrice <=> S = {}
         /\ p # NoPrice =>
              /\ p \in S
              /\ \A q \in S : ~ Before(Opposite(side), q, p)
              /\ ~ crosses(side, price, p) =>
                    \A q \in S : ~ crosses(side, price, q)
<1>1. CASE S = {}
  BY <1>1 DEF First
<1>2. CASE S # {}
  <2>1. p \in S /\ \A q \in S : ~ Before(Opposite(side), q, p)
    BY <1>2 DEF First
  <2>2. p # NoPrice
    BY <2>1, NullAssumption
  <2>3. ASSUME ~ crosses(side, price, p), NEW q \in S
        PROVE  ~ crosses(side, price, q)
    <3>1. ~ Before(Opposite(side), q, p)
      BY <2>1
    <3>2. p \in Int /\ q \in Int /\ price \in Int
      BY <2>1, PricesAssumption
    <3> QED
      BY <2>3, <3>1, <3>2 DEF Before, crosses, Opposite, Sides
  <2> QED
    BY <1>2, <2>1, <2>2, <2>3
<1> QED
  BY <1>1, <1>2

-----------------------------------------------------------------------------
(* The pieces of an action                                                 *)

\* Outside match_order a level exists exactly when it has orders.
LEMMA LevelsHaveOrders ==
  ASSUME NoEmptyLevels, pc # "maker", NEW side \in Sides, NEW p \in Prices
  PROVE  p \in levels[side] <=> queue[side][p] # <<>>
BY DEF NoEmptyLevels

\* remove_order_from_book leaves a consistent book, without the order.
LEMMA RemoveOrderKeepsBook ==
  ASSUME TypeOK, BookIntegrity, ListsInTimeOrder, pc # "maker",
         NEW id \in OrderIds, book_orders[id] # NoOrder, RemoveOrder(id)
  PROVE  /\ book_orders' \in [OrderIds -> OrderRecords \cup {NoOrder}]
         /\ levels' \in [Sides -> SUBSET Prices]
         /\ queue' \in [Sides -> [Prices -> Seq(OrderIds)]]
         /\ depth' \in [Sides -> [Prices -> [total : Int, visible : Int]]]
         /\ ListsHoldOrders' /\ OrdersAreListed' /\ ListsInTimeOrder'
         /\ \A s \in Sides, x \in Prices : x \in levels'[s] <=> queue'[s][x] # <<>>
         /\ book_orders' = [book_orders EXCEPT ![id] = NoOrder]
         /\ levels'[Opposite(book_orders[id].side)]
               = levels[Opposite(book_orders[id].side)]
<1> DEFINE r == book_orders[id]
           q == queue[r.side][r.price]
<1>1. r \in OrderRecords /\ r.side \in Sides /\ r.price \in Prices
  BY DEF TypeOK, ShardTypeOK, OrderRecords
<1>2. PICK i \in At(q, id) :
        /\ queue' = [queue EXCEPT ![r.side][r.price] = RemoveAt(q, i)]
        /\ levels' = [levels EXCEPT ![r.side] =
                         IF RemoveAt(q, i) = <<>> THEN @ \ {r.price} ELSE @]
        /\ depth' = [depth EXCEPT ![r.side][r.price] =
                         IF RemoveAt(q, i) = <<>> THEN NoDepth ELSE TakeFrom(@, r)]
        /\ book_orders' = [book_orders EXCEPT ![id] = NoOrder]
  BY DEF RemoveOrder, empty
<1>3. /\ book_orders' \in [OrderIds -> OrderRecords \cup {NoOrder}]
      /\ queue' \in [Sides -> [Prices -> Seq(OrderIds)]]
      /\ ListsHoldOrders' /\ OrdersAreListed' /\ ListsInTimeOrder'
  BY <1>1, <1>2, UnlinkKeepsLists DEF BookIntegrity
<1>4. /\ levels' \in [Sides -> SUBSET Prices]
      /\ levels'[Opposite(r.side)] = levels[Opposite(r.side)]
  <2>1. Opposite(r.side) # r.side /\ Opposite(r.side) \in Sides
    BY <1>1 DEF Opposite, Sides
  <2> QED
    BY <1>1, <1>2, <2>1 DEF TypeOK, ShardTypeOK
<1>5. depth' \in [Sides -> [Prices -> [total : Int, visible : Int]]]
  <2>1. \A d \in [total : Int, visible : Int] :
           TakeFrom(d, r) \in [total : Int, visible : Int]
    BY <1>1 DEF TakeFrom, OrderRecords
  <2>2. NoDepth \in [total : Int, visible : Int]
    BY DEF NoDepth
  <2> HIDE DEF r, q
  <2> QED
    BY <1>1, <1>2, <2>1, <2>2 DEF TypeOK, ShardTypeOK
<1>6. ASSUME NEW s \in Sides, NEW x \in Prices
      PROVE  x \in levels'[s] <=> queue'[s][x] # <<>>
  <2>1. x \in levels[s] <=> queue[s][x] # <<>>
    BY LevelsHaveOrders DEF BookIntegrity
  <2>2. CASE s = r.side /\ x = r.price
    <3>1. queue[s][x] # <<>>
      BY <2>2, <1>2 DEF At
    <3> QED
      BY <1>1, <1>2, <2>1, <2>2, <3>1 DEF TypeOK, ShardTypeOK
  <2>3. CASE s # r.side \/ x # r.price
    BY <1>1, <1>2, <2>1, <2>3 DEF TypeOK, ShardTypeOK
  <2> QED
    BY <2>2, <2>3
<1> QED
  BY <1>2, <1>3, <1>4, <1>5, <1>6

\* The record that place_order builds.
LEMMA TakerRecordType ==
  ASSUME ShardTypeOK, NEW req \in OrderRequests
  PROVE  /\ TakerRecord(req) \in OrderRecords
         /\ TakerRecord(req) # NoOrder
         /\ TakerRecord(req).side = req.side
         /\ TakerRecord(req).fifo_seq = next_sequence
<1>1. /\ req.id \in OrderIds /\ req.side \in Sides /\ req.price \in Prices
      /\ req.quantity \in Int /\ req.display_quantity \in Int
      /\ req.tif \in TimesInForce /\ req.flags \in SUBSET Flags
  <2>1. req \in [id : OrderIds, side : Sides, price : Prices,
                 quantity : Quantities, display_quantity : Displays \cup {0},
                 tif : TimesInForce, flags : FlagSets]
    BY DEF OrderRequests
  <2>2. /\ req.id \in OrderIds /\ req.side \in Sides /\ req.price \in Prices
        /\ req.quantity \in Quantities /\ req.display_quantity \in Displays \cup {0}
        /\ req.tif \in TimesInForce /\ req.flags \in FlagSets
    BY <2>1
  <2>3. req.quantity \in Int /\ req.display_quantity \in Int
    <3>1. req.quantity \in Int
      BY <2>2, QuantitiesAssumption
    <3>2. req.display_quantity \in Displays \/ req.display_quantity = 0
      BY <2>2
    <3>3. req.display_quantity \in Int
      <4>1. CASE req.display_quantity \in Displays
        BY <4>1, QuantitiesAssumption
      <4>2. CASE req.display_quantity = 0
        BY <4>2
      <4> QED
        BY <3>2, <4>1, <4>2
    <3> QED
      BY <3>1, <3>3
  <2>4. req.flags \in SUBSET Flags
    BY <2>2, FlagsAssumption
  <2> QED
    BY <2>2, <2>3, <2>4
<1>2. TakerRecord(req) \in OrderRecords
  BY <1>1 DEF TakerRecord, OrderRecords, ShardTypeOK, Lesser
<1> QED
  BY <1>2, NullAssumption DEF TakerRecord

\* place_order up to match_order, in a book that is the current one but for
\* orders of the request's own side that have left it.
LEMMA PlaceOrderStarts ==
  ASSUME Inv, pc = "idle", NEW req \in OrderRequests, place_order(req),
         levels'[Opposite(req.side)] = levels[Opposite(req.side)],
         \A o \in OrderIds : book_orders'[o] # NoOrder =>
            book_orders'[o] = book_orders[o]
  PROVE  /\ next_sequence' \in Nat
         /\ CallTypeOK' /\ SequencesIssued' /\ MatchingLoop'
         /\ pc' \in {"ret", "level"}
<1>0. req.side \in Sides /\ req.price \in Prices
  BY DEF OrderRequests
<1>1. CASE pc' = "ret"
  <2>1. /\ UNCHANGED <<next_sequence, taker, it, maker, fills>>
        /\ result' \in Results
    BY <1>1 DEF place_order, Reject, Answer, Results, NoResult, Rejects
  <2> QED
    BY <1>1, <2>1 DEF Inv, TypeOK, ShardTypeOK, CallTypeOK, TimePriority,
       SequencesIssued, MatchingLoop, Executing
<1>2. CASE pc' # "ret"
  <2>1. /\ ~ PostOnlyWouldCross(req)
        /\ taker' = TakerRecord(req)
        /\ next_sequence' = next_sequence + 1
        /\ it' \in Begin(Opposite(req.side))
        /\ pc' = "level"
        /\ UNCHANGED <<maker, fills, result>>
    BY <1>2 DEF place_order, Reject, Answer
  <2>2. /\ taker' \in OrderRecords /\ taker' # NoOrder
        /\ taker'.side = req.side
        /\ taker'.price = req.price
        /\ taker'.flags = req.flags
        /\ taker'.fifo_seq = next_sequence
    BY <2>1, TakerRecordType DEF TakerRecord, Inv, TypeOK
  <2> DEFINE S == levels[Opposite(req.side)]
  <2>3. S \in SUBSET Prices
    BY <1>0 DEF Inv, TypeOK, ShardTypeOK, Opposite, Sides
  <2>4. it' \in First(Opposite(req.side), S)
    BY <2>1 DEF Begin
  <2>5. /\ it' \in Prices \cup {NoPrice}
        /\ it' = NoPrice <=> S = {}
        /\ it' # NoPrice =>
             /\ it' \in S
             /\ ~ crosses(req.side, req.price, it') =>
                   \A q \in S : ~ crosses(req.side, req.price, q)
    BY <1>0, <2>3, <2>4, FirstProperties
  <2>6. CallTypeOK'
    BY <2>1, <2>2, <2>5 DEF CallTypeOK, Executing, Inv, TypeOK
  <2>7. SequencesIssued'
    <3>1. /\ next_sequence \in Nat
          /\ \A o \in OrderIds : book_orders'[o] # NoOrder =>
                /\ book_orders'[o].fifo_seq < next_sequence
                /\ book_orders'[o].fifo_seq \in Nat
      BY DEF Inv, TypeOK, ShardTypeOK, OrderRecords, TimePriority, SequencesIssued
    <3> QED
      BY <2>1, <2>2, <3>1 DEF SequencesIssued
  <2>8. Book' = Opposite(req.side)
    BY <2>2 DEF Book
  <2>9. "post_only" \in req.flags => Crossed' = {}
    <3>1. "post_only" \in req.flags => \A q \in S : ~ crosses(req.side, req.price, q)
      BY <2>1, <2>5 DEF PostOnlyWouldCross
    <3> QED
      BY <2>2, <2>8, <3>1 DEF Crossed
  <2>10. it' \in Begin(Book)'
    BY <2>4, <2>8 DEF Begin
  <2> QED
    BY <2>1, <2>2, <2>6, <2>7, <2>9, <2>10 DEF MatchingLoop, Inv, TypeOK, ShardTypeOK
<1> QED
  BY <1>1, <1>2

-----------------------------------------------------------------------------
(* The calls keep the invariant                                            *)

LEMMA InitInv == Init => Inv
<1> SUFFICES ASSUME Init PROVE Inv
  OBVIOUS
<1>1. TypeOK
  <2>1. NoDepth \in [total : Int, visible : Int] /\ NoResult \in Results
    BY DEF NoDepth, NoResult, Results
  <2>2. ShardTypeOK
    <3>1. known \in BOOLEAN /\ next_sequence \in Nat
      BY DEF Init
    <3>2. levels \in [Sides -> SUBSET Prices]
      BY DEF Init
    <3>3. queue \in [Sides -> [Prices -> Seq(OrderIds)]]
      BY EmptySeq DEF Init
    <3> QED
      BY <2>1, <3>1, <3>2, <3>3 DEF Init, ShardTypeOK
  <2>3. CallTypeOK
    BY <2>1 DEF Init, CallTypeOK, Executing
  <2> QED
    BY <2>2, <2>3 DEF TypeOK
<1>2. BookIntegrity /\ BookNotCrossed
  BY DEF Init, BookIntegrity, ListsHoldOrders, OrdersAreListed, NoEmptyLevels,
     BookNotCrossed
<1>3. TimePriority /\ MatchingLoop
  BY DEF Init, TimePriority, ListsInTimeOrder, SequencesIssued, MatchingLoop,
     Executing
<1> QED
  BY <1>1, <1>2, <1>3 DEF Inv

LEMMA MarketCallsKeepInv ==
  ASSUME Inv, AddMarket \/ ClearMarket
  PROVE  Inv'
<1>1. CASE AddMarket
  <2>1. TypeOK'
    BY <1>1 DEF AddMarket, Inv, TypeOK, ShardTypeOK, CallTypeOK, Executing, shard, locals
  <2>2. BookIntegrity'
    BY <1>1 DEF AddMarket, Inv, BookIntegrity, ListsHoldOrders, OrdersAreListed,
       NoEmptyLevels, At, Book, shard, locals
  <2>3. TimePriority' /\ BookNotCrossed'
    BY <1>1 DEF AddMarket, Inv, TimePriority, ListsInTimeOrder, SequencesIssued,
       BookNotCrossed, Executing, shard, locals
  <2>4. MatchingLoop'
    BY <1>1 DEF AddMarket, MatchingLoop, Executing
  <2> QED
    BY <2>1, <2>2, <2>3, <2>4 DEF Inv
<1>2. CASE ClearMarket
  <2>1. TypeOK'
    BY <1>2 DEF ClearMarket, Inv, TypeOK, ShardTypeOK, CallTypeOK, Executing,
       NoDepth, locals
  <2>2. BookIntegrity' /\ BookNotCrossed'
    BY <1>2 DEF ClearMarket, BookIntegrity, ListsHoldOrders, OrdersAreListed,
       NoEmptyLevels, BookNotCrossed
  <2>3. TimePriority' /\ MatchingLoop'
    BY <1>2 DEF ClearMarket, TimePriority, ListsInTimeOrder, SequencesIssued,
       MatchingLoop, Executing
  <2> QED
    BY <2>1, <2>2, <2>3 DEF Inv
<1> QED
  BY <1>1, <1>2

\* When the lists, levels and orders stay as they are, so does the integrity of
\* the book, as long as match_order is not left or entered.
LEMMA SameBook ==
  ASSUME Inv, UNCHANGED <<book_orders, levels, queue>>,
         pc # "maker"
  PROVE  BookIntegrity' /\ BookNotCrossed' /\ ListsInTimeOrder'
<1>1. ListsHoldOrders' /\ OrdersAreListed' /\ ListsInTimeOrder' /\ BookNotCrossed'
  BY DEF Inv, BookIntegrity, ListsHoldOrders, OrdersAreListed, At, TimePriority,
     ListsInTimeOrder, BookNotCrossed
<1>2. NoEmptyLevels'
  BY DEF Inv, BookIntegrity, NoEmptyLevels
<1> QED
  BY <1>1, <1>2 DEF BookIntegrity

\* A call that is answered at once runs no order.
LEMMA AnswerKeepsLocals ==
  ASSUME Inv, pc = "idle", NEW res \in Results, Answer(res),
         next_sequence' = next_sequence,
         \A o \in OrderIds : book_orders'[o] # NoOrder =>
            book_orders'[o] = book_orders[o]
  PROVE  CallTypeOK' /\ SequencesIssued' /\ MatchingLoop' /\ pc' = "ret"
BY DEF Answer, Inv, TypeOK, CallTypeOK, TimePriority, SequencesIssued,
   MatchingLoop, Executing

LEMMA RejectIsAnswer ==
  ASSUME NEW code \in Rejects
  PROVE  [NoResult EXCEPT !.reject_code = code] \in Results
BY DEF NoResult, Results

LEMMA SubmitKeepsInv ==
  ASSUME Inv, NEW req \in OrderRequests, Submit(req)
  PROVE  Inv'
<1>1. /\ pc = "idle"
      /\ UNCHANGED <<book_orders, levels, queue, depth>>
  BY DEF Submit
<1>2. BookIntegrity' /\ BookNotCrossed' /\ ListsInTimeOrder'
  BY <1>1, SameBook
<1>3. known' \in BOOLEAN
  BY DEF Submit, Inv, TypeOK, ShardTypeOK
<1>4. /\ next_sequence' \in Nat
      /\ CallTypeOK' /\ SequencesIssued' /\ MatchingLoop'
  <2>1. CASE place_order(req)
    BY <1>1, <2>1, PlaceOrderStarts
  <2>2. CASE ~ place_order(req)
    <3>1. /\ next_sequence' = next_sequence
          /\ \E code \in Rejects : Reject(code)
      BY <2>2 DEF Submit, Rejects
    <3>2. PICK code \in Rejects : Reject(code)
      BY <3>1
    <3>3. Answer([NoResult EXCEPT !.reject_code = code])
      BY <3>2 DEF Reject
    <3> QED
      BY <1>1, <3>1, <3>3, RejectIsAnswer, AnswerKeepsLocals
         DEF Inv, TypeOK, ShardTypeOK
  <2> QED
    BY <2>1, <2>2
<1>5. ShardTypeOK'
  BY <1>1, <1>3, <1>4 DEF Inv, TypeOK, ShardTypeOK
<1> QED
  BY <1>2, <1>4, <1>5 DEF Inv, TypeOK, TimePriority

\* Fewer orders cross no more than before.
LEMMA FewerOrdersDoNotCross ==
  ASSUME BookNotCrossed,
         \A o \in OrderIds : book_orders'[o] # NoOrder =>
            /\ book_orders[o] # NoOrder
            /\ book_orders'[o].side = book_orders[o].side
            /\ book_orders'[o].price = book_orders[o].price
  PROVE  BookNotCrossed'
BY DEF BookNotCrossed

\* A call that removed an order and then did what place_order or Answer do.
LEMMA RemovalKeepsInv ==
  ASSUME Inv, pc = "idle", UNCHANGED known,
         NEW id \in OrderIds, book_orders[id] # NoOrder, RemoveOrder(id),
         next_sequence' \in Nat, CallTypeOK', SequencesIssued', MatchingLoop'
  PROVE  Inv'
<1>1. /\ book_orders' \in [OrderIds -> OrderRecords \cup {NoOrder}]
      /\ levels' \in [Sides -> SUBSET Prices]
      /\ queue' \in [Sides -> [Prices -> Seq(OrderIds)]]
      /\ depth' \in [Sides -> [Prices -> [total : Int, visible : Int]]]
      /\ ListsHoldOrders' /\ OrdersAreListed' /\ ListsInTimeOrder'
      /\ \A s \in Sides, x \in Prices : x \in levels'[s] <=> queue'[s][x] # <<>>
      /\ book_orders' = [book_orders EXCEPT ![id] = NoOrder]
  BY RemoveOrderKeepsBook DEF Inv, TimePriority
<1>2. NoEmptyLevels'
  BY <1>1 DEF NoEmptyLevels
<1>3. ShardTypeOK'
  BY <1>1 DEF ShardTypeOK, Inv, TypeOK
<1>4. BookNotCrossed'
  <2>1. \A o \in OrderIds : book_orders'[o] # NoOrder =>
            book_orders[o] # NoOrder /\ book_orders'[o] = book_orders[o]
    BY <1>1 DEF Inv, TypeOK, ShardTypeOK
  <2> QED
    BY <2>1, FewerOrdersDoNotCross DEF Inv
<1> QED
  BY <1>1, <1>2, <1>3, <1>4 DEF Inv, TypeOK, BookIntegrity, TimePriority

\* What removing an order leaves of the others and of the other side.
LEMMA RemovalLeaves ==
  ASSUME Inv, pc = "idle", NEW id \in OrderIds, book_orders[id] # NoOrder,
         RemoveOrder(id)
  PROVE  /\ \A o \in OrderIds : book_orders'[o] # NoOrder =>
               book_orders'[o] = book_orders[o]
         /\ levels'[Opposite(book_orders[id].side)]
               = levels[Opposite(book_orders[id].side)]
<1>1. /\ book_orders' = [book_orders EXCEPT ![id] = NoOrder]
      /\ levels'[Opposite(book_orders[id].side)]
               = levels[Opposite(book_orders[id].side)]
  BY RemoveOrderKeepsBook DEF Inv, TimePriority
<1> QED
  BY <1>1 DEF Inv, TypeOK, ShardTypeOK

\* A refused cancel or replace.
LEMMA NotFoundKeepsInv ==
  ASSUME Inv, pc = "idle", Reject(NotFound), UNCHANGED <<known, shard>>
  PROVE  Inv'
<1>1. NotFound \in Rejects
  BY DEF NotFound, Rejects
<1>2. CallTypeOK' /\ SequencesIssued' /\ MatchingLoop'
  BY <1>1, RejectIsAnswer, AnswerKeepsLocals DEF Reject, shard
<1>3. BookIntegrity' /\ BookNotCrossed' /\ ListsInTimeOrder'
  BY SameBook DEF shard
<1>4. ShardTypeOK'
  BY DEF Inv, TypeOK, ShardTypeOK, shard
<1> QED
  BY <1>2, <1>3, <1>4 DEF Inv, TypeOK, TimePriority

LEMMA CancelKeepsInv ==
  ASSUME Inv, NEW id \in OrderIds, Cancel(id)
  PROVE  Inv'
<1>1. CASE book_orders[id] = NoOrder
  BY <1>1, NotFoundKeepsInv DEF Cancel
<1>2. CASE book_orders[id] # NoOrder
  <2>1. /\ pc = "idle" /\ RemoveOrder(id) /\ UNCHANGED known
        /\ Answer([NoResult EXCEPT !.accepted = TRUE])
        /\ next_sequence' = next_sequence
    BY <1>2 DEF Cancel
  <2>2. [NoResult EXCEPT !.accepted = TRUE] \in Results
    BY DEF NoResult, Results
  <2>3. CallTypeOK' /\ SequencesIssued' /\ MatchingLoop'
    BY <1>2, <2>1, <2>2, RemovalLeaves, AnswerKeepsLocals
  <2> QED
    BY <1>2, <2>1, <2>3, RemovalKeepsInv DEF Inv, TypeOK, ShardTypeOK
<1> QED
  BY <1>1, <1>2

LEMMA ReplaceKeepsInv ==
  ASSUME Inv, NEW req \in OrderRequests, Replace(req)
  PROVE  Inv'
<1>0. req.id \in OrderIds
  BY DEF OrderRequests
<1>1. CASE book_orders[req.id] = NoOrder
  BY <1>1, NotFoundKeepsInv DEF Replace
<1>2. CASE book_orders[req.id] # NoOrder
  <2>1. /\ pc = "idle" /\ RemoveOrder(req.id) /\ UNCHANGED known
        /\ req.side = book_orders[req.id].side
        /\ place_order(req)
    BY <1>2 DEF Replace
  <2>2. /\ next_sequence' \in Nat
        /\ CallTypeOK' /\ SequencesIssued' /\ MatchingLoop'
    BY <1>0, <1>2, <2>1, RemovalLeaves, PlaceOrderStarts
  <2> QED
    BY <1>0, <1>2, <2>1, <2>2, RemovalKeepsInv
<1> QED
  BY <1>1, <1>2

-----------------------------------------------------------------------------
(* The steps of match_order keep the invariant                             *)

\* What holds while an order executes.
LEMMA ExecutingFacts ==
  ASSUME Inv, Executing
  PROVE  /\ taker \in OrderRecords
         /\ taker.id \in OrderIds /\ taker.side \in Sides /\ taker.price \in Prices
         /\ taker.remaining \in Int /\ taker.fifo_seq \in Nat
         /\ Book \in Sides /\ Book # taker.side
         /\ levels[Book] \in SUBSET Prices
<1>1. taker \in OrderRecords
  BY DEF Inv, TypeOK, CallTypeOK
<1>2. /\ taker.id \in OrderIds /\ taker.side \in Sides /\ taker.price \in Prices
      /\ taker.remaining \in Int /\ taker.fifo_seq \in Nat
  BY <1>1 DEF OrderRecords
<1>3. Book \in Sides /\ Book # taker.side
  BY <1>2 DEF Book, Opposite, Sides
<1> QED
  BY <1>1, <1>2, <1>3 DEF Inv, TypeOK, ShardTypeOK

LEMMA EnterLevelKeepsInv ==
  ASSUME Inv, EnterLevel
  PROVE  Inv'
<1>1. /\ pc = "level" /\ pc' = "maker" /\ AtLevel
      /\ UNCHANGED <<known, book_orders, levels, queue, depth, next_sequence,
                     taker, it, fills, result>>
      /\ maker' = IF queue[Book][it] = <<>> THEN NoId ELSE Head(queue[Book][it])
  BY DEF EnterLevel, shard
<1>2. /\ Executing /\ Executing' /\ Book' = Book /\ it # NoPrice /\ it \in Prices
      /\ taker.remaining > 0
      /\ crosses(taker.side, taker.price, it)
  BY <1>1 DEF Executing, Book, AtLevel, Inv, TypeOK, CallTypeOK
<1>3. it \in levels[Book] /\ it \in Begin(Book)
  <2>1. it \in Begin(Book)
    BY <1>1, <1>2 DEF Inv, MatchingLoop
  <2> QED
    BY <1>2, <2>1, ExecutingFacts DEF Begin, First
<1>4. /\ queue[Book][it] \in Seq(OrderIds)
      /\ maker' = IF queue[Book][it] = <<>> THEN NoId ELSE queue[Book][it][1]
      /\ maker' \in OrderIds \cup {NoId}
  <2>1. queue[Book][it] \in Seq(OrderIds)
    BY <1>2, ExecutingFacts DEF Inv, TypeOK, ShardTypeOK
  <2> QED
    BY <1>1, <2>1, HeadTailProperties, ElementOfSeq
<1>5. TypeOK'
  BY <1>1, <1>2, <1>4 DEF Inv, TypeOK, ShardTypeOK, CallTypeOK, Executing
<1>6. BookIntegrity' /\ BookNotCrossed' /\ ListsInTimeOrder'
  BY <1>1, SameBook
<1>7. SequencesIssued'
  BY <1>1, <1>2 DEF Inv, TimePriority, SequencesIssued
<1>8. MatchingLoop'
  <2>1. Crossed' = Crossed /\ Begin(Book)' = Begin(Book)
    BY <1>1, <1>2 DEF Crossed, Begin
  <2>2. it \in Crossed
    BY <1>2, <1>3 DEF Crossed
  <2> QED
    BY <1>1, <1>2, <1>3, <1>4, <2>1, <2>2 DEF Inv, MatchingLoop
<1> QED
  BY <1>5, <1>6, <1>7, <1>8 DEF Inv, TimePriority

LEMMA StopMatchingKeepsInv ==
  ASSUME Inv, StopMatching
  PROVE  Inv'
<1>1. /\ pc = "level" /\ pc' = "rest" /\ ~ AtLevel
      /\ UNCHANGED <<known, book_orders, levels, queue, depth, next_sequence,
                     taker, it, maker, fills, result>>
  BY DEF StopMatching, shard, locals
<1>2. Executing /\ Executing' /\ Book' = Book /\ Crossed' = Crossed
  BY <1>1 DEF Executing, Book, Crossed
<1>3. TypeOK'
  BY <1>1, <1>2 DEF Inv, TypeOK, ShardTypeOK, CallTypeOK
<1>4. BookIntegrity' /\ BookNotCrossed' /\ ListsInTimeOrder'
  BY <1>1, SameBook
<1>5. SequencesIssued'
  BY <1>1, <1>2 DEF Inv, TimePriority, SequencesIssued
<1>6. taker.remaining > 0 => Crossed = {}
  <2> SUFFICES ASSUME taker.remaining > 0 PROVE Crossed = {}
    OBVIOUS
  <2>1. it \in First(Opposite(taker.side), levels[Book])
    BY <1>1 DEF Inv, MatchingLoop, Begin, Book
  <2>2. it = NoPrice \/ ~ crosses(taker.side, taker.price, it)
    BY <1>1 DEF AtLevel
  <2>3. \A q \in levels[Book] : ~ crosses(taker.side, taker.price, q)
    BY <1>2, <2>1, <2>2, ExecutingFacts, FirstProperties
  <2> QED
    BY <2>3 DEF Crossed
<1>7. MatchingLoop'
  BY <1>1, <1>2, <1>6 DEF Inv, MatchingLoop
<1> QED
  BY <1>3, <1>4, <1>5, <1>7 DEF Inv, TimePriority

\* The level that match_order leaves is erased when it has no orders left; the
\* iterator is then at the best level again.
LEMMA LeaveLevelKeepsInv ==
  ASSUME Inv, LeaveLevel
  PROVE  Inv'
<1>1. /\ pc = "maker" /\ pc' = "level"
      /\ maker = NoId \/ taker.remaining <= 0
      /\ it' \in Successor(Book, it, levels[Book])
      /\ UNCHANGED <<known, book_orders, queue, next_sequence, taker, maker,
                     fills, result>>
  BY DEF LeaveLevel, empty
<1>2. /\ Executing /\ Executing' /\ Book' = Book /\ it \in Prices
      /\ it \in Crossed /\ it \in levels[Book] /\ it \in Begin(Book)
  BY <1>1, NullAssumption DEF Executing, Book, Inv, TypeOK, CallTypeOK, MatchingLoop, Crossed
<1>3. /\ levels' = [levels EXCEPT ![Book] =
                       IF queue[Book][it] = <<>> THEN @ \ {it} ELSE @]
      /\ levels' \in [Sides -> SUBSET Prices]
      /\ levels'[Book] \subseteq levels[Book]
  <2>0. /\ Book \in Sides
        /\ levels \in [Sides -> SUBSET Prices]
    BY <1>2, ExecutingFacts DEF Inv, TypeOK, ShardTypeOK
  <2>1. CASE queue[Book][it] = <<>>
    <3>1. levels' = [levels EXCEPT ![Book] = @ \ {it}]
      BY <2>1 DEF LeaveLevel, empty
    <3> QED
      BY <2>0, <2>1, <3>1
  <2>2. CASE queue[Book][it] # <<>>
    <3>1. levels' = levels
      BY <2>2 DEF LeaveLevel, empty
    <3> QED
      BY <2>0, <2>2, <3>1
  <2> QED
    BY <2>1, <2>2
<1>4. depth' \in [Sides -> [Prices -> [total : Int, visible : Int]]]
  <2>1. NoDepth \in [total : Int, visible : Int]
    BY DEF NoDepth
  <2>2. /\ Book \in Sides
        /\ depth \in [Sides -> [Prices -> [total : Int, visible : Int]]]
        /\ depth' = depth \/ depth' = [depth EXCEPT ![Book][it] = NoDepth]
    BY <1>2, ExecutingFacts DEF LeaveLevel, empty, Inv, TypeOK, ShardTypeOK
  <2> DEFINE D == [total : Int, visible : Int]
             d == NoDepth
  <2> HIDE DEF D, d
  <2>3. CASE depth' = [depth EXCEPT ![Book][it] = d]
    <3>1. d \in D /\ depth \in [Sides -> [Prices -> D]]
      BY <2>1, <2>2 DEF D, d
    <3>2. depth' \in [Sides -> [Prices -> D]]
      BY <1>2, <2>2, <2>3, <3>1
    <3> QED
      BY <3>2 DEF D
  <2> QED
    BY <2>2, <2>3 DEF d
<1> DEFINE After == {q \in levels[Book] : Before(Book, it, q)}
<1>5. it' \in First(Opposite(taker.side), After)
  BY <1>1 DEF Successor, Book
<1>6. it' \in Prices \cup {NoPrice}
  BY <1>2, <1>5, ExecutingFacts, FirstProperties
<1>7. TypeOK'
  BY <1>1, <1>2, <1>3, <1>4, <1>6 DEF Inv, TypeOK, ShardTypeOK, CallTypeOK, Executing
<1>8. ListsHoldOrders' /\ OrdersAreListed' /\ ListsInTimeOrder' /\ BookNotCrossed'
  BY <1>1 DEF Inv, BookIntegrity, ListsHoldOrders, OrdersAreListed, At,
     TimePriority, ListsInTimeOrder, BookNotCrossed
<1>9. NoEmptyLevels'
  <2> SUFFICES ASSUME NEW side \in Sides, NEW p \in Prices
               PROVE  /\ queue'[side][p] # <<>> => p \in levels'[side]
                      /\ p \in levels'[side] => queue'[side][p] # <<>>
    BY DEF NoEmptyLevels
  <2>1. /\ queue[side][p] # <<>> => p \in levels[side]
        /\ p \in levels[side] /\ queue[side][p] = <<>> => side = Book /\ p = it
    BY DEF Inv, BookIntegrity, NoEmptyLevels
  <2> QED
    BY <1>1, <1>2, <1>3, <2>1 DEF Inv, TypeOK, ShardTypeOK
<1>10. SequencesIssued'
  BY <1>1, <1>2 DEF Inv, TimePriority, SequencesIssued
<1>11. taker.remaining > 0 => levels'[Book] = After
  <2> SUFFICES ASSUME taker.remaining > 0 PROVE levels'[Book] = After
    OBVIOUS
  <2>1. maker = NoId
    BY <1>1, <1>2, ExecutingFacts
  <2>2. queue[Book][it] = <<>>
    <3> SUFFICES ASSUME queue[Book][it] # <<>> PROVE FALSE
      OBVIOUS
    <3>1. queue[Book][it] \in Seq(OrderIds)
      BY <1>2, ExecutingFacts DEF Inv, TypeOK, ShardTypeOK
    <3>2. queue[Book][it][1] \in OrderIds
      BY <3>1, EmptySeq, LenProperties, ElementOfSeq
    <3>3. maker = queue[Book][it][1]
      BY <1>1 DEF Inv, MatchingLoop
    <3> QED
      BY <2>1, <3>2, <3>3, NullAssumption
  <2>3. levels'[Book] = levels[Book] \ {it}
    BY <1>2, <1>3, <2>2, ExecutingFacts DEF Inv, TypeOK, ShardTypeOK
  <2>4. \A q \in levels[Book] : ~ Before(Book, q, it)
    BY <1>2 DEF Begin, First
  <2>5. \A q \in levels[Book] : q \in Int
    BY <1>2, ExecutingFacts, PricesAssumption
  <2> QED
    BY <1>2, <2>3, <2>4, <2>5, PricesAssumption, ExecutingFacts DEF Before, Sides
<1>12. MatchingLoop'
  <2>1. taker.remaining > 0 => it' \in Begin(Book)'
    BY <1>2, <1>5, <1>11 DEF Begin, Book
  <2>2. Crossed = {} => Crossed' = {}
    BY <1>1, <1>2, <1>3 DEF Crossed
  <2> QED
    BY <1>1, <1>2, <2>1, <2>2 DEF Inv, MatchingLoop
<1> QED
  BY <1>7, <1>8, <1>9, <1>10, <1>12 DEF Inv, BookIntegrity, TimePriority

LEMMA RefreshDisplayType ==
  ASSUME NEW r \in OrderRecords
  PROVE  /\ refresh_display(r) \in OrderRecords
         /\ refresh_display(r).id = r.id
         /\ refresh_display(r).side = r.side
         /\ refresh_display(r).price = r.price
         /\ refresh_display(r).remaining = r.remaining
         /\ refresh_display(r).fifo_seq = r.fifo_seq
BY DEF refresh_display, OrderRecords, Lesser

\* One fill: the maker is the first order of the best level, both orders shrink
\* by the same positive quantity, and one of them has nothing left.
LEMMA FillFacts ==
  ASSUME Inv, Fill
  PROVE  /\ Executing /\ Book \in Sides /\ it \in Prices /\ maker \in OrderIds
         /\ queue[Book][it] \in Seq(OrderIds)
         /\ Len(queue[Book][it]) \in Nat \ {0}
         /\ maker = queue[Book][it][1]
         /\ At(queue[Book][it], maker) = {1}
         /\ book_orders[maker] \in OrderRecords
         /\ book_orders[maker] # NoOrder
         /\ book_orders[maker].side = Book
         /\ book_orders[maker].price = it
         /\ book_orders[maker].remaining > 0
         /\ taker.remaining > 0
<1>1. Executing /\ pc = "maker" /\ maker # NoId /\ taker.remaining > 0
  BY DEF Fill, Executing
<1>2. /\ Book \in Sides /\ it \in Prices /\ maker \in OrderIds
      /\ queue[Book][it] \in Seq(OrderIds)
  BY <1>1, ExecutingFacts DEF Inv, TypeOK, ShardTypeOK, CallTypeOK
<1>3. /\ queue[Book][it] # <<>>
      /\ maker = queue[Book][it][1]
  BY <1>1 DEF Inv, MatchingLoop
<1>4. Len(queue[Book][it]) \in Nat \ {0}
  BY <1>2, <1>3, EmptySeq, LenProperties
<1>5. /\ book_orders[maker] # NoOrder
      /\ book_orders[maker].side = Book
      /\ book_orders[maker].price = it
      /\ book_orders[maker].remaining > 0
      /\ \A j \in 1 .. Len(queue[Book][it]) : queue[Book][it][j] = maker => j = 1
  BY <1>2, <1>3, <1>4 DEF Inv, BookIntegrity, ListsHoldOrders
<1>6. At(queue[Book][it], maker) = {1}
  BY <1>3, <1>4, <1>5 DEF At
<1>7. book_orders[maker] \in OrderRecords
  BY <1>2, <1>5 DEF Inv, TypeOK, ShardTypeOK
<1> QED
  BY <1>1, <1>2, <1>3, <1>4, <1>5, <1>6, <1>7

\* The quantity of a fill.
Traded == Lesser(taker.remaining, book_orders[maker].remaining)

\* The maker's record after a fill.
Shrunk == refresh_display([book_orders[maker] EXCEPT !.remaining = @ - Traded])

LEMMA FillEffect ==
  ASSUME Inv, Fill
  PROVE  /\ Traded \in Int /\ Traded > 0
         /\ Traded <= taker.remaining /\ Traded <= book_orders[maker].remaining
         /\ Traded = taker.remaining \/ Traded = book_orders[maker].remaining
         /\ Shrunk \in OrderRecords /\ Shrunk # NoOrder
         /\ Shrunk.id = maker
         /\ Shrunk.side = Book /\ Shrunk.price = it
         /\ Shrunk.fifo_seq = book_orders[maker].fifo_seq
         /\ Shrunk.remaining = book_orders[maker].remaining - Traded
         /\ taker' = [taker EXCEPT !.remaining = @ - Traded]
         /\ maker' = NextInList(queue[Book][it], 1)
         /\ fills' = Append(fills, [maker |-> maker, taker |-> taker.id,
                                    quantity |-> Traded, price |-> it])
         /\ \/ /\ Shrunk.remaining = 0
               /\ queue' = [queue EXCEPT ![Book][it] = RemoveAt(queue[Book][it], 1)]
               /\ book_orders' = [book_orders EXCEPT ![maker] = NoOrder]
            \/ /\ Shrunk.remaining # 0
               /\ queue' = queue
               /\ book_orders' = [book_orders EXCEPT ![maker] = Shrunk]
         /\ depth' \in [Sides -> [Prices -> [total : Int, visible : Int]]]
         /\ UNCHANGED <<known, levels, next_sequence, pc, it, result>>
<1> DEFINE old == book_orders[maker]
           cut == [old EXCEPT !.remaining = @ - Traded]
<1>1. old \in OrderRecords /\ old.remaining \in Int /\ taker.remaining \in Int
  BY FillFacts, ExecutingFacts DEF OrderRecords
<1>2. /\ Traded \in Int /\ Traded > 0
      /\ Traded <= taker.remaining /\ Traded <= old.remaining
      /\ Traded = taker.remaining \/ Traded = old.remaining
  BY <1>1, FillFacts DEF Traded, Lesser
<1>3. /\ cut \in OrderRecords
      /\ cut.id = old.id /\ cut.side = old.side /\ cut.price = old.price
      /\ cut.fifo_seq = old.fifo_seq
      /\ cut.remaining = old.remaining - Traded
  BY <1>1, <1>2 DEF OrderRecords
<1>4. old.id = maker
  BY FillFacts DEF Inv, BookIntegrity, ListsHoldOrders
<1>5. /\ Shrunk \in OrderRecords /\ Shrunk # NoOrder
      /\ Shrunk.id = maker
      /\ Shrunk.side = Book /\ Shrunk.price = it
      /\ Shrunk.fifo_seq = old.fifo_seq
      /\ Shrunk.remaining = old.remaining - Traded
  <2> HIDE DEF cut
  <2>1. Shrunk = refresh_display(cut)
    BY DEF Shrunk, cut
  <2> QED
    BY <1>3, <1>4, <2>1, FillFacts, RefreshDisplayType, NullAssumption
<1> DEFINE D == [total : Int, visible : Int]
           e == update_after_fill(depth[Book][it], old, Shrunk)
           f == TakeFrom(e, Shrunk)
<1>6. /\ taker' = [taker EXCEPT !.remaining = @ - Traded]
      /\ maker' = NextInList(queue[Book][it], 1)
      /\ fills' = Append(fills, [maker |-> maker, taker |-> taker.id,
                                 quantity |-> Traded, price |-> it])
      /\ \/ /\ Shrunk.remaining = 0
            /\ queue' = [queue EXCEPT ![Book][it] = RemoveAt(queue[Book][it], 1)]
            /\ depth' = [depth EXCEPT ![Book][it] = f]
            /\ book_orders' = [book_orders EXCEPT ![maker] = NoOrder]
         \/ /\ Shrunk.remaining # 0
            /\ depth' = [depth EXCEPT ![Book][it] = e]
            /\ book_orders' = [book_orders EXCEPT ![maker] = Shrunk]
            /\ queue' = queue
      /\ UNCHANGED <<known, levels, next_sequence, pc, it, result>>
  BY FillFacts DEF Fill, Shrunk, Traded
<1>7. e \in D /\ f \in D
  <2>1. depth[Book][it] \in D
    BY FillFacts DEF Inv, TypeOK, ShardTypeOK
  <2>2. /\ old.remaining \in Int /\ old.display_remaining \in Int
        /\ Shrunk.remaining \in Int /\ Shrunk.display_remaining \in Int
    BY <1>1, <1>5 DEF OrderRecords
  <2> HIDE DEF old
  <2>3. e \in D
    BY <2>1, <2>2 DEF update_after_fill
  <2> HIDE DEF e
  <2>4. f \in D
    BY <2>2, <2>3 DEF TakeFrom
  <2> QED
    BY <2>3, <2>4
<1> HIDE DEF D, e, f
<1>8. depth' \in [Sides -> [Prices -> D]]
  <2>1. depth \in [Sides -> [Prices -> D]]
    BY DEF D, Inv, TypeOK, ShardTypeOK
  <2>2. ASSUME NEW d \in D, depth' = [depth EXCEPT ![Book][it] = d]
        PROVE  depth' \in [Sides -> [Prices -> D]]
    BY <2>1, <2>2, FillFacts
  <2> QED
    BY <1>6, <1>7, <2>2
<1> QED
  BY <1>2, <1>5, <1>6, <1>8 DEF D

LEMMA FillKeepsInv ==
  ASSUME Inv, Fill
  PROVE  Inv'
<1> DEFINE q == queue[Book][it]
<1>1. /\ UNCHANGED <<known, levels, next_sequence, pc, it, result>>
      /\ pc = "maker"
      /\ taker' = [taker EXCEPT !.remaining = @ - Traded]
  BY FillEffect DEF Fill
<1>2. /\ taker' \in OrderRecords
      /\ taker'.side = taker.side /\ taker'.price = taker.price
      /\ taker'.fifo_seq = taker.fifo_seq /\ taker'.flags = taker.flags
      /\ taker'.remaining = taker.remaining - Traded
      /\ Book' = Book /\ Executing' /\ Crossed' = Crossed
  <2>1. taker \in OrderRecords
    BY FillFacts, ExecutingFacts
  <2>2. /\ taker' \in OrderRecords
        /\ taker'.side = taker.side /\ taker'.price = taker.price
        /\ taker'.fifo_seq = taker.fifo_seq /\ taker'.flags = taker.flags
        /\ taker'.remaining = taker.remaining - Traded
    <3>1. Traded \in Int
      BY FillEffect
    <3> QED
      BY <1>1, <2>1, <3>1 DEF OrderRecords
  <2> QED
    BY <1>1, <2>2, FillFacts DEF Book, Executing, Crossed
<1>3. /\ q \in Seq(OrderIds) /\ Len(q) \in Nat \ {0}
      /\ maker' = IF 1 < Len(q) THEN q[2] ELSE NoId
      /\ maker' \in OrderIds \cup {NoId}
  <2>1. maker' = IF 1 < Len(q) THEN q[2] ELSE NoId
    BY FillFacts, FillEffect DEF NextInList
  <2>2. q \in Seq(OrderIds) /\ Len(q) \in Nat \ {0}
    BY FillFacts
  <2>3. 1 < Len(q) => q[2] \in OrderIds
    BY <2>2, ElementOfSeq
  <2> QED
    BY <2>1, <2>2, <2>3
<1>4. fills' \in Seq(FillEvents)
  <2>1. [maker |-> maker, taker |-> taker.id, quantity |-> Traded, price |-> it]
           \in FillEvents
    BY FillFacts, FillEffect, ExecutingFacts DEF FillEvents
  <2>2. fills \in Seq(FillEvents)
    BY DEF Inv, TypeOK, CallTypeOK
  <2> QED
    BY <2>1, <2>2, FillEffect, AppendProperties
<1>5. CallTypeOK'
  <2>1. taker' # NoOrder
    BY <1>2, NullAssumption
  <2> QED
    BY <1>1, <1>2, <1>3, <1>4, <2>1, FillFacts DEF Inv, TypeOK, CallTypeOK
<1>6. /\ book_orders' \in [OrderIds -> OrderRecords \cup {NoOrder}]
      /\ queue' \in [Sides -> [Prices -> Seq(OrderIds)]]
      /\ ListsHoldOrders' /\ OrdersAreListed' /\ ListsInTimeOrder'
      /\ \A o \in OrderIds : book_orders'[o] # NoOrder =>
            /\ book_orders[o] # NoOrder
            /\ book_orders'[o].side = book_orders[o].side
            /\ book_orders'[o].price = book_orders[o].price
            /\ book_orders'[o].fifo_seq = book_orders[o].fifo_seq
      /\ \A s \in Sides, x \in Prices :
            (s # Book \/ x # it) => queue'[s][x] = queue[s][x]
  <2>1. CASE Shrunk.remaining = 0
    <3>1. /\ queue' = [queue EXCEPT ![Book][it] = RemoveAt(queue[Book][it], 1)]
          /\ book_orders' = [book_orders EXCEPT ![maker] = NoOrder]
      BY <2>1, FillEffect
    <3>2. /\ book_orders' \in [OrderIds -> OrderRecords \cup {NoOrder}]
          /\ queue' \in [Sides -> [Prices -> Seq(OrderIds)]]
          /\ ListsHoldOrders' /\ OrdersAreListed' /\ ListsInTimeOrder'
      <4>1. 1 \in At(queue[Book][it], maker)
        BY FillFacts
      <4> QED
        BY <3>1, <4>1, FillFacts, UnlinkKeepsLists
           DEF Inv, BookIntegrity, TimePriority
    <3> QED
      BY <3>1, <3>2, FillFacts DEF Inv, TypeOK, ShardTypeOK
  <2>2. CASE Shrunk.remaining # 0
    <3>1. queue' = queue /\ book_orders' = [book_orders EXCEPT ![maker] = Shrunk]
      BY <2>2, FillEffect
    <3>2. Shrunk.remaining > 0
      BY <2>2, FillFacts, FillEffect DEF OrderRecords
    <3>3. /\ book_orders' \in [OrderIds -> OrderRecords \cup {NoOrder}]
          /\ \A o \in OrderIds : o # maker => book_orders'[o] = book_orders[o]
          /\ book_orders'[maker] = Shrunk
      BY <3>1, FillFacts, FillEffect DEF Inv, TypeOK, ShardTypeOK
    <3>4. \A o \in OrderIds :
            /\ book_orders'[o] # NoOrder <=> book_orders[o] # NoOrder
            /\ book_orders[o] # NoOrder =>
                /\ book_orders'[o].id = book_orders[o].id
                /\ book_orders'[o].side = book_orders[o].side
                /\ book_orders'[o].price = book_orders[o].price
                /\ book_orders'[o].fifo_seq = book_orders[o].fifo_seq
                /\ book_orders[o].remaining > 0 => book_orders'[o].remaining > 0
      <4>1. book_orders[maker].id = maker
        BY FillFacts DEF Inv, BookIntegrity, ListsHoldOrders
      <4> QED
        BY <3>2, <3>3, <4>1, FillFacts, FillEffect
    <3>5. \A s \in Sides, x \in Prices : \A j \in 1 .. Len(queue[s][x]) :
             queue[s][x][j] \in OrderIds
      BY ElementOfSeq DEF Inv, TypeOK, ShardTypeOK
    <3>6. ListsHoldOrders'
      <4> SUFFICES ASSUME NEW s \in Sides, NEW x \in Prices,
                          NEW j \in 1 .. Len(queue[s][x])
                   PROVE  LET o == queue[s][x][j]
                          IN  /\ book_orders'[o] # NoOrder
                              /\ book_orders'[o].id = o
                              /\ book_orders'[o].side = s
                              /\ book_orders'[o].price = x
                              /\ book_orders'[o].remaining > 0
                              /\ \A m \in 1 .. Len(queue[s][x]) :
                                    queue[s][x][m] = o => m = j
        BY <3>1 DEF ListsHoldOrders
      <4> DEFINE o == queue[s][x][j]
      <4>1. /\ book_orders[o] # NoOrder
            /\ book_orders[o].id = o
            /\ book_orders[o].side = s
            /\ book_orders[o].price = x
            /\ book_orders[o].remaining > 0
            /\ \A m \in 1 .. Len(queue[s][x]) : queue[s][x][m] = o => m = j
        BY DEF Inv, BookIntegrity, ListsHoldOrders
      <4>2. o \in OrderIds
        BY <3>5
      <4> HIDE DEF o
      <4> QED
        BY <3>4, <4>1, <4>2 DEF o
    <3>7. OrdersAreListed'
      BY <3>1, <3>4 DEF Inv, BookIntegrity, OrdersAreListed
    <3>8. ListsInTimeOrder'
      <4> SUFFICES ASSUME NEW s \in Sides, NEW x \in Prices,
                          NEW j \in 1 .. Len(queue[s][x]),
                          NEW m \in 1 .. Len(queue[s][x]), j < m
                   PROVE  book_orders'[queue[s][x][j]].fifo_seq
                            < book_orders'[queue[s][x][m]].fifo_seq
        BY <3>1 DEF ListsInTimeOrder
      <4>1. book_orders[queue[s][x][j]].fifo_seq
               < book_orders[queue[s][x][m]].fifo_seq
        BY DEF Inv, TimePriority, ListsInTimeOrder
      <4>2. book_orders[queue[s][x][j]] # NoOrder /\ book_orders[queue[s][x][m]] # NoOrder
        BY DEF Inv, BookIntegrity, ListsHoldOrders
      <4>3. queue[s][x][j] \in OrderIds /\ queue[s][x][m] \in OrderIds
        BY <3>5
      <4> QED
        BY <3>4, <4>1, <4>2, <4>3
    <3> QED
      BY <3>1, <3>3, <3>4, <3>6, <3>7, <3>8 DEF Inv, TypeOK, ShardTypeOK
  <2> QED
    BY <2>1, <2>2
<1>7. ShardTypeOK'
  BY <1>1, <1>6, FillEffect DEF Inv, TypeOK, ShardTypeOK
<1>8. BookNotCrossed'
  BY <1>6, FewerOrdersDoNotCross DEF Inv
<1>9. SequencesIssued'
  BY <1>1, <1>2, <1>6, FillFacts DEF Inv, TimePriority, SequencesIssued
<1>10. NoEmptyLevels'
  <2> SUFFICES ASSUME NEW s \in Sides, NEW x \in Prices
               PROVE  /\ queue'[s][x] # <<>> => x \in levels'[s]
                      /\ x \in levels'[s] /\ queue'[s][x] = <<>> =>
                            pc' = "maker" /\ s = Book' /\ x = it'
    BY DEF NoEmptyLevels
  <2>1. CASE s = Book /\ x = it
    <3>1. it \in levels[Book]
      BY <1>1 DEF Inv, MatchingLoop, Crossed
    <3> QED
      BY <1>1, <1>2, <2>1, <3>1
  <2>2. CASE s # Book \/ x # it
    <3>1. queue'[s][x] = queue[s][x]
      BY <1>6, <2>2
    <3> QED
      BY <1>1, <1>2, <2>2, <3>1 DEF Inv, BookIntegrity, NoEmptyLevels
  <2> QED
    BY <2>1, <2>2
<1>11. taker'.remaining > 0 =>
          maker' = IF queue'[Book][it] = <<>> THEN NoId ELSE queue'[Book][it][1]
  <2> SUFFICES ASSUME taker'.remaining > 0
               PROVE  maker' = IF queue'[Book][it] = <<>> THEN NoId
                               ELSE queue'[Book][it][1]
    OBVIOUS
  <2>1. Shrunk.remaining = 0
    <3>1. /\ Traded \in Int /\ taker.remaining \in Int
          /\ Traded = taker.remaining \/ Traded = book_orders[maker].remaining
          /\ Shrunk.remaining = book_orders[maker].remaining - Traded
      BY FillFacts, FillEffect, ExecutingFacts
    <3>2. taker.remaining - Traded > 0
      BY <1>2
    <3> QED
      BY <3>1, <3>2
  <2>2. queue'[Book][it] = RemoveAt(q, 1)
    BY <2>1, FillFacts, FillEffect DEF Inv, TypeOK, ShardTypeOK
  <2>3. /\ RemoveAt(q, 1) \in Seq(OrderIds)
        /\ Len(RemoveAt(q, 1)) = Len(q) - 1
        /\ \A j \in 1 .. Len(q) - 1 :
              RemoveAt(q, 1)[j] = IF j < 1 THEN q[j] ELSE q[j + 1]
    BY <1>3, RemoveAtProperties
  <2>4. CASE Len(q) = 1
    BY <1>3, <2>2, <2>3, <2>4, EmptySeq
  <2>5. CASE Len(q) > 1
    <3>1. RemoveAt(q, 1)[1] = q[2] /\ RemoveAt(q, 1) # <<>>
      BY <1>3, <2>3, <2>5
    <3> QED
      BY <1>3, <2>2, <2>5, <3>1
  <2>6. Len(q) = 1 \/ Len(q) > 1
    <3> DEFINE n == Len(q)
    <3>1. n \in Nat /\ n # 0
      BY <1>3
    <3> HIDE DEF n
    <3>2. n = 1 \/ n > 1
      BY <3>1
    <3> QED
      BY <3>2 DEF n
  <2> QED
    BY <2>4, <2>5, <2>6
<1>12. MatchingLoop'
  <2>1. Begin(Book)' = Begin(Book)
    BY <1>1, <1>2 DEF Begin
  <2>2. it \in Crossed /\ it \in Begin(Book)
    BY <1>1 DEF Inv, MatchingLoop
  <2>3. "post_only" \in taker'.flags => Crossed' = {}
    BY <1>2, FillFacts DEF Inv, MatchingLoop
  <2> QED
    BY <1>1, <1>2, <1>11, <2>1, <2>2, <2>3 DEF MatchingLoop
<1> QED
  BY <1>5, <1>6, <1>7, <1>8, <1>9, <1>10, <1>12
     DEF Inv, TypeOK, BookIntegrity, TimePriority

\* The last part of place_order: the order is discarded or comes to rest where
\* nothing is left for it to cross.
LEMMA FinishKeepsInv ==
  ASSUME Inv, Finish
  PROVE  Inv'
<1>1. /\ pc = "rest" /\ pc' = "ret" /\ Executing /\ ~ Executing'
      /\ UNCHANGED <<known, taker, it, maker, fills>>
      /\ result' \in Results
      /\ next_sequence' = next_sequence
  BY DEF Finish, Executing, shard, Results, NoResult, Rejects
<1>2. CallTypeOK' /\ MatchingLoop'
  BY <1>1 DEF Inv, TypeOK, CallTypeOK, MatchingLoop, Executing
<1>3. CASE UNCHANGED shard
  <2>1. UNCHANGED <<book_orders, levels, queue, depth, next_sequence>>
    BY <1>3 DEF shard
  <2>2. BookIntegrity' /\ BookNotCrossed' /\ ListsInTimeOrder'
    BY <1>1, <2>1, SameBook
  <2>3. ShardTypeOK'
    BY <1>1, <2>1 DEF Inv, TypeOK, ShardTypeOK
  <2>4. SequencesIssued'
    BY <1>1, <2>1 DEF Inv, TimePriority, SequencesIssued
  <2> QED
    BY <1>2, <2>2, <2>3, <2>4 DEF Inv, TypeOK, TimePriority
<1>4. CASE ~ UNCHANGED shard
  <2> DEFINE r == refresh_display(taker)
  <2>1. /\ taker.remaining > 0
        /\ book_orders[taker.id] = NoOrder
        /\ book_orders' = [book_orders EXCEPT ![taker.id] = r]
        /\ rest_order(r)
    BY <1>4 DEF Finish
  <2>2. /\ r \in OrderRecords
        /\ r.id = taker.id /\ r.side = taker.side /\ r.price = taker.price
        /\ r.remaining = taker.remaining /\ r.fifo_seq = taker.fifo_seq
    BY <1>1, ExecutingFacts, RefreshDisplayType
  <2>3. /\ r.id \in OrderIds /\ r.side \in Sides /\ r.price \in Prices
        /\ r.fifo_seq < next_sequence
    BY <1>1, <2>2, ExecutingFacts DEF Inv, TimePriority, SequencesIssued
  <2> HIDE DEF r
  <2>4. /\ levels' = [levels EXCEPT ![r.side] = @ \cup {r.price}]
        /\ queue' = [queue EXCEPT ![r.side][r.price] = Append(@, r.id)]
        /\ depth' = [depth EXCEPT ![r.side][r.price] = AddTo(@, r)]
    BY <2>1 DEF rest_order
  <2>5. \A o \in OrderIds : book_orders[o] # NoOrder =>
           book_orders[o].fifo_seq < r.fifo_seq
    BY <1>1, <2>2 DEF Inv, TimePriority, SequencesIssued
  <2>6. /\ book_orders' \in [OrderIds -> OrderRecords \cup {NoOrder}]
        /\ queue' \in [Sides -> [Prices -> Seq(OrderIds)]]
        /\ ListsHoldOrders' /\ OrdersAreListed' /\ ListsInTimeOrder'
    <3>1. /\ r.remaining > 0 /\ book_orders[r.id] = NoOrder
          /\ book_orders' = [book_orders EXCEPT ![r.id] = r]
      BY <2>1, <2>2
    <3> QED
      BY <2>2, <2>4, <2>5, <3>1, AppendKeepsLists
         DEF Inv, BookIntegrity, TimePriority
  <2>7. levels' \in [Sides -> SUBSET Prices]
    BY <2>3, <2>4 DEF Inv, TypeOK, ShardTypeOK
  <2>8. depth' \in [Sides -> [Prices -> [total : Int, visible : Int]]]
    <3> DEFINE D == [total : Int, visible : Int]
               d == AddTo(depth[r.side][r.price], r)
    <3>1. depth \in [Sides -> [Prices -> D]]
      BY DEF Inv, TypeOK, ShardTypeOK
    <3>2. d \in D
      BY <2>2, <2>3, <3>1 DEF AddTo, OrderRecords
    <3>3. depth' = [depth EXCEPT ![r.side][r.price] = d]
      BY <2>3, <2>4, <3>1
    <3> HIDE DEF D, d
    <3>4. depth' \in [Sides -> [Prices -> D]]
      BY <2>3, <3>1, <3>2, <3>3
    <3> QED
      BY <3>4 DEF D
  <2>9. NoEmptyLevels'
    <3> SUFFICES ASSUME NEW s \in Sides, NEW x \in Prices
                 PROVE  x \in levels'[s] <=> queue'[s][x] # <<>>
      BY DEF NoEmptyLevels
    <3>1. x \in levels[s] <=> queue[s][x] # <<>>
      BY <1>1, LevelsHaveOrders DEF Inv, BookIntegrity
    <3>2. CASE s = r.side /\ x = r.price
      <4>1. queue'[s][x] = Append(queue[s][x], r.id)
        BY <2>3, <2>4, <3>2 DEF Inv, TypeOK, ShardTypeOK
      <4>2. queue[s][x] \in Seq(OrderIds)
        BY DEF Inv, TypeOK, ShardTypeOK
      <4>3. queue'[s][x] # <<>>
        BY <2>3, <4>1, <4>2, AppendProperties
      <4>4. x \in levels'[s]
        BY <2>3, <2>4, <3>2 DEF Inv, TypeOK, ShardTypeOK
      <4> QED
        BY <4>3, <4>4
    <3>3. CASE s # r.side \/ x # r.price
      BY <2>3, <2>4, <3>1, <3>3 DEF Inv, TypeOK, ShardTypeOK
    <3> QED
      BY <3>2, <3>3
  <2>10. \A o \in OrderIds : o # r.id => book_orders'[o] = book_orders[o]
    BY <2>1, <2>2 DEF Inv, TypeOK, ShardTypeOK
  <2>11. book_orders'[r.id] = r
    BY <2>1, <2>2, <2>3 DEF Inv, TypeOK, ShardTypeOK
  <2>12. SequencesIssued'
    BY <1>1, <2>3, <2>10, <2>11 DEF Inv, TimePriority, SequencesIssued
  <2>13. BookNotCrossed'
    <3>1. ASSUME NEW o \in OrderIds, book_orders[o] # NoOrder,
                 book_orders[o].side # r.side
          PROVE  ~ crosses(r.side, r.price, book_orders[o].price)
      <4> DEFINE s == book_orders[o].side
                 x == book_orders[o].price
      <4>1. s \in Sides /\ x \in Prices
        BY <3>1 DEF Inv, TypeOK, ShardTypeOK, OrderRecords
      <4>2. s = Book
        BY <2>2, <2>3, <3>1, <4>1 DEF Book, Opposite, Sides
      <4>3. queue[s][x] # <<>>
        BY <3>1 DEF Inv, BookIntegrity, OrdersAreListed, At
      <4>4. x \in levels[Book]
        BY <4>1, <4>2, <4>3 DEF Inv, BookIntegrity, NoEmptyLevels
      <4>5. Crossed = {}
        BY <1>1, <2>1 DEF Inv, MatchingLoop
      <4> QED
        BY <2>2, <4>4, <4>5 DEF Crossed
    <3> SUFFICES ASSUME NEW a \in OrderIds, NEW b \in OrderIds,
                        book_orders'[a] # NoOrder, book_orders'[a].side = "buy",
                        book_orders'[b] # NoOrder, book_orders'[b].side = "sell"
                 PROVE  book_orders'[a].price < book_orders'[b].price
      BY DEF BookNotCrossed
    <3>2. book_orders'[a].price \in Int /\ book_orders'[b].price \in Int
      BY <2>6, PricesAssumption DEF OrderRecords
    <3>3. a # b
      OBVIOUS
    <3>4. CASE a = r.id
      <4>1. ~ crosses("buy", book_orders'[a].price, book_orders'[b].price)
        BY <2>10, <2>11, <3>1, <3>3, <3>4
      <4> QED
        BY <3>2, <4>1 DEF crosses
    <3>5. CASE b = r.id
      <4>1. ~ crosses("sell", book_orders'[b].price, book_orders'[a].price)
        BY <2>10, <2>11, <3>1, <3>3, <3>5
      <4> QED
        BY <3>2, <4>1 DEF crosses
    <3>6. CASE a # r.id /\ b # r.id
      BY <2>10, <3>6 DEF Inv, BookNotCrossed
    <3> QED
      BY <3>4, <3>5, <3>6
  <2>14. ShardTypeOK'
    BY <1>1, <2>6, <2>7, <2>8 DEF Inv, TypeOK, ShardTypeOK
  <2> QED
    BY <1>2, <2>6, <2>9, <2>12, <2>13, <2>14
       DEF Inv, TypeOK, BookIntegrity, TimePriority
<1> QED
  BY <1>3, <1>4

LEMMA ReturnKeepsInv ==
  ASSUME Inv, Return
  PROVE  Inv'
<1>1. /\ pc = "ret" /\ pc' = "idle"
      /\ UNCHANGED <<known, book_orders, levels, queue, depth, next_sequence>>
  BY DEF Return, shard
<1>2. BookIntegrity' /\ BookNotCrossed' /\ ListsInTimeOrder'
  BY <1>1, SameBook
<1>3. ShardTypeOK'
  BY <1>1 DEF Inv, TypeOK, ShardTypeOK
<1>4. CallTypeOK'
  BY EmptySeq DEF Return, CallTypeOK, Executing, NoResult, Results
<1>5. SequencesIssued' /\ MatchingLoop'
  BY <1>1 DEF Inv, TimePriority, SequencesIssued, MatchingLoop, Executing
<1> QED
  BY <1>2, <1>3, <1>4, <1>5 DEF Inv, TypeOK, TimePriority

LEMMA StutterKeepsInv ==
  ASSUME Inv, UNCHANGED vars
  PROVE  Inv'
BY DEF vars, shard, locals, Inv, TypeOK, ShardTypeOK, CallTypeOK, Executing,
   BookIntegrity, ListsHoldOrders, OrdersAreListed, At, NoEmptyLevels, Book,
   TimePriority, ListsInTimeOrder, SequencesIssued, BookNotCrossed, MatchingLoop,
   Crossed, Begin

\* Every step keeps the invariant.
LEMMA NextKeepsInv ==
  ASSUME Inv, [Next]_vars
  PROVE  Inv'
BY MarketCallsKeepInv, SubmitKeepsInv, ReplaceKeepsInv, CancelKeepsInv,
   EnterLevelKeepsInv, StopMatchingKeepsInv, FillKeepsInv, LeaveLevelKeepsInv,
   FinishKeepsInv, ReturnKeepsInv, StutterKeepsInv DEF Next, Step

-----------------------------------------------------------------------------
(* The theorems                                                            *)

\* The matcher's inductive invariant: whatever orders, cancels and replaces come,
\* for every set of ids, prices, quantities and flags.
THEOREM InvHolds == Spec => []Inv
BY InitInv, NextKeepsInv, PTL DEF Spec

\* Every variable of the matcher keeps its type.
THEOREM TypeCorrect == Spec => []TypeOK
BY InvHolds, PTL DEF Inv

\* The lists, the levels and the map of orders always agree.
THEOREM BookIntegrityHolds == Spec => []BookIntegrity
BY InvHolds, PTL DEF Inv

\* A resting bid is always below every resting ask.
THEOREM BookNeverCrossed == Spec => []BookNotCrossed
BY InvHolds, PTL DEF Inv

-----------------------------------------------------------------------------
(* The shard implements the market of PriceTimeBook                        *)

\* The abstract order of an id.
LEMMA AbstractOrders ==
  ASSUME TypeOK, NEW id \in OrderIds
  PROVE  /\ AbstractResting[id] = NoOrder <=> book_orders[id] = NoOrder
         /\ book_orders[id] # NoOrder =>
              /\ AbstractResting[id] = AbstractOrder(book_orders[id])
              /\ AbstractResting[id].side = book_orders[id].side
              /\ AbstractResting[id].price = book_orders[id].price
              /\ AbstractResting[id].qty = book_orders[id].remaining
              /\ AbstractResting[id].seq = book_orders[id].fifo_seq
<1>1. ASSUME book_orders[id] # NoOrder
      PROVE  AbstractOrder(book_orders[id])
                \in [side : Sides, price : Prices, qty : Int, seq : Nat]
  <2>1. book_orders[id] \in OrderRecords
    BY <1>1 DEF TypeOK, ShardTypeOK
  <2> QED
    BY <2>1 DEF AbstractOrder, OrderRecords
<1> QED
  BY <1>1, AbstractNullAssumption DEF AbstractResting, AbstractOrder

\* The abstract incoming order.
LEMMA AbstractTaker ==
  ASSUME TypeOK
  PROVE  /\ AbstractIncoming = NoOrder <=> ~ Executing
         /\ Executing =>
              /\ AbstractIncoming = [id |-> taker.id, side |-> taker.side,
                    price |-> taker.price, qty |-> taker.remaining,
                    tif |-> taker.tif,
                    postOnly |-> "post_only" \in taker.flags,
                    seq |-> taker.fifo_seq]
              /\ taker \in OrderRecords
              /\ taker.id \in OrderIds /\ taker.side \in Sides
              /\ taker.price \in Prices /\ taker.remaining \in Int
              /\ taker.tif \in TimesInForce /\ taker.fifo_seq \in Nat
<1>1. ASSUME Executing
      PROVE  /\ taker \in OrderRecords
             /\ taker.id \in OrderIds /\ taker.side \in Sides
             /\ taker.price \in Prices /\ taker.remaining \in Int
             /\ taker.tif \in TimesInForce /\ taker.fifo_seq \in Nat
  <2>1. taker \in OrderRecords
    BY <1>1 DEF TypeOK, CallTypeOK
  <2> QED
    BY <2>1 DEF OrderRecords
<1>2. ASSUME Executing
      PROVE  AbstractIncoming \in
                [id : OrderIds, side : Sides, price : Prices, qty : Int,
                 tif : TimesInForce, postOnly : BOOLEAN, seq : Nat]
  BY <1>1, <1>2 DEF AbstractIncoming
<1> QED
  BY <1>1, <1>2, AbstractNullAssumption DEF AbstractIncoming

\* Where a resting order is found: its level exists and its list holds it.
LEMMA OrderHasLevel ==
  ASSUME Inv, NEW id \in OrderIds, book_orders[id] # NoOrder
  PROVE  /\ book_orders[id] \in OrderRecords
         /\ book_orders[id].side \in Sides /\ book_orders[id].price \in Prices
         /\ book_orders[id].price \in levels[book_orders[id].side]
         /\ \E i \in 1 .. Len(queue[book_orders[id].side][book_orders[id].price]) :
               queue[book_orders[id].side][book_orders[id].price][i] = id
<1> DEFINE s == book_orders[id].side
           x == book_orders[id].price
<1>1. book_orders[id] \in OrderRecords
  BY DEF Inv, TypeOK, ShardTypeOK
<1>2. s \in Sides /\ x \in Prices
  BY <1>1 DEF OrderRecords
<1>3. \E i \in 1 .. Len(queue[s][x]) : queue[s][x][i] = id
  BY DEF Inv, BookIntegrity, OrdersAreListed, At
<1>4. queue[s][x] # <<>>
  BY <1>3
<1>5. x \in levels[s]
  BY <1>2, <1>4 DEF Inv, BookIntegrity, NoEmptyLevels
<1> QED
  BY <1>1, <1>2, <1>3, <1>5

\* An order that crosses no level has no counterparty.
LEMMA NoCounterparties ==
  ASSUME Inv, NEW o, o.side \in Sides, o.price \in Prices,
         \A p \in levels[Opposite(o.side)] : ~ crosses(o.side, o.price, p)
  PROVE  Market!Counterparties(o) = {}
<1> SUFFICES ASSUME NEW id \in OrderIds, AbstractResting[id] # NoOrder,
                    AbstractResting[id].side = Market!Opposite(o.side),
                    Market!Accepts(o.side, o.price, AbstractResting[id].price)
             PROVE  FALSE
  BY DEF Market!Counterparties, Market!Resting
<1>1. /\ book_orders[id] # NoOrder
      /\ book_orders[id].side = Opposite(o.side)
      /\ crosses(o.side, o.price, book_orders[id].price)
  BY AbstractOrders DEF Inv, Market!Opposite, Opposite, Market!Accepts, crosses
<1> QED
  BY <1>1, OrderHasLevel

\* Steps that leave the orders, the running order and the fills alone.
LEMMA AbstractStutter ==
  ASSUME Inv, Inv', UNCHANGED <<book_orders, next_sequence, fills>>,
         Executing' <=> Executing,
         Executing => taker' = taker
  PROVE  UNCHANGED Market!bookVars
<1>1. AbstractResting' = AbstractResting
  BY DEF AbstractResting
<1>2. AbstractIncoming' = AbstractIncoming
  BY DEF AbstractIncoming
<1> QED
  BY <1>1, <1>2 DEF Market!bookVars

\* place_order started to execute the request: the abstract order enters.
LEMMA EnterRefines ==
  ASSUME Inv, Inv', pc = "idle", NEW req \in OrderRequests, place_order(req),
         pc' # "ret",
         levels'[Opposite(req.side)] = levels[Opposite(req.side)]
  PROVE  Market!Enter(req.id, req.side)
<1>1. /\ taker' = TakerRecord(req)
      /\ next_sequence' = next_sequence + 1
      /\ pc' = "level"
      /\ fills' = fills
  BY DEF place_order, Reject, Answer
<1>2. /\ req.id \in OrderIds /\ req.side \in Sides /\ req.price \in Prices
      /\ req.quantity \in Quantities /\ req.tif \in TimesInForce
  BY DEF OrderRequests
<1>3. /\ taker'.id = req.id /\ taker'.side = req.side /\ taker'.price = req.price
      /\ taker'.remaining = req.quantity /\ taker'.tif = req.tif
      /\ taker'.flags = req.flags /\ taker'.fifo_seq = next_sequence
  BY <1>1 DEF TakerRecord
<1> DEFINE o == [id |-> req.id, side |-> req.side, price |-> req.price,
                 qty |-> req.quantity, tif |-> req.tif,
                 postOnly |-> "post_only" \in req.flags, seq |-> next_sequence]
<1>4. AbstractIncoming' = o
  BY <1>1, <1>3 DEF AbstractIncoming, Executing
<1>5. AbstractIncoming = NoOrder
  BY AbstractTaker DEF Inv, Executing
<1>6. "post_only" \in req.flags => Market!Counterparties(o) = {}
  <2> SUFFICES ASSUME "post_only" \in req.flags
               PROVE  Market!Counterparties(o) = {}
    OBVIOUS
  <2>1. Crossed' = {}
    BY <1>1, <1>3 DEF Inv, MatchingLoop, Executing
  <2>2. \A p \in levels[Opposite(req.side)] : ~ crosses(req.side, req.price, p)
    BY <1>3, <2>1 DEF Crossed, Book
  <2>3. o.side = req.side /\ o.price = req.price
    OBVIOUS
  <2> HIDE DEF o
  <2> QED
    BY <1>2, <2>2, <2>3, NoCounterparties
<1>7. fills = <<>> /\ fills' = <<>>
  BY <1>1 DEF Inv, TypeOK, CallTypeOK
<1>8. ("post_only" \in req.flags) \in BOOLEAN
  OBVIOUS
<1> QED
  BY <1>1, <1>2, <1>4, <1>5, <1>6, <1>7, <1>8
     DEF Market!Enter, Market!TimesInForce, TimesInForce

LEMMA SubmitRefines ==
  ASSUME Inv, Inv', NEW req \in OrderRequests, Submit(req)
  PROVE  Market!NewOrder \/ UNCHANGED Market!bookVars
<1>1. pc = "idle" /\ UNCHANGED <<book_orders, levels, queue, depth>>
  BY DEF Submit
<1>2. CASE pc' = "ret"
  <2>1. UNCHANGED <<next_sequence, fills>>
    BY <1>2 DEF Submit, place_order, Reject, Answer
  <2> QED
    BY <1>1, <1>2, <2>1, AbstractStutter DEF Executing
<1>3. CASE pc' # "ret"
  <2>1. place_order(req)
    BY <1>3 DEF Submit, Reject, Answer
  <2>2. Market!Enter(req.id, req.side)
    BY <1>1, <1>3, <2>1, EnterRefines
  <2>3. AbstractResting' = AbstractResting
    BY <1>1 DEF AbstractResting
  <2>4. req.id \in OrderIds /\ req.side \in Market!Sides
    BY DEF OrderRequests, Sides, Market!Sides
  <2> QED
    BY <2>2, <2>3, <2>4 DEF Market!NewOrder
<1> QED
  BY <1>2, <1>3

\* The abstract book after an order is removed.
LEMMA RemovalRefines ==
  ASSUME Inv, pc = "idle", NEW id \in OrderIds, book_orders[id] # NoOrder,
         RemoveOrder(id)
  PROVE  /\ AbstractResting[id] # NoOrder
         /\ AbstractResting' = [AbstractResting EXCEPT ![id] = NoOrder]
<1>1. book_orders' = [book_orders EXCEPT ![id] = NoOrder]
  BY RemoveOrderKeepsBook DEF Inv, TimePriority
<1>2. AbstractResting' = [AbstractResting EXCEPT ![id] = NoOrder]
  BY <1>1 DEF AbstractResting, Inv, TypeOK, ShardTypeOK
<1> QED
  BY <1>2, AbstractOrders DEF Inv

LEMMA CancelRefines ==
  ASSUME Inv, Inv', NEW id \in OrderIds, Cancel(id)
  PROVE  Market!CancelOrder \/ UNCHANGED Market!bookVars
<1>0. /\ pc = "idle" /\ pc' = "ret" /\ UNCHANGED <<next_sequence, taker, fills>>
      /\ ~ Executing /\ ~ Executing'
  BY DEF Cancel, Reject, Answer, shard, Executing
<1>1. CASE book_orders[id] = NoOrder
  <2>1. UNCHANGED book_orders
    BY <1>1 DEF Cancel, shard
  <2> QED
    BY <1>0, <2>1, AbstractStutter
<1>2. CASE book_orders[id] # NoOrder
  <2>1. RemoveOrder(id)
    BY <1>2 DEF Cancel
  <2>2. AbstractIncoming = NoOrder /\ AbstractIncoming' = NoOrder
    BY <1>0 DEF AbstractIncoming
  <2>3. fills = <<>>
    BY <1>0 DEF Inv, TypeOK, CallTypeOK
  <2> QED
    BY <1>0, <1>2, <2>1, <2>2, <2>3, RemovalRefines
       DEF Market!CancelOrder, Market!Resting
<1> QED
  BY <1>1, <1>2

LEMMA ReplaceRefines ==
  ASSUME Inv, Inv', NEW req \in OrderRequests, Replace(req)
  PROVE  Market!ReplaceOrder \/ Market!CancelOrder \/ UNCHANGED Market!bookVars
<1>0. pc = "idle" /\ req.id \in OrderIds /\ req.side \in Sides
  BY DEF Replace, OrderRequests
<1>1. CASE book_orders[req.id] = NoOrder
  <2>1. pc' = "ret" /\ UNCHANGED <<book_orders, next_sequence, taker, fills>>
    BY <1>1 DEF Replace, Reject, Answer, shard
  <2> QED
    BY <1>0, <2>1, AbstractStutter DEF Executing
<1>2. CASE book_orders[req.id] # NoOrder
  <2>1. /\ RemoveOrder(req.id) /\ place_order(req)
        /\ req.side = book_orders[req.id].side
    BY <1>2 DEF Replace
  <2>2. /\ AbstractResting[req.id] # NoOrder
        /\ AbstractResting' = [AbstractResting EXCEPT ![req.id] = NoOrder]
    BY <1>0, <1>2, <2>1, RemovalRefines
  <2>3. CASE pc' = "ret"
    <3>1. UNCHANGED <<next_sequence, fills>>
      BY <2>1, <2>3 DEF place_order, Reject, Answer
    <3>2. AbstractIncoming = NoOrder /\ AbstractIncoming' = NoOrder
      BY <1>0, <2>3 DEF AbstractIncoming, Executing
    <3>3. fills = <<>>
      BY <1>0 DEF Inv, TypeOK, CallTypeOK
    <3> QED
      BY <1>0, <2>2, <3>1, <3>2, <3>3 DEF Market!CancelOrder, Market!Resting
  <2>4. CASE pc' # "ret"
    <3>1. Market!Enter(req.id, req.side)
      BY <1>0, <1>2, <2>1, <2>4, RemovalLeaves, EnterRefines
    <3>2. AbstractResting[req.id].side = req.side
      BY <1>0, <1>2, <2>1, AbstractOrders DEF Inv
    <3> QED
      BY <1>0, <2>2, <3>1, <3>2 DEF Market!ReplaceOrder, Market!Resting
  <2> QED
    BY <2>3, <2>4
<1> QED
  BY <1>1, <1>2

\* The maker of a fill has price-time priority among its side's orders.
LEMMA MakerHasPriority ==
  ASSUME Inv, Fill
  PROVE  Market!HasPriority(maker)
<1>1. /\ AbstractResting[maker].side = Book
      /\ AbstractResting[maker].price = it
      /\ AbstractResting[maker].seq = book_orders[maker].fifo_seq
      /\ maker \in OrderIds /\ Book \in Sides /\ it \in Prices
      /\ book_orders[maker].fifo_seq \in Nat
  BY FillFacts, AbstractOrders DEF Inv, OrderRecords
<1>2. \A q \in levels[Book] : ~ Before(Book, q, it)
  <2>1. it \in Begin(Book)
    BY DEF Inv, MatchingLoop, Fill
  <2> QED
    BY <2>1, <1>1, NullAssumption DEF Begin, First
<1> SUFFICES ASSUME NEW other \in OrderIds, AbstractResting[other] # NoOrder,
                    AbstractResting[other].side = Book
             PROVE  /\ ~ Market!Better(Book, AbstractResting[other].price, it)
                    /\ AbstractResting[other].price = it =>
                         book_orders[maker].fifo_seq <= AbstractResting[other].seq
  BY <1>1 DEF Market!HasPriority, Market!Resting
<1>3. /\ book_orders[other] # NoOrder
      /\ AbstractResting[other].side = book_orders[other].side
      /\ AbstractResting[other].price = book_orders[other].price
      /\ AbstractResting[other].seq = book_orders[other].fifo_seq
      /\ book_orders[other].side = Book
  BY AbstractOrders DEF Inv
<1>4. ~ Market!Better(Book, AbstractResting[other].price, it)
  BY <1>2, <1>3, OrderHasLevel DEF Market!Better, Before
<1>5. ASSUME book_orders[other].price = it
      PROVE  book_orders[maker].fifo_seq <= book_orders[other].fifo_seq
  <2>1. PICK i \in 1 .. Len(queue[Book][it]) : queue[Book][it][i] = other
    BY <1>3, <1>5, OrderHasLevel
  <2>2. maker = queue[Book][it][1] /\ Len(queue[Book][it]) \in Nat \ {0}
    BY FillFacts
  <2>3. CASE i = 1
    BY <1>1, <2>1, <2>2, <2>3
  <2>4. CASE i # 1
    <3>1. 1 \in 1 .. Len(queue[Book][it]) /\ 1 < i
      BY <2>1, <2>2, <2>4
    <3>2. book_orders[maker].fifo_seq < book_orders[other].fifo_seq
      BY <1>1, <2>1, <2>2, <3>1 DEF Inv, TimePriority, ListsInTimeOrder
    <3>3. book_orders[other].fifo_seq \in Nat
      BY <1>3, OrderHasLevel DEF OrderRecords
    <3> QED
      BY <1>1, <3>2, <3>3
  <2> QED
    BY <2>3, <2>4
<1> QED
  BY <1>3, <1>4, <1>5

LEMMA FillRefines ==
  ASSUME Inv, Inv', Fill
  PROVE  Market!Trade
<1>0. /\ Executing /\ Executing' /\ maker \in OrderIds
      /\ UNCHANGED <<next_sequence, pc, it>>
  BY FillFacts, FillEffect DEF Executing
<1>1. /\ AbstractIncoming # NoOrder
      /\ AbstractIncoming.qty = taker.remaining
      /\ AbstractIncoming.id = taker.id
      /\ AbstractIncoming.side = taker.side
      /\ AbstractIncoming.price = taker.price
      /\ AbstractIncoming.postOnly = ("post_only" \in taker.flags)
  BY <1>0, AbstractTaker DEF Inv
<1>2. /\ AbstractResting[maker] # NoOrder
      /\ AbstractResting[maker] = AbstractOrder(book_orders[maker])
      /\ AbstractResting[maker].side = Book
      /\ AbstractResting[maker].price = it
      /\ AbstractResting[maker].qty = book_orders[maker].remaining
  BY FillFacts, AbstractOrders DEF Inv
<1>3. it \in Crossed
  BY DEF Inv, MatchingLoop, Fill
<1>4. ~ AbstractIncoming.postOnly
  BY <1>0, <1>1, <1>3 DEF Inv, MatchingLoop
<1>5. maker \in Market!Counterparties(AbstractIncoming)
  BY <1>0, <1>1, <1>2, <1>3
     DEF Market!Counterparties, Market!Resting, Market!Opposite, Market!Accepts,
         Crossed, crosses, Book, Opposite
<1>6. Market!Lesser(AbstractIncoming.qty, AbstractResting[maker].qty) = Traded
  BY <1>1, <1>2 DEF Market!Lesser, Lesser, Traded
<1>7. AbstractIncoming' = [AbstractIncoming EXCEPT !.qty = @ - Traded]
  <2>1. /\ taker'.id = taker.id /\ taker'.side = taker.side
        /\ taker'.price = taker.price /\ taker'.tif = taker.tif
        /\ taker'.flags = taker.flags /\ taker'.fifo_seq = taker.fifo_seq
        /\ taker'.remaining = taker.remaining - Traded
    <3>1. taker \in OrderRecords /\ taker' = [taker EXCEPT !.remaining = @ - Traded]
      BY <1>0, FillEffect, ExecutingFacts
    <3> QED
      BY <3>1 DEF OrderRecords
  <2> QED
    BY <1>0, <2>1 DEF AbstractIncoming
<1>8. AbstractResting' =
        [AbstractResting EXCEPT ![maker] =
            IF AbstractResting[maker].qty = Traded THEN NoOrder
            ELSE [AbstractResting[maker] EXCEPT !.qty = @ - Traded]]
  <2>1. book_orders[maker].remaining \in Int /\ Traded \in Int
    BY FillFacts, FillEffect DEF OrderRecords
  <2>2. Shrunk.remaining = 0 <=> book_orders[maker].remaining = Traded
    BY <2>1, FillEffect
  <2>3. CASE Shrunk.remaining = 0
    <3>1. book_orders' = [book_orders EXCEPT ![maker] = NoOrder]
      BY <2>3, FillEffect
    <3>2. AbstractResting' = [AbstractResting EXCEPT ![maker] = NoOrder]
      BY <1>0, <3>1 DEF AbstractResting, Inv, TypeOK, ShardTypeOK
    <3> QED
      BY <1>2, <2>2, <2>3, <3>2
  <2>4. CASE Shrunk.remaining # 0
    <3>1. book_orders' = [book_orders EXCEPT ![maker] = Shrunk]
      BY <2>4, FillEffect
    <3>2. AbstractResting' = [AbstractResting EXCEPT ![maker] = AbstractOrder(Shrunk)]
      BY <1>0, <3>1, FillEffect DEF AbstractResting, Inv, TypeOK, ShardTypeOK
    <3>3. AbstractOrder(Shrunk) = [AbstractResting[maker] EXCEPT !.qty = @ - Traded]
      BY <1>2, FillFacts, FillEffect DEF AbstractOrder
    <3> QED
      BY <1>2, <2>2, <2>4, <3>2, <3>3
  <2> QED
    BY <2>3, <2>4
<1>9. fills' = Append(fills, [maker |-> maker, taker |-> AbstractIncoming.id,
                              quantity |-> Traded,
                              price |-> AbstractResting[maker].price])
  BY <1>1, <1>2, FillEffect
<1>10. AbstractIncoming.qty > 0
  BY <1>1, FillFacts
<1> QED
  BY <1>0, <1>1, <1>4, <1>5, <1>6, <1>7, <1>8, <1>9, <1>10, MakerHasPriority
     DEF Market!Trade

LEMMA FinishRefines ==
  ASSUME Inv, Inv', Finish
  PROVE  Market!Book \/ Market!Finish
<1>0. /\ pc = "rest" /\ pc' = "ret" /\ Executing /\ ~ Executing'
      /\ UNCHANGED <<next_sequence, fills>>
  BY DEF Finish, Executing, shard
<1>1. /\ AbstractIncoming # NoOrder
      /\ AbstractIncoming.qty = taker.remaining
      /\ AbstractIncoming.id = taker.id
      /\ AbstractIncoming.side = taker.side
      /\ AbstractIncoming.price = taker.price
      /\ AbstractIncoming.tif = taker.tif
      /\ AbstractIncoming.seq = taker.fifo_seq
      /\ AbstractIncoming' = NoOrder
      /\ taker.tif \in TimesInForce
      /\ taker.id \in OrderIds
  <2>1. AbstractIncoming' = NoOrder
    BY <1>0 DEF AbstractIncoming
  <2> QED
    BY <1>0, <2>1, AbstractTaker DEF Inv
<1>2. taker.remaining > 0 => Market!Counterparties(AbstractIncoming) = {}
  <2> SUFFICES ASSUME taker.remaining > 0
               PROVE  Market!Counterparties(AbstractIncoming) = {}
    OBVIOUS
  <2>1. Crossed = {}
    BY <1>0 DEF Inv, MatchingLoop
  <2>2. \A p \in levels[Opposite(taker.side)] :
           ~ crosses(taker.side, taker.price, p)
    BY <2>1 DEF Crossed, Book
  <2>3. taker.side \in Sides /\ taker.price \in Prices
    BY <1>0, ExecutingFacts
  <2> QED
    BY <1>1, <2>2, <2>3, NoCounterparties
<1>3. Market!Resting(taker.id) <=> book_orders[taker.id] # NoOrder
  BY <1>1, AbstractOrders DEF Market!Resting, Inv
<1>4. CASE UNCHANGED shard
  <2>1. AbstractResting' = AbstractResting
    BY <1>4 DEF shard, AbstractResting
  <2>2. taker.remaining > 0 =>
           taker.tif # "GTC" \/ book_orders[taker.id] # NoOrder
    <3> SUFFICES ASSUME taker.remaining > 0, taker.tif = "GTC",
                        book_orders[taker.id] = NoOrder
                 PROVE  FALSE
      OBVIOUS
    <3>1. book_orders' = [book_orders EXCEPT ![taker.id] = refresh_display(taker)]
      BY <1>0, ExecutingFacts DEF Finish
    <3>2. refresh_display(taker) # NoOrder
      BY <1>0, ExecutingFacts, RefreshDisplayType, NullAssumption
    <3>3. book_orders'[taker.id] # NoOrder
      BY <1>1, <3>1, <3>2 DEF Inv, TypeOK, ShardTypeOK
    <3> QED
      BY <1>4, <3>3 DEF shard
  <2> QED
    BY <1>0, <1>1, <1>2, <1>3, <2>1, <2>2 DEF Market!Finish
<1>5. CASE ~ UNCHANGED shard
  <2> DEFINE r == refresh_display(taker)
  <2>1. /\ taker.remaining > 0
        /\ taker.tif \notin {"IOC", "FOK"}
        /\ book_orders[taker.id] = NoOrder
        /\ book_orders' = [book_orders EXCEPT ![taker.id] = r]
    BY <1>5 DEF Finish
  <2>2. /\ r \in OrderRecords /\ r # NoOrder
        /\ AbstractOrder(r) = [side |-> taker.side, price |-> taker.price,
                               qty |-> taker.remaining, seq |-> taker.fifo_seq]
    BY <1>0, ExecutingFacts, RefreshDisplayType, NullAssumption DEF AbstractOrder
  <2> HIDE DEF r
  <2>3. AbstractResting' = [AbstractResting EXCEPT ![taker.id] = AbstractOrder(r)]
    BY <1>1, <2>1, <2>2 DEF AbstractResting, Inv, TypeOK, ShardTypeOK
  <2>4. taker.tif = "GTC"
    BY <1>1, <2>1 DEF TimesInForce
  <2> QED
    BY <1>0, <1>1, <1>2, <1>3, <2>1, <2>2, <2>3, <2>4 DEF Market!Book
<1> QED
  BY <1>4, <1>5

LEMMA NextRefines ==
  ASSUME Inv, Inv', [Next]_vars
  PROVE  [Market!BookNext]_(Market!bookVars)
<1>1. CASE AddMarket
  BY <1>1, AbstractStutter DEF AddMarket, shard, locals, Executing
<1>2. CASE ClearMarket
  <2>1. AbstractResting' = [id \in OrderIds |-> NoOrder]
    BY <1>2 DEF ClearMarket, AbstractResting
  <2>2. AbstractIncoming = NoOrder /\ AbstractIncoming' = NoOrder
    BY <1>2 DEF ClearMarket, AbstractIncoming, Executing
  <2>3. Market!ClearBook
    BY <1>2, <2>1, <2>2 DEF Market!ClearBook, ClearMarket, locals
  <2> QED
    BY <2>3 DEF Market!BookNext
<1>3. CASE \E req \in OrderRequests : Submit(req)
  BY <1>3, SubmitRefines DEF Market!BookNext
<1>4. CASE \E req \in OrderRequests : Replace(req)
  BY <1>4, ReplaceRefines DEF Market!BookNext
<1>5. CASE \E id \in OrderIds : Cancel(id)
  BY <1>5, CancelRefines DEF Market!BookNext
<1>6. CASE EnterLevel \/ StopMatching \/ LeaveLevel
  <2>1. /\ UNCHANGED <<book_orders, next_sequence, fills, taker>>
        /\ Executing /\ Executing'
    BY <1>6 DEF EnterLevel, StopMatching, LeaveLevel, shard, locals, Executing
  <2> QED
    BY <2>1, AbstractStutter
<1>7. CASE Fill
  BY <1>7, FillRefines DEF Market!BookNext
<1>8. CASE Finish
  BY <1>8, FinishRefines DEF Market!BookNext
<1>9. CASE Return
  <2>1. AbstractResting' = AbstractResting
    BY <1>9 DEF Return, shard, AbstractResting
  <2>2. AbstractIncoming = NoOrder /\ AbstractIncoming' = NoOrder
    BY <1>9 DEF Return, AbstractIncoming, Executing
  <2>3. Market!TakeFills
    BY <1>9, <2>1, <2>2 DEF Market!TakeFills, Return, shard
  <2> QED
    BY <2>3 DEF Market!BookNext
<1>10. CASE UNCHANGED vars
  BY <1>10, AbstractStutter DEF vars, shard, locals, Executing
<1> QED
  BY <1>1, <1>2, <1>3, <1>4, <1>5, <1>6, <1>7, <1>8, <1>9, <1>10 DEF Next, Step

LEMMA InitRefines == Init => Market!BookInit
BY DEF Init, Market!BookInit, AbstractResting, AbstractIncoming, Executing

\* Price-time priority, for every set of ids, prices, quantities and flags: the
\* shard's lists, levels and iterators implement the market of PriceTimeBook.
THEOREM PriceTimePriority == Spec => ImplementsPriceTimeBook
<1>1. Inv /\ Inv' /\ [Next]_vars => [Market!BookNext]_(Market!bookVars)
  BY NextRefines
<1> QED
  BY <1>1, InvHolds, InitRefines, PTL
     DEF Spec, ImplementsPriceTimeBook, Market!BookSpec

-----------------------------------------------------------------------------
(* Sums over finite sets                                                   *)

\* A set of numbers that is not empty has a least one.
LEMMA LeastNumber ==
  ASSUME NEW T \in SUBSET Nat, T # {}
  PROVE  \E x \in T : \A y \in T : x <= y
<1> DEFINE R == OpToRel(<, Nat)
<1>1. IsWellFoundedOn(R, Nat)
  BY NatLessThanWellFounded, Zenon
<1>2. \A x, y \in Nat : <<x, y>> \in R <=> x < y
  BY DEF OpToRel
<1> HIDE DEF R
<1>3. PICK x \in T : \A y \in T : ~ (<<y, x>> \in R)
  BY <1>1, WFMin, Zenon
<1>4. ASSUME NEW y \in T PROVE x <= y
  <2>1. x \in Nat /\ y \in Nat /\ ~ (y < x)
    BY <1>2, <1>3
  <2> QED
    BY <2>1
<1> QED
  BY <1>4

\* The subsets of a finite set, and how many elements they have.
LEMMA SubsetSizes ==
  ASSUME NEW S, IsFiniteSet(S)
  PROVE  /\ \A s \in SUBSET S : IsFiniteSet(s) /\ Cardinality(s) \in Nat
         /\ \A s \in SUBSET S : Cardinality(s) <= Cardinality(S)
         /\ \A s \in SUBSET S : \A x \in s :
               /\ s \ {x} \in SUBSET S /\ Cardinality(s) > 0
               /\ Cardinality(s \ {x}) = Cardinality(s) - 1
<1>1. \A s \in SUBSET S : IsFiniteSet(s) /\ Cardinality(s) \in Nat /\ Cardinality(s) <= Cardinality(S)
  BY FS_Subset, FS_CardinalityType
<1>2. ASSUME NEW s \in SUBSET S, NEW x \in s
      PROVE  /\ s \ {x} \in SUBSET S /\ Cardinality(s) > 0
             /\ Cardinality(s \ {x}) = Cardinality(s) - 1
  <2>1. Cardinality(s \ {x}) = Cardinality(s) - 1
    BY <1>1, FS_RemoveElement
  <2>2. s \ {x} \in SUBSET S
    OBVIOUS
  <2>3. Cardinality(s \ {x}) \in Nat /\ Cardinality(s) \in Nat
    BY <1>1, <2>2
  <2> QED
    BY <2>1, <2>2, <2>3
<1> QED
  BY <1>1, <1>2

\* Of the subsets of S with a property (those in Bad), one is smallest.
LEMMA SmallestSubset ==
  ASSUME NEW S, IsFiniteSet(S), NEW Bad \in SUBSET (SUBSET S), Bad # {}
  PROVE  \E s \in Bad : \A t \in SUBSET S : Cardinality(t) < Cardinality(s) => t \notin Bad
<1> DEFINE T == {Cardinality(s) : s \in Bad}
<1>1. T \in SUBSET Nat /\ T # {}
  BY SubsetSizes
<1>2. PICK x \in T : \A y \in T : x <= y
  BY <1>1, LeastNumber
<1>3. PICK s \in Bad : x = Cardinality(s)
  OBVIOUS
<1>4. \A t \in Bad : Cardinality(s) <= Cardinality(t)
  BY <1>2, <1>3
<1>5. \A t \in SUBSET S : Cardinality(t) \in Nat
  BY SubsetSizes
<1> HIDE DEF T
<1>6. ASSUME NEW t \in SUBSET S, Cardinality(t) < Cardinality(s), t \in Bad PROVE FALSE
  <2>1. Cardinality(s) <= Cardinality(t) /\ Cardinality(t) \in Nat /\ Cardinality(s) \in Nat
    BY <1>4, <1>5, <1>6
  <2> QED
    BY <1>6, <2>1
<1> QED
  BY <1>6

\* An element of s, the one that SumFunctionOnSet takes first.
Some(s) == CHOOSE x \in s : TRUE

LEMMA SomeIn ==
  ASSUME NEW s, s # {}
  PROVE  Some(s) \in s
BY DEF Some

\* One step of the recursion of SumFunctionOnSet, and a solution of it.
SumStep(g, f, s) == IF s = {} THEN 0 ELSE f[Some(s)] + g[s \ {Some(s)}]
Solves(g, f, S) == g = [s \in SUBSET S |-> SumStep(g, f, s)]
Sums(f, S) == CHOOSE g : Solves(g, f, S)

LEMMA SumIsSums ==
  ASSUME NEW f, NEW S
  PROVE  SumFunctionOnSet(f, S) = Sums(f, S)[S]
BY Zenon DEF SumFunctionOnSet, FoldFunctionOnSet, MapThenFoldSet, Sums, Solves, SumStep, Some

\* The recursion has a solution: the one for subsets of n elements at most, for each n.
LEMMA SumsExist ==
  ASSUME NEW f, NEW S, IsFiniteSet(S)
  PROVE  \E g : Solves(g, f, S)
<1> DEFINE Upto(g, n) == /\ g = [s \in SUBSET S |-> g[s]]
                         /\ \A s \in SUBSET S : Cardinality(s) <= n => g[s] = SumStep(g, f, s)
           T == {n \in Nat : ~ \E g : Upto(g, n)}
<1>1. T = {}
  <2> SUFFICES ASSUME T # {} PROVE FALSE
    OBVIOUS
  <2>1. T \in SUBSET Nat
    OBVIOUS
  <2>2. PICK n \in T : \A y \in T : n <= y
    BY <2>1, LeastNumber
  <2>3. n \in Nat /\ ~ \E g : Upto(g, n)
    OBVIOUS
  <2>4. CASE n = 0
    <3> DEFINE h == [s \in SUBSET S |-> 0]
    <3>1. \A s \in SUBSET S : Cardinality(s) <= 0 => s = {}
      <4> SUFFICES ASSUME NEW s \in SUBSET S, Cardinality(s) <= 0, s # {} PROVE FALSE
        OBVIOUS
      <4>1. PICK x \in s : TRUE
        OBVIOUS
      <4>2. Cardinality(s) > 0 /\ Cardinality(s) \in Nat
        BY <4>1, SubsetSizes
      <4> QED
        BY <4>2
    <3>2. \A s \in SUBSET S : Cardinality(s) <= 0 => h[s] = SumStep(h, f, s)
      BY <3>1 DEF SumStep
    <3>3. h = [s \in SUBSET S |-> h[s]]
      OBVIOUS
    <3>4. Upto(h, 0)
      BY <3>2, <3>3
    <3> QED
      BY <2>3, <2>4, <3>4
  <2>5. CASE n # 0
    <3>1. n - 1 \in Nat /\ ~ (n - 1 \in T)
      <4> HIDE DEF T
      <4> QED
        BY <2>2, <2>3, <2>5
    <3>2. PICK g : Upto(g, n - 1)
      <4> HIDE DEF Upto
      <4> QED
        BY <3>1
    <3> DEFINE h == [s \in SUBSET S |-> IF Cardinality(s) <= n - 1 THEN g[s] ELSE SumStep(g, f, s)]
    <3>3. \A s \in SUBSET S : Cardinality(s) <= n - 1 => h[s] = g[s]
      OBVIOUS
    <3>4. ASSUME NEW s \in SUBSET S, Cardinality(s) <= n PROVE h[s] = SumStep(h, f, s)
      <4>1. h[s] = SumStep(g, f, s)
        BY <3>2
      <4>2. CASE s = {}
        BY <4>1, <4>2 DEF SumStep
      <4>3. CASE s # {}
        <5>1. Some(s) \in s
          BY <4>3, SomeIn
        <5>2. PICK r : r = s \ {Some(s)}
          OBVIOUS
        <5>3. /\ r \in SUBSET S /\ Cardinality(r) = Cardinality(s) - 1
              /\ Cardinality(s) \in Nat
          BY <5>1, <5>2, SubsetSizes
        <5>4. Cardinality(r) <= n - 1
          BY <2>3, <3>4, <5>3
        <5>5. h[r] = g[r]
          BY <3>3, <5>3, <5>4
        <5> HIDE DEF h
        <5> QED
          BY <4>1, <4>3, <5>2, <5>5 DEF SumStep
      <4> QED
        BY <4>2, <4>3
    <3>5. h = [s \in SUBSET S |-> h[s]]
      OBVIOUS
    <3>6. Upto(h, n)
      <4> HIDE DEF h
      <4> QED
        BY <3>4, <3>5
    <3> QED
      BY <2>3, <3>6
  <2> QED
    BY <2>4, <2>5
<1>2. Cardinality(S) \in Nat /\ \A s \in SUBSET S : Cardinality(s) <= Cardinality(S)
  BY SubsetSizes, FS_CardinalityType
<1>3. PICK g : Upto(g, Cardinality(S))
  <2> HIDE DEF Upto
  <2> QED
    BY <1>1, <1>2
<1>4. \A s \in SUBSET S : g[s] = SumStep(g, f, s)
  BY <1>2, <1>3
<1>5. g = [s \in SUBSET S |-> SumStep(g, f, s)]
  BY <1>3, <1>4
<1> QED
  BY <1>5 DEF Solves

\* It has no other, and only depends on what f says of the elements.
LEMMA SumsAgree ==
  ASSUME NEW f, NEW g, NEW S, NEW R, IsFiniteSet(S), R \subseteq S,
         \A x \in R : f[x] = g[x]
  PROVE  \A s \in SUBSET R : Sums(f, S)[s] = Sums(g, R)[s]
<1>1. IsFiniteSet(R)
  BY FS_Subset
<1>2. PICK a, b : a = Sums(f, S) /\ b = Sums(g, R)
  OBVIOUS
<1>3. Solves(a, f, S) /\ Solves(b, g, R)
  BY <1>1, <1>2, SumsExist DEF Sums
<1>4. /\ \A s \in SUBSET S : a[s] = SumStep(a, f, s)
      /\ \A s \in SUBSET R : b[s] = SumStep(b, g, s)
  BY <1>3 DEF Solves
<1> DEFINE Bad == {s \in SUBSET R : a[s] # b[s]}
<1>5. Bad = {}
  <2> SUFFICES ASSUME Bad # {} PROVE FALSE
    OBVIOUS
  <2>a. Bad \in SUBSET (SUBSET R)
    OBVIOUS
  <2>1. PICK s \in Bad : \A t \in SUBSET R : Cardinality(t) < Cardinality(s) => t \notin Bad
    <3> HIDE DEF Bad
    <3> QED
      BY <1>1, <2>a, SmallestSubset
  <2>2. s \in SUBSET R /\ s \in SUBSET S /\ a[s] # b[s]
    OBVIOUS
  <2>3. a[s] = SumStep(a, f, s) /\ b[s] = SumStep(b, g, s)
    BY <1>4, <2>2
  <2>4. s # {}
    BY <2>2, <2>3 DEF SumStep
  <2>5. PICK x, r : x = Some(s) /\ r = s \ {x}
    OBVIOUS
  <2>6. x \in s /\ x \in R /\ r \in SUBSET R
    BY <2>2, <2>4, <2>5, SomeIn
  <2>7. Cardinality(r) = Cardinality(s) - 1 /\ Cardinality(s) \in Nat
    BY <1>1, <2>2, <2>5, <2>6, SubsetSizes
  <2>8. Cardinality(r) < Cardinality(s)
    BY <2>7
  <2>9. r \notin Bad
    BY <2>1, <2>6, <2>8
  <2>10. a[r] = b[r] /\ f[x] = g[x]
    BY <2>6, <2>9
  <2> QED
    BY <2>2, <2>3, <2>4, <2>5, <2>10 DEF SumStep
<1> QED
  BY <1>2, <1>5

\* A sum depends on the elements that are added only.
LEMMA SumAgrees ==
  ASSUME NEW f, NEW g, NEW S, IsFiniteSet(S), \A x \in S : f[x] = g[x]
  PROVE  SumFunctionOnSet(f, S) = SumFunctionOnSet(g, S)
BY SumsAgree, SumIsSums

LEMMA SumOfNone ==
  ASSUME NEW f
  PROVE  SumFunctionOnSet(f, {}) = 0
<1>1. PICK a : a = Sums(f, {})
  OBVIOUS
<1>2. Solves(a, f, {})
  BY <1>1, SumsExist, FS_EmptySet DEF Sums
<1>3. a[{}] = SumStep(a, f, {})
  BY <1>2 DEF Solves
<1> QED
  BY <1>1, <1>3, SumIsSums DEF SumStep

LEMMA SumFirst ==
  ASSUME NEW f, NEW S, IsFiniteSet(S), S # {}
  PROVE  SumFunctionOnSet(f, S) = f[Some(S)] + SumFunctionOnSet(f, S \ {Some(S)})
<1>1. PICK a, r : a = Sums(f, S) /\ r = S \ {Some(S)}
  OBVIOUS
<1>2. Solves(a, f, S)
  BY <1>1, SumsExist DEF Sums
<1>3. a[S] = SumStep(a, f, S)
  BY <1>2 DEF Solves
<1>4. r \subseteq S
  BY <1>1
<1>5. a[r] = Sums(f, r)[r]
  BY <1>1, <1>4, SumsAgree
<1> QED
  BY <1>1, <1>3, <1>5, SumIsSums DEF SumStep

\* Sums of integers are integers, and may start with any element.
Splits(f, s) ==
  /\ SumFunctionOnSet(f, s) \in Int
  /\ \A x \in s : SumFunctionOnSet(f, s) = f[x] + SumFunctionOnSet(f, s \ {x})

LEMMA SumSplits ==
  ASSUME NEW f, NEW S, IsFiniteSet(S), \A x \in S : f[x] \in Int
  PROVE  Splits(f, S)
<1> DEFINE Bad == {s \in SUBSET S : ~ Splits(f, s)}
<1>1. Bad = {}
  <2> SUFFICES ASSUME Bad # {} PROVE FALSE
    OBVIOUS
  <2>1. PICK s \in Bad : \A t \in SUBSET S : Cardinality(t) < Cardinality(s) => t \notin Bad
    BY SmallestSubset
  <2>2. s \in SUBSET S /\ ~ Splits(f, s)
    OBVIOUS
  <2>3. IsFiniteSet(s) /\ Cardinality(s) \in Nat
    BY <2>2, SubsetSizes
  <2>4. s # {}
    <3>1. Splits(f, {})
      BY SumOfNone DEF Splits
    <3> QED
      BY <2>2, <3>1
  <2>5. \A x \in s : s \ {x} \in SUBSET S /\ Splits(f, s \ {x}) /\ IsFiniteSet(s \ {x})
    <3> SUFFICES ASSUME NEW x \in s
                 PROVE  s \ {x} \in SUBSET S /\ Splits(f, s \ {x}) /\ IsFiniteSet(s \ {x})
      OBVIOUS
    <3>1. s \ {x} \in SUBSET S /\ Cardinality(s \ {x}) = Cardinality(s) - 1
      BY <2>2, SubsetSizes
    <3>2. Cardinality(s \ {x}) < Cardinality(s)
      BY <2>3, <3>1
    <3>3. s \ {x} \notin Bad
      BY <2>1, <3>1, <3>2
    <3> QED
      BY <3>1, <3>3, SubsetSizes
  <2>6. PICK c : c = Some(s)
    OBVIOUS
  <2>7. c \in s
    BY <2>4, <2>6, SomeIn
  <2>8. SumFunctionOnSet(f, s) = f[c] + SumFunctionOnSet(f, s \ {c})
    BY <2>3, <2>4, <2>6, SumFirst
  <2>9. f[c] \in Int /\ SumFunctionOnSet(f, s \ {c}) \in Int
    BY <2>2, <2>5, <2>7 DEF Splits
  <2>10. ASSUME NEW x \in s
         PROVE  SumFunctionOnSet(f, s) = f[x] + SumFunctionOnSet(f, s \ {x})
    <3>1. CASE x = c
      BY <2>8, <3>1
    <3>2. CASE x # c
      <4>1. PICK d : d = SumFunctionOnSet(f, (s \ {c}) \ {x})
        OBVIOUS
      <4>2. (s \ {x}) \ {c} = (s \ {c}) \ {x} /\ x \in s \ {c} /\ c \in s \ {x}
        BY <2>7, <3>2
      <4>3. SumFunctionOnSet(f, s \ {c}) = f[x] + d
        BY <2>5, <2>7, <4>1, <4>2 DEF Splits
      <4>4. SumFunctionOnSet(f, s \ {x}) = f[c] + d
        BY <2>5, <4>1, <4>2 DEF Splits
      <4>5. d \in Int /\ f[x] \in Int
        <5>1. Cardinality((s \ {c}) \ {x}) < Cardinality(s) /\ (s \ {c}) \ {x} \in SUBSET S
          <6>1. /\ s \ {c} \in SUBSET S /\ Cardinality(s \ {c}) = Cardinality(s) - 1
            BY <2>2, <2>7, SubsetSizes
          <6>2. PICK r : r = s \ {c}
            OBVIOUS
          <6>3. r \in SUBSET S /\ x \in r
            BY <4>2, <6>1, <6>2
          <6>4. r \ {x} \in SUBSET S /\ Cardinality(r \ {x}) = Cardinality(r) - 1
            BY <6>3, SubsetSizes
          <6> QED
            BY <2>3, <6>1, <6>2, <6>4
        <5>2. (s \ {c}) \ {x} \notin Bad
          BY <2>1, <5>1
        <5> QED
          BY <2>2, <4>1, <5>1, <5>2 DEF Splits
      <4> QED
        BY <2>8, <2>9, <4>3, <4>4, <4>5
    <3> QED
      BY <3>1, <3>2
  <2>11. SumFunctionOnSet(f, s) \in Int
    BY <2>8, <2>9
  <2> QED
    BY <2>2, <2>10, <2>11 DEF Splits
<1>2. S \in SUBSET S
  OBVIOUS
<1> QED
  BY <1>1, <1>2

-----------------------------------------------------------------------------
(* The quantities of a level                                               *)

\* A sum after one element came, went or changed.
LEMMA SumOneMore ==
  ASSUME NEW f, NEW g, NEW S, IsFiniteSet(S), NEW x, x \notin S,
         \A y \in S : f[y] = g[y], \A y \in S \cup {x} : g[y] \in Int
  PROVE  /\ SumFunctionOnSet(g, S \cup {x}) = SumFunctionOnSet(f, S) + g[x]
         /\ SumFunctionOnSet(f, S) \in Int /\ g[x] \in Int
<1>1. PICK T : T = S \cup {x}
  OBVIOUS
<1>2. IsFiniteSet(T) /\ x \in T /\ T \ {x} = S /\ \A y \in T : g[y] \in Int
  BY <1>1, FS_AddElement
<1>3. Splits(g, T)
  BY <1>2, SumSplits
<1>4. SumFunctionOnSet(g, T) = g[x] + SumFunctionOnSet(g, S)
  BY <1>2, <1>3 DEF Splits
<1>5. SumFunctionOnSet(f, S) = SumFunctionOnSet(g, S)
  BY SumAgrees
<1>6. Splits(g, S)
  BY <1>1, <1>2, SumSplits
<1>7. SumFunctionOnSet(g, S) \in Int /\ g[x] \in Int
  BY <1>2, <1>6 DEF Splits
<1> QED
  BY <1>1, <1>4, <1>5, <1>7

LEMMA SumOneLess ==
  ASSUME NEW f, NEW g, NEW S, IsFiniteSet(S), NEW x \in S,
         \A y \in S \ {x} : f[y] = g[y], \A y \in S : f[y] \in Int
  PROVE  /\ SumFunctionOnSet(g, S \ {x}) = SumFunctionOnSet(f, S) - f[x]
         /\ SumFunctionOnSet(f, S) \in Int /\ f[x] \in Int
<1>1. PICK R : R = S \ {x}
  OBVIOUS
<1>2. /\ IsFiniteSet(R) /\ x \notin R /\ R \cup {x} = S
      /\ \A y \in R : g[y] = f[y]
  BY <1>1, FS_Subset
<1>3. /\ SumFunctionOnSet(f, S) = SumFunctionOnSet(g, R) + f[x]
      /\ SumFunctionOnSet(g, R) \in Int /\ f[x] \in Int
  BY <1>2, SumOneMore
<1> QED
  BY <1>1, <1>3

\* What an order shows is a number, and refresh_display computes it.
LEMMA ShownType ==
  ASSUME NEW r \in OrderRecords
  PROVE  /\ Shown(r) \in Int /\ r.remaining \in Int
         /\ Shown(refresh_display(r)) = refresh_display(r).display_remaining
<1>1. r.remaining \in Int /\ r.display_size \in Int /\ r.display_remaining \in Int
  BY DEF OrderRecords
<1>2. Shown(r) \in Int
  BY <1>1 DEF Shown, Lesser
<1>3. PICK n : n = refresh_display(r)
  OBVIOUS
<1>4. /\ n.flags = r.flags /\ n.display_size = r.display_size /\ n.remaining = r.remaining
      /\ n.display_remaining = IF "hidden" \in r.flags THEN 0
        ELSE IF "iceberg" \in r.flags /\ r.display_size > 0
             THEN Lesser(r.display_size, r.remaining)
             ELSE r.remaining
  BY <1>3 DEF refresh_display, OrderRecords
<1>5. Shown(n) = n.display_remaining
  BY <1>4 DEF Shown
<1> QED
  BY <1>1, <1>2, <1>3, <1>5

\* The quantities of no orders.
LEMMA DepthOfNone ==
  ASSUME NEW orders
  PROVE  DepthOf(orders, {}) = NoDepth
<1>1. \A f : DOMAIN f = {} => SumFunction(f) = 0
  BY SumOfNone DEF SumFunction
<1>2. /\ DOMAIN [id \in {} |-> orders[id].remaining] = {}
      /\ DOMAIN [id \in {} |-> Shown(orders[id])] = {}
  OBVIOUS
<1> QED
  BY <1>1, <1>2 DEF DepthOf, NoDepth

\* The two sums of DepthOf are over f and g.
SumsOf(f, g, orders, ids) ==
  /\ f = [id \in ids |-> orders[id].remaining]
  /\ g = [id \in ids |-> Shown(orders[id])]
  /\ DepthOf(orders, ids) = [total |-> SumFunctionOnSet(f, ids),
                             visible |-> SumFunctionOnSet(g, ids)]

LEMMA DepthSums ==
  ASSUME NEW orders, NEW ids
  PROVE  \E f, g : SumsOf(f, g, orders, ids)
<1>1. PICK f, g : /\ f = [id \in ids |-> orders[id].remaining]
                  /\ g = [id \in ids |-> Shown(orders[id])]
  OBVIOUS
<1>2. DOMAIN f = ids /\ DOMAIN g = ids
  BY <1>1
<1>3. DepthOf(orders, ids) = [total |-> SumFunction(f), visible |-> SumFunction(g)]
  BY <1>1 DEF DepthOf
<1> QED
  BY <1>1, <1>2, <1>3 DEF SumFunction, SumsOf

\* push_back, on the sums: the order x comes to the others.
LEMMA DepthOneMore ==
  ASSUME NEW a, NEW b, NEW ids, IsFiniteSet(ids), NEW x, x \notin ids,
         \A id \in ids : a[id] = b[id],
         \A id \in ids \cup {x} : b[id] \in OrderRecords,
         b[x].display_remaining = Shown(b[x])
  PROVE  DepthOf(b, ids \cup {x}) = AddTo(DepthOf(a, ids), b[x])
<1>1. PICK T : T = ids \cup {x}
  OBVIOUS
<1>2. PICK f, g : SumsOf(f, g, a, ids)
  BY DepthSums, Zenon
<1>3. PICK h, k : SumsOf(h, k, b, T)
  BY DepthSums, Zenon
<1>4. /\ \A y \in ids : f[y] = h[y]
      /\ \A y \in T : h[y] \in Int
      /\ \A y \in ids : g[y] = k[y]
      /\ \A y \in T : k[y] \in Int
      /\ h[x] = b[x].remaining /\ k[x] = Shown(b[x])
  BY <1>1, <1>2, <1>3, ShownType DEF SumsOf
<1>5. SumFunctionOnSet(h, T) = SumFunctionOnSet(f, ids) + h[x]
  BY ONLY IsFiniteSet(ids), x \notin ids, <1>1, <1>4, SumOneMore
<1>6. SumFunctionOnSet(k, T) = SumFunctionOnSet(g, ids) + k[x]
  BY ONLY IsFiniteSet(ids), x \notin ids, <1>1, <1>4, SumOneMore
<1> QED
  BY <1>1, <1>2, <1>3, <1>4, <1>5, <1>6 DEF AddTo, SumsOf

\* remove, on the sums: the order x leaves the others.
LEMMA DepthOneLess ==
  ASSUME NEW a, NEW b, NEW ids, IsFiniteSet(ids), NEW x \in ids,
         \A id \in ids \ {x} : a[id] = b[id],
         \A id \in ids : a[id] \in OrderRecords,
         a[x].display_remaining = Shown(a[x])
  PROVE  DepthOf(b, ids \ {x}) = TakeFrom(DepthOf(a, ids), a[x])
<1>1. PICK R : R = ids \ {x}
  OBVIOUS
<1>2. PICK f, g : SumsOf(f, g, a, ids)
  BY DepthSums, Zenon
<1>3. PICK h, k : SumsOf(h, k, b, R)
  BY DepthSums, Zenon
<1>4. /\ \A y \in ids \ {x} : f[y] = h[y]
      /\ \A y \in ids : f[y] \in Int
      /\ \A y \in ids \ {x} : g[y] = k[y]
      /\ \A y \in ids : g[y] \in Int
      /\ f[x] = a[x].remaining /\ g[x] = Shown(a[x])
  BY <1>1, <1>2, <1>3, ShownType DEF SumsOf
<1>5. SumFunctionOnSet(h, R) = SumFunctionOnSet(f, ids) - f[x]
  BY ONLY IsFiniteSet(ids), x \in ids, <1>1, <1>4, SumOneLess
<1>6. SumFunctionOnSet(k, R) = SumFunctionOnSet(g, ids) - g[x]
  BY ONLY IsFiniteSet(ids), x \in ids, <1>1, <1>4, SumOneLess
<1> QED
  BY <1>1, <1>2, <1>3, <1>4, <1>5, <1>6 DEF TakeFrom, SumsOf

\* The sums depend on the orders of the ids alone.
LEMMA DepthSame ==
  ASSUME NEW a, NEW b, NEW ids, IsFiniteSet(ids), \A id \in ids : a[id] = b[id]
  PROVE  DepthOf(a, ids) = DepthOf(b, ids)
<1>1. /\ [id \in ids |-> a[id].remaining] = [id \in ids |-> b[id].remaining]
      /\ [id \in ids |-> Shown(a[id])] = [id \in ids |-> Shown(b[id])]
  OBVIOUS
<1> QED
  BY <1>1 DEF DepthOf

-----------------------------------------------------------------------------
(* The levels after an order came, left or changed                         *)

Books == [OrderIds -> OrderRecords \cup {NoOrder}]

\* Every resting order shows what refresh_display would compute.
Fresh(orders) ==
  \A id \in OrderIds : orders[id] # NoOrder =>
      orders[id].display_remaining = Shown(orders[id])

\* The orders at a price are finitely many.
FiniteLevels(orders) ==
  \A side \in Sides, p \in Prices : IsFiniteSet(OrdersAt(orders, side, p))

\* What the quantities of a level should be.
LevelDepth(orders, side, p) == DepthOf(orders, OrdersAt(orders, side, p))

\* The book goes from a to b, where one level has the quantities d and all other
\* levels have what they had.
LevelMoves(a, b, side, p, d) ==
  /\ b \in Books /\ Fresh(b) /\ FiniteLevels(b)
  /\ \A s \in Sides, x \in Prices :
        LevelDepth(b, s, x) = IF s = side /\ x = p THEN d ELSE LevelDepth(a, s, x)

\* An order leaves.
LEMMA LevelsAfterRemoval ==
  ASSUME NEW a \in Books, Fresh(a), FiniteLevels(a), NEW id \in OrderIds,
         a[id] # NoOrder, NEW b, b = [a EXCEPT ![id] = NoOrder]
  PROVE  LevelMoves(a, b, a[id].side, a[id].price,
                    TakeFrom(LevelDepth(a, a[id].side, a[id].price), a[id]))
<1>1. /\ b \in Books /\ b[id] = NoOrder
      /\ \A o \in OrderIds : o # id => b[o] = a[o]
      /\ a[id] \in OrderRecords
  BY DEF Books
<1>2. Fresh(b)
  BY <1>1 DEF Fresh
<1>3. ASSUME NEW s \in Sides, NEW x \in Prices
      PROVE  /\ IsFiniteSet(OrdersAt(b, s, x))
             /\ LevelDepth(b, s, x) =
                  IF s = a[id].side /\ x = a[id].price
                  THEN TakeFrom(LevelDepth(a, s, x), a[id])
                  ELSE LevelDepth(a, s, x)
  <2>1. PICK ids : ids = OrdersAt(a, s, x)
    OBVIOUS
  <2>2. /\ IsFiniteSet(ids) /\ ids \subseteq OrderIds
        /\ \A o \in ids : a[o] \in OrderRecords
    BY <2>1 DEF FiniteLevels, OrdersAt, Books
  <2>3. CASE s = a[id].side /\ x = a[id].price
    <3>1. id \in ids /\ OrdersAt(b, s, x) = ids \ {id}
      BY <1>1, <2>1, <2>3 DEF OrdersAt
    <3>2. \A o \in ids \ {id} : a[o] = b[o]
      BY <1>1, <2>2
    <3>3. a[id].display_remaining = Shown(a[id])
      BY DEF Fresh
    <3>4. DepthOf(b, ids \ {id}) = TakeFrom(DepthOf(a, ids), a[id])
      BY ONLY <2>2, <3>1, <3>2, <3>3, DepthOneLess
    <3>5. IsFiniteSet(ids \ {id})
      BY <2>2, FS_Subset
    <3> QED
      BY <2>1, <2>3, <3>1, <3>4, <3>5 DEF LevelDepth
  <2>4. CASE ~ (s = a[id].side /\ x = a[id].price)
    <3>1. OrdersAt(b, s, x) = ids /\ \A o \in ids : a[o] = b[o]
      BY <1>1, <2>1, <2>4 DEF OrdersAt
    <3>2. DepthOf(a, ids) = DepthOf(b, ids)
      BY ONLY <2>2, <3>1, DepthSame
    <3> QED
      BY <2>1, <2>2, <2>4, <3>1, <3>2 DEF LevelDepth
  <2> QED
    BY <2>3, <2>4
<1> QED
  BY <1>1, <1>2, <1>3 DEF FiniteLevels, LevelMoves

\* An order comes.
LEMMA LevelsAfterBooking ==
  ASSUME NEW a \in Books, Fresh(a), FiniteLevels(a), NEW r \in OrderRecords,
         a[r.id] = NoOrder, r.display_remaining = Shown(r),
         NEW b, b = [a EXCEPT ![r.id] = r]
  PROVE  LevelMoves(a, b, r.side, r.price, AddTo(LevelDepth(a, r.side, r.price), r))
<1>0. PICK id : id = r.id
  OBVIOUS
<1>1. /\ b \in Books /\ b[id] = r /\ id \in OrderIds /\ r # NoOrder
      /\ \A o \in OrderIds : o # id => b[o] = a[o]
  <2>1. id \in OrderIds
    BY <1>0 DEF OrderRecords
  <2> QED
    BY <1>0, <2>1, NullAssumption DEF Books
<1>2. Fresh(b)
  BY <1>1 DEF Fresh
<1>3. ASSUME NEW s \in Sides, NEW x \in Prices
      PROVE  /\ IsFiniteSet(OrdersAt(b, s, x))
             /\ LevelDepth(b, s, x) =
                  IF s = r.side /\ x = r.price
                  THEN AddTo(LevelDepth(a, s, x), r)
                  ELSE LevelDepth(a, s, x)
  <2>1. PICK ids : ids = OrdersAt(a, s, x)
    OBVIOUS
  <2>2. /\ IsFiniteSet(ids) /\ ids \subseteq OrderIds /\ id \notin ids
        /\ \A o \in ids : a[o] \in OrderRecords
    BY <1>0, <2>1 DEF FiniteLevels, OrdersAt, Books
  <2>3. \A o \in ids : a[o] = b[o]
    BY <1>1, <2>2
  <2>4. CASE s = r.side /\ x = r.price
    <3>1. OrdersAt(b, s, x) = ids \cup {id}
      BY <1>0, <1>1, <2>1, <2>4 DEF OrdersAt
    <3>2. \A o \in ids \cup {id} : b[o] \in OrderRecords
      BY <1>1, <2>2, <2>3
    <3>3. b[id].display_remaining = Shown(b[id])
      BY <1>1
    <3>4. DepthOf(b, ids \cup {id}) = AddTo(DepthOf(a, ids), b[id])
      BY ONLY <2>2, <2>3, <3>2, <3>3, DepthOneMore
    <3>5. IsFiniteSet(ids \cup {id})
      BY <2>2, FS_AddElement
    <3> QED
      BY <1>1, <2>1, <2>4, <3>1, <3>4, <3>5 DEF LevelDepth
  <2>5. CASE ~ (s = r.side /\ x = r.price)
    <3>1. OrdersAt(b, s, x) = ids
      BY <1>0, <1>1, <2>1, <2>5 DEF OrdersAt
    <3>2. DepthOf(a, ids) = DepthOf(b, ids)
      BY ONLY <2>2, <2>3, DepthSame
    <3> QED
      BY <2>1, <2>2, <2>5, <3>1, <3>2 DEF LevelDepth
  <2> QED
    BY <2>4, <2>5
<1> QED
  BY <1>1, <1>2, <1>3 DEF FiniteLevels, LevelMoves

\* An order changes, on its side and at its price.
LEMMA LevelsAfterChange ==
  ASSUME NEW a \in Books, Fresh(a), FiniteLevels(a), NEW r \in OrderRecords,
         a[r.id] # NoOrder, a[r.id].side = r.side, a[r.id].price = r.price,
         r.display_remaining = Shown(r),
         NEW b, b = [a EXCEPT ![r.id] = r]
  PROVE  LevelMoves(a, b, r.side, r.price,
                    AddTo(TakeFrom(LevelDepth(a, r.side, r.price), a[r.id]), r))
<1>1. PICK id, side, p : id = r.id /\ side = r.side /\ p = r.price
  OBVIOUS
<1>2. id \in OrderIds /\ side \in Sides /\ p \in Prices
  BY <1>1 DEF OrderRecords
<1>3. PICK m : m = [a EXCEPT ![id] = NoOrder]
  OBVIOUS
<1>4. LevelMoves(a, m, a[id].side, a[id].price,
                 TakeFrom(LevelDepth(a, a[id].side, a[id].price), a[id]))
  BY <1>1, <1>2, <1>3, LevelsAfterRemoval
<1>5. LevelMoves(a, m, side, p, TakeFrom(LevelDepth(a, side, p), a[id]))
  BY <1>1, <1>4
<1>6. m \in Books /\ Fresh(m) /\ FiniteLevels(m)
  BY <1>5 DEF LevelMoves
<1>7. m[r.id] = NoOrder /\ b = [m EXCEPT ![r.id] = r]
  BY <1>1, <1>2, <1>3 DEF Books
<1>8. LevelMoves(m, b, r.side, r.price, AddTo(LevelDepth(m, r.side, r.price), r))
  BY <1>6, <1>7, LevelsAfterBooking
<1>9. LevelMoves(m, b, side, p, AddTo(TakeFrom(LevelDepth(a, side, p), a[id]), r))
  <2>1. LevelDepth(m, side, p) = TakeFrom(LevelDepth(a, side, p), a[id])
    BY <1>2, <1>5 DEF LevelMoves
  <2> QED
    BY <1>1, <1>8, <2>1
<1>10. PICK c, d : /\ c = TakeFrom(LevelDepth(a, side, p), a[id])
                  /\ d = AddTo(c, r)
  OBVIOUS
<1>11. LevelMoves(a, b, side, p, d)
  BY <1>5, <1>9, <1>10 DEF LevelMoves
<1> QED
  BY <1>1, <1>10, <1>11

-----------------------------------------------------------------------------
(* The aggregates of the levels are exact                                  *)

\* The part of the invariant about quantities; it needs that sets are finite.
QuantityInv ==
  /\ AggregatesExact
  /\ Fresh(book_orders)
  /\ FiniteLevels(book_orders)
  /\ \A side \in Sides : IsFiniteSet(levels[side])

\* A level whose list is empty has no orders.
LEMMA EmptyLevel ==
  ASSUME NEW orders, NEW q, NEW side \in Sides, NEW p \in Prices,
         \A id \in OrderIds : orders[id] # NoOrder =>
            At(q[orders[id].side][orders[id].price], id) # {},
         q[side][p] = <<>>
  PROVE  LevelDepth(orders, side, p) = NoDepth
<1>1. \A id : At(<<>>, id) = {}
  BY DEF At
<1>2. OrdersAt(orders, side, p) = {}
  BY <1>1 DEF OrdersAt
<1> QED
  BY <1>2, DepthOfNone DEF LevelDepth

\* One level and its orders change together.
LEMMA LevelKeepsExact ==
  ASSUME TypeOK, AggregatesExact, NEW side \in Sides, NEW p \in Prices, NEW d,
         LevelMoves(book_orders, book_orders', side, p, d),
         depth' = [depth EXCEPT ![side][p] = d]
  PROVE  AggregatesExact' /\ Fresh(book_orders)' /\ FiniteLevels(book_orders)'
<1>1. PICK b : b = book_orders'
  OBVIOUS
<1>2. Fresh(b) /\ FiniteLevels(b)
  BY <1>1 DEF LevelMoves
<1>3. ASSUME NEW s \in Sides, NEW x \in Prices
      PROVE  depth'[s][x] = LevelDepth(b, s, x)
  <2>1. depth[s][x] = LevelDepth(book_orders, s, x)
    BY DEF AggregatesExact, LevelDepth
  <2>2. LevelDepth(b, s, x) =
           IF s = side /\ x = p THEN d ELSE LevelDepth(book_orders, s, x)
    BY <1>1 DEF LevelMoves
  <2>3. depth'[s][x] = IF s = side /\ x = p THEN d ELSE depth[s][x]
    BY DEF TypeOK, ShardTypeOK
  <2> QED
    BY <2>1, <2>2, <2>3
<1>4. AggregatesExact'
  BY <1>1, <1>3 DEF AggregatesExact, LevelDepth
<1> QED
  BY <1>1, <1>2, <1>4

\* An order is taken off its level, and the level erased if it was the last.
LEMMA RemovalKeepsQuantities ==
  ASSUME Inv, QuantityInv, pc # "maker", NEW id \in OrderIds,
         book_orders[id] # NoOrder, RemoveOrder(id)
  PROVE  /\ QuantityInv'
         /\ depth'[Opposite(book_orders[id].side)]
               = depth[Opposite(book_orders[id].side)]
<1>1. PICK r : r = book_orders[id]
  OBVIOUS
<1>2. r \in OrderRecords /\ r.side \in Sides /\ r.price \in Prices
  BY <1>1 DEF Inv, TypeOK, ShardTypeOK, OrderRecords
<1>3. PICK rest, d :
        /\ queue' = [queue EXCEPT ![r.side][r.price] = rest]
        /\ levels' = [levels EXCEPT ![r.side] =
                         IF rest = <<>> THEN @ \ {r.price} ELSE @]
        /\ depth' = [depth EXCEPT ![r.side][r.price] = d]
        /\ d = IF rest = <<>> THEN NoDepth ELSE TakeFrom(depth[r.side][r.price], r)
        /\ book_orders' = [book_orders EXCEPT ![id] = NoOrder]
  BY <1>1, <1>2 DEF RemoveOrder, empty, Inv, TypeOK, ShardTypeOK
<1>4. PICK b, q : b = book_orders' /\ q = queue'
  OBVIOUS
<1>5. book_orders \in Books
  BY DEF Books, Inv, TypeOK, ShardTypeOK
<1>6. LevelMoves(book_orders, b, r.side, r.price,
                 TakeFrom(LevelDepth(book_orders, r.side, r.price), r))
  BY <1>1, <1>3, <1>4, <1>5, LevelsAfterRemoval DEF QuantityInv
<1>7. LevelDepth(book_orders, r.side, r.price) = depth[r.side][r.price]
  BY <1>2 DEF QuantityInv, AggregatesExact, LevelDepth
<1>8. TakeFrom(LevelDepth(book_orders, r.side, r.price), r) = d
  <2>1. CASE rest = <<>>
    <3>1. q[r.side][r.price] = <<>>
      BY <1>2, <1>3, <1>4, <2>1 DEF Inv, TypeOK, ShardTypeOK
    <3>2. OrdersAreListed'
      BY RemoveOrderKeepsBook DEF Inv, TimePriority
    <3>3. \A o \in OrderIds : b[o] # NoOrder => At(q[b[o].side][b[o].price], o) # {}
      BY <1>4, <3>2 DEF OrdersAreListed
    <3>4. LevelDepth(b, r.side, r.price) = NoDepth
      BY ONLY <1>2, <3>1, <3>3, EmptyLevel
    <3>5. LevelDepth(b, r.side, r.price)
             = TakeFrom(LevelDepth(book_orders, r.side, r.price), r)
      BY <1>2, <1>6 DEF LevelMoves
    <3> QED
      BY <1>3, <2>1, <3>4, <3>5
  <2>2. CASE rest # <<>>
    BY <1>3, <1>7, <2>2
  <2> QED
    BY <2>1, <2>2
<1>9. AggregatesExact' /\ Fresh(book_orders)' /\ FiniteLevels(book_orders)'
  BY <1>2, <1>3, <1>4, <1>6, <1>8, LevelKeepsExact DEF Inv, QuantityInv
<1>10. \A side \in Sides : IsFiniteSet(levels'[side])
  <2>1. \A side \in Sides : levels'[side] \subseteq levels[side]
    BY <1>2, <1>3 DEF Inv, TypeOK, ShardTypeOK
  <2> QED
    BY <2>1, FS_Subset DEF QuantityInv
<1>11. depth'[Opposite(r.side)] = depth[Opposite(r.side)]
  <2>1. Opposite(r.side) # r.side /\ Opposite(r.side) \in Sides
    BY <1>2 DEF Opposite, Sides
  <2> QED
    BY <1>2, <1>3, <2>1 DEF Inv, TypeOK, ShardTypeOK
<1> QED
  BY <1>1, <1>9, <1>10, <1>11 DEF QuantityInv

\* Nothing changes.
LEMMA SameQuantities ==
  ASSUME QuantityInv, UNCHANGED <<book_orders, depth, levels>>
  PROVE  QuantityInv'
<1>1. PICK b : b = book_orders'
  OBVIOUS
<1>2. b = book_orders
  BY <1>1
<1>3. AggregatesExact'
  BY <1>1, <1>2 DEF QuantityInv, AggregatesExact
<1>4. Fresh(b) /\ FiniteLevels(b)
  BY <1>2 DEF QuantityInv
<1> QED
  BY <1>1, <1>3, <1>4 DEF QuantityInv

\* What a fill does to its level.
LEMMA FillDepth ==
  ASSUME Inv, Fill
  PROVE  \E d : /\ depth' = [depth EXCEPT ![Book][it] = d]
                /\ d = LET e == update_after_fill(depth[Book][it],
                                                  book_orders[maker], Shrunk)
                       IN  IF Shrunk.remaining = 0 THEN TakeFrom(e, Shrunk) ELSE e
BY FillFacts DEF Fill, Shrunk, Traded

LEMMA FillKeepsQuantities ==
  ASSUME Inv, QuantityInv, Fill
  PROVE  /\ QuantityInv'
         /\ \E d \in [total : Int, visible : Int] :
               /\ depth' = [depth EXCEPT ![Book][it] = d]
               /\ d.total = depth[Book][it].total - Traded
<1>1. PICK old, new, e : /\ old = book_orders[maker] /\ new = Shrunk
                         /\ e = depth[Book][it]
  OBVIOUS
<1>2. PICK d : /\ depth' = [depth EXCEPT ![Book][it] = d]
               /\ d = IF new.remaining = 0
                      THEN TakeFrom(update_after_fill(e, old, new), new)
                      ELSE update_after_fill(e, old, new)
  BY <1>1, FillDepth
<1>3. /\ Book \in Sides /\ it \in Prices /\ maker \in OrderIds
      /\ e \in [total : Int, visible : Int]
      /\ e = LevelDepth(book_orders, Book, it)
      /\ book_orders \in Books
      /\ old \in OrderRecords /\ old # NoOrder /\ old.side = Book /\ old.price = it
      /\ new \in OrderRecords /\ new.id = maker /\ new.side = Book /\ new.price = it
      /\ new.remaining = old.remaining - Traded /\ Traded \in Int
  <2>1. /\ Book \in Sides /\ it \in Prices /\ maker \in OrderIds
    BY FillFacts
  <2>2. e \in [total : Int, visible : Int] /\ e = LevelDepth(book_orders, Book, it)
    BY <1>1, <2>1 DEF Inv, TypeOK, ShardTypeOK, QuantityInv, AggregatesExact, LevelDepth
  <2> QED
    BY <1>1, <2>1, <2>2, FillFacts, FillEffect DEF Books, Inv, TypeOK, ShardTypeOK
<1>4. /\ old.remaining \in Int /\ old.display_remaining \in Int
      /\ new.remaining \in Int /\ new.display_remaining \in Int
  BY <1>3 DEF OrderRecords
<1>5. d \in [total : Int, visible : Int] /\ d.total = e.total - Traded
  <2>0. e.total \in Int /\ e.visible \in Int
    BY <1>3
  <2>1. PICK f : f = update_after_fill(e, old, new)
    OBVIOUS
  <2>2. f \in [total : Int, visible : Int] /\ f.total = e.total - Traded
    BY ONLY <1>3, <1>4, <2>0, <2>1 DEF update_after_fill
  <2>3. CASE new.remaining = 0
    <3>1. d = TakeFrom(f, new)
      BY <1>2, <2>1, <2>3
    <3> QED
      BY ONLY <1>4, <2>0, <2>2, <2>3, <1>3, <3>1 DEF TakeFrom
  <2>4. CASE new.remaining # 0
    BY <1>2, <2>1, <2>2, <2>4
  <2> QED
    BY <2>3, <2>4
<1>6. new.display_remaining = Shown(new)
  <2>1. PICK cut : cut = [old EXCEPT !.remaining = @ - Traded]
    OBVIOUS
  <2>2. cut \in OrderRecords
    BY <1>3, <1>4, <2>1 DEF OrderRecords
  <2>3. new = refresh_display(cut)
    BY <1>1, <2>1 DEF Shrunk
  <2> QED
    BY <2>2, <2>3, ShownType
<1>7. PICK b : b = book_orders'
  OBVIOUS
<1>8. LevelMoves(book_orders, b, Book, it, d)
  <2>1. CASE new.remaining = 0
    <3>1. b = [book_orders EXCEPT ![maker] = NoOrder]
      BY <1>1, <1>7, <2>1, FillEffect
    <3>2. LevelMoves(book_orders, b, Book, it, TakeFrom(e, old))
      BY <1>1, <1>3, <3>1, LevelsAfterRemoval DEF QuantityInv
    <3>3. TakeFrom(e, old) = TakeFrom(update_after_fill(e, old, new), new)
      BY <1>3, <1>4 DEF TakeFrom, update_after_fill
    <3> QED
      BY <1>2, <2>1, <3>2, <3>3
  <2>2. CASE new.remaining # 0
    <3>1. b = [book_orders EXCEPT ![new.id] = new]
      BY <1>1, <1>3, <1>7, <2>2, FillEffect
    <3>2. /\ book_orders[new.id] # NoOrder
          /\ book_orders[new.id].side = new.side
          /\ book_orders[new.id].price = new.price
      BY <1>1, <1>3
    <3>3. LevelMoves(book_orders, b, new.side, new.price,
             AddTo(TakeFrom(LevelDepth(book_orders, new.side, new.price),
                            book_orders[new.id]), new))
      BY <1>3, <1>6, <3>1, <3>2, LevelsAfterChange DEF QuantityInv
    <3>4. AddTo(TakeFrom(e, old), new) = update_after_fill(e, old, new)
      BY <1>3, <1>4 DEF AddTo, TakeFrom, update_after_fill
    <3> QED
      BY <1>1, <1>2, <1>3, <2>2, <3>3, <3>4
  <2> QED
    BY <2>1, <2>2
<1>9. AggregatesExact' /\ Fresh(book_orders)' /\ FiniteLevels(book_orders)'
  BY <1>2, <1>3, <1>7, <1>8, LevelKeepsExact DEF Inv, QuantityInv
<1>10. \A side \in Sides : IsFiniteSet(levels'[side])
  BY FillEffect DEF QuantityInv
<1> QED
  BY <1>1, <1>2, <1>5, <1>9, <1>10 DEF QuantityInv

LEMMA LeaveLevelKeepsQuantities ==
  ASSUME Inv, QuantityInv, LeaveLevel
  PROVE  /\ QuantityInv' /\ depth' = depth
         /\ queue[Book][it] = <<>> => depth[Book][it] = NoDepth
<1>1. /\ Book \in Sides /\ it \in Prices /\ UNCHANGED book_orders
      /\ depth \in [Sides -> [Prices -> [total : Int, visible : Int]]]
  BY ExecutingFacts, NullAssumption
     DEF LeaveLevel, Executing, Inv, TypeOK, ShardTypeOK, CallTypeOK
<1>2. queue[Book][it] = <<>> => depth[Book][it] = NoDepth
  <2> SUFFICES ASSUME queue[Book][it] = <<>> PROVE depth[Book][it] = NoDepth
    OBVIOUS
  <2>1. LevelDepth(book_orders, Book, it) = NoDepth
    BY <1>1, EmptyLevel DEF Inv, BookIntegrity, OrdersAreListed
  <2> QED
    BY <1>1, <2>1 DEF QuantityInv, AggregatesExact, LevelDepth
<1>3. depth' = depth
  <2>1. CASE queue[Book][it] = <<>>
    <3>1. PICK n : n = NoDepth
      OBVIOUS
    <3>2. depth' = [depth EXCEPT ![Book][it] = n] /\ depth[Book][it] = n
      BY <1>2, <2>1, <3>1 DEF LeaveLevel, empty
    <3> QED
      BY <1>1, <3>2
  <2>2. CASE queue[Book][it] # <<>>
    BY <2>2 DEF LeaveLevel, empty
  <2> QED
    BY <2>1, <2>2
<1>4. \A side \in Sides : IsFiniteSet(levels'[side])
  <2>1. \A side \in Sides : levels'[side] \subseteq levels[side]
    <3>1. CASE queue[Book][it] = <<>>
      BY <1>1, <3>1 DEF LeaveLevel, empty, Inv, TypeOK, ShardTypeOK
    <3>2. CASE queue[Book][it] # <<>>
      BY <3>2 DEF LeaveLevel, empty
    <3> QED
      BY <3>1, <3>2
  <2> QED
    BY <2>1, FS_Subset DEF QuantityInv
<1>5. PICK b : b = book_orders'
  OBVIOUS
<1>6. b = book_orders
  BY <1>1, <1>5
<1>7. AggregatesExact'
  BY <1>3, <1>5, <1>6 DEF QuantityInv, AggregatesExact
<1>8. Fresh(b) /\ FiniteLevels(b)
  BY <1>6 DEF QuantityInv
<1> QED
  BY <1>2, <1>3, <1>4, <1>5, <1>7, <1>8 DEF QuantityInv

LEMMA FinishKeepsQuantities ==
  ASSUME Inv, QuantityInv, Finish
  PROVE  QuantityInv'
<1>1. CASE UNCHANGED shard
  BY <1>1, SameQuantities DEF shard
<1>2. CASE ~ UNCHANGED shard
  <2>1. PICK r : r = refresh_display(taker)
    OBVIOUS
  <2>2. /\ book_orders[taker.id] = NoOrder
        /\ book_orders' = [book_orders EXCEPT ![taker.id] = r]
        /\ levels' = [levels EXCEPT ![r.side] = @ \cup {r.price}]
        /\ depth' = [depth EXCEPT ![r.side][r.price] = AddTo(@, r)]
    BY <1>2, <2>1 DEF Finish, rest_order
  <2>3. Executing
    BY DEF Finish, Executing
  <2>4. taker \in OrderRecords
    BY <2>3, ExecutingFacts
  <2>5. /\ r \in OrderRecords /\ r.id = taker.id
        /\ r.display_remaining = Shown(r)
    BY <2>1, <2>4, RefreshDisplayType, ShownType
  <2>6. r.side \in Sides /\ r.price \in Prices
    BY <2>5 DEF OrderRecords
  <2>7. PICK b, d : b = book_orders' /\ d = AddTo(depth[r.side][r.price], r)
    OBVIOUS
  <2>8. depth' = [depth EXCEPT ![r.side][r.price] = d]
    BY <2>2, <2>6, <2>7 DEF Inv, TypeOK, ShardTypeOK
  <2>9. LevelDepth(book_orders, r.side, r.price) = depth[r.side][r.price]
    BY <2>6 DEF QuantityInv, AggregatesExact, LevelDepth
  <2>10. book_orders \in Books
    BY DEF Books, Inv, TypeOK, ShardTypeOK
  <2>11. book_orders[r.id] = NoOrder /\ b = [book_orders EXCEPT ![r.id] = r]
    BY <2>2, <2>5, <2>7
  <2>12. LevelMoves(book_orders, b, r.side, r.price,
                    AddTo(LevelDepth(book_orders, r.side, r.price), r))
    BY <2>5, <2>10, <2>11, LevelsAfterBooking DEF QuantityInv
  <2>13. LevelMoves(book_orders, b, r.side, r.price, d)
    BY <2>7, <2>9, <2>12
  <2>14. AggregatesExact' /\ Fresh(book_orders)' /\ FiniteLevels(book_orders)'
    BY <2>6, <2>7, <2>8, <2>13, LevelKeepsExact DEF Inv, QuantityInv
  <2>15. \A side \in Sides : IsFiniteSet(levels'[side])
    <3> SUFFICES ASSUME NEW side \in Sides PROVE IsFiniteSet(levels'[side])
      OBVIOUS
    <3>1. levels'[side] = levels[side] \/ levels'[side] = levels[side] \cup {r.price}
      BY <2>2, <2>6 DEF Inv, TypeOK, ShardTypeOK
    <3>2. IsFiniteSet(levels[side])
      BY DEF QuantityInv
    <3> QED
      BY <3>1, <3>2, FS_AddElement
  <2> QED
    BY <2>14, <2>15 DEF QuantityInv
<1> QED
  BY <1>1, <1>2

\* A market without orders.
LEMMA NewMarketQuantities ==
  ASSUME NEW orders, NEW d, orders = [id \in OrderIds |-> NoOrder],
         d = [side \in Sides |-> [p \in Prices |-> NoDepth]]
  PROVE  /\ Fresh(orders) /\ FiniteLevels(orders)
         /\ \A side \in Sides, p \in Prices : d[side][p] = LevelDepth(orders, side, p)
<1>1. \A side \in Sides, p \in Prices : OrdersAt(orders, side, p) = {}
  BY DEF OrdersAt
<1>2. \A side \in Sides, p \in Prices : LevelDepth(orders, side, p) = NoDepth
  BY <1>1, DepthOfNone DEF LevelDepth
<1> QED
  BY <1>1, <1>2, FS_EmptySet DEF Fresh, FiniteLevels

LEMMA InitQuantities ==
  ASSUME Init
  PROVE  QuantityInv
<1>1. /\ Fresh(book_orders) /\ FiniteLevels(book_orders)
      /\ \A side \in Sides, p \in Prices :
            depth[side][p] = LevelDepth(book_orders, side, p)
  BY NewMarketQuantities DEF Init
<1>2. \A side \in Sides : IsFiniteSet(levels[side])
  BY FS_EmptySet DEF Init
<1> QED
  BY <1>1, <1>2 DEF QuantityInv, AggregatesExact, LevelDepth

LEMMA ClearKeepsQuantities ==
  ASSUME ClearMarket
  PROVE  QuantityInv'
<1>1. PICK b, d : b = book_orders' /\ d = depth'
  OBVIOUS
<1>2. /\ b = [id \in OrderIds |-> NoOrder]
      /\ d = [side \in Sides |-> [p \in Prices |-> NoDepth]]
  BY <1>1 DEF ClearMarket
<1>3. /\ Fresh(b) /\ FiniteLevels(b)
      /\ \A side \in Sides, p \in Prices : d[side][p] = LevelDepth(b, side, p)
  BY <1>2, NewMarketQuantities
<1>4. \A side \in Sides : IsFiniteSet(levels'[side])
  BY FS_EmptySet DEF ClearMarket
<1>5. AggregatesExact'
  BY <1>1, <1>3 DEF AggregatesExact, LevelDepth
<1> QED
  BY <1>1, <1>3, <1>4, <1>5 DEF QuantityInv

\* Every step keeps the quantities exact.
LEMMA NextKeepsQuantities ==
  ASSUME Inv, QuantityInv, [Next]_vars
  PROVE  QuantityInv'
<1>1. CASE UNCHANGED <<book_orders, depth, levels>>
  BY <1>1, SameQuantities
<1>2. CASE \E req \in OrderRequests : Replace(req)
  <2>1. PICK req \in OrderRequests : Replace(req)
    BY <1>2
  <2>2. pc = "idle" /\ req.id \in OrderIds
    BY <2>1 DEF Replace, OrderRequests
  <2>3. CASE book_orders[req.id] = NoOrder
    BY <2>1, <2>3, SameQuantities DEF Replace, shard
  <2>4. CASE book_orders[req.id] # NoOrder
    <3>1. RemoveOrder(req.id)
      BY <2>1, <2>4 DEF Replace
    <3> QED
      BY <2>2, <2>4, <3>1, RemovalKeepsQuantities
  <2> QED
    BY <2>3, <2>4
<1>3. CASE \E id \in OrderIds : Cancel(id)
  <2>1. PICK id \in OrderIds : Cancel(id)
    BY <1>3
  <2>2. pc = "idle"
    BY <2>1 DEF Cancel
  <2>3. CASE book_orders[id] = NoOrder
    BY <2>1, <2>3, SameQuantities DEF Cancel, shard
  <2>4. CASE book_orders[id] # NoOrder
    <3>1. RemoveOrder(id)
      BY <2>1, <2>4 DEF Cancel
    <3> QED
      BY <2>2, <2>4, <3>1, RemovalKeepsQuantities
  <2> QED
    BY <2>3, <2>4
<1>4. CASE ClearMarket
  BY <1>4, ClearKeepsQuantities
<1>5. CASE Fill
  BY <1>5, FillKeepsQuantities
<1>6. CASE LeaveLevel
  BY <1>6, LeaveLevelKeepsQuantities
<1>7. CASE Finish
  BY <1>7, FinishKeepsQuantities
<1>8. CASE AddMarket \/ EnterLevel \/ StopMatching \/ Return \/ UNCHANGED vars
  <2>1. UNCHANGED <<book_orders, depth, levels>>
    BY <1>8 DEF AddMarket, EnterLevel, StopMatching, Return, vars, shard
  <2> QED
    BY <2>1, SameQuantities
<1>9. CASE \E req \in OrderRequests : Submit(req)
  <2>1. UNCHANGED <<book_orders, depth, levels>>
    BY <1>9 DEF Submit
  <2> QED
    BY <2>1, SameQuantities
<1> QED
  BY <1>1, <1>2, <1>3, <1>4, <1>5, <1>6, <1>7, <1>8, <1>9 DEF Next, Step

\* total_qty and visible_qty of each level are what its orders have left and
\* what they show, for any orders, flags and display sizes.
THEOREM AggregatesAreExact == Spec => []AggregatesExact
<1>1. Init => QuantityInv
  BY InitQuantities
<1>2. Inv /\ QuantityInv /\ [Next]_vars => QuantityInv'
  BY NextKeepsQuantities
<1>3. QuantityInv => AggregatesExact
  BY DEF QuantityInv
<1> QED
  BY <1>1, <1>2, <1>3, InvHolds, PTL DEF Spec

-----------------------------------------------------------------------------
(* Fill-or-kill orders                                                     *)

\* The total quantity of the levels S of a side.
TotalAt(d, side, S) == SumFunctionOnSet([p \in Prices |-> d[side][p].total], S)

\* A running fill-or-kill order asks for no more than the levels that it crosses
\* have; one that was refused has traded nothing.
FokInv ==
  /\ (Executing /\ taker.tif = "FOK") =>
        taker.remaining <= TotalAt(depth, Book, Crossed)
  /\ (pc = "ret" /\ result.reject_code = "InsufficientLiquidity") => fills = <<>>

\* Some levels of a side are finitely many, and their total is a number.
LEMMA TotalIsNumber ==
  ASSUME Inv, QuantityInv, NEW side \in Sides, NEW S \in SUBSET levels[side]
  PROVE  /\ S \subseteq Prices /\ IsFiniteSet(S)
         /\ \A p \in Prices : depth[side][p].total \in Int
         /\ TotalAt(depth, side, S) \in Int
<1>1. S \subseteq Prices
  BY DEF Inv, TypeOK, ShardTypeOK
<1>2. IsFiniteSet(S)
  BY FS_Subset DEF QuantityInv
<1>3. \A p \in Prices : depth[side][p].total \in Int
  <2>1. \A p \in Prices : depth[side][p] \in [total : Int, visible : Int]
    BY DEF Inv, TypeOK, ShardTypeOK
  <2> QED
    BY <2>1
<1>4. PICK f : f = [p \in Prices |-> depth[side][p].total]
  OBVIOUS
<1>5. \A p \in S : f[p] \in Int
  BY <1>1, <1>3, <1>4
<1>6. Splits(f, S)
  BY <1>2, <1>5, SumSplits
<1> QED
  BY <1>1, <1>2, <1>3, <1>4, <1>6 DEF Splits, TotalAt

\* place_order lets a fill-or-kill order pass if the levels it crosses have
\* enough; taking an order off its own side does not change them.
LEMMA PlaceOrderCovered ==
  ASSUME Inv, QuantityInv, pc = "idle", NEW req \in OrderRequests,
         place_order(req),
         levels'[Opposite(req.side)] = levels[Opposite(req.side)],
         depth'[Opposite(req.side)] = depth[Opposite(req.side)]
  PROVE  FokInv'
<1>1. CASE pc' = "ret"
  <2>1. fills' = <<>>
    BY <1>1 DEF place_order, Reject, Answer, Inv, TypeOK, CallTypeOK
  <2> QED
    BY <1>1, <2>1 DEF FokInv, Executing
<1>2. CASE pc' # "ret"
  <2>1. /\ ~ InsufficientLiquidity(req)
        /\ taker' = TakerRecord(req)
        /\ pc' = "level"
    BY <1>2 DEF place_order, Reject, Answer
  <2>2. /\ taker'.side = req.side /\ taker'.price = req.price
        /\ taker'.tif = req.tif /\ taker'.remaining = req.quantity
    BY <2>1 DEF TakerRecord
  <2>3. PICK side, S : /\ side = Opposite(req.side)
                       /\ S = {p \in levels[side] : crosses(req.side, req.price, p)}
    OBVIOUS
  <2>4. Book' = side /\ Crossed' = S
    BY <2>2, <2>3 DEF Book, Crossed
  <2>5. TotalAt(depth, side, S) = TotalAt(depth', side, S)
    BY <2>3 DEF TotalAt
  <2>6. fillable_quantity(req) = TotalAt(depth, side, S)
    BY <2>3 DEF fillable_quantity, TotalAt
  <2>7. ASSUME req.tif = "FOK" PROVE req.quantity <= TotalAt(depth, side, S)
    <3>1. ~ (TotalAt(depth, side, S) < req.quantity)
      BY <2>1, <2>6, <2>7 DEF InsufficientLiquidity
    <3>2. side \in Sides /\ S \in SUBSET levels[side]
      BY <2>3 DEF OrderRequests, Opposite, Sides
    <3>3. TotalAt(depth, side, S) \in Int
      BY <3>2, TotalIsNumber
    <3>4. req.quantity \in Int
      BY QuantitiesAssumption DEF OrderRequests
    <3> QED
      BY <3>1, <3>3, <3>4
  <2> QED
    BY <2>1, <2>2, <2>4, <2>5, <2>7 DEF FokInv
<1> QED
  BY <1>1, <1>2

\* A fill takes as much from the total of its level as from the order.
LEMMA FillCovered ==
  ASSUME Inv, QuantityInv, FokInv, Fill
  PROVE  FokInv'
<1>1. /\ Executing /\ Book \in Sides /\ it \in Prices /\ pc = "maker" /\ pc' = pc
      /\ Traded \in Int /\ taker \in OrderRecords /\ taker.remaining \in Int
      /\ taker' = [taker EXCEPT !.remaining = @ - Traded]
      /\ UNCHANGED levels
  BY FillFacts, FillEffect, ExecutingFacts DEF Fill
<1>2. /\ taker'.side = taker.side /\ taker'.price = taker.price
      /\ taker'.tif = taker.tif /\ taker'.remaining = taker.remaining - Traded
  BY <1>1 DEF OrderRecords
<1>3. PICK side, S : side = Book /\ S = Crossed
  OBVIOUS
<1>4. Book' = side /\ Crossed' = S
  BY <1>1, <1>2, <1>3 DEF Book, Crossed
<1>5. it \in S /\ side \in Sides /\ S \in SUBSET levels[side]
  BY <1>1, <1>3 DEF Inv, MatchingLoop, Crossed
<1>6. /\ S \subseteq Prices /\ IsFiniteSet(S)
      /\ \A p \in Prices : depth[side][p].total \in Int
      /\ TotalAt(depth, side, S) \in Int
  BY <1>5, TotalIsNumber
<1>7. PICK d \in [total : Int, visible : Int] :
        /\ depth' = [depth EXCEPT ![side][it] = d]
        /\ d.total = depth[side][it].total - Traded
  BY <1>3, FillKeepsQuantities
<1>8. PICK f, g : /\ f = [p \in Prices |-> depth[side][p].total]
                  /\ g = [p \in Prices |-> depth'[side][p].total]
  OBVIOUS
<1>9. /\ \A p \in Prices : f[p] \in Int /\ g[p] \in Int
      /\ \A p \in Prices : p # it => f[p] = g[p]
      /\ g[it] = f[it] - Traded
  <2>1. /\ \A p \in Prices : p # it => depth'[side][p] = depth[side][p]
        /\ depth'[side][it] = d
    BY <1>1, <1>5, <1>7 DEF Inv, TypeOK, ShardTypeOK
  <2>2. d.total \in Int
    BY <1>7
  <2> QED
    BY <1>1, <1>6, <1>7, <1>8, <2>1, <2>2
<1>10. PICK R : R = S \ {it}
  OBVIOUS
<1>11. /\ IsFiniteSet(R) /\ it \notin R /\ R \cup {it} = S
       /\ \A p \in R : f[p] = g[p]
       /\ \A p \in S : f[p] \in Int
       /\ \A p \in S : g[p] \in Int
  BY <1>5, <1>6, <1>9, <1>10, FS_Subset
<1>12. SumFunctionOnSet(f, R) = SumFunctionOnSet(f, S) - f[it]
  BY ONLY <1>5, <1>6, <1>10, <1>11, SumOneLess
<1>13. SumFunctionOnSet(g, S) = SumFunctionOnSet(f, R) + g[it]
  BY ONLY <1>11, SumOneMore
<1>14. TotalAt(depth, side, S) = SumFunctionOnSet(f, S)
  BY <1>8 DEF TotalAt
<1>15. TotalAt(depth', side, S) = SumFunctionOnSet(g, S)
  BY <1>8 DEF TotalAt
<1>16. TotalAt(depth', side, S) = TotalAt(depth, side, S) - Traded
  <2>1. f[it] \in Int /\ g[it] = f[it] - Traded /\ SumFunctionOnSet(f, S) \in Int
    BY <1>1, <1>6, <1>9, <1>14
  <2> QED
    BY <1>1, <1>12, <1>13, <1>14, <1>15, <2>1
<1>17. ASSUME taker'.tif = "FOK"
       PROVE  taker'.remaining <= TotalAt(depth', side, S)
  <2>1. taker.remaining <= TotalAt(depth, side, S)
    BY <1>1, <1>2, <1>3, <1>17 DEF FokInv
  <2> QED
    BY <1>1, <1>2, <1>6, <1>16, <2>1
<1> QED
  BY <1>1, <1>4, <1>17 DEF FokInv

\* The level that match_order leaves is kept, or has nothing to give.
LEMMA LeaveLevelCovered ==
  ASSUME Inv, QuantityInv, FokInv, LeaveLevel
  PROVE  FokInv'
<1>1. /\ pc = "maker" /\ pc' = "level" /\ UNCHANGED <<taker, depth>>
      /\ Executing /\ Book' = Book
  BY LeaveLevelKeepsQuantities DEF LeaveLevel, Executing, Book
<1>2. /\ Book \in Sides /\ it \in Crossed /\ it \in Prices
      /\ levels \in [Sides -> SUBSET Prices]
  BY <1>1, ExecutingFacts DEF Inv, MatchingLoop, TypeOK, ShardTypeOK, Crossed
<1>3. PICK side, S : side = Book /\ S = Crossed
  OBVIOUS
<1>4. /\ S \subseteq Prices /\ IsFiniteSet(S)
      /\ \A p \in Prices : depth[side][p].total \in Int
  BY <1>2, <1>3, TotalIsNumber DEF Crossed
<1>5. TotalAt(depth, side, Crossed') = TotalAt(depth, side, S)
  <2>1. CASE queue[Book][it] = <<>>
    <3>1. Crossed' = S \ {it}
      <4>1. levels'[Book] = levels[Book] \ {it}
        BY <1>2, <2>1 DEF LeaveLevel, empty
      <4> QED
        BY <1>1, <1>3, <4>1 DEF Crossed
    <3>2. depth[side][it].total = 0
      BY <1>3, <2>1, LeaveLevelKeepsQuantities DEF NoDepth
    <3>3. PICK f, R : f = [p \in Prices |-> depth[side][p].total] /\ R = S \ {it}
      OBVIOUS
    <3>4. /\ \A p \in S : f[p] \in Int
          /\ \A p \in S \ {it} : f[p] = f[p]
          /\ f[it] = 0 /\ it \in S
      BY <1>2, <1>3, <1>4, <3>2, <3>3
    <3>5. /\ SumFunctionOnSet(f, S \ {it}) = SumFunctionOnSet(f, S) - f[it]
          /\ SumFunctionOnSet(f, S) \in Int
      BY ONLY <1>4, <3>4, SumOneLess
    <3>6. SumFunctionOnSet(f, R) = SumFunctionOnSet(f, S)
      BY <3>3, <3>4, <3>5
    <3> QED
      BY <3>1, <3>3, <3>6 DEF TotalAt
  <2>2. CASE queue[Book][it] # <<>>
    <3>1. levels' = levels
      BY <2>2 DEF LeaveLevel, empty
    <3> QED
      BY <1>1, <1>3, <3>1 DEF Crossed
  <2> QED
    BY <2>1, <2>2
<1> QED
  BY <1>1, <1>3, <1>5 DEF FokInv

\* Every step keeps fill-or-kill orders covered.
LEMMA NextKeepsFok ==
  ASSUME Inv, QuantityInv, FokInv, [Next]_vars
  PROVE  FokInv'
<1>1. CASE \E req \in OrderRequests : Submit(req)
  <2>1. PICK req \in OrderRequests : Submit(req)
    BY <1>1
  <2>2. pc = "idle" /\ UNCHANGED <<levels, depth>>
    BY <2>1 DEF Submit
  <2>3. CASE place_order(req)
    BY <2>2, <2>3, PlaceOrderCovered
  <2>4. CASE ~ place_order(req)
    <3>1. pc' = "ret" /\ fills' = <<>>
      BY <2>1, <2>2, <2>4 DEF Submit, Reject, Answer, Inv, TypeOK, CallTypeOK
    <3> QED
      BY <3>1 DEF FokInv, Executing
  <2> QED
    BY <2>3, <2>4
<1>2. CASE \E req \in OrderRequests : Replace(req)
  <2>1. PICK req \in OrderRequests : Replace(req)
    BY <1>2
  <2>2. pc = "idle" /\ req.id \in OrderIds
    BY <2>1 DEF Replace, OrderRequests
  <2>3. CASE book_orders[req.id] = NoOrder
    <3>1. pc' = "ret" /\ fills' = <<>>
      BY <2>1, <2>2, <2>3 DEF Replace, Reject, Answer, Inv, TypeOK, CallTypeOK
    <3> QED
      BY <3>1 DEF FokInv, Executing
  <2>4. CASE book_orders[req.id] # NoOrder
    <3>1. /\ RemoveOrder(req.id) /\ place_order(req)
          /\ req.side = book_orders[req.id].side
      BY <2>1, <2>4 DEF Replace
    <3>2. levels'[Opposite(req.side)] = levels[Opposite(req.side)]
      BY <2>2, <2>4, <3>1, RemovalLeaves
    <3>3. depth'[Opposite(req.side)] = depth[Opposite(req.side)]
      BY <2>2, <2>4, <3>1, RemovalKeepsQuantities
    <3> QED
      BY <2>2, <3>1, <3>2, <3>3, PlaceOrderCovered
  <2> QED
    BY <2>3, <2>4
<1>3. CASE \E id \in OrderIds : Cancel(id)
  <2>1. pc' = "ret" /\ fills' = <<>>
    BY <1>3 DEF Cancel, Reject, Answer, Inv, TypeOK, CallTypeOK
  <2> QED
    BY <2>1 DEF FokInv, Executing
<1>4. CASE AddMarket \/ ClearMarket
  BY <1>4 DEF AddMarket, ClearMarket, FokInv, Executing
<1>5. CASE EnterLevel \/ StopMatching
  <2>1. /\ UNCHANGED <<taker, depth, levels>>
        /\ Executing /\ pc' # "ret"
    BY <1>5 DEF EnterLevel, StopMatching, Executing, shard, locals
  <2>2. Book' = Book /\ Crossed' = Crossed
    BY <2>1 DEF Book, Crossed
  <2> QED
    BY <2>1, <2>2 DEF FokInv
<1>6. CASE Fill
  BY <1>6, FillCovered
<1>7. CASE LeaveLevel
  BY <1>7, LeaveLevelCovered
<1>8. CASE Finish
  BY <1>8 DEF Finish, NoResult, FokInv, Executing
<1>9. CASE Return
  BY <1>9 DEF Return, FokInv, Executing
<1>10. CASE UNCHANGED vars
  <2>1. UNCHANGED <<taker, depth, levels, pc, result, fills>>
    BY <1>10 DEF vars, shard, locals
  <2>2. Book' = Book /\ Crossed' = Crossed /\ Executing' = Executing
    BY <2>1 DEF Book, Crossed, Executing
  <2> QED
    BY <2>1, <2>2 DEF FokInv
<1> QED
  BY <1>1, <1>2, <1>3, <1>4, <1>5, <1>6, <1>7, <1>8, <1>9, <1>10 DEF Next, Step

\* A fill-or-kill order that the liquidity check let pass is filled to the last
\* unit, and a refused one has traded nothing, for any book.
THEOREM FokIsAllOrNothing == Spec => []FokAllOrNothing
<1>1. Init => QuantityInv /\ FokInv
  BY InitQuantities DEF Init, FokInv, Executing
<1>2. Inv /\ QuantityInv /\ FokInv /\ [Next]_vars => QuantityInv' /\ FokInv'
  BY NextKeepsQuantities, NextKeepsFok
<1>3. Inv /\ FokInv => FokAllOrNothing
  <2> SUFFICES ASSUME Inv, FokInv PROVE FokAllOrNothing
    OBVIOUS
  <2>1. ASSUME pc = "rest", taker.tif = "FOK", taker.remaining > 0 PROVE FALSE
    <3>1. Executing /\ Crossed = {}
      BY <2>1 DEF Executing, Inv, MatchingLoop
    <3>2. TotalAt(depth, Book, {}) = 0
      BY SumOfNone DEF TotalAt
    <3>3. taker.remaining <= 0 /\ taker.remaining \in Int
      BY <2>1, <3>1, <3>2, ExecutingFacts DEF FokInv
    <3> QED
      BY <2>1, <3>3
  <2>2. pc = "rest" => taker.remaining \in Int
    BY ExecutingFacts DEF Executing
  <2> QED
    BY <2>1, <2>2 DEF FokAllOrNothing, FokInv
<1> QED
  BY <1>1, <1>2, <1>3, InvHolds, PTL DEF Spec
=============================================================================
