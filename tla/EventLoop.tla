----------------------------- MODULE EventLoop -----------------------------
(***************************************************************************)
(* The event loop of tradecored (apps/tradecored/src/main.cpp), composed   *)
(* of what its parts promise: the lanes are queues (SpscRing implements    *)
(* BoundedFifo), the market is PriceTimeBook (MatchingEngine implements    *)
(* it), and the log numbers its records one after the other (WalWriter).   *)
(*                                                                         *)
(* Each turn drains the three lanes one after the other.  A frame is       *)
(* logged, decoded, checked by the risk engine and given to the matcher;   *)
(* its fills go to the positions of both sides, the maker's found through  *)
(* resting_orders, and to the trade metadata.  Only the receive thread and *)
(* the signal handler run beside the loop.                                 *)
(*                                                                         *)
(* Left out: what RiskEngine computes (its verdict is a free choice), the  *)
(* eviction of old entries from the router's buffers, other markets, and   *)
(* the steps of persist (Recovery has them).                               *)
(***************************************************************************)
EXTENDS Integers, Sequences

CONSTANTS Accounts,
          Nonces,            \* of new orders
          SessionIds,        \* how many SessionIds there are, 2^16
          LocalIds,          \* how many local numbers there are, 2^32
          Prices,
          Quantities,
          Orders,            \* what decode_new_order may return
          Replaces,          \* what decode_replace may return, but for the id
          DrainOrder,        \* the order in which a turn drains the lanes
          FirstOffset,       \* next_sequence of the log at start
          SnapshotInterval,  \* kSnapshotInterval
          MaxLabel,          \* the largest label of a snapshot, 2^32 - 1
          MaxFrames,         \* bound: the frames accepted in a behaviour
          NoOrder, NoContext, NoFrame

Kinds == {"new", "cancel", "replace"}
Sides == {"buy", "sell"}

ASSUME QuantitiesAssumption == Quantities \subseteq Int /\ Prices \subseteq Int
ASSUME NumbersAssumption ==
    /\ Accounts \subseteq Nat /\ Nonces \subseteq Nat
    /\ SessionIds \in Nat \ {0} /\ LocalIds \in Nat \ {0}
ASSUME OffsetAssumption == FirstOffset \in Nat \ {0}
ASSUME IntervalAssumption == SnapshotInterval \in Nat /\ MaxLabel \in Nat
ASSUME PayloadsAssumption ==
    /\ Orders \subseteq [side : Sides, price : Prices, quantity : Quantities,
                         post_only : BOOLEAN]
    /\ Replaces \subseteq [price : Prices, quantity : Quantities, post_only : BOOLEAN]
\* The operands of + are evaluated in an order that the compiler chooses.
ASSUME DrainOrderAssumption ==
    /\ DrainOrder \in [1 .. 3 -> Kinds]
    /\ \A k \in Kinds : \E i \in 1 .. 3 : DrainOrder[i] = k

\* OrderId: session and local; the market is always the default one.
OrderIds == (0 .. SessionIds - 1) \X (0 .. LocalIds - 1)

\* What the payload and the header of an accepted frame decode to; n is its place in
\* the order of arrival.  Whoever names an order may cancel or replace it.
Frames(N) ==
    [kind : {"new"}, n : N, account : Accounts, nonce : Nonces, order : Orders]
    \cup [kind : {"cancel"}, n : N, id : OrderIds]
    \cup [kind : {"replace"}, n : N, account : Accounts, id : OrderIds, order : Replaces]

\* The order that a frame is about.  The id of a new one keeps the low bits of the
\* sender's account and nonce, so that different orders may get the same.
order_id(f) ==
    IF f.kind = "new" THEN <<f.account % SessionIds, f.nonce % LocalIds>> ELSE f.id

\* struct RestingOrderContext.
Contexts == [account : Accounts, side : Sides]

ASSUME NullAssumption ==
    NoContext \notin [account : Nat, side : Sides] /\ NoFrame \notin Frames(Nat)

VARIABLES
    lanes,                \* the frames of each lane
    arrived,              \* how many frames were accepted
    shutdown,             \* g_shutdown_requested
    pc, turn,             \* where the loop is, and which lane it drains
    frame,                \* the frame being processed
    log,                  \* the frames appended to the log, and put on the feed, by kind and n
    resting, clock, incoming, fills,   \* the market
    result,               \* what became of the order: resting, done or rejected
    taker,                \* the RestingOrderContext of the order
    done,                 \* how many of its fills have been processed
    resting_orders,       \* the context of each id, or NoContext
    position,             \* RiskEngine: the net quantity of each account
    metadata,             \* the trade metadata given to the router
    processed, block_number, last_snapshot_block,
    snapshots,            \* the snapshots persisted
    executed,             \* history: the trades of the market
    cancelled,            \* history: the offsets of the cancels that took effect
    owner,                \* history: the account of the last order submitted with an id
    clashed               \* history: the ids submitted while an order with that id rested

market == <<resting, clock, incoming, fills>>
call == <<result, taker, done>>
books == <<resting_orders, position, metadata>>
blocks == <<block_number, last_snapshot_block, snapshots>>
ingress == <<lanes, arrived, shutdown>>
history == <<executed, cancelled, owner, clashed>>
vars == <<ingress, pc, turn, frame, log, market, call, books, processed, blocks, history>>

Market == INSTANCE PriceTimeBook

Init ==
    /\ lanes = [k \in Kinds |-> <<>>]
    /\ arrived = 0 /\ shutdown = FALSE
    /\ pc = "drain" /\ turn = 1
    /\ frame = NoFrame
    /\ log = <<>>
    /\ Market!BookInit
    /\ result = "none" /\ taker = NoContext /\ done = 0
    /\ resting_orders = [id \in OrderIds |-> NoContext]
    /\ position = [a \in Accounts |-> 0]
    /\ metadata = <<>>
    /\ processed = 0 /\ block_number = 0 /\ last_snapshot_block = 0
    /\ snapshots = <<>>
    /\ executed = <<>> /\ cancelled = {} /\ clashed = {}
    /\ owner = [id \in OrderIds |-> 0]

-----------------------------------------------------------------------------
(* The other threads                                                       *)

\* The loop looks at what the other threads do only between two frames, so it is
\* enough to let them act then.
Looking == pc \in {"drain", "turn"}

\* The receive thread has put a frame into its lane, and the loop can see it.
Receive(f) ==
    /\ Looking
    /\ arrived < MaxFrames
    /\ lanes' = [lanes EXCEPT ![f.kind] = Append(@, f)]
    /\ arrived' = arrived + 1
    /\ UNCHANGED <<shutdown, pc, turn, frame, log, market, call, books, processed,
                   blocks, history>>

\* handle_shutdown_signal.
Signal ==
    /\ Looking
    /\ ~ shutdown
    /\ shutdown' = TRUE
    /\ UNCHANGED <<lanes, arrived, pc, turn, frame, log, market, call, books,
                   processed, blocks, history>>

-----------------------------------------------------------------------------
(* Taking a frame                                                          *)

Lane == DrainOrder[turn]

Offset == FirstOffset + Len(log) - 1

\* Mutant: the frame stays in its lane.
Take_peeks ==
    /\ pc = "drain"
    /\ lanes[Lane] # <<>>
    /\ frame' = Head(lanes[Lane])
    /\ processed' = processed + 1
    /\ log' = Append(log, [kind |-> frame'.kind, n |-> frame'.n])
    /\ pc' = frame'.kind
    /\ UNCHANGED <<ingress, turn, market, call, books, blocks, history>>

\* next_..., append_ingress_wal_record and push_express_feed_frame.
Take ==
    /\ pc = "drain"
    /\ lanes[Lane] # <<>>
    /\ frame' = Head(lanes[Lane])
    /\ lanes' = [lanes EXCEPT ![Lane] = Tail(@)]
    /\ processed' = processed + 1
    /\ log' = Append(log, [kind |-> frame'.kind, n |-> frame'.n])
    /\ pc' = frame'.kind
    /\ UNCHANGED <<arrived, shutdown, turn, market, call, books, blocks, history>>

\* Mutant: the turn ends one lane early.
NextLane_ends_early ==
    /\ pc = "drain"
    /\ lanes[Lane] = <<>>
    /\ IF turn < 2 THEN turn' = turn + 1 /\ pc' = "drain"
                   ELSE turn' = turn /\ pc' = "turn"
    /\ UNCHANGED <<ingress, frame, log, market, call, books, processed, blocks, history>>

\* The lane is empty: the next one, or the end of the turn.
NextLane ==
    /\ pc = "drain"
    /\ lanes[Lane] = <<>>
    /\ IF turn < 3 THEN turn' = turn + 1 /\ pc' = "drain"
                   ELSE turn' = turn /\ pc' = "turn"
    /\ UNCHANGED <<ingress, frame, log, market, call, books, processed, blocks, history>>

\* Mutant: the place in the list of fills is not set back.
NextFrame_keeps_done ==
    /\ pc' = "drain"
    /\ frame' = NoFrame
    /\ result' = "none" /\ taker' = NoContext
    /\ UNCHANGED <<ingress, turn, log, done, processed, blocks>>

\* The frame is done with; the locals are gone.
NextFrame ==
    /\ pc' = "drain"
    /\ frame' = NoFrame
    /\ result' = "none" /\ taker' = NoContext /\ done' = 0
    /\ UNCHANGED <<ingress, turn, log, processed, blocks>>

\* The payload does not decode (the exception is caught), or the risk engine says
\* no, or the matcher does before it changes anything.
Refused ==
    /\ pc \in Kinds
    /\ NextFrame
    /\ UNCHANGED <<market, books, history>>

-----------------------------------------------------------------------------
(* Giving it to the matcher                                                *)

Order(f, side) ==
    [id |-> order_id(f), side |-> side, price |-> f.order.price, qty |-> f.order.quantity,
     tif |-> "GTC", postOnly |-> f.order.post_only, seq |-> clock]

Executing(context) ==
    /\ taker' = context
    /\ pc' = "match"
    /\ UNCHANGED <<ingress, turn, frame, log, result, done, books, processed, blocks,
                   executed, cancelled>>

\* process_new_orders: matcher.submit.
SubmitOrder ==
    /\ pc = "new"
    /\ frame.order.quantity > 0
    /\ Market!NewOrder
    /\ incoming' = Order(frame, frame.order.side)
    /\ Executing([account |-> frame.account, side |-> frame.order.side])
    /\ owner' = [owner EXCEPT ![order_id(frame)] = frame.account]
    /\ clashed' = IF Market!Resting(order_id(frame)) THEN clashed \cup {order_id(frame)}
                  ELSE clashed

\* process_cancels: matcher.cancel of a resting order.
CancelResting ==
    /\ pc = "cancel"
    /\ Market!CancelOrder
    /\ resting[frame.id] # NoOrder /\ resting'[frame.id] = NoOrder
    /\ resting_orders' = [resting_orders EXCEPT ![frame.id] = NoContext]
    /\ cancelled' = cancelled \cup {Offset}
    /\ NextFrame
    /\ UNCHANGED <<position, metadata, executed, owner, clashed>>

\* The context that process_replaces starts with.
ReplaceContext ==
    IF resting_orders[frame.id] # NoContext THEN resting_orders[frame.id]
    ELSE [account |-> frame.account, side |-> "buy"]

\* process_replaces: matcher.replace of a resting order.
ReplaceResting ==
    /\ pc = "replace"
    /\ resting[frame.id] # NoOrder
    /\ Market!ReplaceOrder
    /\ incoming' = Order(frame, resting[frame.id].side)
    /\ Executing(ReplaceContext)
    /\ UNCHANGED <<owner, clashed>>

\* A post-only replace that would trade is rejected when the resting order is
\* already gone; its context stays.
ReplaceRejected ==
    /\ pc = "replace"
    /\ resting[frame.id] # NoOrder
    /\ frame.order.post_only
    /\ Market!Counterparties(Order(frame, resting[frame.id].side)) # {}
    /\ Market!CancelOrder
    /\ resting'[frame.id] = NoOrder
    /\ NextFrame
    /\ UNCHANGED <<books, history>>

\* One fill of match_order.
Trade ==
    /\ pc = "match"
    /\ Market!Trade
    /\ LET f == fills'[Len(fills')]
       IN  executed' = Append(executed, [fill |-> f, side |-> incoming.side,
                                         taker |-> owner[f.taker], maker |-> owner[f.maker],
                                         offset |-> Offset])
    /\ UNCHANGED <<ingress, pc, turn, frame, log, call, books, processed, blocks,
                   cancelled, owner, clashed>>

Matched(res) ==
    /\ result' = res
    /\ pc' = "fills"
    /\ UNCHANGED <<ingress, turn, frame, log, taker, done, books, processed, blocks,
                   history>>

Rests == pc = "match" /\ Market!Book /\ Matched("resting")

Filled == pc = "match" /\ incoming.qty <= 0 /\ Market!Finish /\ Matched("done")

\* DuplicateOrderId: the result is not accepted and its fills are not looked at.
Duplicate ==
    /\ pc = "match"
    /\ incoming.qty > 0
    /\ Market!Finish
    /\ NextFrame
    /\ UNCHANGED <<books, history>>

-----------------------------------------------------------------------------
(* process_fills and the contexts                                          *)

Signed(side, quantity) == IF side = "buy" THEN quantity ELSE -quantity

\* RiskEngine::apply_fill, as far as the net quantity goes.
apply_fill(pos, context, quantity) ==
    [pos EXCEPT ![context.account] = @ + Signed(context.side, quantity)]

\* Mutant: the maker gets the side of the taker.
maker_fill_same_side(pos, id, quantity) ==
    IF resting_orders[id] = NoContext THEN pos
    ELSE apply_fill(pos, [resting_orders[id] EXCEPT !.side = taker.side], quantity)

\* The fill of the maker, if the order has a context.
maker_fill(pos, id, quantity) ==
    IF resting_orders[id] = NoContext THEN pos
    ELSE apply_fill(pos, resting_orders[id], quantity)

\* Mutant: next_sequence is read after the append.
push_trade_metadata_next(f) ==
    Append(metadata, [offset |-> Offset + 1, order_id |-> f.taker,
                      account |-> taker.account, price |-> f.price,
                      quantity |-> f.quantity])

push_trade_metadata(f) ==
    Append(metadata, [offset |-> Offset, order_id |-> f.taker,
                      account |-> taker.account, price |-> f.price,
                      quantity |-> f.quantity])

\* One turn of the loop of process_fills.
ProcessFill ==
    /\ pc = "fills"
    /\ done < Len(fills)
    /\ LET f == fills[done + 1]
       IN  /\ position' = maker_fill(apply_fill(position, taker, f.quantity),
                                     f.maker, f.quantity)
           /\ metadata' = push_trade_metadata(f)
    /\ done' = done + 1
    /\ UNCHANGED <<ingress, pc, turn, frame, log, market, result, taker,
                   resting_orders, processed, blocks, history>>

\* Mutant: the context of a replaced order is not written again.
KeepContext_new_only(id) ==
    [resting_orders EXCEPT ![id] =
        IF result = "resting" /\ frame.kind = "new" THEN taker ELSE NoContext]

\* The context of an order that rests is kept, that of another is erased.
KeepContext(id) ==
    [resting_orders EXCEPT ![id] = IF result = "resting" THEN taker ELSE NoContext]

FillsProcessed ==
    /\ pc = "fills"
    /\ done = Len(fills)
    /\ resting_orders' = KeepContext(order_id(frame))
    /\ NextFrame
    /\ UNCHANGED <<market, position, metadata, history>>

-----------------------------------------------------------------------------
(* The end of a turn                                                       *)

\* Mutant: a turn is one block, however many frames it processed.
new_block_per_turn == block_number + 1

new_block == block_number + processed

\* Mutant: the label is not clamped, and loses what does not fit its type.
label_narrowed(block) == block % (MaxLabel + 1)

\* A block number as a SequenceId.
label(block) == IF block <= MaxLabel THEN block ELSE MaxLabel

SnapshotDue == processed > 0 /\ new_block - last_snapshot_block >= SnapshotInterval

\* block_number, the snapshot, and the test of the while.
EndTurn ==
    /\ pc = "turn"
    /\ block_number' = new_block
    /\ IF SnapshotDue
       THEN /\ snapshots' = Append(snapshots, [sequence |-> label(new_block), offset |-> Offset])
            /\ last_snapshot_block' = new_block
       ELSE UNCHANGED <<snapshots, last_snapshot_block>>
    /\ processed' = 0
    /\ turn' = 1
    /\ pc' = IF shutdown THEN "down" ELSE "drain"
    /\ UNCHANGED <<ingress, frame, log, market, call, books, history>>

-----------------------------------------------------------------------------

Loop ==
    \/ Take \/ NextLane \/ Refused
    \/ SubmitOrder \/ CancelResting \/ ReplaceResting \/ ReplaceRejected
    \/ Trade \/ Rests \/ Filled \/ Duplicate
    \/ ProcessFill \/ FillsProcessed
    \/ EndTurn

Next == Loop \/ Signal \/ \E f \in Frames({arrived + 1}) : Receive(f)

Spec == Init /\ [][Next]_vars

\* The loop never waits for anything (an idle turn sleeps for 10 ms).
FairSpec == Spec /\ WF_vars(Loop)

-----------------------------------------------------------------------------
(* Properties                                                              *)

\* No frame is being processed.
Between == pc \in {"drain", "turn", "down"}

\* The state has its type, and the fills being processed are in range.
TypeOK ==
    /\ lanes \in [Kinds -> Seq(Frames(Nat))]
    /\ arrived \in Nat /\ shutdown \in BOOLEAN
    /\ pc \in Kinds \cup {"drain", "match", "fills", "turn", "down"} /\ turn \in 1 .. 3
    /\ frame \in Frames(Nat) \cup {NoFrame} /\ log \in Seq([kind : Kinds, n : Nat])
    /\ result \in {"none", "resting", "done"} /\ taker \in Contexts \cup {NoContext}
    /\ done \in Nat /\ (pc = "match" => done = 0)
    /\ pc = "fills" => done <= Len(fills)
    /\ resting_orders \in [OrderIds -> Contexts \cup {NoContext}]
    /\ position \in [Accounts -> Int]
    /\ processed \in Nat /\ block_number \in Nat /\ last_snapshot_block \in Nat
    /\ owner \in [OrderIds -> Nat] /\ clashed \subseteq OrderIds

\* Two views of the same orders agree: an order that rests in the matcher has the
\* context of its account and side in resting_orders, except while the order of
\* the current frame waits for its own to be written.  This holds for each id until an
\* order is submitted with it while another one rests, a nonce used again or one that
\* the masking made equal: an order that fills at once then erases the other's context.
ContextsMatchBook ==
    \A id \in OrderIds \ clashed :
        (resting[id] # NoOrder /\ (pc = "fills" => id # order_id(frame))) =>
            resting_orders[id] = [account |-> owner[id], side |-> resting[id].side]

\* What account a bought in trade t, less what it sold.
Bought(a, t) ==
    (IF t.taker = a THEN Signed(t.side, t.fill.quantity) ELSE 0)
    - (IF t.maker = a THEN Signed(t.side, t.fill.quantity) ELSE 0)

\* What it bought, less what it sold, in the first n of these trades, for each n.
Net(a, trades) ==
    LET net[n \in 0 .. Len(trades)] ==
            IF n = 0 THEN 0 ELSE net[n - 1] + Bought(a, trades[n])
    IN  net

\* The metadata record of a trade.
Record(t) ==
    [offset |-> t.offset, order_id |-> t.fill.taker, account |-> t.taker,
     price |-> t.fill.price, quantity |-> t.fill.quantity]

\* What the matcher executed is what the rest of the system is told, however orders
\* were replaced and cancelled in between.  Every trade has its metadata record, under
\* the offset of the frame that caused it, if no two orders clashed with the taker's
\* id: the fills of an order that is rejected as a duplicate are dropped.  As long as
\* none clashed at all, the records are those of the trades, in their order, and the
\* risk engine's positions are the trades of makers and takers.
FillsBooked ==
    Between =>
        /\ \A i \in 1 .. Len(executed) : executed[i].fill.taker \notin clashed =>
              \E k \in 1 .. Len(metadata) : metadata[k] = Record(executed[i])
        /\ clashed = {} =>
              /\ \A a \in Accounts : position[a] = Net(a, executed)[Len(executed)]
              /\ Len(metadata) = Len(executed)
              /\ \A i \in 1 .. Len(executed) : metadata[i] = Record(executed[i])

\* A cancel that took effect has a metadata record, too.  The code pushes none.
CancelsReported ==
    Between => \A offset \in cancelled :
        \E k \in 1 .. Len(metadata) : metadata[k].offset = offset

\* Every frame that was accepted is in the log or in its lane, exactly once (each number
\* is there, and there are no more frames than numbers), and the frames of one lane
\* are logged in their order of arrival.
FramesAccounted ==
    /\ \A n \in 1 .. arrived :
          \/ \E i \in 1 .. Len(log) : log[i].n = n
          \/ \E k \in Kinds : \E i \in 1 .. Len(lanes[k]) : lanes[k][i].n = n
    /\ Len(log) + Len(lanes["new"]) + Len(lanes["cancel"]) + Len(lanes["replace"]) = arrived
    /\ \A i, j \in 1 .. Len(log) :
          i < j /\ log[i].kind = log[j].kind => log[i].n < log[j].n
    /\ \A k \in Kinds : \A j \in 1 .. Len(lanes[k]) :
          /\ \A i \in 1 .. j - 1 : lanes[k][i].n < lanes[k][j].n
          /\ \A i \in 1 .. Len(log) : log[i].kind = k => log[i].n < lanes[k][j].n

\* A snapshot is labelled with the number of records that this process has logged, or
\* with the largest label.  Replay takes the label for the number of the last record
\* that the snapshot covers.  It is never above that, so nothing is left out that the
\* snapshot lacks; and it is that number, so that nothing is applied twice, exactly if
\* the log was empty at the start and the label has not been clamped.
SnapshotCoversLog ==
    \A i \in 1 .. Len(snapshots) :
        LET s == snapshots[i]
            records == s.offset - FirstOffset + 1
        IN  /\ s.sequence = IF records <= MaxLabel THEN records ELSE MaxLabel
            /\ s.sequence <= s.offset
            /\ s.sequence = s.offset <=> FirstOffset = 1 /\ s.offset <= MaxLabel

\* Frames take effect in the order in which they were accepted.  The code drains
\* one lane after the other instead.
IngressOrder == \A i, j \in 1 .. Len(log) : i < j => log[i].n < log[j].n

\* Whatever was accepted is logged at some later time at which nothing is left in the
\* lanes, once no more frames come, unless the daemon is shut down.
AcceptedIsLogged == []<>(pc = "down" \/ Len(log) = arrived)
=============================================================================
