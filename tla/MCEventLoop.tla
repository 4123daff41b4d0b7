---------------------------- MODULE MCEventLoop ----------------------------
(* Instances of EventLoop for TLC. *)
EXTENDS EventLoop

\* Orders that rest, that fill each other in part, and that fill two others; none is
\* post-only.
SomeOrders ==
    {[side |-> "buy", price |-> 1, quantity |-> 1, post_only |-> FALSE],
     [side |-> "buy", price |-> 2, quantity |-> 2, post_only |-> FALSE],
     [side |-> "sell", price |-> 2, quantity |-> 1, post_only |-> FALSE],
     [side |-> "sell", price |-> 1, quantity |-> 2, post_only |-> FALSE]}

\* A replace that rests or trades, in part too, and one that is rejected if it would
\* trade.
SomeReplaces ==
    {[price |-> 1, quantity |-> 2, post_only |-> FALSE],
     [price |-> 1, quantity |-> 1, post_only |-> TRUE]}

\* The order of the operands in the source, which compilers commonly keep.
SourceOrder == <<"new", "cancel", "replace">>
=============================================================================
