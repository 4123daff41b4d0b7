----------------------------- MODULE ApiRouter -----------------------------
(***************************************************************************)
(* tradecore::api::ApiRouter (libs/api/src/api_router.cpp): the express    *)
(* feed and the trade metadata, two bounded buffers of records that carry  *)
(* the offset of the log record they come from.  Readers in other threads  *)
(* (the ExEx clients of docs/INTEGRATION.md) ask for records from an       *)
(* offset on; the router's mutex makes each call one step.                 *)
(*                                                                         *)
(* All fills of an order carry the same offset, and two of them may be     *)
(* equal in every field: a metadata record is its offset.  A reader of the *)
(* feed asks from the offset after its last one on; a reader of metadata   *)
(* asks from its last one on, and passes over what it has.                 *)
(***************************************************************************)
EXTENDS Integers, Sequences, FiniteSets, SequencesExt

CONSTANTS express_feed_capacity, trade_metadata_capacity

ASSUME CapacityAssumption ==
    express_feed_capacity \in Nat \ {0} /\ trade_metadata_capacity \in Nat \ {0}

VARIABLES express_feed_frames_, trade_metadata_,
          feed_reader,      \* next offset, frames it has, whether it noticed a gap
          metadata_reader,  \* records it has, whether it came too late for some
          fills             \* history: every metadata record pushed

buffers == <<express_feed_frames_, trade_metadata_, fills>>
readers == <<feed_reader, metadata_reader>>
router_vars == <<buffers, readers>>

\* Readers of a process whose next log record has offset n.
FeedReader(n) == [next |-> n, got |-> <<>>, missed |-> FALSE]
MetadataReader == [got |-> <<>>, late |-> FALSE]

RouterInit ==
    /\ express_feed_frames_ = <<>> /\ trade_metadata_ = <<>> /\ fills = <<>>
    /\ feed_reader = FeedReader(1) /\ metadata_reader = MetadataReader

\* The router of a new process.
NewRouter(n) ==
    /\ express_feed_frames_' = <<>> /\ trade_metadata_' = <<>> /\ fills' = <<>>
    /\ feed_reader' = FeedReader(n) /\ metadata_reader' = MetadataReader

push_with_fifo_eviction(b, max_size, value) ==
    LET all == Append(b, value)
    IN  IF Len(b) >= max_size THEN SubSeq(all, Len(all) - max_size + 1, Len(all)) ELSE all

push_express_feed_frame(offset, payload) ==
    /\ express_feed_frames_' =
          push_with_fifo_eviction(express_feed_frames_, express_feed_capacity,
                                  [wal_offset |-> offset, payload |-> payload])
    /\ UNCHANGED <<trade_metadata_, fills, readers>>

push_trade_metadata(offset) ==
    /\ trade_metadata_' =
          push_with_fifo_eviction(trade_metadata_, trade_metadata_capacity,
                                  [wal_offset |-> offset])
    /\ fills' = Append(fills, [wal_offset |-> offset])
    /\ UNCHANGED <<express_feed_frames_, readers>>

\* The elements of s at the indexes in I, in their order.
Selection(s, I) ==
    [n \in 1 .. Cardinality(I) |-> s[CHOOSE i \in I : Cardinality({j \in I : j <= i}) = n]]

\* Mutant: only what lies behind the offset.
Since_after(b, min_wal_offset) ==
    Selection(b, {i \in 1 .. Len(b) : b[i].wal_offset > min_wal_offset})

\* get_express_feed_frames, get_trade_metadata
Since(b, min_wal_offset) ==
    Selection(b, {i \in 1 .. Len(b) : b[i].wal_offset >= min_wal_offset})

-----------------------------------------------------------------------------
(* Readers                                                                 *)

poll_feed ==
    LET reply == Since(express_feed_frames_, feed_reader.next)
    IN  /\ reply # <<>>
        /\ feed_reader' =
              [next |-> Last(reply).wal_offset + 1,
               got |-> feed_reader.got \o reply,
               missed |-> feed_reader.missed \/ Head(reply).wal_offset # feed_reader.next]
        /\ UNCHANGED <<metadata_reader, buffers>>

\* The reader's last offset, and how many records it has of it.
LastOffset(got) == IF got = <<>> THEN 0 ELSE Last(got).wal_offset
Already(got) == Len(Since(got, LastOffset(got)))

\* It is late when the router has dropped the first of them, or one behind them.
poll_metadata ==
    LET got == metadata_reader.got
        reply == Since(trade_metadata_, LastOffset(got))
        fresh == SubSeq(reply, Already(got) + 1, Len(reply))
    IN  /\ fresh # <<>>
        /\ metadata_reader' =
              [got |-> got \o fresh,
               late |-> metadata_reader.late
                          \/ Len(fills) - (Len(got) - Already(got)) > trade_metadata_capacity]
        /\ UNCHANGED <<feed_reader, buffers>>
=============================================================================
