--------------------------- MODULE TelemetrySink ---------------------------
(***************************************************************************)
(* tradecore::telemetry::TelemetrySink and StreamingHistogram              *)
(* (libs/telemetry/src/telemetry_sink.cpp).  Each call holds the sink's    *)
(* mutex and is one step; callers are any threads.                         *)
(***************************************************************************)
EXTENDS Integers, Sequences, FiniteSetsExt

CONSTANTS MetricIds,     \* ids that callers use
          kMaxMetricId,  \* slots
          Latencies,     \* in nanoseconds
          kNumBuckets,
          MaxRecords,    \* bound: calls of record_latency
          MaxSamples     \* bound: samples in the buffer

ASSUME TelemetryAssumption ==
    /\ kMaxMetricId \in Nat \ {0} /\ kNumBuckets \in Nat \ {0}
    /\ MetricIds \subseteq Nat /\ Latencies \subseteq Int

VARIABLES histograms_, buffer_,
          recorded,  \* history: what each slot was given since it was drained
          records    \* how many records there were

telemetry_vars == <<histograms_, buffer_, recorded, records>>

Slots == 0 .. kMaxMetricId - 1

EmptyHistogram == [buckets |-> [i \in 0 .. kNumBuckets - 1 |-> 0], count |-> 0, sum |-> 0]

TelemetryInit ==
    /\ histograms_ = [s \in Slots |-> EmptyHistogram]
    /\ buffer_ = <<>>
    /\ recorded = [s \in Slots |-> <<>>]
    /\ records = 0

-----------------------------------------------------------------------------
(* StreamingHistogram                                                      *)

\* std::bit_width
BitWidth(x) == CHOOSE n \in 0 .. x : 2 ^ n > x /\ (n = 0 \/ 2 ^ (n - 1) <= x)

bucket_index(value) ==
    IF value <= 0 THEN 0
    ELSE IF BitWidth(value) > kNumBuckets - 1 THEN kNumBuckets - 1
    ELSE BitWidth(value)

\* The values that it may return.  3 << (idx - 2) is undefined for bucket 1: no
\* shift, the width masked, or all bits lost.
bucket_midpoint(idx) ==
    CASE idx = 0 -> {1}
      [] idx = 1 -> {3, -(2 ^ (kNumBuckets + 1)), 0}
      [] OTHER   -> {3 * (2 ^ (idx - 2))}

Recorded(h, value) ==
    [buckets |-> [h.buckets EXCEPT ![bucket_index(value)] = @ + 1],
     count |-> h.count + 1, sum |-> h.sum + value]

cumulative(h, idx) == SumFunctionOnSet(h.buckets, 0 .. idx)

target(h) == (h.count * 99) \div 100

\* The bucket whose midpoint percentile(0.99) returns.
percentile_bucket(h) == Min({idx \in DOMAIN h.buckets : cumulative(h, idx) >= target(h)})

-----------------------------------------------------------------------------
(* TelemetrySink                                                           *)

\* push, increment
push(sample) ==
    /\ Len(buffer_) < MaxSamples
    /\ buffer_' = Append(buffer_, sample)
    /\ UNCHANGED <<histograms_, recorded, records>>

record_latency(id, latency) ==
    LET s == id % kMaxMetricId
    IN  /\ records < MaxRecords
        /\ records' = records + 1
        /\ histograms_' = [histograms_ EXCEPT ![s] = Recorded(@, latency)]
        /\ recorded' = [recorded EXCEPT ![s] = Append(@, latency)]
        /\ UNCHANGED buffer_

drain ==
    /\ buffer_' = <<>>
    /\ UNCHANGED <<histograms_, recorded, records>>

\* Mutant: reset forgets the buckets.
reset_counts(h) == [EmptyHistogram EXCEPT !.buckets = h.buckets]

reset(h) == EmptyHistogram

\* Each slot in use is summed up and reset.
drain_latency ==
    /\ histograms_' = [s \in Slots |-> IF histograms_[s].count = 0 THEN histograms_[s]
                                       ELSE reset(histograms_[s])]
    /\ recorded' = [s \in Slots |-> <<>>]
    /\ UNCHANGED <<buffer_, records>>

TelemetryNext ==
    \/ \E id \in MetricIds : push(id)
    \/ \E id \in MetricIds, latency \in Latencies : record_latency(id, latency)
    \/ drain \/ drain_latency

TelemetrySpec == TelemetryInit /\ [][TelemetryNext]_telemetry_vars

-----------------------------------------------------------------------------
(* Properties                                                              *)

\* The n-th smallest element of a sequence of numbers.
Ranked(q, n) ==
    CHOOSE x \in {q[i] : i \in DOMAIN q} :
        /\ Cardinality({i \in DOMAIN q : q[i] < x}) < n
        /\ Cardinality({i \in DOMAIN q : q[i] <= x}) >= n

\* What drain_latency reports of a slot is about the records since the last drain, of
\* all ids that share the slot: their number, their sum, and as 99th percentile a
\* value between three quarters and one and a half of the record of that rank.  (With
\* one record the rank is 0, and below 2 ns or above the last bucket the histogram
\* has no such precision.)
SummariesExact ==
    \A s \in Slots :
        LET h == histograms_[s]
            p99 == Ranked(recorded[s], target(h))
        IN  /\ h.count = Len(recorded[s])
            /\ h.sum = SumFunction(recorded[s])
            /\ (target(h) >= 1 /\ p99 >= 2 /\ p99 < 2 ^ (kNumBuckets - 1)) =>
                  \A v \in bucket_midpoint(percentile_bucket(h)) :
                      3 * p99 <= 4 * v /\ 4 * v <= 6 * p99
=============================================================================
