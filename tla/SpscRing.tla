------------------------------ MODULE SpscRing ------------------------------
(***************************************************************************)
(* tradecore::common::SpscRing (libs/common/include/tradecore/common/      *)
(* spsc_ring.hpp): one thread pushes, one thread pops, and they share only *)
(* the slots and the two atomic indices.  Every load, slot access and      *)
(* store that the other thread can observe is a step of its own.           *)
(*                                                                         *)
(* Each thread reads its own index exactly (it is the only writer), but an *)
(* acquire load of the other one's may return any value between the one it *)
(* read last and the current one, as the C++ memory model allows.  Reading *)
(* a value makes everything the other thread did before storing it visible *)
(* (release/acquire), so slots need no such treatment.                     *)
(***************************************************************************)
EXTENDS Integers, Sequences

CONSTANTS Values,   \* what is queued
          N,        \* capacity_power_of_two
          Nothing   \* std::nullopt

\* The constructor insists on a power of two, which makes "& mask_" the
\* wrap-around of NextIndex; nothing below needs more than a positive size.
ASSUME CapacityAssumption == N \in Nat \ {0}
ASSUME NothingAssumption == Nothing \notin Values

VARIABLES buffer,     \* the slots
          head, tail, \* the atomic indices
          ppc,        \* where push is
          tail_seen,  \* the tail that push read last
          value,      \* the argument of push
          cpc,        \* where pop is
          head_seen,  \* the head that pop read last
          out         \* what pop returned last

producerVars == <<ppc, tail_seen, value>>
consumerVars == <<cpc, head_seen, out>>
vars == <<buffer, head, tail, producerVars, consumerVars>>

Index == 0 .. N - 1

\* (i + 1) & mask_.
NextIndex(i) == IF i = N - 1 THEN 0 ELSE i + 1

\* How far index j is ahead of index i.
Ahead(i, j) == IF j >= i THEN j - i ELSE (j - i) + N

\* The values an acquire load may return: last read, now.
Visible(last, now) == {i \in Index : Ahead(last, i) <= Ahead(last, now)}

Init ==
    /\ buffer = [i \in Index |-> Nothing]
    /\ head = 0 /\ tail = 0
    /\ ppc = "idle" /\ tail_seen = 0 /\ value = Nothing
    /\ cpc = "idle" /\ head_seen = 0 /\ out = Nothing

-----------------------------------------------------------------------------
(* push                                                                    *)

\* Mutant: the last free slot is used as well.
Full_late(t) == FALSE

\* next_head == tail: one slot always stays free.
Full(t) == NextIndex(head) = t

\* push returns false.
PushFull ==
    /\ ppc = "idle"
    /\ \E t \in Visible(tail_seen, tail) :
          /\ Full(t)
          /\ tail_seen' = t
    /\ UNCHANGED <<buffer, head, tail, ppc, value, consumerVars>>

PushStart(v) ==
    /\ ppc = "idle"
    /\ \E t \in Visible(tail_seen, tail) :
          /\ ~ Full(t)
          /\ tail_seen' = t
    /\ value' = v
    /\ ppc' = "write"
    /\ UNCHANGED <<buffer, head, tail, consumerVars>>

\* buffer_[head] = std::move(value).
PushWrite ==
    /\ ppc = "write"
    /\ buffer' = [buffer EXCEPT ![head] = value]
    /\ ppc' = "publish"
    /\ UNCHANGED <<head, tail, tail_seen, value, consumerVars>>

\* head_.store(next_head); push returns true.
PushPublish ==
    /\ ppc = "publish"
    /\ head' = NextIndex(head)
    /\ ppc' = "idle"
    /\ value' = Nothing
    /\ UNCHANGED <<buffer, tail, tail_seen, consumerVars>>

-----------------------------------------------------------------------------
(* pop                                                                     *)

\* Mutant: pop leaves one value behind, as push leaves one slot.
Empty_early(h) == NextIndex(tail) = h \/ tail = h

Empty(h) == tail = h

\* pop returns false.
PopEmpty ==
    /\ cpc = "idle"
    /\ \E h \in Visible(head_seen, head) :
          /\ Empty(h)
          /\ head_seen' = h
    /\ UNCHANGED <<buffer, head, tail, cpc, out, producerVars>>

PopStart ==
    /\ cpc = "idle"
    /\ \E h \in Visible(head_seen, head) :
          /\ ~ Empty(h)
          /\ head_seen' = h
    /\ cpc' = "take"
    /\ UNCHANGED <<buffer, head, tail, out, producerVars>>

\* out = std::move(*buffer_[tail]); buffer_[tail].reset().
PopTake ==
    /\ cpc = "take"
    /\ out' = buffer[tail]
    /\ buffer' = [buffer EXCEPT ![tail] = Nothing]
    /\ cpc' = "free"
    /\ UNCHANGED <<head, tail, head_seen, producerVars>>

\* Mutant: the tail catches up with the head that pop has read.
PopFree_skips ==
    /\ cpc = "free"
    /\ tail' = head_seen
    /\ cpc' = "idle"
    /\ UNCHANGED <<buffer, head, head_seen, out, producerVars>>

\* tail_.store(tail + 1); pop returns true.
PopFree ==
    /\ cpc = "free"
    /\ tail' = NextIndex(tail)
    /\ cpc' = "idle"
    /\ UNCHANGED <<buffer, head, head_seen, out, producerVars>>

-----------------------------------------------------------------------------

Producer == PushFull \/ (\E v \in Values : PushStart(v)) \/ PushWrite \/ PushPublish

Consumer == PopEmpty \/ PopStart \/ PopTake \/ PopFree

Next == Producer \/ Consumer

Spec == Init /\ [][Next]_vars

\* A push that has begun ends, the consumer keeps polling, and a stored index is
\* visible in finite time (a pop that could see it again and again does).
FairSpec == /\ Spec
            /\ WF_vars(PushWrite \/ PushPublish)
            /\ WF_vars(PopTake \/ PopFree)
            /\ SF_vars(PopStart)

-----------------------------------------------------------------------------
(* Properties                                                              *)

\* The indices are in range and every slot holds a value or nullopt.
TypeOK ==
    /\ buffer \in [Index -> Values \cup {Nothing}]
    /\ head \in Index /\ tail \in Index
    /\ tail_seen \in Index /\ head_seen \in Index
    /\ ppc \in {"idle", "write", "publish"}
    /\ cpc \in {"idle", "take", "free"}
    /\ value \in Values \cup {Nothing}
    /\ ppc # "idle" => value \in Values
    /\ out \in Values \cup {Nothing}

\* The two threads never touch the same slot: push writes a slot that pop has
\* given back, and pop reads a slot that push has filled.
SlotsOwned ==
    /\ ppc = "write" => buffer[head] = Nothing
    /\ cpc = "take" => buffer[tail] \in Values
    /\ (ppc # "idle" /\ cpc # "idle") => head # tail

\* The slots that hold queued values: from the oldest one not taken, to head.
First == IF cpc = "free" THEN NextIndex(tail) ELSE tail

Place(i) == IF First + i - 1 < N THEN First + i - 1 ELSE (First + i - 1) - N

Queued == [i \in 1 .. Ahead(First, head) |-> buffer[Place(i)]]

\* The inductive invariant.  What a thread has read of the other's index is not
\* ahead of it, and is recent enough: push has room up to the tail it saw, pop
\* has a value up to the head it saw; and the slots that hold something are the
\* queued ones, plus the one that push is about to publish.
SeenIndices ==
    /\ Ahead(tail_seen, tail) + Ahead(tail, head) = Ahead(tail_seen, head)
    /\ Ahead(tail, head_seen) + Ahead(head_seen, head) = Ahead(tail, head)
    /\ ppc # "idle" => Ahead(tail_seen, head) < N - 1
    /\ cpc # "idle" => Ahead(tail, head_seen) > 0

SlotsFilled ==
    /\ \A i \in Index :
          buffer[i] # Nothing <=> \/ Ahead(First, i) < Ahead(First, head)
                                  \/ ppc = "publish" /\ i = head
    /\ ppc = "publish" => buffer[head] = value

Inv == TypeOK /\ SeenIndices /\ SlotsFilled

Fifo == INSTANCE BoundedFifo WITH items <- Queued, got <- out, Bound <- N - 1

\* The ring is a queue of N - 1 places: values come out once each and in the
\* order they went in, whatever the interleaving and however stale the loads.
ImplementsFifo == Fifo!FifoSpec

\* What push has accepted is popped in the end.
PushedIsPopped ==
    \A v \in Values :
        (\E i \in 1 .. Ahead(First, head) : buffer[Place(i)] = v) ~> out = v
=============================================================================
