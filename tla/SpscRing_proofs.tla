-------------------------- MODULE SpscRing_proofs --------------------------
(***************************************************************************)
(* Proofs about SpscRing, for every capacity and every set of values.      *)
(***************************************************************************)
EXTENDS SpscRing, SequenceTheorems, TLAPS

USE CapacityAssumption, NothingAssumption

\* Arithmetic around the ring.
LEMMA IndexArithmetic ==
  ASSUME NEW i \in Index, NEW j \in Index
  PROVE  /\ i \in Int /\ 0 <= i /\ i < N /\ N \in Int
         /\ NextIndex(i) \in Index
         /\ Ahead(i, j) \in Index /\ Ahead(i, j) \in Nat
         /\ Ahead(i, j) = 0 <=> i = j
         /\ NextIndex(j) # i => Ahead(i, NextIndex(j)) = Ahead(i, j) + 1
         /\ NextIndex(j) # i => Ahead(i, j) < N - 1
         /\ NextIndex(j) = i => Ahead(i, j) = N - 1
         /\ i # j => Ahead(NextIndex(i), j) = Ahead(i, j) - 1
         /\ Ahead(NextIndex(i), i) = N - 1
BY DEF Index, NextIndex, Ahead

\* Distances add up as long as they do not go around.
LEMMA AheadAdds ==
  ASSUME NEW i \in Index, NEW j \in Index, NEW k \in Index
  PROVE  /\ Ahead(i, j) <= Ahead(i, k) <=>
               Ahead(i, j) + Ahead(j, k) = Ahead(i, k)
         /\ Ahead(i, j) = Ahead(i, k) => j = k
BY DEF Index, Ahead

LEMMA InitInv == Init => Inv
<1> SUFFICES ASSUME Init PROVE Inv
  OBVIOUS
<1>1. 0 \in Index
  BY DEF Index
<1>2. TypeOK
  BY <1>1 DEF Init, TypeOK
<1>3. Ahead(0, 0) = 0
  BY DEF Ahead
<1>4. SeenIndices
  BY <1>3 DEF Init, SeenIndices
<1>5. SlotsFilled
  <2> SUFFICES ASSUME NEW i \in Index
               PROVE  ~ (Ahead(First, i) < Ahead(First, head))
    BY DEF SlotsFilled, Init
  <2>1. First = 0 /\ head = 0
    BY DEF Init, First
  <2> QED
    BY <1>1, <1>3, <2>1, IndexArithmetic
<1> QED
  BY <1>2, <1>4, <1>5 DEF Inv

\* What a thread may read of the other's index lies between the last and now.
LEMMA VisibleProperties ==
  ASSUME NEW last \in Index, NEW now \in Index, NEW i \in Visible(last, now)
  PROVE  /\ i \in Index
         /\ Ahead(last, i) + Ahead(i, now) = Ahead(last, now)
BY AheadAdds DEF Visible

LEMMA PushFullKeepsInv ==
  ASSUME Inv, PushFull
  PROVE  Inv'
<1>1. PICK t \in Visible(tail_seen, tail) : Full(t) /\ tail_seen' = t
  BY DEF PushFull
<1>2. /\ UNCHANGED <<buffer, head, tail, ppc, value, cpc, head_seen, out>>
      /\ ppc = "idle" /\ First' = First
  BY DEF PushFull, consumerVars, First
<1>3. t \in Index /\ Ahead(tail_seen, t) + Ahead(t, tail) = Ahead(tail_seen, tail)
  BY VisibleProperties DEF Inv, TypeOK
<1>4. TypeOK'
  BY <1>1, <1>2, <1>3 DEF Inv, TypeOK
<1>5. SeenIndices'
  <2>1. Ahead(t, tail) + Ahead(tail, head) = Ahead(t, head)
    BY <1>3 DEF Inv, TypeOK, SeenIndices, Index, Ahead
  <2> QED
    BY <1>1, <1>2, <2>1 DEF Inv, SeenIndices
<1>6. SlotsFilled'
  BY <1>2 DEF Inv, SlotsFilled
<1> QED
  BY <1>4, <1>5, <1>6 DEF Inv

LEMMA PushStartKeepsInv ==
  ASSUME Inv, NEW v \in Values, PushStart(v)
  PROVE  Inv'
<1>1. PICK t \in Visible(tail_seen, tail) : ~ Full(t) /\ tail_seen' = t
  BY DEF PushStart
<1>2. /\ UNCHANGED <<buffer, head, tail, cpc, head_seen, out>>
      /\ ppc = "idle" /\ ppc' = "write" /\ value' = v /\ First' = First
  BY DEF PushStart, consumerVars, First
<1>3. t \in Index /\ Ahead(tail_seen, t) + Ahead(t, tail) = Ahead(tail_seen, tail)
  BY VisibleProperties DEF Inv, TypeOK
<1>4. TypeOK'
  BY <1>1, <1>2, <1>3 DEF Inv, TypeOK
<1>5. SeenIndices'
  <2>1. Ahead(t, tail) + Ahead(tail, head) = Ahead(t, head)
    BY <1>3 DEF Inv, TypeOK, SeenIndices, Index, Ahead
  <2>2. Ahead(t, head) < N - 1
    BY <1>1, <1>3, IndexArithmetic DEF Full, Inv, TypeOK
  <2> QED
    BY <1>1, <1>2, <2>1, <2>2 DEF Inv, SeenIndices
<1>6. SlotsFilled'
  BY <1>2 DEF Inv, SlotsFilled
<1> QED
  BY <1>4, <1>5, <1>6 DEF Inv

\* The queue never fills the ring while a push is under way, and First is as far
\* from head as what is queued.
LEMMA PushHasRoom ==
  ASSUME Inv
  PROVE  /\ First \in Index /\ head \in Index
         /\ Ahead(First, head) <= Ahead(tail, head)
         /\ cpc = "free" => Ahead(First, head) = Ahead(tail, head) - 1
         /\ cpc # "idle" => tail # head
         /\ ppc # "idle" => Ahead(tail, head) < N - 1
         /\ ppc # "idle" => Ahead(First, head) < N - 1
         /\ ppc # "idle" => NextIndex(head) # First
<1>1. /\ head \in Index /\ tail \in Index /\ tail_seen \in Index
      /\ head_seen \in Index
  BY DEF Inv, TypeOK
<1>2. cpc # "idle" => tail # head
  BY <1>1 DEF Inv, SeenIndices, Index, Ahead
<1>3. /\ First \in Index
      /\ cpc = "free" => Ahead(First, head) = Ahead(tail, head) - 1
      /\ Ahead(First, head) <= Ahead(tail, head)
  BY <1>1, <1>2, IndexArithmetic DEF First
<1>4. ppc # "idle" => Ahead(tail, head) < N - 1
  BY <1>1 DEF Inv, SeenIndices, Index, Ahead
<1>5. ppc # "idle" => Ahead(First, head) < N - 1
  BY <1>1, <1>3, <1>4 DEF Index, Ahead
<1>6. ppc # "idle" => NextIndex(head) # First
  BY <1>1, <1>3, <1>5, IndexArithmetic
<1> QED
  BY <1>1, <1>2, <1>3, <1>4, <1>5, <1>6

LEMMA PushWriteKeepsInv ==
  ASSUME Inv, PushWrite
  PROVE  Inv'
<1>1. /\ UNCHANGED <<head, tail, tail_seen, value, cpc, head_seen, out>>
      /\ ppc = "write" /\ ppc' = "publish" /\ First' = First
      /\ buffer' = [buffer EXCEPT ![head] = value]
  BY DEF PushWrite, consumerVars, First
<1>2. /\ value \in Values /\ head \in Index
      /\ buffer' \in [Index -> Values \cup {Nothing}]
      /\ buffer'[head] = value
      /\ \A i \in Index : i # head => buffer'[i] = buffer[i]
  BY <1>1 DEF Inv, TypeOK
<1>3. TypeOK'
  BY <1>1, <1>2 DEF Inv, TypeOK
<1>4. SeenIndices'
  BY <1>1 DEF Inv, SeenIndices
<1>5. SlotsFilled'
  BY <1>1, <1>2 DEF Inv, SlotsFilled
<1> QED
  BY <1>3, <1>4, <1>5 DEF Inv

LEMMA PushPublishKeepsInv ==
  ASSUME Inv, PushPublish
  PROVE  Inv'
<1>1. /\ UNCHANGED <<buffer, tail, tail_seen, cpc, head_seen, out>>
      /\ ppc = "publish" /\ ppc' = "idle" /\ value' = Nothing /\ First' = First
      /\ head' = NextIndex(head)
  BY DEF PushPublish, consumerVars, First
<1>2. /\ head \in Index /\ head' \in Index /\ tail \in Index /\ tail_seen \in Index
      /\ head_seen \in Index /\ First \in Index
  BY <1>1, IndexArithmetic, PushHasRoom DEF Inv, TypeOK
<1>3. TypeOK'
  BY <1>1, <1>2 DEF Inv, TypeOK
<1>4. /\ NextIndex(head) # tail_seen /\ NextIndex(head) # tail
      /\ NextIndex(head) # First
      /\ Ahead(tail_seen, head) < N - 1 /\ Ahead(tail, head) < N - 1
  BY <1>1, <1>2, IndexArithmetic, PushHasRoom DEF Inv, SeenIndices
<1>5. /\ Ahead(tail_seen, head') = Ahead(tail_seen, head) + 1
      /\ Ahead(tail, head') = Ahead(tail, head) + 1
      /\ Ahead(First, head') = Ahead(First, head) + 1
  BY <1>1, <1>2, <1>4 DEF Index, NextIndex, Ahead
<1>a. /\ Ahead(tail_seen, tail) \in Nat /\ Ahead(tail, head) \in Nat
      /\ Ahead(tail_seen, head) \in Nat /\ Ahead(tail, head_seen) \in Nat
      /\ Ahead(head_seen, head) \in Nat /\ Ahead(First, head) \in Nat
      /\ \A i \in Index : Ahead(First, i) \in Nat
  BY <1>2, IndexArithmetic
<1>b. /\ Ahead(tail_seen, tail) + Ahead(tail, head) = Ahead(tail_seen, head)
      /\ Ahead(tail, head_seen) + Ahead(head_seen, head) = Ahead(tail, head)
  BY DEF Inv, SeenIndices
<1>6. Ahead(tail, head_seen) + Ahead(head_seen, head') = Ahead(tail, head')
  <2>1. Ahead(tail, head_seen) <= Ahead(tail, head')
    BY <1>5, <1>a, <1>b
  <2> QED
    BY <1>2, <2>1, AheadAdds
<1>7. SeenIndices'
  <2>1. Ahead(tail_seen, tail) + Ahead(tail, head') = Ahead(tail_seen, head')
    BY <1>5, <1>a, <1>b
  <2> QED
    BY <1>1, <1>6, <2>1 DEF Inv, SeenIndices
<1>8. SlotsFilled'
  <2> SUFFICES ASSUME NEW i \in Index
               PROVE  buffer[i] # Nothing <=> Ahead(First, i) < Ahead(First, head')
    BY <1>1 DEF SlotsFilled
  <2>1. buffer[i] # Nothing <=> Ahead(First, i) < Ahead(First, head) \/ i = head
    BY <1>1 DEF Inv, SlotsFilled
  <2>2. Ahead(First, i) = Ahead(First, head) <=> i = head
    BY <1>2, AheadAdds
  <2> QED
    BY <1>5, <1>a, <2>1, <2>2
<1> QED
  BY <1>3, <1>7, <1>8 DEF Inv

LEMMA PopEmptyKeepsInv ==
  ASSUME Inv, PopEmpty
  PROVE  Inv'
<1>1. PICK h \in Visible(head_seen, head) : Empty(h) /\ head_seen' = h
  BY DEF PopEmpty
<1>2. /\ UNCHANGED <<buffer, head, tail, ppc, tail_seen, value, cpc, out>>
      /\ cpc = "idle" /\ First' = First
  BY DEF PopEmpty, producerVars, First
<1>3. h \in Index /\ Ahead(head_seen, h) + Ahead(h, head) = Ahead(head_seen, head)
  BY VisibleProperties DEF Inv, TypeOK
<1>4. TypeOK'
  BY <1>1, <1>2, <1>3 DEF Inv, TypeOK
<1>5. Ahead(tail, h) + Ahead(h, head) = Ahead(tail, head)
  BY <1>3 DEF Inv, TypeOK, SeenIndices, Index, Ahead
<1>6. SeenIndices'
  BY <1>1, <1>2, <1>5 DEF Inv, SeenIndices
<1>7. SlotsFilled'
  BY <1>2 DEF Inv, SlotsFilled
<1> QED
  BY <1>4, <1>6, <1>7 DEF Inv

LEMMA PopStartKeepsInv ==
  ASSUME Inv, PopStart
  PROVE  Inv'
<1>1. PICK h \in Visible(head_seen, head) : ~ Empty(h) /\ head_seen' = h
  BY DEF PopStart
<1>2. /\ UNCHANGED <<buffer, head, tail, ppc, tail_seen, value, out>>
      /\ cpc = "idle" /\ cpc' = "take" /\ First' = First
  BY DEF PopStart, producerVars, First
<1>3. h \in Index /\ Ahead(head_seen, h) + Ahead(h, head) = Ahead(head_seen, head)
  BY VisibleProperties DEF Inv, TypeOK
<1>4. TypeOK'
  BY <1>1, <1>2, <1>3 DEF Inv, TypeOK
<1>5. Ahead(tail, h) + Ahead(h, head) = Ahead(tail, head)
  BY <1>3 DEF Inv, TypeOK, SeenIndices, Index, Ahead
<1>6. Ahead(tail, h) > 0
  BY <1>1, <1>3 DEF Empty, Inv, TypeOK, Index, Ahead
<1>7. SeenIndices'
  BY <1>1, <1>2, <1>5, <1>6 DEF Inv, SeenIndices
<1>8. SlotsFilled'
  BY <1>2 DEF Inv, SlotsFilled
<1> QED
  BY <1>4, <1>7, <1>8 DEF Inv

LEMMA PopTakeKeepsInv ==
  ASSUME Inv, PopTake
  PROVE  Inv'
<1>1. /\ UNCHANGED <<head, tail, ppc, tail_seen, value, head_seen>>
      /\ cpc = "take" /\ cpc' = "free" /\ out' = buffer[tail]
      /\ buffer' = [buffer EXCEPT ![tail] = Nothing]
      /\ First = tail /\ First' = NextIndex(tail)
  BY DEF PopTake, producerVars, First
<1>2. /\ head \in Index /\ tail \in Index /\ tail # head
      /\ buffer' \in [Index -> Values \cup {Nothing}]
      /\ buffer'[tail] = Nothing
      /\ \A i \in Index : i # tail => buffer'[i] = buffer[i]
  BY <1>1, PushHasRoom DEF Inv, TypeOK
<1>3. TypeOK'
  BY <1>1, <1>2 DEF Inv, TypeOK
<1>4. SeenIndices'
  BY <1>1 DEF Inv, SeenIndices
<1>5. SlotsFilled'
  <2>1. ASSUME NEW i \in Index
        PROVE  (buffer'[i] # Nothing <=>
                 \/ Ahead(NextIndex(tail), i) < Ahead(NextIndex(tail), head)
                 \/ ppc = "publish" /\ i = head)
    <3>1. buffer[i] # Nothing <=> \/ Ahead(tail, i) < Ahead(tail, head)
                                  \/ ppc = "publish" /\ i = head
      BY <1>1 DEF Inv, SlotsFilled
    <3>2. CASE i = tail
      <4>1. ~ (Ahead(NextIndex(tail), i) < Ahead(NextIndex(tail), head))
        BY <1>2, <3>2 DEF Index, NextIndex, Ahead
      <4> QED
        BY <1>2, <3>2, <4>1
    <3>3. CASE i # tail
      <4>1. Ahead(NextIndex(tail), i) < Ahead(NextIndex(tail), head)
               <=> Ahead(tail, i) < Ahead(tail, head)
        BY <1>2, <3>3 DEF Index, NextIndex, Ahead
      <4> QED
        BY <1>2, <3>1, <3>3, <4>1
    <3> QED
      BY <3>2, <3>3
  <2>2. ppc = "publish" => buffer'[head] = value
    BY <1>2 DEF Inv, SlotsFilled
  <2> QED
    BY <1>1, <2>1, <2>2 DEF SlotsFilled
<1> QED
  BY <1>3, <1>4, <1>5 DEF Inv

LEMMA PopFreeKeepsInv ==
  ASSUME Inv, PopFree
  PROVE  Inv'
<1>1. /\ UNCHANGED <<buffer, head, ppc, tail_seen, value, head_seen, out>>
      /\ cpc = "free" /\ cpc' = "idle" /\ tail' = NextIndex(tail)
      /\ First' = First
  BY DEF PopFree, producerVars, First
<1>2. /\ head \in Index /\ tail \in Index /\ tail_seen \in Index
      /\ head_seen \in Index /\ tail' \in Index /\ tail # head
      /\ Ahead(tail, head_seen) > 0
  BY <1>1, PushHasRoom, IndexArithmetic DEF Inv, TypeOK, SeenIndices
<1>3. TypeOK'
  BY <1>1, <1>2 DEF Inv, TypeOK
<1>4. /\ Ahead(tail_seen, tail) + Ahead(tail, head) = Ahead(tail_seen, head)
      /\ Ahead(tail, head_seen) + Ahead(head_seen, head) = Ahead(tail, head)
  BY DEF Inv, SeenIndices
<1>5. Ahead(tail_seen, tail') + Ahead(tail', head) = Ahead(tail_seen, head)
  BY <1>1, <1>2, <1>4 DEF Index, NextIndex, Ahead
<1>6. Ahead(tail', head_seen) + Ahead(head_seen, head) = Ahead(tail', head)
  BY <1>1, <1>2, <1>4 DEF Index, NextIndex, Ahead
<1>7. SeenIndices'
  BY <1>1, <1>5, <1>6 DEF Inv, SeenIndices
<1>8. SlotsFilled'
  BY <1>1 DEF Inv, SlotsFilled
<1> QED
  BY <1>3, <1>7, <1>8 DEF Inv

LEMMA NextKeepsInv ==
  ASSUME Inv, [Next]_vars
  PROVE  Inv'
<1>1. CASE UNCHANGED vars
  BY <1>1 DEF vars, producerVars, consumerVars, Inv, TypeOK, SeenIndices,
     SlotsFilled, First
<1> QED
  BY <1>1, PushFullKeepsInv, PushStartKeepsInv, PushWriteKeepsInv,
     PushPublishKeepsInv, PopEmptyKeepsInv, PopStartKeepsInv, PopTakeKeepsInv,
     PopFreeKeepsInv DEF Next, Producer, Consumer

\* The inductive invariant holds in every reachable state.
THEOREM InvHolds == Spec => []Inv
BY InitInv, NextKeepsInv, PTL DEF Spec

\* No slot is used by both threads at once, for every capacity.
THEOREM NoSlotShared == Spec => []SlotsOwned
<1>1. Inv => SlotsOwned
  <2> SUFFICES ASSUME Inv PROVE SlotsOwned
    OBVIOUS
  <2>1. ppc = "write" => buffer[head] = Nothing
    <3>1. ~ (Ahead(First, head) < Ahead(First, head))
      BY PushHasRoom DEF Index, Ahead
    <3> QED
      BY <3>1, PushHasRoom DEF Inv, SlotsFilled
  <2>2. cpc = "take" => buffer[tail] \in Values
    <3> SUFFICES ASSUME cpc = "take" PROVE buffer[tail] \in Values
      OBVIOUS
    <3>1. First = tail /\ tail \in Index /\ head \in Index /\ tail # head
      BY PushHasRoom DEF First, Inv, TypeOK
    <3>2. Ahead(tail, tail) < Ahead(tail, head)
      BY <3>1 DEF Index, Ahead
    <3> QED
      BY <3>1, <3>2 DEF Inv, SlotsFilled, TypeOK
  <2>3. (ppc # "idle" /\ cpc # "idle") => head # tail
    BY PushHasRoom
  <2> QED
    BY <2>1, <2>2, <2>3 DEF SlotsOwned
<1> QED
  BY <1>1, InvHolds, PTL

-----------------------------------------------------------------------------
(* Refinement                                                              *)

\* The i-th queued value is i - 1 slots after First.
LEMMA PlaceProperties ==
  ASSUME Inv, NEW i \in 1 .. Ahead(First, head)
  PROVE  /\ Place(i) \in Index
         /\ Ahead(First, Place(i)) = i - 1
         /\ Place(i) # head
         /\ buffer[Place(i)] \in Values
<1>1. First \in Index /\ head \in Index /\ Ahead(First, head) \in Index
  BY PushHasRoom, IndexArithmetic
<1>2. i \in Int /\ 1 <= i /\ i <= Ahead(First, head)
  BY <1>1 DEF Index
<1>3. Place(i) \in Index /\ Ahead(First, Place(i)) = i - 1
  BY <1>1, <1>2 DEF Place, Index, Ahead
<1>4. Place(i) # head
  BY <1>1, <1>2, <1>3 DEF Index
<1>5. Ahead(First, Place(i)) < Ahead(First, head)
  BY <1>1, <1>2, <1>3 DEF Index
<1>6. buffer[Place(i)] # Nothing
  BY <1>3, <1>5 DEF Inv, SlotsFilled
<1> QED
  BY <1>3, <1>4, <1>6 DEF Inv, TypeOK

\* Queued is a sequence of values, one per slot between First and head.
QueuedIsSeq ==
    /\ Queued \in Seq(Values)
    /\ Len(Queued) = Ahead(First, head)
    /\ Ahead(First, head) \in Nat
    /\ \A i \in 1 .. Ahead(First, head) : Queued[i] = buffer[Place(i)]

LEMMA QueuedProperties == Inv => QueuedIsSeq
<1> SUFFICES ASSUME Inv PROVE QueuedIsSeq
  OBVIOUS
<1>1. Ahead(First, head) \in Nat
  BY PushHasRoom, IndexArithmetic
<1>2. Queued \in [1 .. Ahead(First, head) -> Values]
  BY PlaceProperties DEF Queued
<1>3. Queued \in Seq(Values)
  BY <1>1, <1>2, SeqDef
<1>4. Len(Queued) = Ahead(First, head)
  BY <1>1, <1>2, <1>3, LenProperties
<1> QED
  BY <1>1, <1>3, <1>4 DEF Queued, QueuedIsSeq

\* ... in the state after a step as well.
LEMMA QueuedPropertiesPrime == Inv' => QueuedIsSeq'
BY QueuedProperties, PTL

\* A step that moves neither end and leaves the queued slots alone is invisible.
LEMMA QueuedUnchanged ==
  ASSUME Inv, First' = First, head' = head,
         \A i \in Index : i # head => buffer'[i] = buffer[i]
  PROVE  Queued' = Queued
<1>1. \A i \in 1 .. Ahead(First, head) : buffer'[Place(i)] = buffer[Place(i)]
  BY PlaceProperties
<1> QED
  BY <1>1 DEF Queued, Place

\* Publishing appends the value of the push.
LEMMA PublishIsPut ==
  ASSUME Inv, Inv', PushPublish
  PROVE  Fifo!Put(value)
<1>1. /\ buffer' = buffer /\ out' = out /\ First' = First
      /\ ppc = "publish" /\ head' = NextIndex(head)
  BY DEF PushPublish, consumerVars, First
<1>2. /\ First \in Index /\ head \in Index /\ NextIndex(head) # First
      /\ Ahead(First, head) < N - 1 /\ Ahead(First, head) \in Nat
  BY <1>1, PushHasRoom, QueuedProperties DEF QueuedIsSeq
<1>3. Ahead(First, head') = Ahead(First, head) + 1
  BY <1>1, <1>2, IndexArithmetic
<1>4. buffer[head] = value /\ value \in Values
  BY <1>1 DEF Inv, TypeOK, SlotsFilled
<1>5. Queued \in Seq(Values) /\ Len(Queued) = Ahead(First, head)
  BY QueuedProperties DEF QueuedIsSeq
<1>6. Queued' \in Seq(Values) /\ Len(Queued') = Ahead(First, head) + 1
  BY <1>1, <1>3, QueuedPropertiesPrime DEF QueuedIsSeq
<1>7. Place(Ahead(First, head) + 1) = head
  BY <1>2 DEF Place, Index, Ahead
<1>8. /\ Append(Queued, value) \in Seq(Values)
      /\ Len(Append(Queued, value)) = Ahead(First, head) + 1
      /\ \A i \in 1 .. Ahead(First, head) : Append(Queued, value)[i] = Queued[i]
      /\ Append(Queued, value)[Ahead(First, head) + 1] = value
  BY <1>4, <1>5, AppendProperties
<1>9. \A i \in 1 .. Ahead(First, head) + 1 : Queued'[i] = buffer[Place(i)]
  BY <1>1, <1>3 DEF Queued, Place
<1>10. \A i \in 1 .. Ahead(First, head) + 1 : Queued'[i] = Append(Queued, value)[i]
  <2> SUFFICES ASSUME NEW i \in 1 .. Ahead(First, head) + 1
               PROVE  Queued'[i] = Append(Queued, value)[i]
    OBVIOUS
  <2>1. CASE i = Ahead(First, head) + 1
    BY <1>4, <1>7, <1>8, <1>9, <2>1
  <2>2. CASE i # Ahead(First, head) + 1
    <3>1. i \in 1 .. Ahead(First, head)
      BY <1>2, <2>2
    <3> QED
      BY <1>8, <1>9, <3>1, QueuedProperties DEF QueuedIsSeq
  <2> QED
    BY <2>1, <2>2
<1>11. Queued' = Append(Queued, value)
  BY <1>6, <1>8, <1>10, SeqEqual
<1> QED
  BY <1>1, <1>2, <1>5, <1>11 DEF Fifo!Put

\* Taking removes the oldest value and returns it.
LEMMA TakeIsGet ==
  ASSUME Inv, Inv', PopTake
  PROVE  Fifo!Get
<1>1. /\ head' = head /\ out' = buffer[tail]
      /\ First = tail /\ First' = NextIndex(tail)
      /\ buffer' = [buffer EXCEPT ![tail] = Nothing]
      /\ cpc = "take"
  BY DEF PopTake, producerVars, First
<1>2. tail \in Index /\ head \in Index /\ tail # head
  BY <1>1, PushHasRoom DEF Inv, TypeOK
<1>3. /\ Ahead(tail, head) \in Nat /\ Ahead(tail, head) > 0
      /\ Ahead(NextIndex(tail), head) = Ahead(tail, head) - 1
  BY <1>2 DEF Index, NextIndex, Ahead
<1>4. /\ Queued \in Seq(Values) /\ Len(Queued) = Ahead(tail, head)
      /\ \A i \in 1 .. Ahead(tail, head) : Queued[i] = buffer[Place(i)]
  BY <1>1, QueuedProperties DEF QueuedIsSeq
<1>5. Queued # <<>> /\ Head(Queued) = Queued[1]
  BY <1>3, <1>4, EmptySeq, HeadTailProperties
<1>6. Place(1) = tail
  BY <1>1, <1>2 DEF Place, Index
<1>7. Head(Queued) = buffer[tail]
  BY <1>3, <1>4, <1>5, <1>6
<1>8. /\ Tail(Queued) \in Seq(Values)
      /\ Len(Tail(Queued)) = Ahead(tail, head) - 1
      /\ \A i \in 1 .. Ahead(tail, head) - 1 : Tail(Queued)[i] = Queued[i + 1]
  BY <1>4, <1>5, HeadTailProperties
<1>9. /\ Queued' \in Seq(Values)
      /\ Len(Queued') = Ahead(tail, head) - 1
      /\ \A i \in 1 .. Ahead(tail, head) - 1 : Queued'[i] = buffer'[Place(i)']
  BY <1>1, <1>3, QueuedPropertiesPrime DEF QueuedIsSeq
<1>10. \A i \in 1 .. Ahead(tail, head) - 1 : Queued'[i] = Tail(Queued)[i]
  <2> SUFFICES ASSUME NEW i \in 1 .. Ahead(tail, head) - 1
               PROVE  Queued'[i] = Tail(Queued)[i]
    OBVIOUS
  <2>4. Tail(Queued)[i] = buffer[Place(i + 1)]
    <3>1. i + 1 \in 1 .. Ahead(tail, head)
      BY <1>3
    <3> QED
      BY <1>4, <1>8, <3>1
  <2>5. Queued'[i] = buffer'[Place(i)']
    BY <1>9
  <2>1. i \in Int /\ 1 <= i /\ i <= Ahead(tail, head) - 1
    BY <1>3
  <2>2. Place(i)' = Place(i + 1)
    BY <1>1, <1>2, <2>1 DEF Place, NextIndex, Index, Ahead
  <2>3. Place(i + 1) \in Index /\ Place(i + 1) # tail
    BY <1>1, <1>2, <2>1 DEF Place, NextIndex, Index, Ahead
  <2> QED
    BY <1>1, <2>2, <2>3, <2>4, <2>5 DEF Inv, TypeOK
<1>11. Queued' = Tail(Queued)
  BY <1>8, <1>9, <1>10, SeqEqual
<1> QED
  BY <1>1, <1>5, <1>7, <1>11 DEF Fifo!Get

\* The ring is a bounded queue: nothing is lost, repeated or reordered, for
\* every capacity, every interleaving of the two threads and however stale the
\* indices they read.
THEOREM RingIsFifo == Spec => ImplementsFifo
<1>1. Init => Fifo!FifoInit
  <2> SUFFICES ASSUME Init PROVE Fifo!FifoInit
    OBVIOUS
  <2>1. First = 0 /\ head = 0 /\ Ahead(0, 0) = 0
    BY DEF Init, First, Ahead
  <2>2. Len(Queued) = 0 /\ Queued \in Seq(Values)
    BY <2>1, InitInv, QueuedProperties DEF QueuedIsSeq
  <2> QED
    BY <2>2, EmptySeq DEF Fifo!FifoInit, Init
<1>2. ASSUME Inv, Inv', [Next]_vars
      PROVE  [Fifo!FifoNext]_(Fifo!fifoVars)
  <2>1. CASE PushPublish
    <3>1. value \in Values
      BY <1>2, <2>1 DEF PushPublish, Inv, TypeOK
    <3> QED
      BY <1>2, <2>1, <3>1, PublishIsPut DEF Fifo!FifoNext
  <2>2. CASE PopTake
    BY <1>2, <2>2, TakeIsGet DEF Fifo!FifoNext
  <2>3. CASE PushWrite
    <3>1. /\ First' = First /\ head' = head /\ out' = out
          /\ \A i \in Index : i # head => buffer'[i] = buffer[i]
      BY <1>2, <2>3 DEF PushWrite, consumerVars, First, Inv, TypeOK
    <3> QED
      BY <1>2, <3>1, QueuedUnchanged DEF Fifo!fifoVars
  <2>4. CASE \/ PushFull \/ (\E v \in Values : PushStart(v))
             \/ PopEmpty \/ PopStart \/ PopFree \/ UNCHANGED vars
    <3>1. First' = First /\ head' = head /\ out' = out /\ buffer' = buffer
      BY <2>4 DEF PushFull, PushStart, PopEmpty, PopStart, PopFree, vars,
         producerVars, consumerVars, First
    <3> QED
      BY <1>2, <3>1, QueuedUnchanged DEF Fifo!fifoVars
  <2> QED
    BY <1>2, <2>1, <2>2, <2>3, <2>4 DEF Next, Producer, Consumer
<1> QED
  BY <1>1, <1>2, InvHolds, PTL DEF Spec, ImplementsFifo, Fifo!FifoSpec
=============================================================================
