----------------------- MODULE IngressPipeline_proofs -----------------------
(***************************************************************************)
(* Proofs about IngressPipeline, for every number of accounts, every limit *)
(* and lane depth, and every sequence of times.                            *)
(***************************************************************************)
EXTENDS IngressPipeline, SequenceTheorems, TLAPS

-----------------------------------------------------------------------------
(* How the grants of one kind are spaced                                   *)

\* A later frame that is not granted.
LEMMA SpacedLater ==
  ASSUME NEW s \in Int, NEW c \in Nat, NEW g \in Seq(Int), NEW l \in Int,
         NEW m \in Nat, NEW t \in Int, t >= l,
         GrantsSpaced(s, c, g, l, m)
  PROVE  GrantsSpaced(s, c, g, t, m)
<1>1. \A i \in 1 .. Len(g) : g[i] <= t
  <2> SUFFICES ASSUME NEW i \in 1 .. Len(g) PROVE g[i] <= t
    OBVIOUS
  <2>1. g[i] \in Int /\ g[i] <= l
    BY LenProperties DEF GrantsSpaced
  <2> QED
    BY <2>1
<1> QED
  BY <1>1 DEF GrantsSpaced

\* A frame that opens a window.
LEMMA SpacedReset ==
  ASSUME NEW s \in Int, NEW c \in Nat, NEW g \in Seq(Int), NEW l \in Int,
         NEW m \in Nat, NEW t \in Int, t >= l, c <= m, Second \in Nat,
         t - s >= Second, GrantsSpaced(s, c, g, l, m)
  PROVE  GrantsSpaced(t, 0, g, t, m)
<1>1. Len(g) \in Nat /\ \A i \in 1 .. Len(g) : g[i] \in Int
  BY LenProperties
<1>2. \A i \in 1 .. Len(g) : g[i] <= t
  BY SpacedLater DEF GrantsSpaced
<1>3. \A i \in 1 .. Len(g) - 0 - m : g[i] + Second <= t
  <2> SUFFICES ASSUME NEW i \in 1 .. Len(g) - 0 - m PROVE g[i] + Second <= t
    OBVIOUS
  <2>1. i \in 1 .. Len(g) - c /\ i \in 1 .. Len(g)
    BY <1>1
  <2>2. g[i] <= s
    BY <2>1 DEF GrantsSpaced
  <2> QED
    BY <1>1, <2>1, <2>2
<1> QED
  BY <1>1, <1>2, <1>3 DEF GrantsSpaced

\* A frame that is granted in its window.
LEMMA SpacedGrant ==
  ASSUME NEW s \in Int, NEW c \in Nat, NEW g \in Seq(Int), NEW l \in Int,
         NEW m \in Nat, NEW t \in Int, t >= l, l >= s, c < m,
         Second \in Nat, GrantsSpaced(s, c, g, l, m)
  PROVE  GrantsSpaced(s, c + 1, Append(g, t), t, m)
<1> DEFINE h == Append(g, t)
<1>1. /\ Len(g) \in Nat /\ \A i \in 1 .. Len(g) : g[i] \in Int
      /\ Len(h) = Len(g) + 1
      /\ \A i \in 1 .. Len(g) : h[i] = g[i]
      /\ h[Len(g) + 1] = t
  BY LenProperties, AppendProperties
<1> HIDE DEF h
<1>2. \A i \in 1 .. Len(h) : h[i] <= t
  <2> SUFFICES ASSUME NEW i \in 1 .. Len(h) PROVE h[i] <= t
    OBVIOUS
  <2>1. CASE i = Len(g) + 1
    BY <1>1, <2>1
  <2>2. CASE i # Len(g) + 1
    <3>1. i \in 1 .. Len(g)
      BY <1>1, <2>2
    <3>2. g[i] <= l
      BY <3>1 DEF GrantsSpaced
    <3> QED
      BY <1>1, <3>1, <3>2
  <2> QED
    BY <2>1, <2>2
<1>3. \A i \in 1 .. Len(h) - (c + 1) : h[i] <= s
  <2> SUFFICES ASSUME NEW i \in 1 .. Len(h) - (c + 1) PROVE h[i] <= s
    OBVIOUS
  <2>1. i \in 1 .. Len(g) - c /\ i \in 1 .. Len(g)
    BY <1>1
  <2> QED
    BY <1>1, <2>1 DEF GrantsSpaced
<1>4. \A i \in 1 .. Len(h) - (c + 1) - m : h[i] + Second <= s
  <2> SUFFICES ASSUME NEW i \in 1 .. Len(h) - (c + 1) - m PROVE h[i] + Second <= s
    OBVIOUS
  <2>1. i \in 1 .. Len(g) - c - m /\ i \in 1 .. Len(g)
    BY <1>1
  <2> QED
    BY <1>1, <2>1 DEF GrantsSpaced
<1>5. \A i \in 1 .. Len(h) - (2 * m) : h[i + (2 * m)] - h[i] >= Second
  <2> SUFFICES ASSUME NEW i \in 1 .. Len(h) - (2 * m)
               PROVE  h[i + (2 * m)] - h[i] >= Second
    OBVIOUS
  <2>1. CASE i + (2 * m) = Len(g) + 1
    <3>1. i \in 1 .. Len(g) - c - m /\ i \in 1 .. Len(g)
      BY <1>1, <2>1
    <3>2. g[i] + Second <= s
      BY <3>1 DEF GrantsSpaced
    <3>3. h[i + (2 * m)] = t /\ h[i] = g[i] /\ g[i] \in Int
      BY <1>1, <2>1, <3>1
    <3>4. t - g[i] >= Second
      BY ONLY t \in Int, l \in Int, s \in Int, Second \in Nat, t >= l, l >= s,
         <3>2, <3>3
    <3> QED
      BY ONLY <3>3, <3>4
  <2>2. CASE i + (2 * m) # Len(g) + 1
    <3>1. i \in 1 .. Len(g) - (2 * m) /\ i \in 1 .. Len(g) /\ i + (2 * m) \in 1 .. Len(g)
      BY <1>1, <2>2
    <3> QED
      BY <1>1, <3>1 DEF GrantsSpaced
  <2> QED
    BY <2>1, <2>2
<1> QED
  BY <1>2, <1>3, <1>4, <1>5 DEF GrantsSpaced, h

-----------------------------------------------------------------------------
(* The window of a frame                                                   *)

\* The window a frame is counted in is the account's own or a new one.
LEMMA WindowProperties ==
  ASSUME TypeOK, NEW f \in Frames
  PROVE  /\ f.account \in Accounts /\ f.kind \in Kinds /\ f.time \in Int
         /\ Window(f) \in AccountWindows
         /\ \A k \in Kinds : Window(f).count[k] <= MaxPerSecond[k]
         /\ \/ Window(f) = rate_windows[f.account]
            \/ /\ Window(f).window_start = f.time
               /\ \A k \in Kinds : Window(f).count[k] = 0
               /\ f.time - rate_windows[f.account].window_start >= Second
<1>1. f.account \in Accounts /\ f.kind \in Kinds /\ f.time \in Int
  BY TimesAssumption DEF Frames
<1>2. CASE f.time - rate_windows[f.account].window_start >= Second
  <2>1. Window(f) = [window_start |-> f.time, count |-> NoCount]
    BY <1>2 DEF Window, CurrentWindow
  <2>2. NoCount \in [Kinds -> Nat] /\ \A k \in Kinds : NoCount[k] = 0
    BY DEF NoCount
  <2>3. \A k \in Kinds : 0 <= MaxPerSecond[k]
    BY LimitsAssumption
  <2> QED
    BY <1>1, <1>2, <2>1, <2>2, <2>3 DEF AccountWindows
<1>3. CASE ~ (f.time - rate_windows[f.account].window_start >= Second)
  <2>1. Window(f) = rate_windows[f.account]
    BY <1>3 DEF Window, CurrentWindow
  <2> QED
    BY <1>1, <2>1 DEF TypeOK
<1> QED
  BY <1>2, <1>3

\* Observe, spelled out.
LEMMA ObserveProperties ==
  ASSUME TypeOK, NEW f \in Frames, Observe(f)
  PROVE  /\ latest' \in [Accounts -> Int] /\ in_order' \in [Accounts -> BOOLEAN]
         /\ in_order'[f.account] =>
               /\ in_order[f.account] /\ f.time >= latest[f.account]
               /\ latest'[f.account] = f.time
         /\ \A a \in Accounts : a # f.account => /\ latest'[a] = latest[a]
                                                 /\ in_order'[a] = in_order[a]
<1>1. f.account \in Accounts /\ f.time \in Int
  BY WindowProperties
<1>2. latest' \in [Accounts -> Int]
  BY <1>1 DEF TypeOK, Observe
<1>3. in_order' \in [Accounts -> BOOLEAN]
  BY <1>1 DEF TypeOK, Observe
<1>4. in_order'[f.account] => in_order[f.account] /\ f.time >= latest[f.account]
  BY <1>1 DEF TypeOK, Observe
<1>5. f.time >= latest[f.account] => latest'[f.account] = f.time
  BY <1>1 DEF TypeOK, Observe
<1>6. \A a \in Accounts : a # f.account => /\ latest'[a] = latest[a]
                                           /\ in_order'[a] = in_order[a]
  BY <1>1 DEF TypeOK, Observe
<1> QED
  BY <1>2, <1>3, <1>4, <1>5, <1>6

\* The grants made so far are spaced with respect to the window of the frame.
LEMMA WindowSpaced ==
  ASSUME Inv, NEW f \in Frames, in_order[f.account], f.time >= latest[f.account]
  PROVE  /\ f.time >= Window(f).window_start
         /\ \A k \in Kinds :
               GrantsSpaced(Window(f).window_start, Window(f).count[k],
                            granted[f.account][k], f.time, MaxPerSecond[k])
<1> DEFINE a == f.account
           w == rate_windows[a]
           W == Window(f)
<1>1. /\ a \in Accounts /\ f.time \in Int /\ latest[a] \in Int
      /\ W \in AccountWindows /\ w \in AccountWindows
      /\ granted[a] \in [Kinds -> Seq(Int)] /\ Second \in Nat
      /\ MaxPerSecond \in [Kinds -> Nat]
      /\ \A k \in Kinds : w.count[k] <= MaxPerSecond[k]
  BY WindowProperties, SecondAssumption, LimitsAssumption DEF Inv, TypeOK
<1>2. /\ latest[a] >= w.window_start
      /\ \A k \in Kinds : GrantsSpaced(w.window_start, w.count[k], granted[a][k],
                                       latest[a], MaxPerSecond[k])
  BY <1>1 DEF Inv, WindowsSpaced
<1>3. /\ w.window_start \in Int /\ w.count \in [Kinds -> Nat]
      /\ W.window_start \in Int /\ W.count \in [Kinds -> Nat]
  BY <1>1 DEF AccountWindows
<1>4. \/ W = w
      \/ /\ W.window_start = f.time /\ \A k \in Kinds : W.count[k] = 0
         /\ f.time - w.window_start >= Second
  BY WindowProperties DEF Inv
<1> HIDE DEF a, w, W
<1>5. f.time >= W.window_start
  BY <1>1, <1>2, <1>3, <1>4 DEF a
<1>6. ASSUME NEW k \in Kinds
      PROVE  GrantsSpaced(W.window_start, W.count[k], granted[a][k], f.time,
                          MaxPerSecond[k])
  <2>1. /\ w.count[k] \in Nat /\ MaxPerSecond[k] \in Nat
        /\ granted[a][k] \in Seq(Int)
        /\ w.count[k] <= MaxPerSecond[k]
        /\ GrantsSpaced(w.window_start, w.count[k], granted[a][k], latest[a],
                        MaxPerSecond[k])
    BY <1>1, <1>2, <1>3
  <2>2. CASE W = w
    BY <1>1, <1>3, <2>1, <2>2, SpacedLater DEF a
  <2>3. CASE /\ W.window_start = f.time /\ W.count[k] = 0
             /\ f.time - w.window_start >= Second
    BY <1>1, <1>3, <2>1, <2>3, SpacedReset DEF a
  <2> QED
    BY <1>4, <2>2, <2>3
<1> QED
  BY <1>5, <1>6 DEF a, W

-----------------------------------------------------------------------------
(* Initial state and steps                                                 *)

LEMMA InitInv == Init => Inv
<1> SUFFICES ASSUME Init PROVE Inv
  OBVIOUS
<1>1. TypeOK
  <2>1. NoCount \in [Kinds -> Nat] /\ \A k \in Kinds : NoCount[k] = 0
    BY DEF NoCount
  <2>2. rate_windows \in [Accounts -> AccountWindows]
    BY <2>1 DEF Init, AccountWindows
  <2>3. \A a \in Accounts, k \in Kinds : rate_windows[a].count[k] <= MaxPerSecond[k]
    BY <2>1, LimitsAssumption DEF Init
  <2>4. lanes \in [Kinds -> Seq(Frames)] /\ unseen \in [Kinds -> Nat]
    BY EmptySeq DEF Init
  <2>5. \A k \in Kinds : Len(lanes[k]) + unseen[k] <= Depth[k] - 1
    <3>1. \A k \in Kinds : Len(lanes[k]) = 0 /\ unseen[k] = 0
      BY EmptySeq DEF Init
    <3> QED
      BY <3>1, DepthAssumption
  <2>6. granted \in [Accounts -> [Kinds -> Seq(Int)]]
    BY EmptySeq DEF Init
  <2> QED
    BY <2>2, <2>3, <2>4, <2>5, <2>6 DEF TypeOK, Init
<1>2. WindowsSpaced
  <2>1. ASSUME NEW m \in Nat PROVE GrantsSpaced(0, 0, <<>>, 0, m)
    BY EmptySeq DEF GrantsSpaced
  <2>2. \A k \in Kinds : NoCount[k] = 0 /\ MaxPerSecond[k] \in Nat
    BY LimitsAssumption DEF NoCount
  <2> QED
    BY <2>1, <2>2 DEF WindowsSpaced, Init
<1> QED
  BY <1>1, <1>2 DEF Inv

\* Every submit counts itself in stats.
LEMMA CountKeepsTypes ==
  ASSUME TypeOK, NEW c \in Counters, Count(c)
  PROVE  stats' \in [Counters -> Nat] /\ frames' \in Nat
BY DEF TypeOK, Count

\* A frame that is refused by rate_limit.
LEMMA RateLimitedKeepsInv ==
  ASSUME Inv, NEW f \in Frames, submit_rate_limited(f)
  PROVE  Inv'
<1> DEFINE a == f.account
<1>1. /\ Count("rejected_rate_limit") /\ Observe(f)
      /\ rate_windows' = [rate_windows EXCEPT ![a] = Window(f)]
      /\ lanes' = lanes /\ unseen' = unseen /\ granted' = granted
  BY DEF submit_rate_limited
<1>2. /\ a \in Accounts /\ Window(f) \in AccountWindows
      /\ \A k \in Kinds : Window(f).count[k] <= MaxPerSecond[k]
  BY WindowProperties DEF Inv
<1>3. /\ rate_windows' \in [Accounts -> AccountWindows]
      /\ rate_windows'[a] = Window(f)
      /\ \A b \in Accounts : b # a => rate_windows'[b] = rate_windows[b]
  BY <1>1, <1>2 DEF Inv, TypeOK
<1>4. stats' \in [Counters -> Nat] /\ frames' \in Nat
  BY <1>1, CountKeepsTypes DEF Counters, Inv
<1>5. /\ latest' \in [Accounts -> Int] /\ in_order' \in [Accounts -> BOOLEAN]
      /\ in_order'[a] => /\ in_order[a] /\ f.time >= latest[a] /\ latest'[a] = f.time
      /\ \A b \in Accounts : b # a => /\ latest'[b] = latest[b]
                                      /\ in_order'[b] = in_order[b]
  BY <1>1, ObserveProperties DEF Inv
<1>6. TypeOK'
  BY <1>1, <1>2, <1>3, <1>4, <1>5 DEF Inv, TypeOK
<1> HIDE DEF a
<1>7. WindowsSpaced'
  <2> SUFFICES ASSUME NEW b \in Accounts, in_order'[b]
               PROVE  /\ latest'[b] >= rate_windows'[b].window_start
                      /\ \A k \in Kinds :
                            GrantsSpaced(rate_windows'[b].window_start,
                                         rate_windows'[b].count[k], granted[b][k],
                                         latest'[b], MaxPerSecond[k])
    BY <1>1 DEF WindowsSpaced
  <2>1. CASE b = a
    BY <1>3, <1>5, <2>1, WindowSpaced DEF a
  <2>2. CASE b # a
    BY <1>3, <1>5, <2>2 DEF Inv, WindowsSpaced
  <2> QED
    BY <2>1, <2>2
<1> QED
  BY <1>6, <1>7 DEF Inv

\* A frame that rate_limit lets pass: the part of the state that it changes.
LEMMA GrantKeepsWindows ==
  ASSUME Inv, NEW f \in Frames, Grant(f)
  PROVE  /\ rate_windows' \in [Accounts -> AccountWindows]
         /\ \A a \in Accounts, k \in Kinds :
               rate_windows'[a].count[k] <= MaxPerSecond[k]
         /\ granted' \in [Accounts -> [Kinds -> Seq(Int)]]
         /\ latest' \in [Accounts -> Int] /\ in_order' \in [Accounts -> BOOLEAN]
         /\ WindowsSpaced'
<1> DEFINE a == f.account
           n == f.kind
           W == Window(f)
           V == Counted(W, n)
           g == granted[a][n]
<1>1. /\ rate_windows' = [rate_windows EXCEPT ![a] = V]
      /\ granted' = [granted EXCEPT ![a][n] = Append(g, f.time)]
      /\ Observe(f) /\ W.count[n] < MaxPerSecond[n]
  <2>1. ~ (W.count[n] >= MaxPerSecond[n])
    BY DEF Grant, Exceeded
  <2>2. W.count[n] \in Nat /\ MaxPerSecond[n] \in Nat
    BY WindowProperties, LimitsAssumption DEF Inv, AccountWindows
  <2>3. W.count[n] < MaxPerSecond[n]
    BY <2>1, <2>2
  <2> QED
    BY <2>3 DEF Grant
<1>2. /\ a \in Accounts /\ n \in Kinds /\ f.time \in Int
      /\ W.window_start \in Int /\ W.count \in [Kinds -> Nat]
      /\ W = [window_start |-> W.window_start, count |-> W.count]
      /\ \A k \in Kinds : W.count[k] <= MaxPerSecond[k]
      /\ MaxPerSecond \in [Kinds -> Nat] /\ Second \in Nat
  BY WindowProperties, LimitsAssumption, SecondAssumption DEF Inv, AccountWindows
<1>3. /\ V \in AccountWindows
      /\ V.window_start = W.window_start
      /\ V.count[n] = W.count[n] + 1
      /\ \A k \in Kinds : k # n => V.count[k] = W.count[k]
      /\ \A k \in Kinds : V.count[k] <= MaxPerSecond[k]
  <2> HIDE DEF W
  <2>1. V = [window_start |-> W.window_start,
             count |-> [W.count EXCEPT ![n] = W.count[n] + 1]]
    BY <1>2 DEF Counted
  <2>2. [W.count EXCEPT ![n] = W.count[n] + 1] \in [Kinds -> Nat]
    BY <1>2
  <2> QED
    BY <1>1, <1>2, <2>1, <2>2 DEF AccountWindows
<1>4. /\ granted[a] \in [Kinds -> Seq(Int)] /\ g \in Seq(Int)
      /\ Append(g, f.time) \in Seq(Int)
  BY <1>2, AppendProperties DEF Inv, TypeOK
<1>5. /\ granted' \in [Accounts -> [Kinds -> Seq(Int)]]
      /\ granted'[a][n] = Append(g, f.time)
      /\ \A k \in Kinds : k # n => granted'[a][k] = granted[a][k]
      /\ \A b \in Accounts : b # a => granted'[b] = granted[b]
  <2> HIDE DEF a, n, g
  <2> DEFINE G == Append(g, f.time)
             H == [granted[a] EXCEPT ![n] = G]
  <2>1. G \in Seq(Int)
    BY <1>4
  <2> HIDE DEF G
  <2>2. /\ H \in [Kinds -> Seq(Int)] /\ H[n] = G
        /\ \A k \in Kinds : k # n => H[k] = granted[a][k]
    BY <1>2, <1>4, <2>1
  <2>3. granted' = [granted EXCEPT ![a] = H]
    BY <1>1 DEF G
  <2> HIDE DEF H
  <2>4. /\ granted' \in [Accounts -> [Kinds -> Seq(Int)]]
        /\ granted'[a] = H
        /\ \A b \in Accounts : b # a => granted'[b] = granted[b]
    BY <1>2, <2>2, <2>3 DEF Inv, TypeOK
  <2> QED
    BY <2>2, <2>4 DEF G
<1>6. /\ rate_windows' \in [Accounts -> AccountWindows]
      /\ rate_windows'[a] = V
      /\ \A b \in Accounts : b # a => rate_windows'[b] = rate_windows[b]
  <2> HIDE DEF V
  <2> QED
    BY <1>1, <1>2, <1>3 DEF Inv, TypeOK
<1>7. \A b \in Accounts, k \in Kinds : rate_windows'[b].count[k] <= MaxPerSecond[k]
  BY <1>3, <1>6 DEF Inv, TypeOK
<1>8. /\ latest' \in [Accounts -> Int] /\ in_order' \in [Accounts -> BOOLEAN]
      /\ in_order'[a] => /\ in_order[a] /\ f.time >= latest[a] /\ latest'[a] = f.time
      /\ \A b \in Accounts : b # a => /\ latest'[b] = latest[b]
                                      /\ in_order'[b] = in_order[b]
  BY <1>1, ObserveProperties DEF Inv
<1>9. ASSUME in_order'[a]
      PROVE  /\ f.time >= W.window_start
             /\ \A k \in Kinds : GrantsSpaced(W.window_start, W.count[k],
                                              granted[a][k], f.time, MaxPerSecond[k])
  BY <1>8, <1>9, WindowSpaced
<1> HIDE DEF a, n, W, V
<1>10. WindowsSpaced'
  <2> SUFFICES ASSUME NEW b \in Accounts, in_order'[b]
               PROVE  /\ latest'[b] >= rate_windows'[b].window_start
                      /\ \A k \in Kinds :
                            GrantsSpaced(rate_windows'[b].window_start,
                                         rate_windows'[b].count[k], granted'[b][k],
                                         latest'[b], MaxPerSecond[k])
    BY DEF WindowsSpaced
  <2>1. CASE b = a
    <3>1. latest'[b] = f.time /\ f.time >= V.window_start
      BY <1>3, <1>8, <1>9, <2>1
    <3>2. ASSUME NEW k \in Kinds
          PROVE  GrantsSpaced(V.window_start, V.count[k], granted'[a][k], f.time,
                              MaxPerSecond[k])
      <4>1. CASE k = n
        <5>1. GrantsSpaced(W.window_start, W.count[n], g, f.time, MaxPerSecond[n])
          BY <1>2, <1>9, <2>1
        <5>2. GrantsSpaced(W.window_start, W.count[n] + 1, Append(g, f.time),
                           f.time, MaxPerSecond[n])
          <6>1. /\ W.count[n] \in Nat /\ MaxPerSecond[n] \in Nat
                /\ f.time >= f.time /\ f.time >= W.window_start
            BY <1>2, <1>9, <2>1
          <6> HIDE DEF g
          <6> QED
            BY <1>1, <1>2, <1>4, <5>1, <6>1, SpacedGrant
        <5> QED
          BY <1>3, <1>5, <4>1, <5>2
      <4>2. CASE k # n
        BY <1>3, <1>5, <1>9, <2>1, <4>2
      <4> QED
        BY <4>1, <4>2
    <3> QED
      BY <1>6, <2>1, <3>1, <3>2
  <2>2. CASE b # a
    BY <1>5, <1>6, <1>8, <2>2 DEF Inv, WindowsSpaced
  <2> QED
    BY <2>1, <2>2
<1> QED
  BY <1>5, <1>6, <1>7, <1>8, <1>10

\* A lane of l frames and v unseen slots still fits when push sees it with u.
LEMMA RoomInLane ==
  ASSUME NEW l \in Nat, NEW u \in Nat, NEW v \in Nat, NEW d \in Nat,
         u <= v, l + v <= d - 1
  PROVE  /\ l + u <= d - 1
         /\ l + u # d - 1 => (l + 1) + u <= d - 1
OBVIOUS

\* A frame that finds its lane full.
LEMMA QueueFullKeepsInv ==
  ASSUME Inv, NEW f \in Frames, submit_queue_full(f)
  PROVE  Inv'
<1>1. Count("rejected_queue_full") /\ Grant(f) /\ lanes' = lanes
  BY DEF submit_queue_full
<1>2. PICK u \in 0 .. unseen[f.kind] :
           Full(f.kind, u) /\ unseen' = [unseen EXCEPT ![f.kind] = u]
  BY DEF submit_queue_full
<1>3. f.kind \in Kinds /\ stats' \in [Counters -> Nat] /\ frames' \in Nat
  BY <1>1, WindowProperties, CountKeepsTypes DEF Counters, Inv
<1>4. /\ unseen[f.kind] \in Nat /\ u \in Nat /\ u <= unseen[f.kind]
      /\ unseen' \in [Kinds -> Nat] /\ unseen'[f.kind] = u
      /\ \A k \in Kinds : k # f.kind => unseen'[k] = unseen[k]
  BY <1>2, <1>3 DEF Inv, TypeOK
<1>5. \A k \in Kinds : Len(lanes[k]) + unseen'[k] <= Depth[k] - 1
  <2>1. \A k \in Kinds : Len(lanes[k]) \in Nat /\ unseen[k] \in Nat /\ Depth[k] \in Nat
    BY LenProperties, DepthAssumption DEF Inv, TypeOK
  <2>2. Len(lanes[f.kind]) + u <= Depth[f.kind] - 1
    BY <1>3, <1>4, <2>1, RoomInLane DEF Inv, TypeOK
  <2>3. \A k \in Kinds : Len(lanes[k]) + unseen[k] <= Depth[k] - 1
    BY DEF Inv, TypeOK
  <2> QED
    BY <1>4, <2>2, <2>3
<1>6. TypeOK'
  BY <1>1, <1>3, <1>4, <1>5, GrantKeepsWindows DEF Inv, TypeOK
<1> QED
  BY <1>1, <1>6, GrantKeepsWindows DEF Inv

\* A frame that enters its lane.
LEMMA AcceptedKeepsInv ==
  ASSUME Inv, NEW f \in Frames, submit_accepted(f)
  PROVE  Inv'
<1> DEFINE n == f.kind
<1>1. /\ Count("accepted") /\ Grant(f)
      /\ lanes' = [lanes EXCEPT ![n] = Append(lanes[n], f)]
  BY DEF submit_accepted
<1>2. PICK u \in 0 .. unseen[n] : ~ Full(n, u) /\ unseen' = [unseen EXCEPT ![n] = u]
  BY DEF submit_accepted
<1>3. n \in Kinds /\ stats' \in [Counters -> Nat] /\ frames' \in Nat
  BY <1>1, WindowProperties, CountKeepsTypes DEF Counters, Inv
<1> HIDE DEF n
<1>4. /\ unseen[n] \in Nat /\ u \in Nat /\ u <= unseen[n]
      /\ unseen' \in [Kinds -> Nat] /\ unseen'[n] = u
      /\ \A k \in Kinds : k # n => unseen'[k] = unseen[k]
  BY <1>2, <1>3 DEF Inv, TypeOK
<1>5. /\ lanes[n] \in Seq(Frames) /\ Len(lanes[n]) \in Nat
      /\ Append(lanes[n], f) \in Seq(Frames)
      /\ Len(Append(lanes[n], f)) = Len(lanes[n]) + 1
  BY <1>3, LenProperties, AppendProperties DEF Inv, TypeOK
<1>6. /\ lanes' \in [Kinds -> Seq(Frames)]
      /\ Len(lanes'[n]) = Len(lanes[n]) + 1
      /\ \A k \in Kinds : k # n => lanes'[k] = lanes[k]
  <2> DEFINE L == Append(lanes[n], f)
  <2> HIDE DEF L
  <2>1. L \in Seq(Frames) /\ Len(L) = Len(lanes[n]) + 1
    BY <1>5 DEF L
  <2>2. lanes' = [lanes EXCEPT ![n] = L]
    BY <1>1 DEF L
  <2> QED
    BY <1>3, <2>1, <2>2 DEF Inv, TypeOK
<1>7. \A k \in Kinds : Len(lanes'[k]) + unseen'[k] <= Depth[k] - 1
  <2>1. Len(lanes[n]) + unseen[n] <= Depth[n] - 1 /\ Depth[n] \in Nat
    BY <1>3, DepthAssumption DEF Inv, TypeOK
  <2>2. Len(lanes[n]) + u # Depth[n] - 1
    BY <1>2 DEF Full
  <2>3. (Len(lanes[n]) + 1) + u <= Depth[n] - 1
    BY <1>4, <1>5, <2>1, <2>2, RoomInLane
  <2>4. Len(lanes'[n]) + unseen'[n] <= Depth[n] - 1
    BY <1>4, <1>6, <2>3
  <2> QED
    BY <1>4, <1>6, <2>4 DEF Inv, TypeOK
<1>8. TypeOK'
  BY <1>1, <1>3, <1>4, <1>6, <1>7, GrantKeepsWindows DEF Inv, TypeOK
<1> QED
  BY <1>1, <1>8, GrantKeepsWindows DEF Inv

\* The event loop takes a frame.
LEMMA TakeKeepsInv ==
  ASSUME Inv, NEW n \in Kinds, Take(n)
  PROVE  Inv'
<1>1. /\ lanes[n] # <<>>
      /\ lanes' = [lanes EXCEPT ![n] = Tail(lanes[n])]
      /\ unseen' = [unseen EXCEPT ![n] = unseen[n] + 1]
      /\ UNCHANGED <<rate_windows, stats, frames, granted, latest, in_order>>
  BY DEF Take, history
<1>2. /\ lanes[n] \in Seq(Frames) /\ Len(lanes[n]) \in Nat
      /\ Tail(lanes[n]) \in Seq(Frames)
      /\ Len(Tail(lanes[n])) = Len(lanes[n]) - 1
  BY <1>1, LenProperties, HeadTailProperties DEF Inv, TypeOK
<1>3. /\ lanes' \in [Kinds -> Seq(Frames)]
      /\ Len(lanes'[n]) = Len(lanes[n]) - 1
      /\ \A k \in Kinds : k # n => lanes'[k] = lanes[k]
  <2> DEFINE L == Tail(lanes[n])
  <2> HIDE DEF L
  <2>1. L \in Seq(Frames) /\ Len(L) = Len(lanes[n]) - 1
    BY <1>2 DEF L
  <2>2. lanes' = [lanes EXCEPT ![n] = L]
    BY <1>1 DEF L
  <2> QED
    BY <2>1, <2>2 DEF Inv, TypeOK
<1>4. /\ unseen' \in [Kinds -> Nat] /\ unseen[n] \in Nat
      /\ unseen'[n] = unseen[n] + 1
      /\ \A k \in Kinds : k # n => unseen'[k] = unseen[k]
  BY <1>1 DEF Inv, TypeOK
<1>5. \A k \in Kinds : Len(lanes'[k]) + unseen'[k] <= Depth[k] - 1
  <2>1. Len(lanes[n]) + unseen[n] <= Depth[n] - 1 /\ Depth[n] \in Nat
    BY DepthAssumption DEF Inv, TypeOK
  <2>2. Len(lanes'[n]) + unseen'[n] <= Depth[n] - 1
    BY <1>2, <1>3, <1>4, <2>1
  <2> QED
    BY <1>3, <1>4, <2>2 DEF Inv, TypeOK
<1>6. TypeOK'
  BY <1>1, <1>3, <1>4, <1>5 DEF Inv, TypeOK
<1>7. WindowsSpaced'
  BY <1>1 DEF Inv, WindowsSpaced
<1> QED
  BY <1>6, <1>7 DEF Inv

LEMMA NextKeepsInv ==
  ASSUME Inv, [Next]_ingressVars
  PROVE  Inv'
<1>1. CASE submit_heartbeat
  <2>1. /\ stats' \in [Counters -> Nat] /\ frames' \in Nat
        /\ UNCHANGED <<rate_windows, lanes, unseen, granted, latest, in_order>>
    BY <1>1, CountKeepsTypes DEF submit_heartbeat, Counters, Inv, history
  <2> QED
    BY <2>1 DEF Inv, TypeOK, WindowsSpaced
<1>2. CASE submit_unauthentic
  <2>1. /\ stats' \in [Counters -> Nat] /\ frames' \in Nat
        /\ UNCHANGED <<rate_windows, lanes, unseen, granted, latest, in_order>>
    BY <1>2, CountKeepsTypes DEF submit_unauthentic, Counters, Inv, history
  <2> QED
    BY <2>1 DEF Inv, TypeOK, WindowsSpaced
<1>3. CASE reset_stats
  <2>1. /\ stats' \in [Counters -> Nat]
        /\ UNCHANGED <<rate_windows, lanes, unseen, frames, granted, latest, in_order>>
    BY <1>3 DEF reset_stats, history
  <2> QED
    BY <2>1 DEF Inv, TypeOK, WindowsSpaced
<1>4. CASE UNCHANGED ingressVars
  BY <1>4 DEF ingressVars, history, Inv, TypeOK, WindowsSpaced
<1> QED
  BY <1>1, <1>2, <1>3, <1>4, RateLimitedKeepsInv, QueueFullKeepsInv,
     AcceptedKeepsInv, TakeKeepsInv DEF Next, submit

\* The inductive invariant holds in every reachable state.
THEOREM InvHolds == Spec => []Inv
BY InitInv, NextKeepsInv, PTL DEF Spec

\* No window counts more than its limit and no lane holds more than its ring.
THEOREM TypeCorrect == Spec => []TypeOK
<1>1. Inv => TypeOK
  BY DEF Inv
<1> QED
  BY <1>1, InvHolds, PTL

\* While an account's times do not go back, no second holds more than twice the
\* limit, whatever the limit and however many kinds and accounts are mixed.
THEOREM RateLimitHolds == Spec => []RateBounded
<1>1. Inv => RateBounded
  BY DEF Inv, WindowsSpaced, GrantsSpaced, RateBounded, Spaced
<1> QED
  BY <1>1, InvHolds, PTL

-----------------------------------------------------------------------------
(* The budget of an account                                                *)

\* A window with start s and count c, after l grants and at most t frames.
Budget(s, c, l, m, t) ==
    \E n \in 0 .. t : s >= n * Second /\ l <= (n * m) + c

LEMMA BudgetMore ==
  ASSUME NEW s \in Int, NEW c \in Nat, NEW l \in Nat, NEW m \in Nat, NEW t \in Nat,
         Budget(s, c, l, m, t)
  PROVE  Budget(s, c, l, m, t + 1)
BY DEF Budget

\* A frame that opens a window moves on by a second, which pays for the old one.
LEMMA BudgetReset ==
  ASSUME NEW s \in Int, NEW c \in Nat, NEW l \in Nat, NEW m \in Nat, NEW t \in Nat,
         NEW u \in Int, u - s >= Second, c <= m, Budget(s, c, l, m, t)
  PROVE  Budget(u, 0, l, m, t + 1)
<1>1. PICK n \in 0 .. t : s >= n * Second /\ l <= (n * m) + c
  BY DEF Budget
<1>2. PICK x, y : x = n * Second /\ y = n * m
  OBVIOUS
<1>3. /\ Second \in Nat /\ n + 1 \in 0 .. t + 1 /\ x \in Int /\ y \in Int
      /\ (n + 1) * Second = x + Second /\ (n + 1) * m = y + m
  BY <1>2, SecondAssumption
<1>4. u >= x + Second /\ l <= (y + m) + 0
  BY <1>1, <1>2, <1>3
<1> QED
  BY <1>3, <1>4 DEF Budget

LEMMA BudgetGrant ==
  ASSUME NEW s \in Int, NEW c \in Nat, NEW l \in Nat, NEW m \in Nat, NEW t \in Nat,
         Budget(s, c, l, m, t)
  PROVE  Budget(s, c + 1, l + 1, m, t)
<1>1. PICK n \in 0 .. t : s >= n * Second /\ l <= (n * m) + c
  BY DEF Budget
<1>2. PICK y : y = n * m
  OBVIOUS
<1>3. y \in Int
  BY <1>2
<1>4. l + 1 <= y + (c + 1)
  BY <1>1, <1>2, <1>3
<1> QED
  BY <1>1, <1>2, <1>4 DEF Budget

\* What the account has got is within the budget of the frame's window.
LEMMA WindowWithinBudget ==
  ASSUME TypeOK, BudgetBounded, NEW f \in Frames, NEW k \in Kinds
  PROVE  Budget(Window(f).window_start, Window(f).count[k], Len(granted[f.account][k]),
                MaxPerSecond[k], frames + 1)
<1> DEFINE w == rate_windows[f.account]
           l == Len(granted[f.account][k])
           m == MaxPerSecond[k]
<1>1. /\ f.account \in Accounts /\ f.time \in Int
      /\ \/ Window(f) = w
         \/ /\ Window(f).window_start = f.time /\ Window(f).count[k] = 0
            /\ f.time - w.window_start >= Second
  BY WindowProperties
<1>2. /\ w.window_start \in Int /\ w.count[k] \in Nat /\ w.count[k] <= m
      /\ m \in Nat /\ frames \in Nat
  BY <1>1, LimitsAssumption DEF TypeOK, AccountWindows
<1>3. l \in Nat
  BY <1>1, LenProperties DEF TypeOK
<1>4. Budget(w.window_start, w.count[k], l, m, frames)
  BY <1>1 DEF BudgetBounded, Budget
<1> HIDE DEF w, l, m
<1>5. Budget(w.window_start, w.count[k], l, m, frames + 1)
  BY <1>2, <1>3, <1>4, BudgetMore
<1>6. f.time - w.window_start >= Second => Budget(f.time, 0, l, m, frames + 1)
  BY <1>1, <1>2, <1>3, <1>4, BudgetReset
<1>7. Budget(Window(f).window_start, Window(f).count[k], l, m, frames + 1)
  BY <1>1, <1>5, <1>6
<1> QED
  BY <1>7 DEF l, m

\* The accounts that did not send the frame.
LEMMA OthersWithinBudget ==
  ASSUME TypeOK, BudgetBounded, NEW a \in Accounts, NEW k \in Kinds, frames' = frames + 1
  PROVE  Budget(rate_windows[a].window_start, rate_windows[a].count[k], Len(granted[a][k]),
                MaxPerSecond[k], frames')
<1>1. /\ rate_windows[a].window_start \in Int /\ rate_windows[a].count[k] \in Nat
      /\ MaxPerSecond[k] \in Nat /\ frames \in Nat /\ Len(granted[a][k]) \in Nat
  BY LimitsAssumption, LenProperties DEF TypeOK, AccountWindows
<1>2. Budget(rate_windows[a].window_start, rate_windows[a].count[k], Len(granted[a][k]),
             MaxPerSecond[k], frames)
  BY DEF BudgetBounded, Budget
<1> QED
  BY <1>1, <1>2, BudgetMore

\* A step after which every window is within its budget.
LEMMA BudgetsHold ==
  ASSUME \A a \in Accounts, k \in Kinds :
            Budget(rate_windows'[a].window_start, rate_windows'[a].count[k],
                   Len(granted'[a][k]), MaxPerSecond[k], frames')
  PROVE  BudgetBounded'
BY DEF BudgetBounded, Budget

LEMMA BudgetRateLimited ==
  ASSUME TypeOK, BudgetBounded, NEW f \in Frames, submit_rate_limited(f)
  PROVE  BudgetBounded'
<1>1. /\ rate_windows' = [rate_windows EXCEPT ![f.account] = Window(f)]
      /\ frames' = frames + 1 /\ UNCHANGED granted
  BY DEF submit_rate_limited, Count
<1>2. rate_windows \in [Accounts -> AccountWindows] /\ f.account \in Accounts
  BY WindowProperties DEF TypeOK
<1>3. ASSUME NEW a \in Accounts, NEW k \in Kinds
      PROVE  Budget(rate_windows'[a].window_start, rate_windows'[a].count[k],
                    Len(granted'[a][k]), MaxPerSecond[k], frames')
  <2>1. CASE a = f.account
    <3>1. rate_windows'[a] = Window(f)
      BY <1>1, <1>2, <2>1
    <3> QED
      BY <1>1, <2>1, <3>1, WindowWithinBudget
  <2>2. CASE a # f.account
    <3>1. rate_windows'[a] = rate_windows[a]
      BY <1>1, <1>2, <2>2
    <3> QED
      BY <1>1, <3>1, OthersWithinBudget
  <2> QED
    BY <2>1, <2>2
<1> QED
  BY <1>3, BudgetsHold

LEMMA BudgetGranted ==
  ASSUME TypeOK, BudgetBounded, NEW f \in Frames, Grant(f), frames' = frames + 1
  PROVE  BudgetBounded'
<1> DEFINE b == f.account
           n == f.kind
           W == Window(f)
           V == Counted(W, n)
           g == granted[b][n]
<1>1. /\ rate_windows' = [rate_windows EXCEPT ![b] = V]
      /\ granted' = [granted EXCEPT ![b][n] = Append(g, f.time)]
  BY DEF Grant
<1>2. /\ b \in Accounts /\ n \in Kinds /\ f.time \in Int /\ W \in AccountWindows
      /\ rate_windows \in [Accounts -> AccountWindows]
      /\ granted \in [Accounts -> [Kinds -> Seq(Int)]] /\ frames \in Nat
  BY WindowProperties DEF TypeOK
<1>3. /\ W.window_start \in Int /\ W.count \in [Kinds -> Nat]
      /\ W = [window_start |-> W.window_start, count |-> W.count]
  BY <1>2 DEF AccountWindows
<1>4. /\ V.window_start = W.window_start /\ V.count[n] = W.count[n] + 1
      /\ \A k \in Kinds : k # n => V.count[k] = W.count[k]
  <2> HIDE DEF W
  <2>1. V = [window_start |-> W.window_start,
             count |-> [W.count EXCEPT ![n] = W.count[n] + 1]]
    BY <1>3 DEF Counted
  <2> QED
    BY <1>2, <1>3, <2>1
<1>5. /\ g \in Seq(Int) /\ Len(g) \in Nat
      /\ Len(Append(g, f.time)) = Len(g) + 1
  BY <1>2, LenProperties, AppendProperties
<1>6. /\ granted'[b][n] = Append(g, f.time)
      /\ \A k \in Kinds : k # n => granted'[b][k] = granted[b][k]
      /\ \A a \in Accounts :
            a # b => granted'[a] = granted[a] /\ rate_windows'[a] = rate_windows[a]
      /\ rate_windows'[b] = V
  BY <1>1, <1>2
<1> HIDE DEF b, n, W, V, g
<1>7. ASSUME NEW k \in Kinds
      PROVE  Budget(W.window_start, W.count[k], Len(granted[b][k]), MaxPerSecond[k], frames + 1)
  BY WindowWithinBudget DEF W, b
<1>8. ASSUME NEW a \in Accounts, NEW k \in Kinds
      PROVE  Budget(rate_windows'[a].window_start, rate_windows'[a].count[k],
                    Len(granted'[a][k]), MaxPerSecond[k], frames')
  <2>1. CASE a = b /\ k = n
    <3>1. /\ Len(granted[b][n]) = Len(g) /\ W.count[n] \in Nat /\ MaxPerSecond[n] \in Nat
          /\ frames + 1 \in Nat
      BY <1>2, <1>3, LimitsAssumption DEF g
    <3>2. Budget(W.window_start, W.count[n], Len(g), MaxPerSecond[n], frames + 1)
      BY <1>2, <1>7, <3>1
    <3>3. Budget(W.window_start, W.count[n] + 1, Len(g) + 1, MaxPerSecond[n], frames + 1)
      BY <1>3, <1>5, <3>1, <3>2, BudgetGrant
    <3> QED
      BY <1>4, <1>5, <1>6, <2>1, <3>3
  <2>2. CASE a = b /\ k # n
    BY <1>4, <1>6, <1>7, <2>2
  <2>3. CASE a # b
    BY <1>6, <2>3, OthersWithinBudget
  <2> QED
    BY <2>1, <2>2, <2>3
<1> QED
  BY <1>8, BudgetsHold

\* Every step keeps every account within its budget.
LEMMA NextKeepsBudget ==
  ASSUME TypeOK, BudgetBounded, [Next]_ingressVars
  PROVE  BudgetBounded'
<1>1. CASE submit_heartbeat \/ submit_unauthentic
  <2>1. frames' = frames + 1 /\ UNCHANGED <<rate_windows, granted>>
    BY <1>1 DEF submit_heartbeat, submit_unauthentic, Count, history
  <2> QED
    BY <2>1, OthersWithinBudget, BudgetsHold
<1>2. ASSUME NEW f \in Frames, submit_queue_full(f) \/ submit_accepted(f) PROVE BudgetBounded'
  <2>1. Grant(f) /\ frames' = frames + 1
    BY <1>2 DEF submit_queue_full, submit_accepted, Count
  <2> QED
    BY <2>1, BudgetGranted
<1>3. CASE UNCHANGED <<rate_windows, granted, frames>>
  BY <1>3 DEF BudgetBounded
<1>4. CASE (\E k \in Kinds : Take(k)) \/ reset_stats \/ UNCHANGED ingressVars
  <2>1. UNCHANGED <<rate_windows, granted, frames>>
    BY <1>4 DEF Take, reset_stats, ingressVars, history
  <2> QED
    BY <1>3, <2>1
<1> QED
  BY <1>1, <1>2, <1>4, BudgetRateLimited DEF Next, submit

\* Whatever the times of its frames, an account gets no more than the limit for each
\* second that its windows have moved on.
THEOREM BudgetHolds == Spec => []BudgetBounded
<1>1. Init => BudgetBounded
  <2> SUFFICES ASSUME Init, NEW a \in Accounts, NEW k \in Kinds
               PROVE  \E n \in 0 .. frames :
                         /\ rate_windows[a].window_start >= n * Second
                         /\ Len(granted[a][k]) <= (n * MaxPerSecond[k]) + rate_windows[a].count[k]
    BY DEF BudgetBounded
  <2>1. /\ frames = 0 /\ rate_windows[a].window_start = 0 /\ rate_windows[a].count[k] = 0
        /\ Len(granted[a][k]) = 0
    BY DEF Init, NoCount
  <2>2. 0 * Second = 0 /\ 0 * MaxPerSecond[k] = 0
    BY SecondAssumption, LimitsAssumption
  <2> QED
    BY <2>1, <2>2
<1>2. TypeOK /\ BudgetBounded /\ [Next]_ingressVars => BudgetBounded'
  BY NextKeepsBudget
<1> QED
  BY <1>1, <1>2, TypeCorrect, PTL DEF Spec
=============================================================================
