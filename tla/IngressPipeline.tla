-------------------------- MODULE IngressPipeline --------------------------
(***************************************************************************)
(* tradecore::ingest::IngressPipeline (libs/ingest/src/                    *)
(* ingress_pipeline.cpp).  The receive thread calls submit for each frame: *)
(* authentication, a fixed one-second window per account, then the lane of *)
(* the frame's kind.  The event loop takes frames from the lanes.          *)
(*                                                                         *)
(* The threads meet only in the lanes, and a lane is an SpscRing: a queue  *)
(* whose producer may not yet know of the slots freed last.  unseen[k]     *)
(* counts those, so that a push may find a lane full that is not.          *)
(***************************************************************************)
EXTENDS Integers, Sequences

CONSTANTS Accounts,
          Payloads,      \* what frames carry
          Times,         \* received_time_ns, as the sender wrote it
          Second,        \* kOneSecondNs
          MaxPerSecond,  \* Config::max_..._per_second, per kind
          Depth,         \* Config::..._queue_depth, per kind
          MaxFrames      \* bound: the frames submitted in a behaviour

Kinds == {"new", "cancel", "replace"}

ASSUME TimesAssumption == Times \subseteq Int
ASSUME SecondAssumption == Second \in Nat \ {0}
ASSUME LimitsAssumption == MaxPerSecond \in [Kinds -> Nat]
ASSUME DepthAssumption == Depth \in [Kinds -> Nat \ {0}]
ASSUME MaxFramesAssumption == MaxFrames \in Nat

VARIABLES rate_windows,  \* AccountWindow of each account
          lanes,         \* new_orders_, cancels_, replaces_
          unseen,        \* freed slots of a lane that submit has not seen
          stats,         \* stats_
          frames,        \* how many frames were submitted
          granted,       \* history: times of the frames rate_limit let pass
          latest,        \* history: the largest time of an account's frames
          in_order       \* history: an account's times never went back

history == <<granted, latest, in_order>>
ingressVars == <<rate_windows, lanes, unseen, stats, frames, history>>

Frames == [account : Accounts, kind : Kinds, time : Times, payload : Payloads]

AccountWindows == [window_start : Int, count : [Kinds -> Nat]]

NoCount == [k \in Kinds |-> 0]

Counters == {"accepted", "rejected_auth", "rejected_rate_limit",
             "rejected_queue_full", "dropped_heartbeats"}

\* A missing entry of rate_windows_ is created with window_start 0 on first use.
Init ==
    /\ rate_windows = [a \in Accounts |-> [window_start |-> 0, count |-> NoCount]]
    /\ lanes = [k \in Kinds |-> <<>>]
    /\ unseen = [k \in Kinds |-> 0]
    /\ stats = [c \in Counters |-> 0]
    /\ frames = 0
    /\ granted = [a \in Accounts |-> [k \in Kinds |-> <<>>]]
    /\ latest = [a \in Accounts |-> 0]
    /\ in_order = [a \in Accounts |-> TRUE]

-----------------------------------------------------------------------------
(* rate_limit                                                              *)

\* Mutant: a window lasts one unit of time less.
CurrentWindow_short(w, t) ==
    IF t - w.window_start >= Second - 1
    THEN [window_start |-> t, count |-> NoCount] ELSE w

\* The window that a frame of time t is counted in.
CurrentWindow(w, t) ==
    IF t - w.window_start >= Second
    THEN [window_start |-> t, count |-> NoCount] ELSE w

\* Mutant: one frame too many.
Exceeded_late(w, k) == w.count[k] > MaxPerSecond[k]

Exceeded(w, k) == w.count[k] >= MaxPerSecond[k]

Counted(w, k) == [w EXCEPT !.count[k] = w.count[k] + 1]

-----------------------------------------------------------------------------
(* submit                                                                  *)

Count(counter) ==
    /\ frames < MaxFrames
    /\ frames' = frames + 1
    /\ stats' = [stats EXCEPT ![counter] = @ + 1]

submit_heartbeat ==
    /\ Count("dropped_heartbeats")
    /\ UNCHANGED <<rate_windows, lanes, unseen, history>>

\* The verifier (external) said no.
submit_unauthentic ==
    /\ Count("rejected_auth")
    /\ UNCHANGED <<rate_windows, lanes, unseen, history>>

\* What rate_limit does to the window of the frame's account, and the history.
Window(f) == CurrentWindow(rate_windows[f.account], f.time)

Observe(f) ==
    /\ latest' = [latest EXCEPT ![f.account] = IF f.time > @ THEN f.time ELSE @]
    /\ in_order' = [in_order EXCEPT ![f.account] = @ /\ f.time >= latest[f.account]]

submit_rate_limited(f) ==
    /\ Count("rejected_rate_limit")
    /\ Exceeded(Window(f), f.kind)
    /\ rate_windows' = [rate_windows EXCEPT ![f.account] = Window(f)]
    /\ Observe(f)
    /\ UNCHANGED <<lanes, unseen, granted>>

Grant(f) ==
    /\ ~ Exceeded(Window(f), f.kind)
    /\ rate_windows' = [rate_windows EXCEPT ![f.account] = Counted(Window(f), f.kind)]
    /\ granted' = [granted EXCEPT ![f.account][f.kind] = Append(@, f.time)]
    /\ Observe(f)

\* Mutant: the slot that tells full from empty is used as well.
Full_late(k, u) == Len(lanes[k]) + u >= Depth[k]

\* push finds the lane full when it knows of all but u of the freed slots.
Full(k, u) == Len(lanes[k]) + u = Depth[k] - 1

\* The frame has been counted in its window all the same.
submit_queue_full(f) ==
    /\ Count("rejected_queue_full")
    /\ Grant(f)
    /\ \E u \in 0 .. unseen[f.kind] :
          /\ Full(f.kind, u)
          /\ unseen' = [unseen EXCEPT ![f.kind] = u]
    /\ UNCHANGED lanes

submit_accepted(f) ==
    /\ Count("accepted")
    /\ Grant(f)
    /\ \E u \in 0 .. unseen[f.kind] :
          /\ ~ Full(f.kind, u)
          /\ unseen' = [unseen EXCEPT ![f.kind] = u]
    /\ lanes' = [lanes EXCEPT ![f.kind] = Append(@, f)]

submit ==
    \/ submit_heartbeat
    \/ submit_unauthentic
    \/ \E f \in Frames : \/ submit_rate_limited(f)
                         \/ submit_queue_full(f)
                         \/ submit_accepted(f)

-----------------------------------------------------------------------------

\* next_new_order, next_cancel, next_replace: pop of the lane, which is Take when
\* it returns true and changes nothing when it returns false.
Take(k) ==
    /\ lanes[k] # <<>>
    /\ lanes' = [lanes EXCEPT ![k] = Tail(@)]
    /\ unseen' = [unseen EXCEPT ![k] = @ + 1]
    /\ UNCHANGED <<rate_windows, stats, frames, history>>

reset_stats ==
    /\ stats' = [c \in Counters |-> 0]
    /\ UNCHANGED <<rate_windows, lanes, unseen, frames, history>>

Next == submit \/ (\E k \in Kinds : Take(k)) \/ reset_stats

Spec == Init /\ [][Next]_ingressVars

-----------------------------------------------------------------------------
(* Properties                                                              *)

\* The state has its type, no window counts more than its limit, and a lane with
\* the slots that submit takes for used fits its ring.
TypeOK ==
    /\ rate_windows \in [Accounts -> AccountWindows]
    /\ \A a \in Accounts, k \in Kinds :
          rate_windows[a].count[k] <= MaxPerSecond[k]
    /\ lanes \in [Kinds -> Seq(Frames)]
    /\ unseen \in [Kinds -> Nat]
    /\ \A k \in Kinds : Len(lanes[k]) + unseen[k] <= Depth[k] - 1
    /\ stats \in [Counters -> Nat]
    /\ frames \in Nat
    /\ granted \in [Accounts -> [Kinds -> Seq(Int)]]
    /\ latest \in [Accounts -> Int]
    /\ in_order \in [Accounts -> BOOLEAN]

\* Of n + 1 frames of one kind that rate_limit lets pass for an account, the last
\* is at least a second later than the first.
Spaced(a, k, n) ==
    in_order[a] =>
        \A i \in 1 .. Len(granted[a][k]) - n :
            granted[a][k][i + n] - granted[a][k][i] >= Second

\* The limiter restarts its count with a window, so a burst can straddle two of
\* them, but never three: as long as the times of an account do not go back, no
\* second holds more than twice the limit.
RateBounded == \A a \in Accounts, k \in Kinds : Spaced(a, k, 2 * MaxPerSecond[k])

\* Whatever order the times come in (datagrams may be reordered, and the time is
\* the sender's), an account never gets more than the limit for each second that
\* its windows have moved on.
BudgetBounded ==
    \A a \in Accounts, k \in Kinds :
        \E n \in 0 .. frames :
            /\ rate_windows[a].window_start >= n * Second
            /\ Len(granted[a][k]) <= (n * MaxPerSecond[k]) + rate_windows[a].count[k]

-----------------------------------------------------------------------------
(* The inductive invariant of RateBounded.                                 *)

\* The grants g of one kind, when the window has start s and count c, the limit
\* is m and no frame had a time above l: those made before the window are not
\* later than its start, and all but the m before are earlier by a second.
GrantsSpaced(s, c, g, l, m) ==
    /\ \A i \in 1 .. Len(g) : g[i] <= l
    /\ \A i \in 1 .. Len(g) - c : g[i] <= s
    /\ \A i \in 1 .. Len(g) - c - m : g[i] + Second <= s
    /\ \A i \in 1 .. Len(g) - (2 * m) : g[i + (2 * m)] - g[i] >= Second

WindowsSpaced ==
    \A a \in Accounts :
        in_order[a] =>
            /\ latest[a] >= rate_windows[a].window_start
            /\ \A k \in Kinds :
                  GrantsSpaced(rate_windows[a].window_start, rate_windows[a].count[k],
                               granted[a][k], latest[a], MaxPerSecond[k])

Inv == TypeOK /\ WindowsSpaced
=============================================================================
