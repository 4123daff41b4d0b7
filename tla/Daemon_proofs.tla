---------------------------- MODULE Daemon_proofs ----------------------------
(***************************************************************************)
(* Proofs about the two threads of tradecored, for any peers, any          *)
(* datagrams and any number of them, any sizes of buffer and header, and   *)
(* on each of main's ways out.                                             *)
(***************************************************************************)
EXTENDS Daemon, SequenceTheorems, FiniteSetTheorems, TLAPS

-----------------------------------------------------------------------------
(* The inductive invariant                                                 *)

Objects == <<"authenticator", "ingress", "transport", "wal", "snapshot", "api">>

\* The objects that exist where main is; they are destroyed down to the transport,
\* which is stopped first.
LocalsInv ==
    /\ locals \in Seq(ObjectNames)
    /\ Len(locals) <= 6
    /\ \A i \in 1 .. Len(locals) : locals[i] = Objects[i]
    /\ main = "config" => Len(locals) = 0
    /\ main = "configure" => Len(locals) = 1
    /\ main = "start" => Len(locals) = 2
    /\ main = "files" => Len(locals) = 3
    /\ main \in {"chain_id", "run", "turn", "stats", "sync"} => Len(locals) = 6
    /\ main \in {"stop", "join", "close"} => Len(locals) = IF unwinding THEN 3 ELSE 6
    /\ main = "exited" => Len(locals) = 0
    /\ unwinding => main \in {"stop", "join", "close", "destroy", "exited", "aborted"}
    /\ main = "destroy" => unwinding

\* Between start and the join of stop there is a thread, with its socket and callback.
ThreadInv ==
    /\ receive_thread = "none" => socket = "closed" \/ main = "close"
    /\ receive_thread # "none" =>
          /\ socket = "timed" /\ callback_ /\ Len(locals) >= 3
          /\ main \in {"files", "chain_id", "run", "turn", "stats", "stop", "join", "destroy"}

\* What arrives is a datagram with a header and a number and peer of its own.
Packets ==
    [number : Nat, peer : Peers, len : 0 .. BufferSize, magic : {d.magic : d \in Datagrams},
     kind : {d.kind : d \in Datagrams}, payload_len : Nat,
     account : {d.account : d \in Datagrams}, signer : {d.signer : d \in Datagrams}]

\* The thread holds a datagram; and has not counted it as a frame yet.
Holding == receive_thread \in {"peers", "parse", "callback", "verify"}
Uncounted == IF receive_thread \in {"peers", "parse"} THEN 1 ELSE 0

\* Every datagram is counted at most once.
SocketInv ==
    /\ sent \in Nat /\ inbox \in Seq(Packets)
    /\ \A i \in 1 .. Len(inbox) : inbox[i].number <= sent
    /\ Holding => received \in Packets /\ received.number <= sent
    /\ frames_received_ \in Nat /\ frames_malformed_ \in Nat
    /\ frames_received_ + frames_malformed_ + Uncounted + Len(inbox) <= sent

\* Until it is parsed, the datagram's bytes are in the buffer.
BufferInv ==
    /\ buffer \in [1 .. BufferSize -> 0 .. sent]
    /\ receive_thread \in {"peers", "parse"} =>
          \A i \in 1 .. received.len : buffer[i] = received.number

Frames ==
    [number : Nat, kind : {d.kind : d \in Datagrams}, account : {d.account : d \in Datagrams},
     signer : {d.signer : d \in Datagrams}, payload : Seq(Nat)]

\* The one key is that of the account; the key found is that of the frame's account.
FrameInv ==
    /\ \A a \in DOMAIN keys_ : a = Account /\ keys_[a] = PublicKey
    /\ receive_thread \in {"callback", "verify"} => frame \in Frames
    /\ receive_thread = "verify" =>
          key \in DOMAIN keys_ /\ key = frame.account /\ frame.kind # "heartbeat"
    /\ lanes \in Seq(Frames)
    /\ FramesGenuine

\* A peer that is not in the table any more has been silent for longer than the window.
PeerInv ==
    /\ clock \in Nat
    /\ receive_thread = "peers" => now \in 0 .. clock
    /\ main = "stats" => stats_now \in 0 .. clock
    /\ DOMAIN heard \subseteq Peers /\ IsFiniteSet(DOMAIN heard)
    /\ DOMAIN peer_last_seen_ \subseteq DOMAIN heard
    /\ \A p \in DOMAIN heard :
          /\ heard[p] \in 0 .. clock
          /\ IF p \in DOMAIN peer_last_seen_ THEN peer_last_seen_[p] = heard[p]
             ELSE clock - heard[p] > kPeerLivenessWindow

DaemonInv ==
    /\ Places /\ LocalsInv /\ ThreadInv /\ SocketInv /\ BufferInv /\ FrameInv /\ PeerInv

USE SizesAssumption

-----------------------------------------------------------------------------
(* Operators                                                               *)

\* A sequence without its last element.
LEMMA FrontElements ==
    ASSUME NEW S, NEW s \in Seq(S), s # <<>>
    PROVE  /\ Front(s) \in Seq(S) /\ Len(Front(s)) = Len(s) - 1 /\ Len(s) \in Nat \ {0}
           /\ \A i \in 1 .. Len(s) - 1 : Front(s)[i] = s[i]
  <1>1. Len(s) \in Nat \ {0}
    OBVIOUS
  <1>2. \A i \in 1 .. Len(s) - 1 : s[i] \in S
    BY <1>1
  <1>3. Front(s) = SubSeq(s, 1, Len(s) - 1)
    BY DEF Front
  <1>4. /\ SubSeq(s, 1, Len(s) - 1) \in Seq(S)
        /\ Len(SubSeq(s, 1, Len(s) - 1)) = Len(s) - 1
        /\ \A i \in 1 .. Len(s) - 1 : SubSeq(s, 1, Len(s) - 1)[i] = s[i]
    <2>1. /\ SubSeq(s, 1, Len(s) - 1) \in Seq(S)
          /\ Len(SubSeq(s, 1, Len(s) - 1)) = IF 1 <= Len(s) - 1 THEN Len(s) - 1 - 1 + 1 ELSE 0
          /\ \A i \in 1 .. Len(s) - 1 - 1 + 1 : SubSeq(s, 1, Len(s) - 1)[i] = s[1 + i - 1]
      BY <1>1, <1>2, SubSeqProperties
    <2>2. Len(s) - 1 - 1 + 1 = Len(s) - 1 /\ \A i \in 1 .. Len(s) - 1 : 1 + i - 1 = i
      BY <1>1
    <2> QED
      BY <1>1, <2>1, <2>2
  <1> QED
    BY <1>1, <1>3, <1>4

\* A sequence without its first element.
LEMMA TailElements ==
    ASSUME NEW S, NEW s \in Seq(S), s # <<>>
    PROVE  /\ Tail(s) \in Seq(S) /\ Len(Tail(s)) = Len(s) - 1 /\ Len(s) \in Nat \ {0}
           /\ \A i \in 1 .. Len(s) - 1 : Tail(s)[i] = s[i + 1]
           /\ Head(s) = s[1] /\ Head(s) \in S
  BY HeadTailProperties

-----------------------------------------------------------------------------
(* Where the threads are                                                   *)

\* Every step leads from a place of each thread to a place.
LEMMA PlacesKept ==
    ASSUME Places, [Next]_vars
    PROVE  Places'
  <1>1. CASE MainStep
    BY <1>1 DEF Places, MainStep, load_config, configure_ingress, start_transport, open_files,
       enter_loop, return_early, begin_turn, process_frame, end_turn, status, status_stats,
       leave_loop, stop, stopped, sync, destroy, GoOn, Go, StopStep, start, start_fails,
       stop_flag, stop_join, stop_close, stats, transport_vars, owner
  <1>2. CASE ReceiveStep
    BY <1>2 DEF Places, ReceiveStep, receive_loop, loop_test, recv_timeout, recv_datagram,
       note_peer, parse_frame, parse_fails, submit, submit_refused, submit_find_key,
       submit_verify, Thread, owner, process
  <1>3. CASE Environment
    BY <1>3 DEF Places, Environment, tick, arrive, owner, process
  <1>4. CASE shutdown_signal \/ abort \/ UNCHANGED vars
    BY <1>4 DEF Places, shutdown_signal, abort, vars, transport_vars, owner, process
  <1> QED
    BY <1>1, <1>2, <1>3, <1>4 DEF Next

-----------------------------------------------------------------------------
(* What exists                                                             *)

\* The objects one by one.
LEMMA ObjectsByNumber ==
    /\ Objects[1] = "authenticator" /\ Objects[2] = "ingress" /\ Objects[3] = "transport"
    /\ Objects[4] = "wal" /\ Objects[5] = "snapshot" /\ Objects[6] = "api"
  BY DEF Objects

\* The objects of main go on from what they are.
LEMMA SameLocals ==
    ASSUME LocalsInv, UNCHANGED <<main, locals, unwinding>>
    PROVE  LocalsInv'
  BY DEF LocalsInv

\* Creating the objects that come next.
LEMMA MoreLocals ==
    ASSUME LocalsInv, NEW new \in Seq(ObjectNames),
           locals' = locals \o new, Len(locals) + Len(new) <= 6,
           \A i \in 1 .. Len(new) : new[i] = Objects[Len(locals) + i]
    PROVE  /\ locals' \in Seq(ObjectNames)
           /\ Len(locals') = Len(locals) + Len(new)
           /\ \A i \in 1 .. Len(locals') : locals'[i] = Objects[i]
  <1>1. locals \in Seq(ObjectNames)
    BY DEF LocalsInv
  <1>2. Len(locals) \in Nat /\ Len(new) \in Nat
    BY <1>1
  <1>3. /\ locals' \in Seq(ObjectNames)
        /\ Len(locals') = Len(locals) + Len(new)
        /\ \A i \in 1 .. Len(locals) + Len(new) :
              locals'[i] = IF i <= Len(locals) THEN locals[i] ELSE new[i - Len(locals)]
    BY <1>1, ConcatProperties
  <1>4. ASSUME NEW i \in 1 .. Len(locals) + Len(new) PROVE locals'[i] = Objects[i]
    <2>1. CASE i <= Len(locals)
      BY <1>2, <1>3, <2>1 DEF LocalsInv
    <2>2. CASE ~ (i <= Len(locals))
      <3>1. i - Len(locals) \in 1 .. Len(new) /\ Len(locals) + (i - Len(locals)) = i
        BY <1>2, <2>2
      <3> QED
        BY <1>3, <2>2, <3>1
    <2> QED
      BY <2>1, <2>2
  <1> QED
    BY <1>3, <1>4

\* What each part of main creates comes after what exists there.
LEMMA CreatedObjects ==
    ASSUME LocalsInv, NEW from \in {"config", "configure", "start", "files"},
           main = from, locals' = locals \o Created[from]
    PROVE  /\ locals' \in Seq(ObjectNames)
           /\ \A i \in 1 .. Len(locals') : locals'[i] = Objects[i]
           /\ Len(locals') = CASE from = "config" -> 1 [] from = "configure" -> 2
                               [] from = "start" -> 3 [] from = "files" -> 6
  <1>1. CASE from = "config"
    <2> DEFINE new == <<"authenticator">>
    <2>1. locals' = locals \o new /\ Len(locals) = 0
      BY <1>1 DEF Created, LocalsInv
    <2>2. new \in Seq(ObjectNames) /\ Len(new) = 1
      BY DEF ObjectNames
    <2>3. \A i \in 1 .. 1 : new[i] = Objects[0 + i]
      BY ObjectsByNumber
    <2> HIDE DEF new
    <2>4. Len(locals) + Len(new) = 1 /\ Len(locals) + Len(new) <= 6
      BY <2>1, <2>2
    <2>5. \A i \in 1 .. Len(new) : new[i] = Objects[Len(locals) + i]
      BY <2>1, <2>2, <2>3
    <2>6. /\ locals' \in Seq(ObjectNames) /\ Len(locals') = Len(locals) + Len(new)
          /\ \A i \in 1 .. Len(locals') : locals'[i] = Objects[i]
      BY ONLY LocalsInv, <2>1, <2>2, <2>4, <2>5, MoreLocals
    <2> QED
      BY <1>1, <2>4, <2>6
  <1>2. CASE from = "configure"
    <2> DEFINE new == <<"ingress">>
    <2>1. locals' = locals \o new /\ Len(locals) = 1
      BY <1>2 DEF Created, LocalsInv
    <2>2. new \in Seq(ObjectNames) /\ Len(new) = 1
      BY DEF ObjectNames
    <2>3. \A i \in 1 .. 1 : new[i] = Objects[1 + i]
      BY ObjectsByNumber
    <2> HIDE DEF new
    <2>4. Len(locals) + Len(new) = 2 /\ Len(locals) + Len(new) <= 6
      BY <2>1, <2>2
    <2>5. \A i \in 1 .. Len(new) : new[i] = Objects[Len(locals) + i]
      BY <2>1, <2>2, <2>3
    <2>6. /\ locals' \in Seq(ObjectNames) /\ Len(locals') = Len(locals) + Len(new)
          /\ \A i \in 1 .. Len(locals') : locals'[i] = Objects[i]
      BY ONLY LocalsInv, <2>1, <2>2, <2>4, <2>5, MoreLocals
    <2> QED
      BY <1>2, <2>4, <2>6
  <1>3. CASE from = "start"
    <2> DEFINE new == <<"transport">>
    <2>1. locals' = locals \o new /\ Len(locals) = 2
      BY <1>3 DEF Created, LocalsInv
    <2>2. new \in Seq(ObjectNames) /\ Len(new) = 1
      BY DEF ObjectNames
    <2>3. \A i \in 1 .. 1 : new[i] = Objects[2 + i]
      BY ObjectsByNumber
    <2> HIDE DEF new
    <2>4. Len(locals) + Len(new) = 3 /\ Len(locals) + Len(new) <= 6
      BY <2>1, <2>2
    <2>5. \A i \in 1 .. Len(new) : new[i] = Objects[Len(locals) + i]
      BY <2>1, <2>2, <2>3
    <2>6. /\ locals' \in Seq(ObjectNames) /\ Len(locals') = Len(locals) + Len(new)
          /\ \A i \in 1 .. Len(locals') : locals'[i] = Objects[i]
      BY ONLY LocalsInv, <2>1, <2>2, <2>4, <2>5, MoreLocals
    <2> QED
      BY <1>3, <2>4, <2>6
  <1>4. CASE from = "files"
    <2> DEFINE new == <<"wal", "snapshot", "api">>
    <2>1. locals' = locals \o new /\ Len(locals) = 3
      BY <1>4 DEF Created, LocalsInv
    <2>2. new \in Seq(ObjectNames) /\ Len(new) = 3
      BY DEF ObjectNames
    <2>3. \A i \in 1 .. 3 : new[i] = Objects[3 + i]
      BY ObjectsByNumber
    <2> HIDE DEF new
    <2>4. Len(locals) + Len(new) = 6 /\ Len(locals) + Len(new) <= 6
      BY <2>1, <2>2
    <2>5. \A i \in 1 .. Len(new) : new[i] = Objects[Len(locals) + i]
      BY <2>1, <2>2, <2>3
    <2>6. /\ locals' \in Seq(ObjectNames) /\ Len(locals') = Len(locals) + Len(new)
          /\ \A i \in 1 .. Len(locals') : locals'[i] = Objects[i]
      BY ONLY LocalsInv, <2>1, <2>2, <2>4, <2>5, MoreLocals
    <2> QED
      BY <1>4, <2>4, <2>6
  <1> QED
    BY <1>1, <1>2, <1>3, <1>4

\* The last object is destroyed.
LEMMA FewerLocals ==
    ASSUME LocalsInv, locals # <<>>
    PROVE  /\ Front(locals) \in Seq(ObjectNames)
           /\ Len(Front(locals)) = Len(locals) - 1 /\ Len(locals) \in 1 .. 6
           /\ \A i \in 1 .. Len(Front(locals)) : Front(locals)[i] = Objects[i]
           /\ Last(locals) = "transport" <=> Len(locals) = 3
  <1>1. locals \in Seq(ObjectNames)
    BY DEF LocalsInv
  <1>2. /\ Front(locals) \in Seq(ObjectNames)
        /\ Len(Front(locals)) = Len(locals) - 1 /\ Len(locals) \in Nat \ {0}
        /\ \A i \in 1 .. Len(locals) - 1 : Front(locals)[i] = locals[i]
    BY <1>1, FrontElements
  <1>3. Len(locals) \in 1 .. 6 /\ Len(locals) \in 1 .. Len(locals)
    <2>1. Len(locals) <= 6
      BY DEF LocalsInv
    <2> QED
      BY <1>2, <2>1
  <1>4. \A i \in 1 .. Len(locals) - 1 : Front(locals)[i] = Objects[i]
    <2> TAKE i \in 1 .. Len(locals) - 1
    <2>1. i \in 1 .. Len(locals)
      BY <1>3
    <2> QED
      BY <1>2, <2>1 DEF LocalsInv
  <1>5. Last(locals) = Objects[Len(locals)]
    BY <1>3 DEF Last, LocalsInv
  <1>6. Objects[Len(locals)] = "transport" <=> Len(locals) = 3
    <2>1. \/ Len(locals) = 1 \/ Len(locals) = 2 \/ Len(locals) = 3
          \/ Len(locals) = 4 \/ Len(locals) = 5 \/ Len(locals) = 6
      BY <1>3
    <2> QED
      BY <2>1, ObjectsByNumber
  <1> QED
    BY <1>2, <1>3, <1>4, <1>5, <1>6

\* Every step keeps what is known of main's objects.
LEMMA LocalsKept ==
    ASSUME Places, LocalsInv, [Next]_vars
    PROVE  LocalsInv'
  <1>1. CASE load_config \/ configure_ingress \/ start_transport \/ open_files
    <2>1. PICK from \in {"config", "configure", "start", "files"} :
              /\ main = from /\ locals' = locals \o Created[from] /\ UNCHANGED unwinding
              /\ main' = CASE from = "config" -> "configure" [] from = "configure" -> "start"
                           [] from = "start" -> "files" [] from = "files" -> "chain_id"
      BY <1>1 DEF load_config, configure_ingress, start_transport, open_files, GoOn
    <2>2. /\ locals' \in Seq(ObjectNames)
          /\ \A i \in 1 .. Len(locals') : locals'[i] = Objects[i]
          /\ Len(locals') = CASE from = "config" -> 1 [] from = "configure" -> 2
                              [] from = "start" -> 3 [] from = "files" -> 6
      BY <2>1, CreatedObjects
    <2> QED
      BY <2>1, <2>2 DEF LocalsInv
  <1>2. CASE return_early
    <2>1. CASE main = "start"
      <3>1. locals' = locals \o Created["start"]
        BY <1>2, <2>1 DEF return_early
      <3>2. /\ locals' \in Seq(ObjectNames)
            /\ \A i \in 1 .. Len(locals') : locals'[i] = Objects[i]
            /\ Len(locals') = 3
        BY <2>1, <3>1, CreatedObjects
      <3> QED
        BY <1>2, <3>2 DEF return_early, LocalsInv
    <2>2. CASE main # "start"
      BY <1>2, <2>2 DEF return_early, LocalsInv
    <2> QED
      BY <2>1, <2>2
  <1>3. CASE enter_loop \/ begin_turn \/ process_frame \/ end_turn \/ status \/ status_stats
             \/ leave_loop \/ stop \/ sync
    BY <1>3 DEF LocalsInv, enter_loop, begin_turn, process_frame, end_turn, status, status_stats,
       leave_loop, stop, StopStep, sync, Go
  <1>4. CASE stopped
    <2>1. CASE unwinding
      <3>1. Len(locals) = 3 /\ locals # <<>>
        BY <1>4, <2>1 DEF stopped, LocalsInv
      <3>2. /\ Front(locals) \in Seq(ObjectNames) /\ Len(Front(locals)) = 2
            /\ \A i \in 1 .. Len(Front(locals)) : Front(locals)[i] = Objects[i]
        BY <3>1, FewerLocals
      <3>3. main' = "destroy" /\ locals' = Front(locals) /\ unwinding' = unwinding
        BY <1>4, <2>1 DEF stopped
      <3>4. /\ locals' \in Seq(ObjectNames) /\ Len(locals') = 2
            /\ \A i \in 1 .. Len(locals') : locals'[i] = Objects[i]
        BY <3>2, <3>3, Zenon
      <3> QED
        BY <2>1, <3>3, <3>4 DEF LocalsInv
    <2>2. CASE ~ unwinding
      BY <1>4, <2>2 DEF stopped, LocalsInv
    <2> QED
      BY <2>1, <2>2
  <1>5. CASE destroy
    <2>1. CASE locals = <<>>
      BY <1>5, <2>1 DEF destroy, LocalsInv
    <2>2. CASE locals # <<>>
      BY <1>5, <2>2, FewerLocals DEF destroy, LocalsInv
    <2> QED
      BY <2>1, <2>2
  <1>6. CASE ReceiveStep \/ Environment \/ shutdown_signal \/ UNCHANGED vars
    <2>1. UNCHANGED <<main, locals, unwinding>>
      BY <1>6 DEF ReceiveStep, submit, submit_refused, submit_find_key, submit_verify, Thread,
         Environment, shutdown_signal, vars, process
    <2> QED
      BY <2>1, SameLocals
  <1>7. CASE abort
    BY <1>7 DEF abort, LocalsInv
  <1> QED
    BY <1>1, <1>2, <1>3, <1>4, <1>5, <1>6, <1>7 DEF Next, MainStep

\* Every step keeps what the receive thread uses alive.
LEMMA ThreadKept ==
    ASSUME Places, LocalsInv, ThreadInv, [Next]_vars
    PROVE  ThreadInv'
  <1>0. Len(locals) \in Nat
    BY DEF LocalsInv
  <1>1. CASE load_config \/ configure_ingress
    BY <1>1 DEF ThreadInv, load_config, configure_ingress, GoOn, transport_vars, owner
  <1>11. CASE open_files
    <2>1. Len(locals') = 6
      BY <1>11, CreatedObjects DEF open_files, GoOn
    <2> QED
      BY <1>11, <2>1 DEF ThreadInv, open_files, GoOn, transport_vars, owner
  <1>2. CASE start_transport
    BY <1>2, CreatedObjects DEF ThreadInv, start_transport, GoOn, start
  <1>3. CASE return_early
    BY <1>3 DEF ThreadInv, return_early, start_fails, transport_vars, owner
  <1>4. CASE enter_loop \/ begin_turn \/ process_frame \/ end_turn \/ status \/ status_stats
             \/ leave_loop \/ sync
    BY <1>4 DEF ThreadInv, enter_loop, begin_turn, process_frame, end_turn, status,
       status_stats, stats, leave_loop, sync, Go, transport_vars, owner
  <1>5. CASE stop
    BY <1>5 DEF ThreadInv, stop, StopStep, Go, stop_flag, stop_join, owner
  <1>6. CASE stopped
    BY <1>6 DEF ThreadInv, stopped, stop_close
  <1>7. CASE destroy
    <2>1. CASE locals = <<>>
      <3>1. Len(locals) = 0
        BY <2>1
      <3> QED
        BY <1>7, <2>1, <3>1 DEF ThreadInv, destroy, transport_vars, owner
    <2>2. CASE locals # <<>>
      BY <1>7, <2>2, FewerLocals DEF ThreadInv, destroy, transport_vars, owner
    <2> QED
      BY <2>1, <2>2
  <1>8. CASE ReceiveStep
    <2>1. UNCHANGED <<main, locals, socket, callback_>> /\ receive_thread # "none"
          /\ receive_thread' # "none"
      BY <1>8 DEF Places, ReceiveStep, receive_loop, loop_test, recv_timeout, recv_datagram,
         note_peer, parse_frame, parse_fails, submit, submit_refused, submit_find_key,
         submit_verify, Thread, owner, process
    <2> QED
      BY <2>1 DEF ThreadInv
  <1>9. CASE Environment \/ shutdown_signal \/ UNCHANGED vars
    BY <1>9 DEF ThreadInv, Environment, tick, arrive, shutdown_signal, vars, transport_vars,
       owner, process
  <1>10. CASE abort
    BY <1>10 DEF ThreadInv, abort
  <1> QED
    BY <1>1, <1>2, <1>3, <1>4, <1>5, <1>6, <1>7, <1>8, <1>9, <1>10, <1>11 DEF Next, MainStep

-----------------------------------------------------------------------------
(* What arrives                                                            *)

\* The steps of main and of the signals leave what the receive thread has alone.
LEMMA MainQuiet ==
    ASSUME Places, MainStep \/ shutdown_signal \/ abort \/ UNCHANGED vars
    PROVE  /\ UNCHANGED <<buffer, received, now, frame, frames_received_, frames_malformed_,
                          clock, sent, key>>
           /\ receive_thread' = receive_thread \/ receive_thread' \in {"none", "test"}
           /\ inbox' = inbox \/ inbox' = <<>>
           /\ UNCHANGED keys_ \/ load_config
           /\ UNCHANGED lanes \/ process_frame
           /\ UNCHANGED peers \/ stopped \/ status_stats
           /\ (main' = "stats" => main = "stats" /\ UNCHANGED stats_now) \/ status
  <1> USE DEF transport_vars, owner, receiver, peers, network, auth_vars
  <1>1. CASE load_config
    BY <1>1 DEF load_config, GoOn, register_account
  <1>2. CASE configure_ingress \/ open_files \/ enter_loop
    BY <1>2 DEF configure_ingress, open_files, enter_loop, GoOn
  <1>3. CASE start_transport
    BY <1>3 DEF start_transport, GoOn, start
  <1>4. CASE return_early
    BY <1>4 DEF return_early, start_fails
  <1>5. CASE begin_turn \/ process_frame \/ end_turn \/ status \/ leave_loop
    BY <1>5 DEF begin_turn, process_frame, end_turn, status, leave_loop, Go
  <1>6. CASE status_stats
    BY <1>6 DEF status_stats, stats, Go
  <1>7. CASE stop
    BY <1>7 DEF stop, StopStep, Go, stop_flag, stop_join
  <1>8. CASE stopped
    BY <1>8 DEF stopped, stop_close
  <1>9. CASE sync \/ destroy
    BY <1>9 DEF sync, destroy
  <1>10. CASE shutdown_signal \/ abort
    BY <1>10 DEF shutdown_signal, abort
  <1>11. CASE UNCHANGED vars
    BY <1>11 DEF vars, process
  <1> QED
    BY <1>1, <1>2, <1>3, <1>4, <1>5, <1>6, <1>7, <1>8, <1>9, <1>10, <1>11 DEF MainStep

\* A step that takes nothing from the socket but by closing it.
LEMMA SameSocket ==
    ASSUME SocketInv, UNCHANGED <<sent, received, frames_received_, frames_malformed_>>,
           inbox' = inbox \/ inbox' = <<>>,
           receive_thread' = receive_thread
             \/ (receive_thread' \in {"none", "test", "recv", "done"})
             \/ (receive_thread = "peers" /\ receive_thread' = "parse")
             \/ (receive_thread = "callback" /\ receive_thread' = "verify")
    PROVE  SocketInv'
  <1>1. Holding' => Holding
    BY DEF Holding
  <1>2. Uncounted \in {0, 1} /\ (Uncounted' = Uncounted \/ Uncounted' = 0)
    BY DEF Uncounted
  <1>3. sent \in Nat /\ inbox \in Seq(Packets) /\ frames_received_ \in Nat /\ frames_malformed_ \in Nat
        /\ frames_received_ + frames_malformed_ + Uncounted + Len(inbox) <= sent
        /\ (Holding => received \in Packets /\ received.number <= sent)
        /\ \A i \in 1 .. Len(inbox) : inbox[i].number <= sent
    BY DEF SocketInv
  <1>4. Len(inbox) \in Nat
    BY <1>3, LenProperties
  <1>5. /\ inbox' \in Seq(Packets) /\ Len(inbox') \in Nat /\ Len(inbox') <= Len(inbox)
        /\ \A i \in 1 .. Len(inbox') : inbox'[i].number <= sent
    <2>1. CASE inbox' = inbox
      BY <1>3, <1>4, <2>1
    <2>2. CASE inbox' = <<>>
      BY <1>4, <2>2
    <2> QED
      BY <2>1, <2>2
  <1>6. frames_received_ + frames_malformed_ + Uncounted' + Len(inbox') <= sent
    BY <1>2, <1>3, <1>4, <1>5
  <1>7. Packets' = Packets
    BY DEF Packets
  <1> QED
    BY <1>1, <1>3, <1>5, <1>6, <1>7 DEF SocketInv

\* recvfrom moves a datagram from the socket to the thread.
LEMMA ReceivedPacket ==
    ASSUME SocketInv, recv_datagram
    PROVE  /\ received' = inbox[1] /\ received' \in Packets /\ received'.number <= sent
           /\ SocketInv'
  <1>1. sent \in Nat /\ inbox \in Seq(Packets) /\ frames_received_ \in Nat /\ frames_malformed_ \in Nat
        /\ frames_received_ + frames_malformed_ + Uncounted + Len(inbox) <= sent
        /\ \A i \in 1 .. Len(inbox) : inbox[i].number <= sent
    BY DEF SocketInv
  <1>2. /\ inbox # <<>> /\ inbox' = Tail(inbox) /\ received' = Head(inbox)
        /\ receive_thread = "recv" /\ receive_thread' \in {"test", "peers"}
        /\ UNCHANGED <<sent, frames_received_, frames_malformed_>>
    BY DEF recv_datagram
  <1>3. /\ inbox' \in Seq(Packets) /\ Len(inbox') = Len(inbox) - 1 /\ Len(inbox) \in Nat \ {0}
        /\ \A i \in 1 .. Len(inbox) - 1 : inbox'[i] = inbox[i + 1]
        /\ received' = inbox[1] /\ received' \in Packets
    BY <1>1, <1>2, TailElements
  <1>4. received'.number <= sent
    BY <1>1, <1>3
  <1>5. \A i \in 1 .. Len(inbox') : inbox'[i].number <= sent
    <2> TAKE i \in 1 .. Len(inbox')
    <2>1. i \in 1 .. Len(inbox) - 1 /\ i + 1 \in 1 .. Len(inbox)
      BY <1>3
    <2> QED
      BY <1>1, <1>3, <2>1
  <1>6. Uncounted = 0 /\ Uncounted' \in {0, 1}
    BY <1>2 DEF Uncounted
  <1>7. frames_received_ + frames_malformed_ + Uncounted' + Len(inbox') <= sent
    BY <1>1, <1>3, <1>6
  <1>8. Packets' = Packets
    BY DEF Packets
  <1> QED
    BY <1>1, <1>2, <1>3, <1>4, <1>5, <1>7, <1>8 DEF SocketInv

\* A datagram that arrives has its type and a new number.
LEMMA ArrivedPacket ==
    ASSUME SocketInv, NEW p \in Peers, NEW d \in Datagrams, arrive(p, d)
    PROVE  SocketInv'
  <1> DEFINE c == Packet(p, d, sent + 1)
  <1>1. sent \in Nat /\ inbox \in Seq(Packets) /\ frames_received_ \in Nat /\ frames_malformed_ \in Nat
        /\ frames_received_ + frames_malformed_ + Uncounted + Len(inbox) <= sent
        /\ (Holding => received \in Packets /\ received.number <= sent)
        /\ \A i \in 1 .. Len(inbox) : inbox[i].number <= sent
    BY DEF SocketInv
  <1>2. /\ sent' = sent + 1 /\ inbox' = Append(inbox, c)
        /\ UNCHANGED <<receive_thread, received, frames_received_, frames_malformed_>>
    BY DEF arrive, receiver
  <1>3. c \in Packets /\ c.number = sent + 1
    BY <1>1 DEF Packet, Packets
  <1> HIDE DEF c
  <1>4. /\ inbox' \in Seq(Packets) /\ Len(inbox') = Len(inbox) + 1 /\ Len(inbox) \in Nat
        /\ \A i \in 1 .. Len(inbox) : inbox'[i] = inbox[i]
        /\ inbox'[Len(inbox) + 1] = c
    BY <1>1, <1>2, <1>3, AppendProperties
  <1>5. \A r \in Packets : r.number \in Nat
    BY DEF Packets
  <1>6. \A i \in 1 .. Len(inbox') : inbox'[i].number <= sent'
    <2> TAKE i \in 1 .. Len(inbox')
    <2>1. CASE i = Len(inbox) + 1
      BY <1>1, <1>2, <1>3, <1>4, <2>1
    <2>2. CASE i \in 1 .. Len(inbox)
      <3>1. inbox[i] \in Packets /\ inbox[i].number <= sent
        BY <1>1, <2>2
      <3>2. inbox[i].number \in Nat
        BY <1>5, <3>1
      <3>3. inbox[i].number <= sent + 1
        BY <1>1, <3>1, <3>2
      <3> QED
        BY <1>2, <1>4, <2>2, <3>3
    <2> QED
      BY <1>4, <2>1, <2>2
  <1>7. Uncounted' = Uncounted /\ Uncounted \in {0, 1} /\ Holding' = Holding
    BY <1>2 DEF Uncounted, Holding
  <1>8. frames_received_ + frames_malformed_ + Uncounted + Len(inbox') <= sent'
    BY <1>1, <1>2, <1>4, <1>7
  <1>9. Holding => received.number <= sent'
    BY <1>1, <1>2, <1>5
  <1>10. Packets' = Packets
    BY DEF Packets
  <1> QED
    BY <1>1, <1>2, <1>4, <1>6, <1>7, <1>8, <1>9, <1>10 DEF SocketInv

\* Every step keeps the account of the datagrams.
LEMMA SocketKept ==
    ASSUME Places, SocketInv, [Next]_vars
    PROVE  SocketInv'
  <1>1. CASE MainStep \/ shutdown_signal \/ abort \/ UNCHANGED vars
    BY <1>1, MainQuiet, SameSocket
  <1>2. CASE Environment
    <2>1. CASE tick
      BY <2>1, SameSocket DEF tick, receiver
    <2>2. CASE \E p \in Peers, d \in Datagrams : arrive(p, d)
      BY <2>2, ArrivedPacket
    <2> QED
      BY <1>2, <2>1, <2>2 DEF Environment
  <1>3. CASE submit
    <2>1. /\ UNCHANGED <<sent, received, frames_received_, frames_malformed_, inbox>>
          /\ receive_thread' = "test" \/ (receive_thread = "callback" /\ receive_thread' = "verify")
      BY <1>3 DEF submit, submit_refused, submit_find_key, submit_verify, Thread, receiver, network
    <2> QED
      BY <2>1, SameSocket
  <1>4. CASE recv_datagram
    BY <1>4, ReceivedPacket
  <1>5. CASE loop_test
    <2>1. /\ UNCHANGED <<sent, frames_received_, frames_malformed_, inbox>>
          /\ receive_thread = "test" /\ receive_thread' \in {"recv", "done"}
      BY <1>5 DEF loop_test, Counters, network
    <2>2. ~ Holding' /\ Uncounted = 0 /\ Uncounted' = 0 /\ Packets' = Packets
      BY <2>1 DEF Holding, Uncounted, Packets
    <2> QED
      BY <2>1, <2>2 DEF SocketInv
  <1>6. CASE recv_timeout \/ note_peer
    BY <1>6, SameSocket DEF recv_timeout, note_peer, receiver, network
  <1>7. CASE parse_frame \/ parse_fails
    <2>1. /\ UNCHANGED <<sent, inbox, received>> /\ receive_thread = "parse"
          /\ receive_thread' \in {"callback", "test"}
          /\ \/ frames_received_' = frames_received_ + 1 /\ UNCHANGED frames_malformed_
             \/ frames_malformed_' = frames_malformed_ + 1 /\ UNCHANGED frames_received_
      BY <1>7 DEF parse_frame, parse_fails, network
    <2>2. Holding /\ Uncounted = 1 /\ Uncounted' = 0 /\ Packets' = Packets
      BY <2>1 DEF Holding, Uncounted, Packets
    <2>3. sent \in Nat /\ inbox \in Seq(Packets) /\ Len(inbox) \in Nat
          /\ frames_received_ \in Nat /\ frames_malformed_ \in Nat
          /\ frames_received_ + frames_malformed_ + 1 + Len(inbox) <= sent
      BY <2>2 DEF SocketInv
    <2>4. /\ frames_received_' \in Nat /\ frames_malformed_' \in Nat
          /\ frames_received_' + frames_malformed_' + 0 + Len(inbox) <= sent
      BY <2>1, <2>3
    <2> QED
      BY <2>1, <2>2, <2>4 DEF SocketInv
  <1> QED
    BY <1>1, <1>2, <1>3, <1>4, <1>5, <1>6, <1>7 DEF Next, ReceiveStep, receive_loop

-----------------------------------------------------------------------------
(* The receive buffer                                                      *)

\* A step that does not write into the buffer.
LEMMA SameBuffer ==
    ASSUME BufferInv, UNCHANGED <<buffer, sent>>,
           receive_thread' \in {"peers", "parse"} =>
               receive_thread \in {"peers", "parse"} /\ UNCHANGED received
    PROVE  BufferInv'
  BY DEF BufferInv

\* Every step keeps the bytes of the datagram that is not parsed yet.
LEMMA BufferKept ==
    ASSUME Places, SocketInv, BufferInv, [Next]_vars
    PROVE  BufferInv'
  <1>1. CASE MainStep \/ shutdown_signal \/ abort \/ UNCHANGED vars
    BY <1>1, MainQuiet, SameBuffer
  <1>2. CASE Environment
    <2>1. UNCHANGED <<buffer, receive_thread, received>> /\ sent' \in {sent, sent + 1}
      BY <1>2 DEF Environment, tick, arrive, receiver
    <2>2. sent \in Nat /\ buffer \in [1 .. BufferSize -> 0 .. sent]
      BY DEF SocketInv, BufferInv
    <2>3. 0 .. sent \subseteq 0 .. sent'
      BY <2>1, <2>2
    <2>4. buffer \in [1 .. BufferSize -> 0 .. sent']
      BY <2>2, <2>3
    <2> QED
      BY <2>1, <2>4 DEF BufferInv
  <1>3. CASE submit
    BY <1>3, SameBuffer DEF submit, submit_refused, submit_find_key, submit_verify, Thread,
       receiver, network
  <1>4. CASE recv_datagram
    <2>1. received' \in Packets /\ received'.number <= sent
      BY <1>4, ReceivedPacket
    <2>2. /\ buffer' = [i \in 1 .. BufferSize |->
                           IF i <= received'.len THEN received'.number ELSE buffer[i]]
          /\ UNCHANGED sent
      BY <1>4 DEF recv_datagram
    <2> DEFINE l == received'.len
               n == received'.number
    <2>3. l \in 0 .. BufferSize /\ n \in Nat /\ n <= sent
      BY <2>1 DEF Packets
    <2>4. sent \in Nat /\ buffer \in [1 .. BufferSize -> 0 .. sent]
      BY DEF SocketInv, BufferInv
    <2> HIDE DEF l, n
    <2>5. buffer' = [i \in 1 .. BufferSize |-> IF i <= l THEN n ELSE buffer[i]]
      BY <2>2 DEF l, n
    <2>6. buffer' \in [1 .. BufferSize -> 0 .. sent]
      BY <2>3, <2>4, <2>5
    <2>7. \A i \in 1 .. l : buffer'[i] = n
      BY <2>3, <2>5
    <2> QED
      BY <2>2, <2>6, <2>7 DEF BufferInv, l, n
  <1>5. CASE loop_test \/ recv_timeout \/ note_peer \/ parse_frame \/ parse_fails
    BY <1>5, SameBuffer DEF loop_test, recv_timeout, note_peer, parse_frame, parse_fails,
       receiver, network
  <1> QED
    BY <1>1, <1>2, <1>3, <1>4, <1>5 DEF Next, ReceiveStep, receive_loop

-----------------------------------------------------------------------------
(* Frames and keys                                                         *)

\* A step that neither makes a frame nor looks for a key nor changes the lanes.
LEMMA SameFrames ==
    ASSUME FrameInv, UNCHANGED <<keys_, lanes>>,
           receive_thread' \in {"callback", "verify"} =>
               UNCHANGED <<receive_thread, frame, received, key>>
    PROVE  FrameInv'
  <1>1. Frames' = Frames
    BY DEF Frames
  <1> QED
    BY <1>1 DEF FrameInv, FramesGenuine, OwnBytes

\* A frame that parses has the bytes of its own datagram, to the last one.
LEMMA ParsedFrame ==
    ASSUME SocketInv, BufferInv, FrameInv, parse_frame, UNCHANGED <<auth_vars, lanes>>
    PROVE  FrameInv'
  <1>1. /\ receive_thread = "parse" /\ Parses(received) /\ frame' = Frame(received)
        /\ receive_thread' \in {"callback", "test"} /\ UNCHANGED <<received>>
    BY DEF parse_frame
  <1> DEFINE d == received
             m == received.payload_len
             b == [i \in 1 .. m |-> buffer[HeaderSize + i]]
  <1>2. d \in Packets
    BY <1>1 DEF SocketInv, Holding
  <1>3. /\ d.number \in Nat /\ d.len \in 0 .. BufferSize /\ m \in Nat
        /\ d.kind \in {e.kind : e \in Datagrams} /\ d.account \in {e.account : e \in Datagrams}
        /\ d.signer \in {e.signer : e \in Datagrams}
    BY <1>2 DEF Packets
  <1>4. HeaderSize + m <= d.len
    BY <1>1, <1>3 DEF Parses
  <1>5. ASSUME NEW i \in 1 .. m PROVE buffer[HeaderSize + i] = d.number
    <2>1. HeaderSize + i \in 1 .. d.len
      BY <1>3, <1>4
    <2> QED
      BY <1>1, <2>1 DEF BufferInv
  <1>6. b \in Seq(Nat) /\ DOMAIN b = 1 .. m /\ \A i \in 1 .. m : b[i] = d.number
    <2>1. m \in Nat /\ \A i \in 1 .. m : buffer[HeaderSize + i] \in Nat
      BY <1>3, <1>5
    <2>2. b \in Seq(Nat)
      <3> HIDE DEF m
      <3> QED
        BY <2>1, IsASeq
    <2>3. DOMAIN b = 1 .. m /\ \A i \in 1 .. m : b[i] = buffer[HeaderSize + i]
      OBVIOUS
    <2> QED
      BY <1>5, <2>2, <2>3
  <1>7. frame' = [number |-> d.number, kind |-> d.kind, account |-> d.account,
                  signer |-> d.signer, payload |-> b]
    BY <1>1 DEF Frame
  <1> HIDE DEF b
  <1>8. frame' \in Frames /\ frame'.number = d.number /\ frame'.payload = b
    BY <1>3, <1>6, <1>7 DEF Frames
  <1>9. \A i \in DOMAIN frame'.payload : frame'.payload[i] = frame'.number
    BY <1>6, <1>8
  <1>10. UNCHANGED <<keys_, lanes, key>> /\ Frames' = Frames
    BY DEF Frames, auth_vars
  <1> QED
    BY <1>1, <1>8, <1>9, <1>10 DEF FrameInv, FramesGenuine, OwnBytes

\* The key that was found is the one of the frame's account, and the only one there is.
LEMMA VerifiedFrame ==
    ASSUME FrameInv, submit
    PROVE  FrameInv'
  <1>0. Frames' = Frames
    BY DEF Frames
  <1>1. UNCHANGED <<frame, received, keys_>>
    BY DEF submit, submit_refused, submit_find_key, submit_verify, Thread, receiver,
       verify_fails, get_public_key, verified, auth_vars
  <1>2. CASE submit_refused
    <2>1. receive_thread' = "test" /\ UNCHANGED lanes
      BY <1>2 DEF submit_refused, Thread
    <2> QED
      BY <1>1, <2>1, SameFrames
  <1>3. CASE submit_find_key
    <2>1. /\ receive_thread = "callback" /\ receive_thread' = "verify" /\ UNCHANGED lanes
          /\ frame.kind # "heartbeat" /\ key' = frame.account /\ frame.account \in DOMAIN keys_
      BY <1>3 DEF submit_find_key, Thread, get_public_key
    <2> QED
      BY <1>0, <1>1, <2>1 DEF FrameInv, FramesGenuine, OwnBytes
  <1>4. ASSUME NEW pushed \in BOOLEAN, submit_verify(pushed) PROVE FrameInv'
    <2>1. receive_thread = "verify" /\ receive_thread' = "test"
      BY <1>4 DEF submit_verify, Thread
    <2>2. CASE lanes' = lanes
      BY <1>1, <2>1, <2>2, SameFrames
    <2>3. CASE lanes' = Append(lanes, frame) /\ keys_[key] = frame.signer
      <3>1. /\ key \in DOMAIN keys_ /\ key = frame.account /\ frame.kind # "heartbeat"
            /\ frame \in Frames /\ OwnBytes(frame)
        BY <2>1 DEF FrameInv, FramesGenuine
      <3>2. frame.account = Account /\ frame.signer = PublicKey
        BY <2>3, <3>1 DEF FrameInv
      <3>3. /\ lanes \in Seq(Frames) /\ DOMAIN lanes = 1 .. Len(lanes)
            /\ \A i \in DOMAIN lanes :
                  /\ OwnBytes(lanes[i]) /\ lanes[i].kind # "heartbeat"
                  /\ lanes[i].account = Account /\ lanes[i].signer = PublicKey
        BY DEF FrameInv, FramesGenuine
      <3>4. /\ lanes' \in Seq(Frames) /\ Len(lanes') = Len(lanes) + 1 /\ Len(lanes) \in Nat
            /\ \A i \in 1 .. Len(lanes) : lanes'[i] = lanes[i]
            /\ lanes'[Len(lanes) + 1] = frame
        BY <2>3, <3>1, <3>3, AppendProperties
      <3>5. \A i \in DOMAIN lanes' : lanes'[i] = frame \/ \E j \in DOMAIN lanes : lanes'[i] = lanes[j]
        <4>1. DOMAIN lanes' = 1 .. Len(lanes) + 1
          BY <3>4
        <4>2. \A i \in 1 .. Len(lanes) + 1 : i \in 1 .. Len(lanes) \/ i = Len(lanes) + 1
          BY <3>4
        <4> QED
          BY <3>3, <3>4, <4>1, <4>2
      <3>6. \A i \in DOMAIN lanes' :
                /\ OwnBytes(lanes'[i]) /\ lanes'[i].kind # "heartbeat"
                /\ lanes'[i].account = Account /\ lanes'[i].signer = PublicKey
        BY <3>1, <3>2, <3>3, <3>5
      <3> QED
        BY <1>0, <1>1, <2>1, <3>4, <3>6 DEF FrameInv, FramesGenuine, OwnBytes
    <2> QED
      BY <1>4, <2>2, <2>3 DEF submit_verify, VerdictOf
  <1> QED
    BY <1>2, <1>3, <1>4 DEF submit

\* Every step keeps the frames genuine.
LEMMA FramesKept ==
    ASSUME Places, SocketInv, BufferInv, FrameInv, [Next]_vars
    PROVE  FrameInv'
  <1>0. Frames' = Frames
    BY DEF Frames
  <1>1. CASE MainStep \/ shutdown_signal \/ abort \/ UNCHANGED vars
    <2>1. /\ UNCHANGED <<frame, received, key>>
          /\ receive_thread' = receive_thread \/ receive_thread' \in {"none", "test"}
          /\ UNCHANGED keys_ \/ load_config
          /\ UNCHANGED lanes \/ process_frame
      BY <1>1, MainQuiet
    <2>2. CASE UNCHANGED <<keys_, lanes>>
      BY <2>1, <2>2, SameFrames
    <2>3. CASE load_config
      <3>1. /\ keys_' = [b \in DOMAIN keys_ \cup {Account} |->
                            IF b = Account THEN PublicKey ELSE keys_[b]]
            /\ UNCHANGED lanes
        BY <2>3 DEF load_config, GoOn, register_account
      <3>2. /\ DOMAIN keys_ \subseteq DOMAIN keys_'
            /\ \A a \in DOMAIN keys_' : a = Account /\ keys_'[a] = PublicKey
        BY <3>1 DEF FrameInv
      <3> QED
        BY <1>0, <2>1, <3>1, <3>2 DEF FrameInv, FramesGenuine, OwnBytes
    <2>4. CASE process_frame
      <3>1. lanes # <<>> /\ lanes' = Tail(lanes) /\ UNCHANGED <<keys_, receive_thread>>
        BY <2>4 DEF process_frame, Go, auth_vars, transport_vars
      <3>2. lanes \in Seq(Frames)
        BY DEF FrameInv
      <3>3. /\ lanes' \in Seq(Frames) /\ Len(lanes') = Len(lanes) - 1 /\ Len(lanes) \in Nat \ {0}
            /\ \A i \in 1 .. Len(lanes) - 1 : lanes'[i] = lanes[i + 1]
        BY <3>1, <3>2, TailElements
      <3>4. \A i \in DOMAIN lanes' : i + 1 \in DOMAIN lanes /\ lanes'[i] = lanes[i + 1]
        <4>1. DOMAIN lanes' = 1 .. Len(lanes) - 1 /\ DOMAIN lanes = 1 .. Len(lanes)
          BY <3>2, <3>3
        <4>2. \A i \in 1 .. Len(lanes) - 1 : i + 1 \in 1 .. Len(lanes)
          BY <3>3
        <4> QED
          BY <3>3, <4>1, <4>2
      <3>5. \A i \in DOMAIN lanes :
                /\ OwnBytes(lanes[i]) /\ lanes[i].kind # "heartbeat"
                /\ lanes[i].account = Account /\ lanes[i].signer = PublicKey
        BY DEF FrameInv, FramesGenuine
      <3>6. \A i \in DOMAIN lanes' :
                /\ OwnBytes(lanes'[i]) /\ lanes'[i].kind # "heartbeat"
                /\ lanes'[i].account = Account /\ lanes'[i].signer = PublicKey
        BY <3>4, <3>5
      <3> QED
        BY <1>0, <2>1, <3>1, <3>3, <3>6 DEF FrameInv, FramesGenuine, OwnBytes
    <2> QED
      BY <2>1, <2>2, <2>3, <2>4
  <1>2. CASE Environment
    BY <1>2, SameFrames DEF Environment, tick, arrive, receiver, auth_vars
  <1>3. CASE submit
    BY <1>3, VerifiedFrame
  <1>4. CASE parse_frame /\ UNCHANGED <<auth_vars, process, lanes>>
    BY <1>4, ParsedFrame
  <1>5. CASE (loop_test \/ recv_timeout \/ recv_datagram \/ note_peer \/ parse_fails)
             /\ UNCHANGED <<auth_vars, process, lanes>>
    BY <1>5, SameFrames DEF loop_test, recv_timeout, recv_datagram, note_peer, parse_fails, auth_vars
  <1> QED
    BY <1>1, <1>2, <1>3, <1>4, <1>5 DEF Next, ReceiveStep, receive_loop

-----------------------------------------------------------------------------
(* The table of peers                                                      *)

\* A step that notes and expires nobody.
LEMMA SamePeers ==
    ASSUME PeerInv, UNCHANGED <<clock, peers>>,
           receive_thread' = "peers" => receive_thread = "peers" /\ UNCHANGED now,
           main' = "stats" => main = "stats" /\ UNCHANGED stats_now
    PROVE  PeerInv'
  BY DEF PeerInv, peers

\* Who is expired at time t, now or earlier, has been silent for longer than the window.
LEMMA Expired ==
    ASSUME NEW c \in Nat, NEW t \in 0 .. c, NEW seen, NEW h,
           DOMAIN seen \subseteq DOMAIN h,
           \A p \in DOMAIN h :
              /\ h[p] \in 0 .. c
              /\ IF p \in DOMAIN seen THEN seen[p] = h[p]
                 ELSE c - h[p] > kPeerLivenessWindow
    PROVE  /\ DOMAIN Live(seen, t) \subseteq DOMAIN seen
           /\ \A p \in DOMAIN h :
                 IF p \in DOMAIN Live(seen, t) THEN Live(seen, t)[p] = h[p]
                 ELSE c - h[p] > kPeerLivenessWindow
  <1> DEFINE D == {p \in DOMAIN seen : ~ (t - seen[p] > kPeerLivenessWindow)}
  <1>1. Live(seen, t) = [p \in D |-> seen[p]]
    BY DEF Live, Restrict
  <1>2. DOMAIN Live(seen, t) = D /\ \A p \in D : Live(seen, t)[p] = seen[p]
    BY <1>1
  <1>3. ASSUME NEW p \in DOMAIN h, p \notin D PROVE c - h[p] > kPeerLivenessWindow
    <2>1. CASE p \in DOMAIN seen
      <3>1. t - seen[p] > kPeerLivenessWindow /\ seen[p] = h[p] /\ h[p] \in 0 .. c
        BY <1>3, <2>1
      <3> QED
        BY <3>1
    <2>2. CASE p \notin DOMAIN seen
      BY <2>2
    <2> QED
      BY <2>1, <2>2
  <1> HIDE DEF D
  <1>4. D \subseteq DOMAIN seen
    BY DEF D
  <1> QED
    BY <1>2, <1>3, <1>4

\* Every step keeps the table: only who is silent leaves it.
LEMMA PeersKept ==
    ASSUME Places, SocketInv, PeerInv, [Next]_vars
    PROVE  PeerInv'
  <1>0. clock \in Nat
    BY DEF PeerInv
  <1>1. CASE MainStep \/ shutdown_signal \/ abort \/ UNCHANGED vars
    <2>1. /\ UNCHANGED <<now, clock>>
          /\ receive_thread' = receive_thread \/ receive_thread' \in {"none", "test"}
          /\ UNCHANGED peers \/ stopped \/ status_stats
          /\ (main' = "stats" => main = "stats" /\ UNCHANGED stats_now) \/ status
      BY <1>1, MainQuiet
    <2>2. CASE stopped
      <3>1. /\ peer_last_seen_' = <<>> /\ heard' = <<>> /\ main' # "stats"
        BY <2>2 DEF stopped, stop_close
      <3>2. DOMAIN heard' = {} /\ DOMAIN peer_last_seen_' = {} /\ IsFiniteSet({})
        BY <3>1, FS_EmptySet
      <3> QED
        BY <2>1, <3>1, <3>2 DEF PeerInv
    <2>3. CASE status_stats
      <3>1. /\ main = "stats" /\ main' = "run" /\ UNCHANGED heard
            /\ peer_last_seen_' = Live(peer_last_seen_, stats_now)
        BY <2>3 DEF status_stats, stats, Go
      <3>2. stats_now \in 0 .. clock
        BY <3>1 DEF PeerInv
      <3>3. /\ DOMAIN peer_last_seen_ \subseteq DOMAIN heard
            /\ \A p \in DOMAIN heard :
                  /\ heard[p] \in 0 .. clock
                  /\ IF p \in DOMAIN peer_last_seen_ THEN peer_last_seen_[p] = heard[p]
                     ELSE clock - heard[p] > kPeerLivenessWindow
        BY DEF PeerInv
      <3>4. /\ DOMAIN peer_last_seen_' \subseteq DOMAIN peer_last_seen_
            /\ \A p \in DOMAIN heard :
                  IF p \in DOMAIN peer_last_seen_' THEN peer_last_seen_'[p] = heard[p]
                  ELSE clock - heard[p] > kPeerLivenessWindow
        BY <1>0, <3>1, <3>2, <3>3, Expired
      <3> QED
        BY <2>1, <3>1, <3>4 DEF PeerInv
    <2>4. CASE UNCHANGED peers /\ status
      BY <2>1, <2>4 DEF PeerInv, peers, status, Go
    <2> QED
      BY <2>1, <2>2, <2>3, <2>4, SamePeers
  <1>2. CASE Environment
    <2>1. CASE tick
      <3>1. clock' = clock + 1 /\ UNCHANGED <<receive_thread, now, main, stats_now, heard, peer_last_seen_>>
        BY <1>2, <2>1 DEF tick, Environment, receiver, peers, process
      <3>2. 0 .. clock \subseteq 0 .. clock'
        BY <1>0, <3>1
      <3>3. \A p \in DOMAIN heard : /\ heard[p] \in 0 .. clock'
                                    /\ clock - heard[p] > kPeerLivenessWindow
                                          => clock' - heard[p] > kPeerLivenessWindow
        BY <1>0, <3>1 DEF PeerInv
      <3> QED
        BY <1>0, <3>1, <3>2, <3>3 DEF PeerInv
    <2>2. CASE \E p \in Peers, d \in Datagrams : arrive(p, d)
      BY <1>2, <2>2, SamePeers DEF arrive, Environment, receiver, process
    <2> QED
      BY <1>2, <2>1, <2>2 DEF Environment
  <1>3. CASE submit
    BY <1>3, SamePeers DEF submit, submit_refused, submit_find_key, submit_verify, Thread,
       receiver, network, process
  <1>4. CASE recv_datagram /\ UNCHANGED <<auth_vars, process, lanes>>
    <2>1. /\ UNCHANGED <<clock, main, stats_now, heard, peer_last_seen_>>
          /\ receive_thread' = "peers" => now' = clock
      BY <1>4 DEF recv_datagram, process, peers
    <2> QED
      BY <1>0, <2>1 DEF PeerInv
  <1>5. CASE note_peer /\ UNCHANGED <<auth_vars, process, lanes>>
    <2> DEFINE q == received.peer
               seen == Noted(peer_last_seen_, q, now)
    <2>1. /\ receive_thread = "peers" /\ receive_thread' = "parse"
          /\ peer_last_seen_' = Live(seen, now) /\ heard' = Noted(heard, q, now)
          /\ UNCHANGED <<clock, main, stats_now>>
      BY <1>5 DEF note_peer, network, process
    <2>2. q \in Peers /\ now \in 0 .. clock
      BY <2>1 DEF SocketInv, Holding, Packets, PeerInv
    <2>3. /\ DOMAIN heard' = DOMAIN heard \cup {q}
          /\ \A p \in DOMAIN heard' : heard'[p] = IF p = q THEN now ELSE heard[p]
      BY <2>1 DEF Noted
    <2>4. /\ DOMAIN seen = DOMAIN peer_last_seen_ \cup {q}
          /\ \A p \in DOMAIN seen : seen[p] = IF p = q THEN now ELSE peer_last_seen_[p]
      BY DEF Noted
    <2> HIDE DEF q, seen
    <2>5. /\ DOMAIN seen \subseteq DOMAIN heard'
          /\ \A p \in DOMAIN heard' :
                /\ heard'[p] \in 0 .. clock
                /\ IF p \in DOMAIN seen THEN seen[p] = heard'[p]
                   ELSE clock - heard'[p] > kPeerLivenessWindow
      BY <2>2, <2>3, <2>4 DEF PeerInv
    <2>6. /\ DOMAIN peer_last_seen_' \subseteq DOMAIN seen
          /\ \A p \in DOMAIN heard' :
                IF p \in DOMAIN peer_last_seen_' THEN peer_last_seen_'[p] = heard'[p]
                ELSE clock - heard'[p] > kPeerLivenessWindow
      BY <1>0, <2>1, <2>2, <2>5, Expired
    <2>7. DOMAIN heard' \subseteq Peers /\ IsFiniteSet(DOMAIN heard')
      BY <2>2, <2>3, FS_AddElement DEF PeerInv
    <2> QED
      BY <1>0, <2>1, <2>5, <2>6, <2>7 DEF PeerInv
  <1>6. CASE (loop_test \/ recv_timeout \/ parse_frame \/ parse_fails)
             /\ UNCHANGED <<auth_vars, process, lanes>>
    BY <1>6, SamePeers DEF loop_test, recv_timeout, parse_frame, parse_fails, network, process
  <1> QED
    BY <1>1, <1>2, <1>3, <1>4, <1>5, <1>6 DEF Next, ReceiveStep, receive_loop

-----------------------------------------------------------------------------
(* The theorems                                                            *)

\* Before main's first step: no object, no thread, no datagram, no peer.
LEMMA DaemonInitInv == Init => DaemonInv
  <1> SUFFICES ASSUME Init PROVE DaemonInv
    OBVIOUS
  <1>1. Places /\ ThreadInv
    BY DEF Init, TransportInit, Places, ThreadInv
  <1>2. LocalsInv
    BY DEF Init, LocalsInv
  <1>3. SocketInv
    BY DEF Init, TransportInit, SocketInv, Holding, Uncounted
  <1>4. BufferInv
    BY DEF Init, TransportInit, BufferInv
  <1>5. FrameInv
    BY DEF Init, TransportInit, AuthInit, FrameInv, FramesGenuine
  <1>6. PeerInv
    BY FS_EmptySet DEF Init, TransportInit, PeerInv
  <1> QED
    BY <1>1, <1>2, <1>3, <1>4, <1>5, <1>6 DEF DaemonInv

\* Every step of either thread keeps the inductive invariant.
LEMMA DaemonNextKeepsInv ==
    ASSUME DaemonInv, [Next]_vars
    PROVE  DaemonInv'
  BY PlacesKept, LocalsKept, ThreadKept, SocketKept, BufferKept, FramesKept, PeersKept
     DEF DaemonInv

\* The invariant of the two threads holds in every reachable state of the daemon.
THEOREM DaemonInvHolds == Spec => []DaemonInv
  <1>1. DaemonInv /\ [Next]_vars => DaemonInv'
    BY DaemonNextKeepsInv
  <1> QED
    BY <1>1, DaemonInitInv, PTL DEF Spec

\* The state has its type: in particular the receive thread counts no datagram twice,
\* and the table holds only peers and times that have passed.
THEOREM DaemonTypeCorrect == Spec => []TypeOK
  <1>1. ASSUME DaemonInv PROVE TypeOK
    <2>1. ToSet(locals) \subseteq ObjectNames
      BY <1>1 DEF DaemonInv, LocalsInv, ToSet
    <2>2. frames_received_ + frames_malformed_ <= sent
      <3>1. /\ sent \in Nat /\ frames_received_ \in Nat /\ frames_malformed_ \in Nat
            /\ Len(inbox) \in Nat /\ Uncounted \in Nat
            /\ frames_received_ + frames_malformed_ + Uncounted + Len(inbox) <= sent
        BY <1>1, LenProperties DEF DaemonInv, SocketInv, Uncounted
      <3> QED
        BY <3>1
    <2>3. /\ DOMAIN peer_last_seen_ \subseteq Peers
          /\ \A p \in DOMAIN peer_last_seen_ : peer_last_seen_[p] \in 0 .. clock
      BY <1>1 DEF DaemonInv, PeerInv
    <2> QED
      BY <1>1, <2>1, <2>2, <2>3 DEF TypeOK, DaemonInv, BufferInv
  <1> QED
    BY <1>1, DaemonInvHolds, PTL

\* On every way out of main the receive thread has what it uses, and when main has
\* ended there is neither thread nor socket: stop joins the thread before it closes,
\* and the objects of the callback are destroyed after the transport.
THEOREM ThreadIsSafe == Spec => []ThreadUsesLiveObjects
  <1>1. ASSUME DaemonInv PROVE ThreadUsesLiveObjects
    <2>1. ASSUME ThreadRuns
          PROVE  /\ {"transport", "ingress", "authenticator"} \subseteq ToSet(locals)
                 /\ socket # "closed" /\ callback_ /\ main # "close"
      <3>1. /\ socket = "timed" /\ callback_ /\ Len(locals) >= 3 /\ main # "close"
        BY <1>1, <2>1 DEF DaemonInv, ThreadInv, ThreadRuns
      <3>2. /\ locals \in Seq(ObjectNames) /\ Len(locals) \in Nat
            /\ \A i \in 1 .. Len(locals) : locals[i] = Objects[i]
        BY <1>1, LenProperties DEF DaemonInv, LocalsInv
      <3>3. 1 \in 1 .. Len(locals) /\ 2 \in 1 .. Len(locals) /\ 3 \in 1 .. Len(locals)
        BY <3>1, <3>2
      <3>4. \A i \in 1 .. Len(locals) : Objects[i] \in ToSet(locals)
        <4>1. DOMAIN locals = 1 .. Len(locals)
          BY <3>2
        <4> QED
          BY <3>2, <4>1 DEF ToSet
      <3> QED
        BY <3>1, <3>3, <3>4, ObjectsByNumber
    <2>2. receive_thread = "verify" => key \in DOMAIN keys_
      BY <1>1 DEF DaemonInv, FrameInv
    <2>3. ASSUME main = "exited"
          PROVE  socket = "closed" /\ receive_thread = "none" /\ locals = <<>>
      <3>1. receive_thread = "none" /\ socket = "closed"
        BY <1>1, <2>3 DEF DaemonInv, ThreadInv
      <3>2. locals \in Seq(ObjectNames) /\ Len(locals) = 0
        BY <1>1, <2>3 DEF DaemonInv, LocalsInv
      <3>3. locals = <<>>
        BY <3>2, EmptySeq
      <3> QED
        BY <3>1, <3>3
    <2> QED
      BY <2>1, <2>2, <2>3 DEF ThreadUsesLiveObjects
  <1> QED
    BY <1>1, DaemonInvHolds, PTL

\* What reaches the event loop is a frame with the bytes of its own datagram, signed
\* with the key of the account it names.
THEOREM FramesAreGenuine == Spec => []FramesGenuine
  <1>1. DaemonInv => FramesGenuine
    BY DEF DaemonInv, FrameInv
  <1> QED
    BY <1>1, DaemonInvHolds, PTL

\* The status line counts every peer heard within the window, and none that had been
\* silent for longer, though both threads expire peers with clocks read earlier.
THEOREM PeersAreCounted == Spec => []PeersCounted
  <1>1. ASSUME DaemonInv PROVE PeersCounted
    <2> SUFFICES ASSUME main = "stats"
                 PROVE  connections_active(stats_now)
                           \in Cardinality(Heard(clock)) .. Cardinality(Heard(stats_now))
      BY DEF PeersCounted
    <2> DEFINE L == DOMAIN Live(peer_last_seen_, stats_now)
    <2>1. /\ clock \in Nat /\ stats_now \in 0 .. clock /\ IsFiniteSet(DOMAIN heard)
          /\ DOMAIN peer_last_seen_ \subseteq DOMAIN heard
          /\ \A p \in DOMAIN heard :
                /\ heard[p] \in 0 .. clock
                /\ IF p \in DOMAIN peer_last_seen_ THEN peer_last_seen_[p] = heard[p]
                   ELSE clock - heard[p] > kPeerLivenessWindow
      BY <1>1 DEF DaemonInv, PeerInv
    <2>2. L = {p \in DOMAIN peer_last_seen_ :
                  ~ (stats_now - peer_last_seen_[p] > kPeerLivenessWindow)}
      BY DEF Live, Restrict
    <2> HIDE DEF L
    <2>3. Heard(clock) \subseteq L
      BY <2>1, <2>2 DEF Heard
    <2>4. L \subseteq Heard(stats_now) /\ Heard(stats_now) \subseteq DOMAIN heard
      BY <2>1, <2>2 DEF Heard
    <2>5. IsFiniteSet(Heard(stats_now))
      BY <2>1, <2>4, FS_Subset
    <2>6. IsFiniteSet(L) /\ Cardinality(L) <= Cardinality(Heard(stats_now))
      BY <2>4, <2>5, FS_Subset
    <2>7. IsFiniteSet(Heard(clock)) /\ Cardinality(Heard(clock)) <= Cardinality(L)
      BY <2>3, <2>6, FS_Subset
    <2>8. /\ Cardinality(L) \in Nat /\ Cardinality(Heard(clock)) \in Nat
          /\ Cardinality(Heard(stats_now)) \in Nat
      BY <2>5, <2>6, <2>7, FS_CardinalityType
    <2> QED
      BY <2>6, <2>7, <2>8 DEF connections_active, L
  <1> QED
    BY <1>1, DaemonInvHolds, PTL
=============================================================================
