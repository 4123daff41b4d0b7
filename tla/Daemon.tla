------------------------------- MODULE Daemon -------------------------------
(***************************************************************************)
(* The life of tradecored (apps/tradecored/src/main.cpp): main creates its *)
(* objects one after the other, starts the transport's thread in the       *)
(* middle of that, runs the event loop until a signal, and destroys what   *)
(* it created in reverse order, on each of its ways out.  The callback     *)
(* that the receive thread runs is IngressPipeline::submit with the        *)
(* authenticator behind it.                                                *)
(*                                                                         *)
(* Of the ingress pipeline and the event loop, whose modules have the      *)
(* details, this one has what connects the two threads: frames put into    *)
(* lanes and taken from them.  An exception that leaves main ends the      *)
(* process at once, and so does a signal before its handler is installed.  *)
(***************************************************************************)
EXTENDS Transport, Authenticator, SequencesExt

CONSTANTS Account, PublicKey  \* the one account that main registers, and its key

VARIABLES main,       \* where the main thread is
          locals,     \* main's objects, in the order of their creation
          unwinding,  \* main has returned, and its objects are being destroyed
          g_shutdown_requested,
          lanes,      \* the frames that submit accepted and the loop has not taken
          stats_now   \* stats's now

process == <<main, locals, unwinding, g_shutdown_requested, stats_now>>
vars == <<transport_vars, auth_vars, process, lanes>>

Init ==
    /\ TransportInit /\ AuthInit
    /\ main = "config" /\ locals = <<>> /\ unwinding = FALSE
    /\ g_shutdown_requested = FALSE
    /\ lanes = <<>>
    /\ stats_now = 0

-----------------------------------------------------------------------------
(* main, up to the loop                                                    *)

\* Mutant: the transport is created before what its callback uses.
Created_transport_first ==
    [config |-> <<"transport", "authenticator">>, configure |-> <<"ingress">>,
     start |-> <<>>, files |-> <<"wal", "snapshot", "api">>]

\* The objects that each part of main creates.
Created ==
    [config |-> <<"authenticator">>, configure |-> <<"ingress">>,
     start |-> <<"transport">>, files |-> <<"wal", "snapshot", "api">>]

GoOn(from, to) ==
    /\ main = from /\ main' = to
    /\ locals' = locals \o Created[from]
    /\ UNCHANGED <<unwinding, g_shutdown_requested, lanes, stats_now>>

load_config == GoOn("config", "configure") /\ register_account(Account, PublicKey)
               /\ UNCHANGED transport_vars

configure_ingress == GoOn("configure", "start") /\ UNCHANGED <<transport_vars, auth_vars>>

start_transport == GoOn("start", "files") /\ start /\ UNCHANGED auth_vars

open_files == GoOn("files", "chain_id") /\ UNCHANGED <<transport_vars, auth_vars>>

enter_loop ==
    /\ main = "chain_id" /\ main' = "run"
    /\ UNCHANGED <<transport_vars, auth_vars, lanes, locals, unwinding,
                   g_shutdown_requested, stats_now>>

\* main returns 1: a bad configuration, no transport, or a malformed chain id.
return_early ==
    /\ \/ main = "config" /\ UNCHANGED <<locals, transport_vars>>
       \/ main = "start" /\ locals' = locals \o Created.start /\ start_fails
       \/ main = "chain_id" /\ UNCHANGED <<locals, transport_vars>>
    /\ main' = "destroy" /\ unwinding' = TRUE
    /\ UNCHANGED <<auth_vars, lanes, g_shutdown_requested, stats_now>>

\* An exception (of the lanes' rings, a directory, the log or a snapshot) or a signal
\* that has no handler yet, or can have none.
abort ==
    /\ main \notin {"exited", "aborted"}
    /\ main' = "aborted"
    /\ receive_thread' = "none" /\ socket' = "closed" /\ inbox' = <<>>
    /\ UNCHANGED <<running_, callback_, receiver, peers, clock, sent, auth_vars,
                   lanes, locals, unwinding, g_shutdown_requested, stats_now>>

-----------------------------------------------------------------------------
(* The loop and the way out                                                *)

\* The handler of SIGINT and SIGTERM.
shutdown_signal ==
    /\ main \in {"run", "turn", "stats"}
    /\ ~ g_shutdown_requested /\ g_shutdown_requested' = TRUE
    /\ UNCHANGED <<transport_vars, auth_vars, lanes, main, locals, unwinding, stats_now>>

Go(from, to) ==
    /\ main = from /\ main' = to
    /\ UNCHANGED <<auth_vars, locals, unwinding, g_shutdown_requested>>

\* The loop's test, with the flag down; the turn takes frames and may end with a status
\* line, for which the clock is read and then the table of peers locked.
begin_turn ==
    /\ Go("run", "turn")
    /\ ~ g_shutdown_requested
    /\ UNCHANGED <<transport_vars, lanes, stats_now>>

process_frame ==
    /\ Go("turn", "turn")
    /\ lanes # <<>> /\ lanes' = Tail(lanes)
    /\ UNCHANGED <<transport_vars, stats_now>>

end_turn ==
    /\ Go("turn", "run")
    /\ UNCHANGED <<transport_vars, lanes, stats_now>>

status ==
    /\ Go("turn", "stats")
    /\ stats_now' = clock
    /\ UNCHANGED <<transport_vars, lanes>>

status_stats ==
    /\ Go("stats", "run")
    /\ stats(stats_now)
    /\ stats_now' = 0
    /\ UNCHANGED lanes

\* The loop ends; what the lanes hold by then is left there.
leave_loop ==
    /\ Go("run", "stop")
    /\ g_shutdown_requested
    /\ UNCHANGED <<transport_vars, lanes, stats_now>>

StopStep(from, to, step) ==
    /\ Go(from, to) /\ step
    /\ UNCHANGED <<lanes, stats_now>>

stop == \/ StopStep("stop", "join", stop_flag)
        \/ StopStep("join", "close", stop_join)

\* The last step of a call of stop, from main or from the destructor.
stopped ==
    /\ main = "close" /\ stop_close
    /\ IF unwinding
       THEN main' = "destroy" /\ locals' = Front(locals)
       ELSE main' = "sync" /\ UNCHANGED locals
    /\ UNCHANGED <<auth_vars, lanes, unwinding, g_shutdown_requested, stats_now>>

\* wal.sync and return 0.
sync ==
    /\ main = "sync" /\ main' = "destroy"
    /\ unwinding' = TRUE
    /\ UNCHANGED <<transport_vars, auth_vars, lanes, locals, g_shutdown_requested,
                   stats_now>>

\* The objects are destroyed, the last one first; the transport is stopped again.
destroy ==
    /\ main = "destroy"
    /\ IF locals = <<>> THEN main' = "exited" /\ UNCHANGED locals
       ELSE IF Last(locals) = "transport" THEN main' = "stop" /\ UNCHANGED locals
       ELSE main' = "destroy" /\ locals' = Front(locals)
    /\ UNCHANGED <<transport_vars, auth_vars, lanes, unwinding, g_shutdown_requested,
                   stats_now>>

-----------------------------------------------------------------------------
(* The callback: IngressPipeline::submit in the receive thread             *)

Thread(from, to) ==
    /\ receive_thread = from /\ receive_thread' = to
    /\ UNCHANGED <<owner, receiver, peers, network, process>>

submit_refused ==
    /\ Thread("callback", "test")
    /\ IF frame.kind = "heartbeat" THEN UNCHANGED auth_vars ELSE verify_fails(frame)
    /\ UNCHANGED lanes

submit_find_key ==
    /\ Thread("callback", "verify")
    /\ frame.kind # "heartbeat"
    /\ get_public_key(frame)
    /\ UNCHANGED lanes

\* With a good signature the frame joins a lane, or is refused by the rate limit or a
\* full lane.
submit_verify(pushed) ==
    /\ Thread("verify", "test")
    /\ verified
    /\ \E ok \in VerdictOf(frame) :
          lanes' = IF ok /\ pushed THEN Append(lanes, frame) ELSE lanes

submit == submit_refused \/ submit_find_key \/ \E pushed \in BOOLEAN : submit_verify(pushed)

-----------------------------------------------------------------------------

MainStep ==
    \/ load_config \/ configure_ingress \/ start_transport \/ open_files \/ enter_loop
    \/ return_early
    \/ begin_turn \/ process_frame \/ end_turn \/ status \/ status_stats \/ leave_loop
    \/ stop \/ stopped \/ sync \/ destroy

ReceiveStep ==
    \/ receive_loop /\ UNCHANGED <<auth_vars, process, lanes>>
    \/ submit

Environment ==
    /\ tick \/ \E p \in Peers, d \in Datagrams : arrive(p, d)
    /\ UNCHANGED <<auth_vars, process, lanes>>

Next == MainStep \/ ReceiveStep \/ Environment \/ shutdown_signal \/ abort

Spec == Init /\ [][Next]_vars

\* Both threads run on.
FairSpec == Spec /\ WF_vars(MainStep) /\ WF_vars(ReceiveStep)

-----------------------------------------------------------------------------
(* Properties                                                              *)

ThreadRuns == receive_thread \notin {"none", "done"}

\* Where the two threads are, and the flags between them.
Places ==
    /\ main \in {"config", "configure", "start", "files", "chain_id", "run", "turn",
                 "stats", "stop", "join", "close", "sync", "destroy", "exited", "aborted"}
    /\ {running_, callback_, unwinding, g_shutdown_requested} \subseteq BOOLEAN
    /\ socket \in {"closed", "blocking", "timed"}
    /\ receive_thread \in {"none", "test", "recv", "peers", "parse", "callback", "verify", "done"}

ObjectNames == {"authenticator", "ingress", "transport", "wal", "snapshot", "api"}

\* The state has its type.
TypeOK ==
    /\ Places
    /\ ToSet(locals) \subseteq ObjectNames
    /\ frames_received_ + frames_malformed_ <= sent
    /\ buffer \in [1 .. BufferSize -> 0 .. sent]
    /\ DOMAIN peer_last_seen_ \subseteq Peers
    /\ \A p \in DOMAIN peer_last_seen_ : peer_last_seen_[p] \in 0 .. clock

\* On every way out of main, whatever the receive thread is doing: as long as it runs,
\* its socket, its transport and all that its callback uses exist (the key it found
\* before it gave up the authenticator's mutex, too), and nobody else
\* writes callback_ and socket_fd_; when main has ended there is neither thread nor
\* socket.
ThreadUsesLiveObjects ==
    /\ ThreadRuns => /\ {"transport", "ingress", "authenticator"} \subseteq ToSet(locals)
                     /\ socket # "closed" /\ callback_
                     /\ main # "close"
    /\ receive_thread = "verify" => key \in DOMAIN keys_
    /\ main = "exited" => socket = "closed" /\ receive_thread = "none" /\ locals = <<>>

OwnBytes(f) == \A i \in DOMAIN f.payload : f.payload[i] = f.number

\* The receive buffer is used again and again, a header may claim any length and any
\* account, and the key is found in one step and used in the next: the payload that
\* the callback gets was written by the frame's own datagram, to its last byte, and
\* what reaches the event loop is signed with the key of the account it names.
FramesGenuine ==
    /\ receive_thread \in {"callback", "verify"} =>
          frame.number = received.number /\ OwnBytes(frame)
    /\ \A i \in DOMAIN lanes :
          /\ OwnBytes(lanes[i])
          /\ lanes[i].kind # "heartbeat"
          /\ lanes[i].account = Account /\ lanes[i].signer = PublicKey

\* The peers noted within the window before time t.
Heard(t) == {p \in DOMAIN heard : t - heard[p] <= kPeerLivenessWindow}

\* Two threads expire peers, each with a clock that it read before it had the mutex:
\* still the status line counts every peer that was heard within the window by the
\* time of the count, and none that had been silent for longer when it asked.
PeersCounted ==
    main = "stats" => connections_active(stats_now)
                         \in Cardinality(Heard(clock)) .. Cardinality(Heard(stats_now))

\* A daemon that is told to shut down does so, though its receive thread may be
\* waiting for a datagram that never comes.
ShutdownCompletes == g_shutdown_requested ~> main \in {"exited", "aborted"}
=============================================================================
