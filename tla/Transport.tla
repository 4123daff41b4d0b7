----------------------------- MODULE Transport -----------------------------
(***************************************************************************)
(* tradecore::ingest::UdpTransport (libs/ingest/src/transport.cpp), which  *)
(* QuicTransport wraps: a socket, a thread that receives from it, and a    *)
(* table of the peers heard lately.  The owner's thread calls start, stop  *)
(* and stats; Daemon composes the steps of both threads.                   *)
(*                                                                         *)
(* A datagram is its length, what its header says, and who signed it.  The *)
(* receive buffer is used again for every datagram: of each byte the model *)
(* keeps which datagram wrote it.                                          *)
(***************************************************************************)
EXTENDS Integers, Sequences, FiniteSets, Functions

CONSTANTS Peers,
          Datagrams,            \* what peers send
          HeaderSize,           \* sizeof(WireHeader)
          BufferSize,           \* kMaxDatagramSize
          kPeerLivenessWindow,
          MaxDatagrams,         \* bound: datagrams that arrive
          MaxTime,              \* bound: the clock
          NoFrame

ASSUME SizesAssumption ==
    /\ HeaderSize \in Nat /\ BufferSize \in Nat
    /\ \A d \in Datagrams : d.len \in 0 .. BufferSize /\ d.payload_len \in Nat
    /\ kPeerLivenessWindow \in Nat

VARIABLES running_, socket, callback_,
          receive_thread,   \* where the thread is
          inbox,            \* the datagrams in the socket
          buffer, received, \* buffer, and the datagram that recvfrom returned
          now,              \* receive_loop's now
          frame,            \* the frame handed to the callback
          bytes_received_, frames_received_, frames_malformed_,
          peer_last_seen_,
          clock,            \* steady_clock
          sent,             \* how many datagrams arrived
          heard             \* history: when each peer was last noted

receiver == <<buffer, received, now, frame, bytes_received_, frames_received_,
              frames_malformed_>>
network == <<inbox, clock, sent>>
owner == <<running_, socket, callback_>>
peers == <<peer_last_seen_, heard>>
transport_vars == <<owner, receive_thread, receiver, peers, network>>

Counters == <<bytes_received_, frames_received_, frames_malformed_>>

TransportInit ==
    /\ running_ = FALSE /\ socket = "closed" /\ callback_ = FALSE
    /\ receive_thread = "none"
    /\ inbox = <<>> /\ sent = 0 /\ clock = 0
    /\ buffer = [i \in 1 .. BufferSize |-> 0]
    /\ received = NoFrame /\ now = 0 /\ frame = NoFrame
    /\ bytes_received_ = 0 /\ frames_received_ = 0 /\ frames_malformed_ = 0
    /\ peer_last_seen_ = <<>> /\ heard = <<>>

-----------------------------------------------------------------------------
(* The owner's calls                                                       *)

\* Mutant: the socket has no receive timeout.
start_without_timeout ==
    /\ ~ running_
    /\ running_' = TRUE /\ callback_' = TRUE
    /\ socket' = "blocking"
    /\ receive_thread' = "test"
    /\ UNCHANGED <<receiver, peers, network>>

\* start: the socket is bound and gets its receive timeout, then the thread starts.
start ==
    /\ ~ running_
    /\ running_' = TRUE /\ callback_' = TRUE
    /\ socket' = "timed"
    /\ receive_thread' = "test"
    /\ UNCHANGED <<receiver, peers, network>>

\* start returns false: the address is malformed (then callback_ is not set), or there
\* is no socket for it.
start_fails ==
    /\ callback_' \in BOOLEAN
    /\ UNCHANGED <<running_, socket, receive_thread, receiver, peers, network>>

\* The three steps of stop.
stop_flag ==
    /\ running_' = FALSE
    /\ UNCHANGED <<socket, callback_, receive_thread, receiver, peers, network>>

stop_join ==
    /\ receive_thread \in {"none", "done"}
    /\ receive_thread' = "none"
    /\ UNCHANGED <<owner, receiver, peers, network>>

stop_close ==
    /\ socket' = "closed" /\ callback_' = FALSE
    /\ peer_last_seen_' = <<>> /\ heard' = <<>>
    /\ inbox' = <<>>
    /\ UNCHANGED <<running_, receive_thread, receiver, clock, sent>>

\* Mutant: a peer is dropped when its time is just up.
Live_strictly(seen, t) ==
    Restrict(seen, {p \in DOMAIN seen : t - seen[p] < kPeerLivenessWindow})

\* The loop that erases the peers not heard for longer than the window.
Live(seen, t) ==
    Restrict(seen, {p \in DOMAIN seen : ~ (t - seen[p] > kPeerLivenessWindow)})

\* What stats counts.
connections_active(t) == Cardinality(DOMAIN Live(peer_last_seen_, t))

\* stats, for an owner who read the clock at time t.
stats(t) ==
    /\ peer_last_seen_' = Live(peer_last_seen_, t)
    /\ UNCHANGED <<heard, owner, receive_thread, receiver, network>>

-----------------------------------------------------------------------------
(* receive_loop                                                            *)

\* The loop's condition; the variables of the last turn are gone.
loop_test ==
    /\ receive_thread = "test"
    /\ receive_thread' = IF running_ THEN "recv" ELSE "done"
    /\ received' = NoFrame /\ now' = 0 /\ frame' = NoFrame
    /\ UNCHANGED <<owner, buffer, Counters, peers, network>>

recv_timeout ==
    /\ receive_thread = "recv"
    /\ inbox = <<>> /\ socket = "timed"
    /\ receive_thread' = "test"
    /\ UNCHANGED <<owner, receiver, peers, network>>

\* recvfrom returns a datagram; an empty one is passed over.
recv_datagram ==
    /\ receive_thread = "recv"
    /\ inbox # <<>>
    /\ inbox' = Tail(inbox)
    /\ received' = Head(inbox)
    /\ buffer' = [i \in 1 .. BufferSize |->
                    IF i <= received'.len THEN received'.number ELSE buffer[i]]
    /\ bytes_received_' = bytes_received_ + received'.len
    /\ IF received'.len = 0
       THEN receive_thread' = "test" /\ UNCHANGED now
       ELSE receive_thread' = "peers" /\ now' = clock
    /\ UNCHANGED <<owner, frame, frames_received_, frames_malformed_,
                   peers, clock, sent>>

\* An entry of a peer, new or not.
Noted(seen, p, t) == [q \in DOMAIN seen \cup {p} |-> IF q = p THEN t ELSE seen[q]]

\* Under peers_mutex_, with a time read before it was taken.
note_peer ==
    /\ receive_thread = "peers"
    /\ peer_last_seen_' = Live(Noted(peer_last_seen_, received.peer, now), now)
    /\ heard' = Noted(heard, received.peer, now)
    /\ receive_thread' = "parse"
    /\ UNCHANGED <<owner, receiver, network>>

\* Mutant: the length that the header claims is believed.
Parses_any_length(d) ==
    /\ d.len >= HeaderSize
    /\ d.magic
    /\ d.kind # "unknown"

\* The checks of parse_frame; magic stands for magic number and version.
Parses(d) ==
    /\ d.len >= HeaderSize
    /\ d.magic
    /\ d.len >= HeaderSize + d.payload_len
    /\ d.kind # "unknown"

\* The frame has the header's fields and a copy of the bytes behind the header.
Frame(d) ==
    [number |-> d.number, kind |-> d.kind, account |-> d.account, signer |-> d.signer,
     payload |-> [i \in 1 .. d.payload_len |-> buffer[HeaderSize + i]]]

parse_frame ==
    /\ receive_thread = "parse"
    /\ Parses(received)
    /\ frame' = Frame(received)
    /\ frames_received_' = frames_received_ + 1
    /\ receive_thread' = IF callback_ THEN "callback" ELSE "test"
    /\ UNCHANGED <<owner, buffer, received, now, bytes_received_, frames_malformed_,
                   peers, network>>

\* Mutant: a frame that does not parse is tried again.
parse_fails_again ==
    /\ receive_thread = "parse"
    /\ ~ Parses(received)
    /\ frames_malformed_' = frames_malformed_ + 1
    /\ UNCHANGED <<owner, receive_thread, buffer, received, now, frame, bytes_received_,
                   frames_received_, peers, network>>

parse_fails ==
    /\ receive_thread = "parse"
    /\ ~ Parses(received)
    /\ frames_malformed_' = frames_malformed_ + 1
    /\ receive_thread' = "test"
    /\ UNCHANGED <<owner, buffer, received, now, frame, bytes_received_, frames_received_,
                   peers, network>>

receive_loop ==
    loop_test \/ recv_timeout \/ recv_datagram \/ note_peer \/ parse_frame \/ parse_fails

-----------------------------------------------------------------------------
(* The network and the clock                                               *)

\* Datagram d of peer p, the n-th that arrives.
Packet(p, d, n) ==
    [number |-> n, peer |-> p, len |-> d.len, magic |-> d.magic, kind |-> d.kind,
     payload_len |-> d.payload_len, account |-> d.account, signer |-> d.signer]

\* A datagram reaches the socket, whoever sent it, whatever it is.
arrive(p, d) ==
    /\ socket # "closed"
    /\ sent < MaxDatagrams
    /\ sent' = sent + 1
    /\ inbox' = Append(inbox, Packet(p, d, sent'))
    /\ UNCHANGED <<owner, receive_thread, receiver, peers, clock>>

tick ==
    /\ clock < MaxTime
    /\ clock' = clock + 1
    /\ UNCHANGED <<owner, receive_thread, receiver, peers, inbox, sent>>
=============================================================================
