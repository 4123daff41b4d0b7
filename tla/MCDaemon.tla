------------------------------ MODULE MCDaemon ------------------------------
(* Instances of Daemon for TLC. *)
EXTENDS Daemon

CONSTANTS a1, a2, k1, k2

Sent(len, magic, kind, payload_len, account, signer) ==
    [len |-> len, magic |-> magic, kind |-> kind, payload_len |-> payload_len,
     account |-> account, signer |-> signer]

\* Good and bad signatures, a heartbeat, an unknown account, and what does not parse:
\* an empty datagram, one shorter than its header says, other magic, other kinds.
SomeDatagrams ==
    {Sent(3, TRUE, "new", 2, a1, k1), Sent(2, TRUE, "new", 1, a1, k2),
     Sent(2, TRUE, "new", 2, a1, k1), Sent(1, TRUE, "heartbeat", 0, a1, k1),
     Sent(2, TRUE, "new", 1, a2, k2), Sent(1, TRUE, "new", 0, a1, k1),
     Sent(0, TRUE, "new", 0, a1, k1), Sent(1, FALSE, "new", 0, a1, k1),
     Sent(1, TRUE, "unknown", 0, a1, k1)}
=============================================================================
