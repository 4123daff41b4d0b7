----------------------------- MODULE MCRecovery -----------------------------
(* An instance of Recovery for TLC. *)
EXTENDS Recovery

\* Every second snapshot is compacted away.
OneRecord == [max_records |-> 1, max_file_bytes |-> 0]
=============================================================================
