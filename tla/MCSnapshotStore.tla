-------------------------- MODULE MCSnapshotStore --------------------------
(* An instance of SnapshotStore for TLC. *)
EXTENDS SnapshotStore

\* Both limits, of which the second is below the largest record; and none.
LimitsAndNone == {[max_records |-> 2, max_file_bytes |-> 5],
                  [max_records |-> 0, max_file_bytes |-> 0]}
=============================================================================
