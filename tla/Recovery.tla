------------------------------ MODULE Recovery ------------------------------
(***************************************************************************)
(* One daemon after the other on the same files: the event loop logs       *)
(* (WalWriter), publishes what it logged (ApiRouter) and persists          *)
(* snapshots (SnapshotStore); the process ends or dies at any step of any  *)
(* of them; the next one opens the log; and replay::Driver                 *)
(* (libs/replay/src/replay_driver.cpp) reads the files.                    *)
(*                                                                         *)
(* A frame is known by its number in the order of processing, and the      *)
(* books by the frames that were applied to them.  A snapshot is its label *)
(* and a block number and has no books in it; what the books held when it  *)
(* was taken is kept as a history.  The daemon starts with empty books: it *)
(* configures a replay driver and never executes it.                       *)
(***************************************************************************)
EXTENDS WalWriter, ApiRouter

CONSTANTS SnapshotInterval,   \* kSnapshotInterval
          MaxLabel,           \* the largest SequenceId, 2^32 - 1
          SnapshotOptions,    \* StoreOptions of the daemon
          SnapshotSize,       \* encoded_record_size of its snapshots
          MaxFills,           \* bound: fills of one process
          MaxPersists,        \* bound: snapshots in a behaviour
          NoFile

ASSUME IntervalAssumption == SnapshotInterval \in Nat
ASSUME LabelAssumption == MaxLabel \in Nat \ {0}
ASSUME OptionsAssumption == SnapshotOptions \in [max_records : Nat, max_file_bytes : Nat]

VARIABLES turn,       \* where the event loop is
          state,      \* the frames that this process has applied to its books
          processed, block_number, last_snapshot_block,
          persisted,  \* the label and the payload given to each call of persist
          store_pc, store_file, store_tmp, store_record, store_completed, store_fresh,
          frames,     \* history: how many frames there were
          birth,      \* history: how many of them came before this process
          covered,    \* history: what the books held at each call of persist
          restarted   \* history: the files are not those of a first process any more

loop == <<turn, state, processed, block_number, last_snapshot_block>>
store_vars == <<store_pc, store_file, store_tmp, store_record, store_completed, store_fresh>>
snapshots == <<persisted, covered>>
history == <<frames, birth, restarted>>
recovery_vars == <<vars, router_vars, loop, snapshots, store_vars, history>>

\* The daemon's snapshot store; it dies with the process.  Its n-th record has what
\* the n-th call of persist was given.
Store == INSTANCE SnapshotStore
         WITH Sizes <- {SnapshotSize}, Options <- {SnapshotOptions}, PowerLoss <- TRUE,
              options_ <- SnapshotOptions, pc <- store_pc, file <- store_file,
              tmp <- store_tmp, record <- store_record, started <- Len(persisted),
              completed <- store_completed, fresh <- store_fresh

ASSUME NoFileAssumption == NoFile \notin Seq(Store!Records)

RecoveryInit ==
    /\ Init /\ RouterInit
    /\ turn = "idle"
    /\ persisted = <<>> /\ covered = <<>> /\ state = <<>>
    /\ Store!Init
    /\ processed = 0 /\ block_number = 0 /\ last_snapshot_block = 0
    /\ frames = 0 /\ birth = 0 /\ restarted = FALSE

-----------------------------------------------------------------------------
(* The event loop                                                          *)

\* A frame is appended to the log ...
process_frame ==
    /\ turn = "idle" /\ turn' = "feed"
    /\ frames + 1 \in Values
    /\ append(frames + 1)
    /\ frames' = frames + 1
    /\ processed' = processed + 1
    /\ UNCHANGED <<router_vars, snapshots, store_vars, state, block_number,
                   last_snapshot_block, birth, restarted>>

\* wal_offset, the number that append returned.
wal_offset == next_sequence - 1

\* Mutant: the number that the next record will get.
push_feed_next ==
    /\ turn = "feed" /\ turn' = "fills"
    /\ pc = "idle"
    /\ push_express_feed_frame(next_sequence, frames)
    /\ state' = Append(state, frames)
    /\ UNCHANGED <<vars, snapshots, store_vars, processed, block_number,
                   last_snapshot_block, history>>

\* ... then published, and applied to the books ...
push_feed ==
    /\ turn = "feed" /\ turn' = "fills"
    /\ pc = "idle"
    /\ push_express_feed_frame(wal_offset, frames)
    /\ state' = Append(state, frames)
    /\ UNCHANGED <<vars, snapshots, store_vars, processed, block_number,
                   last_snapshot_block, history>>

\* ... with a metadata record for each of its fills.
push_fill ==
    /\ turn = "fills" /\ Len(fills) < MaxFills
    /\ push_trade_metadata(wal_offset)
    /\ UNCHANGED <<vars, loop, snapshots, store_vars, history>>

end_frame ==
    /\ turn = "fills" /\ turn' = "idle"
    /\ UNCHANGED <<vars, router_vars, snapshots, store_vars, state, processed,
                   block_number, last_snapshot_block, history>>

\* Mutant: a turn is a block.
new_block_per_turn == block_number + 1

new_block == block_number + processed

SnapshotDue == new_block - last_snapshot_block >= SnapshotInterval

\* The end of a turn that processed something.
end_turn ==
    /\ turn = "idle" /\ pc = "idle"
    /\ processed > 0 /\ processed' = 0
    /\ block_number' = new_block
    /\ ~ SnapshotDue
    /\ UNCHANGED <<vars, router_vars, snapshots, store_vars, turn, state,
                   last_snapshot_block, history>>

\* Mutant: the label is not clamped, and loses what does not fit its type.
label_narrowed(block) == block % (MaxLabel + 1)

label(block) == IF block <= MaxLabel THEN block ELSE MaxLabel

\* The same with a snapshot, which starts the call of persist.
start_snapshot ==
    /\ turn = "idle" /\ turn' = "persist" /\ pc = "idle"
    /\ processed > 0 /\ processed' = 0
    /\ block_number' = new_block
    /\ SnapshotDue
    /\ last_snapshot_block' = new_block
    /\ persisted' = Append(persisted, [sequence |-> label(new_block), block_number |-> new_block])
    /\ covered' = Append(covered, state)
    /\ Store!persist(SnapshotSize)
    /\ UNCHANGED <<vars, router_vars, state, history>>

\* The steps of persist, until it returns.
continue_snapshot ==
    /\ turn = "persist"
    /\ UNCHANGED <<vars, router_vars, snapshots, state, processed, block_number,
                   last_snapshot_block, history>>
    /\ \/ Store!flush
       \/ Store!compact_unlimited \/ Store!compact_not_needed
       \/ Store!compact_write \/ Store!compact_remove \/ Store!compact_rename
    /\ turn' = IF store_pc' = "idle" THEN "idle" ELSE "persist"

\* Writer::flush, inside append or sync, and fsync.
write_log ==
    /\ flush \/ fsync
    /\ UNCHANGED <<router_vars, loop, snapshots, store_vars, history>>

\* The loop has ended: wal.sync, and then the destructors.
shut_down ==
    /\ turn = "idle" /\ processed = 0
    /\ sync
    /\ turn' = "stopped"
    /\ UNCHANGED <<router_vars, snapshots, store_vars, state, processed, block_number,
                   last_snapshot_block, history>>

-----------------------------------------------------------------------------
(* The end of a process and the start of the next                          *)

\* What lives in memory is gone.
Gone ==
    /\ turn' = "idle"
    /\ state' = <<>> /\ processed' = 0 /\ block_number' = 0 /\ last_snapshot_block' = 0
    /\ NewRouter(1)

exit == turn = "stopped" /\ UNCHANGED <<snapshots, history>> /\ close /\ Store!exit /\ Gone

\* Also inside persist, which may leave a torn snapshot, or none where latest looks.
die == UNCHANGED <<snapshots, history>> /\ kill /\ Store!kill /\ Gone

\* An exception of the store ends the process as well.
snapshot_throws ==
    UNCHANGED <<snapshots, history>> /\ kill /\ Store!compact_throws /\ Gone

\* Snapshots are not synced.
lose_power ==
    /\ UNCHANGED <<snapshots, history>>
    /\ power_loss /\ Gone
    /\ Store!power_loss \/ Store!kill

\* A new process continues the log's sequence, and nothing else.
restart ==
    /\ UNCHANGED <<loop, snapshots, frames>>
    /\ open /\ Store!restart
    /\ NewRouter(next_sequence')
    /\ birth' = frames
    /\ restarted' = TRUE

restart_fails ==
    open_fails /\ UNCHANGED <<router_vars, loop, snapshots, store_vars, history>>

poll ==
    (poll_feed \/ poll_metadata) /\ UNCHANGED <<vars, loop, snapshots, store_vars, history>>

RecoveryNext ==
    \/ process_frame \/ push_feed \/ push_fill \/ end_frame
    \/ end_turn \/ start_snapshot \/ continue_snapshot
    \/ write_log \/ shut_down \/ exit \/ die \/ snapshot_throws \/ lose_power
    \/ restart \/ restart_fails
    \/ poll

RecoverySpec == RecoveryInit /\ [][RecoveryNext]_recovery_vars

-----------------------------------------------------------------------------
(* Driver::execute                                                         *)

\* Store::latest throws.
LatestThrows == store_file # NoFile /\ ~ Store!Loads(store_file)

HasSnapshot == Store!latest # 0

snap == persisted[Store!latest]

\* Mutant: the record that the snapshot covers last is replayed.
resume_from_same == IF HasSnapshot THEN snap.sequence ELSE 1

\* A SequenceId, which wraps around.
resume_from == IF HasSnapshot THEN (snap.sequence + 1) % (MaxLabel + 1) ELSE 1

\* The frames that the event handler gets when Reader::next returns the first n parts
\* of the file.
execute(n) ==
    LET events == Selection(file, {i \in 1 .. n : file[i].sequence >= resume_from})
    IN  [i \in DOMAIN events |-> events[i].value]

-----------------------------------------------------------------------------
(* Properties                                                              *)

\* The state has its type, that of the writer and of the store too; the books hold
\* the frames of this process, in order.
RecoveryTypeOK ==
    /\ TypeOK
    /\ turn \in {"idle", "feed", "fills", "persist", "stopped"}
    /\ \A i \in 1 .. Len(state) : state[i] = birth + i
    /\ birth + Len(state) <= frames
    /\ Len(persisted) = Len(covered)
    /\ \A i \in 1 .. Len(persisted) : persisted[i].sequence \in 0 .. MaxLabel
    /\ store_file # NoFile =>
          \A i \in 1 .. Len(store_file) : store_file[i].n \in 1 .. Len(persisted)
    /\ Len(express_feed_frames_) <= express_feed_capacity
    /\ Len(trade_metadata_) <= trade_metadata_capacity

\* What the snapshot that latest returns stood for when it was taken; nothing, if it
\* returns none.
Covered == IF HasSnapshot THEN covered[Store!latest] ELSE <<>>

\* The snapshot is from this process, or there is none.
OwnSnapshot == HasSnapshot => Covered[1] > birth

\* A replay of the files as they are after any step, inside persist and after a crash
\* too, with the snapshot that latest finds, the last one, an older one or none.
\* Every frame that the process logged is covered by its snapshot or replayed.  Until
\* a daemon has been restarted, and below the largest label, each frame is so exactly
\* once, in the order of processing, and all that the log has: also when the snapshot
\* is ahead of the log, when the log is ahead of the snapshot, and when the crash tore
\* a record.  Where latest or the reader throws, the replay does.
ReplayRebuilds ==
    ~ LatestThrows =>
        \A n \in 0 .. Len(file) :
            Reads(file, n) /\ ~ Throws(file, n) =>
                LET rebuilt == Covered \o execute(n)
                IN  /\ OwnSnapshot =>
                           \A i \in 1 .. n : file[i].value > birth =>
                               \E k \in 1 .. Len(rebuilt) : rebuilt[k] = file[i].value
                    /\ ~ restarted /\ (HasSnapshot => snap.sequence < MaxLabel) =>
                          /\ \A k \in 1 .. Len(rebuilt) : rebuilt[k] = k
                          /\ \A i \in 1 .. Len(file) : IsRecord(file[i]) => i <= Len(rebuilt)

InLog(r) == \E i \in 1 .. Len(Log) : /\ IsRecord(Log[i])
                                     /\ Log[i].sequence = r.wal_offset
                                     /\ Log[i].value = r.payload

\* While a process runs, on whatever log its predecessors left: what the feed shows
\* under an offset is the log's record of that number, if only in the writer's
\* buffer; and a reader who found each reply to start where its last one ended has
\* the record of every number since it came.
FeedMatchesLog ==
    Running =>
        /\ \A i \in 1 .. Len(express_feed_frames_) : InLog(express_feed_frames_[i])
        /\ \A i \in 1 .. Len(feed_reader.got) : InLog(feed_reader.got[i])
        /\ ~ feed_reader.missed =>
              \A i \in 1 .. Len(feed_reader.got) :
                  feed_reader.got[i].wal_offset = feed_reader.next - Len(feed_reader.got) + i - 1

\* Fills of one order share an offset, and a reader may ask between two of them.  One
\* who asks again from the last offset on, passes over the records it has of it, and
\* comes before the router has dropped them, has every fill once, in order.
MetadataComplete ==
    ~ metadata_reader.late => IsPrefix(metadata_reader.got, fills)
=============================================================================
