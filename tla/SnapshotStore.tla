--------------------------- MODULE SnapshotStore ---------------------------
(***************************************************************************)
(* tradecore::snapshot::Store (libs/snapshot/src/snapshot_store.cpp): an   *)
(* append-only file of checksummed records, compacted by writing the       *)
(* newest ones to a temporary file that takes its place.                   *)
(*                                                                         *)
(* Each step of persist is an action, so that the process may die between  *)
(* any two of them.  The store keeps nothing in memory.  A record is known *)
(* by its number in the order of the calls of persist.                     *)
(***************************************************************************)
EXTENDS Integers, Sequences, SequencesExt, FiniteSetsExt

CONSTANTS Sizes,           \* encoded_record_size of the records
          Options,         \* StoreOptions: max_records and max_file_bytes; 0 is no limit
          PowerLoss,       \* whether the machine may lose its power
          MaxPersists, MaxCrashes,  \* bounds of the model
          NoFile

ASSUME SizesAssumption == Sizes \subseteq Nat \ {0}
ASSUME OptionsAssumption == Options \subseteq [max_records : Nat, max_file_bytes : Nat]
ASSUME PowerLossAssumption == PowerLoss \in BOOLEAN

\* What the file has of a record: all, some of the header, or the header and some of
\* the rest.
Parts == {"whole", "header", "body"}

Records == [n : Nat \ {0}, bytes : Sizes, part : Parts]

ASSUME NoFileAssumption == NoFile \notin Seq(Records)

VARIABLES options_,   \* the limits in force
          pc,         \* where persist is
          file,       \* snapshot.tc
          tmp,        \* snapshot.tc.tmp
          record,     \* the record that persist was given
          started,    \* how many calls of persist there were
          completed,  \* history: the record of the last call that returned
          fresh,      \* history: a call has returned, in this process and under these limits
          crashes     \* how often the process died

vars == <<options_, pc, file, tmp, record, started, completed, fresh, crashes>>

Init ==
    /\ options_ \in Options
    /\ pc = "idle"
    /\ file = NoFile /\ tmp = NoFile
    /\ record = 0
    /\ started = 0 /\ completed = 0
    /\ fresh = FALSE
    /\ crashes = 0

-----------------------------------------------------------------------------
(* Reading                                                                 *)

\* load_records succeeds.  A header that is cut short by the end of the file ends the
\* loop; whatever else is cut short fails a length, magic, version or checksum test.
Loads(f) ==
    \A i \in 1 .. Len(f) : f[i].part = "whole" \/ (f[i].part = "header" /\ i = Len(f))

\* The records of a file that Loads: a header that is cut short is none.
load_records(f) == IF f # <<>> /\ Last(f).part = "header" THEN Front(f) ELSE f

file_size(f) == FoldLeft(LAMBDA n, r : n + r.bytes, 0, f)

\* The number of the record that latest returns, or 0; it throws unless Loads(file).
latest ==
    IF file = NoFile \/ load_records(file) = <<>> THEN 0 ELSE Last(load_records(file)).n

-----------------------------------------------------------------------------
(* persist                                                                 *)

\* The new limits have no effect before the next call of persist.
set_options(o) ==
    /\ pc = "idle"
    /\ o # options_
    /\ options_' = o
    /\ fresh' = FALSE
    /\ UNCHANGED <<pc, file, tmp, record, started, completed, crashes>>

\* Mutant: opening the file empties it.
persist_truncates(bytes) ==
    /\ pc = "idle"
    /\ started < MaxPersists
    /\ pc' = "append"
    /\ file' = <<>>
    /\ started' = started + 1
    /\ record' = bytes
    /\ UNCHANGED <<options_, tmp, completed, fresh, crashes>>

\* The file is opened for appending, which creates it.
persist(bytes) ==
    /\ pc = "idle"
    /\ started < MaxPersists
    /\ pc' = "append"
    /\ file' = IF file = NoFile THEN <<>> ELSE file
    /\ started' = started + 1
    /\ record' = bytes
    /\ UNCHANGED <<options_, tmp, completed, fresh, crashes>>

NewRecord(part) == [n |-> started, bytes |-> record, part |-> part]

\* Mutant: the record is written twice.
flush_again ==
    /\ pc = "append"
    /\ file' = file \o <<NewRecord("whole"), NewRecord("whole")>>
    /\ pc' = "compact"
    /\ UNCHANGED <<options_, tmp, record, started, completed, fresh, crashes>>

\* write_record, and the flush of the stream.
flush ==
    /\ pc = "append"
    /\ file' = Append(file, NewRecord("whole"))
    /\ pc' = "compact"
    /\ UNCHANGED <<options_, tmp, record, started, completed, fresh, crashes>>

max_records == options_.max_records
max_file_bytes == options_.max_file_bytes

TooMany(f) == max_records > 0 /\ Len(f) > max_records
TooLarge(f) == max_file_bytes > 0 /\ file_size(f) > max_file_bytes
NoLimits == max_records = 0 /\ max_file_bytes = 0

return ==
    /\ pc' = "idle"
    /\ completed' = started
    /\ fresh' = TRUE
    /\ UNCHANGED <<options_, record, started, crashes>>

\* Without limits compact_if_needed does not look at the file.
compact_unlimited ==
    /\ pc = "compact"
    /\ NoLimits
    /\ return
    /\ UNCHANGED <<file, tmp>>

\* Within the limits it has nothing to do.
compact_not_needed ==
    /\ pc = "compact"
    /\ ~ NoLimits
    /\ Loads(file)
    /\ ~ TooMany(load_records(file)) /\ ~ TooLarge(file)
    /\ return
    /\ UNCHANGED <<file, tmp>>

\* load_records throws; nothing catches it, and the daemon terminates.
compact_throws ==
    /\ pc = "compact"
    /\ ~ NoLimits
    /\ ~ Loads(file)
    /\ pc' = "down"
    /\ crashes' = crashes + 1
    /\ UNCHANGED <<options_, file, tmp, record, started, completed, fresh>>

\* The records from the start-th on.
From(f, start) == SubSeq(f, start, Len(f))

\* Mutant: the size limit may drop the last record too.
Kept_none(f) ==
    LET first == IF TooMany(f) THEN Len(f) - max_records + 1 ELSE 1
        fits == {i \in first .. Len(f) + 1 : ~ TooLarge(From(f, i))}
    IN  From(f, Min(fits))

\* Mutant: one record more than max_records is kept.
Kept_one_more(f) ==
    LET first == IF TooMany(f) THEN Len(f) - max_records ELSE 1
        fits == {i \in first .. Len(f) : ~ TooLarge(From(f, i))}
    IN  From(f, Min(fits \cup {Len(f)}))

\* The newest records within both limits, and the last one in any case.
Kept(f) ==
    LET first == IF TooMany(f) THEN Len(f) - max_records + 1 ELSE 1
        fits == {i \in first .. Len(f) : ~ TooLarge(From(f, i))}
    IN  From(f, Min(fits \cup {Len(f)}))

\* The temporary file is written.
compact_write ==
    /\ pc = "compact"
    /\ Loads(file)
    /\ TooMany(load_records(file)) \/ TooLarge(file)
    /\ tmp' = Kept(load_records(file))
    /\ pc' = "remove"
    /\ UNCHANGED <<options_, file, record, started, completed, fresh, crashes>>

compact_remove ==
    /\ pc = "remove"
    /\ file' = NoFile
    /\ pc' = "rename"
    /\ UNCHANGED <<options_, tmp, record, started, completed, fresh, crashes>>

compact_rename ==
    /\ pc = "rename"
    /\ file' = tmp
    /\ tmp' = NoFile
    /\ return

-----------------------------------------------------------------------------
(* Crashes                                                                 *)

\* What may be left of a sequence of records: a part of it from the start.
Cuts(f) ==
    {SubSeq(f, 1, i) : i \in 0 .. Len(f)}
    \cup {Append(SubSeq(f, 1, i - 1), [f[i] EXCEPT !.part = part]) :
             i \in 1 .. Len(f), part \in {"header", "body"}}

Die ==
    /\ pc # "down"
    /\ crashes < MaxCrashes
    /\ crashes' = crashes + 1
    /\ pc' = "down"
    /\ UNCHANGED <<options_, record, started, completed, fresh>>

\* The process dies: what it has written stays, and of what it was writing some bytes
\* may.
kill ==
    /\ Die
    /\ IF pc = "append"
       THEN \E part \in Parts : file' \in {file, Append(file, NewRecord(part))}
       ELSE UNCHANGED file
    /\ \/ UNCHANGED tmp
       \/ pc = "compact" /\ Loads(file) /\ (TooMany(load_records(file)) \/ TooLarge(file))
          /\ tmp' \in Cuts(Kept(load_records(file)))

\* The machine dies: nothing was ever synced, so the end of the file may be gone.
power_loss ==
    /\ PowerLoss
    /\ Die
    /\ file # NoFile
    /\ file' \in Cuts(file)
    /\ UNCHANGED tmp

\* The process ends between two calls.
exit ==
    /\ pc = "idle"
    /\ pc' = "down"
    /\ UNCHANGED <<options_, file, tmp, record, started, completed, fresh, crashes>>

restart ==
    /\ pc = "down"
    /\ pc' = "idle"
    /\ fresh' = FALSE
    /\ UNCHANGED <<options_, file, tmp, record, started, completed, crashes>>

-----------------------------------------------------------------------------

Next ==
    \/ \E o \in Options : set_options(o)
    \/ \E bytes \in Sizes : persist(bytes)
    \/ flush \/ compact_unlimited \/ compact_not_needed \/ compact_throws
    \/ compact_write \/ compact_remove \/ compact_rename
    \/ kill \/ power_loss \/ exit \/ restart

Spec == Init /\ [][Next]_vars

-----------------------------------------------------------------------------
(* Properties                                                              *)

Ascending(f) == \A i \in 1 .. Len(f) - 1 : f[i].n < f[i + 1].n

\* The state has its type, and the file's records are in the order of the calls.
TypeOK ==
    /\ options_ \in Options
    /\ pc \in {"idle", "append", "compact", "remove", "rename", "down"}
    /\ file \in Seq(Records) \cup {NoFile} /\ tmp \in Seq(Records) \cup {NoFile}
    /\ record \in Sizes \cup {0}
    /\ started \in Nat /\ completed \in 0 .. started /\ fresh \in BOOLEAN
    /\ file # NoFile => Ascending(file)

\* The last record of f is whole, and has number n.
EndsWith(f, n) == f # NoFile /\ f # <<>> /\ f[Len(f)].part = "whole" /\ f[Len(f)].n = n

\* A call of persist that returned has done its work: its record is the last of the
\* file, and what latest returns, whatever compaction dropped and whatever an earlier
\* process left in the file.  Only a store without limits, which never reads what it
\* appends to, may have put it behind a torn record, where latest throws.
LatestIsPersisted ==
    (pc = "idle" /\ fresh) =>
        /\ EndsWith(file, completed)
        /\ Loads(file) => latest = completed
        /\ Loads(file) \/ NoLimits

Limited(f) == ~ TooMany(f) /\ (TooLarge(f) => Len(f) = 1)

\* A call of persist that returned leaves a file within both limits, but for one
\* record that is larger than the limit by itself.
WithinLimits ==
    (pc = "idle" /\ fresh) => Limited(file)

\* The snapshot of the last call that returned, or a later one, is on the disk.
Held ==
    completed = 0 \/ \E f \in {file, tmp} \ {NoFile} :
        \E i \in 1 .. Len(f) : f[i].part = "whole" /\ f[i].n >= completed

\* Wherever in persist or in compaction the process dies, the last snapshot that was
\* stored, or a later one, is still on the disk.  Between the removal of the file and
\* the renaming of the temporary one, and after a crash there, it is in the temporary
\* file, where latest does not look for it.
SnapshotKept == [][Held => Held' \/ power_loss]_vars

-----------------------------------------------------------------------------
(* The inductive invariant: what the file and the temporary file hold at   *)
(* each step of persist.                                                   *)

AllWhole(f) == \A i \in 1 .. Len(f) : f[i].part = "whole"

\* f is what compaction leaves.
Compacted(f) ==
    /\ EndsWith(f, started) /\ AllWhole(f) /\ Ascending(f) /\ Limited(f)
    /\ \A i \in 1 .. Len(f) : f[i].n <= started

Numbered ==
    file # NoFile =>
        \A i \in 1 .. Len(file) : IF pc = "append" THEN file[i].n < started
                                                   ELSE file[i].n <= started

Inv ==
    /\ TypeOK
    /\ Numbered
    /\ pc = "append" => file # NoFile /\ record \in Sizes /\ started > 0
    /\ pc \in {"compact", "remove"} => EndsWith(file, started)
    /\ pc \in {"remove", "rename"} => Compacted(tmp)
    /\ pc = "idle" /\ fresh =>
          /\ EndsWith(file, completed) /\ Limited(file)
          /\ AllWhole(file) \/ NoLimits
=============================================================================
