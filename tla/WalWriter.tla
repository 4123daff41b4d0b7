----------------------------- MODULE WalWriter -----------------------------
(***************************************************************************)
(* tradecore::wal::Writer and Reader (libs/wal/src/wal_writer.cpp), as the *)
(* daemon uses them: every frame is appended, and the log is opened again  *)
(* after a crash.  Records collect in buffer_, flush hands them to the     *)
(* operating system, and only fsync makes them survive a loss of power.    *)
(*                                                                         *)
(* The file is a sequence of parts: whole records, and what a crash left   *)
(* of one, cut inside its header or inside its payload.  The daemon's      *)
(* payloads are never empty and longer than a header, so that a reader who *)
(* takes later bytes for the rest of a header ends with an exception.      *)
(***************************************************************************)
EXTENDS Integers, Sequences

CONSTANTS Values,          \* payloads
          RecordSize,      \* bytes of a record
          FlushThreshold,  \* flush_threshold_bytes
          MaxSequence,     \* bound: sequence numbers handed out
          MaxCrashes       \* bound: how often the process dies

ASSUME SizeAssumption == RecordSize \in Nat
ASSUME ThresholdAssumption == FlushThreshold \in Nat

VARIABLES pc,             \* where the process is
          buffer,         \* buffer_
          next_sequence,  \* next_sequence_
          file,           \* the parts that the operating system has
          synced,         \* how many of them survive a loss of power
          crashes         \* how often the process died

vars == <<pc, buffer, next_sequence, file, synced, crashes>>

Records == [part : {"record"}, sequence : Nat, value : Values]

Torn == {[part |-> "header"], [part |-> "payload"]}

Init ==
    /\ pc = "idle"
    /\ buffer = <<>>
    /\ next_sequence = 1
    /\ file = <<>>
    /\ synced = 0
    /\ crashes = 0

-----------------------------------------------------------------------------
(* Reader::next                                                            *)

IsRecord(c) == c.part = "record"

\* n calls of next return the first n parts, and the one after returns no record.
Reads(f, n) ==
    /\ \A i \in 1 .. n : IsRecord(f[i])
    /\ n < Len(f) => ~ IsRecord(f[n + 1])

\* Mutant: whatever is no record is taken for the end of the log.
Throws_never(f, n) == FALSE

\* An incomplete header at the end of the file is the end of the log.  With
\* something after it, or with an incomplete payload, the call of next throws.
Throws(f, n) == n < Len(f) /\ (f[n + 1].part = "payload" \/ n + 1 < Len(f))

-----------------------------------------------------------------------------
(* Writer                                                                  *)

\* Mutant: an empty log starts with number 0.
Recovered_from_zero(f, n) == IF n = 0 THEN 0 ELSE f[n].sequence + 1

\* next_sequence_ when ensure_open has read n records.
Recovered(f, n) == IF n = 0 THEN 1 ELSE f[n].sequence + 1

\* The constructor: the file is opened for appending whatever its last part is.
open ==
    /\ pc = "down"
    /\ \E n \in 0 .. Len(file) :
          /\ Reads(file, n) /\ ~ Throws(file, n)
          /\ next_sequence' = Recovered(file, n)
    /\ pc' = "idle"
    /\ UNCHANGED <<buffer, file, synced, crashes>>

\* The constructor throws, and tradecored ends.
open_fails ==
    /\ pc = "down"
    /\ \E n \in 0 .. Len(file) : Reads(file, n) /\ Throws(file, n)
    /\ pc' = "failed"
    /\ UNCHANGED <<buffer, next_sequence, file, synced, crashes>>

\* The record gets the next number and joins the buffer, which is flushed when it is
\* large.
append(v) ==
    /\ pc = "idle" /\ next_sequence <= MaxSequence
    /\ buffer' = Append(buffer, [part |-> "record", sequence |-> next_sequence,
                                 value |-> v])
    /\ next_sequence' = next_sequence + 1
    /\ pc' = IF Len(buffer') * RecordSize >= FlushThreshold THEN "flush" ELSE "idle"
    /\ UNCHANGED <<file, synced, crashes>>

\* sync, at shutdown: flush, then fsync.
sync ==
    /\ pc = "idle"
    /\ pc' = "flush_sync"
    /\ UNCHANGED <<buffer, next_sequence, file, synced, crashes>>

\* Mutant: the buffer is written and not cleared.
flush_keeps_buffer ==
    /\ pc \in {"flush", "flush_sync"}
    /\ file' = file \o buffer
    /\ pc' = IF pc = "flush" THEN "idle" ELSE "fsync"
    /\ UNCHANGED <<buffer, next_sequence, synced, crashes>>

\* fwrite and fflush of the whole buffer.
flush ==
    /\ pc \in {"flush", "flush_sync"}
    /\ file' = file \o buffer
    /\ buffer' = <<>>
    /\ pc' = IF pc = "flush" THEN "idle" ELSE "fsync"
    /\ UNCHANGED <<next_sequence, synced, crashes>>

fsync ==
    /\ pc = "fsync"
    /\ synced' = Len(file)
    /\ pc' = "idle"
    /\ UNCHANGED <<buffer, next_sequence, file, crashes>>

\* The destructor, at the end of main: flush and fclose.
close ==
    /\ pc = "idle"
    /\ file' = file \o buffer
    /\ buffer' = <<>>
    /\ next_sequence' = 0
    /\ pc' = "down"
    /\ UNCHANGED <<synced, crashes>>

\* What may be left of part c when only some of its bytes are kept.
Cut(c) == IF c.part = "header" THEN {[part |-> "header"]} ELSE Torn

\* What may be left of parts f when the first n are safe.
Leftovers(f, n) ==
    {SubSeq(f, 1, i) : i \in n .. Len(f)} \cup
    UNION {{Append(SubSeq(f, 1, i), t) : t \in Cut(f[i + 1])} : i \in n .. Len(f) - 1}

\* The file as a flush that is under way will leave it.
Flushing == IF pc \in {"flush", "flush_sync"} THEN file \o buffer ELSE file

Die ==
    /\ crashes < MaxCrashes
    /\ pc \notin {"down", "failed"}
    /\ buffer' = <<>>
    /\ next_sequence' = 0
    /\ pc' = "down"
    /\ crashes' = crashes + 1

\* The process dies (killed, or an exception such as that of a failed fwrite ends
\* main): the buffer is lost, but for what a flush has already written of it.
kill ==
    /\ Die
    /\ file' \in Leftovers(Flushing, Len(file))
    /\ UNCHANGED synced

\* The machine dies: what was not synced may be lost from any byte on.
power_loss ==
    /\ Die
    /\ file' \in Leftovers(Flushing, synced)
    /\ synced' = Len(file')

Next ==
    \/ open \/ open_fails
    \/ \E v \in Values : append(v)
    \/ sync \/ flush \/ fsync \/ close
    \/ kill \/ power_loss

Spec == Init /\ [][Next]_vars

-----------------------------------------------------------------------------
(* Properties                                                              *)

Running == pc \notin {"down", "failed"}

\* The state has its type.
TypeOK ==
    /\ pc \in {"idle", "flush", "flush_sync", "fsync", "down", "failed"}
    /\ buffer \in Seq(Records)
    /\ file \in Seq(Records \cup Torn)
    /\ next_sequence \in Nat /\ (Running => next_sequence # 0)
    /\ synced \in 0 .. Len(file)
    /\ crashes \in Nat

Log == file \o buffer

\* s is the number that comes after the first n parts of log l.
Follows(l, n, s) ==
    \/ s = 1 /\ \A i \in 1 .. n : ~ IsRecord(l[i])
    \/ \E i \in 1 .. n : /\ IsRecord(l[i]) /\ s = l[i].sequence + 1
                         /\ \A j \in i + 1 .. n : ~ IsRecord(l[j])

Numbered(l) ==
    \A i \in 1 .. Len(l) : IsRecord(l[i]) => Follows(l, i - 1, l[i].sequence)

\* Across crashes, torn tails and restarts, the records of the log carry the
\* numbers 1, 2, 3 and so on in this order, each exactly once, and a running
\* writer goes on with the next one.
Contiguous ==
    /\ Numbered(Log)
    /\ Running => Follows(Log, Len(Log), next_sequence)

\* A writer never runs on a log that it could not read to its end: while it runs
\* the file has no incomplete payload, and at most one torn header, which was the
\* end of the log when the writer was opened.
DamageStopsWriter ==
    Running => \A i, j \in 1 .. Len(file) :
                  /\ file[i].part # "payload"
                  /\ ~ IsRecord(file[i]) /\ ~ IsRecord(file[j]) => i = j

\* What the daemon's log is for ("Write-ahead log for durability"): a record that
\* was synced can be read back.  The code loses it behind a torn header.
SyncedIsReadable ==
    \A i \in 1 .. synced, n \in 0 .. Len(file) :
        IsRecord(file[i]) /\ Reads(file, n) => i <= n

-----------------------------------------------------------------------------
(* The inductive invariant: nothing is buffered while no writer runs.      *)

Inv ==
    /\ TypeOK
    /\ Contiguous
    /\ DamageStopsWriter
    /\ ~ Running => buffer = <<>>
=============================================================================
