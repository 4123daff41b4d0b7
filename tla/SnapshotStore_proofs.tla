------------------------ MODULE SnapshotStore_proofs ------------------------
(***************************************************************************)
(* Proofs about the snapshot store, for all sizes of records, all limits   *)
(* and any number of calls and crashes: what a returned call of persist    *)
(* leaves in the file, and that no crash of the process loses it.          *)
(***************************************************************************)
EXTENDS SnapshotStore, SequenceTheorems, WellFoundedInduction, TLAPS

USE SizesAssumption, PowerLossAssumption, NoFileAssumption
USE DEF max_records, max_file_bytes, NoLimits

-----------------------------------------------------------------------------
(* Operators                                                               *)

\* A set of natural numbers has a least element.
LEMMA LeastNat ==
    ASSUME NEW T \in SUBSET Nat, T # {}
    PROVE  \E x \in T : \A y \in T : x <= y
  <1> DEFINE R == OpToRel(<, Nat)
  <1>1. IsWellFoundedOn(R, Nat)
    BY NatLessThanWellFounded, Zenon
  <1>2. \A x, y \in Nat : <<x, y>> \in R <=> x < y
    BY DEF OpToRel
  <1> HIDE DEF R
  <1>3. \E x \in T : \A y \in T : ~ (<<y, x>> \in R)
    BY <1>1, WFMin, Zenon
  <1>4. PICK x \in T : \A y \in T : ~ (<<y, x>> \in R)
    BY <1>3
  <1>5. ASSUME NEW y \in T PROVE x <= y
    <2>1. x \in Nat /\ y \in Nat /\ ~ (y < x)
      BY <1>2, <1>4
    <2> QED
      BY <2>1
  <1> QED
    BY <1>5

\* Min, which compaction's loop computes, is what its name says.
LEMMA MinProperties ==
    ASSUME NEW T \in SUBSET Nat, T # {}
    PROVE  Min(T) \in T /\ \A y \in T : Min(T) <= y
  BY LeastNat DEF Min

\* A file whose last record is whole has only whole records if it loads at all, and
\* then load_records returns all of it.
LEMMA LoadsWhole ==
    ASSUME NEW f \in Seq(Records), f # <<>>, f[Len(f)].part = "whole"
    PROVE  /\ load_records(f) = f
           /\ Loads(f) => AllWhole(f)
  <1>1. Last(f) = f[Len(f)]
    BY DEF Last
  <1>2. Len(f) \in Nat
    OBVIOUS
  <1> QED
    BY <1>1, <1>2 DEF load_records, Loads, AllWhole

\* A file of whole records loads.
LEMMA WholeLoads ==
    ASSUME NEW f, AllWhole(f)
    PROVE  Loads(f)
  BY DEF AllWhole, Loads

\* What compaction keeps: the end of the list, in order and with its last record, and
\* within the limits.
LEMMA KeptProperties ==
    ASSUME options_ \in Options, NEW f \in Seq(Records), f # <<>>
    PROVE  \E start \in 1 .. Len(f) :
              /\ Kept(f) = SubSeq(f, start, Len(f))
              /\ Limited(Kept(f))
  <1> DEFINE first == IF TooMany(f) THEN Len(f) - max_records + 1 ELSE 1
             fits == {i \in first .. Len(f) : ~ TooLarge(From(f, i))}
             T == fits \cup {Len(f)}
             start == Min(T)
  <1>1. Len(f) \in Nat /\ Len(f) >= 1 /\ max_records \in Nat
    BY OptionsAssumption
  <1> HIDE DEF max_records, max_file_bytes
  <1>2. first \in 1 .. Len(f)
    BY <1>1 DEF TooMany
  <1> HIDE DEF first
  <1>3. T \in SUBSET Nat /\ T # {}
    BY <1>1, <1>2
  <1>4. start \in T
    BY <1>3, MinProperties
  <1>5. start \in first .. Len(f)
    BY <1>1, <1>2, <1>4
  <1>6. Kept(f) = SubSeq(f, start, Len(f))
    BY DEF Kept, From, first
  <1>7. Kept(f) = From(f, start)
    BY <1>6 DEF From
  <1> HIDE DEF start
  <1>8. Len(Kept(f)) = Len(f) - start + 1
    BY <1>1, <1>2, <1>5, <1>6
  <1>9. ~ TooMany(Kept(f))
    BY <1>1, <1>5, <1>8 DEF TooMany, first
  <1>10. TooLarge(Kept(f)) => Len(Kept(f)) = 1
    BY <1>1, <1>4, <1>7, <1>8
  <1> QED
    BY <1>2, <1>5, <1>6, <1>9, <1>10 DEF Limited

\* What a crash leaves of a sequence of records: records in the same order, with the
\* same numbers.
LEMMA CutsProperties ==
    ASSUME NEW f \in Seq(Records), NEW g \in Cuts(f)
    PROVE  /\ g \in Seq(Records)
           /\ Len(g) <= Len(f)
           /\ \A i \in 1 .. Len(g) : g[i].n = f[i].n
  <1>1. CASE \E i \in 0 .. Len(f) : g = SubSeq(f, 1, i)
    BY <1>1
  <1>2. CASE \E i \in 1 .. Len(f), part \in {"header", "body"} :
                g = Append(SubSeq(f, 1, i - 1), [f[i] EXCEPT !.part = part])
    <2>1. PICK i \in 1 .. Len(f), part \in {"header", "body"} :
                g = Append(SubSeq(f, 1, i - 1), [f[i] EXCEPT !.part = part])
      BY <1>2
    <2> DEFINE last == [f[i] EXCEPT !.part = part]
    <2>2. f[i] \in Records
      OBVIOUS
    <2>3. last \in Records /\ last.n = f[i].n
      BY <2>2 DEF Records, Parts
    <2> HIDE DEF last
    <2>4. SubSeq(f, 1, i - 1) \in Seq(Records) /\ Len(SubSeq(f, 1, i - 1)) = i - 1
          /\ \A j \in 1 .. i - 1 : SubSeq(f, 1, i - 1)[j] = f[j]
      OBVIOUS
    <2>5. g = Append(SubSeq(f, 1, i - 1), last)
      BY <2>1 DEF last
    <2>6. g \in Seq(Records) /\ Len(g) = i /\ g[i] = last
          /\ \A j \in 1 .. i - 1 : g[j] = SubSeq(f, 1, i - 1)[j]
      BY <2>3, <2>4, <2>5
    <2> QED
      BY <2>3, <2>4, <2>6
  <1> QED
    BY <1>1, <1>2 DEF Cuts

-----------------------------------------------------------------------------
(* The inductive invariant                                                 *)

\* There is no file at first.
LEMMA InitInv == Init => Inv
  <1> SUFFICES ASSUME Init PROVE Inv
    OBVIOUS
  <1>1. TypeOK
    <2>1. started \in Nat /\ completed \in 0 .. started
      BY DEF Init
    <2>2. fresh \in BOOLEAN
      BY Zenon DEF Init
    <2> QED
      BY <2>1, <2>2, Zenon DEF Init, TypeOK
  <1>2. Numbered
    BY DEF Init, Numbered
  <1> QED
    BY <1>1, <1>2 DEF Init, Inv

\* persist opens the file, and the number it will write is new.
LEMMA PersistKeepsInv ==
    ASSUME Inv, NEW bytes \in Sizes, persist(bytes)
    PROVE  Inv'
  <1>1. file' \in Seq(Records) /\ file' # NoFile
    <2>1. <<>> \in Seq(Records)
      OBVIOUS
    <2>2. file \in Seq(Records) \cup {NoFile} /\ file' = IF file = NoFile THEN <<>> ELSE file
      BY DEF Inv, TypeOK, persist
    <2> QED
      BY <2>1, <2>2
  <1>2. TypeOK'
    <2>1. Ascending(file')
      BY DEF Inv, TypeOK, persist, Ascending
    <2>2. /\ options_' \in Options /\ fresh' \in BOOLEAN /\ pc' = "append"
          /\ tmp' \in Seq(Records) \cup {NoFile} /\ record' \in Sizes
          /\ started' \in Nat /\ completed' \in 0 .. started'
      BY DEF Inv, TypeOK, persist
    <2> QED
      BY <1>1, <2>1, <2>2 DEF TypeOK, Ascending
  <1>3. Numbered'
    <2> SUFFICES ASSUME NEW i \in 1 .. Len(file') PROVE file'[i].n < started'
      BY DEF Numbered, persist
    <2>1. file # NoFile /\ file' = file
      BY DEF persist
    <2>2. file[i] \in Records
      BY <1>1, <2>1
    <2>3. file[i].n \in Nat
      BY <2>2 DEF Records
    <2>4. file[i].n <= started
      BY <2>1 DEF Inv, Numbered, persist
    <2> QED
      BY <2>1, <2>3, <2>4 DEF persist, Inv, TypeOK
  <1> QED
    BY <1>1, <1>2, <1>3 DEF Inv, TypeOK, persist

\* A record that is added has a higher number than those before it.
LEMMA AppendedFile ==
    ASSUME Inv, pc = "append", NEW part \in Parts
    PROVE  LET g == Append(file, NewRecord(part))
           IN  /\ g \in Seq(Records) /\ g # <<>>
               /\ Ascending(g)
               /\ \A i \in 1 .. Len(g) : g[i].n <= started
               /\ g[Len(g)] = NewRecord(part)
               /\ Len(g) = Len(file) + 1
               /\ \A i \in 1 .. Len(file) : g[i] = file[i]
  <1> DEFINE r == NewRecord(part)
             g == Append(file, r)
  <1>1. r \in Records /\ r.n = started /\ started \in Nat
    BY DEF Inv, TypeOK, Records, NewRecord
  <1>2. file \in Seq(Records) /\ Len(file) \in Nat
    BY DEF Inv, TypeOK
  <1>3. \A i \in 1 .. Len(file) : file[i].n < started /\ file[i].n \in Nat
    <2> TAKE i \in 1 .. Len(file)
    <2>1. file[i] \in Records
      BY <1>2
    <2>2. file[i].n < started
      BY DEF Inv, Numbered
    <2> QED
      BY <2>1, <2>2 DEF Records
  <1> HIDE DEF r
  <1>4. g \in Seq(Records) /\ Len(g) = Len(file) + 1 /\ g[Len(file) + 1] = r
        /\ \A i \in 1 .. Len(file) : g[i] = file[i]
    BY <1>1, <1>2
  <1>5. Ascending(g)
    BY <1>1, <1>2, <1>3, <1>4 DEF Inv, TypeOK, Ascending
  <1>6. \A i \in 1 .. Len(g) : g[i].n <= started
    BY <1>1, <1>2, <1>3, <1>4
  <1> QED
    BY <1>2, <1>4, <1>5, <1>6 DEF r

\* flush adds the whole record.
LEMMA FlushKeepsInv ==
    ASSUME Inv, flush
    PROVE  Inv'
  <1>1. "whole" \in Parts /\ pc = "append"
    BY DEF Parts, flush
  <1>2. /\ file' \in Seq(Records) /\ file' # <<>>
        /\ Ascending(file')
        /\ \A i \in 1 .. Len(file') : file'[i].n <= started
        /\ file'[Len(file')] = NewRecord("whole")
    BY <1>1, AppendedFile DEF flush
  <1>3. file' # NoFile
    BY <1>2
  <1>4. TypeOK'
    BY <1>2 DEF Inv, TypeOK, flush, Ascending
  <1>5. EndsWith(file, started)'
    BY <1>2, <1>3 DEF EndsWith, NewRecord, flush
  <1> QED
    BY <1>2, <1>4, <1>5 DEF Inv, Numbered, flush

\* Compaction finds the record of this call at the end of the file.
LEMMA CompactingFile ==
    ASSUME Inv, pc \in {"compact", "remove"}
    PROVE  /\ file \in Seq(Records) /\ file # <<>> /\ file # NoFile
           /\ load_records(file) = file
           /\ Loads(file) => AllWhole(file)
           /\ Ascending(file)
  BY LoadsWhole DEF Inv, TypeOK, EndsWith

\* persist returns with a file that needs no compaction, or has no limits.
LEMMA CompactNotNeededKeepsInv ==
    ASSUME Inv, compact_not_needed \/ compact_unlimited
    PROVE  Inv'
  <1>1. (AllWhole(file) \/ NoLimits) /\ Limited(file) /\ EndsWith(file, started)
    <2>1. CASE compact_not_needed
      BY <2>1, CompactingFile DEF compact_not_needed, Limited, Inv
    <2>2. CASE compact_unlimited
      BY <2>2 DEF compact_unlimited, Limited, TooMany, TooLarge, Inv
    <2> QED
      BY <2>1, <2>2
  <1>2. /\ pc' = "idle" /\ completed' = started
        /\ UNCHANGED <<file, tmp, options_, record, started>>
        /\ fresh' \in BOOLEAN
    BY DEF compact_not_needed, compact_unlimited, return
  <1>3. EndsWith(file, completed)' /\ (AllWhole(file) \/ NoLimits)' /\ Limited(file)'
    BY <1>1, <1>2 DEF EndsWith, AllWhole, Limited, TooMany, TooLarge
  <1>4. TypeOK' /\ Numbered'
    BY <1>2 DEF compact_not_needed, compact_unlimited, Inv, TypeOK, Numbered, Ascending
  <1> QED
    BY <1>2, <1>3, <1>4 DEF Inv

\* load_records throws, and leaves the files alone; so do the end and the start of a
\* process, and set_options.
LEMMA ThrowAndRestartKeepInv ==
    ASSUME Inv, compact_throws \/ exit \/ restart \/ \E o \in Options : set_options(o)
    PROVE  Inv'
  BY DEF compact_throws, exit, restart, set_options, Inv, TypeOK, Numbered, Ascending

\* The temporary file gets the end of the list.
LEMMA KeptIsCompacted ==
    ASSUME Inv, pc = "compact", Loads(file)
    PROVE  /\ Kept(load_records(file)) \in Seq(Records)
           /\ Compacted(Kept(load_records(file)))
  <1>1. /\ file \in Seq(Records) /\ file # <<>>
        /\ load_records(file) = file /\ AllWhole(file) /\ Ascending(file)
        /\ EndsWith(file, started)
    BY CompactingFile DEF Inv
  <1>2. PICK start \in 1 .. Len(file) :
              Kept(file) = SubSeq(file, start, Len(file)) /\ Limited(Kept(file))
    BY <1>1, KeptProperties DEF Inv, TypeOK
  <1> DEFINE k == Kept(file)
  <1> HIDE DEF k
  <1>3. k = SubSeq(file, start, Len(file)) /\ Limited(k) /\ Len(file) \in Nat
    BY <1>1, <1>2 DEF k
  <1>4. k \in Seq(Records) /\ Len(k) = Len(file) - start + 1
        /\ \A i \in 1 .. Len(k) : k[i] = file[start + i - 1]
    BY <1>1, <1>3
  <1>5. k # NoFile /\ k # <<>> /\ k[Len(k)] = file[Len(file)]
    <2>1. Len(k) \in 1 .. Len(k) /\ start + Len(k) - 1 = Len(file)
      BY <1>3, <1>4
    <2>2. k[Len(k)] = file[start + Len(k) - 1]
      BY <1>4, <2>1
    <2> QED
      BY <1>4, <2>1, <2>2
  <1>6. EndsWith(k, started)
    BY <1>1, <1>5 DEF EndsWith
  <1>7. AllWhole(k)
    BY <1>1, <1>3, <1>4 DEF AllWhole
  <1>8. Ascending(k)
    <2> SUFFICES ASSUME NEW i \in 1 .. Len(k) - 1 PROVE k[i].n < k[i + 1].n
      BY DEF Ascending
    <2>1. k[i] = file[start + i - 1] /\ k[i + 1] = file[(start + i - 1) + 1]
      BY <1>3, <1>4
    <2>2. start + i - 1 \in 1 .. Len(file) - 1
      BY <1>3, <1>4
    <2> QED
      BY <1>1, <2>1, <2>2 DEF Ascending
  <1>9. \A i \in 1 .. Len(k) : k[i].n <= started
    BY <1>1, <1>3, <1>4 DEF Inv, Numbered, EndsWith
  <1> QED
    BY <1>1, <1>3, <1>4, <1>6, <1>7, <1>8, <1>9 DEF Compacted, k

LEMMA CompactWriteKeepsInv ==
    ASSUME Inv, compact_write
    PROVE  Inv'
  <1>1. tmp' \in Seq(Records) /\ Compacted(tmp')
    BY KeptIsCompacted DEF compact_write
  <1>2. Compacted(tmp)'
    BY <1>1 DEF compact_write, Compacted, EndsWith, AllWhole, Ascending, Limited,
                TooMany, TooLarge
  <1>3. EndsWith(file, started)'
    BY DEF compact_write, Inv, EndsWith
  <1>4. TypeOK' /\ Numbered'
    BY <1>1 DEF compact_write, Inv, TypeOK, Numbered, Ascending
  <1> QED
    BY <1>2, <1>3, <1>4 DEF compact_write, Inv

\* The old file goes, and the temporary one stays as it is.
LEMMA CompactRemoveKeepsInv ==
    ASSUME Inv, compact_remove
    PROVE  Inv'
  <1>1. Compacted(tmp)'
    BY DEF compact_remove, Inv, Compacted, EndsWith, AllWhole, Ascending, Limited,
           TooMany, TooLarge
  <1> QED
    BY <1>1 DEF compact_remove, Inv, TypeOK, Numbered

\* The temporary file takes its place, and persist returns.
LEMMA CompactRenameKeepsInv ==
    ASSUME Inv, compact_rename
    PROVE  Inv'
  <1>1. Compacted(tmp) /\ tmp \in Seq(Records) /\ started \in Nat
    BY DEF compact_rename, Inv, TypeOK, Compacted, EndsWith
  <1>2. EndsWith(file, completed)' /\ (AllWhole(file) \/ NoLimits)' /\ Limited(file)'
    BY <1>1 DEF compact_rename, return, Compacted, EndsWith, AllWhole, Limited, TooMany,
                TooLarge
  <1>3. TypeOK'
    BY <1>1 DEF compact_rename, return, Inv, TypeOK, Compacted, Ascending
  <1>4. Numbered'
    BY <1>1 DEF compact_rename, return, Numbered, Compacted
  <1> QED
    BY <1>2, <1>3, <1>4 DEF compact_rename, return, Inv
\* The process dies: the file keeps its records, or gets a part of the one that was
\* being written.
LEMMA KillKeepsInv ==
    ASSUME Inv, kill
    PROVE  Inv'
  <1>1. pc' = "down" /\ UNCHANGED <<options_, record, started, completed, fresh>>
    BY DEF kill, Die
  <1>2. file' \in Seq(Records) \cup {NoFile}
        /\ (file' # NoFile => Ascending(file') /\ \A i \in 1 .. Len(file') : file'[i].n <= started)
    <2>1. CASE file' = file
      <3> SUFFICES ASSUME file # NoFile, NEW i \in 1 .. Len(file)
                   PROVE  file[i].n <= started
        BY <2>1 DEF Inv, TypeOK
      <3>1. file \in Seq(Records)
        BY DEF Inv, TypeOK
      <3>2. file[i] \in Records
        BY <3>1
      <3> QED
        BY <3>2 DEF Inv, TypeOK, Numbered, Records
    <2>2. CASE pc = "append" /\ \E part \in Parts : file' = Append(file, NewRecord(part))
      BY <2>2, AppendedFile
    <2> QED
      BY <2>1, <2>2 DEF kill
  <1>3. tmp' \in Seq(Records) \cup {NoFile}
    <2>1. CASE tmp' = tmp
      BY <2>1 DEF Inv, TypeOK
    <2>2. CASE pc = "compact" /\ Loads(file) /\ tmp' \in Cuts(Kept(load_records(file)))
      BY <2>2, KeptIsCompacted, CutsProperties
    <2> QED
      BY <2>1, <2>2 DEF kill
  <1>4. TypeOK'
    BY <1>1, <1>2, <1>3 DEF Inv, TypeOK, Ascending
  <1>5. Numbered'
    BY <1>1, <1>2 DEF Numbered
  <1> QED
    BY <1>1, <1>4, <1>5 DEF Inv

\* The machine dies: what is left of the file is still in order.
LEMMA PowerLossKeepsInv ==
    ASSUME Inv, power_loss
    PROVE  Inv'
  <1>1. pc' = "down" /\ UNCHANGED <<options_, record, started, completed, fresh, tmp>>
    BY DEF power_loss, Die
  <1>2. file \in Seq(Records) /\ file' \in Cuts(file) /\ Len(file) \in Nat
    BY DEF power_loss, Inv, TypeOK
  <1>3. /\ file' \in Seq(Records) /\ Len(file') <= Len(file)
        /\ \A i \in 1 .. Len(file') : file'[i].n = file[i].n
    BY <1>2, CutsProperties
  <1>4. Ascending(file) /\ \A i \in 1 .. Len(file) : file[i].n <= started
    <2>1. file # NoFile
      BY DEF power_loss
    <2>2. ASSUME NEW i \in 1 .. Len(file) PROVE file[i].n <= started
      <3>1. file[i] \in Records
        BY <1>2
      <3> QED
        BY <2>1, <3>1 DEF Inv, TypeOK, Numbered, Records
    <2> QED
      BY <2>1, <2>2 DEF Inv, TypeOK
  <1>5. Ascending(file')
    <2> SUFFICES ASSUME NEW i \in 1 .. Len(file') - 1 PROVE file'[i].n < file'[i + 1].n
      BY DEF Ascending
    <2>1. Len(file') \in Nat
      BY <1>3
    <2>2. i \in 1 .. Len(file) - 1 /\ i \in 1 .. Len(file') /\ i + 1 \in 1 .. Len(file')
      BY <1>2, <1>3, <2>1
    <2> QED
      BY <1>3, <1>4, <2>2 DEF Ascending
  <1>6. \A i \in 1 .. Len(file') : file'[i].n <= started
    BY <1>2, <1>3, <1>4
  <1>7. TypeOK'
    BY <1>1, <1>3, <1>5 DEF Inv, TypeOK, Ascending
  <1> QED
    BY <1>1, <1>6, <1>7 DEF Inv, Numbered

\* Every step keeps the invariant.
LEMMA NextKeepsInv ==
    ASSUME Inv, [Next]_vars
    PROVE  Inv'
  <1>1. CASE UNCHANGED vars
    BY <1>1 DEF vars, Inv, TypeOK, Numbered, EndsWith, Compacted, AllWhole, Ascending,
                Limited, TooMany, TooLarge
  <1>2. CASE Next
    BY <1>2, PersistKeepsInv, FlushKeepsInv, CompactNotNeededKeepsInv,
       ThrowAndRestartKeepInv, CompactWriteKeepsInv, CompactRemoveKeepsInv,
       CompactRenameKeepsInv, KillKeepsInv, PowerLossKeepsInv DEF Next
  <1> QED
    BY <1>1, <1>2

\* The inductive invariant holds throughout.
THEOREM InvHolds == Spec => []Inv
  BY InitInv, NextKeepsInv, PTL DEF Spec

-----------------------------------------------------------------------------
(* What it shows                                                           *)

\* The state has its type, and the records of the file stay in the order of the calls
\* of persist, whatever crashes cut off and compaction drops.
THEOREM TypeCorrect == Spec => []TypeOK
  <1>1. Inv => TypeOK
    BY DEF Inv
  <1> QED
    BY <1>1, InvHolds, PTL

\* After a call of persist has returned, its record is the last of the file, and what
\* latest returns unless there are no limits and an older record is torn.
THEOREM LatestIsTheLastPersisted == Spec => []LatestIsPersisted
  <1>1. Inv => LatestIsPersisted
    <2> SUFFICES ASSUME Inv, pc = "idle", fresh
                 PROVE  /\ EndsWith(file, completed)
                        /\ latest = completed
                        /\ Loads(file) \/ NoLimits
      BY DEF LatestIsPersisted
    <2>1. EndsWith(file, completed) /\ (AllWhole(file) \/ NoLimits)
      BY DEF Inv
    <2>2. file \in Seq(Records) /\ file # NoFile /\ file # <<>>
      BY <2>1 DEF Inv, TypeOK, EndsWith
    <2>3. load_records(file) = file
      BY <2>1, <2>2, LoadsWhole DEF EndsWith
    <2>4. latest = file[Len(file)].n
      BY <2>2, <2>3 DEF latest, Last
    <2> QED
      BY <2>1, <2>2, <2>4, WholeLoads DEF EndsWith
  <1> QED
    BY <1>1, InvHolds, PTL

\* After a call of persist has returned, the file is within max_records and
\* max_file_bytes, or it is one record.
THEOREM LimitsHold == Spec => []WithinLimits
  <1>1. Inv => WithinLimits
    BY DEF Inv, WithinLimits
  <1> QED
    BY <1>1, InvHolds, PTL
\* No step but a loss of power takes the last stored snapshot, or its successor, from
\* the disk.
LEMMA NextKeepsHeld ==
    ASSUME Inv, [Next]_vars, Held
    PROVE  Held' \/ power_loss
  <1> DEFINE In(f, c) == /\ f # NoFile
                         /\ \E i \in 1 .. Len(f) : f[i].part = "whole" /\ f[i].n >= c
  <1>1. completed = 0 \/ In(file, completed) \/ In(tmp, completed)
    BY DEF Held
  <1>2. Held' <=> completed' = 0 \/ In(file', completed') \/ In(tmp', completed')
    BY DEF Held
  <1>3. completed \in Nat /\ started \in Nat /\ completed <= started
    BY DEF Inv, TypeOK
  <1>4. ASSUME NEW f \in Seq(Records), EndsWith(f, started)
        PROVE  In(f, started) /\ In(f, completed)
    <2>1. Len(f) \in 1 .. Len(f)
      BY <1>4 DEF EndsWith
    <2> QED
      BY <1>3, <1>4, <2>1 DEF EndsWith
  <1>5. CASE UNCHANGED <<file, tmp, completed>>
    BY <1>1, <1>2, <1>5
  <1>6. CASE \E bytes \in Sizes : persist(bytes)
    <2>1. (file = NoFile \/ file' = file) /\ UNCHANGED <<tmp, completed>>
      BY <1>6 DEF persist
    <2> QED
      BY <1>1, <1>2, <2>1
  <1>7. CASE flush \/ kill
    <2>1. CASE pc = "compact"
      <3>1. EndsWith(file, started) /\ file \in Seq(Records)
        BY <2>1, CompactingFile DEF Inv
      <3>2. UNCHANGED <<file, completed>>
        BY <1>7, <2>1 DEF flush, kill, Die
      <3> QED
        BY <1>2, <1>4, <3>1, <3>2
    <2>2. CASE pc # "compact"
      <3>1. UNCHANGED <<tmp, completed>>
        BY <1>7, <2>2 DEF flush, kill, Die
      <3>2. CASE UNCHANGED file
        BY <1>5, <3>1, <3>2
      <3>3. CASE pc = "append" /\ \E part \in Parts : file' = Append(file, NewRecord(part))
        <4>1. PICK part \in Parts : file' = Append(file, NewRecord(part))
          BY <3>3
        <4>2. /\ file' \in Seq(Records) /\ Len(file') = Len(file) + 1 /\ Len(file) \in Nat
              /\ \A i \in 1 .. Len(file) : file'[i] = file[i]
          BY <3>3, <4>1, AppendedFile DEF Inv, TypeOK
        <4>3. In(file, completed) => In(file', completed)
          BY <4>2
        <4> QED
          BY <1>1, <1>2, <3>1, <4>3
      <3> QED
        BY <1>7, <3>2, <3>3 DEF flush, kill, Parts
    <2> QED
      BY <2>1, <2>2
  <1>8. CASE compact_not_needed \/ compact_unlimited
    <2>1. EndsWith(file, started) /\ file \in Seq(Records)
      BY <1>8, CompactingFile DEF Inv, compact_not_needed, compact_unlimited
    <2>2. file' = file /\ completed' = started
      BY <1>8 DEF compact_not_needed, compact_unlimited, return
    <2> QED
      BY <1>2, <1>4, <2>1, <2>2
  <1>9. CASE compact_write
    <2>1. EndsWith(file, started) /\ file \in Seq(Records)
      BY <1>9, CompactingFile DEF Inv, compact_write
    <2> QED
      BY <1>2, <1>4, <1>9, <2>1 DEF compact_write
  <1>10. CASE compact_remove \/ compact_rename
    <2>1. EndsWith(tmp, started) /\ tmp \in Seq(Records)
      BY <1>10 DEF compact_remove, compact_rename, Inv, TypeOK, Compacted, EndsWith
    <2>2. \/ tmp' = tmp /\ completed' = completed
          \/ file' = tmp /\ completed' = started
      BY <1>10 DEF compact_remove, compact_rename, return
    <2> QED
      BY <1>2, <1>4, <2>1, <2>2
  <1>11. CASE compact_throws \/ exit \/ restart \/ \E o \in Options : set_options(o)
    BY <1>5, <1>11 DEF compact_throws, exit, restart, set_options
  <1>12. CASE UNCHANGED vars
    BY <1>5, <1>12 DEF vars
  <1> QED
    BY <1>6, <1>7, <1>8, <1>9, <1>10, <1>11, <1>12 DEF Next

\* Wherever the process dies, what it stored last, or something later, is in one of the
\* two files.
THEOREM SnapshotIsKept == Spec => SnapshotKept
  <1>1. Inv /\ [Next]_vars => [Held => Held' \/ power_loss]_vars
    BY NextKeepsHeld
  <1> QED
    BY <1>1, InvHolds, PTL DEF Spec, SnapshotKept
=============================================================================
