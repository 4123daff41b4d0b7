--------------------------- MODULE Recovery_proofs ---------------------------
(***************************************************************************)
(* Proofs about WalWriter, for every set of payloads, every threshold and  *)
(* any number of crashes; then, with its invariant, about the daemons that *)
(* share a log (Recovery), for every threshold, capacity and interval, and *)
(* any number of frames, fills, crashes and restarts: what readers of the  *)
(* router get, and what a replay rebuilds.                                 *)
(***************************************************************************)
EXTENDS Recovery, SequenceTheorems, FiniteSetTheorems, WellFoundedInduction, TLAPS

Parts == Records \cup Torn

-----------------------------------------------------------------------------
(* Parts of a log                                                          *)

\* Records are records, and what is left of one is none.
LEMMA PartsProperties ==
  /\ \A c \in Records : IsRecord(c) /\ c.sequence \in Nat /\ c \in Parts
  /\ \A c \in Torn : ~ IsRecord(c) /\ c \in Parts
  /\ \A c \in Parts : IsRecord(c) => c \in Records
BY DEF Records, Torn, Parts, IsRecord

\* What follows n parts depends on these only.
LEMMA FollowsSame ==
  ASSUME NEW l, NEW m, NEW n \in Nat, NEW s,
         \A i \in 1 .. n : l[i] = m[i],
         Follows(l, n, s)
  PROVE  Follows(m, n, s)
<1>1. CASE s = 1 /\ \A i \in 1 .. n : ~ IsRecord(l[i])
  BY <1>1 DEF Follows
<1>2. CASE \E i \in 1 .. n : /\ IsRecord(l[i]) /\ s = l[i].sequence + 1
                             /\ \A j \in i + 1 .. n : ~ IsRecord(l[j])
  <2>1. PICK i \in 1 .. n : /\ IsRecord(l[i]) /\ s = l[i].sequence + 1
                            /\ \A j \in i + 1 .. n : ~ IsRecord(l[j])
    BY <1>2
  <2>2. \A j \in i + 1 .. n : j \in 1 .. n
    OBVIOUS
  <2> QED
    BY <2>1, <2>2 DEF Follows
<1> QED
  BY <1>1, <1>2 DEF Follows

\* A torn part changes nothing.
LEMMA FollowsTorn ==
  ASSUME NEW l, NEW n \in Nat, NEW s, Follows(l, n, s), ~ IsRecord(l[n + 1])
  PROVE  Follows(l, n + 1, s)
<1>0. \A j \in 1 .. n + 1 : j \in 1 .. n \/ j = n + 1
  OBVIOUS
<1>1. CASE s = 1 /\ \A i \in 1 .. n : ~ IsRecord(l[i])
  BY <1>0, <1>1 DEF Follows
<1>2. CASE \E i \in 1 .. n : /\ IsRecord(l[i]) /\ s = l[i].sequence + 1
                             /\ \A j \in i + 1 .. n : ~ IsRecord(l[j])
  <2>1. PICK i \in 1 .. n : /\ IsRecord(l[i]) /\ s = l[i].sequence + 1
                            /\ \A j \in i + 1 .. n : ~ IsRecord(l[j])
    BY <1>2
  <2>2. \A j \in i + 1 .. n + 1 : j \in i + 1 .. n \/ j = n + 1
    OBVIOUS
  <2>3. i \in 1 .. n + 1
    OBVIOUS
  <2> QED
    BY <2>1, <2>2, <2>3 DEF Follows
<1> QED
  BY <1>1, <1>2 DEF Follows

\* After a record comes the next number.
LEMMA FollowsRecord ==
  ASSUME NEW l, NEW n \in Nat, IsRecord(l[n + 1])
  PROVE  Follows(l, n + 1, l[n + 1].sequence + 1)
<1>1. \A j \in (n + 1) + 1 .. n + 1 : FALSE
  OBVIOUS
<1>2. n + 1 \in 1 .. n + 1
  OBVIOUS
<1> QED
  BY <1>1, <1>2 DEF Follows

\* A log that has lost its tail, and may have a torn part in its place, is still
\* numbered.
LEMMA LeftoversNumbered ==
  ASSUME NEW l \in Seq(Parts), Numbered(l), NEW n \in 0 .. Len(l),
         NEW m \in Leftovers(l, n)
  PROVE  /\ m \in Seq(Parts)
         /\ Numbered(m)
         /\ n <= Len(m)
<1>0. Len(l) \in Nat /\ \A i \in 1 .. Len(l) : l[i] \in Parts
  BY LenProperties
<1>1. \A k \in 0 .. Len(l) :
         /\ SubSeq(l, 1, k) \in Seq(Parts) /\ Len(SubSeq(l, 1, k)) = k
         /\ \A i \in 1 .. k : SubSeq(l, 1, k)[i] = l[i]
  <2> SUFFICES ASSUME NEW k \in 0 .. Len(l)
               PROVE  /\ SubSeq(l, 1, k) \in Seq(Parts) /\ Len(SubSeq(l, 1, k)) = k
                      /\ \A i \in 1 .. k : SubSeq(l, 1, k)[i] = l[i]
    OBVIOUS
  <2>1. \A i \in 1 .. k : l[i] \in Parts
    BY <1>0
  <2> QED
    BY <1>0, <2>1, SubSeqProperties
<1>2. ASSUME NEW k \in 0 .. Len(l), NEW h \in Seq(Parts), Len(h) >= k,
             \A i \in 1 .. k : h[i] = l[i],
             \A i \in k + 1 .. Len(h) : ~ IsRecord(h[i])
      PROVE  Numbered(h)
  <2> SUFFICES ASSUME NEW i \in 1 .. Len(h), IsRecord(h[i])
               PROVE  Follows(h, i - 1, h[i].sequence)
    BY DEF Numbered
  <2>1. Len(h) \in Nat
    BY LenProperties
  <2>2. i \in 1 .. k /\ i - 1 \in Nat /\ i \in 1 .. Len(l)
    BY <1>0, <1>2, <2>1
  <2>3. Follows(l, i - 1, l[i].sequence)
    BY <1>2, <2>2 DEF Numbered
  <2>4. \A j \in 1 .. i - 1 : l[j] = h[j]
    BY <1>2, <2>2
  <2> QED
    BY <1>2, <2>2, <2>3, <2>4, FollowsSame
<1>3. CASE \E k \in n .. Len(l) : m = SubSeq(l, 1, k)
  <2>1. PICK k \in n .. Len(l) : m = SubSeq(l, 1, k)
    BY <1>3
  <2>2. k \in 0 .. Len(l) /\ n <= k
    BY <1>0
  <2>3. /\ m \in Seq(Parts) /\ Len(m) = k /\ k \in Nat /\ Len(m) >= k
        /\ \A i \in 1 .. k : m[i] = l[i]
    BY <1>1, <2>1, <2>2
  <2>4. \A i \in k + 1 .. Len(m) : ~ IsRecord(m[i])
    BY <2>3
  <2>5. Numbered(m)
    BY <1>2, <2>2, <2>3, <2>4
  <2> QED
    BY <2>2, <2>3, <2>5
<1>4. CASE \E k \in n .. Len(l) - 1 : \E t \in Torn : m = Append(SubSeq(l, 1, k), t)
  <2>1. PICK k \in n .. Len(l) - 1, t \in Torn : m = Append(SubSeq(l, 1, k), t)
    BY <1>4
  <2>2. k \in 0 .. Len(l) /\ n <= k /\ k \in Nat
    BY <1>0
  <2>3. t \in Parts /\ ~ IsRecord(t)
    BY PartsProperties
  <2>4. SubSeq(l, 1, k) \in Seq(Parts) /\ Len(SubSeq(l, 1, k)) = k
    BY <1>1, <2>2
  <2>5. /\ m \in Seq(Parts) /\ Len(m) = k + 1 /\ m[k + 1] = t
        /\ \A i \in 1 .. k : m[i] = SubSeq(l, 1, k)[i]
    BY <2>1, <2>3, <2>4, AppendProperties
  <2>6. \A i \in 1 .. k : m[i] = l[i]
    BY <1>1, <2>2, <2>5
  <2>7. \A i \in k + 1 .. Len(m) : i = k + 1
    BY <2>2, <2>5
  <2> QED
    BY <1>2, <2>2, <2>3, <2>5, <2>6, <2>7
<1> QED
  <2>1. \A c : Cut(c) \subseteq Torn
    BY DEF Cut, Torn
  <2> QED
    BY <1>3, <1>4, <2>1 DEF Leftovers

-----------------------------------------------------------------------------
(* The log of a state                                                      *)

\* The log is the file, then the buffer.
LEMMA LogProperties ==
  ASSUME TypeOK
  PROVE  /\ Log \in Seq(Parts) /\ Len(Log) = Len(file) + Len(buffer)
         /\ Len(file) \in Nat /\ Len(buffer) \in Nat
         /\ file \in Seq(Parts) /\ buffer \in Seq(Records) /\ buffer \in Seq(Parts)
         /\ \A i \in 1 .. Len(file) : Log[i] = file[i] /\ file[i] \in Parts
         /\ buffer = <<>> => Log = file
<1>1. file \in Seq(Parts) /\ buffer \in Seq(Records)
  BY DEF TypeOK, Parts
<1>2. buffer \in Seq(Parts)
  <2>1. buffer \in [1 .. Len(buffer) -> Records] /\ Len(buffer) \in Nat
    BY <1>1, LenProperties
  <2>2. buffer \in [1 .. Len(buffer) -> Parts]
    BY <2>1, PartsProperties
  <2> QED
    BY <2>1, <2>2, SeqDef
<1>3. /\ Len(file) \in Nat /\ Len(buffer) \in Nat
      /\ \A i \in 1 .. Len(file) : file[i] \in Parts
  BY <1>1, LenProperties
<1>4. /\ Log \in Seq(Parts) /\ Len(Log) = Len(file) + Len(buffer)
      /\ \A i \in 1 .. Len(file) + Len(buffer) :
            Log[i] = IF i <= Len(file) THEN file[i] ELSE buffer[i - Len(file)]
  BY <1>1, <1>2, ConcatProperties DEF Log
<1>5. \A i \in 1 .. Len(file) : Log[i] = file[i]
  BY <1>3, <1>4
<1>6. buffer = <<>> => Log = file
  BY <1>1, ConcatEmptySeq DEF Log
<1> QED
  BY <1>1, <1>2, <1>3, <1>4, <1>5, <1>6

LEMMA InitInv == Init => Inv
<1> SUFFICES ASSUME Init PROVE Inv
  OBVIOUS
<1>1. file \in Seq(Parts) /\ buffer \in Seq(Records) /\ Len(file) = 0
  BY EmptySeq DEF Init
<1>2. TypeOK
  BY <1>1 DEF Init, TypeOK, Running, Parts
<1>3. Len(Log) = 0
  BY <1>1, <1>2, LogProperties DEF Init
<1>4. Contiguous
  BY <1>3 DEF Contiguous, Numbered, Follows, Init
<1>5. DamageStopsWriter
  BY <1>1 DEF DamageStopsWriter
<1> QED
  BY <1>2, <1>4, <1>5 DEF Inv, Init

\* A step that leaves the log and the number alone.
LEMMA SameLog ==
  ASSUME Inv, TypeOK', Log' = Log, file' = file,
         Running' => Running /\ next_sequence' = next_sequence,
         ~ Running' => buffer' = <<>>
  PROVE  Inv'
<1>1. Contiguous'
  BY DEF Inv, Contiguous
<1>2. DamageStopsWriter'
  BY DEF Inv, DamageStopsWriter
<1> QED
  BY <1>1, <1>2 DEF Inv

LEMMA OpenKeepsInv ==
  ASSUME Inv, open
  PROVE  Inv'
<1>1. PICK n \in 0 .. Len(file) : /\ Reads(file, n) /\ ~ Throws(file, n)
                                  /\ next_sequence' = Recovered(file, n)
  BY DEF open
<1>2. /\ pc = "down" /\ pc' = "idle" /\ buffer' = buffer /\ file' = file
      /\ synced' = synced /\ crashes' = crashes /\ Log' = Log
      /\ buffer = <<>> /\ Running'
  BY DEF open, Log, Inv, Running
<1>3. /\ file \in Seq(Parts) /\ Len(file) \in Nat /\ Log = file
      /\ \A i \in 1 .. Len(file) : file[i] \in Parts
  BY <1>2, LogProperties DEF Inv
<1>4. n \in Nat /\ n <= Len(file)
  BY <1>3
<1>5. n = 0 \/ (n \in 1 .. Len(file) /\ IsRecord(file[n]) /\ file[n].sequence \in Nat)
  BY <1>1, <1>3, <1>4, PartsProperties DEF Reads
<1>6. next_sequence' \in Nat /\ next_sequence' # 0
  BY <1>1, <1>5 DEF Recovered
<1>7. TypeOK'
  BY <1>2, <1>6 DEF Inv, TypeOK
<1>8. Follows(file, n, next_sequence')
  <2>1. CASE n = 0
    BY <1>1, <2>1 DEF Recovered, Follows
  <2>2. CASE n # 0
    <3>1. n - 1 \in Nat /\ (n - 1) + 1 = n
      BY <1>4, <2>2
    <3>2. Follows(file, n, file[n].sequence + 1)
      BY <1>5, <2>2, <3>1, FollowsRecord
    <3> QED
      BY <1>1, <2>2, <3>2 DEF Recovered
  <2> QED
    BY <2>1, <2>2
<1>9. n = Len(file) \/ (n + 1 = Len(file) /\ ~ IsRecord(file[n + 1])
                         /\ file[n + 1].part # "payload")
  BY <1>1, <1>3, <1>4 DEF Reads, Throws
<1>10. Follows(file, Len(file), next_sequence')
  BY <1>4, <1>8, <1>9, FollowsTorn
<1>11. Contiguous'
  BY <1>2, <1>3, <1>10 DEF Inv, Contiguous
<1>12. DamageStopsWriter'
  <2>1. \A i \in 1 .. Len(file) : i \in 1 .. n \/ (n + 1 = Len(file) /\ i = n + 1)
    BY <1>3, <1>4, <1>9
  <2>2. \A i \in 1 .. n : IsRecord(file[i])
    BY <1>1 DEF Reads
  <2>3. \A i \in 1 .. Len(file) : file[i].part # "payload"
    BY <1>9, <2>1, <2>2 DEF IsRecord
  <2>4. \A i, j \in 1 .. Len(file) : ~ IsRecord(file[i]) /\ ~ IsRecord(file[j]) => i = j
    BY <2>1, <2>2
  <2> QED
    BY <1>2, <2>3, <2>4 DEF DamageStopsWriter
<1> QED
  BY <1>2, <1>7, <1>11, <1>12 DEF Inv

LEMMA OpenFailsKeepsInv ==
  ASSUME Inv, open_fails
  PROVE  Inv'
<1>1. /\ pc = "down" /\ pc' = "failed" /\ buffer' = buffer /\ file' = file
      /\ next_sequence' = next_sequence
      /\ synced' = synced /\ crashes' = crashes /\ Log' = Log
      /\ buffer = <<>> /\ ~ Running'
  BY DEF open_fails, Log, Inv, Running
<1>2. TypeOK'
  BY <1>1 DEF Inv, TypeOK
<1> QED
  BY <1>1, <1>2, SameLog

\* append adds its record to the log.
LEMMA AppendedLog ==
  ASSUME TypeOK, NEW v \in Values, append(v)
  PROVE  Log' = Append(Log, [part |-> "record", sequence |-> next_sequence, value |-> v])
<1> DEFINE r == [part |-> "record", sequence |-> next_sequence, value |-> v]
<1>1. file' = file /\ buffer' = Append(buffer, r)
  BY DEF append
<1>2. r \in Records /\ r \in Parts
  BY PartsProperties DEF Records, TypeOK
<1> HIDE DEF r
<1>3. Append(buffer, r) = buffer \o <<r>>
  BY <1>2, AppendIsConcat DEF TypeOK
<1>4. /\ file \in Seq(Parts) /\ buffer \in Seq(Parts) /\ <<r>> \in Seq(Parts)
      /\ Log \in Seq(Parts)
  BY <1>2, LogProperties
<1>5. (file \o buffer) \o <<r>> = file \o (buffer \o <<r>>)
  BY <1>4, ConcatAssociative
<1>6. Append(Log, r) = Log \o <<r>>
  BY <1>2, <1>4, AppendIsConcat
<1>7. Log' = Append(Log, r)
  BY <1>1, <1>3, <1>5, <1>6 DEF Log
<1> QED
  BY <1>7 DEF r

LEMMA AppendKeepsInv ==
  ASSUME Inv, NEW v \in Values, append(v)
  PROVE  Inv'
<1> DEFINE r == [part |-> "record", sequence |-> next_sequence, value |-> v]
<1>1. /\ pc = "idle" /\ pc' \in {"flush", "idle"} /\ file' = file
      /\ buffer' = Append(buffer, r) /\ next_sequence' = next_sequence + 1
      /\ synced' = synced /\ crashes' = crashes
      /\ Running /\ Running'
  BY DEF append, Running
<1>2. r \in Records /\ r \in Parts /\ IsRecord(r) /\ r.sequence = next_sequence
  BY PartsProperties DEF Records, Inv, TypeOK
<1> HIDE DEF r
<1>3. buffer' \in Seq(Records) /\ next_sequence \in Nat
  BY <1>1, <1>2, AppendProperties DEF Inv, TypeOK
<1>4. next_sequence' \in Nat /\ next_sequence' # 0
  BY <1>1, <1>3
<1>5. TypeOK'
  BY <1>1, <1>3, <1>4 DEF Inv, TypeOK
<1>6. Log' = Append(Log, r)
  BY AppendedLog DEF Inv, r
<1>7. /\ Log \in Seq(Parts) /\ Len(Log) \in Nat
      /\ Len(Log') = Len(Log) + 1 /\ Log'[Len(Log) + 1] = r
      /\ \A i \in 1 .. Len(Log) : Log'[i] = Log[i]
  BY <1>2, <1>6, LogProperties, AppendProperties, LenProperties DEF Inv
<1>8. Numbered(Log')
  <2> SUFFICES ASSUME NEW i \in 1 .. Len(Log'), IsRecord(Log'[i])
               PROVE  Follows(Log', i - 1, Log'[i].sequence)
    BY DEF Numbered
  <2>1. i - 1 \in Nat /\ \A j \in 1 .. i - 1 : Log[j] = Log'[j]
    BY <1>7
  <2>2. CASE i \in 1 .. Len(Log)
    <3>1. Follows(Log, i - 1, Log[i].sequence)
      BY <1>7, <2>2 DEF Inv, Contiguous, Numbered
    <3> QED
      BY <1>7, <2>1, <2>2, <3>1, FollowsSame
  <2>3. CASE i = Len(Log) + 1
    <3>1. Follows(Log, i - 1, next_sequence)
      BY <1>1, <1>7, <2>3 DEF Inv, Contiguous
    <3>2. Log'[i].sequence = next_sequence
      BY <1>2, <1>7, <2>3
    <3> QED
      BY <2>1, <3>1, <3>2, FollowsSame
  <2> QED
    BY <1>7, <2>2, <2>3
<1>9. Follows(Log', Len(Log'), next_sequence')
  BY <1>1, <1>2, <1>7, FollowsRecord
<1>10. Contiguous'
  BY <1>8, <1>9 DEF Contiguous
<1>11. DamageStopsWriter'
  BY <1>1 DEF Inv, DamageStopsWriter
<1> QED
  BY <1>1, <1>5, <1>10, <1>11 DEF Inv

\* Moving the buffer to the file leaves the log as it is.
LEMMA FlushedFile ==
  ASSUME Inv, file' = file \o buffer, buffer' = <<>>
  PROVE  /\ file' \in Seq(Parts) /\ Log' = Log /\ file' = Log
         /\ Len(file) <= Len(file')
         /\ Running => \A i, j \in 1 .. Len(Log) :
               /\ Log[i].part # "payload"
               /\ ~ IsRecord(Log[i]) /\ ~ IsRecord(Log[j]) => i = j
<1>1. /\ file \in Seq(Parts) /\ Log \in Seq(Parts) /\ file' = Log
      /\ buffer \in Seq(Records) /\ buffer \in Seq(Parts)
      /\ Len(file) \in Nat /\ Len(buffer) \in Nat
      /\ Len(Log) = Len(file) + Len(buffer)
  BY LogProperties DEF Inv, Log
<1>2. Log' = Log
  BY <1>1, ConcatEmptySeq DEF Log
<1>3. \A i \in 1 .. Len(Log) :
         (i \in 1 .. Len(file) /\ Log[i] = file[i]) \/ IsRecord(Log[i])
  <2> SUFFICES ASSUME NEW i \in 1 .. Len(Log), i \notin 1 .. Len(file)
               PROVE  IsRecord(Log[i])
    BY LogProperties DEF Inv
  <2>1. Log[i] = buffer[i - Len(file)]
    BY <1>1, ConcatProperties DEF Log
  <2>2. i - Len(file) \in 1 .. Len(buffer)
    BY <1>1
  <2>3. buffer[i - Len(file)] \in Records
    BY <1>1, <2>2, LenProperties
  <2> QED
    BY <2>1, <2>3, PartsProperties
<1>4. ASSUME Running, NEW i \in 1 .. Len(Log), NEW j \in 1 .. Len(Log)
      PROVE  /\ Log[i].part # "payload"
             /\ ~ IsRecord(Log[i]) /\ ~ IsRecord(Log[j]) => i = j
  BY <1>3, <1>4 DEF Inv, DamageStopsWriter, IsRecord
<1> QED
  BY <1>1, <1>2, <1>4

LEMMA FlushKeepsInv ==
  ASSUME Inv, flush
  PROVE  Inv'
<1>1. /\ pc \in {"flush", "flush_sync"} /\ pc' \in {"idle", "fsync"}
      /\ file' = file \o buffer /\ buffer' = <<>>
      /\ next_sequence' = next_sequence /\ synced' = synced /\ crashes' = crashes
      /\ Running /\ Running'
  BY DEF flush, Running
<1>2. /\ file' \in Seq(Parts) /\ Log' = Log /\ file' = Log
      /\ Len(file) <= Len(file') /\ Len(file') \in Nat /\ Len(file) \in Nat
  BY <1>1, FlushedFile, LenProperties, LogProperties DEF Inv
<1>3. buffer' \in Seq(Records)
  BY <1>1, EmptySeq
<1>4. synced' \in 0 .. Len(file')
  BY <1>1, <1>2 DEF Inv, TypeOK
<1>5. TypeOK'
  BY <1>1, <1>2, <1>3, <1>4 DEF Inv, TypeOK, Parts
<1>6. Contiguous'
  BY <1>1, <1>2 DEF Inv, Contiguous
<1>7. DamageStopsWriter'
  BY <1>1, <1>2, FlushedFile DEF DamageStopsWriter
<1> QED
  BY <1>1, <1>5, <1>6, <1>7 DEF Inv

LEMMA CloseKeepsInv ==
  ASSUME Inv, close
  PROVE  Inv'
<1>1. /\ pc = "idle" /\ pc' = "down"
      /\ file' = file \o buffer /\ buffer' = <<>>
      /\ next_sequence' = 0 /\ synced' = synced /\ crashes' = crashes
      /\ ~ Running'
  BY DEF close, Running
<1>2. /\ file' \in Seq(Parts) /\ Log' = Log
      /\ Len(file) <= Len(file') /\ Len(file') \in Nat /\ Len(file) \in Nat
  BY <1>1, FlushedFile, LenProperties, LogProperties DEF Inv
<1>3. buffer' \in Seq(Records)
  BY <1>1, EmptySeq
<1>4. synced' \in 0 .. Len(file')
  BY <1>1, <1>2 DEF Inv, TypeOK
<1>5. TypeOK'
  BY <1>1, <1>2, <1>3, <1>4 DEF Inv, TypeOK, Parts
<1>6. Contiguous'
  BY <1>1, <1>2 DEF Inv, Contiguous
<1> QED
  BY <1>1, <1>5, <1>6 DEF Inv, DamageStopsWriter

LEMMA SyncKeepsInv ==
  ASSUME Inv, sync \/ fsync
  PROVE  Inv'
<1>1. /\ pc' \in {"flush_sync", "idle"} /\ file' = file /\ buffer' = buffer
      /\ next_sequence' = next_sequence /\ crashes' = crashes
      /\ synced' \in {synced, Len(file)} /\ Running /\ Running' /\ Log' = Log
  BY DEF sync, fsync, Running, Log
<1>2. synced' \in 0 .. Len(file')
  BY <1>1, LogProperties DEF Inv, TypeOK
<1>3. TypeOK'
  BY <1>1, <1>2 DEF Inv, TypeOK
<1> QED
  BY <1>1, <1>3, SameLog

LEMMA CrashKeepsInv ==
  ASSUME Inv, kill \/ power_loss
  PROVE  Inv'
<1>1. /\ pc' = "down" /\ buffer' = <<>> /\ next_sequence' = 0
      /\ crashes' = crashes + 1 /\ ~ Running'
      /\ \/ file' \in Leftovers(Flushing, Len(file)) /\ synced' = synced
         \/ file' \in Leftovers(Flushing, synced) /\ synced' = Len(file')
  BY DEF kill, power_loss, Die, Running
<1>2. /\ Flushing \in Seq(Parts) /\ Numbered(Flushing)
      /\ Len(file) \in 0 .. Len(Flushing) /\ synced \in 0 .. Len(Flushing)
      /\ Len(file) \in Nat /\ synced <= Len(file) /\ synced \in Nat
  <2>1. /\ file \in Seq(Parts) /\ Log \in Seq(Parts)
        /\ Len(Log) = Len(file) + Len(buffer)
        /\ Len(file) \in Nat /\ Len(buffer) \in Nat
        /\ \A i \in 1 .. Len(file) : Log[i] = file[i]
        /\ synced \in 0 .. Len(file)
    BY LogProperties DEF Inv, TypeOK
  <2>2. Numbered(Log)
    BY DEF Inv, Contiguous
  <2>3. Numbered(file)
    <3> SUFFICES ASSUME NEW i \in 1 .. Len(file), IsRecord(file[i])
                 PROVE  Follows(file, i - 1, file[i].sequence)
      BY DEF Numbered
    <3>1. /\ i \in 1 .. Len(Log) /\ Log[i] = file[i] /\ i - 1 \in Nat
          /\ \A j \in 1 .. i - 1 : Log[j] = file[j]
      BY <2>1
    <3>2. Follows(Log, i - 1, file[i].sequence)
      BY <2>2, <3>1 DEF Numbered
    <3> QED
      BY <3>1, <3>2, FollowsSame
  <2>4. Flushing = file \/ Flushing = Log
    BY DEF Flushing, Log
  <2> QED
    BY <2>1, <2>2, <2>3, <2>4
<1>3. /\ file' \in Seq(Parts) /\ Numbered(file') /\ synced' \in 0 .. Len(file')
  <2>1. CASE file' \in Leftovers(Flushing, Len(file)) /\ synced' = synced
    <3>1. file' \in Seq(Parts) /\ Numbered(file') /\ Len(file) <= Len(file')
      BY <1>2, <2>1, LeftoversNumbered
    <3>2. Len(file') \in Nat
      BY <3>1, LenProperties
    <3> QED
      BY <1>2, <2>1, <3>1, <3>2
  <2>2. CASE file' \in Leftovers(Flushing, synced) /\ synced' = Len(file')
    <3>1. file' \in Seq(Parts) /\ Numbered(file')
      BY <1>2, <2>2, LeftoversNumbered
    <3>2. Len(file') \in Nat
      BY <3>1, LenProperties
    <3> QED
      BY <2>2, <3>1, <3>2
  <2> QED
    BY <1>1, <2>1, <2>2
<1>4. buffer' \in Seq(Records) /\ Log' = file'
  <2>1. file' \o <<>> = file'
    BY <1>3, ConcatEmptySeq
  <2> QED
    BY <1>1, <2>1, EmptySeq DEF Log
<1>5. crashes' \in Nat
  BY <1>1 DEF Inv, TypeOK
<1>6. TypeOK'
  BY <1>1, <1>3, <1>4, <1>5 DEF TypeOK, Parts
<1>7. Contiguous'
  BY <1>1, <1>3, <1>4 DEF Contiguous
<1> QED
  BY <1>1, <1>6, <1>7 DEF Inv, DamageStopsWriter

LEMMA NextKeepsInv ==
  ASSUME Inv, [Next]_vars
  PROVE  Inv'
<1>1. CASE UNCHANGED vars
  <2>1. /\ Log' = Log /\ file' = file /\ Running' = Running
        /\ next_sequence' = next_sequence /\ buffer' = buffer
    BY <1>1 DEF vars, Log, Running
  <2>2. TypeOK'
    BY <1>1 DEF vars, Inv, TypeOK, Running
  <2> QED
    BY <2>1, <2>2, SameLog DEF Inv
<1> QED
  BY <1>1, OpenKeepsInv, OpenFailsKeepsInv, AppendKeepsInv, FlushKeepsInv,
     CloseKeepsInv, SyncKeepsInv, CrashKeepsInv DEF Next

\* The inductive invariant holds in every reachable state.
THEOREM InvHolds == Spec => []Inv
BY InitInv, NextKeepsInv, PTL DEF Spec

\* The records of the log are numbered without gap or repetition, however often
\* and wherever the process or the machine dies.
THEOREM LogIsContiguous == Spec => []Contiguous
<1>1. Inv => Contiguous
  BY DEF Inv
<1> QED
  BY <1>1, InvHolds, PTL

\* A writer never runs on a log that it could not read to its end.
THEOREM DamageIsDetected == Spec => []DamageStopsWriter
<1>1. Inv => DamageStopsWriter
  BY DEF Inv
<1> QED
  BY <1>1, InvHolds, PTL

-----------------------------------------------------------------------------
(* The inductive invariant, besides that of the log                        *)

\* The frames applied to the books, and the offset published last.
Applied == IF turn = "feed" THEN frames - 1 ELSE frames
Published == IF turn = "feed" THEN next_sequence - 2 ELSE next_sequence - 1

\* The books have the frames of the blocks and of the turn so far, in order.
LoopInv ==
    /\ turn \in {"idle", "feed", "fills", "persist", "stopped"}
    /\ frames \in Nat /\ birth \in 0 .. frames /\ processed \in Nat /\ block_number \in Nat
    /\ turn # "idle" => Running
    /\ turn = "feed" => frames > birth
    /\ state \in Seq(Nat) /\ \A i \in 1 .. Len(state) : state[i] = birth + i
    /\ Running => birth + Len(state) = Applied
    /\ ~ Running => state = <<>>
    /\ block_number + processed = Len(state) + (IF turn = "feed" THEN 1 ELSE 0)

FeedFrames == [wal_offset : Nat, payload : Nat]

\* The feed has the records published last, with consecutive offsets.
FeedInv ==
    /\ express_feed_frames_ \in Seq(FeedFrames)
    /\ Len(express_feed_frames_) <= express_feed_capacity
    /\ feed_reader \in [next : Nat, got : Seq(FeedFrames), missed : BOOLEAN]
    /\ ~ Running => express_feed_frames_ = <<>>
    /\ Running =>
          /\ \A i \in 1 .. Len(express_feed_frames_) :
                express_feed_frames_[i].wal_offset = Published - Len(express_feed_frames_) + i
          /\ turn = "feed" =>
                /\ Log # <<>>
                /\ Log[Len(Log)] = [part |-> "record", sequence |-> next_sequence - 1,
                                    value |-> frames]
    /\ FeedMatchesLog

MetadataRecords == [wal_offset : Nat]

\* The metadata are the last of all pushed, and offsets never decrease.
MetadataInv ==
    /\ trade_metadata_ \in Seq(MetadataRecords) /\ fills \in Seq(MetadataRecords)
    /\ metadata_reader \in [got : Seq(MetadataRecords), late : BOOLEAN]
    /\ Len(trade_metadata_) =
          IF Len(fills) < trade_metadata_capacity THEN Len(fills) ELSE trade_metadata_capacity
    /\ \A i \in 1 .. Len(trade_metadata_) :
          trade_metadata_[i] = fills[Len(fills) - Len(trade_metadata_) + i]
    /\ \A i, j \in 1 .. Len(fills) : i <= j => fills[i].wal_offset <= fills[j].wal_offset
    /\ Running => \A i \in 1 .. Len(fills) : fills[i].wal_offset <= wal_offset
    /\ MetadataComplete

\* The n-th record of the first process has number n and the n-th frame, and
\* nothing torn is before it.
FirstLog(l) ==
    \A i \in 1 .. Len(l) : IF IsRecord(l[i]) THEN l[i].sequence = i /\ l[i].value = i
                                              ELSE i = Len(l)

FirstInv ==
    ~ restarted =>
        /\ birth = 0
        /\ FirstLog(Log)
        /\ Running => /\ \A i \in 1 .. Len(Log) : IsRecord(Log[i])
                      /\ next_sequence = Len(Log) + 1 /\ frames = Len(Log)

\* Record c of a log has one of the first m frames, and, if that came after the first
\* b, a number at least as high as its place among the later ones.
OwnRecord(c, b, m) ==
    IsRecord(c) => /\ c.value \in 1 .. m
                   /\ c.value > b => c.sequence >= c.value - b

OwnInv ==
    /\ \A i \in 1 .. Len(Log) : OwnRecord(Log[i], birth, frames)
    /\ Running => next_sequence > frames - birth

RecoveryInv == Inv /\ LoopInv /\ FeedInv /\ MetadataInv /\ FirstInv /\ OwnInv

USE CapacityAssumption, IntervalAssumption

-----------------------------------------------------------------------------
(* Operators on sequences                                                  *)

\* A set of natural numbers has a least element.
LEMMA LeastNat ==
    ASSUME NEW T \in SUBSET Nat, T # {}
    PROVE  \E x \in T : \A y \in T : x <= y
  <1> DEFINE R == OpToRel(<, Nat)
  <1>1. IsWellFoundedOn(R, Nat)
    BY NatLessThanWellFounded, Zenon
  <1>2. \A x, y \in Nat : <<x, y>> \in R <=> x < y
    BY DEF OpToRel
  <1> HIDE DEF R
  <1>3. PICK x \in T : \A y \in T : ~ (<<y, x>> \in R)
    BY <1>1, WFMin, Zenon
  <1>4. ASSUME NEW y \in T PROVE x <= y
    <2>1. x \in Nat /\ y \in Nat /\ ~ (y < x)
      BY <1>2, <1>3
    <2> QED
      BY <2>1
  <1> QED
    BY <1>4

\* To select an interval is to shift the indexes.
LEMMA SelectionOfInterval ==
    ASSUME NEW s, NEW n \in Nat, NEW k \in 0 .. n
    PROVE  Selection(s, k + 1 .. n) = [i \in 1 .. n - k |-> s[k + i]]
  <1> DEFINE I == k + 1 .. n
             At(i) == CHOOSE h \in I : Cardinality({j \in I : j <= h}) = i
  <1>1. Cardinality(I) = n - k
    <2>1. k + 1 \in Int /\ n \in Int
      OBVIOUS
    <2>2. Cardinality(I) = IF k + 1 > n THEN 0 ELSE n - (k + 1) + 1
      BY <2>1, FS_Interval
    <2> QED
      BY <2>2
  <1>2. ASSUME NEW h \in I PROVE Cardinality({j \in I : j <= h}) = h - k
    <2>1. {j \in I : j <= h} = k + 1 .. h
      <3> DEFINE A == {j \in I : j <= h}
                 B == k + 1 .. h
      <3>1. \A x : x \in A <=> x \in B
        OBVIOUS
      <3> HIDE DEF A, B
      <3>2. A = B
        BY <3>1, Zenon
      <3> QED
        BY <3>2, Zenon DEF A, B
    <2>2. k + 1 \in Int /\ h \in Int /\ ~ (k + 1 > h)
      OBVIOUS
    <2>3. Cardinality(k + 1 .. h) = h - k
      BY <2>2, FS_Interval
    <2> QED
      BY <2>1, <2>3, Zenon
  <1>3. ASSUME NEW i \in 1 .. n - k PROVE At(i) = k + i
    <2>1. k + i \in I /\ (k + i) - k = i /\ \A h \in I : h - k = i => h = k + i
      OBVIOUS
    <2>2. k + i \in I /\ Cardinality({j \in I : j <= k + i}) = i
      BY <1>2, <2>1
    <2>3. \A h \in I : Cardinality({j \in I : j <= h}) = i => h = k + i
      BY <1>2, <2>1
    <2> QED
      BY <2>2, <2>3
  <1>4. Selection(s, I) = [i \in 1 .. Cardinality(I) |-> s[At(i)]]
    BY DEF Selection
  <1> HIDE DEF I, At
  <1> QED
    BY <1>1, <1>3, <1>4 DEF I

\* The same, element by element.
LEMMA SelectionElements ==
    ASSUME NEW s, NEW n \in Nat, NEW k \in 0 .. n
    PROVE  /\ DOMAIN Selection(s, k + 1 .. n) = 1 .. n - k
           /\ \A i \in 1 .. n - k : Selection(s, k + 1 .. n)[i] = s[k + i]
  <1>1. Selection(s, k + 1 .. n) = [i \in 1 .. n - k |-> s[k + i]]
    BY SelectionOfInterval
  <1> QED
    BY ONLY <1>1

\* A query with ascending offsets returns the end of the buffer.
LEMMA SinceProperties ==
    ASSUME NEW S, \A r \in S : r.wal_offset \in Nat,
           NEW b \in Seq(S), NEW m \in Nat,
           \A i, j \in 1 .. Len(b) : i <= j => b[i].wal_offset <= b[j].wal_offset
    PROVE  \E k \in 0 .. Len(b) :
              /\ Since(b, m) \in Seq(S) /\ Len(Since(b, m)) = Len(b) - k
              /\ \A i \in 1 .. Len(b) - k : Since(b, m)[i] = b[k + i]
              /\ \A i \in 1 .. k : b[i].wal_offset < m
              /\ \A i \in k + 1 .. Len(b) : b[i].wal_offset >= m
  <1> DEFINE n == Len(b)
             I == {i \in 1 .. n : b[i].wal_offset >= m}
  <1>1. n \in Nat /\ \A i \in 1 .. n : b[i] \in S /\ b[i].wal_offset \in Nat
    OBVIOUS
  <1>2. PICK k \in 0 .. n : I = k + 1 .. n
    <2>1. CASE I = {}
      <3>1. I = n + 1 .. n /\ n \in 0 .. n
        BY <1>1, <2>1
      <3> QED
        BY <3>1
    <2>2. CASE I # {}
      <3>1. I \in SUBSET Nat
        OBVIOUS
      <3>2. PICK x \in I : \A y \in I : x <= y
        BY <2>2, <3>1, LeastNat
      <3>3. ASSUME NEW y \in x .. n PROVE y \in I
        <4>1. x \in 1 .. n /\ y \in 1 .. n /\ x <= y
          BY <1>1, <3>2
        <4>2. b[x].wal_offset <= b[y].wal_offset /\ b[x].wal_offset >= m
          BY <3>2, <4>1
        <4> QED
          BY <1>1, <4>1, <4>2
      <3>4. I = (x - 1) + 1 .. n /\ x - 1 \in 0 .. n
        BY <1>1, <3>2, <3>3
      <3> QED
        BY <3>4
    <2> QED
      BY <2>1, <2>2
  <1>3. Since(b, m) = [i \in 1 .. n - k |-> b[k + i]]
    <2>1. Since(b, m) = Selection(b, I)
      BY DEF Since
    <2>2. Selection(b, k + 1 .. n) = [i \in 1 .. n - k |-> b[k + i]]
      BY <1>1, SelectionOfInterval
    <2> HIDE DEF I
    <2> QED
      BY <1>2, <2>1, <2>2
  <1>4. \A i \in 1 .. n - k : b[k + i] \in S
    BY <1>1
  <1>5. Since(b, m) \in Seq(S) /\ Len(Since(b, m)) = n - k
    <2>1. n - k \in Nat
      BY <1>1
    <2> QED
      BY <1>3, <1>4, <2>1, IsASeq
  <1>6. \A i \in 1 .. k : b[i].wal_offset < m
    <2> TAKE i \in 1 .. k
    <2>1. i \in 1 .. n /\ i \notin k + 1 .. n
      BY <1>1
    <2> QED
      BY <1>1, <1>2, <2>1
  <1>7. \A i \in k + 1 .. n : b[i].wal_offset >= m
    BY <1>2
  <1> QED
    BY <1>3, <1>5, <1>6, <1>7

\* Buffer c of elements of S is b with v behind it, without what is too much.
Pushed(S, b, cap, v, c) ==
    /\ c \in Seq(S)
    /\ Len(c) = IF Len(b) < cap THEN Len(b) + 1 ELSE cap
    /\ c[Len(c)] = v
    /\ \A i \in 1 .. Len(c) - 1 : c[i] = b[Len(b) + 1 - Len(c) + i]

\* A buffer that gets a new element keeps the last ones.
LEMMA PushProperties ==
    ASSUME NEW S, NEW b \in Seq(S), NEW cap \in Nat \ {0}, Len(b) <= cap, NEW v \in S,
           NEW c, c = push_with_fifo_eviction(b, cap, v)
    PROVE  Pushed(S, b, cap, v, c)
  <1> USE DEF Pushed
  <1> DEFINE all == Append(b, v)
  <1>1. /\ all \in Seq(S) /\ Len(all) = Len(b) + 1 /\ all[Len(b) + 1] = v /\ Len(b) \in Nat
        /\ \A i \in 1 .. Len(b) : all[i] = b[i]
    OBVIOUS
  <1>2. CASE Len(b) < cap
    <2>1. c = all
      BY <1>1, <1>2 DEF push_with_fifo_eviction
    <2> QED
      BY <1>1, <1>2, <2>1
  <1>3. CASE ~ (Len(b) < cap)
    <2>0. Len(b) = cap /\ ~ (Len(all) <= cap) /\ b # <<>>
      BY <1>1, <1>3
    <2>1. Len(b) = cap /\ c = SubSeq(all, 2, Len(b) + 1)
      BY <1>1, <2>0 DEF push_with_fifo_eviction
    <2> HIDE DEF all
    <2>2. c \in Seq(S) /\ Len(c) = Len(b) /\ \A i \in 1 .. Len(b) : c[i] = all[i + 1]
      BY <1>1, <2>1
    <2> QED
      BY <1>1, <1>3, <2>1, <2>2
  <1> QED
    BY <1>2, <1>3
-----------------------------------------------------------------------------
(* What a step leaves alone                                                *)

\* Every step of this system is one of the log's, or leaves the log alone.
LEMMA LogStep ==
    ASSUME [RecoveryNext]_recovery_vars
    PROVE  [Next]_vars
  <1>1. CASE UNCHANGED recovery_vars
    BY <1>1 DEF recovery_vars
  <1>2. CASE process_frame
    BY <1>2 DEF process_frame, Next
  <1>3. CASE push_feed \/ push_fill \/ end_frame \/ end_turn \/ start_snapshot
             \/ continue_snapshot \/ poll
    BY <1>3 DEF push_feed, push_fill, end_frame, end_turn, start_snapshot,
                continue_snapshot, poll
  <1>4. CASE write_log \/ shut_down
    BY <1>4 DEF write_log, shut_down, Next
  <1>5. CASE exit \/ die \/ snapshot_throws \/ lose_power \/ restart \/ restart_fails
    BY <1>5 DEF exit, die, snapshot_throws, lose_power, restart, restart_fails, Next
  <1> QED
    BY <1>1, <1>2, <1>3, <1>4, <1>5 DEF RecoveryNext

\* A log that grows keeps what it has.
LEMMA InLogKept ==
    ASSUME Log' = Log \/ (TypeOK /\ \E c \in Parts : Log' = Append(Log, c)),
           NEW r, InLog(r)
    PROVE  \E i \in 1 .. Len(Log') : /\ IsRecord(Log'[i])
                                     /\ Log'[i].sequence = r.wal_offset
                                     /\ Log'[i].value = r.payload
  <1>1. CASE Log' = Log
    BY <1>1 DEF InLog
  <1>2. CASE TypeOK /\ \E c \in Parts : Log' = Append(Log, c)
    <2>1. Log \in Seq(Parts)
      BY <1>2, LogProperties
    <2>2. Len(Log') = Len(Log) + 1 /\ Len(Log) \in Nat
          /\ \A i \in 1 .. Len(Log) : Log'[i] = Log[i]
      BY <1>2, <2>1, AppendProperties, LenProperties
    <2>3. PICK i \in 1 .. Len(Log) : /\ IsRecord(Log[i])
                                     /\ Log[i].sequence = r.wal_offset
                                     /\ Log[i].value = r.payload
      BY DEF InLog
    <2>4. i \in 1 .. Len(Log') /\ Log'[i] = Log[i]
      BY <2>2
    <2> QED
      BY <2>3, <2>4
  <1> QED
    BY <1>1, <1>2

feed_vars == <<express_feed_frames_, feed_reader>>
metadata_vars == <<trade_metadata_, fills, metadata_reader>>

\* A step that leaves the feed and its reader alone, in a process that runs on.
LEMMA SameFeed ==
    ASSUME FeedInv, UNCHANGED feed_vars, ~ Running' => ~ Running,
           Running' => /\ Running /\ Published' = Published
                       /\ Log' = Log \/ (TypeOK /\ \E c \in Parts : Log' = Append(Log, c)),
           Running' /\ turn' = "feed" =>
               /\ Log' # <<>>
               /\ Log'[Len(Log')] = [part |-> "record", sequence |-> next_sequence' - 1,
                                     value |-> frames']
    PROVE  FeedInv'
  <1>1. FeedMatchesLog'
    <2> SUFFICES ASSUME Running'
                 PROVE  /\ \A i \in 1 .. Len(express_feed_frames_) :
                              InLog(express_feed_frames_[i])'
                        /\ \A i \in 1 .. Len(feed_reader.got) : InLog(feed_reader.got[i])'
                        /\ ~ feed_reader.missed =>
                              \A i \in 1 .. Len(feed_reader.got) :
                                  feed_reader.got[i].wal_offset
                                      = feed_reader.next - Len(feed_reader.got) + i - 1
      BY DEF FeedMatchesLog, feed_vars
    <2>1. \A i \in 1 .. Len(express_feed_frames_) : InLog(express_feed_frames_[i])'
      <3> TAKE i \in 1 .. Len(express_feed_frames_)
      <3>1. InLog(express_feed_frames_[i])
        BY DEF FeedInv, FeedMatchesLog
      <3> QED
        BY <3>1, InLogKept DEF InLog, feed_vars
    <2>2. \A i \in 1 .. Len(feed_reader.got) : InLog(feed_reader.got[i])'
      <3> TAKE i \in 1 .. Len(feed_reader.got)
      <3>1. InLog(feed_reader.got[i])
        BY DEF FeedInv, FeedMatchesLog
      <3> QED
        BY <3>1, InLogKept DEF InLog, feed_vars
    <2> QED
      BY <2>1, <2>2 DEF FeedInv, FeedMatchesLog
  <1> QED
    BY <1>1 DEF FeedInv, feed_vars

\* A step that leaves the metadata and its reader alone.
LEMMA SameMetadata ==
    ASSUME MetadataInv, UNCHANGED metadata_vars, next_sequence \in Nat,
           Running' => Running /\ next_sequence' \in {next_sequence, next_sequence + 1}
    PROVE  MetadataInv'
  <1>1. Running' => \A i \in 1 .. Len(fills) : fills[i].wal_offset <= next_sequence' - 1
    <2> SUFFICES ASSUME Running', NEW i \in 1 .. Len(fills)
                 PROVE  fills[i].wal_offset <= next_sequence' - 1
      OBVIOUS
    <2>1. fills[i] \in MetadataRecords
      BY DEF MetadataInv
    <2>2. fills[i].wal_offset \in Nat
      BY <2>1 DEF MetadataRecords
    <2>3. fills[i].wal_offset <= next_sequence - 1
      BY DEF MetadataInv, wal_offset
    <2> QED
      BY <2>2, <2>3
  <1> QED
    BY <1>1 DEF MetadataInv, metadata_vars, wal_offset, MetadataComplete

\* What the first process has written is kept by a step that changes none of it.
LEMMA SameFirst ==
    ASSUME FirstInv, OwnInv, Log' = Log, UNCHANGED <<frames, birth, restarted>>,
           Running' => Running /\ UNCHANGED next_sequence
    PROVE  FirstInv' /\ OwnInv'
  BY DEF FirstInv, FirstLog, OwnInv

-----------------------------------------------------------------------------
(* The invariant: the loop                                                 *)

LEMMA RecoveryInitInv == RecoveryInit => RecoveryInv
  <1> SUFFICES ASSUME RecoveryInit PROVE RecoveryInv
    OBVIOUS
  <1>1. Inv /\ Running /\ Len(Log) = 0 /\ next_sequence = 1
    <2>1. Inv /\ Running
      BY InitInv DEF RecoveryInit, Init, Running
    <2> QED
      BY <2>1, LogProperties DEF Inv, RecoveryInit, Init
  <1>2. LoopInv
    BY <1>1 DEF RecoveryInit, LoopInv, Applied
  <1>3. FeedInv
    <2>1. feed_reader \in [next : Nat, got : Seq(FeedFrames), missed : BOOLEAN]
          /\ feed_reader.got = <<>>
      BY DEF RecoveryInit, RouterInit, FeedReader
    <2> QED
      BY <2>1 DEF RecoveryInit, RouterInit, FeedInv, FeedMatchesLog
  <1>4. MetadataInv
    <2>1. metadata_reader \in [got : Seq(MetadataRecords), late : BOOLEAN]
          /\ metadata_reader.got = <<>>
      BY DEF RecoveryInit, RouterInit, MetadataReader
    <2>2. MetadataComplete
      BY <2>1 DEF MetadataComplete, IsPrefix, RecoveryInit, RouterInit
    <2> QED
      BY <2>1, <2>2 DEF RecoveryInit, RouterInit, MetadataInv
  <1>5. FirstInv /\ OwnInv
    BY <1>1 DEF RecoveryInit, FirstInv, FirstLog, OwnInv
  <1> QED
    BY <1>1, <1>2, <1>3, <1>4, <1>5 DEF RecoveryInv
\* A frame joins the log, with the number that the feed will show.
LEMMA ProcessFrameKeepsInv ==
    ASSUME RecoveryInv, process_frame
    PROVE  RecoveryInv'
  <1> DEFINE r == [part |-> "record", sequence |-> next_sequence, value |-> frames + 1]
  <1>1. /\ turn = "idle" /\ turn' = "feed" /\ frames' = frames + 1
        /\ next_sequence' = next_sequence + 1 /\ processed' = processed + 1
        /\ Running /\ Running' /\ append(frames + 1) /\ frames + 1 \in Values
    BY DEF process_frame, append, Running
  <1>2. UNCHANGED <<state, block_number, birth, restarted, feed_vars, metadata_vars>>
    BY DEF process_frame, router_vars, buffers, readers, feed_vars, metadata_vars
  <1>3. TypeOK /\ next_sequence \in Nat /\ next_sequence # 0 /\ frames \in Nat
    BY <1>1 DEF RecoveryInv, Inv, TypeOK, LoopInv
  <1>4. Inv'
    BY <1>1, AppendKeepsInv DEF RecoveryInv
  <1>5. Log' = Append(Log, r) /\ r \in Parts /\ IsRecord(r)
    BY <1>1, <1>3, AppendedLog, PartsProperties DEF Records
  <1> HIDE DEF r
  <1>6. /\ Log \in Seq(Parts) /\ Len(Log) \in Nat
        /\ Len(Log') = Len(Log) + 1 /\ Log'[Len(Log) + 1] = r
        /\ \A i \in 1 .. Len(Log) : Log'[i] = Log[i]
    BY <1>3, <1>5, LogProperties, AppendProperties, LenProperties
  <1>7. LoopInv'
    <2>1. Applied' = Applied /\ Applied = frames
      BY <1>1, <1>3 DEF Applied
    <2>3. /\ processed' \in Nat
          /\ block_number' + processed' = Len(state') + 1
      BY <1>1, <1>2 DEF RecoveryInv, LoopInv
    <2>4. frames' \in Nat /\ frames' > birth' /\ birth' \in 0 .. frames'
      BY <1>1, <1>2, <1>3 DEF RecoveryInv, LoopInv
    <2> QED
      BY <1>1, <1>2, <2>1, <2>3, <2>4 DEF RecoveryInv, LoopInv
  <1>8. FeedInv'
    <2>1. Published' = Published
      BY <1>1, <1>3 DEF Published
    <2>2. Log' # <<>> /\ Log'[Len(Log')] = r
      BY <1>6
    <2>3. r = [part |-> "record", sequence |-> next_sequence' - 1, value |-> frames']
      BY <1>1, <1>3 DEF r
    <2> QED
      BY <1>1, <1>2, <1>3, <1>5, <2>1, <2>2, <2>3, SameFeed DEF RecoveryInv
  <1>9. MetadataInv'
    BY <1>1, <1>2, <1>3, SameMetadata DEF RecoveryInv
  <1>10. FirstInv'
    <2> SUFFICES ASSUME ~ restarted PROVE FirstInv'
      BY <1>2 DEF FirstInv
    <2>1. /\ \A i \in 1 .. Len(Log) : IsRecord(Log[i]) /\ Log[i].sequence = i /\ Log[i].value = i
          /\ next_sequence = Len(Log) + 1 /\ frames = Len(Log) /\ birth = 0
      BY <1>1 DEF RecoveryInv, FirstInv, FirstLog
    <2>2. r.sequence = Len(Log) + 1 /\ r.value = Len(Log) + 1
      BY <2>1 DEF r
    <2>3. ASSUME NEW i \in 1 .. Len(Log')
          PROVE  IsRecord(Log'[i]) /\ Log'[i].sequence = i /\ Log'[i].value = i
      <3>1. i \in 1 .. Len(Log) \/ i = Len(Log) + 1
        BY <1>6
      <3> QED
        BY <1>5, <1>6, <2>1, <2>2, <3>1
    <2>4. FirstLog(Log')
      BY <2>3 DEF FirstLog
    <2>5. frames' = Len(Log') /\ next_sequence' = Len(Log') + 1 /\ birth' = 0
      BY <1>1, <1>2, <1>3, <1>6, <2>1
    <2> QED
      BY <2>3, <2>4, <2>5 DEF FirstInv
  <1>11. OwnInv'
    <2>1. next_sequence > frames - birth /\ birth \in Nat
      BY <1>1 DEF RecoveryInv, OwnInv, LoopInv
    <2>2. ASSUME NEW i \in 1 .. Len(Log') PROVE OwnRecord(Log'[i], birth, frames + 1)
      <3>1. CASE i \in 1 .. Len(Log)
        <4>1. OwnRecord(Log[i], birth, frames) /\ Log'[i] = Log[i]
          BY <1>6, <3>1 DEF RecoveryInv, OwnInv
        <4> QED
          BY <1>3, <4>1 DEF OwnRecord
      <3>2. CASE i = Len(Log) + 1
        <4>1. r.value = frames + 1 /\ r.sequence = next_sequence
          BY DEF r
        <4>2. frames + 1 \in 1 .. frames + 1 /\ next_sequence >= (frames + 1) - birth
          BY <1>3, <2>1
        <4> QED
          BY <1>6, <3>2, <4>1, <4>2 DEF OwnRecord
      <3> QED
        BY <1>6, <3>1, <3>2
    <2>3. next_sequence + 1 > (frames + 1) - birth
      BY <1>3, <2>1
    <2> QED
      BY <1>1, <1>2, <2>2, <2>3 DEF OwnInv
  <1> QED
    BY <1>4, <1>7, <1>8, <1>9, <1>10, <1>11 DEF RecoveryInv

\* The frame is published under the number it has in the log, and applied.
LEMMA PushFeedKeepsInv ==
    ASSUME RecoveryInv, push_feed
    PROVE  RecoveryInv'
  <1> DEFINE f == [wal_offset |-> wal_offset, payload |-> frames]
             b == express_feed_frames_
  <1>1. /\ turn = "feed" /\ turn' = "fills" /\ state' = Append(state, frames)
        /\ b' = push_with_fifo_eviction(b, express_feed_capacity, f)
        /\ feed_reader' = feed_reader
        /\ UNCHANGED <<vars, metadata_vars, processed, block_number, frames, birth, restarted>>
    BY DEF push_feed, push_express_feed_frame, readers, metadata_vars, history
  <1>2. Running /\ Running' /\ Log' = Log
    BY <1>1 DEF RecoveryInv, LoopInv, Running, vars, Log
  <1>3. /\ next_sequence \in Nat /\ next_sequence # 0 /\ frames \in Nat
        /\ next_sequence' = next_sequence /\ TypeOK
    BY <1>1, <1>2 DEF RecoveryInv, Inv, TypeOK, LoopInv, vars
  <1>4. Inv'
    BY <1>1, NextKeepsInv DEF RecoveryInv
  <1>5. /\ Applied = frames - 1 /\ Applied' = frames /\ birth \in Nat
        /\ birth + Len(state) = frames - 1
    BY <1>1, <1>2, <1>3 DEF RecoveryInv, LoopInv, Applied
  <1>6. /\ state \in Seq(Nat) /\ Len(state) \in Nat /\ state' \in Seq(Nat)
        /\ Len(state') = Len(state) + 1 /\ state'[Len(state) + 1] = frames
        /\ \A i \in 1 .. Len(state) : state'[i] = state[i]
    <2>1. state \in Seq(Nat)
      BY DEF RecoveryInv, LoopInv
    <2> QED
      BY <1>1, <1>3, <2>1, AppendProperties, LenProperties
  <1>7. LoopInv'
    <2>1. \A i \in 1 .. Len(state') : state'[i] = birth + i
      <3> TAKE i \in 1 .. Len(state')
      <3>1. i \in 1 .. Len(state) \/ (i = Len(state) + 1 /\ birth + i = frames)
        BY <1>3, <1>5, <1>6
      <3> QED
        BY <1>6, <3>1 DEF RecoveryInv, LoopInv
    <2>2. birth + Len(state') = frames
      BY <1>3, <1>5, <1>6
    <2> QED
      BY <1>1, <1>2, <1>5, <1>6, <2>1, <2>2 DEF RecoveryInv, LoopInv
  <1>8. FeedInv'
    <2>1. f \in FeedFrames /\ f.wal_offset = next_sequence - 1
      BY <1>3 DEF FeedFrames, wal_offset
    <2> HIDE DEF f
    <2>2. b \in Seq(FeedFrames) /\ Len(b) <= express_feed_capacity /\ Len(b) \in Nat
      BY DEF RecoveryInv, FeedInv
    <2>3. /\ b' \in Seq(FeedFrames) /\ Len(b') \in Nat
          /\ Len(b') = IF Len(b) < express_feed_capacity THEN Len(b) + 1 ELSE express_feed_capacity
          /\ b'[Len(b')] = f
          /\ \A i \in 1 .. Len(b') - 1 : b'[i] = b[Len(b) + 1 - Len(b') + i]
      <3>0. PICK c : c = push_with_fifo_eviction(b, express_feed_capacity, f)
        OBVIOUS
      <3>1. Pushed(FeedFrames, b, express_feed_capacity, f, c)
        BY <2>1, <2>2, <3>0, CapacityAssumption, PushProperties, Zenon
      <3>2. b' = c
        BY <1>1, <3>0 DEF f
      <3>3. Len(c) \in Nat
        BY <3>1, LenProperties DEF Pushed
      <3> QED
        BY <3>1, <3>2, <3>3, Zenon DEF Pushed
    <2>4. Len(b') <= express_feed_capacity /\ Len(b') <= Len(b) + 1 /\ Len(b') > 0
      BY <2>2, <2>3
    <2>5. InLog(f)
      <3>1. /\ Log # <<>> /\ Log \in Seq(Parts)
            /\ Log[Len(Log)] = [part |-> "record", sequence |-> next_sequence - 1, value |-> frames]
        BY <1>1, <1>2, <1>3, LogProperties DEF RecoveryInv, FeedInv
      <3>2. Len(Log) \in 1 .. Len(Log)
        BY <3>1
      <3> QED
        BY <3>1, <3>2 DEF InLog, IsRecord, f, wal_offset
    <2>6. ASSUME NEW i \in 1 .. Len(b')
          PROVE  InLog(b'[i]) /\ b'[i].wal_offset = Published' - Len(b') + i
      <3>1. CASE i = Len(b')
        BY <1>1, <1>3, <2>1, <2>3, <2>5, <3>1 DEF Published
      <3>2. CASE i # Len(b')
        <4>1. i \in 1 .. Len(b') - 1 /\ Len(b) + 1 - Len(b') + i \in 1 .. Len(b)
          BY <2>2, <2>3, <2>4, <3>2
        <4>2. b'[i] = b[Len(b) + 1 - Len(b') + i]
          BY <2>3, <4>1
        <4>3. b'[i].wal_offset = Published - Len(b) + (Len(b) + 1 - Len(b') + i) /\ InLog(b'[i])
          BY <1>2, <4>1, <4>2 DEF RecoveryInv, FeedInv, FeedMatchesLog
        <4>4. Published = next_sequence - 2 /\ Published' = next_sequence - 1
          BY <1>1, <1>3 DEF Published
        <4> QED
          BY <1>3, <2>2, <2>3, <4>3, <4>4
      <3> QED
        BY <3>1, <3>2
    <2>7. \A i \in 1 .. Len(b') : InLog(b[i])'
      BY <1>2, <2>6 DEF InLog
    <2>8. FeedMatchesLog'
      BY <1>1, <1>2, <2>7 DEF RecoveryInv, FeedInv, FeedMatchesLog, InLog
    <2> QED
      BY <1>1, <1>2, <2>3, <2>4, <2>6, <2>8 DEF RecoveryInv, FeedInv
  <1>9. MetadataInv'
    BY <1>1, <1>2, <1>3, SameMetadata DEF RecoveryInv
  <1>10. FirstInv' /\ OwnInv'
    BY <1>1, <1>2, <1>3, SameFirst DEF RecoveryInv
  <1> QED
    BY <1>4, <1>7, <1>8, <1>9, <1>10 DEF RecoveryInv

\* A prefix, element by element.
LEMMA PrefixElements ==
    ASSUME NEW S, NEW s \in Seq(S), NEW t \in Seq(S)
    PROVE  IsPrefix(s, t) <=> Len(s) <= Len(t) /\ \A i \in 1 .. Len(s) : s[i] = t[i]
  <1>1. Len(s) \in Nat /\ Len(t) \in Nat
    OBVIOUS
  <1>2. SubSeq(s, 1, Len(s)) = s
    BY SubSeqFull
  <1>3. CASE Len(s) <= Len(t)
    <2>1. /\ SubSeq(t, 1, Len(s)) \in Seq(S) /\ Len(SubSeq(t, 1, Len(s))) = Len(s)
          /\ \A i \in 1 .. Len(s) : SubSeq(t, 1, Len(s))[i] = t[i]
      BY <1>1, <1>3
    <2>2. s = SubSeq(t, 1, Len(s)) <=> \A i \in 1 .. Len(s) : s[i] = t[i]
      BY <2>1, SeqEqual
    <2> QED
      BY <1>2, <1>3, <2>2 DEF IsPrefix
  <1>4. CASE ~ (Len(s) <= Len(t))
    BY <1>4 DEF IsPrefix
  <1> QED
    BY <1>3, <1>4

\* A fill carries the offset of its order, the highest one so far.
LEMMA PushFillKeepsInv ==
    ASSUME RecoveryInv, push_fill
    PROVE  RecoveryInv'
  <1> DEFINE m == [wal_offset |-> wal_offset]
             b == trade_metadata_
             cap == trade_metadata_capacity
             got == metadata_reader.got
  <1>1. /\ turn = "fills"
        /\ b' = push_with_fifo_eviction(b, cap, m)
        /\ fills' = Append(fills, m)
        /\ metadata_reader' = metadata_reader
        /\ UNCHANGED <<vars, feed_vars, loop, snapshots, history>>
    BY DEF push_fill, push_trade_metadata, readers, feed_vars
  <1>2. /\ Running /\ Running' /\ Log' = Log /\ turn' = turn
        /\ UNCHANGED <<state, frames, birth, restarted>>
    BY <1>1 DEF RecoveryInv, LoopInv, Running, vars, Log, loop, history
  <1>3. /\ next_sequence \in Nat /\ next_sequence # 0
        /\ next_sequence' = next_sequence /\ wal_offset' = wal_offset
        /\ wal_offset = next_sequence - 1
    BY <1>1, <1>2 DEF RecoveryInv, Inv, TypeOK, vars, wal_offset
  <1>4. Inv'
    BY <1>1, NextKeepsInv DEF RecoveryInv
  <1>5. LoopInv'
    BY <1>1, <1>2 DEF RecoveryInv, LoopInv, loop, history, Applied
  <1>6. FeedInv'
    BY <1>1, <1>2, <1>3, SameFeed DEF RecoveryInv, Published
  <1>7. FirstInv' /\ OwnInv'
    BY <1>1, <1>2, <1>3, SameFirst DEF RecoveryInv
  <1>8. MetadataInv'
    <2>1. m \in MetadataRecords /\ m.wal_offset = wal_offset /\ wal_offset \in Nat
      BY <1>3 DEF MetadataRecords
    <2> HIDE DEF m
    <2>2. /\ b \in Seq(MetadataRecords) /\ Len(b) <= cap /\ Len(b) \in Nat
          /\ fills \in Seq(MetadataRecords) /\ Len(fills) \in Nat
          /\ Len(b) = IF Len(fills) < cap THEN Len(fills) ELSE cap
          /\ cap \in Nat \ {0}
      BY DEF RecoveryInv, MetadataInv
    <2> HIDE DEF cap
    <2>3. /\ b' \in Seq(MetadataRecords)
          /\ Len(b') = IF Len(b) < cap THEN Len(b) + 1 ELSE cap
          /\ b'[Len(b')] = m
          /\ \A i \in 1 .. Len(b') - 1 : b'[i] = b[Len(b) + 1 - Len(b') + i]
      <3>1. PICK c : c = push_with_fifo_eviction(b, cap, m)
        OBVIOUS
      <3>2. b' = c
        BY <1>1, <3>1 DEF m, cap
      <3>3. b \in Seq(MetadataRecords) /\ cap \in Nat \ {0} /\ Len(b) <= cap
            /\ m \in MetadataRecords
        BY <2>1, <2>2
      <3>4. Pushed(MetadataRecords, b, cap, m, c)
        BY <3>1, <3>3, PushProperties, Zenon
      <3> QED
        BY <3>2, <3>4, Zenon DEF Pushed
    <2>4. /\ fills' \in Seq(MetadataRecords) /\ Len(fills') = Len(fills) + 1
          /\ fills'[Len(fills) + 1] = m
          /\ \A i \in 1 .. Len(fills) : fills'[i] = fills[i]
      BY <1>1, <2>1, <2>2, AppendProperties DEF m
    <2>5. Len(b') = IF Len(fills') < cap THEN Len(fills') ELSE cap
      BY <2>2, <2>3, <2>4
    <2>6. Len(b') \in Nat /\ Len(b') <= Len(b) + 1 /\ Len(b') > 0 /\ Len(b) <= Len(fills)
      BY <2>2, <2>3
    <2>7. ASSUME NEW i \in 1 .. Len(b') PROVE b'[i] = fills'[Len(fills') - Len(b') + i]
      <3>1. CASE i = Len(b')
        <4>1. Len(fills') - Len(b') + i = Len(fills) + 1
          BY <2>2, <2>3, <2>4, <3>1
        <4> QED
          BY <2>3, <2>4, <3>1, <4>1
      <3>2. CASE i # Len(b')
        <4> DEFINE h == Len(b) + 1 - Len(b') + i
        <4>1. i \in 1 .. Len(b') - 1 /\ h \in 1 .. Len(b)
          BY <2>2, <2>6, <3>2
        <4>2. b'[i] = b[h]
          BY <2>3, <4>1
        <4>3. b[h] = fills[Len(fills) - Len(b) + h]
          BY <4>1 DEF RecoveryInv, MetadataInv
        <4>4. /\ Len(fills) - Len(b) + h = Len(fills') - Len(b') + i
              /\ Len(fills) - Len(b) + h \in 1 .. Len(fills)
          <5>1. Len(fills') = Len(fills) + 1
            BY <2>4
          <5>2. Len(fills) \in Int /\ Len(b) \in Int /\ Len(b') \in Int /\ i \in Int
            BY <2>2, <2>6
          <5>3. Len(fills) - Len(b) + h = Len(fills') - Len(b') + i
            BY ONLY <5>1, <5>2
          <5> HIDE DEF h
          <5> QED
            BY <2>6, <4>1, <5>2, <5>3
        <4> QED
          BY <2>4, <4>2, <4>3, <4>4
      <3> QED
        BY <3>1, <3>2
    <2>8. \A i \in 1 .. Len(fills) : fills[i].wal_offset <= wal_offset
      BY <1>2 DEF RecoveryInv, MetadataInv
    <2>9. \A i \in 1 .. Len(fills') : fills'[i].wal_offset <= wal_offset
      <3> TAKE i \in 1 .. Len(fills')
      <3>1. i \in 1 .. Len(fills) \/ i = Len(fills) + 1
        BY <2>2, <2>4
      <3> QED
        BY <2>1, <2>4, <2>8, <3>1
    <2>10. ASSUME NEW i \in 1 .. Len(fills'), NEW j \in 1 .. Len(fills'), i <= j
          PROVE  fills'[i].wal_offset <= fills'[j].wal_offset
      <3>1. CASE j = Len(fills) + 1
        BY <2>1, <2>4, <2>9, <3>1
      <3>2. CASE j # Len(fills) + 1
        <4>1. i \in 1 .. Len(fills) /\ j \in 1 .. Len(fills)
          BY <2>2, <2>4, <2>10, <3>2
        <4> QED
          BY <2>4, <2>10, <4>1 DEF RecoveryInv, MetadataInv
      <3> QED
        BY <3>1, <3>2
    <2>11. MetadataComplete'
      <3> SUFFICES ASSUME ~ metadata_reader.late PROVE IsPrefix(got, fills')
        BY <1>1 DEF MetadataComplete
      <3>1. got \in Seq(MetadataRecords) /\ Len(got) \in Nat
        BY DEF RecoveryInv, MetadataInv
      <3>2. Len(got) <= Len(fills) /\ \A i \in 1 .. Len(got) : got[i] = fills[i]
        BY <2>2, <3>1, PrefixElements DEF RecoveryInv, MetadataInv, MetadataComplete
      <3>3. Len(got) <= Len(fills') /\ \A i \in 1 .. Len(got) : got[i] = fills'[i]
        BY <2>2, <2>4, <3>1, <3>2
      <3> QED
        BY <2>4, <3>1, <3>3, PrefixElements
    <2> QED
      BY <1>1, <1>3, <2>3, <2>4, <2>5, <2>7, <2>9, <2>10, <2>11 DEF RecoveryInv, MetadataInv, cap
  <1> QED
    BY <1>4, <1>5, <1>6, <1>7, <1>8 DEF RecoveryInv

\* A frame is done, or a turn, and a snapshot is taken.
LEMMA EndTurnKeepsInv ==
    ASSUME RecoveryInv, end_frame \/ end_turn \/ start_snapshot \/ continue_snapshot
    PROVE  RecoveryInv'
  <1>1. /\ turn # "feed"
        /\ turn' \in {"idle", "persist"}
        /\ turn' = "idle" \/ turn = "persist" \/ (turn = "idle" /\ pc = "idle")
        /\ \/ UNCHANGED <<processed, block_number>>
           \/ processed' = 0 /\ block_number' = new_block
        /\ UNCHANGED <<vars, feed_vars, metadata_vars, state, frames, birth, restarted>>
    <2>1. CASE end_frame
      BY <2>1 DEF end_frame, router_vars, buffers, readers, feed_vars, metadata_vars, history
    <2>2. CASE end_turn
      BY <2>2 DEF end_turn, router_vars, buffers, readers, feed_vars, metadata_vars, history
    <2>3. CASE start_snapshot
      BY <2>3 DEF start_snapshot, router_vars, buffers, readers, feed_vars, metadata_vars,
                  history
    <2>4. CASE continue_snapshot
      BY <2>4 DEF continue_snapshot, router_vars, buffers, readers, feed_vars, metadata_vars,
                  history
    <2> QED
      BY <2>1, <2>2, <2>3, <2>4
  <1>2. /\ Log' = Log /\ Running' = Running /\ next_sequence' = next_sequence
        /\ Applied' = Applied /\ Published' = Published
    BY <1>1 DEF vars, Log, Running, Applied, Published
  <1>3. Inv' /\ next_sequence \in Nat
    BY <1>1, NextKeepsInv DEF RecoveryInv, Inv, TypeOK
  <1>4. LoopInv'
    <2>1. turn' # "idle" => Running
      BY <1>1 DEF RecoveryInv, LoopInv, Running
    <2>2. /\ processed' \in Nat /\ block_number' \in Nat
          /\ block_number' + processed' = Len(state) + 0
      BY <1>1 DEF RecoveryInv, LoopInv, new_block
    <2> QED
      BY <1>1, <1>2, <2>1, <2>2 DEF RecoveryInv, LoopInv
  <1>5. FeedInv'
    BY <1>1, <1>2, SameFeed DEF RecoveryInv
  <1>6. MetadataInv'
    BY <1>1, <1>2, <1>3, SameMetadata DEF RecoveryInv
  <1>7. FirstInv' /\ OwnInv'
    BY <1>1, <1>2, SameFirst DEF RecoveryInv
  <1> QED
    BY <1>3, <1>4, <1>5, <1>6, <1>7 DEF RecoveryInv
-----------------------------------------------------------------------------
(* The invariant: the log and the process                                  *)

\* Writing and syncing move records and lose none.
LEMMA WriteKeepsInv ==
    ASSUME RecoveryInv, write_log \/ shut_down
    PROVE  RecoveryInv'
  <1>1. /\ Running /\ Running' /\ Log' = Log /\ next_sequence' = next_sequence
    <2>1. CASE flush
      <3>1. file' = file \o buffer /\ buffer' = <<>>
        BY <2>1 DEF flush
      <3> QED
        BY <2>1, <3>1, FlushedFile DEF flush, Running, RecoveryInv
    <2>2. CASE fsync \/ sync
      BY <2>2 DEF fsync, sync, Running, Log
    <2> QED
      BY <2>1, <2>2 DEF write_log, shut_down
  <1>2. /\ turn' = turn \/ (turn = "idle" /\ turn' = "stopped")
        /\ UNCHANGED <<feed_vars, metadata_vars, state, processed, block_number,
                       frames, birth, restarted>>
    BY DEF write_log, shut_down, loop, router_vars, buffers, readers, feed_vars,
           metadata_vars, history
  <1>3. Applied' = Applied /\ Published' = Published
    BY <1>1, <1>2 DEF Applied, Published
  <1>4. Inv' /\ next_sequence \in Nat
    BY FlushKeepsInv, SyncKeepsInv DEF write_log, shut_down, RecoveryInv, Inv, TypeOK
  <1>5. LoopInv'
    BY <1>1, <1>2, <1>3 DEF RecoveryInv, LoopInv, Applied
  <1>6. FeedInv'
    <2>1. turn' = "feed" =>
               /\ Log' # <<>>
               /\ Log'[Len(Log')] = [part |-> "record", sequence |-> next_sequence' - 1,
                                     value |-> frames']
      BY <1>1, <1>2 DEF RecoveryInv, FeedInv
    <2> QED
      BY <1>1, <1>2, <1>3, <2>1, SameFeed DEF RecoveryInv
  <1>7. MetadataInv'
    BY <1>1, <1>2, <1>4, SameMetadata DEF RecoveryInv
  <1>8. FirstInv' /\ OwnInv'
    BY <1>1, <1>2, <1>3, SameFirst DEF RecoveryInv
  <1> QED
    BY <1>4, <1>5, <1>6, <1>7, <1>8 DEF RecoveryInv

\* The router of a process has no records, and readers that have none.
LEMMA NewRouterInv ==
    ASSUME NEW n \in Nat, NewRouter(n), turn' # "feed"
    PROVE  FeedInv' /\ MetadataInv'
  <1>1. feed_reader' \in [next : Nat, got : Seq(FeedFrames), missed : BOOLEAN]
        /\ feed_reader'.got = <<>> /\ express_feed_frames_' = <<>>
    BY DEF NewRouter, FeedReader
  <1>2. FeedInv'
    BY <1>1 DEF FeedInv, FeedMatchesLog
  <1>3. metadata_reader' \in [got : Seq(MetadataRecords), late : BOOLEAN]
        /\ metadata_reader'.got = <<>> /\ fills' = <<>> /\ trade_metadata_' = <<>>
    BY DEF NewRouter, MetadataReader
  <1>4. MetadataComplete'
    BY <1>3 DEF MetadataComplete, IsPrefix
  <1>5. MetadataInv'
    BY <1>3, <1>4 DEF MetadataInv
  <1> QED
    BY <1>2, <1>5

\* What a crash leaves of a log of whole records: the start of it, and a torn part.
LEMMA LeftoversElements ==
    ASSUME NEW l \in Seq(Parts), NEW n \in 0 .. Len(l), NEW m \in Leftovers(l, n)
    PROVE  /\ Len(m) <= Len(l)
           /\ \A i \in 1 .. Len(m) : m[i] = l[i] \/ (i = Len(m) /\ ~ IsRecord(m[i]))
  <1>1. Len(l) \in Nat
    OBVIOUS
  <1>2. CASE \E k \in n .. Len(l) : m = SubSeq(l, 1, k)
    BY <1>1, <1>2
  <1>3. CASE \E k \in n .. Len(l) - 1 : \E t \in Torn : m = Append(SubSeq(l, 1, k), t)
    <2>1. PICK k \in n .. Len(l) - 1, t \in Torn : m = Append(SubSeq(l, 1, k), t)
      BY <1>3
    <2>2. k \in Nat /\ k < Len(l) /\ t \in Parts /\ ~ IsRecord(t)
      BY <1>1, PartsProperties
    <2>3. /\ SubSeq(l, 1, k) \in Seq(Parts) /\ Len(SubSeq(l, 1, k)) = k
          /\ \A i \in 1 .. k : SubSeq(l, 1, k)[i] = l[i]
      BY <1>1, <2>2
    <2>4. /\ Len(m) = k + 1 /\ m[k + 1] = t
          /\ \A i \in 1 .. k : m[i] = SubSeq(l, 1, k)[i]
      BY <2>1, <2>2, <2>3, AppendProperties
    <2>5. \A i \in 1 .. Len(m) : i \in 1 .. k \/ i = k + 1
      BY <2>2, <2>4
    <2> QED
      BY <1>1, <2>2, <2>3, <2>4, <2>5
  <1> QED
    <2>1. \A c : Cut(c) \subseteq Torn
      BY DEF Cut, Torn
    <2> QED
      BY <1>2, <1>3, <2>1 DEF Leftovers

\* After the end of the first process its log still has the n-th frame as its n-th
\* record.
LEMMA FirstLogKept ==
    ASSUME Inv, FirstInv, ~ restarted, close \/ kill \/ power_loss
    PROVE  FirstLog(Log')
  <1>1. Running
    BY DEF close, kill, power_loss, Die, Running
  <1>2. \A i \in 1 .. Len(Log) : IsRecord(Log[i]) /\ Log[i].sequence = i /\ Log[i].value = i
    BY <1>1 DEF FirstInv, FirstLog
  <1>3. /\ file \in Seq(Parts) /\ Log \in Seq(Parts) /\ Len(Log) = Len(file) + Len(buffer)
        /\ Len(file) \in Nat /\ Len(buffer) \in Nat
        /\ \A i \in 1 .. Len(file) : Log[i] = file[i]
        /\ synced \in 0 .. Len(file)
    BY LogProperties DEF Inv, TypeOK
  <1>4. CASE close
    <2>1. file' = file \o buffer /\ buffer' = <<>>
      BY <1>4 DEF close
    <2>2. Log' = Log
      BY <2>1, FlushedFile
    <2> QED
      BY <1>2, <2>2 DEF FirstLog
  <1>5. CASE kill \/ power_loss
    <2>1. Flushing \in Seq(Parts) /\ Len(file) \in 0 .. Len(Flushing) /\ synced \in 0 .. Len(Flushing)
          /\ Len(Flushing) \in Nat
          /\ \A i \in 1 .. Len(Flushing) : i \in 1 .. Len(Log) /\ Flushing[i] = Log[i]
      <3>1. Flushing = file \/ Flushing = Log
        BY DEF Flushing, Log
      <3> QED
        BY <1>3, <3>1
    <2>2. file' \in Leftovers(Flushing, Len(file)) \/ file' \in Leftovers(Flushing, synced)
      BY <1>5 DEF kill, power_loss
    <2>3. /\ Len(file') <= Len(Flushing)
          /\ \A i \in 1 .. Len(file') :
                file'[i] = Flushing[i] \/ (i = Len(file') /\ ~ IsRecord(file'[i]))
      BY <2>1, <2>2, LeftoversElements
    <2>4. Inv' /\ buffer' = <<>>
      BY <1>5, CrashKeepsInv DEF kill, power_loss, Die
    <2>5. file' \in Seq(Parts) /\ Len(file') \in Nat
      BY <2>4, LenProperties DEF Inv, TypeOK, Parts
    <2>6. Log' = file'
      BY <2>4, <2>5, ConcatEmptySeq DEF Log
    <2>7. \A i \in 1 .. Len(file') : i \in 1 .. Len(Flushing)
      BY <2>1, <2>3, <2>5
    <2> QED
      BY <1>2, <2>1, <2>3, <2>6, <2>7 DEF FirstLog
  <1> QED
    BY <1>4, <1>5

\* The same for records that a process wrote.
LEMMA OwnLogKept ==
    ASSUME Inv, OwnInv, close \/ kill \/ power_loss
    PROVE  \A i \in 1 .. Len(Log') : OwnRecord(Log'[i], birth, frames)
  <1>1. /\ file \in Seq(Parts) /\ Log \in Seq(Parts) /\ Len(Log) = Len(file) + Len(buffer)
        /\ Len(file) \in Nat /\ Len(buffer) \in Nat
        /\ \A i \in 1 .. Len(file) : Log[i] = file[i]
        /\ synced \in 0 .. Len(file)
    BY LogProperties DEF Inv, TypeOK
  <1>2. CASE close
    <2>1. file' = file \o buffer /\ buffer' = <<>>
      BY <1>2 DEF close
    <2>2. Log' = Log
      BY <2>1, FlushedFile
    <2> QED
      BY <2>2 DEF OwnInv
  <1>3. CASE kill \/ power_loss
    <2>1. Flushing \in Seq(Parts) /\ Len(file) \in 0 .. Len(Flushing) /\ synced \in 0 .. Len(Flushing)
          /\ Len(Flushing) \in Nat
          /\ \A i \in 1 .. Len(Flushing) : i \in 1 .. Len(Log) /\ Flushing[i] = Log[i]
      <3>1. Flushing = file \/ Flushing = Log
        BY DEF Flushing, Log
      <3> QED
        BY <1>1, <3>1
    <2>2. file' \in Leftovers(Flushing, Len(file)) \/ file' \in Leftovers(Flushing, synced)
      BY <1>3 DEF kill, power_loss
    <2>3. /\ Len(file') <= Len(Flushing)
          /\ \A i \in 1 .. Len(file') :
                file'[i] = Flushing[i] \/ (i = Len(file') /\ ~ IsRecord(file'[i]))
      BY <2>1, <2>2, LeftoversElements
    <2>4. Inv' /\ buffer' = <<>>
      BY <1>3, CrashKeepsInv DEF kill, power_loss, Die
    <2>5. file' \in Seq(Parts) /\ Len(file') \in Nat
      BY <2>4, LenProperties DEF Inv, TypeOK, Parts
    <2>6. Log' = file'
      BY <2>4, <2>5, ConcatEmptySeq DEF Log
    <2>7. ASSUME NEW i \in 1 .. Len(file') PROVE OwnRecord(file'[i], birth, frames)
      <3>1. i \in 1 .. Len(Flushing)
        BY <2>1, <2>3, <2>5
      <3>2. OwnRecord(Flushing[i], birth, frames)
        BY <2>1, <3>1 DEF OwnInv
      <3> QED
        BY <2>3, <3>2 DEF OwnRecord
    <2> QED
      BY <2>6, <2>7
  <1> QED
    BY <1>2, <1>3

\* A process ends: its memory is gone, and the log stays, or what the crash left of it.
LEMMA EndKeepsInv ==
    ASSUME RecoveryInv, exit \/ die \/ snapshot_throws \/ lose_power
    PROVE  RecoveryInv'
  <1>1. (close \/ kill \/ power_loss) /\ Gone /\ UNCHANGED history
    BY DEF exit, die, snapshot_throws, lose_power
  <1>2. /\ turn' = "idle" /\ state' = <<>> /\ processed' = 0 /\ block_number' = 0
        /\ UNCHANGED <<frames, birth, restarted>> /\ NewRouter(1)
    BY <1>1 DEF Gone, history
  <1>3. Inv' /\ ~ Running'
    <2>1. ~ Running'
      BY <1>1 DEF close, kill, power_loss, Die, Running
    <2> QED
      BY <1>1, <2>1, CloseKeepsInv, CrashKeepsInv DEF RecoveryInv
  <1>4. LoopInv'
    BY <1>2, <1>3 DEF RecoveryInv, LoopInv
  <1>5. FeedInv' /\ MetadataInv'
    BY <1>2, NewRouterInv
  <1>6. FirstInv'
    <2> SUFFICES ASSUME ~ restarted PROVE FirstInv'
      BY <1>2 DEF FirstInv
    <2>1. FirstLog(Log')
      BY <1>1, FirstLogKept DEF RecoveryInv
    <2> QED
      BY <1>2, <1>3, <2>1 DEF RecoveryInv, FirstInv
  <1>7. OwnInv'
    BY <1>1, <1>2, <1>3, OwnLogKept DEF RecoveryInv, OwnInv
  <1> QED
    BY <1>3, <1>4, <1>5, <1>6, <1>7 DEF RecoveryInv

\* The next process finds the log, and nothing else, or does not start.
LEMMA RestartKeepsInv ==
    ASSUME RecoveryInv, restart \/ restart_fails
    PROVE  RecoveryInv'
  <1>1. CASE restart
    <2>1. /\ open /\ NewRouter(next_sequence') /\ restarted' = TRUE /\ birth' = frames
          /\ UNCHANGED <<turn, state, processed, block_number, frames>>
      BY <1>1 DEF restart, loop
    <2>2. Inv' /\ ~ Running /\ Running' /\ next_sequence' \in Nat /\ next_sequence' # 0
      BY <2>1, OpenKeepsInv DEF RecoveryInv, open, Running, Inv, TypeOK
    <2>3. turn' = "idle"
      BY <2>1, <2>2 DEF RecoveryInv, LoopInv
    <2>4. FeedInv' /\ MetadataInv'
      BY <2>1, <2>2, <2>3, NewRouterInv
    <2>5. LoopInv'
      BY <2>1, <2>2, <2>3 DEF RecoveryInv, LoopInv, Applied
    <2>6. FirstInv'
      BY <2>1 DEF FirstInv
    <2>7. OwnInv'
      <3>1. Log' = Log /\ frames \in Nat
        BY <2>1 DEF open, Log, RecoveryInv, LoopInv
      <3>2. ASSUME NEW i \in 1 .. Len(Log) PROVE OwnRecord(Log[i], frames, frames)
        <4>1. OwnRecord(Log[i], birth, frames)
          BY DEF RecoveryInv, OwnInv
        <4> QED
          BY <3>1, <4>1 DEF OwnRecord
      <3>3. next_sequence' > frames' - birth'
        BY <2>1, <2>2, <3>1
      <3> QED
        BY <2>1, <3>1, <3>2, <3>3 DEF OwnInv
    <2> QED
      BY <2>2, <2>4, <2>5, <2>6, <2>7 DEF RecoveryInv
  <1>2. CASE restart_fails
    <2>1. /\ open_fails /\ ~ Running /\ ~ Running' /\ Log' = Log
          /\ UNCHANGED <<next_sequence, turn, state, processed, block_number, frames, birth,
                         restarted, feed_vars, metadata_vars>>
      BY <1>2 DEF restart_fails, open_fails, Running, Log, loop, router_vars, buffers, readers,
                  feed_vars, metadata_vars, history
    <2>2. Inv' /\ next_sequence \in Nat
      BY <2>1, OpenFailsKeepsInv DEF RecoveryInv, Inv, TypeOK
    <2>3. LoopInv'
      BY <2>1 DEF RecoveryInv, LoopInv, Applied
    <2>4. FeedInv'
      BY <2>1, SameFeed DEF RecoveryInv
    <2>5. MetadataInv'
      BY <2>1, <2>2, SameMetadata DEF RecoveryInv
    <2>6. FirstInv' /\ OwnInv'
      BY <2>1, SameFirst DEF RecoveryInv
    <2> QED
      BY <2>2, <2>3, <2>4, <2>5, <2>6 DEF RecoveryInv
  <1> QED
    BY <1>1, <1>2
-----------------------------------------------------------------------------
(* The invariant: readers                                                  *)

\* A reader of the feed gets records of the log, and notices when some are missing.
LEMMA PollFeedKeepsInv ==
    ASSUME RecoveryInv, poll_feed, UNCHANGED <<vars, loop, snapshots, history>>
    PROVE  FeedInv'
  <1> DEFINE b == express_feed_frames_
             next == feed_reader.next
             got == feed_reader.got
             reply == Since(b, next)
  <1>1. /\ reply # <<>>
        /\ feed_reader' = [next |-> Last(reply).wal_offset + 1, got |-> got \o reply,
                           missed |-> feed_reader.missed \/ Head(reply).wal_offset # next]
        /\ b' = b
    BY DEF poll_feed, buffers
  <1>2. Running' = Running /\ Log' = Log /\ Published' = Published /\ turn' = turn
        /\ next_sequence' = next_sequence /\ frames' = frames
    BY DEF vars, loop, history, Running, Log, Published
  <1>3. /\ b \in Seq(FeedFrames) /\ next \in Nat /\ got \in Seq(FeedFrames)
        /\ feed_reader.missed \in BOOLEAN
        /\ Len(b) \in Nat /\ Len(got) \in Nat
    BY DEF RecoveryInv, FeedInv
  <1>4. Running
    <2> SUFFICES ASSUME b = <<>> PROVE FALSE
      BY DEF RecoveryInv, FeedInv
    <2>1. \A r \in FeedFrames : r.wal_offset \in Nat
      BY DEF FeedFrames
    <2>2. \A i, j \in 1 .. Len(b) : i <= j => b[i].wal_offset <= b[j].wal_offset
      OBVIOUS
    <2>3. b \in Seq(FeedFrames) /\ next \in Nat
      BY <1>3
    <2>4. Len(b) = 0
      OBVIOUS
    <2> HIDE DEF b, next
    <2>5. \E k \in 0 .. Len(b) :
              /\ Since(b, next) \in Seq(FeedFrames) /\ Len(Since(b, next)) = Len(b) - k
              /\ \A i \in 1 .. Len(b) - k : Since(b, next)[i] = b[k + i]
              /\ \A i \in 1 .. k : b[i].wal_offset < next
              /\ \A i \in k + 1 .. Len(b) : b[i].wal_offset >= next
      BY ONLY <2>1, <2>2, <2>3, SinceProperties
    <2> QED
      BY <1>1, <2>4, <2>5
  <1>5. /\ Published \in Int
        /\ \A i \in 1 .. Len(b) : /\ b[i].wal_offset = Published - Len(b) + i
                                  /\ InLog(b[i])
    BY <1>4 DEF RecoveryInv, FeedInv, FeedMatchesLog, Published, Inv, TypeOK
  <1>6. PICK k \in 0 .. Len(b) :
              /\ reply \in Seq(FeedFrames) /\ Len(reply) = Len(b) - k
              /\ \A i \in 1 .. Len(b) - k : reply[i] = b[k + i]
    <2>1. \A r \in FeedFrames : r.wal_offset \in Nat
      BY DEF FeedFrames
    <2>2. \A i, j \in 1 .. Len(b) : i <= j => b[i].wal_offset <= b[j].wal_offset
      BY <1>3, <1>5
    <2>3. b \in Seq(FeedFrames) /\ next \in Nat
      BY <1>3
    <2> HIDE DEF b, next
    <2>4. \E k \in 0 .. Len(b) :
              /\ Since(b, next) \in Seq(FeedFrames) /\ Len(Since(b, next)) = Len(b) - k
              /\ \A i \in 1 .. Len(b) - k : Since(b, next)[i] = b[k + i]
              /\ \A i \in 1 .. k : b[i].wal_offset < next
              /\ \A i \in k + 1 .. Len(b) : b[i].wal_offset >= next
      BY <2>1, <2>2, <2>3, SinceProperties
    <2> QED
      BY <2>4
  <1> HIDE DEF reply
  <1>7. Len(reply) \in Nat /\ Len(reply) > 0
    BY <1>1, <1>6
  <1>8. /\ Last(reply).wal_offset = Published /\ Published \in Nat
        /\ Head(reply).wal_offset = Published - Len(reply) + 1
    <2>1. Last(reply) = b[Len(b)] /\ Len(b) \in 1 .. Len(b)
      <3>1. Last(reply) = reply[Len(reply)] /\ Len(reply) \in 1 .. Len(b) - k
        BY <1>3, <1>6, <1>7 DEF Last
      <3>2. k + Len(reply) = Len(b)
        BY <1>3, <1>6
      <3> QED
        BY <1>3, <1>6, <1>7, <3>1, <3>2
    <2>2. b[Len(b)] \in FeedFrames
      BY <1>3, <2>1
    <2>3. Head(reply) = b[k + 1] /\ k + 1 \in 1 .. Len(b)
      BY <1>3, <1>6, <1>7
    <2>4. b[Len(b)].wal_offset = Published - Len(b) + Len(b)
          /\ b[k + 1].wal_offset = Published - Len(b) + (k + 1)
      BY <1>5, <2>1, <2>3
    <2>5. b[Len(b)].wal_offset \in Nat
      BY <2>2 DEF FeedFrames
    <2>6. Len(reply) = Len(b) - k
      BY <1>6
    <2> HIDE DEF b
    <2> QED
      BY <1>3, <1>5, <2>1, <2>3, <2>4, <2>5, <2>6
  <1>9. /\ got \o reply \in Seq(FeedFrames) /\ Len(got \o reply) = Len(got) + Len(reply)
        /\ \A i \in 1 .. Len(got) : (got \o reply)[i] = got[i]
        /\ \A i \in Len(got) + 1 .. Len(got) + Len(reply) : (got \o reply)[i] = reply[i - Len(got)]
    <2>1. /\ got \o reply \in Seq(FeedFrames) /\ Len(got \o reply) = Len(got) + Len(reply)
          /\ \A i \in 1 .. Len(got) + Len(reply) :
                (got \o reply)[i] = IF i <= Len(got) THEN got[i] ELSE reply[i - Len(got)]
      BY <1>3, <1>6, ConcatProperties
    <2> HIDE DEF got
    <2> QED
      BY <1>3, <1>7, <2>1
  <1>10. ASSUME NEW i \in 1 .. Len(got) + Len(reply)
         PROVE  \/ i \in 1 .. Len(got) /\ (got \o reply)[i] = got[i]
                \/ /\ i > Len(got)
                   /\ (k + (i - Len(got))) \in 1 .. Len(b)
                   /\ (got \o reply)[i] = b[k + (i - Len(got))]
    <2>1. CASE i \in 1 .. Len(got)
      BY <1>9, <2>1
    <2>2. CASE i \notin 1 .. Len(got)
      <3>1. i \in Len(got) + 1 .. Len(got) + Len(reply) /\ i > Len(got)
            /\ i - Len(got) \in 1 .. Len(b) - k /\ (k + (i - Len(got))) \in 1 .. Len(b)
        BY <1>3, <1>6, <1>7, <2>2
      <3> QED
        BY <1>6, <1>9, <3>1
    <2> QED
      BY <2>1, <2>2
  <1>11. feed_reader' \in [next : Nat, got : Seq(FeedFrames), missed : BOOLEAN]
        /\ feed_reader'.got = got \o reply /\ feed_reader'.next = Published + 1
        /\ (~ feed_reader'.missed =>
               ~ feed_reader.missed /\ next = Published - Len(reply) + 1)
    <2>1. Last(reply).wal_offset + 1 \in Nat /\ Last(reply).wal_offset + 1 = Published + 1
      BY <1>8
    <2>2. (feed_reader.missed \/ Head(reply).wal_offset # next) \in BOOLEAN
      OBVIOUS
    <2>3. feed_reader' \in [next : Nat, got : Seq(FeedFrames), missed : BOOLEAN]
      BY <1>1, <1>9, <2>1, <2>2
    <2> QED
      BY <1>1, <1>8, <2>1, <2>3
  <1>12. \A i \in 1 .. Len(got) + Len(reply) : InLog((got \o reply)[i])
    <2> TAKE i \in 1 .. Len(got) + Len(reply)
    <2>1. \A h \in 1 .. Len(got) : InLog(got[h])
      BY <1>4 DEF RecoveryInv, FeedInv, FeedMatchesLog
    <2> QED
      BY <1>5, <1>10, <2>1
  <1>13. ASSUME ~ feed_reader'.missed, NEW i \in 1 .. Len(got) + Len(reply)
         PROVE  (got \o reply)[i].wal_offset
                   = (Published + 1) - (Len(got) + Len(reply)) + i - 1
    <2>1. CASE i \in 1 .. Len(got) /\ (got \o reply)[i] = got[i]
      <3>1. got[i].wal_offset = next - Len(got) + i - 1
        BY <1>4, <1>11, <1>13, <2>1 DEF RecoveryInv, FeedInv, FeedMatchesLog
      <3>2. next = Published - Len(reply) + 1
        BY <1>11, <1>13
      <3> HIDE DEF next, got
      <3> QED
        BY <1>3, <1>5, <1>7, <2>1, <3>1, <3>2
    <2>2. CASE /\ i > Len(got)
               /\ (k + (i - Len(got))) \in 1 .. Len(b)
               /\ (got \o reply)[i] = b[k + (i - Len(got))]
      <3>1. b[k + (i - Len(got))].wal_offset = Published - Len(b) + (k + (i - Len(got)))
        BY <1>5, <2>2
      <3>2. Len(reply) = Len(b) - k
        BY <1>6
      <3> HIDE DEF b, got
      <3> QED
        BY <1>3, <1>5, <1>7, <2>2, <3>1, <3>2
    <2> QED
      BY <1>10, <2>1, <2>2
  <1>14. FeedMatchesLog'
    <2>1. \A i \in 1 .. Len(b) : InLog(b[i])'
      BY <1>1, <1>2, <1>5 DEF InLog
    <2>2. \A i \in 1 .. Len(feed_reader'.got) : InLog(feed_reader.got[i])'
      BY <1>2, <1>9, <1>11, <1>12 DEF InLog
    <2>3. ~ feed_reader'.missed =>
              \A i \in 1 .. Len(feed_reader'.got) :
                 feed_reader'.got[i].wal_offset = feed_reader'.next - Len(feed_reader'.got) + i - 1
      BY <1>9, <1>11, <1>13
    <2> QED
      BY <1>1, <2>1, <2>2, <2>3 DEF FeedMatchesLog
  <1> QED
    BY <1>1, <1>2, <1>11, <1>14 DEF RecoveryInv, FeedInv
\* SinceProperties, for metadata.
LEMMA MetadataSince ==
    ASSUME NEW b \in Seq(MetadataRecords), NEW o \in Nat,
           \A i, j \in 1 .. Len(b) : i <= j => b[i].wal_offset <= b[j].wal_offset
    PROVE  \E k \in 0 .. Len(b) :
              /\ Since(b, o) \in Seq(MetadataRecords) /\ Len(Since(b, o)) = Len(b) - k
              /\ \A i \in 1 .. Len(b) - k : Since(b, o)[i] = b[k + i]
              /\ \A i \in 1 .. k : b[i].wal_offset < o
              /\ \A i \in k + 1 .. Len(b) : b[i].wal_offset >= o
  <1>1. \A r \in MetadataRecords : r.wal_offset \in Nat
    BY DEF MetadataRecords
  <1> QED
    BY <1>1, SinceProperties

\* How many records of its last offset a reader has is a number.
LEMMA AlreadyType ==
    ASSUME NEW got \in Seq(MetadataRecords)
    PROVE  Already(got) \in Nat
  <1> DEFINE I == {i \in 1 .. Len(got) : got[i].wal_offset >= LastOffset(got)}
  <1>1. IsFiniteSet(1 .. Len(got))
    <2>1. 1 \in Int /\ Len(got) \in Int
      OBVIOUS
    <2> QED
      BY <2>1, FS_Interval
  <1>2. I \subseteq 1 .. Len(got)
    OBVIOUS
  <1> HIDE DEF I
  <1>3. Cardinality(I) \in Nat
    <2>1. IsFiniteSet(I)
      BY <1>1, <1>2, FS_Subset
    <2> QED
      BY <2>1, FS_CardinalityType
  <1>4. Already(got) = Len(Selection(got, I))
    BY DEF Already, Since, I
  <1>5. DOMAIN Selection(got, I) = 1 .. Cardinality(I)
    BY DEF Selection
  <1>6. Len(Selection(got, I)) = Cardinality(I)
    <2>1. Selection(got, I) = [n \in 1 .. Cardinality(I) |-> Selection(got, I)[n]]
      BY DEF Selection
    <2>2. Selection(got, I) \in Seq({Selection(got, I)[n] : n \in 1 .. Cardinality(I)})
      BY <1>3, <2>1, IsASeq
    <2> QED
      BY <1>3, <1>5, <2>2
  <1> QED
    BY <1>3, <1>4, <1>6

\* What is left of a sequence without its first elements.
LEMMA RestElements ==
    ASSUME NEW S, NEW s \in Seq(S), NEW a \in Nat, a + 1 <= Len(s)
    PROVE  /\ SubSeq(s, a + 1, Len(s)) \in Seq(S)
           /\ Len(SubSeq(s, a + 1, Len(s))) = Len(s) - a
           /\ \A i \in 1 .. Len(s) - a : SubSeq(s, a + 1, Len(s))[i] = s[a + i]
  <1>1. Len(s) \in Nat
    OBVIOUS
  <1>2. a + 1 \in 1 .. Len(s) + 1 /\ Len(s) \in a + 1 - 1 .. Len(s)
    BY <1>1
  <1>3. /\ SubSeq(s, a + 1, Len(s)) \in Seq(S)
        /\ Len(SubSeq(s, a + 1, Len(s))) = IF a + 1 <= Len(s) THEN Len(s) - (a + 1) + 1 ELSE 0
        /\ \A i \in 1 .. Len(s) - (a + 1) + 1 : SubSeq(s, a + 1, Len(s))[i] = s[a + 1 + i - 1]
    BY <1>2, SubSeqProperties
  <1>4. Len(SubSeq(s, a + 1, Len(s))) = Len(s) - a
    BY <1>1, <1>3
  <1>5. ASSUME NEW i \in 1 .. Len(s) - a PROVE SubSeq(s, a + 1, Len(s))[i] = s[a + i]
    <2>1. i \in 1 .. Len(s) - (a + 1) + 1 /\ a + 1 + i - 1 = a + i
      BY <1>1
    <2> QED
      BY <1>3, <2>1
  <1> QED
    BY <1>3, <1>4, <1>5

\* A reader of metadata who is not late has got all that was pushed.
LEMMA PollMetadataKeepsInv ==
    ASSUME RecoveryInv, poll_metadata, UNCHANGED <<vars, loop, snapshots, history>>
    PROVE  MetadataInv'
  <1> DEFINE b == trade_metadata_
             cap == trade_metadata_capacity
             got == metadata_reader.got
             o == LastOffset(got)
             already == Already(got)
             reply == Since(b, o)
             fresh == SubSeq(reply, already + 1, Len(reply))
  <1>1. /\ fresh # <<>>
        /\ metadata_reader' = [got |-> got \o fresh,
                               late |-> metadata_reader.late \/ Len(fills) - (Len(got) - already) > cap]
        /\ b' = b /\ fills' = fills
    BY DEF poll_metadata, buffers
  <1>2. Running' = Running /\ wal_offset' = wal_offset
    BY DEF vars, Running, wal_offset
  <1>3. /\ b \in Seq(MetadataRecords) /\ fills \in Seq(MetadataRecords) /\ got \in Seq(MetadataRecords)
        /\ metadata_reader.late \in BOOLEAN
        /\ Len(b) \in Nat /\ Len(fills) \in Nat /\ Len(got) \in Nat
        /\ Len(b) = IF Len(fills) < cap THEN Len(fills) ELSE cap
        /\ cap \in Nat
        /\ \A i \in 1 .. Len(b) : b[i] = fills[Len(fills) - Len(b) + i]
        /\ \A i, j \in 1 .. Len(fills) : i <= j => fills[i].wal_offset <= fills[j].wal_offset
        /\ ~ metadata_reader.late => IsPrefix(got, fills)
    <2>1. MetadataInv
      BY DEF RecoveryInv
    <2>2. metadata_reader \in [got : Seq(MetadataRecords), late : BOOLEAN]
      BY <2>1 DEF MetadataInv
    <2>3. got \in Seq(MetadataRecords) /\ metadata_reader.late \in BOOLEAN
      BY <2>2
    <2>4. b \in Seq(MetadataRecords) /\ fills \in Seq(MetadataRecords)
      BY <2>1 DEF MetadataInv
    <2>5. Len(b) \in Nat /\ Len(fills) \in Nat /\ Len(got) \in Nat
      BY <2>3, <2>4, LenProperties
    <2>6. /\ Len(b) = IF Len(fills) < cap THEN Len(fills) ELSE cap
          /\ \A i \in 1 .. Len(b) : b[i] = fills[Len(fills) - Len(b) + i]
      BY <2>1 DEF MetadataInv
    <2>7. \A i, j \in 1 .. Len(fills) : i <= j => fills[i].wal_offset <= fills[j].wal_offset
      BY <2>1 DEF MetadataInv
    <2>8. ~ metadata_reader.late => IsPrefix(got, fills)
      BY <2>1 DEF MetadataInv, MetadataComplete
    <2>9. cap \in Nat
      BY CapacityAssumption
    <2> HIDE DEF b, cap, got
    <2> QED
      BY <2>3, <2>4, <2>5, <2>6, <2>7, <2>8, <2>9
  <1> HIDE DEF b, cap, got
  <1>4. Len(b) <= Len(fills) /\ Len(b) <= cap /\ (Len(b) = Len(fills) \/ Len(b) = cap)
    BY <1>3
  <1>5. already \in Nat
    BY <1>3, AlreadyType
  <1>6. o \in Nat /\ (Len(got) = 0 => o = 0)
        /\ (Len(got) > 0 => Len(got) \in 1 .. Len(got) /\ o = got[Len(got)].wal_offset)
    <2>1. CASE got = <<>>
      BY <2>1 DEF LastOffset
    <2>2. CASE got # <<>>
      <3>1. Len(got) \in 1 .. Len(got)
        BY <1>3, <2>2
      <3>2. got[Len(got)] \in MetadataRecords
        BY <1>3, <3>1
      <3> QED
        BY <2>2, <3>1, <3>2 DEF LastOffset, Last, MetadataRecords
    <2> QED
      BY <2>1, <2>2
  <1>7. \A i, j \in 1 .. Len(b) : i <= j => b[i].wal_offset <= b[j].wal_offset
    <2> SUFFICES ASSUME NEW i \in 1 .. Len(b), NEW j \in 1 .. Len(b), i <= j
                 PROVE  b[i].wal_offset <= b[j].wal_offset
      OBVIOUS
    <2>1. Len(fills) - Len(b) + i \in 1 .. Len(fills) /\ Len(fills) - Len(b) + j \in 1 .. Len(fills)
          /\ Len(fills) - Len(b) + i <= Len(fills) - Len(b) + j
      BY <1>3, <1>4
    <2> QED
      BY <1>3, <2>1
  <1>8. PICK kb \in 0 .. Len(b) :
              /\ reply \in Seq(MetadataRecords) /\ Len(reply) = Len(b) - kb
              /\ \A i \in 1 .. Len(b) - kb : reply[i] = b[kb + i]
              /\ \A i \in 1 .. kb : b[i].wal_offset < o
              /\ \A i \in kb + 1 .. Len(b) : b[i].wal_offset >= o
    <2> HIDE DEF o
    <2> QED
      BY <1>3, <1>6, <1>7, MetadataSince
  <1> HIDE DEF already, reply, o
  <1>9. /\ Len(reply) \in Nat /\ already + 1 <= Len(reply)
        /\ fresh \in Seq(MetadataRecords) /\ Len(fresh) = Len(reply) - already
        /\ \A i \in 1 .. Len(reply) - already : fresh[i] = reply[already + i]
    <2>1. Len(reply) \in Nat
      BY <1>8, LenProperties
    <2>2. already + 1 <= Len(reply)
      BY <1>1, <1>5, <1>8, <2>1, SubSeqEmpty
    <2>3. reply \in Seq(MetadataRecords)
      BY <1>8
    <2>4. fresh \in Seq(MetadataRecords) /\ Len(fresh) = Len(reply) - already
          /\ \A i \in 1 .. Len(reply) - already : fresh[i] = reply[already + i]
      BY ONLY <1>5, <2>1, <2>2, <2>3, RestElements DEF fresh
    <2> QED
      BY <2>1, <2>2, <2>4
  <1> HIDE DEF fresh
  <1>10. /\ got \o fresh \in Seq(MetadataRecords) /\ Len(got \o fresh) = Len(got) + Len(fresh)
         /\ \A i \in 1 .. Len(got) + Len(fresh) :
               (got \o fresh)[i] = IF i <= Len(got) THEN got[i] ELSE fresh[i - Len(got)]
    <2>1. got \in Seq(MetadataRecords) /\ fresh \in Seq(MetadataRecords)
      BY <1>3, <1>9
    <2> QED
      BY ONLY <2>1, ConcatProperties
  <1>11. metadata_reader' \in [got : Seq(MetadataRecords), late : BOOLEAN]
         /\ metadata_reader'.got = got \o fresh
         /\ (~ metadata_reader'.late => /\ ~ metadata_reader.late
                                        /\ ~ (Len(fills) - (Len(got) - already) > cap))
    <2>1. (metadata_reader.late \/ Len(fills) - (Len(got) - already) > cap) \in BOOLEAN
      OBVIOUS
    <2> QED
      BY <1>1, <1>10, <2>1
  <1>12. ASSUME ~ metadata_reader'.late PROVE IsPrefix(got \o fresh, fills)
    <2>1. /\ Len(got) <= Len(fills) /\ \A i \in 1 .. Len(got) : got[i] = fills[i]
          /\ Len(fills) - (Len(got) - already) <= cap
      <3>1. ~ metadata_reader.late /\ ~ (Len(fills) - (Len(got) - already) > cap)
        BY <1>11, <1>12
      <3>2. IsPrefix(got, fills) /\ got \in Seq(MetadataRecords) /\ fills \in Seq(MetadataRecords)
        BY <1>3, <3>1
      <3>3. Len(got) <= Len(fills) /\ \A i \in 1 .. Len(got) : got[i] = fills[i]
        BY ONLY <3>2, PrefixElements
      <3>4. Len(fills) - (Len(got) - already) <= cap
        <4>1. Len(fills) \in Nat /\ Len(got) \in Nat /\ already \in Nat /\ cap \in Nat
          BY <1>3, <1>5
        <4> QED
          BY ONLY <3>1, <4>1
      <3> QED
        BY <3>3, <3>4
    <2>2. \A i, j \in 1 .. Len(got) : i <= j => got[i].wal_offset <= got[j].wal_offset
      <3> SUFFICES ASSUME NEW i \in 1 .. Len(got), NEW j \in 1 .. Len(got), i <= j
                   PROVE  got[i].wal_offset <= got[j].wal_offset
        OBVIOUS
      <3>1. i \in 1 .. Len(fills) /\ j \in 1 .. Len(fills)
        BY <1>3, <2>1
      <3> QED
        BY <1>3, <2>1, <3>1
    <2>3. PICK kg \in 0 .. Len(got) :
              /\ already = Len(got) - kg
              /\ \A i \in 1 .. kg : got[i].wal_offset < o
              /\ \A i \in kg + 1 .. Len(got) : got[i].wal_offset >= o
      <3>1. \E k \in 0 .. Len(got) :
              /\ Since(got, o) \in Seq(MetadataRecords) /\ Len(Since(got, o)) = Len(got) - k
              /\ \A i \in 1 .. Len(got) - k : Since(got, o)[i] = got[k + i]
              /\ \A i \in 1 .. k : got[i].wal_offset < o
              /\ \A i \in k + 1 .. Len(got) : got[i].wal_offset >= o
        BY <1>3, <1>6, <2>2, MetadataSince
      <3>2. already = Len(Since(got, o))
        BY DEF already, Already, o
      <3> QED
        BY <3>1, <3>2
    <2> DEFINE d == Len(fills) - Len(b)
    <2>4. \A i \in 1 .. kg : fills[i].wal_offset < o
      <3> TAKE i \in 1 .. kg
      <3>1. i \in 1 .. Len(got)
        BY <1>3
      <3> QED
        BY <2>1, <2>3, <3>1
    <2>5. \A i \in kg + 1 .. Len(fills) : fills[i].wal_offset >= o
      <3> TAKE i \in kg + 1 .. Len(fills)
      <3>0. i \in 1 .. Len(fills) /\ fills[i] \in MetadataRecords
        BY <1>3
      <3>1. CASE i <= Len(got)
        <4>1. i \in kg + 1 .. Len(got) /\ i \in 1 .. Len(got)
          BY <1>3, <3>1
        <4> QED
          BY <2>1, <2>3, <4>1
      <3>2. CASE ~ (i <= Len(got)) /\ Len(got) = 0
        BY <1>6, <3>0, <3>2 DEF MetadataRecords
      <3>3. CASE ~ (i <= Len(got)) /\ Len(got) > 0
        <4>1. Len(got) \in 1 .. Len(got) /\ Len(got) \in 1 .. Len(fills) /\ Len(got) <= i
          BY <1>3, <2>1, <3>3
        <4>2. o = fills[Len(got)].wal_offset /\ fills[Len(got)].wal_offset <= fills[i].wal_offset
          BY <1>3, <1>6, <2>1, <3>0, <3>3, <4>1
        <4> QED
          BY <1>6, <3>0, <4>2 DEF MetadataRecords
      <3> QED
        BY <1>3, <3>1, <3>2, <3>3
    <2>6. d \in Nat /\ d <= kg /\ d + Len(b) = Len(fills)
      <3>1. d \in Int /\ d >= 0 /\ d + Len(b) = Len(fills)
        BY <1>3, <1>4
      <3>2. Len(fills) - kg <= cap
        BY <1>3, <2>1, <2>3
      <3>3. d <= kg
        <4>1. Len(fills) \in Nat /\ Len(b) \in Nat /\ cap \in Nat /\ kg \in Nat
          BY <1>3
        <4> QED
          BY ONLY <1>4, <3>2, <4>1 DEF d
      <3> QED
        BY <3>1, <3>3
    <2>7. \A i \in 1 .. Len(b) : b[i] = fills[d + i] /\ d + i \in 1 .. Len(fills)
      <3> TAKE i \in 1 .. Len(b)
      <3>1. b[i] = fills[d + i]
        BY <1>3
      <3>2. d + i \in 1 .. Len(fills)
        <4>1. Len(fills) \in Nat /\ Len(b) \in Nat
          BY <1>3
        <4> HIDE DEF d
        <4> QED
          BY ONLY i \in 1 .. Len(b), <2>6, <4>1
      <3> QED
        BY <3>1, <3>2
    <2> HIDE DEF d
    <2>8. d + kb = kg
      <3>1. ASSUME d + kb > kg PROVE FALSE
        <4>1. kb \in 1 .. kb /\ kb \in 1 .. Len(b) /\ d + kb \in kg + 1 .. Len(fills)
          BY <1>3, <2>6, <3>1
        <4>2. b[kb].wal_offset < o /\ fills[d + kb].wal_offset >= o /\ b[kb] = fills[d + kb]
          BY <1>8, <2>5, <2>7, <4>1
        <4>3. b[kb] \in MetadataRecords
          BY <1>3, <4>1
        <4> QED
          BY <1>6, <4>2, <4>3 DEF MetadataRecords
      <3>2. ASSUME d + kb < kg PROVE FALSE
        <4>1. kb + 1 \in kb + 1 .. Len(b) /\ kb + 1 \in 1 .. Len(b) /\ d + (kb + 1) \in 1 .. kg
          BY <1>3, <2>1, <2>6, <3>2
        <4>2. b[kb + 1].wal_offset >= o /\ fills[d + (kb + 1)].wal_offset < o
              /\ b[kb + 1] = fills[d + (kb + 1)]
          BY <1>8, <2>4, <2>7, <4>1
        <4>3. b[kb + 1] \in MetadataRecords
          BY <1>3, <4>1
        <4> QED
          BY <1>6, <4>2, <4>3 DEF MetadataRecords
      <3> QED
        BY <2>6, <3>1, <3>2
    <2>9. Len(fresh) = Len(fills) - Len(got)
      <3>1. Len(fills) \in Nat /\ Len(b) \in Nat /\ Len(got) \in Nat
        BY <1>3
      <3>2. Len(fresh) = Len(reply) - already /\ Len(reply) = Len(b) - kb /\ already = Len(got) - kg
        BY <1>8, <1>9, <2>3
      <3>3. kb \in Nat /\ kg \in Nat
        BY <3>1
      <3> QED
        BY ONLY <2>6, <2>8, <3>1, <3>2, <3>3
    <2>10. ASSUME NEW i \in 1 .. Len(fills) PROVE (got \o fresh)[i] = fills[i]
      <3>1. i \in 1 .. Len(got) + Len(fresh)
        BY <1>3, <2>9
      <3>2. CASE i <= Len(got)
        BY <1>3, <1>10, <2>1, <3>1, <3>2
      <3>3. CASE ~ (i <= Len(got))
        <4> DEFINE h == i - Len(got)
        <4>1. h \in 1 .. Len(reply) - already /\ already + h \in 1 .. Len(b) - kb
              /\ kb + (already + h) \in 1 .. Len(b) /\ d + (kb + (already + h)) = i
          <5>1. Len(fills) \in Nat /\ Len(b) \in Nat /\ Len(got) \in Nat
            BY <1>3
          <5>2. Len(reply) = Len(b) - kb /\ already = Len(got) - kg
            BY <1>8, <2>3
          <5>3. kb \in 0 .. Len(b) /\ kg \in 0 .. Len(got) /\ i \in 1 .. Len(fills)
            OBVIOUS
          <5> QED
            BY ONLY <2>6, <2>8, <3>3, <5>1, <5>2, <5>3 DEF h
        <4>2. (got \o fresh)[i] = fresh[h]
          BY <1>10, <3>1, <3>3
        <4> HIDE DEF h
        <4>3. fresh[h] = reply[already + h] /\ reply[already + h] = b[kb + (already + h)]
          BY <1>8, <1>9, <4>1
        <4>4. b[kb + (already + h)] = fills[d + (kb + (already + h))]
          BY <2>7, <4>1
        <4> QED
          BY <4>1, <4>2, <4>3, <4>4
      <3> QED
        BY <3>2, <3>3
    <2>11. Len(got \o fresh) = Len(fills)
      BY <1>3, <1>10, <2>9
    <2> QED
      <3>1. got \o fresh \in Seq(MetadataRecords) /\ fills \in Seq(MetadataRecords)
        BY <1>3, <1>10
      <3>2. Len(got \o fresh) <= Len(fills)
            /\ \A i \in 1 .. Len(got \o fresh) : (got \o fresh)[i] = fills[i]
        <4>1. Len(fills) \in Nat
          BY <1>3
        <4> QED
          BY ONLY <2>10, <2>11, <4>1
      <3> QED
        BY ONLY <3>1, <3>2, PrefixElements
  <1>13. MetadataComplete'
    BY <1>1, <1>11, <1>12 DEF MetadataComplete
  <1> QED
    BY <1>1, <1>2, <1>11, <1>13 DEF RecoveryInv, MetadataInv, b

\* A reader's poll changes nothing but what this reader knows.
LEMMA PollKeepsInv ==
    ASSUME RecoveryInv, poll
    PROVE  RecoveryInv'
  <1>1. UNCHANGED <<vars, loop, snapshots, history>>
    BY DEF poll
  <1>2. /\ Log' = Log /\ Running' = Running /\ next_sequence' = next_sequence
        /\ UNCHANGED <<turn, state, processed, block_number, frames, birth, restarted>>
    BY <1>1 DEF vars, loop, history, Log, Running
  <1>3. Applied' = Applied /\ Published' = Published
    BY <1>2 DEF Applied, Published
  <1>4. Inv' /\ next_sequence \in Nat
    BY <1>1, NextKeepsInv DEF RecoveryInv, Inv, TypeOK
  <1>5. LoopInv'
    BY <1>2, <1>3 DEF RecoveryInv, LoopInv
  <1>6. FirstInv' /\ OwnInv'
    BY <1>2, <1>3, SameFirst DEF RecoveryInv
  <1>7. CASE poll_feed
    <2>1. UNCHANGED metadata_vars
      BY <1>7 DEF poll_feed, buffers, metadata_vars
    <2>2. MetadataInv'
      BY <1>2, <1>4, <2>1, SameMetadata DEF RecoveryInv
    <2> QED
      BY <1>1, <1>4, <1>5, <1>6, <1>7, <2>2, PollFeedKeepsInv DEF RecoveryInv
  <1>8. CASE poll_metadata
    <2>1. UNCHANGED feed_vars
      BY <1>8 DEF poll_metadata, buffers, feed_vars
    <2>2. Running /\ turn = "feed" =>
              /\ Log # <<>>
              /\ Log[Len(Log)] = [part |-> "record", sequence |-> next_sequence - 1,
                                  value |-> frames]
      BY DEF RecoveryInv, FeedInv
    <2>3. FeedInv'
      BY <1>2, <1>3, <2>1, <2>2, SameFeed DEF RecoveryInv
    <2> QED
      BY <1>1, <1>4, <1>5, <1>6, <1>8, <2>3, PollMetadataKeepsInv DEF RecoveryInv
  <1> QED
    BY <1>7, <1>8 DEF poll

\* A step that changes nothing.
LEMMA StutterKeepsInv ==
    ASSUME RecoveryInv, UNCHANGED recovery_vars
    PROVE  RecoveryInv'
  <1>1. UNCHANGED <<vars, feed_vars, metadata_vars, turn, state, processed, block_number,
                    frames, birth, restarted>>
    BY DEF recovery_vars, router_vars, buffers, readers, feed_vars, metadata_vars, loop, history
  <1>2. Log' = Log /\ Running' = Running /\ next_sequence' = next_sequence
    BY <1>1 DEF vars, Log, Running
  <1>3. Applied' = Applied /\ Published' = Published
    BY <1>1, <1>2 DEF Applied, Published
  <1>4. Inv' /\ next_sequence \in Nat
    BY <1>1, NextKeepsInv DEF RecoveryInv, Inv, TypeOK
  <1>5. LoopInv'
    BY <1>1, <1>2, <1>3 DEF RecoveryInv, LoopInv
  <1>6. FirstInv' /\ OwnInv'
    BY <1>1, <1>2, <1>3, SameFirst DEF RecoveryInv
  <1>7. FeedInv'
    <2>1. Running /\ turn = "feed" =>
              /\ Log # <<>>
              /\ Log[Len(Log)] = [part |-> "record", sequence |-> next_sequence - 1,
                                  value |-> frames]
      BY DEF RecoveryInv, FeedInv
    <2> QED
      BY <1>1, <1>2, <1>3, <2>1, SameFeed DEF RecoveryInv
  <1>8. MetadataInv'
    BY <1>1, <1>2, <1>4, SameMetadata DEF RecoveryInv
  <1> QED
    BY <1>4, <1>5, <1>6, <1>7, <1>8 DEF RecoveryInv

\* Every step keeps the invariant.
LEMMA RecoveryNextKeepsInv ==
    ASSUME RecoveryInv, [RecoveryNext]_recovery_vars
    PROVE  RecoveryInv'
  BY ProcessFrameKeepsInv, PushFeedKeepsInv, PushFillKeepsInv, EndTurnKeepsInv,
     WriteKeepsInv, EndKeepsInv, RestartKeepsInv, PollKeepsInv,
     StutterKeepsInv DEF RecoveryNext

-----------------------------------------------------------------------------
(* The invariant: snapshots                                                *)

\* Snapshot p of books with frames c is labelled with their number; the first m
\* frames exist, and if those of c came after the first b, they are the next ones.
SnapshotOf(p, c, b, m) ==
    /\ Len(c) > 0 /\ p.sequence = label(Len(c))
    /\ \A i \in 1 .. Len(c) : c[i] \in 1 .. m
    /\ c[1] > b => \A i \in 1 .. Len(c) : c[i] = b + i

Labels == [sequence : 0 .. MaxLabel, block_number : Nat]

TakenInv ==
    /\ persisted \in Seq(Labels) /\ covered \in Seq(Seq(Nat))
    /\ Len(covered) = Len(persisted)
    /\ \A k \in 1 .. Len(covered) : SnapshotOf(persisted[k], covered[k], birth, frames)

\* What the store's files hold of the first n snapshots.
StoreRecords(n) == [n : 1 .. n, bytes : {SnapshotSize}, part : Store!Parts]
StoreFiles(n) == Seq(StoreRecords(n)) \cup {NoFile}

\* The files hold records of snapshots, and the last one that was written whole while
\* compaction looks at the file.
StoreInv ==
    /\ store_file \in StoreFiles(Len(persisted)) /\ store_tmp \in StoreFiles(Len(persisted))
    /\ store_pc = "append" =>
          store_file # NoFile /\ store_record = SnapshotSize /\ Len(persisted) > 0
    /\ store_pc = "compact" =>
          /\ store_file # NoFile /\ store_file # <<>>
          /\ store_file[Len(store_file)].part = "whole"

USE LabelAssumption

\* A label is a SequenceId, and at most the number of blocks.
LEMMA LabelProperties ==
    ASSUME NEW n \in Nat
    PROVE  label(n) \in 0 .. MaxLabel /\ label(n) <= n /\ (label(n) < MaxLabel => label(n) = n)
  BY DEF label

\* What compaction keeps is a part of what the file has.
LEMMA KeptRecords ==
    ASSUME NEW S, NEW f \in Seq(S), f # <<>>
    PROVE  Store!Kept(f) \in Seq(S)
  <1> DEFINE first == IF Store!TooMany(f) THEN Len(f) - Store!max_records + 1 ELSE 1
             fits == {i \in first .. Len(f) : ~ Store!TooLarge(Store!From(f, i))}
             T == fits \cup {Len(f)}
             start == Store!Min(T)
  <1>1. Len(f) \in Nat /\ Len(f) >= 1 /\ Store!max_records \in Nat
    BY OptionsAssumption DEF Store!max_records
  <1>2. first \in 1 .. Len(f)
    BY <1>1 DEF Store!TooMany
  <1> HIDE DEF first
  <1>3. T \in SUBSET Nat /\ T # {} /\ T \subseteq 1 .. Len(f)
    BY <1>1, <1>2
  <1>4. start \in T
    <2>1. \E x \in T : \A y \in T : x <= y
      BY <1>3, LeastNat
    <2> HIDE DEF T
    <2> QED
      BY <2>1 DEF Store!Min
  <1>5. Store!Kept(f) = SubSeq(f, start, Len(f))
    BY DEF Store!Kept, Store!From, first
  <1>6. start \in 1 .. Len(f)
    BY <1>3, <1>4
  <1> HIDE DEF start
  <1> QED
    BY <1>1, <1>5, <1>6

\* What a crash leaves of records is records.
LEMMA CutRecords ==
    ASSUME NEW n \in Nat, NEW f \in Seq(StoreRecords(n)), NEW g \in Store!Cuts(f)
    PROVE  g \in Seq(StoreRecords(n))
  <1>1. CASE \E i \in 0 .. Len(f) : g = SubSeq(f, 1, i)
    BY <1>1
  <1>2. CASE \E i \in 1 .. Len(f), part \in {"header", "body"} :
                g = Append(SubSeq(f, 1, i - 1), [f[i] EXCEPT !.part = part])
    <2>1. PICK i \in 1 .. Len(f), part \in {"header", "body"} :
                g = Append(SubSeq(f, 1, i - 1), [f[i] EXCEPT !.part = part])
      BY <1>2
    <2> DEFINE last == [f[i] EXCEPT !.part = part]
    <2>2. f[i] \in StoreRecords(n)
      OBVIOUS
    <2>3. last \in StoreRecords(n)
      BY <2>2 DEF StoreRecords, Store!Parts
    <2> HIDE DEF last
    <2>4. SubSeq(f, 1, i - 1) \in Seq(StoreRecords(n))
      OBVIOUS
    <2>5. g = Append(SubSeq(f, 1, i - 1), last)
      BY <2>1 DEF last
    <2> QED
      BY <2>3, <2>4, <2>5, AppendProperties
  <1> QED
    <2> DEFINE A == {SubSeq(f, 1, i) : i \in 0 .. Len(f)}
               B == {Append(SubSeq(f, 1, i - 1), [f[i] EXCEPT !.part = part]) :
                       i \in 1 .. Len(f), part \in {"header", "body"}}
    <2>1. Store!Cuts(f) = A \cup B
      BY DEF Store!Cuts
    <2>2. g \in A => \E i \in 0 .. Len(f) : g = SubSeq(f, 1, i)
      OBVIOUS
    <2>3. g \in B => \E i \in 1 .. Len(f), part \in {"header", "body"} :
                g = Append(SubSeq(f, 1, i - 1), [f[i] EXCEPT !.part = part])
      OBVIOUS
    <2> HIDE DEF A, B
    <2> QED
      BY <1>1, <1>2, <2>1, <2>2, <2>3

\* The record that persist was given is the last snapshot.
LEMMA AppendedRecord ==
    ASSUME Len(persisted) \in Nat, StoreInv, store_pc = "append", NEW part \in Store!Parts
    PROVE  LET g == Append(store_file, Store!NewRecord(part))
           IN  /\ g \in Seq(StoreRecords(Len(persisted))) /\ g # <<>>
               /\ g[Len(g)].part = part
  <1> DEFINE r == Store!NewRecord(part)
             g == Append(store_file, r)
  <1>1. r \in StoreRecords(Len(persisted)) /\ r.part = part
    BY DEF StoreInv, StoreRecords, Store!NewRecord
  <1>2. store_file \in Seq(StoreRecords(Len(persisted)))
    BY DEF StoreInv, StoreFiles
  <1> HIDE DEF r
  <1>3. g \in Seq(StoreRecords(Len(persisted))) /\ Len(g) = Len(store_file) + 1
        /\ g[Len(store_file) + 1] = r /\ Len(store_file) \in Nat
    BY <1>1, <1>2, AppendProperties, LenProperties
  <1>4. g # <<>> /\ g[Len(g)] = r
    BY <1>3
  <1> QED
    BY <1>1, <1>3, <1>4 DEF r

\* A file that compaction reads has a whole record at its end.
LEMMA ReadRecords ==
    ASSUME StoreInv, store_pc = "compact"
    PROVE  /\ Store!load_records(store_file) = store_file
           /\ store_file \in Seq(StoreRecords(Len(persisted))) /\ store_file # <<>>
  BY DEF StoreInv, StoreFiles, Store!load_records, Store!Last

\* A file with records is a file.
LEMMA FilesAreThere ==
    ASSUME NEW n \in Nat, NEW f \in Seq(StoreRecords(n))
    PROVE  f # NoFile
  <1>1. StoreRecords(n) \subseteq Store!Records
    BY DEF StoreRecords, Store!Records
  <1>2. f \in Seq(Store!Records)
    BY <1>1, SeqMonotonic, Zenon
  <1> QED
    BY <1>2, NoFileAssumption

\* The store's own steps keep its files in order.
LEMMA StoreStepKeepsInv ==
    ASSUME StoreInv, Len(persisted) \in Nat, UNCHANGED persisted,
           \/ Store!flush \/ Store!compact_unlimited \/ Store!compact_not_needed
           \/ Store!compact_write \/ Store!compact_remove \/ Store!compact_rename
           \/ Store!compact_throws \/ Store!kill \/ Store!power_loss
           \/ Store!exit \/ Store!restart
    PROVE  StoreInv'
  <1> DEFINE N == Len(persisted)
  <1>1. NoFile \in StoreFiles(N) /\ \A f \in Seq(StoreRecords(N)) : f \in StoreFiles(N)
    BY DEF StoreFiles
  <1>2. CASE Store!flush
    <2>1. store_pc = "append" /\ "whole" \in Store!Parts
      BY <1>2 DEF Store!flush, Store!Parts
    <2> DEFINE g == Append(store_file, Store!NewRecord("whole"))
    <2>2. g \in Seq(StoreRecords(N)) /\ g # <<>> /\ g[Len(g)].part = "whole"
      BY <2>1, AppendedRecord
    <2>3. store_file' = g /\ store_tmp' = store_tmp /\ store_pc' = "compact"
      BY <1>2 DEF Store!flush
    <2>4. g # NoFile
      BY <2>2, FilesAreThere
    <2> HIDE DEF g
    <2> QED
      BY <1>1, <2>2, <2>3, <2>4 DEF StoreInv
  <1>3. CASE \/ Store!compact_unlimited \/ Store!compact_not_needed \/ Store!compact_throws
             \/ Store!exit \/ Store!restart
    BY <1>3 DEF StoreInv, Store!compact_unlimited, Store!compact_not_needed,
                Store!compact_throws, Store!exit, Store!restart, Store!return
  <1>4. CASE Store!compact_write
    <2>1. store_tmp' \in Seq(StoreRecords(N))
      BY <1>4, ReadRecords, KeptRecords DEF Store!compact_write
    <2>2. store_file' = store_file /\ store_pc' = "remove"
      BY <1>4 DEF Store!compact_write
    <2> QED
      BY <1>1, <2>1, <2>2 DEF StoreInv
  <1>5. CASE Store!compact_remove \/ Store!compact_rename
    BY <1>1, <1>5 DEF StoreInv, Store!compact_remove, Store!compact_rename, Store!return
  <1>6. CASE Store!kill \/ Store!power_loss
    <2>1. store_pc' = "down"
      BY <1>6 DEF Store!kill, Store!power_loss, Store!Die
    <2>2. store_file' \in StoreFiles(N)
      <3>1. CASE store_file' = store_file
        BY <3>1 DEF StoreInv
      <3>2. CASE store_pc = "append" /\ \E part \in Store!Parts :
                     store_file' = Append(store_file, Store!NewRecord(part))
        BY <1>1, <3>2, AppendedRecord
      <3>3. CASE store_file # NoFile /\ store_file' \in Store!Cuts(store_file)
        <4>1. store_file \in Seq(StoreRecords(N))
          BY <3>3 DEF StoreInv, StoreFiles
        <4> QED
          BY <1>1, <3>3, <4>1, CutRecords
      <3> QED
        BY <1>6, <3>1, <3>2, <3>3 DEF Store!kill, Store!power_loss
    <2>3. store_tmp' \in StoreFiles(N)
      <3>1. CASE store_tmp' = store_tmp
        BY <3>1 DEF StoreInv
      <3>2. CASE store_pc = "compact"
                 /\ store_tmp' \in Store!Cuts(Store!Kept(Store!load_records(store_file)))
        <4>1. Store!Kept(store_file) \in Seq(StoreRecords(N))
              /\ Store!load_records(store_file) = store_file
          BY <3>2, ReadRecords, KeptRecords
        <4> QED
          BY <1>1, <3>2, <4>1, CutRecords
      <3> QED
        BY <1>6, <3>1, <3>2 DEF Store!kill, Store!power_loss
    <2> QED
      BY <2>1, <2>2, <2>3 DEF StoreInv
  <1> QED
    BY <1>2, <1>3, <1>4, <1>5, <1>6

SnapshotInv == TakenInv /\ StoreInv

\* There is no snapshot at first.
LEMMA SnapshotInitInv == RecoveryInit => SnapshotInv
  <1> SUFFICES ASSUME RecoveryInit PROVE SnapshotInv
    OBVIOUS
  <1>1. TakenInv
    BY DEF RecoveryInit, TakenInv
  <1>2. StoreInv
    BY DEF RecoveryInit, Store!Init, StoreInv, StoreFiles
  <1> QED
    BY <1>1, <1>2 DEF SnapshotInv

\* A snapshot stands for the same frames when there are more, and when a new process
\* begins.
LEMMA SnapshotsKept ==
    ASSUME TakenInv, UNCHANGED <<persisted, covered>>, frames \in Nat, frames' \in Nat,
           frames <= frames', birth' \in {birth, frames}
    PROVE  TakenInv'
  <1>1. ASSUME NEW k \in 1 .. Len(covered)
        PROVE  SnapshotOf(persisted[k], covered[k], birth', frames')
    <2> DEFINE c == covered[k]
    <2>1. SnapshotOf(persisted[k], c, birth, frames) /\ c \in Seq(Nat)
      BY DEF TakenInv
    <2> HIDE DEF c
    <2>2. \A i \in 1 .. Len(c) : c[i] \in 1 .. frames'
      BY <2>1 DEF SnapshotOf
    <2>3. c[1] > birth' => \A i \in 1 .. Len(c) : c[i] = birth' + i
      <3>1. CASE birth' = birth
        BY <2>1, <3>1 DEF SnapshotOf
      <3>2. CASE birth' = frames
        <4>1. 1 \in 1 .. Len(c)
          BY <2>1 DEF SnapshotOf
        <4>2. c[1] \in 1 .. frames
          BY <2>1, <4>1 DEF SnapshotOf
        <4> QED
          BY <3>2, <4>2
      <3> QED
        BY <3>1, <3>2
    <2>4. Len(c) > 0 /\ persisted[k].sequence = label(Len(c))
      BY <2>1 DEF SnapshotOf
    <2> QED
      BY <2>2, <2>3, <2>4 DEF SnapshotOf, c
  <1>2. \A k \in 1 .. Len(covered') : SnapshotOf(persisted'[k], covered'[k], birth', frames')
    BY <1>1
  <1>3. /\ persisted' \in Seq(Labels) /\ covered' \in Seq(Seq(Nat))
        /\ Len(covered') = Len(persisted')
    BY DEF TakenInv
  <1> QED
    BY <1>2, <1>3 DEF TakenInv

\* The books that a new snapshot is taken of.
LEMMA StartedSnapshot ==
    ASSUME RecoveryInv, start_snapshot
    PROVE  /\ state \in Seq(Nat) /\ new_block = Len(state)
           /\ SnapshotOf([sequence |-> label(new_block), block_number |-> new_block],
                         state, birth, frames)
           /\ [sequence |-> label(new_block), block_number |-> new_block] \in Labels
  <1>1. turn = "idle" /\ processed > 0 /\ Running
    BY DEF start_snapshot, Running
  <1>2. /\ frames \in Nat /\ birth \in 0 .. frames /\ processed \in Nat /\ block_number \in Nat
        /\ state \in Seq(Nat) /\ \A i \in 1 .. Len(state) : state[i] = birth + i
        /\ birth + Len(state) = frames
        /\ block_number + processed = Len(state)
    BY <1>1 DEF RecoveryInv, LoopInv, Applied
  <1>3. Len(state) \in Nat /\ new_block = Len(state)
    BY <1>2 DEF new_block
  <1>4. Len(state) > 0
    BY <1>1, <1>2, <1>3
  <1>5. \A i \in 1 .. Len(state) : state[i] \in 1 .. frames
    BY <1>2, <1>3
  <1>6. SnapshotOf([sequence |-> label(new_block), block_number |-> new_block],
                   state, birth, frames)
    BY <1>2, <1>3, <1>4, <1>5 DEF SnapshotOf
  <1>7. [sequence |-> label(new_block), block_number |-> new_block] \in Labels
    <2>1. label(new_block) \in 0 .. MaxLabel
      BY <1>3, LabelProperties
    <2> QED
      BY <1>3, <2>1 DEF Labels
  <1> QED
    BY <1>2, <1>3, <1>6, <1>7

\* A call of persist stores the books of the moment.
LEMMA StartSnapshotKeepsInv ==
    ASSUME RecoveryInv, SnapshotInv, start_snapshot
    PROVE  SnapshotInv'
  <1> DEFINE p == [sequence |-> label(new_block), block_number |-> new_block]
             N == Len(persisted)
  <1>1. /\ persisted' = Append(persisted, p) /\ covered' = Append(covered, state)
        /\ birth' = birth /\ frames' = frames
    BY DEF start_snapshot, history
  <1>2. p \in Labels /\ state \in Seq(Nat) /\ SnapshotOf(p, state, birth, frames)
    BY StartedSnapshot
  <1> HIDE DEF p
  <1>3. /\ persisted \in Seq(Labels) /\ covered \in Seq(Seq(Nat))
        /\ Len(covered) = N /\ N \in Nat
    BY DEF SnapshotInv, TakenInv
  <1>4. /\ persisted' \in Seq(Labels) /\ Len(persisted') = N + 1
        /\ persisted'[N + 1] = p
        /\ \A k \in 1 .. N : persisted'[k] = persisted[k]
    BY <1>1, <1>2, <1>3, AppendProperties
  <1>5. /\ covered' \in Seq(Seq(Nat)) /\ Len(covered') = N + 1
        /\ covered'[N + 1] = state
        /\ \A k \in 1 .. N : covered'[k] = covered[k]
    BY <1>1, <1>2, <1>3, AppendProperties
  <1>6. ASSUME NEW k \in 1 .. N + 1
        PROVE  SnapshotOf(persisted'[k], covered'[k], birth, frames)
    <2>1. CASE k = N + 1
      BY <1>2, <1>4, <1>5, <2>1
    <2>2. CASE k # N + 1
      <3>1. k \in 1 .. N
        BY <1>3, <2>2
      <3>2. SnapshotOf(persisted[k], covered[k], birth, frames)
        BY <1>3, <3>1 DEF SnapshotInv, TakenInv
      <3> QED
        BY <1>4, <1>5, <3>1, <3>2
    <2> QED
      BY <2>1, <2>2
  <1>7. TakenInv'
    BY <1>1, <1>4, <1>5, <1>6 DEF TakenInv
  <1>8. StoreInv'
    <2>1. /\ store_pc' = "append" /\ store_record' = SnapshotSize /\ store_tmp' = store_tmp
          /\ store_file' = IF store_file = NoFile THEN <<>> ELSE store_file
      BY DEF start_snapshot, Store!persist
    <2>2. StoreRecords(N) \subseteq StoreRecords(N + 1)
      BY <1>3 DEF StoreRecords
    <2>3. Seq(StoreRecords(N)) \subseteq Seq(StoreRecords(N + 1))
      BY <2>2, SeqMonotonic, Zenon
    <2>4. StoreFiles(N) \subseteq StoreFiles(N + 1)
      BY <2>3 DEF StoreFiles
    <2>5. store_file' \in Seq(StoreRecords(N + 1)) /\ store_tmp' \in StoreFiles(N + 1)
      <3>1. <<>> \in Seq(StoreRecords(N + 1))
        OBVIOUS
      <3>2. store_file \in Seq(StoreRecords(N)) \cup {NoFile} /\ store_tmp \in StoreFiles(N)
        BY DEF SnapshotInv, StoreInv, StoreFiles
      <3> QED
        BY <2>1, <2>3, <2>4, <3>1, <3>2
    <2>6. N + 1 \in Nat /\ N + 1 > 0
      BY <1>3
    <2>7. store_file' # NoFile
      BY <2>5, <2>6, FilesAreThere
    <2>8. store_file' \in StoreFiles(N + 1)
      BY <2>5 DEF StoreFiles
    <2> QED
      BY <1>4, <2>1, <2>5, <2>6, <2>7, <2>8 DEF StoreInv
  <1> QED
    BY <1>7, <1>8 DEF SnapshotInv

\* Every step keeps the snapshots and their store in order.
LEMMA SnapshotNextKeepsInv ==
    ASSUME RecoveryInv, SnapshotInv, [RecoveryNext]_recovery_vars
    PROVE  SnapshotInv'
  <1>1. frames \in Nat /\ Len(persisted) \in Nat
    BY DEF RecoveryInv, LoopInv, SnapshotInv, TakenInv
  <1>2. CASE /\ UNCHANGED <<persisted, covered, store_vars, birth>>
             /\ frames' \in {frames, frames + 1}
    <2>1. TakenInv'
      BY <1>1, <1>2, SnapshotsKept DEF SnapshotInv
    <2>2. StoreInv'
      BY <1>2 DEF SnapshotInv, StoreInv, store_vars
    <2> QED
      BY <2>1, <2>2 DEF SnapshotInv
  <1>3. CASE /\ UNCHANGED <<persisted, covered, frames>> /\ birth' \in {birth, frames}
             /\ \/ Store!flush \/ Store!compact_unlimited \/ Store!compact_not_needed
                \/ Store!compact_write \/ Store!compact_remove \/ Store!compact_rename
                \/ Store!compact_throws \/ Store!kill \/ Store!power_loss
                \/ Store!exit \/ Store!restart
    <2>1. TakenInv'
      BY <1>1, <1>3, SnapshotsKept DEF SnapshotInv
    <2>2. StoreInv'
      BY <1>1, <1>3, StoreStepKeepsInv DEF SnapshotInv
    <2> QED
      BY <2>1, <2>2 DEF SnapshotInv
  <1>4. CASE start_snapshot
    BY <1>4, StartSnapshotKeepsInv
  <1>5. CASE process_frame \/ push_feed \/ push_fill \/ end_frame
    BY <1>2, <1>5 DEF process_frame, push_feed, push_fill, end_frame, snapshots, history
  <1>6. CASE end_turn \/ write_log \/ shut_down \/ restart_fails \/ poll
    BY <1>2, <1>6 DEF end_turn, write_log, shut_down, restart_fails, poll, snapshots, history
  <1>7. CASE continue_snapshot
    BY <1>3, <1>7 DEF continue_snapshot, snapshots, history
  <1>8. CASE exit \/ die \/ snapshot_throws \/ lose_power
    BY <1>3, <1>8 DEF exit, die, snapshot_throws, lose_power, snapshots, history
  <1>9. CASE restart
    BY <1>3, <1>9 DEF restart, snapshots
  <1>10. CASE UNCHANGED recovery_vars
    BY <1>2, <1>10 DEF recovery_vars, snapshots, history
  <1> QED
    BY <1>4, <1>5, <1>6, <1>7, <1>8, <1>9, <1>10 DEF RecoveryNext

-----------------------------------------------------------------------------
(* What the invariant says of a replay                                     *)

\* The snapshot that latest returns is one that was persisted.
LEMMA LatestSnapshot ==
    ASSUME SnapshotInv, HasSnapshot
    PROVE  Store!latest \in 1 .. Len(persisted)
  <1> DEFINE f == store_file
             N == Len(persisted)
  <1>1. /\ f # NoFile /\ Store!load_records(f) # <<>>
        /\ Store!latest = Last(Store!load_records(f)).n
    BY DEF HasSnapshot, Store!latest, Store!Last, Last
  <1>2. f \in Seq(StoreRecords(N)) /\ Len(f) \in Nat
    BY <1>1 DEF SnapshotInv, StoreInv, StoreFiles
  <1>3. Store!load_records(f) \in Seq(StoreRecords(N))
    BY <1>2 DEF Store!load_records, Store!Front
  <1> DEFINE g == Store!load_records(f)
  <1> HIDE DEF g
  <1>4. g \in Seq(StoreRecords(N)) /\ g # <<>> /\ Store!latest = g[Len(g)].n
    BY <1>1, <1>3 DEF g, Last
  <1>5. g[Len(g)] \in StoreRecords(N)
    BY <1>4
  <1> QED
    BY <1>4, <1>5 DEF StoreRecords

\* What it stands for.
LEMMA CoveredFrames ==
    ASSUME RecoveryInv, SnapshotInv, HasSnapshot
    PROVE  /\ snap.sequence \in 0 .. MaxLabel /\ Covered \in Seq(Nat)
           /\ SnapshotOf(snap, Covered, birth, frames)
  <1>1. Store!latest \in 1 .. Len(persisted)
    BY LatestSnapshot
  <1> DEFINE k == Store!latest
  <1>2. snap = persisted[k] /\ Covered = covered[k]
    BY DEF snap, Covered
  <1> HIDE DEF k
  <1>3. k \in 1 .. Len(persisted)
    BY <1>1 DEF k
  <1>4. persisted[k] \in Labels /\ covered[k] \in Seq(Nat)
        /\ SnapshotOf(persisted[k], covered[k], birth, frames)
    BY <1>3 DEF SnapshotInv, TakenInv
  <1> QED
    BY <1>2, <1>4 DEF Labels

\* Each chosen element has its place in a selection.
LEMMA SelectionHas ==
    ASSUME NEW s, NEW n \in Nat, NEW I \in SUBSET (1 .. n)
    PROVE  /\ Cardinality(I) \in Nat /\ DOMAIN Selection(s, I) = 1 .. Cardinality(I)
           /\ \A i \in I : \E k \in 1 .. Cardinality(I) : Selection(s, I)[k] = s[i]
  <1> DEFINE C(h) == Cardinality({j \in I : j <= h})
             At(k) == CHOOSE h \in I : C(h) = k
  <1>1. IsFiniteSet(1 .. n)
    BY FS_Interval
  <1>2. IsFiniteSet(I) /\ Cardinality(I) \in Nat
    BY <1>1, FS_Subset, FS_CardinalityType
  <1>3. Selection(s, I) = [k \in 1 .. Cardinality(I) |-> s[At(k)]]
    BY DEF Selection
  <1>4. ASSUME NEW i \in I PROVE \E k \in 1 .. Cardinality(I) : Selection(s, I)[k] = s[i]
    <2>1. ASSUME NEW h \in I, NEW j \in I, h < j PROVE C(h) < C(j)
      <3> DEFINE H == {x \in I : x <= h}
                 J == {x \in I : x <= j}
      <3>1. h \in Nat /\ j \in Nat /\ \A x \in I : x \in Nat
        OBVIOUS
      <3>2. H \subseteq J /\ J \subseteq I /\ j \in J /\ j \notin H
        <4>1. \A x \in I : x <= h => x <= j
          BY <2>1, <3>1
        <4>2. j <= j /\ ~ (j <= h)
          BY <2>1, <3>1
        <4> QED
          BY ONLY <4>1, <4>2, Zenon DEF H, J
      <3> HIDE DEF H, J
      <3>3. IsFiniteSet(J)
        BY <1>2, <3>2, FS_Subset
      <3>4. IsFiniteSet(H) /\ Cardinality(H) <= Cardinality(J)
            /\ (Cardinality(H) = Cardinality(J) => H = J)
        BY <3>2, <3>3, FS_Subset
      <3>5. Cardinality(H) \in Nat /\ Cardinality(J) \in Nat
        BY <3>3, <3>4, FS_CardinalityType
      <3>6. Cardinality(H) < Cardinality(J)
        BY <3>2, <3>4, <3>5
      <3> QED
        BY <3>6 DEF H, J
    <2>2. \A h \in I : C(h) \in 1 .. Cardinality(I)
      <3> TAKE h \in I
      <3> DEFINE H == {x \in I : x <= h}
      <3>1. h \in H /\ H \subseteq I
        OBVIOUS
      <3> HIDE DEF H
      <3>2. IsFiniteSet(H) /\ Cardinality(H) <= Cardinality(I) /\ Cardinality(H) \in Nat
        BY <1>2, <3>1, FS_Subset, FS_CardinalityType
      <3>3. Cardinality(H) # 0
        BY <3>1, <3>2, FS_EmptySet
      <3>4. Cardinality(H) \in 1 .. Cardinality(I)
        BY <1>2, <3>2, <3>3
      <3> QED
        BY <3>4 DEF H
    <2> HIDE DEF C
    <2>3. ASSUME NEW h \in I, C(h) = C(i) PROVE h = i
      <3>1. h \in Nat /\ i \in Nat /\ C(i) \in Int
        BY <2>2
      <3>2. ~ (h < i) /\ ~ (i < h)
        BY <2>1, <2>3, <3>1
      <3> QED
        BY <3>1, <3>2
    <2>4. At(C(i)) = i
      BY <2>3
    <2>5. C(i) \in 1 .. Cardinality(I)
      BY <2>2
    <2>6. Selection(s, I)[C(i)] = s[At(C(i))]
      BY <1>3, <2>5
    <2> QED
      BY <2>4, <2>5, <2>6
  <1>5. DOMAIN Selection(s, I) = 1 .. Cardinality(I)
    BY <1>3
  <1> QED
    BY <1>2, <1>4, <1>5

\* The event handler gets the value of each record from resume_from on.
LEMMA ReplayedFrames ==
    ASSUME RecoveryInv, NEW n \in 0 .. Len(file)
    PROVE  \E m \in Nat : \E S :
              /\ execute(n) \in Seq(S) /\ Len(execute(n)) = m
              /\ \A i \in 1 .. n : file[i].sequence >= resume_from =>
                    \E k \in 1 .. m : execute(n)[k] = file[i].value
  <1> DEFINE I == {i \in 1 .. n : file[i].sequence >= resume_from}
             events == Selection(file, I)
             values == [i \in DOMAIN events |-> events[i].value]
             m == Cardinality(I)
             S == {values[k] : k \in 1 .. m}
  <1>1. n \in Nat
    BY DEF RecoveryInv, Inv, TypeOK
  <1>2. I \in SUBSET (1 .. n)
    OBVIOUS
  <1>3. execute(n) = values
    BY DEF execute
  <1>4. \A i \in 1 .. n : file[i].sequence >= resume_from => i \in I
    OBVIOUS
  <1> HIDE DEF I
  <1>5. /\ m \in Nat /\ DOMAIN events = 1 .. m
        /\ \A i \in I : \E k \in 1 .. m : events[k] = file[i]
    BY <1>1, <1>2, SelectionHas
  <1> HIDE DEF events, m
  <1>6. values = [k \in 1 .. m |-> events[k].value]
    BY <1>5
  <1>7. \A i \in I : \E k \in 1 .. m : values[k] = file[i].value
    BY <1>5, <1>6
  <1>8. DOMAIN values = 1 .. m /\ values = [k \in 1 .. m |-> values[k]]
    BY <1>6
  <1> HIDE DEF values
  <1>9. \A k \in 1 .. m : values[k] \in S
    OBVIOUS
  <1>10. values \in Seq(S) /\ Len(values) = m
    <2> HIDE DEF S
    <2> QED
      BY <1>5, <1>8, <1>9
  <1> QED
    BY <1>3, <1>4, <1>5, <1>7, <1>10

\* The successor of a SequenceId is the next one, or 0.
LEMMA WrappedLabel ==
    ASSUME NEW s \in 0 .. MaxLabel
    PROVE  /\ (s + 1) % (MaxLabel + 1) \in Nat
           /\ (s + 1) % (MaxLabel + 1) <= s + 1
           /\ s < MaxLabel => (s + 1) % (MaxLabel + 1) = s + 1
  <1>1. CASE s < MaxLabel
    <2>1. (s + 1) % (MaxLabel + 1) = s + 1
      BY <1>1
    <2> QED
      BY <2>1
  <1>2. CASE s = MaxLabel
    <2>1. (MaxLabel + 1) % (MaxLabel + 1) = 0
      OBVIOUS
    <2> QED
      BY <1>2, <2>1
  <1> QED
    BY <1>1, <1>2

\* With a snapshot of this process, or none, each frame it logged is in the snapshot
\* or replayed.
LEMMA OwnReplay ==
    ASSUME RecoveryInv, SnapshotInv, OwnSnapshot, NEW n \in 0 .. Len(file), Reads(file, n),
           NEW i \in 1 .. n, file[i].value > birth
    PROVE  LET rebuilt == Covered \o execute(n)
           IN  \E k \in 1 .. Len(rebuilt) : rebuilt[k] = file[i].value
  <1> DEFINE v == file[i].value
             c == Covered
             L == Len(c)
             rebuilt == Covered \o execute(n)
  <1>1. /\ v \in Nat /\ birth \in Nat /\ v > birth
        /\ file[i].sequence \in Nat /\ file[i].sequence >= v - birth
    <2>1. Len(file) \in Nat /\ i \in 1 .. Len(file) /\ IsRecord(file[i])
      BY DEF RecoveryInv, Inv, TypeOK, Reads
    <2>2. i \in 1 .. Len(Log) /\ Log[i] = file[i]
      BY <2>1, LogProperties DEF RecoveryInv, Inv
    <2>3. OwnRecord(file[i], birth, frames)
      BY <2>2 DEF RecoveryInv, OwnInv
    <2>4. file[i].sequence \in Nat
      <3>1. file[i] \in Records \cup Torn
        BY <2>1 DEF RecoveryInv, Inv, TypeOK
      <3> QED
        BY <2>1, <3>1, PartsProperties
    <2> QED
      BY <2>1, <2>3, <2>4 DEF OwnRecord, RecoveryInv, LoopInv
  <1>2. /\ c \in Seq(Nat) /\ L \in Nat
        /\ \A j \in 1 .. L : c[j] = birth + j
        /\ resume_from \in Nat /\ resume_from <= L + 1
    <2>1. CASE ~ HasSnapshot
      <3>1. c = <<>> /\ L = 0 /\ resume_from = 1
        BY <2>1 DEF Covered, resume_from
      <3> QED
        BY <3>1
    <2>2. CASE HasSnapshot
      <3>1. /\ snap.sequence \in 0 .. MaxLabel /\ c \in Seq(Nat)
            /\ SnapshotOf(snap, c, birth, frames) /\ c[1] > birth
        BY <2>2, CoveredFrames DEF OwnSnapshot
      <3> HIDE DEF c
      <3>2. L \in Nat /\ snap.sequence = label(L) /\ \A j \in 1 .. L : c[j] = birth + j
        BY <3>1 DEF SnapshotOf
      <3>3. snap.sequence \in Nat /\ snap.sequence <= MaxLabel /\ snap.sequence <= L
        BY <3>1, <3>2, LabelProperties
      <3>4. resume_from = (snap.sequence + 1) % (MaxLabel + 1)
        BY <2>2 DEF resume_from
      <3>5. resume_from \in Nat /\ resume_from <= snap.sequence + 1
        BY <3>3, <3>4, WrappedLabel
      <3> QED
        BY <3>1, <3>2, <3>3, <3>5
    <2> QED
      BY <2>1, <2>2
  <1>3. PICK m \in Nat : \E S :
              /\ execute(n) \in Seq(S) /\ Len(execute(n)) = m
              /\ \A j \in 1 .. n : file[j].sequence >= resume_from =>
                    \E k \in 1 .. m : execute(n)[k] = file[j].value
    BY ReplayedFrames
  <1> DEFINE e == execute(n)
  <1> HIDE DEF c, e, v
  <1>4. /\ Len(c \o e) = L + m
        /\ \A k \in 1 .. L + m : (c \o e)[k] = IF k <= L THEN c[k] ELSE e[k - L]
    <2>0. PICK S : e \in Seq(S)
      BY <1>3 DEF e
    <2>1. c \in Seq(Nat) /\ e \in Seq(S) /\ Len(e) = m /\ L = Len(c)
      BY <1>2, <1>3, <2>0 DEF e
    <2>2. /\ Len(c \o e) = Len(c) + Len(e)
          /\ \A k \in 1 .. Len(c) + Len(e) :
                (c \o e)[k] = IF k <= Len(c) THEN c[k] ELSE e[k - Len(c)]
      <3>1. c \in Seq(Nat \cup S) /\ e \in Seq(Nat \cup S)
        BY <2>1, SeqMonotonic, Zenon
      <3> QED
        BY <3>1, ConcatProperties
    <2> HIDE DEF L
    <2> QED
      BY ONLY <2>1, <2>2, Zenon
  <1>5. \E k \in 1 .. L + m : (c \o e)[k] = v
    <2>1. CASE v - birth <= L
      <3>1. v - birth \in 1 .. L /\ birth + (v - birth) = v /\ v - birth \in 1 .. L + m
        BY <1>1, <1>2, <2>1
      <3>2. (c \o e)[v - birth] = v
        BY <1>2, <1>4, <2>1, <3>1
      <3> QED
        BY <3>1, <3>2
    <2>2. CASE ~ (v - birth <= L)
      <3>1. file[i].sequence >= resume_from
        BY <1>1, <1>2, <2>2
      <3>2. PICK k \in 1 .. m : e[k] = v
        BY <1>3, <3>1 DEF e, v
      <3>3. L + k \in 1 .. L + m /\ ~ (L + k <= L) /\ (L + k) - L = k
        BY <1>2
      <3>4. (c \o e)[L + k] = v
        BY <1>4, <3>2, <3>3
      <3> QED
        BY <3>3, <3>4
    <2> QED
      BY <2>1, <2>2
  <1> QED
    BY <1>4, <1>5 DEF c, e, v

\* What can be read of the log of a first process: the record with number i is the
\* i-th, and a torn part is the last.
LEMMA FirstFile ==
    ASSUME RecoveryInv, ~ restarted, NEW n \in 0 .. Len(file), Reads(file, n)
    PROVE  /\ \A i \in 1 .. n : file[i].sequence = i /\ file[i].value = i
           /\ \A i \in 1 .. Len(file) : IsRecord(file[i]) => i <= n
  <1>1. /\ Len(Log) = Len(file) + Len(buffer) /\ Len(file) \in Nat /\ Len(buffer) \in Nat
        /\ \A i \in 1 .. Len(file) : Log[i] = file[i]
    BY LogProperties DEF RecoveryInv, Inv
  <1>2. ASSUME NEW i \in 1 .. Len(file)
        PROVE  IF IsRecord(file[i]) THEN file[i].sequence = i /\ file[i].value = i
                                    ELSE i = Len(Log)
    <2>1. i \in 1 .. Len(Log) /\ Log[i] = file[i]
      BY <1>1
    <2> QED
      BY <2>1 DEF RecoveryInv, FirstInv, FirstLog
  <1>3. ASSUME NEW i \in 1 .. n PROVE file[i].sequence = i /\ file[i].value = i
    <2>1. i \in 1 .. Len(file)
      BY <1>1
    <2> QED
      BY <1>2, <2>1 DEF Reads
  <1>4. ASSUME NEW i \in 1 .. Len(file), IsRecord(file[i]) PROVE i <= n
    <2>1. CASE n = Len(file)
      BY <1>1, <2>1
    <2>2. CASE n < Len(file)
      <3>1. n + 1 \in 1 .. Len(file)
        BY <1>1, <2>2
      <3>2. ~ IsRecord(file[n + 1])
        BY <2>2 DEF Reads
      <3>3. n + 1 = Len(Log)
        BY <1>2, <3>1, <3>2
      <3>4. i # n + 1
        BY <1>4, <3>2
      <3> QED
        BY <1>1, <3>3, <3>4
    <2> QED
      BY <1>1, <2>1, <2>2
  <1> QED
    BY <1>3, <1>4

\* The snapshot of a first process, below the largest label, has the first frames, as
\* many as its label says.
LEMMA FirstSnapshot ==
    ASSUME RecoveryInv, SnapshotInv, ~ restarted, HasSnapshot => snap.sequence < MaxLabel
    PROVE  /\ Covered \in Seq(Nat) /\ resume_from = Len(Covered) + 1
           /\ \A i \in 1 .. Len(Covered) : Covered[i] = i
  <1>1. CASE ~ HasSnapshot
    <2>1. Covered = <<>> /\ resume_from = 1
      BY <1>1 DEF Covered, resume_from
    <2> QED
      BY <2>1
  <1>2. CASE HasSnapshot
    <2> DEFINE c == Covered
    <2>1. /\ snap.sequence \in 0 .. MaxLabel /\ c \in Seq(Nat)
          /\ SnapshotOf(snap, c, birth, frames) /\ birth = 0
      BY <1>2, CoveredFrames DEF RecoveryInv, FirstInv
    <2> HIDE DEF c
    <2>2. Len(c) \in Nat /\ Len(c) > 0 /\ snap.sequence = label(Len(c))
      BY <2>1 DEF SnapshotOf
    <2>3. c[1] \in 1 .. frames /\ frames \in Nat
      BY <2>1, <2>2 DEF SnapshotOf, RecoveryInv, LoopInv
    <2>4. c[1] > birth
      BY <2>1, <2>3
    <2>5. \A i \in 1 .. Len(c) : c[i] = i
      BY <2>1, <2>2, <2>4 DEF SnapshotOf
    <2>6. snap.sequence = Len(c) /\ snap.sequence < MaxLabel
      BY <1>2, <2>2, LabelProperties
    <2>7. resume_from = Len(c) + 1
      BY <1>2, <2>1, <2>6, WrappedLabel DEF resume_from
    <2> QED
      BY <2>1, <2>5, <2>7 DEF c
  <1> QED
    BY <1>1, <1>2

\* A replay of the files of a first process is right: none of its frames twice,
\* none out of order, none left out.
LEMMA FirstReplay ==
    ASSUME RecoveryInv, SnapshotInv, ~ restarted, HasSnapshot => snap.sequence < MaxLabel,
           NEW n \in 0 .. Len(file), Reads(file, n)
    PROVE  LET rebuilt == Covered \o execute(n)
           IN  /\ \A k \in 1 .. Len(rebuilt) : rebuilt[k] = k
               /\ \A i \in 1 .. Len(file) : IsRecord(file[i]) => i <= Len(rebuilt)
  <1>1. PICK S \in Nat, c \in Seq(Nat) :
              c = Covered /\ S = Len(c) /\ resume_from = S + 1 /\ \A i \in 1 .. S : c[i] = i
    BY FirstSnapshot
  <1>2. n \in Nat /\ n <= Len(file) /\ Len(file) \in Nat
    BY DEF RecoveryInv, Inv, TypeOK
  <1>3. /\ \A i \in 1 .. n : file[i].sequence = i /\ file[i].value = i
        /\ \A i \in 1 .. Len(file) : IsRecord(file[i]) => i <= n
    BY FirstFile
  <1> DEFINE I == {i \in 1 .. n : file[i].sequence >= resume_from}
             events == Selection(file, I)
             values == [i \in DOMAIN events |-> events[i].value]
  <1>4. PICK k \in 0 .. n : k <= S /\ (n - k > 0 => k = S)
    <2>1. CASE S <= n
      BY <1>2, <2>1
    <2>2. CASE ~ (S <= n)
      BY <1>2, <2>2
    <2> QED
      BY <2>1, <2>2
  <1>5. I = k + 1 .. n
    <2>1. I = {i \in 1 .. n : i >= S + 1}
      BY <1>1, <1>3
    <2> HIDE DEF I
    <2> QED
      BY <1>2, <1>4, <2>1
  <1>6. DOMAIN events = 1 .. n - k /\ \A i \in 1 .. n - k : events[i] = file[k + i]
    <2>1. n \in Nat /\ k \in 0 .. n
      BY <1>2, <1>4
    <2>2. /\ DOMAIN Selection(file, k + 1 .. n) = 1 .. n - k
          /\ \A i \in 1 .. n - k : Selection(file, k + 1 .. n)[i] = file[k + i]
      BY ONLY <2>1, SelectionElements
    <2> HIDE DEF I
    <2> QED
      BY ONLY <1>5, <2>2 DEF events
  <1> HIDE DEF I, events
  <1>7. values = [i \in 1 .. n - k |-> k + i]
    <2>1. ASSUME NEW i \in 1 .. n - k PROVE k + i \in 1 .. n
      BY <1>2, <1>4
    <2>2. ASSUME NEW i \in 1 .. n - k PROVE events[i].value = k + i
      BY <1>3, <1>6, <2>1
    <2>3. DOMAIN events = 1 .. n - k
      BY <1>6
    <2> QED
      BY <2>2, <2>3
  <1>8. Covered \o execute(n) = c \o values
    BY <1>1 DEF execute, events, I, values
  <1> HIDE DEF values
  <1>9. n - k \in Nat /\ k \in Nat
    BY <1>2, <1>4
  <1>10. values \in Seq(Nat) /\ Len(values) = n - k
    <2>1. \A i \in 1 .. n - k : k + i \in Nat
      BY <1>9
    <2> QED
      BY <1>7, <1>9, <2>1
  <1>11. /\ Len(c \o values) = S + (n - k)
         /\ \A i \in 1 .. S + (n - k) :
               (c \o values)[i] = IF i <= S THEN c[i] ELSE values[i - S]
    <2>1. /\ Len(c \o values) = Len(c) + Len(values)
          /\ \A i \in 1 .. Len(c) + Len(values) :
                (c \o values)[i] = IF i <= Len(c) THEN c[i] ELSE values[i - Len(c)]
      BY <1>10, ConcatProperties
    <2>2. Len(c) = S
      BY <1>1
    <2> QED
      BY <1>10, <2>1, <2>2, Zenon
  <1>12. ASSUME NEW i \in 1 .. S + (n - k) PROVE (c \o values)[i] = i
    <2>1. CASE i <= S
      <3>1. i \in 1 .. S
        BY <1>9, <2>1
      <3> QED
        BY <1>1, <1>11, <2>1, <3>1
    <2>2. CASE ~ (i <= S)
      <3>1. i - S \in 1 .. n - k /\ k = S
        BY <1>2, <1>4, <1>9, <2>2
      <3>2. values[i - S] = k + (i - S)
        BY <1>7, <3>1
      <3>3. k + (i - S) = i
        BY <1>9, <3>1
      <3> QED
        BY <1>11, <2>2, <3>2, <3>3
    <2> QED
      BY <2>1, <2>2
  <1>13. ASSUME NEW i \in 1 .. Len(file), IsRecord(file[i]) PROVE i <= S + (n - k)
    <2>1. i <= n
      BY <1>3, <1>13
    <2> QED
      BY <1>2, <1>4, <1>9, <2>1
  <1> QED
    BY <1>8, <1>11, <1>12, <1>13

\* A replay is right.
LEMMA InvReplays == RecoveryInv /\ SnapshotInv => ReplayRebuilds
  <1> SUFFICES ASSUME RecoveryInv, SnapshotInv,
                      NEW n \in 0 .. Len(file), Reads(file, n)
               PROVE  LET rebuilt == Covered \o execute(n)
                      IN  /\ OwnSnapshot =>
                                \A i \in 1 .. n : file[i].value > birth =>
                                    \E k \in 1 .. Len(rebuilt) : rebuilt[k] = file[i].value
                          /\ ~ restarted /\ (HasSnapshot => snap.sequence < MaxLabel) =>
                                /\ \A k \in 1 .. Len(rebuilt) : rebuilt[k] = k
                                /\ \A i \in 1 .. Len(file) :
                                      IsRecord(file[i]) => i <= Len(rebuilt)
    BY DEF ReplayRebuilds
  <1>1. ASSUME OwnSnapshot
        PROVE  \A i \in 1 .. n : file[i].value > birth =>
                  \E k \in 1 .. Len(Covered \o execute(n)) :
                      (Covered \o execute(n))[k] = file[i].value
    BY <1>1, OwnReplay
  <1>2. ASSUME ~ restarted, HasSnapshot => snap.sequence < MaxLabel
        PROVE  /\ \A k \in 1 .. Len(Covered \o execute(n)) : (Covered \o execute(n))[k] = k
               /\ \A i \in 1 .. Len(file) :
                     IsRecord(file[i]) => i <= Len(Covered \o execute(n))
    BY <1>2, FirstReplay
  <1> QED
    BY <1>1, <1>2

-----------------------------------------------------------------------------
(* The theorems                                                            *)

\* The inductive invariant holds in every reachable state.
THEOREM RecoveryInvHolds == RecoverySpec => [](RecoveryInv /\ SnapshotInv)
  <1>1. RecoveryInit => RecoveryInv /\ SnapshotInv
    BY RecoveryInitInv, SnapshotInitInv
  <1>2. RecoveryInv /\ SnapshotInv /\ [RecoveryNext]_recovery_vars
        => (RecoveryInv /\ SnapshotInv)'
    BY RecoveryNextKeepsInv, SnapshotNextKeepsInv
  <1> QED
    BY <1>1, <1>2, PTL DEF RecoverySpec

\* The state of the daemons, of their log, of their router and of their snapshots has
\* its type, with the books in the order of processing and the router's buffers within
\* capacity.
THEOREM RecoveryTypeCorrect == RecoverySpec => []RecoveryTypeOK
  <1>1. RecoveryInv /\ SnapshotInv => RecoveryTypeOK
    <2> SUFFICES ASSUME RecoveryInv, SnapshotInv PROVE RecoveryTypeOK
      OBVIOUS
    <2>1. TypeOK
      BY DEF RecoveryInv, Inv
    <2>2. birth + Len(state) <= frames
      <3>1. frames \in Nat /\ birth \in 0 .. frames /\ state \in Seq(Nat)
            /\ (turn = "feed" => frames > birth)
        BY DEF RecoveryInv, LoopInv
      <3>2. CASE Running
        BY <3>1, <3>2 DEF RecoveryInv, LoopInv, Applied
      <3>3. CASE ~ Running
        BY <3>1, <3>3 DEF RecoveryInv, LoopInv
      <3> QED
        BY <3>2, <3>3
    <2>3. Len(trade_metadata_) <= trade_metadata_capacity
      <3>1. fills \in Seq(MetadataRecords) /\ Len(trade_metadata_) =
              IF Len(fills) < trade_metadata_capacity THEN Len(fills) ELSE trade_metadata_capacity
        BY DEF RecoveryInv, MetadataInv
      <3>2. Len(fills) \in Nat
        BY <3>1, LenProperties
      <3> QED
        BY <3>1, <3>2, CapacityAssumption
    <2>4. /\ Len(persisted) = Len(covered)
          /\ \A i \in 1 .. Len(persisted) : persisted[i].sequence \in 0 .. MaxLabel
      <3>1. \A i \in 1 .. Len(persisted) : persisted[i] \in Labels
        BY DEF SnapshotInv, TakenInv
      <3> QED
        BY <3>1 DEF SnapshotInv, TakenInv, Labels
    <2>5. store_file # NoFile =>
             \A i \in 1 .. Len(store_file) : store_file[i].n \in 1 .. Len(persisted)
      <3> SUFFICES ASSUME store_file # NoFile, NEW i \in 1 .. Len(store_file)
                   PROVE  store_file[i].n \in 1 .. Len(persisted)
        OBVIOUS
      <3>1. store_file[i] \in StoreRecords(Len(persisted))
        BY DEF SnapshotInv, StoreInv, StoreFiles
      <3> QED
        BY <3>1 DEF StoreRecords
    <2> QED
      BY <2>1, <2>2, <2>3, <2>4, <2>5 DEF RecoveryInv, LoopInv, FeedInv, RecoveryTypeOK
  <1> QED
    BY <1>1, RecoveryInvHolds, PTL

\* Driver::execute, run on the files as they are after any step, inside persist and
\* after a crash or a loss of power too, either throws, or applies each frame that the
\* process logged or its snapshot covers; in a first process, and below the largest
\* label, each exactly once, in the daemon's order, and all that the log has.
THEOREM ReplayIsRight == RecoverySpec => []ReplayRebuilds
BY RecoveryInvHolds, InvReplays, PTL

\* What the express feed shows under an offset is the log's record of that number,
\* and a reader who noticed no gap has missed none.
THEOREM FeedIsTheLog == RecoverySpec => []FeedMatchesLog
  <1>1. RecoveryInv => FeedMatchesLog
    BY DEF RecoveryInv, FeedInv
  <1> QED
    BY <1>1, RecoveryInvHolds, PTL

\* A reader of trade metadata who polls in time has every fill once and in order,
\* although fills share offsets.
THEOREM MetadataIsComplete == RecoverySpec => []MetadataComplete
  <1>1. RecoveryInv => MetadataComplete
    BY DEF RecoveryInv, MetadataInv
  <1> QED
    BY <1>1, RecoveryInvHolds, PTL

\* The daemon's log is numbered without gap whatever else the daemon does.
THEOREM DaemonLogIsContiguous == RecoverySpec => []Contiguous
  <1>1. RecoveryInv => Contiguous
    BY DEF RecoveryInv, Inv
  <1> QED
    BY <1>1, RecoveryInvHolds, PTL
=============================================================================
