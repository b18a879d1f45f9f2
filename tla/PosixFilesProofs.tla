------------------------- MODULE PosixFilesProofs ---------------------------
(***************************************************************************)
(* A table that a synced manifest names survives a power failure, for any  *)
(* set of tables of any size.                                              *)
(***************************************************************************)
EXTENDS PosixFiles, SequenceTheorems, TLAPS

\* The manifest is no table, and tables are not empty.
Sizes == MANIFEST \notin Table /\ MaxBlocks \in Nat \ {0}

Syncing == {"sync", "flush", "fdatasync"}
Done(n) ==
  file[n].written = MaxBlocks /\ file[n].kernel = MaxBlocks /\ file[n].disk = MaxBlocks

\* Before the failure: how much of a file is where, and what the records name.
Amounts ==
  /\ \A n \in Name : /\ file[n].disk <= file[n].kernel
                     /\ file[n].kernel <= file[n].written
  /\ Len(records) = file[MANIFEST].written
  /\ file[MANIFEST].kernel = file[MANIFEST].written
Directory ==
  /\ disk_dir \subseteq dir /\ MANIFEST \in dir
  /\ \A i \in 1..Len(records) : records[i] \in dir
\* Every table in the directory is synced, but the one being written.
OthersDone ==
  \A n \in dir \cap Table :
    Done(n) \/ (n = current /\ pc \in Syncing \cup {"append", "stopped"})
\* How far Sync has come with the current file.
Stage ==
  /\ pc = "append" => current \in dir \cap Table /\ file[current].written < MaxBlocks
  /\ pc \in Syncing /\ current \in Table => file[current].written = MaxBlocks
  /\ pc = "fdatasync" => file[current].kernel = file[current].written
  /\ pc \in Syncing /\ current = MANIFEST => Len(records) > 0
  /\ pc \in {"flush", "fdatasync"} /\ current = MANIFEST => disk_dir = dir
\* What is named is on the disk already, with its record.
NamedOnDisk ==
  \A n \in named : /\ {n, MANIFEST} \subseteq disk_dir /\ Done(n)
                   /\ \E i \in 1..file[MANIFEST].disk : records[i] = n

Up == Amounts /\ Directory /\ OthersDone /\ Stage /\ NamedOnDisk

FilesInv == TypeOK /\ (IF pc = "down" THEN NamedTablesSurvive ELSE Up)

LEMMA FilesInit == Sizes /\ Init => FilesInv
BY DEF Sizes, Init, FilesInv, TypeOK, Up, Amounts, Directory, OthersDone, Stage,
   NamedOnDisk, Name, Empty, Syncing, Done

\* Every step keeps the state well typed.
LEMMA FilesTypes == Sizes /\ FilesInv /\ [Next]_vars => TypeOK'
<1> SUFFICES ASSUME Sizes, FilesInv, [Next]_vars PROVE TypeOK'
    OBVIOUS
<1>0. TypeOK
      BY DEF FilesInv
<1> USE <1>0 DEF Sizes, TypeOK, Name, Goto
<1>1. ASSUME NEW n \in Table, NewWritableFile(n) PROVE TypeOK'
      BY <1>1 DEF NewWritableFile, Empty
<1>2. ASSUME NEW n \in Table, AppendRecord(n) PROVE TypeOK'
  <2>1. records' \in Seq(Table)
        BY <1>2, AppendProperties DEF AppendRecord
  <2>2. file' \in [Name -> [written : Nat, kernel : Nat, disk : Nat]]
        BY <1>2, SMTT(60) DEF AppendRecord
  <2> QED
      BY <1>2, <2>1, <2>2 DEF AppendRecord
<1>3. CASE AppendBlock
  <2>1. PICK k \in file[current].kernel..file[current].written + 1 :
          file' = [file EXCEPT ![current] = [written |-> @.written + 1, kernel |-> k,
                                             disk |-> @.disk]]
        BY <1>3 DEF AppendBlock, AppendTo
  <2>2. k \in Nat
        OBVIOUS
  <2>3. file' \in [Name -> [written : Nat, kernel : Nat, disk : Nat]]
        BY <2>1, <2>2
  <2> QED
      BY <1>3, <2>3 DEF AppendBlock
<1>4. CASE SyncDirIfManifest
      BY <1>4 DEF SyncDirIfManifest
<1>5. CASE SyncFlush
      BY <1>5 DEF SyncFlush, Flush
<1>6. CASE SyncFails
      BY <1>6 DEF SyncFails
<1>7. CASE WriteBack
  <2>1. ASSUME NEW n \in Name, NEW d \in file[n].disk + 1..file[n].kernel,
               file' = [file EXCEPT ![n].disk = d]
        PROVE  file' \in [Name -> [written : Nat, kernel : Nat, disk : Nat]]
    <3>1. d \in Nat
          OBVIOUS
    <3> QED
        BY <2>1, <3>1
  <2> QED
      BY <1>7, <2>1 DEF WriteBack
<1>8. CASE PowerFailure
      BY <1>8 DEF PowerFailure
<1>9. CASE UNCHANGED vars
      BY <1>9 DEF vars
<1>10. CASE SyncData
  <2>1. current = MANIFEST => records[Len(records)] \in Table
        BY <1>10, ElementOfSeq DEF SyncData, FilesInv, Up, Directory, Stage, Syncing
  <2> QED
      BY <1>10, <2>1 DEF SyncData
<1> QED
    BY <1>1, <1>2, <1>3, <1>4, <1>5, <1>6, <1>7, <1>8, <1>9, <1>10 DEF Next

\* The facts about the current state that every step needs.
LEMMA UpFacts ==
  ASSUME Sizes, TypeOK, Up
  PROVE  /\ Amounts /\ Directory /\ OthersDone /\ Stage /\ NamedOnDisk
         /\ \A m \in Name : /\ file[m].written \in Nat /\ file[m].kernel \in Nat
                            /\ file[m].disk \in Nat
         /\ MANIFEST \notin Table /\ Name = Table \cup {MANIFEST} /\ MaxBlocks \in Nat \ {0}
         /\ current \in Name /\ named \subseteq Table /\ dir \subseteq Name
BY DEF Sizes, TypeOK, Up, Name

\* Up is preserved by each step of the writer and of the kernel.
LEMMA UpNewFile ==
  ASSUME Sizes, TypeOK, Up, NEW n \in Table, NewWritableFile(n) PROVE Up'
<1> USE UpFacts DEF Goto, Syncing, Done
<1>1. /\ file'[n].written = 0 /\ file'[n].kernel = 0 /\ file'[n].disk = 0
      /\ \A m \in Name \ {n} : file'[m] = file[m]
      /\ n \notin dir /\ dir' = dir \cup {n} /\ current' = n /\ pc' = "append"
      /\ pc = "idle" /\ UNCHANGED <<records, disk_dir, named>>
      BY DEF NewWritableFile, Empty, TypeOK, Name
<1>2. Amounts'
      BY <1>1 DEF Amounts
<1>3. Directory'
      BY <1>1 DEF Directory
<1>4. OthersDone'
      BY <1>1 DEF OthersDone
<1>5. Stage'
      BY <1>1 DEF Stage
<1>6. NamedOnDisk'
      BY <1>1 DEF NamedOnDisk, Directory
<1> QED
    BY <1>2, <1>3, <1>4, <1>5, <1>6 DEF Up

LEMMA UpAppendBlock == ASSUME Sizes, TypeOK, Up, AppendBlock PROVE Up'
<1> USE UpFacts DEF Goto, Syncing, Done
<1>1. PICK k \in file[current].kernel..file[current].written + 1 :
        file' = [file EXCEPT ![current] = [written |-> @.written + 1, kernel |-> k,
                                           disk |-> @.disk]]
      BY DEF AppendBlock, AppendTo
<1>2. current \in Table /\ file[current].written < MaxBlocks /\ current \notin named
      /\ current # MANIFEST
      BY DEF AppendBlock, Stage, NamedOnDisk
<1>3. /\ file'[current].written = file[current].written + 1
      /\ file'[current].kernel = k /\ file'[current].disk = file[current].disk
      /\ \A m \in Name \ {current} : file'[m] = file[m]
      BY <1>1 DEF TypeOK, Name
<1>4. /\ pc = "append" /\ UNCHANGED <<records, dir, disk_dir, current, named>>
      /\ pc' = IF file[current].written + 1 = MaxBlocks THEN "sync" ELSE "append"
      BY DEF AppendBlock
<1>5. Amounts'
      BY <1>2, <1>3, <1>4, SMTT(60) DEF Amounts
<1>6. Directory'
      BY <1>4 DEF Directory
<1>7. OthersDone'
      BY <1>3, <1>4 DEF OthersDone
<1>8. Stage'
      BY <1>2, <1>3, <1>4 DEF Stage
<1>9. NamedOnDisk'
      BY <1>2, <1>3, <1>4 DEF NamedOnDisk
<1> QED
    BY <1>5, <1>6, <1>7, <1>8, <1>9 DEF Up

LEMMA UpAppendRecord ==
  ASSUME Sizes, TypeOK, Up, NEW n \in Table, AppendRecord(n) PROVE Up'
<1> USE UpFacts DEF Goto, Syncing, Done
<1>1. /\ Len(records') = Len(records) + 1
      /\ \A i \in 1..Len(records) : records'[i] = records[i]
      /\ records'[Len(records) + 1] = n
      BY AppendProperties DEF AppendRecord, TypeOK
<1>2. Len(records) \in Nat
      BY LenProperties DEF TypeOK
<1>3. /\ file'[MANIFEST].written = file[MANIFEST].written + 1
      /\ file'[MANIFEST].kernel = file[MANIFEST].written + 1
      /\ file'[MANIFEST].disk = file[MANIFEST].disk
      /\ \A m \in Table : file'[m] = file[m]
      BY DEF AppendRecord, TypeOK, Name
<1>4. /\ pc = "idle" /\ n \in dir /\ pc' = "sync" /\ current' = MANIFEST
      /\ UNCHANGED <<dir, disk_dir, named>>
      BY DEF AppendRecord
<1>5. Amounts'
      BY <1>1, <1>2, <1>3 DEF Amounts
<1>6. Directory'
      BY <1>1, <1>2, <1>4, SMTT(60) DEF Directory
<1>7. OthersDone'
      BY <1>3, <1>4 DEF OthersDone
<1>8. Stage'
      BY <1>1, <1>2, <1>4 DEF Stage
<1>9. NamedOnDisk'
  <2> SUFFICES ASSUME NEW m \in named
               PROVE  /\ {m, MANIFEST} \subseteq disk_dir /\ Done(m)'
                      /\ \E i \in 1..file[MANIFEST].disk : records'[i] = m
      BY <1>3, <1>4 DEF NamedOnDisk
  <2>1. PICK i \in 1..file[MANIFEST].disk : records[i] = m
        BY DEF NamedOnDisk
  <2>2. i \in 1..Len(records)
        BY <2>1 DEF Amounts
  <2> QED
      BY <1>1, <1>3, <2>1, <2>2 DEF NamedOnDisk
<1> QED
    BY <1>5, <1>6, <1>7, <1>8, <1>9 DEF Up

LEMMA UpSync ==
  ASSUME Sizes, TypeOK, Up, SyncDirIfManifest \/ SyncFlush \/ SyncFails PROVE Up'
<1> USE UpFacts DEF Goto, Syncing, Done
<1>1. CASE SyncDirIfManifest \/ SyncFails
      BY <1>1 DEF Up, SyncDirIfManifest, SyncFails, Amounts, Directory, OthersDone, Stage,
         NamedOnDisk
<1>2. CASE SyncFlush
  <2>1. /\ file'[current].written = file[current].written
        /\ file'[current].kernel = file[current].written
        /\ file'[current].disk = file[current].disk
        /\ \A m \in Name \ {current} : file'[m] = file[m]
        BY <1>2 DEF SyncFlush, Flush, TypeOK, Name
  <2>2. /\ pc = "flush" /\ pc' = "fdatasync"
        /\ UNCHANGED <<records, dir, disk_dir, current, named>>
        BY <1>2 DEF SyncFlush
  <2>3. Amounts'
        BY <2>1, <2>2 DEF Amounts
  <2>4. Directory' /\ Stage'
        BY <2>1, <2>2 DEF Directory, Stage
  <2>5. OthersDone'
        BY <2>1, <2>2 DEF OthersDone
  <2>6. NamedOnDisk'
        BY <2>1, <2>2 DEF NamedOnDisk
  <2> QED
      BY <2>3, <2>4, <2>5, <2>6 DEF Up
<1> QED
    BY <1>1, <1>2

\* The end of a Sync: a table is done, or a record and what it names are safe.
LEMMA UpSyncData == ASSUME Sizes, TypeOK, Up, SyncData PROVE Up'
<1> USE UpFacts DEF Goto, Syncing, Done
<1>1. /\ file'[current].written = file[current].written
      /\ file'[current].kernel = file[current].kernel
      /\ file'[current].disk = file[current].kernel
      /\ \A m \in Name \ {current} : file'[m] = file[m]
      BY DEF SyncData, TypeOK, Name
<1>2. /\ pc = "fdatasync" /\ pc' = "idle" /\ file[current].kernel = file[current].written
      /\ UNCHANGED <<records, dir, disk_dir, current>>
      BY DEF SyncData, Stage
<1>3. Amounts'
      BY <1>1, <1>2 DEF Amounts
<1>4. Directory' /\ Stage'
      BY <1>1, <1>2 DEF Directory, Stage
<1>5. OthersDone'
      BY <1>1, <1>2 DEF OthersDone, Stage
<1>6. ASSUME NEW n \in named
      PROVE  /\ {n, MANIFEST} \subseteq disk_dir /\ Done(n)'
             /\ \E i \in 1..file'[MANIFEST].disk : records[i] = n
  <2>1. PICK i \in 1..file[MANIFEST].disk : records[i] = n
        BY DEF NamedOnDisk
  <2>2. file[MANIFEST].disk <= file'[MANIFEST].disk
        BY <1>1, <1>2 DEF Amounts
  <2>3. i \in 1..file'[MANIFEST].disk
        BY <1>1, <2>1, <2>2
  <2> QED
      BY <1>1, <2>1, <2>3 DEF NamedOnDisk
<1>7. CASE current = MANIFEST
  <2> DEFINE r == records[Len(records)]
  <2>1. Len(records) \in 1..file'[MANIFEST].disk /\ r \in dir \cap Table
        BY <1>1, <1>2, <1>7, ElementOfSeq, SMTT(60) DEF TypeOK, Stage, Amounts, Directory
  <2>2. Done(r) /\ disk_dir = dir /\ MANIFEST \in dir
        BY <1>2, <1>7, <2>1 DEF Stage, OthersDone, Directory
  <2>3. Done(r)'
    <3>1. r \in Name \ {current}
          BY <1>7, <2>1
    <3> QED
        BY <1>1, <1>2, <2>2, <3>1
  <2>4. named' = named \cup {r}
        BY <1>7 DEF SyncData
  <2> QED
      BY <1>2, <1>3, <1>4, <1>5, <1>6, <2>1, <2>2, <2>3, <2>4 DEF Up, NamedOnDisk
<1>8. CASE current # MANIFEST
      BY <1>2, <1>3, <1>4, <1>5, <1>6, <1>8 DEF Up, SyncData, NamedOnDisk
<1> QED
    BY <1>7, <1>8

LEMMA UpWriteBack == ASSUME Sizes, TypeOK, Up, WriteBack PROVE Up'
<1> USE UpFacts DEF Goto, Syncing, Done
<1>0. UNCHANGED <<records, dir, pc, current, named>>
      BY DEF WriteBack
<1>1. ASSUME NEW n \in Name, NEW d \in file[n].disk + 1..file[n].kernel,
             file' = [file EXCEPT ![n].disk = d], UNCHANGED disk_dir
      PROVE  Up'
  <2>1. ~Done(n)
        OBVIOUS
  <2>2. /\ file'[n].written = file[n].written /\ file'[n].kernel = file[n].kernel
        /\ file'[n].disk = d /\ \A m \in Name \ {n} : file'[m] = file[m]
        BY <1>1 DEF TypeOK, Name
  <2>3. Amounts'
        BY <1>0, <2>2, SMTT(60) DEF Amounts
  <2>4. Directory' /\ Stage'
        BY <1>0, <1>1, <2>2 DEF Directory, Stage
  <2>5. OthersDone'
        BY <1>0, <2>1, <2>2 DEF OthersDone
  <2>6. NamedOnDisk'
    <3> SUFFICES ASSUME NEW m \in named
                 PROVE  /\ {m, MANIFEST} \subseteq disk_dir /\ Done(m)'
                        /\ \E i \in 1..file'[MANIFEST].disk : records[i] = m
        BY <1>0, <1>1 DEF NamedOnDisk
    <3>1. PICK i \in 1..file[MANIFEST].disk : records[i] = m
          BY DEF NamedOnDisk
    <3>2. file[MANIFEST].disk <= file'[MANIFEST].disk /\ file'[MANIFEST].disk \in Nat
          BY <2>2
    <3>3. i \in 1..file'[MANIFEST].disk
          BY <3>1, <3>2
    <3>4. m # n
          BY <2>1 DEF NamedOnDisk
    <3> QED
        BY <2>2, <3>1, <3>3, <3>4 DEF NamedOnDisk
  <2> QED
      BY <2>3, <2>4, <2>5, <2>6 DEF Up
<1>2. ASSUME NEW n \in dir \ disk_dir, disk_dir' = disk_dir \cup {n}, UNCHANGED file
      PROVE  Up'
      BY <1>0, <1>2 DEF Up, Amounts, Directory, OthersDone, Stage, NamedOnDisk
<1> QED
    BY <1>1, <1>2 DEF WriteBack

\* What is left of an Up state when the power fails.
LEMMA UpFails == ASSUME Sizes, TypeOK, Up, PowerFailure PROVE NamedTablesSurvive'
<1> USE DEF Sizes, TypeOK, Name
<1>1. /\ \A m \in Name : file'[m].written = file[m].disk
      /\ dir' = disk_dir /\ UNCHANGED <<records, named>>
      BY DEF PowerFailure
<1> QED
    BY <1>1 DEF Up, NamedOnDisk, Done, NamedTablesSurvive, Survives

\* When the Sync of a manifest has returned OK, a power failure leaves the
\* record and the table it names, in the directory and complete.
THEOREM NamedTablesKept == ASSUME Sizes PROVE Spec => []NamedTablesSurvive
<1>1. Init => FilesInv
      BY FilesInit
<1>2. FilesInv /\ [Next]_vars => FilesInv'
  <2> SUFFICES ASSUME FilesInv, [Next]_vars PROVE FilesInv'
      OBVIOUS
  <2>1. TypeOK /\ TypeOK'
        BY FilesTypes DEF FilesInv
  <2>2. CASE UNCHANGED vars
        BY <2>1, <2>2 DEF vars, FilesInv, Up, Amounts, Directory, OthersDone, Stage,
           NamedOnDisk, Done, NamedTablesSurvive, Survives
  <2>3. CASE PowerFailure
        BY <2>1, <2>3, UpFails DEF FilesInv, PowerFailure, Goto
  <2>4. CASE Next /\ ~PowerFailure
    <3>1. pc # "down" /\ pc' # "down"
          BY <2>4 DEF Next, NewWritableFile, AppendRecord, AppendBlock,
             SyncDirIfManifest, SyncFlush, SyncData, SyncFails, WriteBack, Goto
    <3>2. Up'
          BY <2>1, <2>4, <3>1, UpNewFile, UpAppendBlock, UpAppendRecord, UpSync,
             UpSyncData, UpWriteBack DEF FilesInv, Next
    <3> QED
        BY <2>1, <3>1, <3>2 DEF FilesInv
  <2> QED
      BY <2>2, <2>3, <2>4
<1>3. FilesInv => NamedTablesSurvive
      BY DEF FilesInv, NamedTablesSurvive
<1> QED
    BY <1>1, <1>2, <1>3, PTL DEF Spec
=============================================================================
