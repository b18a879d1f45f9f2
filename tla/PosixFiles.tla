----------------------------- MODULE PosixFiles -----------------------------
(***************************************************************************)
(* PosixWritableFile of env_posix.cc under a power failure.  The data of a *)
(* file go from the FILE buffer to the kernel (Flush) and from there to    *)
(* the disk (Sync, or whenever the kernel likes); a name goes to the disk  *)
(* by an fsync of the directory, which Sync does for a MANIFEST only, or   *)
(* whenever the kernel likes.  The caller is leveldb: it writes, syncs and *)
(* closes a table, and then appends a record that names it to the manifest *)
(* and syncs that.                                                         *)
(***************************************************************************)
EXTENDS Naturals, Sequences

CONSTANTS
  Table,             \* names of table files
  MANIFEST,
  MaxBlocks          \* blocks of a table

VARIABLES
  file,              \* name -> [written, kernel, disk]: how much of the file
                     \* was appended, reached the kernel, reached the disk
  records,           \* what was appended to the manifest: names of tables
  dir, disk_dir,     \* the directory, as the kernel and as the disk have it
  pc, current,       \* where the caller is, and the file it writes
  named              \* history: tables whose record was synced with success

vars == <<file, records, dir, disk_dir, pc, current, named>>

Name == Table \union {MANIFEST}
Empty == [written |-> 0, kernel |-> 0, disk |-> 0]

TypeOK ==
  /\ file \in [Name -> [written : Nat, kernel : Nat, disk : Nat]]
  /\ records \in Seq(Table)
  /\ dir \in SUBSET Name /\ disk_dir \in SUBSET Name
  /\ pc \in {"idle", "append", "sync", "flush", "fdatasync", "stopped", "down"}
  /\ current \in Name /\ named \in SUBSET Table

Init ==   \* the manifest is open
  /\ file = [n \in Name |-> Empty] /\ records = <<>>
  /\ dir = {MANIFEST} /\ disk_dir \in SUBSET dir
  /\ pc = "idle" /\ current = MANIFEST /\ named = {}

----------------------------------------------------------------------------
Goto(s) == pc' = s
\* fwrite_unlocked fills the buffer and passes on any part of what is in it.
AppendTo(n) ==
  \E k \in file[n].kernel..file[n].written + 1 :
    file' = [file EXCEPT ![n] = [written |-> @.written + 1, kernel |-> k, disk |-> @.disk]]
Flush(n) == file' = [file EXCEPT ![n].kernel = file[n].written]

\* NewWritableFile of a new table: fopen(fname, "w").
NewWritableFile(n) ==
  /\ pc = "idle" /\ n \in Table \ dir
  /\ dir' = dir \union {n}
  /\ file' = [file EXCEPT ![n] = Empty]
  /\ current' = n /\ Goto("append")
  /\ UNCHANGED <<records, disk_dir, named>>
AppendBlock ==
  /\ pc = "append"
  /\ AppendTo(current)
  /\ Goto(IF file[current].written + 1 = MaxBlocks THEN "sync" ELSE "append")
  /\ UNCHANGED <<records, dir, disk_dir, current, named>>
\* The record of a finished table, appended and flushed by log::Writer.
AppendRecord(n) ==
  /\ pc = "idle" /\ n \in dir \ {MANIFEST} /\ \A i \in DOMAIN records : records[i] # n
  /\ records' = Append(records, n)
  /\ file' = [file EXCEPT ![MANIFEST] = [written |-> @.written + 1,
                                         kernel |-> @.written + 1, disk |-> @.disk]]
  /\ current' = MANIFEST /\ Goto("sync")
  /\ UNCHANGED <<dir, disk_dir, named>>

\* Sync: SyncDirIfManifest, then fflush, then fdatasync; the first to fail
\* ends it, and leveldb stops writing (bg_error_).
SyncDirIfManifest_never ==   \* faulty: the manifest is not recognised
  /\ pc = "sync"
  /\ Goto("flush")
  /\ UNCHANGED <<file, records, dir, disk_dir, current, named>>
SyncDirIfManifest ==   \* flushed already, the record may be on the disk before
  /\ pc = "sync"
  /\ disk_dir' = IF current = MANIFEST THEN dir ELSE disk_dir
  /\ Goto("flush")
  /\ UNCHANGED <<file, records, dir, current, named>>
SyncFlush ==
  /\ pc = "flush"
  /\ Flush(current) /\ Goto("fdatasync")
  /\ UNCHANGED <<records, dir, disk_dir, current, named>>
SyncData ==
  /\ pc = "fdatasync" /\ Goto("idle")
  /\ file' = [file EXCEPT ![current].disk = file[current].kernel]
  /\ named' = IF current = MANIFEST THEN named \union {records[Len(records)]} ELSE named
  /\ UNCHANGED <<records, dir, disk_dir, current>>
SyncFails ==
  /\ pc \in {"sync", "flush", "fdatasync"} /\ Goto("stopped")
  /\ UNCHANGED <<file, records, dir, disk_dir, current, named>>

\* The kernel writes what it has, in whatever order.
WriteBack ==
  /\ pc # "down"
  /\ \/ \E n \in Name : \E d \in file[n].disk + 1..file[n].kernel :
          file' = [file EXCEPT ![n].disk = d] /\ UNCHANGED disk_dir
     \/ \E n \in dir \ disk_dir : disk_dir' = disk_dir \union {n} /\ UNCHANGED file
  /\ UNCHANGED <<records, dir, pc, current, named>>

\* A power failure: the disk is what is left.
PowerFailure ==
  /\ pc # "down" /\ Goto("down")
  /\ dir' = disk_dir
  /\ file' = [n \in Name |-> [file[n] EXCEPT !.written = file[n].disk, !.kernel = file[n].disk]]
  /\ UNCHANGED <<records, disk_dir, current, named>>

Next ==
  \/ \E n \in Table : NewWritableFile(n) \/ AppendRecord(n)
  \/ AppendBlock \/ SyncDirIfManifest \/ SyncFlush \/ SyncData \/ SyncFails
  \/ WriteBack \/ PowerFailure
Spec == Init /\ [][Next]_vars

----------------------------------------------------------------------------
Survives(n) == n \in dir /\ file[n].written = MaxBlocks

\* "Ensure new files referred to by the manifest are in the filesystem": when
\* the Sync of a manifest has returned OK, a power failure leaves the manifest
\* with the record, and the table it names, in the directory and complete.
NamedTablesSurvive ==
  pc = "down" =>
    \A n \in named :
      /\ MANIFEST \in dir /\ Survives(n)
      /\ \E i \in 1..file[MANIFEST].written : records[i] = n
=============================================================================
