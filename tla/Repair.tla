------------------------------- MODULE Repair -------------------------------
(***************************************************************************)
(* RepairDB: every log becomes a table, every table is scanned (and copied *)
(* as far as it can be read, if it is damaged), and a manifest is written  *)
(* that puts all of them into level 0.  The process may be killed and      *)
(* repair run again; a power failure also empties files that were not      *)
(* synced.  A file's entries are the ones that can be read.                *)
(***************************************************************************)
EXTENDS Integers, FiniteSets, FiniteSetsExt, Functions

CONSTANTS
  Entry,             \* sequence numbers: the writes, all of one user key
  Logs, TableNums,   \* numbers of the files found
  MaxKills, NULL     \* bound: times a repair is killed

VARIABLES
  disk, lost,        \* name -> file, in the directory and in lost/
  current,           \* what CURRENT names
  pc, logs, nums, tables, next_file, copy,
  kills,             \* history: times killed
  power              \* history: "on", "failed", "restored"; it fails once

vars == <<disk, lost, current, pc, logs, nums, tables, next_file, copy, kills, power>>

File(E, b, s) == [entries |-> E, bad |-> b, synced |-> s]
Log(n) == <<"log", n>>
Table(n) == <<"table", n>>
Manifest(n) == <<"manifest", n>>
Tmp == <<"dbtmp", 1>>

Put(d, name, f) == [x \in DOMAIN d \cup {name} |-> IF x = name THEN f ELSE d[x]]
Drop(d, name) == Restrict(d, DOMAIN d \ {name})
RenameFile(d, a, b) == Put(Drop(d, a), b, d[a])

\* A database that cannot be opened: each write is in one of the files, in a log or
\* in a table; some tables are damaged.
Init ==
  \E home \in [Entry -> {Log(n) : n \in Logs} \cup {Table(n) : n \in TableNums}],
     bad \in SUBSET TableNums :
    /\ disk = [x \in {Log(n) : n \in Logs} \cup {Table(n) : n \in TableNums}
                       \cup {Manifest(2)} |->
                 File({e \in Entry : home[e] = x}, x \in {Table(n) : n \in bad}, TRUE)]
    /\ lost = << >> /\ current = 2
    /\ pc = "find" /\ logs = {} /\ nums = {} /\ tables = {} /\ next_file = 1
    /\ copy = NULL /\ kills = 0 /\ power = "on"

NumbersOf(kind) == {x[2] : x \in {y \in DOMAIN disk : y[1] = kind}}

FindFiles ==
  /\ pc = "find" /\ pc' = "logs"
  /\ logs' = NumbersOf("log") /\ nums' = NumbersOf("table") /\ tables' = {}
  /\ next_file' = Max({0} \cup NumbersOf("log") \cup NumbersOf("table")
                        \cup NumbersOf("dbtmp")) + 1
  /\ copy' = NULL
  /\ power' = IF power = "failed" THEN "restored" ELSE power
  /\ UNCHANGED <<disk, lost, current, kills>>

\* ArchiveFile: a file of that name that is already in lost/ is replaced.
ArchiveFile_delete(name, d) ==   \* faulty: removed, not kept
  /\ disk' = Drop(d, name) /\ UNCHANGED lost
ArchiveFile(name, d) ==
  /\ disk' = Drop(d, name) /\ lost' = Put(lost, name, d[name])

\* The records of a log go through a memtable to a new table, which BuildTable
\* syncs; an empty log makes none.
ConvertLogToTable(n) ==
  LET E == disk[Log(n)].entries
  IN  /\ pc = "logs" /\ n \in logs /\ copy = NULL
      /\ disk' = IF E = {} THEN disk ELSE Put(disk, Table(next_file), File(E, FALSE, TRUE))
      /\ nums' = IF E = {} THEN nums ELSE nums \cup {next_file}
      /\ next_file' = next_file + 1
      /\ copy' = n
      /\ UNCHANGED <<lost, current, pc, logs, tables, kills, power>>
ArchiveLog ==
  /\ pc = "logs" /\ copy # NULL
  /\ ArchiveFile(Log(copy), disk)
  /\ logs' = logs \ {copy} /\ copy' = NULL
  /\ UNCHANGED <<current, pc, nums, tables, next_file, kills, power>>
ExtractMetaData ==
  /\ pc = "logs" /\ logs = {} /\ copy = NULL /\ pc' = "scan"
  /\ UNCHANGED <<disk, lost, current, logs, nums, tables, next_file, copy, kills,
                 power>>

Info(n, E) == [number |-> n, max_sequence |-> Max({0} \cup E)]

\* A table that reads to the end is taken as it is; a damaged one is copied.
ScanTable(n) ==
  LET f == disk[Table(n)]
  IN  /\ pc = "scan" /\ n \in nums
      /\ nums' = nums \ {n}
      /\ tables' = IF f.bad THEN tables ELSE tables \cup {Info(n, f.entries)}
      /\ copy' = IF f.bad THEN [from |-> n, to |-> next_file, E |-> f.entries] ELSE NULL
      /\ next_file' = IF f.bad THEN next_file + 1 ELSE next_file
      /\ disk' = IF f.bad THEN Put(disk, Table(next_file), File(f.entries, FALSE, FALSE))
                 ELSE disk
      /\ pc' = IF f.bad THEN "archive" ELSE "scan"
      /\ UNCHANGED <<lost, current, logs, kills, power>>
\* RepairTable: the original is archived, then the copy renamed to its name; with
\* nothing to save the copy stays as it is, an empty file.
RepairTable ==
  /\ pc = "archive"
  /\ ArchiveFile(Table(copy.from), disk)
  /\ pc' = "rename"
  /\ UNCHANGED <<current, logs, nums, tables, next_file, copy, kills, power>>
RenameCopy ==
  /\ pc = "rename"
  /\ disk' = IF copy.E = {} THEN Put(disk, Table(copy.to), File({}, TRUE, FALSE))
             ELSE RenameFile(disk, Table(copy.to), Table(copy.from))
  /\ tables' = IF copy.E = {} THEN tables ELSE tables \cup {Info(copy.from, copy.E)}
  /\ pc' = "scan" /\ copy' = NULL
  /\ UNCHANGED <<lost, current, logs, nums, next_file, kills, power>>

\* WriteDescriptor: the edit, the old manifests out of the way, the new one in.
LastSequence(T) == Max({0} \cup {t.max_sequence : t \in T})
Descriptor(T, nf) == [tables |-> T, next_file |-> nf, last |-> LastSequence(T)]
WriteDescriptor ==
  /\ pc = "scan" /\ nums = {} /\ pc' = "manifest"
  /\ disk' = Put(disk, Tmp, File(Descriptor(tables, next_file), FALSE, FALSE))
  /\ UNCHANGED <<lost, current, logs, nums, tables, next_file, copy, kills, power>>
ArchiveManifest(n) ==
  /\ pc = "manifest" /\ Manifest(n) \in DOMAIN disk
  /\ ArchiveFile(Manifest(n), disk)
  /\ UNCHANGED <<current, pc, logs, nums, tables, next_file, copy, kills, power>>
InstallManifest ==
  /\ pc = "manifest" /\ NumbersOf("manifest") = {}
  /\ disk' = RenameFile(disk, Tmp, Manifest(1)) /\ pc' = "current"
  /\ UNCHANGED <<lost, current, logs, nums, tables, next_file, copy, kills, power>>
SetCurrentFile ==
  /\ pc = "current" /\ pc' = "done" /\ current' = 1
  /\ UNCHANGED <<disk, lost, logs, nums, tables, next_file, copy, kills, power>>

\* Killed: the files stay, perhaps with half of a copy.  Power failure: files that were not synced may be empty.
\* The user runs repair again.
Kill ==
  /\ pc \notin {"find", "done"} /\ kills < MaxKills
  /\ kills' = kills + 1 /\ pc' = "find"
  /\ disk' \in {disk} \cup
       (IF pc # "archive" THEN {}
        ELSE {Put(disk, Table(copy.to), File(E, TRUE, FALSE)) : E \in SUBSET copy.E})
  /\ UNCHANGED <<lost, current, logs, nums, tables, next_file, copy, power>>
PowerFailure ==
  /\ power = "on" /\ pc # "find"
  /\ power' = "failed" /\ pc' = "find"
  /\ \E S \in SUBSET {x \in DOMAIN disk : ~disk[x].synced} :
       disk' = [x \in DOMAIN disk |-> IF x \in S THEN File({}, TRUE, TRUE)
                                      ELSE [disk[x] EXCEPT !.synced = TRUE]]
  /\ UNCHANGED <<lost, current, logs, nums, tables, next_file, copy, kills>>

Next ==
  \/ FindFiles
  \/ \E n \in logs : ConvertLogToTable(n)
  \/ ArchiveLog \/ ExtractMetaData
  \/ \E n \in nums : ScanTable(n)
  \/ RepairTable \/ RenameCopy \/ WriteDescriptor
  \/ \E n \in NumbersOf("manifest") : ArchiveManifest(n)
  \/ InstallManifest \/ SetCurrentFile \/ Kill \/ PowerFailure

Spec == Init /\ [][Next]_vars

----------------------------------------------------------------------------
Holds(d) == UNION {d[x].entries : x \in {y \in DOMAIN d : y[1] \in {"log", "table"}}}

\* NothingForgotten: however often a repair is killed and run again, and when the
\* power fails, an entry that could be read is in the directory or in lost/.  (A
\* repair after a power failure may move the empty copy of a table over the
\* original in lost/.)
NothingForgotten ==
  power # "restored" => Entry \subseteq Holds(disk) \cup Holds(lost)

Installed == disk[Manifest(1)].entries

\* DescriptorComplete: the manifest a repair installs names only tables that are
\* there, with sequence and file numbers above everything in them, so that new
\* writes are newer and new files do not overwrite; a repair that was not
\* interrupted brings back every entry.
DescriptorComplete ==
  pc = "done" =>
    /\ \A t \in Installed.tables :
         /\ Table(t.number) \in DOMAIN disk
         /\ \A e \in disk[Table(t.number)].entries : e <= Installed.last
    /\ \A n \in NumbersOf("table") \cup NumbersOf("log") : n < Installed.next_file
    /\ kills = 0 /\ power = "on" =>
         Entry = UNION {disk[Table(t.number)].entries : t \in Installed.tables}

=============================================================================
