-------------------------------- MODULE Lsm ---------------------------------
(***************************************************************************)
(* leveldb's store as a log-structured merge tree: the memtable and the    *)
(* immutable one, the levels of the current version, snapshots, and the    *)
(* background thread that flushes, moves and merges files.  A merge runs   *)
(* without the mutex, so writes, snapshots, reads, switches of the         *)
(* memtable and even a flush happen between its start and its install.     *)
(* Errors, log files and crashes are in DBImpl.                            *)
(***************************************************************************)
EXTENDS Version

CONSTANTS
  Key, Types,              \* user keys; types of writes (kTypeValue, kTypeDeletion)
  WriteBuffer,             \* entries a memtable takes before it is switched
  kL0_StopWritesTrigger,
  Ranges,                  \* the arguments of CompactRange
  MaxWrites, MaxSnapshots, MaxExtras   \* bounds

VARIABLES
  mem, imm,       \* sets of internal keys; imm is NULL when there is none
  hist,           \* history: the writes, in the order of their numbers
  snapshots,      \* the list of SnapshotImpl
  files,          \* the current version
  compact_pointer,
  seeks,          \* allowed_seeks of the files of the current version
  file_to_compact,
  bg,             \* the merge that runs: its inputs, what it keeps; or NULL
  next,           \* next_file_number_
  client,         \* CompactRange in progress: the level it is at; or NULL
  armed,          \* manual_compaction_ # NULL
  extras,         \* bound: reads that charge a seek and CompactRange calls
  manifest        \* what Recover would gather from the edits written so far

vars == <<mem, imm, hist, snapshots, files, compact_pointer, seeks,
          file_to_compact, bg, next, client, armed, extras, manifest>>
tree == <<files, compact_pointer, seeks, file_to_compact, next, manifest>>

last_sequence == Len(hist)

Init ==
  /\ mem = {} /\ imm = NULL /\ hist = <<>> /\ snapshots = <<>>
  /\ files = NoFiles /\ compact_pointer = [l \in Levels |-> NULL]
  /\ seeks = <<>> /\ file_to_compact = NULL
  /\ bg = NULL /\ next = 1 /\ client = NULL /\ armed = FALSE
  /\ extras = 0 /\ manifest = EmptyBuilder

----------------------------------------------------------------------------
(***************************************************************************)
(* MakeRoomForWrite: the write goes on, waits, or finds a new memtable.    *)
(***************************************************************************)
Switch == imm = NULL /\ Len(files[0]) < kL0_StopWritesTrigger

Write(u, t) ==
  /\ last_sequence < MaxWrites
  /\ hist' = Append(hist, [user |-> u, type |-> t])
  /\ LET k == IKey(u, last_sequence + 1, t)
     IN  \/ /\ Cardinality(mem) < WriteBuffer
            /\ mem' = mem \cup {k} /\ UNCHANGED imm
         \/ /\ Cardinality(mem) >= WriteBuffer /\ Switch
            /\ imm' = mem /\ mem' = {k}
  /\ UNCHANGED <<snapshots, tree, bg, client, armed, extras>>

GetSnapshot ==
  /\ Len(snapshots) < MaxSnapshots
  /\ snapshots' = Append(snapshots, last_sequence)
  /\ UNCHANGED <<mem, imm, hist, tree, bg, client, armed, extras>>

ReleaseSnapshot ==
  /\ \E i \in 1..Len(snapshots) : snapshots' = RemoveAt(snapshots, i)
  /\ UNCHANGED <<mem, imm, hist, tree, bg, client, armed, extras>>

(***************************************************************************)
(* DBImpl::Get: memtable, immutable memtable, then the version.            *)
(***************************************************************************)
InMemory(k) ==
  IF Lookup(mem, k) # NULL THEN Lookup(mem, k)
  ELSE IF imm = NULL THEN NULL ELSE Lookup(imm, k)

Get(u, s) ==
  LET k == IKey(u, s, kValueTypeForSeek)
  IN  Answer(IF InMemory(k) # NULL THEN InMemory(k)
             ELSE Version_Get(files, k).entry)

\* UpdateStats: a file that was read in vain too often is to be compacted.
UpdateStats(stats) ==
  /\ stats # NULL
  /\ LET n == stats.file.number
         left == IF seeks[n] = 0 THEN 0 ELSE seeks[n] - 1   \* only <= 0 matters
     IN  /\ seeks' = [seeks EXCEPT ![n] = left]
         /\ file_to_compact' = IF left = 0 /\ file_to_compact = NULL
                               THEN stats ELSE file_to_compact

\* A lookup that reaches the files, or an iterator's read sample.
Read(u) ==
  LET k == IKey(u, last_sequence, kValueTypeForSeek)
  IN  /\ extras < MaxExtras /\ extras' = extras + 1
      /\ \/ /\ InMemory(k) = NULL
            /\ UpdateStats(Version_Get(files, k).seek)
         \/ UpdateStats(RecordReadSample(files, k))
      /\ UNCHANGED <<mem, imm, hist, snapshots, files, compact_pointer, next,
                     manifest, bg, client, armed>>

----------------------------------------------------------------------------
(***************************************************************************)
(* LogAndApply: the edit is logged and the next version installed.         *)
(***************************************************************************)
LogAndApply(edit) ==
  \E v \in {SaveTo(files, Apply(EmptyBuilder, edit))} :
    /\ files' = v
    /\ compact_pointer' = [l \in Levels |->
         IF \E p \in edit.ptrs : p[1] = l
         THEN (CHOOSE p \in edit.ptrs : p[1] = l)[2] ELSE compact_pointer[l]]
    /\ seeks' = [n \in UNION {{f.number : f \in ToSet(v[l])} : l \in Levels} |->
         IF \E x \in edit.new : x[2].number = n
         THEN AllowedSeeks((CHOOSE x \in edit.new : x[2].number = n)[2])
         ELSE seeks[n]]
    /\ file_to_compact' = NULL
    /\ manifest' = Apply(manifest, edit)

(***************************************************************************)
(* CompactMemTable with WriteLevel0Table, also in the middle of a merge.   *)
(* An empty memtable leaves no file.                                       *)
(***************************************************************************)
CompactMemTable ==
  /\ imm # NULL
  /\ \E edit \in {IF imm = {} THEN Edit({}, {}, {})
                  ELSE Edit({}, {}, {<<PickLevelForMemTableOutput(files,
                                         First(imm).user, Greatest(imm).user),
                                       Table(next, imm)>>})} :
       LogAndApply(edit) /\ next' = next + Cardinality(edit.new)
  /\ imm' = NULL
  /\ UNCHANGED <<mem, hist, snapshots, bg, client, armed, extras>>

OldestSnapshot == IF snapshots = <<>> THEN last_sequence ELSE Head(snapshots)

\* The end of BackgroundCompaction for a manual range with nothing left.
ManualDone_again(m) == m   \* faulty: the flag is never set
ManualDone(m) == [m EXCEPT !.done = TRUE]

\* The inputs BackgroundCompaction works on.
NeedsCompaction == NeedsSizeCompaction(files) \/ file_to_compact # NULL
Picked ==
  IF armed THEN CompactRange(files, client.level, client.begin, client.end)
  ELSE PickCompaction(files, compact_pointer, file_to_compact)

(***************************************************************************)
(* BackgroundCompaction without an immutable memtable: nothing left of a   *)
(* manual compaction, a file moved down, or a merge started.               *)
(***************************************************************************)
BackgroundCompaction ==
  /\ imm = NULL /\ bg = NULL /\ (armed \/ NeedsCompaction)
  /\ \E p \in {Picked} :
       IF p.in0 = <<>>
       THEN /\ armed' = FALSE /\ client' = ManualDone(client)
            /\ UNCHANGED <<tree, bg>>
       ELSE \E c \in {SetupOtherInputs(files, p.level, p.in0)} :
              /\ IF ~armed /\ IsTrivialMove(c)
                 THEN /\ LogAndApply(Edit({<<c.level, c.ptr>>},
                                          {<<c.level, c.in0[1].number>>},
                                          {<<c.level + 1, c.in0[1]>>}))
                      /\ UNCHANGED bg
                 ELSE /\ bg' = [c |-> c, smallest_snapshot |-> OldestSnapshot,
                                manual |-> armed]
                      /\ compact_pointer' =
                           [compact_pointer EXCEPT ![c.level] = c.ptr]
                      /\ UNCHANGED <<files, seeks, file_to_compact, manifest>>
              /\ UNCHANGED <<next, client, armed>>
  /\ UNCHANGED <<mem, imm, hist, snapshots, extras>>

\* InstallCompactionResults; what is left of a manual range starts at the
\* last key of the level's inputs.
FinishMerge ==
  /\ bg # NULL
  /\ \E out \in {DoCompactionWork(bg.c, bg.smallest_snapshot)} :
       /\ LogAndApply(Edit({<<bg.c.level, bg.c.ptr>>}, AddInputDeletions(bg.c),
                           {<<bg.c.level + 1, Table(next + i - 1, out[i])>> :
                              i \in 1..Len(out)}))
       /\ next' = next + Len(out)
  /\ client' = IF bg.manual
               THEN [client EXCEPT !.begin = Last(bg.c.in0).largest.user]
               ELSE client
  /\ armed' = (armed /\ ~bg.manual)
  /\ bg' = NULL
  /\ UNCHANGED <<mem, imm, hist, snapshots, extras>>

----------------------------------------------------------------------------
(***************************************************************************)
(* DBImpl::CompactRange: the memtable is switched and flushed, then each   *)
(* level is compacted in turn (TEST_CompactRange arms manual_compaction_   *)
(* again until the background thread finds nothing left of the range).     *)
(***************************************************************************)
ManualStart(b, e) ==
  /\ client = NULL /\ extras < MaxExtras
  /\ LET over == {l \in 1..(kNumLevels - 1) : OverlapInLevel(files, l, b, e)}
         top == IF over = {} THEN 1 ELSE CHOOSE l \in over : \A m \in over : l >= m
     IN  client' = [level |-> 0, top |-> top, begin |-> b, from |-> b, end |-> e,
                    done |-> FALSE, flushed |-> FALSE]
  /\ \/ Switch /\ imm' = mem /\ mem' = {}
     \/ UNCHANGED <<imm, mem>>   \* the NULL batch joined another writer's group
  /\ extras' = extras + 1
  /\ UNCHANGED <<hist, snapshots, tree, bg, armed>>

ManualStep ==
  /\ client # NULL /\ ~armed
  /\ \/ /\ ~client.flushed /\ imm = NULL          \* TEST_CompactMemTable returns
        /\ client' = [client EXCEPT !.flushed = TRUE] /\ UNCHANGED armed
     \/ /\ client.flushed /\ ~client.done         \* TEST_CompactRange, Idle
        /\ armed' = TRUE /\ UNCHANGED client
     \/ /\ client.flushed /\ client.done
        /\ client' = IF client.level + 1 = client.top THEN NULL
                     ELSE [client EXCEPT !.level = @ + 1, !.done = FALSE,
                                         !.begin = client.from]
        /\ UNCHANGED armed
  /\ UNCHANGED <<mem, imm, hist, snapshots, tree, bg, extras>>

Next ==
  \/ \E u \in Key, t \in Types : Write(u, t)
  \/ \E u \in Key : Read(u)
  \/ GetSnapshot \/ ReleaseSnapshot
  \/ CompactMemTable \/ BackgroundCompaction \/ FinishMerge
  \/ \E r \in Ranges : ManualStart(r[1], r[2])
  \/ ManualStep

Spec == Init /\ [][Next]_vars

Background == CompactMemTable \/ BackgroundCompaction \/ FinishMerge

(***************************************************************************)
(* MaybeScheduleCompaction runs the background thread again and again      *)
(* while there is work for it, and a waiting CompactRange is woken after   *)
(* each of its rounds.                                                     *)
(***************************************************************************)
Work == imm # NULL \/ bg # NULL \/ armed \/ NeedsCompaction
Wakes == client # NULL /\ ~armed /\ (client.flushed \/ imm = NULL)
FairSpec ==
  /\ Spec
  /\ []<>~Work \/ []<><<Background>>_vars
  /\ []<>~Wakes \/ []<><<ManualStep>>_vars

----------------------------------------------------------------------------
(***************************************************************************)
(* A read at the last sequence number or at a live snapshot answers with   *)
(* the newest write of the key up to there: no flush, move or merge loses  *)
(* an entry a reader may still ask for, or lets an older one hide it.      *)
(***************************************************************************)
Expected(u, s) ==
  LET W == {i \in 1..s : hist[i].user = u}
  IN  IF W = {} THEN 0
      ELSE LET i == CHOOSE i \in W : \A j \in W : j <= i
           IN  IF hist[i].type = kTypeDeletion THEN 0 ELSE i
ReadsLatest ==
  \A s \in ToSet(snapshots) \cup {last_sequence} : \A u \in Key :
    Get(u, s) = Expected(u, s)

(***************************************************************************)
(* The current version is sound.  Above level 0 the files of a level are   *)
(* sorted and disjoint: what MaybeAddFile and SaveTo assert, and what the  *)
(* binary search needs.  Replaying every edit of the manifest at once, as  *)
(* Recover does, gives the version that applying them one by one gave.     *)
(***************************************************************************)
LevelsDisjoint ==
  \A l \in 1..(kNumLevels - 1) : \A i \in 2..Len(files[l]) :
    Before(files[l][i - 1].largest, files[l][i].smallest)
ManifestRebuilds == SaveTo(NoFiles, manifest) = files

(***************************************************************************)
(* Once writes and reads stop, compaction comes to rest: no level stays    *)
(* above its limit, no file keeps being moved around, and CompactRange has *)
(* returned.                                                               *)
(***************************************************************************)
Settles == <>[](bg = NULL /\ imm = NULL /\ ~NeedsCompaction /\ client = NULL)
=============================================================================
