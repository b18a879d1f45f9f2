------------------------------- MODULE DBImpl -------------------------------
(***************************************************************************)
(* leveldb's DBImpl: the queue of writers and its group commit, the log    *)
(* and the memtables, the background thread, the manifest, the files that  *)
(* are deleted, and what DB::Open recovers after the process or the        *)
(* machine stopped.  Only a write's number and identity are kept of it:    *)
(* what a table answers is in Lsm.  A version is the tables of level 0 and *)
(* those of all other levels; a merge takes all of them into one table.    *)
(*                                                                         *)
(* A machine crash may lose any suffix of a file that was not synced, and  *)
(* may leave half of a record; directory operations are taken to be        *)
(* durable in the order they are made.                                     *)
(***************************************************************************)
EXTENDS Integers, FiniteSets, SequencesExt

CONSTANTS
  NULL,
  Thread,                   \* the threads that write
  WriteBuffer,              \* entries above which the memtable is switched
  MaxGroup,                 \* batches a leader takes (max_size, in bytes)
  kL0_CompactionTrigger, kL0_StopWritesTrigger,
  Modes,                    \* [reuse_logs, torn, half, Syncs, MaxWrites, MaxStops,
                            \* MaxFaults, MaxReads]: the option; whether a crash,
                            \* or a failed append, leaves half a record; the
                            \* values of WriteOptions::sync; bounds
  FaultKinds                \* calls that may fail

ASSUME DBImplAssumption ==
  /\ WriteBuffer \in Nat \ {0} /\ MaxGroup \in Nat \ {0}
  /\ kL0_CompactionTrigger \in 1..kL0_StopWritesTrigger
  /\ FaultKinds \subseteq {"newlog", "append", "sync", "table", "manifest"}

VARIABLES
  mode,      \* an element of Modes
  logs,      \* number -> [recs, synced]: records (sets of entries, NULL for
             \* half a record), how many are durable
  tables,    \* number -> set of entries
  manifests, \* number -> [recs, synced]: version edits
  current,   \* the manifest CURRENT names, 0 if there is none
  phase,     \* "down", "opening", "renaming", "installing", "open", "closing",
             \* or "corrupt": Recover refused
  vs,        \* VersionSet: next, manifest, last, log, files
  mem, imm,  \* sets of entries; imm is NULL when there is none
  logfile,   \* logfile_number_
  w,         \* the writers: idle or queued, sync, id; id 0 for a NULL batch
  writers,   \* the queue of threads
  group,     \* what the leader has in hand while the mutex is free, or NULL
  scheduled, \* bg_compaction_scheduled_
  flush,     \* CompactMemTable in progress, or NULL
  merge,     \* DoCompactionWork in progress, or NULL
  pending,   \* pending_outputs_
  recovered, \* the tables RecoverLogFile wrote, until DB::Open installs them
  bg_error,
  reader,    \* the tables a reader holds and what was in them, or NULL
  ops, stops, faults, reads,        \* bounds
  acked, durable, covered, opened   \* history, see the properties

disk == <<logs, tables, manifests, current>>
volatile == <<vs, mem, imm, logfile, w, writers, group, scheduled, flush, merge,
              pending, recovered, bg_error, reader>>
history == <<acked, durable, covered, opened>>
vars == <<mode, disk, phase, volatile, ops, stops, faults, reads, history>>

----------------------------------------------------------------------------
(***************************************************************************)
(* Files.                                                                  *)
(***************************************************************************)
With(f, n, x) == [m \in DOMAIN f \cup {n} |-> IF m = n THEN x ELSE f[m]]
Only(f, S) == [m \in DOMAIN f \cap S |-> f[m]]
File(recs, n) == [recs |-> recs, synced |-> n]
Contents(S) == UNION {tables[n] : n \in S \cap DOMAIN tables}

NoFiles == [l0 |-> {}, l1 |-> {}]
AllFiles(f) == f.l0 \cup f.l1

\* A version edit; the first record of a manifest is a snapshot without numbers.
Edit(add, del) == [add |-> add, del |-> del, log |-> NULL, next |-> NULL,
                   last |-> NULL]
Applied(f, e) == [l0 |-> (f.l0 \ AllFiles(e.del)) \cup e.add.l0,
                  l1 |-> (f.l1 \ AllFiles(e.del)) \cup e.add.l1]

Max0(S) == IF S = {} THEN 0 ELSE CHOOSE x \in S : \A y \in S : y <= x

(***************************************************************************)
(* DeleteObsoleteFiles: nothing is deleted after a background error.       *)
(***************************************************************************)
Live_current(files, pend, inputs) == AllFiles(files) \cup pend   \* faulty: no pins
Live(files, pend, inputs) ==
  AllFiles(files) \cup pend \cup inputs
    \cup (IF reader = NULL THEN {} ELSE DOMAIN reader)

DeleteObsoleteFiles_own(v, pend, inputs) ==   \* faulty: the manifest in use, too
  IF bg_error THEN UNCHANGED <<logs, manifests, tables>>
  ELSE /\ logs' = Only(logs, {n \in DOMAIN logs : n >= v.log})
       /\ manifests' = Only(manifests, {n \in DOMAIN manifests : n > v.manifest})
       /\ tables' = Only(tables, Live(v.files, pend, inputs))
DeleteObsoleteFiles(v, pend, inputs) ==
  IF bg_error THEN UNCHANGED <<logs, manifests, tables>>
  ELSE /\ logs' = Only(logs, {n \in DOMAIN logs : n >= v.log})
       /\ manifests' = Only(manifests, {n \in DOMAIN manifests : n >= v.manifest})
       /\ tables' = Only(tables, Live(v.files, pend, inputs))

----------------------------------------------------------------------------
(***************************************************************************)
(* Opening.  NewDB writes the first manifest without syncing it.           *)
(***************************************************************************)
Down ==
  /\ vs = NULL /\ mem = {} /\ imm = NULL /\ logfile = 0
  /\ w = [t \in Thread |-> [queued |-> FALSE, sync |-> FALSE, id |-> 0]]
  /\ writers = <<>> /\ group = NULL /\ scheduled = FALSE
  /\ flush = NULL /\ merge = NULL /\ pending = {} /\ recovered = {} /\ bg_error = FALSE
  /\ reader = NULL

Init ==
  /\ mode \in Modes
  /\ logs = <<>> /\ tables = <<>> /\ manifests = <<>> /\ current = 0
  /\ phase = "down" /\ Down
  /\ ops = 0 /\ stops = 0 /\ faults = 0 /\ reads = 0
  /\ acked = {} /\ durable = {} /\ covered = {} /\ opened = FALSE

NewDB ==
  /\ phase = "down" /\ current = 0
  /\ manifests' = With(manifests, 1, File(<<
       [Edit(NoFiles, NoFiles) EXCEPT !.log = 0, !.next = 2, !.last = 0]>>, 0))
  /\ current' = 1
  /\ UNCHANGED <<mode, logs, tables, phase, volatile, ops, stops, faults, reads,
                 history>>

\* What log::Reader returns: nothing of the block after a torn record.
Readable(recs) ==
  LET torn == {i \in 1..Len(recs) : recs[i] = NULL}
  IN  IF torn = {} THEN recs
      ELSE SubSeq(recs, 1, (CHOOSE i \in torn : \A j \in torn : i <= j) - 1)
Entries(recs) == UNION ToSet(Readable(recs))

\* VersionSet::Recover: the edits of the manifest, the last of each number.
Replay(all) ==
  FoldLeft(LAMBDA v, e : [files |-> Applied(v.files, e),
                          log |-> IF e.log = NULL THEN v.log ELSE e.log,
                          next |-> IF e.next = NULL THEN v.next ELSE e.next,
                          last |-> IF e.last = NULL THEN v.last ELSE e.last],
           [files |-> NoFiles, log |-> NULL, next |-> NULL, last |-> NULL], Readable(all))

(***************************************************************************)
(* DBImpl::Recover and RecoverLogFile: every log from the manifest's log   *)
(* number on becomes a table of level 0, in order; with reuse_logs the     *)
(* last one is kept as the log and its entries as the memtable.            *)
(***************************************************************************)
RecoverLogs(r) == {n \in DOMAIN logs : n >= r.log}

MaxSequence_manifest(r, L) == r.last   \* faulty: the logs' numbers are dropped
MaxSequence(r, L) ==
  Max0({r.last} \cup {e.seq : e \in UNION {Entries(logs[n].recs) : n \in L}})

Recover ==
  /\ phase = "down" /\ current # 0
  /\ \E r \in {IF current \in DOMAIN manifests THEN Replay(manifests[current].recs)
               ELSE Replay(<<>>)} :
     \E keep \in {mode.reuse_logs, FALSE} :        \* ReuseManifest
       IF r.next = NULL \/ ~(AllFiles(r.files) \subseteq DOMAIN tables)
       THEN /\ phase' = "corrupt"
            /\ UNCHANGED <<logs, tables, volatile>>
       ELSE LET L == RecoverLogs(r)
                kept == IF mode.reuse_logs /\ L # {} THEN {Max0(L)} ELSE {}
                full == {n \in L \ kept : Entries(logs[n].recs) # {}}
                Rank(n) == Cardinality({m \in full : m < n})
                number == [n \in full |-> r.next + 1 + Rank(n)]
                new == {number[n] : n \in full}
                next1 == Max0({r.next + 1 + Cardinality(full)}
                              \cup {n + 1 : n \in L})
            IN  /\ phase' = "opening"
                /\ tables' = [m \in DOMAIN tables \cup new |->
                     IF m \in new
                     THEN Entries(logs[CHOOSE n \in full : number[n] = m].recs)
                     ELSE tables[m]]
                /\ logfile' = IF kept # {} THEN Max0(L) ELSE next1
                /\ mem' = IF kept # {} THEN Entries(logs[Max0(L)].recs) ELSE {}
                /\ logs' = IF kept # {} THEN logs
                           ELSE With(logs, next1, File(<<>>, 0))
                /\ vs' = [next |-> IF kept # {} THEN next1 ELSE next1 + 1,
                          manifest |-> IF keep THEN current ELSE r.next,
                          kept |-> keep,
                          last |-> MaxSequence(r, L), log |-> r.log,
                          files |-> r.files]
                /\ recovered' = new
                /\ UNCHANGED <<imm, w, writers, group, scheduled, flush, merge,
                               pending, bg_error, reader>>
  /\ UNCHANGED <<mode, manifests, current, ops, stops, faults, reads, history>>

\* LogAndApply's edit, with the numbers it always carries.
FullEdit(add, del, log) ==
  [Edit(add, del) EXCEPT !.log = log, !.next = vs.next, !.last = vs.last]
OpenEdit == FullEdit([l0 |-> recovered, l1 |-> {}], NoFiles, logfile)

\* The rest of DB::Open: the manifest is written and synced, CURRENT renamed,
\* the version installed.  With reuse_logs nothing may be left to save.
OpenManifest ==
  /\ phase = "opening"
  /\ IF vs.manifest = current
     THEN /\ manifests' = IF recovered = {} THEN manifests
                          ELSE With(manifests, current,
                                 LET recs == Append(manifests[current].recs, OpenEdit)
                                 IN  File(recs, Len(recs)))
          /\ phase' = "installing"
     ELSE /\ manifests' = With(manifests, vs.manifest,
                               File(<<Edit(vs.files, NoFiles), OpenEdit>>, 2))
          /\ phase' = "renaming"
  /\ UNCHANGED <<mode, logs, tables, current, volatile, ops, stops, faults,
                 reads, history>>

SetCurrentFile ==
  /\ phase = "renaming" /\ phase' = "installing"
  /\ current' = vs.manifest
  /\ UNCHANGED <<mode, logs, tables, manifests, volatile, ops, stops, faults,
                 reads, history>>

NeedsCompaction(files) == Cardinality(files.l0) >= kL0_CompactionTrigger

OpenInstall ==
  /\ phase = "installing" /\ phase' = "open"
  /\ LET saved == recovered # {} \/ ~vs.kept
         v == [vs EXCEPT !.files = Applied(@, OpenEdit),
                         !.log = IF saved THEN logfile ELSE @]
     IN  /\ vs' = v
         /\ DeleteObsoleteFiles(v, {}, {})
         /\ scheduled' = NeedsCompaction(v.files)
  /\ recovered' = {} /\ opened' = (opened \/ manifests[current].synced > 0)
  /\ UNCHANGED <<mode, current, mem, imm, logfile, w, writers, group, flush,
                 merge, pending, bg_error, reader, ops, stops, faults, reads, acked,
                 durable, covered>>

shutting_down == phase = "closing"
Running == phase \in {"open", "closing"}

\* MaybeScheduleCompaction, for the state a step leads to.
MaybeSchedule_closing(im, files, err) ==   \* faulty: shutting_down_ is not read
  ~err /\ (im # NULL \/ NeedsCompaction(files))
MaybeSchedule(im, files, err) ==
  ~shutting_down /\ ~err /\ (im # NULL \/ NeedsCompaction(files))

----------------------------------------------------------------------------
(***************************************************************************)
(* DBImpl::Write.  MakeRoomForWrite's 1ms delay changes no state.          *)
(***************************************************************************)
Fault(kind) == kind \in FaultKinds /\ faults < mode.MaxFaults /\ faults' = faults + 1

Write(t, sync, null) ==
  /\ phase = "open" /\ ~w[t].queued /\ ops < mode.MaxWrites
  /\ ops' = ops + 1
  /\ w' = [w EXCEPT ![t] = [queued |-> TRUE, sync |-> sync,
                            id |-> IF null THEN 0 ELSE ops + 1]]
  /\ writers' = Append(writers, t)
  /\ UNCHANGED <<mode, disk, phase, vs, mem, imm, logfile, group, scheduled,
                 flush, merge, pending, recovered, bg_error, reader, stops,
                 faults, reads, history>>

Leads(t) == phase = "open" /\ writers # <<>> /\ t = Head(writers) /\ group = NULL
Return(n) ==   \* the first n writers of the queue return
  /\ w' = [t \in Thread |-> IF t \in ToSet(SubSeq(writers, 1, n))
                            THEN [w[t] EXCEPT !.queued = FALSE] ELSE w[t]]
  /\ writers' = SubSeq(writers, n + 1, Len(writers))

HasRoom(t) == w[t].id # 0 /\ Cardinality(mem) < WriteBuffer
MustWait == imm # NULL \/ Cardinality(vs.files.l0) >= kL0_StopWritesTrigger

BuildBatchGroup(t) ==
  LET Batches(n) == Cardinality({i \in 1..n : w[writers[i]].id # 0})
      Joins(i) == /\ w[writers[i]].sync => w[t].sync
                  /\ w[writers[i]].id # 0 => Batches(i) <= MaxGroup
  IN  Max0({n \in 1..Len(writers) : \A i \in 2..n : Joins(i)})

\* The entries of the group, numbered from last_sequence + 1 on.
GroupEntries(n) ==
  LET batches == {i \in 1..n : w[writers[i]].id # 0}
  IN  {[id |-> w[writers[i]].id,
        seq |-> vs.last + Cardinality({j \in batches : j <= i})] : i \in batches}

\* MakeRoomForWrite fails: nothing is logged, only the leader returns.
LeadFails(t) ==
  /\ Leads(t)
  /\ \/ bg_error /\ UNCHANGED faults
     \/ ~bg_error /\ ~HasRoom(t) /\ ~MustWait /\ Fault("newlog")
  /\ Return(1)
  /\ UNCHANGED <<mode, disk, phase, vs, mem, imm, logfile, group, scheduled,
                 flush, merge, pending, recovered, bg_error, reader, ops, stops,
                 reads, history>>

SwitchMemtable ==   \* a new log, the memtable becomes immutable
  /\ logs' = With(logs, vs.next, File(<<>>, 0))
  /\ logfile' = vs.next /\ vs' = [vs EXCEPT !.next = @ + 1]
  /\ imm' = mem /\ mem' = {}
  /\ scheduled' = (scheduled \/ MaybeSchedule(mem, vs.files, bg_error))

Lead(t) ==
  /\ Leads(t) /\ ~bg_error
  /\ IF HasRoom(t) THEN UNCHANGED <<logs, logfile, vs, imm, mem, scheduled>>
     ELSE ~MustWait /\ SwitchMemtable
  /\ IF w[t].id = 0   \* a NULL batch is for compactions
     THEN Return(1) /\ group' = NULL
     ELSE /\ \E n \in {BuildBatchGroup(t)} :
               group' = [n |-> n, entries |-> GroupEntries(n), status |-> NULL,
                         sync |-> w[t].sync]
          /\ UNCHANGED <<w, writers>>
  /\ UNCHANGED <<mode, tables, manifests, current, phase, flush, merge, pending,
                 recovered, bg_error, reader, ops, stops, faults, reads, history>>

\* log_->AddRecord and logfile_->Sync, with the mutex released.
Logged(rec, synced) ==
  LET recs == Append(logs[logfile].recs, rec)
  IN  logs' = With(logs, logfile,
                   File(recs, IF synced THEN Len(recs) ELSE logs[logfile].synced))
AddRecord ==
  /\ phase = "open" /\ group # NULL /\ group.status = NULL
  /\ \E status \in {"ok", "append", "sync"} :
       /\ group' = [group EXCEPT !.status = status]
       /\ IF status = "ok" THEN UNCHANGED faults ELSE Fault(status)
       /\ status = "sync" => group.sync
       /\ IF status # "append"
          THEN Logged(group.entries, group.sync /\ status = "ok")
          ELSE IF mode.half THEN Logged(NULL, FALSE) ELSE UNCHANGED logs
  /\ UNCHANGED <<mode, tables, manifests, current, phase, vs, mem, imm, logfile,
                 w, writers, scheduled, flush, merge, pending, recovered,
                 bg_error, reader, ops, stops, reads, history>>

\* InsertInto, then with the mutex SetLastSequence, and the group returns.
InsertInto ==
  /\ phase = "open" /\ group # NULL /\ group.status # NULL
  /\ mem' = IF group.status = "ok" THEN mem \cup group.entries ELSE mem
  /\ bg_error' = (bg_error \/ group.status = "sync")
  /\ vs' = [vs EXCEPT !.last = @ + Cardinality(group.entries)]
  /\ Return(group.n) /\ group' = NULL
  /\ LET ok == IF group.status # "ok" THEN {}
               ELSE {i \in 1..group.n : w[writers[i]].id # 0}
         ids == {w[writers[i]].id : i \in ok}
         synced == {w[writers[i]].id : i \in {j \in ok : w[writers[j]].sync}}
     IN  /\ acked' = acked \cup ids
         /\ durable' = durable \cup synced
         /\ covered' = IF synced = {} THEN covered ELSE covered \cup acked \cup ids
  /\ UNCHANGED <<mode, disk, phase, imm, logfile, scheduled, flush, merge,
                 pending, recovered, reader, ops, stops, faults, reads, opened>>

----------------------------------------------------------------------------
(***************************************************************************)
(* The background thread: BackgroundCall, CompactMemTable and              *)
(* DoCompactionWork.  The mutex is released while a table is built and     *)
(* while LogAndApply writes the manifest; a merge lets a memtable be       *)
(* written in between its keys.  A version edit is fixed before the        *)
(* manifest write and installed after it.                                  *)
(***************************************************************************)
\* The job of this thread ends; inside a merge it goes on with the merge.
EndCall(im, files, err) ==
  scheduled' = IF merge # NULL /\ flush # NULL THEN TRUE
               ELSE MaybeSchedule(im, files, err)

NewFileNumber ==
  /\ vs' = [vs EXCEPT !.next = @ + 1]
  /\ pending' = pending \cup {vs.next}

BackgroundCall ==   \* nothing to do, or not any more
  /\ Running /\ scheduled /\ flush = NULL /\ merge = NULL
  /\ shutting_down \/ bg_error \/ (imm = NULL /\ ~NeedsCompaction(vs.files))
  /\ scheduled' = MaybeSchedule(imm, vs.files, bg_error)
  /\ UNCHANGED <<mode, disk, phase, vs, mem, imm, logfile, w, writers, group,
                 flush, merge, pending, recovered, bg_error, reader, ops, stops,
                 faults, reads, history>>

CompactMemTable ==
  /\ Running /\ scheduled /\ imm # NULL /\ flush = NULL
  /\ IF merge = NULL THEN ~shutting_down /\ ~bg_error
     ELSE merge.edit = NULL /\ ~shutting_down
  /\ NewFileNumber
  /\ flush' = [number |-> vs.next, edit |-> NULL, logged |-> NULL]
  /\ UNCHANGED <<mode, disk, phase, mem, imm, logfile, w, writers, group,
                 scheduled, merge, recovered, bg_error, reader, ops, stops,
                 faults, reads, history>>

\* RecordBackgroundError, and the end of CompactMemTable.
FlushFails ==
  /\ bg_error' = TRUE /\ flush' = NULL /\ EndCall(imm, vs.files, TRUE)

\* WriteLevel0Table: an empty memtable leaves no table.
WriteLevel0Table ==
  /\ Running /\ flush # NULL /\ flush.edit = NULL
  /\ pending' = pending \ {flush.number}
  /\ \/ /\ Fault("table") /\ FlushFails /\ UNCHANGED tables
     \/ /\ tables' = IF imm = {} THEN tables ELSE With(tables, flush.number, imm)
        /\ UNCHANGED faults
        /\ IF shutting_down THEN FlushFails
           ELSE /\ flush' = [flush EXCEPT !.edit = FullEdit(
                     [l0 |-> IF imm = {} THEN {} ELSE {flush.number}, l1 |-> {}],
                     NoFiles, logfile)]
                /\ UNCHANGED <<bg_error, scheduled>>
  /\ UNCHANGED <<mode, logs, manifests, current, phase, vs, mem, imm, logfile, w,
                 writers, group, merge, recovered, reader, ops, stops, reads,
                 history>>

\* The manifest record of an edit: written and synced, or not synced, or not
\* even written.
ManifestWrite(e, status) ==
  LET f == manifests[vs.manifest]
      recs == Append(f.recs, e)
  IN  CASE status = "ok"    -> manifests' = With(manifests, vs.manifest,
                                                 File(recs, Len(recs)))
        [] status = "sync"  -> manifests' = With(manifests, vs.manifest,
                                                 File(recs, f.synced))
        [] status = "write" -> UNCHANGED manifests

LogEdit(job, status) ==
  /\ job # NULL /\ job.edit # NULL /\ job.logged = NULL
  /\ IF status = "ok" THEN UNCHANGED faults ELSE Fault("manifest")
  /\ ManifestWrite(job.edit, status)
Statuses == {"ok", "sync", "write"}

FlushLog ==
  /\ Running
  /\ \E status \in Statuses :
       /\ LogEdit(flush, status)
       /\ flush' = [flush EXCEPT !.logged = status]
  /\ UNCHANGED <<mode, logs, tables, current, phase, vs, mem, imm, logfile, w,
                 writers, group, scheduled, merge, pending, recovered, bg_error,
                 reader, ops, stops, reads, history>>

Installed(e) == [vs EXCEPT !.files = Applied(@, e), !.log = e.log]

FlushInstall ==
  /\ Running /\ flush # NULL /\ flush.logged # NULL
  /\ IF flush.logged = "ok"
     THEN \E v \in {Installed(flush.edit)} :
            /\ vs' = v /\ imm' = NULL
            /\ DeleteObsoleteFiles(v, pending, IF merge = NULL THEN {}
                                            ELSE AllFiles(merge.inputs))
            /\ flush' = NULL /\ EndCall(NULL, v.files, bg_error)
            /\ UNCHANGED bg_error
     ELSE FlushFails /\ UNCHANGED <<vs, imm, logs, manifests, tables>>
  /\ UNCHANGED <<mode, current, phase, mem, logfile, w, writers, group, merge,
                 pending, recovered, reader, ops, stops, faults, reads, history>>

BackgroundCompaction ==
  /\ Running /\ scheduled /\ flush = NULL /\ merge = NULL /\ imm = NULL
  /\ ~shutting_down /\ ~bg_error /\ NeedsCompaction(vs.files)
  /\ NewFileNumber
  /\ merge' = [number |-> vs.next, edit |-> NULL, logged |-> NULL,
               inputs |-> vs.files]
  /\ UNCHANGED <<mode, disk, phase, mem, imm, logfile, w, writers, group,
                 scheduled, flush, recovered, bg_error, reader, ops, stops,
                 faults, reads, history>>

\* RecordBackgroundError, CleanupCompaction; DeleteObsoleteFiles then returns.
MergeFails ==
  /\ bg_error' = TRUE /\ merge' = NULL /\ pending' = pending \ {merge.number}
  /\ EndCall(imm, vs.files, TRUE)

DoCompactionWork ==
  /\ Running /\ merge # NULL /\ merge.edit = NULL /\ flush = NULL
  /\ \/ /\ Fault("table") \/ (shutting_down /\ UNCHANGED faults)
        /\ MergeFails /\ UNCHANGED tables
     \/ /\ ~shutting_down
        /\ tables' = With(tables, merge.number, Contents(AllFiles(merge.inputs)))
        /\ merge' = [merge EXCEPT !.edit = FullEdit(
             [l0 |-> {}, l1 |-> {merge.number}], merge.inputs, vs.log)]
        /\ UNCHANGED <<bg_error, scheduled, faults, pending>>
  /\ UNCHANGED <<mode, logs, manifests, current, phase, vs, mem, imm, logfile, w,
                 writers, group, flush, recovered, reader, ops, stops, reads,
                 history>>

MergeLog ==   \* InstallCompactionResults
  /\ Running
  /\ \E status \in Statuses :
       /\ LogEdit(merge, status)
       /\ merge' = [merge EXCEPT !.logged = status]
  /\ UNCHANGED <<mode, logs, tables, current, phase, vs, mem, imm, logfile, w,
                 writers, group, scheduled, flush, pending, recovered, bg_error,
                 reader, ops, stops, reads, history>>

\* ReleaseInputs comes before DeleteObsoleteFiles.
MergeInstall ==
  /\ Running /\ merge # NULL /\ merge.logged # NULL
  /\ IF merge.logged = "ok"
     THEN \E v \in {Installed(merge.edit)} :
            /\ vs' = v /\ pending' = pending \ {merge.number}
            /\ DeleteObsoleteFiles(v, pending', {})
            /\ merge' = NULL /\ EndCall(imm, v.files, bg_error)
            /\ UNCHANGED bg_error
     ELSE MergeFails /\ UNCHANGED <<vs, logs, manifests, tables>>
  /\ UNCHANGED <<mode, current, phase, mem, imm, logfile, w, writers, group,
                 flush, recovered, reader, ops, stops, faults, reads, history>>

Background ==
  \/ BackgroundCall \/ CompactMemTable \/ WriteLevel0Table \/ FlushLog
  \/ FlushInstall \/ BackgroundCompaction \/ DoCompactionWork \/ MergeLog
  \/ MergeInstall

----------------------------------------------------------------------------
(***************************************************************************)
(* Readers.  An iterator holds a version, whose tables stay.               *)
(***************************************************************************)
NewIterator ==
  /\ phase = "open" /\ reader = NULL /\ reads < mode.MaxReads
  /\ reads' = reads + 1
  /\ reader' = [n \in AllFiles(vs.files) |-> tables[n]]
  /\ UNCHANGED <<mode, disk, phase, vs, mem, imm, logfile, w, writers, group,
                 scheduled, flush, merge, pending, recovered, bg_error, ops,
                 stops, faults, history>>

ReleaseIterator ==
  /\ phase = "open" /\ reader # NULL /\ reader' = NULL
  /\ UNCHANGED <<mode, disk, phase, vs, mem, imm, logfile, w, writers, group,
                 scheduled, flush, merge, pending, recovered, bg_error, ops,
                 stops, faults, reads, history>>

(***************************************************************************)
(* Stopping.  ~DBImpl waits for the background thread; nothing is flushed. *)
(* A crash keeps of every file the synced records and any number of the    *)
(* others, the next one perhaps in half.  A DB::Open that fails is a crash *)
(* that loses nothing.                                                     *)
(***************************************************************************)
Close ==
  /\ phase = "open" /\ writers = <<>> /\ reader = NULL /\ stops < mode.MaxStops
  /\ phase' = "closing" /\ stops' = stops + 1
  /\ UNCHANGED <<mode, disk, volatile, ops, faults, reads, history>>

Reset ==
  /\ phase' = "down"
  /\ vs' = NULL /\ mem' = {} /\ imm' = NULL /\ logfile' = 0
  /\ w' = [t \in Thread |-> [queued |-> FALSE, sync |-> FALSE, id |-> 0]]
  /\ writers' = <<>> /\ group' = NULL /\ scheduled' = FALSE
  /\ flush' = NULL /\ merge' = NULL /\ pending' = {} /\ recovered' = {}
  /\ bg_error' = FALSE /\ reader' = NULL

Closed ==
  /\ phase = "closing" /\ ~scheduled
  /\ Reset
  /\ UNCHANGED <<mode, disk, ops, stops, faults, reads, history>>

Cut(f, n, half) ==
  LET kept == SubSeq(f.recs, 1, n) \o
              (IF half /\ n < Len(f.recs) THEN <<NULL>> ELSE <<>>)
  IN  File(kept, Len(kept))
Longest(files) == Max0({Len(files[n].recs) : n \in DOMAIN files})
Survivors(files) ==
  {l \in [DOMAIN files -> 0..Longest(files)] :
     \A n \in DOMAIN files : l[n] \in files[n].synced..Len(files[n].recs)}

Crash ==
  /\ current # 0 /\ stops < mode.MaxStops /\ stops' = stops + 1
  /\ Reset
  /\ \E half \in {FALSE, mode.torn} :
     \E l \in Survivors(logs), m \in Survivors(manifests) :
       /\ logs' = [n \in DOMAIN logs |-> Cut(logs[n], l[n], half)]
       /\ manifests' = [n \in DOMAIN manifests |-> Cut(manifests[n], m[n], half)]
  /\ acked' = {}
  /\ UNCHANGED <<mode, tables, current, ops, faults, reads, durable, covered,
                 opened>>

----------------------------------------------------------------------------
Writer ==
  \/ \E t \in Thread : LeadFails(t) \/ Lead(t)
  \/ AddRecord \/ InsertInto
Opening == Recover \/ OpenManifest \/ SetCurrentFile \/ OpenInstall
Client ==
  \/ \E t \in Thread : \E sync \in mode.Syncs, null \in BOOLEAN : Write(t, sync, null)
  \/ NewIterator \/ ReleaseIterator \/ Close

Next == NewDB \/ Opening \/ Client \/ Writer \/ Background \/ Closed \/ Crash

Spec == Init /\ [][Next]_vars

(***************************************************************************)
(* A thread that can run does: the leader that need not wait, the          *)
(* background thread that is scheduled, the destructor it has waited for.  *)
(***************************************************************************)
Fairness == WF_vars(Writer) /\ WF_vars(Background) /\ WF_vars(Closed)
FairSpec == Spec /\ Fairness

----------------------------------------------------------------------------
(***************************************************************************)
(* Properties.                                                             *)
(***************************************************************************)
Visible == {e.id : e \in mem \cup (IF imm = NULL THEN {} ELSE imm)
                           \cup Contents(AllFiles(vs.files))}


\* RecoverSucceeds: once a database has been opened with a synced manifest,
\* DB::Open never again finds one without numbers or a table that is missing.
\* (NewDB does not sync the first one, and reuse_logs may go on with it.)
RecoverSucceeds == opened => phase # "corrupt"

\* PinnedFilesIntact: the tables of an iterator's version, of the current
\* version and of a running merge exist, and hold what they held: their numbers
\* are not given to another table.
PinnedFilesIntact ==
  /\ reader # NULL => \A n \in DOMAIN reader :
                        n \in DOMAIN tables /\ tables[n] = reader[n]
  /\ Running => AllFiles(vs.files) \subseteq DOMAIN tables
  /\ merge # NULL => AllFiles(merge.inputs) \subseteq DOMAIN tables

\* SequenceFresh: no entry the database holds or may recover later has a
\* sequence number that a new write is still to get: it would hide that write.
SequenceFresh ==
  phase = "open" /\ group = NULL =>
    \A e \in mem \cup Contents(DOMAIN tables)
               \cup UNION {Entries(logs[n].recs) : n \in DOMAIN logs} :
      e.seq <= vs.last

\* SyncCoversEarlier: what was acknowledged before an acknowledged sync write
\* is as durable as that write.
SyncCoversEarlier == phase = "open" => covered \subseteq Visible

\* CallsReturn: every write returns: the leader that waits for the background
\* thread is woken, and the writers behind it get a result or the lead; and
\* ~DBImpl does not wait for a background call for ever.
CallsReturn ==
  /\ \A t \in Thread : w[t].queued ~> ~w[t].queued
  /\ phase = "closing" ~> phase # "closing"
=============================================================================
