------------------------------- MODULE Ddfs --------------------------------
(***************************************************************************)
(* The deduplication prototype (prototype/ddfs.cc).  The scripts run the   *)
(* program once per backup snapshot on the same directories: a run loads   *)
(* the Bloom filter, the container counter and the fingerprint cache,      *)
(* reads the fingerprints of the snapshot one line at a time, and saves    *)
(* filter and cache at its end.  The fingerprint index is a leveldb store  *)
(* and is updated in place.                                                *)
(***************************************************************************)
EXTENDS LruList, KeyValue

CONSTANTS
  Chunk,         \* the fingerprints that occur in snapshots
  Sizes,         \* the chunk sizes that occur
  MAX_SIZE,      \* capacity of a container
  Bits,          \* bits of the Bloom filter
  Positions(_),  \* the bits bloom_check_add computes for a fingerprint
  MaxLines,      \* bound: lines of one snapshot
  MaxRuns,       \* bound: runs of the program
  MaxFaults     \* bound: kills and failing leveldb calls

ASSUME DdfsAssumption ==
  /\ Chunk \subseteq Fp
  /\ Sizes \subseteq Nat
  /\ MAX_SIZE \in Nat
  /\ \A f \in Fp : Positions(f) \subseteq Bits
  /\ MaxLines \in Nat /\ MaxRuns \in Nat /\ MaxFaults \in Nat

VARIABLES
  files,      \* disk: container id -> fingerprints of the container file
  mainfest,   \* disk: the id in MAINFEST, or Absent, or Torn
  index,      \* disk: fingerprint -> container id (leveldb)
  bloomConf,  \* disk: the saved Bloom filter
  lcpConf,    \* disk: the saved cache, one fingerprint per line
  pc,         \* what the program does next
  ret,        \* where pocessw returns to
  hash, size, \* the chunk being handled
  bf,         \* BLM->bf, the bits that are set
  LPC,        \* the fingerprint cache
  now_id, now_size, tmp,  \* CMR: the container being filled
  conti,      \* fingerprints loaded and not yet put into the cache
  index_access, update_access, loading_access,
  lines, runs, faults,   \* counted against the bounds
  cur, acked  \* history: chunks handled in this run, in completed runs

disk == <<files, mainfest, index, bloomConf, lcpConf>>
cmr  == <<now_id, now_size, tmp>>
stat == <<index_access, update_access, loading_access>>
env  == <<runs, faults>>
hist == <<cur, acked>>
vars == <<disk, pc, ret, hash, size, bf, LPC, cmr, conti, stat, lines, env,
          hist>>

Absent == -1   \* there is no MAINFEST
Torn   == -2   \* MAINFEST was truncated and not written

NoFp == [i \in 1..FP_SIZE |-> 0]   \* memset(hash, 0, FP_SIZE)

Init ==
  /\ files = EmptyStore /\ mainfest = Absent
  /\ index = EmptyStore /\ bloomConf = {} /\ lcpConf = <<>>
  /\ pc = "off" /\ ret = "bloom" /\ hash = NoFp /\ size = 0
  /\ bf = {} /\ LPC = <<>> /\ now_id = 0 /\ now_size = 0 /\ tmp = <<>>
  /\ conti = <<>> /\ index_access = 0 /\ update_access = 0
  /\ loading_access = 0 /\ lines = 0 /\ runs = 0 /\ faults = 0
  /\ cur = {} /\ acked = {}

(***************************************************************************)
(* The id container_manager::init arrives at, and the bits bloom_init_conf *)
(* loads.                                                                  *)
(***************************************************************************)
init_zero == 0               \* faulty: MAINFEST is not read
init == IF pc = "create" THEN 0 ELSE mainfest

bloom_init_conf_skipped == {}   \* faulty: the saved filter is not loaded
bloom_init_conf == bloomConf

(***************************************************************************)
(* container_manager::init on a new store: fopen(.., "w") makes an empty   *)
(* MAINFEST, fclose in the next step writes the 0.                         *)
(***************************************************************************)
CreateMainfest ==
  /\ pc = "off" /\ runs < MaxRuns /\ mainfest = Absent
  /\ mainfest' = Torn
  /\ pc' = "create" /\ runs' = runs + 1
  /\ UNCHANGED <<files, index, bloomConf, lcpConf, ret, hash, size, bf, LPC,
                 cmr, conti, stat, lines, faults, hist>>

(***************************************************************************)
(* sys_ini.  A MAINFEST without a number fails the assertion in            *)
(* container_manager::init and the program does not start.                 *)
(***************************************************************************)
sys_ini ==
  /\ \/ pc = "create" /\ UNCHANGED runs
     \/ /\ pc = "off" /\ runs < MaxRuns /\ mainfest \notin {Absent, Torn}
        /\ runs' = runs + 1
  /\ bf' = bloom_init_conf
  /\ mainfest' = IF pc = "create" THEN 0 ELSE mainfest
  /\ now_id' = init /\ now_size' = 0 /\ tmp' = <<>>
  /\ LPC' = init_conf(lcpConf)
  /\ index_access' = 0 /\ update_access' = 0 /\ loading_access' = 0
  /\ pc' = "read" /\ lines' = 0 /\ cur' = {}
  /\ UNCHANGED <<files, index, bloomConf, lcpConf, ret, hash, size, conti,
                 faults, acked>>

----------------------------------------------------------------------------
\* read_hashes, one line

NextLine == pc = "read" /\ lines < MaxLines /\ lines' = lines + 1

CacheHit(f) ==
  /\ NextLine /\ Cached(LPC, f)
  /\ LPC' = Touch(LPC, f)
  /\ cur' = cur \cup {f}
  /\ UNCHANGED <<disk, pc, ret, hash, size, bf, cmr, conti, stat, env,
                 acked>>

bloom_check(f) == Positions(f) \subseteq bf

bloom_add(f) == bf \cup Positions(f)

(***************************************************************************)
(* Calling pocessw and going on to next: there is nothing to write when    *)
(* the container is empty.                                                 *)
(***************************************************************************)
pocessw_skipped(next) == pc' = next /\ ret' = next   \* faulty: never writes
pocessw(next) ==
  /\ pc' = IF tmp = <<>> THEN next ELSE "container"
  /\ ret' = next

Full(n) == now_size + n > MAX_SIZE

(***************************************************************************)
(* punique up to the push: bloom_add, and pocessw when the chunk does not  *)
(* fit.                                                                    *)
(***************************************************************************)
punique(f, n) ==
  /\ bf' = bloom_add(f)
  /\ hash' = f /\ size' = n
  /\ IF Full(n) THEN pocessw("push") ELSE pc' = "push" /\ ret' = "push"
  /\ UNCHANGED <<disk, LPC, cmr, conti, update_access, loading_access, runs,
                 hist>>

BloomMiss(f, n) ==
  /\ NextLine /\ ~Cached(LPC, f) /\ ~bloom_check(f)
  /\ punique(f, n)
  /\ UNCHANGED <<index_access, faults>>

IndexMiss(f, n) ==
  /\ NextLine /\ ~Cached(LPC, f) /\ bloom_check(f) /\ f \notin DOMAIN index
  /\ index_access' = index_access + 1
  /\ punique(f, n)
  /\ UNCHANGED faults

(***************************************************************************)
(* The duplicate path.  loadtonode reads the file when there is one, the   *)
(* container in memory when the id is its id, and fails otherwise.         *)
(***************************************************************************)
IndexHit(f) ==
  /\ NextLine /\ ~Cached(LPC, f) /\ bloom_check(f) /\ f \in DOMAIN index
  /\ index_access' = index_access + 1
  /\ IF index[f] \in DOMAIN files
     THEN conti' = files[index[f]] /\ pc' = "load"
     ELSE IF index[f] = now_id
          THEN conti' = tmp /\ pc' = "load"
          ELSE conti' = <<>> /\ pc' = "failed"
  /\ cur' = cur \cup {f}
  /\ UNCHANGED <<disk, ret, hash, size, bf, LPC, cmr, update_access,
                 loading_access, env, acked>>

LoadOne ==
  /\ pc = "load" /\ conti # <<>>
  /\ LPC' = putdata(LPC, Head(conti))
  /\ conti' = Tail(conti)
  /\ loading_access' = loading_access + 1
  /\ UNCHANGED <<disk, pc, ret, hash, size, bf, cmr, index_access,
                 update_access, lines, env, hist>>

\* Faulty: the loop stops one fingerprint early.
LoadDone_early ==
  /\ pc = "load" /\ Len(conti) = 1
  /\ pc' = "read"
  /\ UNCHANGED <<disk, ret, hash, size, bf, LPC, cmr, conti, stat, lines,
                 env, hist>>

LoadDone ==
  /\ pc = "load" /\ conti = <<>>
  /\ pc' = "read"
  /\ UNCHANGED <<disk, ret, hash, size, bf, LPC, cmr, conti, stat, lines,
                 env, hist>>

(***************************************************************************)
(* The rest of CMR.insert, and FPI.insert, which leaves an existing entry  *)
(* alone.  The push is not durable, the leveldb Put is.                    *)
(***************************************************************************)
insert ==
  /\ tmp' = Append(tmp, hash) /\ now_size' = now_size + size
  /\ update_access' = update_access + 1
  /\ cur' = cur \cup {hash}
  /\ hash' = NoFp /\ size' = 0
  /\ pc' = "read"
  /\ UNCHANGED <<files, mainfest, bloomConf, lcpConf, ret, bf, LPC, now_id,
                 conti, index_access, loading_access, lines, runs, acked>>

\* Faulty: the id is taken before pocessw moved on to the next container.
FPI_insert_early(f, id) ==
  Put(index, f, IF tmp = <<>> /\ id > 0 THEN id - 1 ELSE id)
FPI_insert(f, id) == IF f \in DOMAIN index THEN index ELSE Put(index, f, id)

Push ==
  /\ pc = "push" /\ insert
  /\ index' = FPI_insert(hash, now_id)
  /\ UNCHANGED faults

----------------------------------------------------------------------------
\* pocessw: the container file, then MAINFEST

Images(s) == {t \in [1..Len(s) -> Fp] :
                \A i \in 1..Len(s) : t[i] \in FileImages(s[i])}

WriteContainer ==
  /\ pc = "container"
  /\ \E t \in Images(tmp) : files' = Put(files, now_id, t)
  /\ now_id' = now_id + 1 /\ tmp' = <<>> /\ now_size' = 0
  /\ pc' = "mainfest"
  /\ UNCHANGED <<mainfest, index, bloomConf, lcpConf, ret, hash, size, bf,
                 LPC, conti, stat, lines, env, hist>>

\* fopen(.., "w") empties MAINFEST, fclose writes the number.

TruncateMainfest ==
  /\ pc = "mainfest"
  /\ mainfest' = Torn
  /\ pc' = "number"
  /\ UNCHANGED <<files, index, bloomConf, lcpConf, ret, hash, size, bf, LPC,
                 cmr, conti, stat, lines, env, hist>>

NewNumber_old == now_id - 1   \* faulty: ee is written instead of now_id
NewNumber == now_id

WriteMainfest ==
  /\ pc = "number"
  /\ mainfest' = NewNumber
  /\ pc' = ret
  /\ UNCHANGED <<files, index, bloomConf, lcpConf, ret, hash, size, bf, LPC,
                 cmr, conti, stat, lines, env, hist>>

----------------------------------------------------------------------------
\* The end of a run

EndOfFile ==
  /\ pc = "read"
  /\ pocessw("bloom")
  /\ UNCHANGED <<disk, hash, size, bf, LPC, cmr, conti, stat, lines, env,
                 hist>>

bloom_conf_out ==
  /\ pc = "bloom"
  /\ bloomConf' = bf
  /\ pc' = "lpc"
  /\ UNCHANGED <<files, mainfest, index, lcpConf, ret, hash, size, bf, LPC,
                 cmr, conti, stat, lines, env, hist>>

(***************************************************************************)
(* The memory of the process is gone.                                      *)
(***************************************************************************)
Exit ==
  /\ pc' = "off" /\ ret' = "bloom" /\ hash' = NoFp /\ size' = 0
  /\ bf' = {} /\ LPC' = <<>> /\ now_id' = 0 /\ now_size' = 0 /\ tmp' = <<>>
  /\ conti' = <<>> /\ UNCHANGED <<stat, lines, runs>>

output_conf ==
  /\ pc = "lpc"
  /\ lcpConf' = LPC
  /\ acked' = acked \cup cur
  /\ Exit
  /\ UNCHANGED <<files, mainfest, index, bloomConf, faults, cur>>

Step ==
  \/ CreateMainfest \/ sys_ini
  \/ \E f \in Chunk : CacheHit(f) \/ IndexHit(f)
  \/ \E f \in Chunk, n \in Sizes : BloomMiss(f, n) \/ IndexMiss(f, n)
  \/ LoadOne \/ LoadDone \/ Push
  \/ WriteContainer \/ TruncateMainfest \/ WriteMainfest
  \/ EndOfFile \/ bloom_conf_out \/ output_conf

----------------------------------------------------------------------------
\* Faults of leveldb: find and insert take a failing Get for a chunk that is
\* not there; punique reports a failing Put and goes on.

GetFails(f, n) ==
  /\ NextLine /\ ~Cached(LPC, f) /\ bloom_check(f) /\ f \in DOMAIN index
  /\ faults < MaxFaults /\ faults' = faults + 1
  /\ index_access' = index_access + 1
  /\ punique(f, n)

PutFails ==
  /\ pc = "push" /\ insert
  /\ hash \notin DOMAIN index
  /\ faults < MaxFaults /\ faults' = faults + 1
  /\ UNCHANGED index

\* The entry of a chunk that is stored already is overwritten.
InsertGetFails ==
  /\ pc = "push" /\ insert
  /\ hash \in DOMAIN index
  /\ faults < MaxFaults /\ faults' = faults + 1
  /\ index' = Put(index, hash, now_id)

(***************************************************************************)
(* The process is killed.  What it had written reaches the disk (the page  *)
(* cache survives the process), what it had not does not; the file being   *)
(* written keeps a part.  A line of the cache file is flushed by endl, the *)
(* other files are cut anywhere.                                           *)
(***************************************************************************)
Killed ==
  /\ pc \notin {"off", "failed"} /\ faults < MaxFaults
  /\ faults' = faults + 1
  /\ Exit /\ UNCHANGED <<index, hist>>

Kill == Killed /\ UNCHANGED <<files, mainfest, bloomConf, lcpConf>>

\* Some complete lines, and maybe a line that was cut and reads as anything.
TornImages(s) ==
  UNION {Images(SubSeq(s, 1, k)) \cup
         {Append(t, g) : t \in Images(SubSeq(s, 1, k)), g \in Fp} :
           k \in 0..(Len(s) - 1)}

KillInContainer ==
  /\ pc = "container" /\ Killed
  /\ \E t \in TornImages(tmp) : files' = Put(files, now_id, t)
  /\ UNCHANGED <<mainfest, bloomConf, lcpConf>>

\* The filter file is short; bloom_init_conf reads past its end.
KillInBloom ==
  /\ pc = "bloom" /\ Killed
  /\ \E b \in SUBSET Bits : bloomConf' = b
  /\ UNCHANGED <<files, mainfest, lcpConf>>

KillInLpc ==
  /\ pc = "lpc" /\ Killed
  /\ \E k \in 0..Len(LPC) : lcpConf' = SubSeq(LPC, 1, k)
  /\ UNCHANGED <<files, mainfest, bloomConf>>

Crash == Kill \/ KillInContainer \/ KillInBloom \/ KillInLpc

Fault ==
  \/ PutFails \/ InsertGetFails
  \/ \E f \in Chunk, n \in Sizes : GetFails(f, n)

CrashSpec == Init /\ [][Step \/ Crash]_vars

FaultySpec == Init /\ [][Step \/ Fault \/ Crash]_vars

Spec == Init /\ [][Step]_vars

\* The program is sequential and waits for nothing: it keeps going.
FairSpec == Spec /\ WF_vars(Step)

----------------------------------------------------------------------------
TypeOK ==
  /\ DOMAIN files \subseteq Nat
  /\ \A i \in DOMAIN files : files[i] \in Seq(Fp)
  /\ mainfest \in Nat \cup {Absent, Torn}
  /\ DOMAIN index \subseteq Chunk
  /\ \A f \in DOMAIN index : index[f] \in Nat
  /\ bloomConf \subseteq Bits /\ bf \subseteq Bits
  /\ lcpConf \in Seq(Fp) /\ LPC \in Seq(Fp) /\ conti \in Seq(Fp)
  /\ pc \in {"off", "read", "load", "create", "container", "mainfest",
             "number", "push", "bloom", "lpc", "failed"}
  /\ ret \in {"push", "bloom"}
  /\ hash \in Chunk \cup {NoFp} /\ size \in Nat
  /\ now_id \in Nat /\ now_size \in Nat /\ tmp \in Seq(Chunk)
  /\ index_access \in Nat /\ update_access \in Nat /\ loading_access \in Nat
  /\ lines \in Nat /\ runs \in Nat /\ faults \in Nat
  /\ cur \subseteq Chunk /\ acked \subseteq Chunk

(***************************************************************************)
(* The exit(1) "load failed" of read_hashes is never taken: the container  *)
(* of every index entry has a file or is the one in memory, also after     *)
(* kills at any point and failing leveldb calls.                           *)
(***************************************************************************)
LoadNeverFails == pc # "failed"

(***************************************************************************)
(* The four stores agree, within a run and across runs.  The container the *)
(* index names for a chunk, on disk or still in memory, holds that chunk.  *)
(* The filter, which decides "this is a unique_chunk" without asking the   *)
(* index, has the bits of every chunk in the index.  A cache hit can be    *)
(* trusted: everything in the cache, in memory and as saved, is in the     *)
(* index.                                                                  *)
(***************************************************************************)
IndexSound ==
  \A f \in DOMAIN index :
    IF index[f] \in DOMAIN files
    THEN f \in Range(files[index[f]])
    ELSE index[f] = now_id /\ f \in Range(tmp)
BloomCovers ==
  LET filter == IF pc \in {"off", "create"} THEN bloomConf ELSE bf
  IN  \A f \in DOMAIN index : Positions(f) \subseteq filter
CacheSound == Range(LPC) \cup Range(lcpConf) \subseteq DOMAIN index
StoresAgree == IndexSound /\ BloomCovers /\ CacheSound

(***************************************************************************)
(* punique is only called for chunks that are not stored yet, as the       *)
(* comments at both calls say ("this is a unique_chunk").                  *)
(***************************************************************************)
UniqueIsNew == pc = "push" => hash \notin DOMAIN index

(***************************************************************************)
(* Cache and container keep their limits, whatever was loaded from         *)
(* containers or the saved cache: the cache holds at most LRU_SIZE         *)
(* fingerprints, no two of which find would confuse, and a container takes *)
(* more than MAX_SIZE only to hold one chunk larger than that.             *)
(***************************************************************************)
LimitsKept ==
  /\ Len(LPC) <= LRU_SIZE
  /\ \A i, j \in 1..Len(LPC) : Alias(LPC[i], LPC[j]) => i = j
  /\ now_size > MAX_SIZE => Len(tmp) = 1

(***************************************************************************)
(* A container below the id in MAINFEST is never written again, whatever   *)
(* fails and wherever the process is killed.                               *)
(***************************************************************************)
CommittedImmutable ==
  [][\A i \in DOMAIN files :
       i < mainfest => i \in DOMAIN files' /\ files'[i] = files[i]]_vars

(***************************************************************************)
(* Every run comes to its end: no line makes read_hashes loop or stop.     *)
(***************************************************************************)
RunCompletes == pc # "off" ~> pc = "off"

(***************************************************************************)
(* Over all runs the containers hold every chunk once, in the order of the *)
(* first occurrences: the prototype implements Dedup.                      *)
(***************************************************************************)
Containers ==
  FlattenSeq([i \in 1..Cardinality(DOMAIN files) |-> files[i - 1]]) \o tmp

Abstract == INSTANCE Dedup WITH stored <- Containers, seen <- acked \cup cur

StoresInLogicalOrder == Abstract!Spec
=============================================================================
