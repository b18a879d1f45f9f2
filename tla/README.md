# Verification of the frequency-analysis tools, the prototype, and the libraries under them

TLA+ models of the programs of this repository and of the two libraries it
carries (leveldb and fs-hasher), the TLC configurations that check them on small
instances, and TLAPS proofs. Paths are relative to `src/`; those of the
libraries to `src/util/leveldb` and `src/util/fs-hasher`.

## 1. The system

| part | code | state | operations |
|---|---|---|---|
| prototype, main loop | `prototype/ddfs.cc` | the line being handled, three counters | `sys_ini`, `read_hashes`, `punique`, end of run |
| container manager | `prototype/container_manager.cc` | container files, `MAINFEST`, the container in memory | `init`, `insert`, `pocessw`, `loadtonode` |
| fingerprint index | `prototype/fp_index.cc` | a leveldb store | `find`, `insert` |
| fingerprint cache | `prototype/lrucache.cc` | list, hash table, count; `conf/LCPconf` | `find`, `putdata`, `init_conf`, `output_conf` |
| Bloom filter | `prototype/bloom.c` | bits; `conf/bloomConf` | `bloom_check`, `bloom_add`, load, save |
| defenses | `defense/{scrambling,minhash,combined}` | the segment, the queue of minima, the ground-truth database | `read_hashes`, `process_seg` |
| counting | `basic_count.cc`, `locality_count.cc` | up to three leveldb stores | a line of `read_hashes` |
| attacks | `basic_attack.cc`, `locality_attack.cc`, `locality_attack_e.cc` | queues, database of inferred chunks | `stat_db`, `main_loop` |
| leveldb, store | `db/db_impl.cc`, `db/version_set.cc`, `db/repair.cc` | memtables, log, levels, manifest, queue of writers | `Open`, `Write`, `Get`, compaction, `RepairDB` |
| leveldb, structures and formats | `db/skiplist.h`, `util/{arena,cache,coding}.cc`, `table/*`, `db/log_*`, `db/db_iter.cc` | | |
| leveldb, environments | `util/env_posix.cc`, `helpers/memenv` | locks, queue of the background thread, mappings, files | |
| fs-hasher | `fs-hasher.c`, `libhashfile.c`, `hf-simdex.c`, `rbtree.c` | the window, hash files, indexes | scan, read, write, statistics |

The programs of the repository are sequential and meet through files:
fs-hasher turns a directory into a hash file, the scripts turn that into a list
of fingerprints, a defense rewrites the list, the counting programs collect
lists into leveldb databases, an attack reads the databases of two backups, and
the prototype is run once per snapshot on the same directories. leveldb is
concurrent: writers share a log and a memtable, one background thread flushes
and merges, readers take no lock.

What makes this hard to test: the prototype keeps the same facts in four places
and saves them at different times; leveldb must survive a stop between any two
steps and releases its mutex around all I/O; the caches, lists and trees are
hand-made; the formats have widths and boundaries; the attack feeds the queue
its own loop consumes. `PROJECT.json` lists the hazards, with the line and the
property.

## 2. Modules

| module | models |
|---|---|
| `Fingerprint`, `KeyValue` | a fingerprint, `strncmp`, `str_hash`, what a container file keeps; leveldb as the programs see it (external) |
| `Ddfs`, `DdfsProofs`, `DdfsStoreProofs`, `Dedup` | the prototype with its five stores; theorems; what it promises: each chunk once, in the order of first occurrence |
| `LruList`, `LruSpec`, `LruCache` | the cache as a sequence, as a state machine over it, and with its pointers |
| `BloomFilter` | the filter with its bytes, positions and file |
| `Heap` | libstdc++'s `priority_queue` (external), because ties and a wrong comparator matter |
| `Defense` | the three defenses; `scheme` says which |
| `Count` | the two counting programs, which fill the databases of `KeyValue` |
| `LocalityAttack`, `BasicAttack` | the attacks, on the databases that `KeyValue` builds for two backups |
| `Version`, `Lsm` | what a version answers and how compactions are picked; the store as a tree of levels under writes, reads, snapshots and compaction |
| `DBImpl` | writers, log, memtables, manifest, files, recovery |
| `LogFormat`, `Table`, `Encoding` | log files; table files; varints, batches, edits and names |
| `SkipList`, `Arena`, `ArenaProofs`, `Iterators`, `TableCache` | the memtable's list and memory; the iterators of a database; the cache of tables |
| `Repair` | `RepairDB` |
| `PosixLocks`, `PosixThreads`, `MmapLimiter`, `PosixFiles`, and `...Proofs` | the parts of `env_posix.cc`; the proof about `PosixThreads` is at its end |
| `MemEnv` | the in-memory environment |
| `FsHasher`, `HashFile`, `HfSimdex` | chunking; `libhashfile`; the index of hf-simdex |
| `RbTree`, `RbTreeApi` | the functions of `rbtree.c`; any sequence of calls of them |
| `MC...` | instances for TLC |

An operator whose name ends in an underscore and a word, marked *faulty*, is a
wrong version of the definition after it. No specification uses it. It shows
that a property would notice that mistake.

**Ddfs.** `files`, `mainfest`, `index`, `bloomConf` and `lcpConf` are on disk and
survive a run; `bf`, `LPC`, `now_id`, `now_size` and `tmp` are the process. A
line of `read_hashes` is one action per path: `CacheHit`, `BloomMiss`,
`IndexMiss`, `IndexHit`. `pocessw` is three steps, because a process can be
killed between them: the container file, `MAINFEST` truncated, `MAINFEST`
written. Failing leveldb calls are `GetFails`, `InsertGetFails` (taken for "not
found") and `PutFails` (ignored). What the coding of a container file loses is
`FileImages`.

**LruCache.** The structure is one record: nodes, both link directions, head,
back, count, bucket chains; each function of `lrucache.cc` is an operator on it.
`ImplementsLru` is refinement: the keys in list order behave as `LruSpec`.

**Defense, Count, attacks.** A chunk is a number in the order of `memcmp`. Every
outcome of `rand()` is possible. MD5 is a parameter without collisions. In
`Count` a line updates all databases in one action, and `Stops` and `PutError`
cut it at each delete and put. In `LocalityAttack`, `Stat` is one key of
`stat_db`; `Left` and `Right` are the halves of an iteration; the draw of
`LEAK_RATE` is a free choice; with a ground truth it is the program for
encrypted backups. The history variables are named as such where declared.

**Lsm and Version.** A table file is its metadata and the set of its internal
keys; its size is their number. `Version` has the pure functions of
`version_set.cc` (`Get`, `GetOverlappingInputs`, `SaveTo`, `PickCompaction`,
`SetupOtherInputs`, `ShouldStopBefore`, `IsBaseLevelForKey`...), `Lsm` the state:
memtable, immutable memtable, levels, snapshots, the compaction under way and a
client in `CompactRange`. A merge has a start and an install, between which
everything that needs the mutex may happen.

**DBImpl.** Only the number and identity of a write are kept. A write queues up,
the front writer makes room, takes a group, writes the log without the mutex,
syncs if asked, inserts, and answers the group. Flush, merge, manifest,
`CURRENT` and deletions are steps of the background thread; a process stop keeps
what was written, a machine crash keeps any prefix of what was not synced and
may tear the last record. `Open` recovers from what is on disk. Calls that fail
are chosen from `FaultKinds`.

**Structures and formats.** `SkipList`: every load and store of a link is a
step, values that lack a barrier are chosen among those possible. `Table`,
`LogFormat` and `Encoding` keep offsets, lengths and widths; the widths are
parameters, so that the limits are reached (a varint byte carries the digits
below 4 and not below 128). A checksum is what it covers. `TableCache` has the
shards' list, table and reference counts, with the file opened between lookup
and insert without the lock.

**Environments.** `PosixLocks`: `fcntl` locks belong to a process and are dropped
by the close of any descriptor. `PosixFiles`: data go from the buffer to the
kernel to the disk, names to the disk by an fsync of the directory. `MmapLimiter`
and `PosixThreads`: one step per access of shared state.

**fs-hasher.** `FsHasher` cuts files seen through a window, by several methods
that each have an offset; `HashFile` is a tape of typed cells, written in
version 7 and read in versions 1 to 7; `HfSimdex` runs over two hash files;
`RbTree` has both rotations and all cases of insertion and removal.

## 3. Runs

Passing runs. `MCEnv`, `MCStorage` and `MCTools` hold several parts that share
variables; which one runs is chosen at the start, and a property speaks of the
states of its part. A property of theirs is the conjunction of the properties
its part's module states, each with its own comment there.

| run | shows | instance |
|---|---|---|
| `ddfs` | index, filter, cache and containers agree; only new chunks are stored; the prototype implements `Dedup`; every run ends | 3 fingerprints without NUL, two in one bucket, overlapping filter bits, 2 runs of up to 4 lines, cache and container for 2 |
| `ddfs_faults` | no "load failed", committed containers are never rewritten, cache and container keep their limits, with up to 2 kills or failing calls | the same with 3 lines |
| `lsm` | a read at any snapshot gives the newest write up to it; levels stay sorted; the manifest rebuilds the version; compaction comes to rest and `CompactRange` returns | 4 levels, 2 keys, 4 writes; table files of one entry without snapshots, and large ones with a snapshot |
| `db` | acknowledged writes survive as promised; `Open` succeeds; no file a reader, a version or a compaction uses is deleted; sequence numbers are not reused; writes and close return | 2 writers, memtables of one write, 7 mixtures of writes (2 to 4), stops, faults, reads, with and without `reuse_logs` |
| `env` | locks, background thread, mapping limit, power failure, in-memory files; cache and filter of the prototype | 2 processes of 2 threads; 4 calls; 3 threads, 4 files, limit 2; 2 tables of 2 blocks; 2 names, 3 files; 5 fingerprints in 3 buckets; 4 elements on 11 bits |
| `storage` | the structures and formats of leveldb | tables in 2 shards and 2 threads; 3 keys of height 2; blocks of 16 bytes; 3 writes, 2 tables, one bad block; logs of up to 16 cells with one damage; tables of 4 entries; varints of 3 and 4 bytes; repair of a log and 2 tables, killed once |
| `tools` | defenses, counting, attacks, fs-hasher | 3 fingerprints and 5 lines (defenses, counting); 17 backups on each side (attack); 42 (basic); 26 scans (hash files); 244 inputs (simdex); 33 directories, 3 pairs of methods (chunking); 8 keys (trees) |

Runs that show a disagreement between the code and what the repository says
(the quotations are in `PROJECT.json`):

| run | property | disagreement |
|---|---|---|
| `ddfs_restore` | `UniqueIsNew` | after a kill the filter is older than the index |
| `db_sync` | `SyncCoversEarlier` | a log is closed without a sync when the memtable is switched, so a later sync write does not cover what came before |
| `lsm_split` | `ReadsLatest` | two entries of one key in two files of a level, of which a merge takes the newer one down |
| `posix_lock` | `Exclusive` | a refused `LockFile` closes its descriptor and thereby drops the process's lock |
| `hasher_mmap` | `LaggardInWindow` | an empty file leaves the window of the file before it |

`LockKept` and `CutAsWhole` are what remains true: of processes without
concurrent calls, and of files that are not empty. `lsm` keeps small files and
snapshots apart for the same reason.

Read off the code while modelling, without a run of their own:

- Prototype. A kill between truncation and write of `MAINFEST` leaves it empty,
  and the assertion of `init` ends the next run. `init_conf` adds the saved
  cache line by line, so each run reverses the recency order. `find_hash` stops
  at NUL, so a fingerprint with the same bucket and the same bytes up to a NUL
  is a hit and is not stored; `c_str()` cuts one on its way to the container
  file, and `locality_count` cuts a neighbour.
- Defenses. `SEG_MIN` and `SEG_MAX` are 1MB and 4MB, documented as 512KB and
  2MB. The boundary test compares all eight bits with 0x3f and not the low six
  (`Divides`). With `K_MINHASH = 2` the comparator breaks the queue's order. The
  status of the Put into the ground truth is not looked at.
- Attacks. Leaked pairs are not counted against the limit `w`. Lists of
  different length pair the wrong ends; queues of different length stay
  misaligned. A full queue of the basic attack drops the most frequent chunk.
  `locality_attack_e.cc:93` does not check its Get and then uses the plaintext
  of the entry before.
- leveldb. A flush inside a manual merge (`db_impl.cc:917`) may put a file where
  the assertion of `version_set.cc:756` forbids it. `NewDB` does not sync its
  manifest. A failed append that left half a record hides later synced ones,
  and so does a torn tail with `reuse_logs`. A corrupt batch is partly applied.
  After a repair, tables in level 0 are asked in the order of their numbers, so
  an older entry may hide a newer, and deleted keys may reappear. `UnlockFile`
  closes after it removed the name and can drop another thread's lock. The
  in-memory `NewAppendableFile` does not enter the file it makes for a new name
  (`memenv.cc:283`), and `RenameFile(x, x)` deletes x.
- fs-hasher. `hashfile_reset` seeks past a header of version 5, which is longer than
  that of versions 1 to 4 (`libhashfile.c:1108`). A hash
  given to `-s` with another length than the files' makes `skip_hash` loop
  (`hf-simdex.c:255`). `next_chunk` of a version 7 file with varying sizes reads
  4 bytes into 8. A file cut inside its last entry reads as complete. A chunk
  size larger than the window never ends, and a file that shrinks during the
  scan reaches `assert(0)`.

The bounds are the smallest with which the cases meet. Two fingerprints that
fill a container or the cache and a third that does not fit give eviction and
the change of container. Four writes with memtables of one entry give two files
in level 0, a merge, and a write and a flush beside it; four levels give a level
in between for which `IsBaseLevelForKey` matters. Two writers give groups with
and without sync. A log of three blocks gives records with a first, a middle and
a last fragment; tables of four entries with restarts at every second give two
blocks and a separator. Eight keys give all cases of removal from a red-black
tree.

`CHECK_DEADLOCK FALSE` is set because each instance stops when its bounds are
used up or the program has ended.

**Fairness.** A sequential program that waits for nothing takes its next step:
`WF_vars(Step)` in `Ddfs`, weak fairness of `FsHasher`'s `Next`, and `Fairness`
of `LocalityAttack`, with ENABLED replaced by `~Stopped`, its value in every
reachable state. Threads are scheduled by the system: weak fairness of a writer
that is not waiting, of the background thread and of close in `DBImpl`; of the
background thread alone in `PosixThreads`; in `Lsm`, the background thread acts
again and again while there is `Work`, and the client of `CompactRange` when it
is woken. Writes, reads, snapshots, stops and faults need not happen.

## 4. Proofs

All are about every value of the constants that satisfies the assumptions named.

`DdfsProofs`, about `FaultySpec` (kills and failing leveldb calls included):
`TypeCorrect`, `LoadSafe` (`[]LoadNeverFails`), `CommittedSafe`
(`CommittedImmutable`). `LoadNeverFails` is not inductive. `CounterInv` relates
the ids in the index, the files, `now_id` and the number in `MAINFEST`: while a
process runs, every id below `now_id` has a file and no id in the index exceeds
`now_id`; between runs the same holds of the number in `MAINFEST`; the two are
equal except inside `pocessw` and while a store is created, where no index entry
names the newer one yet. That makes a kill harmless there. `CommittedImmutable`
follows: a container is only written under `now_id` while that equals the number
in `MAINFEST`.

`PosixLocksProofs`, for any processes and threads: `OneLockPerProcess`
(`[]OnceInProcess`) and `LocksKept` (`[]LockKept`), with `Alone`, that a process
outside `overlapped` has one call or lock at a time.

`PosixThreads`: `RunsInOrder`. What has run, what is running and the queue,
joined, are what was scheduled; inductive once they are known to be sequences.

`MmapLimiterProofs`, for finite sets of threads and files: `SlotsKept` and
`LimitKept`. The counter and the holders of slots make up the limit; each action
adds or removes one holder, by the lemmas on cardinality.

`PosixFilesProofs`, for any sizes: `NamedTablesKept`. The invariant `Up` says
which stage of write, sync and close the current file is in, that the files
before it are complete, and that a name in a synced record is on disk.

`ArenaProofs`, for positive requests and block sizes and an alignment of 8:
`PiecesKeptApart`. The invariant puts all pieces of the current block below
`alloc_ptr`.

`RunInOrder`, `SlotsExact`, `WithinLimit`, `NamedTablesSurvive` and
`PiecesDisjoint` are checked by the runs `env` and `storage` through instances
of the modules.

Only model-checked: liveness; the agreement of the stores; the refinements;
everything about `Lsm`, `DBImpl`, the formats, the other structures, the
defenses, the counting programs, the attacks and fs-hasher. Many of these are
built on recursive operators or folds over data, which need induction the prover
does not have.

## 5. Not modelled

- leveldb's benchmarks, C interface, `crc32c`, `hash`, `dumpfile`, `histogram`,
  `status`, `env.cc`, `posix_logger`: forwarding, fixed functions, printing.
  Compression, `GetProperty`, `paranoid_checks` and statistics.
- fs-hasher's options, hashing and compression methods; `hf-stat`,
  `hf-anonymizer`, `liblog`, `list.h`, `examples/`.
- MurmurHash2 and the sizing of the filter are parameters.
- Files that are copies of others are not mapped again: three
  `locality_count.cc`, `defense/scrambling/locality_attack.cc`,
  `defense/minhash/locality_attack_e.cc`, `prototype/combined.cc`.
- Parsing of lines: snapshots are sequences of fingerprints and sizes.
- A leveldb iterator that stops early under an attack, an `inference-db` left by
  a killed attack.
- The prototype under a power failure (kills only). In `DBImpl`, directory
  operations are durable in their order; `PosixFiles` has the other case.
- Ids and counters that are unbounded here are an `int` or 64 bits in the code;
  neither limit is reached by the traces the scripts use.
