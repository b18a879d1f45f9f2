------------------------------- MODULE MCEnv --------------------------------
(***************************************************************************)
(* What leveldb and the prototype stand on: the parts of leveldb's         *)
(* environments, and the prototype's cache and Bloom filter, one at a      *)
(* time.  Which one runs is chosen at the start.  PosixLocks has its own   *)
(* variables, in which it rests while another part runs; the others share  *)
(* s1 to s7.                                                               *)
(***************************************************************************)
EXTENDS PosixLocks, Sequences

VARIABLES part, s1, s2, s3, s4, s5, s6, s7

\* Two processes of two threads each.
MCProcess == {"p", "q"}
MCThread == MCProcess \X {1, 2}
MCProcessOf(t) == t[1]

Threads == INSTANCE PosixThreads WITH
  MaxItems <- 4, queue_ <- s1, started_bgthread_ <- s2, bg <- s3,
  function <- s4, scheduled <- s5, ran <- s6

Limiter == INSTANCE MmapLimiter WITH
  Thread <- {"t1", "t2", "t3"}, File <- {"f1", "f2", "f3", "f4"}, Limit <- 2,
  allowed_ <- s1, pc <- s2, handles <- s3

Files == INSTANCE PosixFiles WITH
  Table <- {"a", "b"}, MANIFEST <- "m", MaxBlocks <- 2,
  file <- s1, records <- s2, dir <- s3, disk_dir <- s4, pc <- s5,
  current <- s6, named <- s7

Mem == INSTANCE MemEnv WITH
  Name <- {"a", "b"}, State <- {"f1", "f2", "f3"}, kBlockSize <- 2,
  Pieces <- {1, 3}, MaxSize <- 4, MaxBytes <- 4, MaxHandles <- 2,
  file_map <- s1, state <- s2, handles <- s3, content <- s4, bytes <- s5

\* Five fingerprints in three buckets.  The first two differ only behind a NUL
\* and have the same hash, so that find takes one for the other.
MCCached == {<<0, 0>>, <<0, 3>>, <<1, 1>>, <<1, 3>>, <<3, 1>>}
Lru == INSTANCE LruCache WITH
  FP_SIZE <- 2, Char <- {0, 1, 3}, HASH_SIZE <- 3, ULONG <- 64, LRU_SIZE <- 3,
  Chunk <- MCCached, c <- s1, call <- s2

\* Four elements on eleven bits; the products of the hashes wrap at UINT.
MCMurmur(e, s) == (e * 37 + s * 11 + 5) % 64
Blm == INSTANCE BloomFilter WITH
  Element <- 1..4, Hash <- MCMurmur, Seed <- 7, UINT <- 64, bits <- 11,
  hashes <- 3,
  ready <- s1, bf <- s2, conf <- s3, added <- s4, kept <- s5, answer <- s6

shared == <<s1, s2, s3, s4, s5, s6, s7>>
all == <<part, vars, shared>>

MCInit ==
  /\ Init
  /\ \/ part = "locks" /\ s1 = 0 /\ s2 = 0 /\ s3 = 0 /\ s4 = 0 /\ s5 = 0
        /\ s6 = 0 /\ s7 = 0
     \/ part = "threads" /\ Threads!Init /\ s7 = 0
     \/ part = "limiter" /\ Limiter!Init /\ s4 = 0 /\ s5 = 0 /\ s6 = 0 /\ s7 = 0
     \/ part = "files" /\ Files!Init
     \/ part = "mem" /\ Mem!Init /\ s6 = 0 /\ s7 = 0
     \/ part = "lru" /\ Lru!Init /\ s3 = 0 /\ s4 = 0 /\ s5 = 0 /\ s6 = 0 /\ s7 = 0
     \/ part = "bloom" /\ Blm!Init /\ s7 = 0

ThreadsNext ==
  part = "threads" /\ Threads!Next /\ UNCHANGED <<part, vars, s7>>

MCNext ==
  \/ part = "locks" /\ Next /\ UNCHANGED <<part, shared>>
  \/ ThreadsNext
  \/ part = "limiter" /\ Limiter!Next /\ UNCHANGED <<part, vars, s4, s5, s6, s7>>
  \/ part = "files" /\ Files!Next /\ UNCHANGED <<part, vars>>
  \/ part = "mem" /\ Mem!Next /\ UNCHANGED <<part, vars, s6, s7>>
  \/ part = "lru" /\ Lru!Next /\ UNCHANGED <<part, vars, s3, s4, s5, s6, s7>>
  \/ part = "bloom" /\ Blm!Next /\ UNCHANGED <<part, vars, s7>>

\* As PosixThreads!Fairness: the background thread is scheduled.
ThreadRuns ==
  /\ part = "threads" /\ (Threads!Wait \/ Threads!Take \/ Threads!Returns)
  /\ UNCHANGED <<part, vars, s7>>

MCSpec == MCInit /\ [][MCNext]_all /\ WF_all(ThreadRuns)

----------------------------------------------------------------------------
\* PosixThreads: the functions run in the order in which they were scheduled,
\* and every one that was scheduled runs to its end.
EachRuns ==
  /\ [](part = "threads" => Threads!RunInOrder)
  /\ \A i \in 1..4 :
       (part = "threads" /\ i <= Len(s5)) ~> (part = "threads" /\ i <= Len(s6))

\* MmapLimiter: no slot is lost, given out twice or given back twice, and no
\* more files are mapped than the limit allows.
SlotsExact == part = "limiter" => Limiter!SlotsExact /\ Limiter!WithinLimit

\* PosixFiles: after a power failure every table that a synced record of the
\* manifest names is there, and complete.
NamedTablesSurvive == part = "files" => Files!NamedTablesSurvive


\* LruCache: through its interface the pointer structure is the LRU sequence, as
\* ImplementsLru of LruCache; the list is linked both ways, and the hash table
\* holds the nodes of the list.
ImplementsLru ==
  /\ part = "lru" => Lru!Abstract!Init
  /\ [][part = "lru" => [Lru!Abstract!Next]_<<Lru!Keys(s1), s2>>]_all
  /\ [](part = "lru" => Lru!ListSound /\ Lru!TableSound)

\* BloomFilter: what was added is found, also after a restart; bloom_add returns
\* what bloom_check would have; no byte outside the filter is accessed.
AddedFound ==
  part = "bloom" => Blm!AddedFound /\ Blm!AddTellsCheck /\ Blm!InBounds
=============================================================================
