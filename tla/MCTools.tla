------------------------------ MODULE MCTools -------------------------------
(***************************************************************************)
(* The programs and libraries outside leveldb, one at a time: which        *)
(* one runs is chosen at the start, and all share the variables s1 to s17. *)
(***************************************************************************)
EXTENDS Integers, Sequences

CONSTANT NULL

VARIABLES part, s1, s2, s3, s4, s5, s6, s7, s8, s9, s10, s11, s12, s13, s14,
          s15, s16, s17

all == <<part, s1, s2, s3, s4, s5, s6, s7, s8, s9, s10, s11, s12, s13, s14, s15,
         s16, s17>>

\* The last char of fingerprint 3 is 0x3f, that of 2 is 0xff, whose six low bits
\* are set as well.  MD5 is taken to have no collisions: a ciphertext is the pair
\* of its inputs.
MCHash5(f) == CASE f = 3 -> 63 [] f = 2 -> -1 [] OTHER -> 5
MCEnc(k, f) == <<f, k>>
Def == INSTANCE Defense WITH
  Schemes <- {"scrambling", "minhash", "combined"}, Key <- 1..3, hash5 <-
  MCHash5, Sizes <- {1, 2}, SEG_MIN <- 2, SEG_MAX <- 4, K_MINHASH <- 1, Enc
  <- MCEnc, MaxLines <- 5,
  scheme <- s1, sq <- s2, sq_size <- s3, pq <- s4, relate <- s5, out <- s6,
  pc <- s7, lines <- s8, segs <- s9, plain <- s10, cores <- s11

\* Three fingerprints without NUL.
MCChunk == {<<1, 1>>, <<1, 2>>, <<2, 1>>}
Cnt == INSTANCE Count WITH
  FP_SIZE <- 2, Char <- {0, 1, 2}, HASH_SIZE <- 2, ULONG <- 64, Programs <-
  {"basic", "locality"}, Chunk <- MCChunk, MaxLines <- 5, MaxFiles <- 2,
  MaxErrors <- 1,
  program <- s1, db <- s2, store_left <- s3, store_right <- s4, last <- s5,
  flag <- s6, pc <- s7, errors <- s8, input <- s9

\* All backups of up to two chunks, and longer ones whose neighbour lists have
\* several entries and differ in length.  In the second ground truth chunks 2 and
\* 3 of the target are two ciphertexts of one chunk.
MCLong == {<<1, 2, 1, 2, 3, 2>>, <<1, 2, 3, 1, 2>>, <<1, 3, 2, 3>>,
           <<2, 2, 3, 1, 3>>, <<3, 1, 2, 1>>}
MCBackups == UNION {[1..n -> 1..3] : n \in 1..2} \cup MCLong
MCTruths == {NULL, <<2, 1, 1>>}
Loc == INSTANCE LocalityAttack WITH
  Backups <- MCBackups, INIT_K <- 1, TH_K <- 2, QUEUE_LIMIT <- 2, LeakModes
  <- BOOLEAN, Truths <- MCTruths, MaxErrors <- 1,
  o <- s1, t <- s2, leaks <- s3, encrypted <- s4, relate <- s5, exs <- s6,
  q_o <- s7, q_t <- s8, uniq <- s9, correct <- s10, common <- s11, leak <-
  s12, it <- s13, pc <- s14, errors <- s15, tried <- s16, again <- s17

\* Backups of up to three chunks, and some with more chunks than a queue holds.
MCRanked == UNION {[1..n -> 1..3] : n \in 1..3}
              \cup {<<1, 2, 3, 4, 4>>, <<1, 1, 2, 2, 3, 4>>, <<4, 4, 1, 2, 3>>}
Bas == INSTANCE BasicAttack WITH
  Backups <- MCRanked, Max_lenth <- 3, MaxErrors <- 1,
  db <- s1, que <- s2, type <- s3, it <- s4, Unique <- s5, Correct <- s6,
  ansq <- s7, pc <- s8, errors <- s9, ranked <- s10

\* Empty files, links, files that end on a chunk and files that do not.
MCFile(l, n, c) == [link |-> l, size |-> n, chunks |-> c]
MCFiles == {MCFile(FALSE, 0, <<>>), MCFile(TRUE, 1, <<1>>), MCFile(FALSE, 3, <<2, 1>>),
            MCFile(FALSE, 3, <<2>>), MCFile(FALSE, 4, <<2, 2>>)}
MCContents == (MCFiles \X MCFiles) \cup {<<>>}
Hsf == INSTANCE HashFile WITH
  Contents <- MCContents, chunk_size <- 2, Word <- 4,
  mode <- s1, header <- s2, tape <- s3, handle <- s4, scan <- s5, failed <-
  s6, cut <- s7, offtrack <- s8

\* Two hash files with five chunks of three hashes in two buckets; the texts of -s
\* are of up to five characters.
MCSelf(n) == n
MCBucket(k) == IF k <= 1 THEN 0 ELSE 1
MCHashed == {[hash |-> k, size |-> k + 1] : k \in 1..3}
MCInputs ==
  {<<<<<<a, b>>, <<>>>>, <<<<c, d, e>>>>>> : a, b, c, d, e \in MCHashed}
    \cup {<<<<>>>>}
MCSkipArgs ==
  {[text |-> x, hash |-> 2] : x \in UNION {[1..n -> {"x", ":"}] : n \in 0..5}}
    \cup {[text |-> <<"x", "x", ":", "x", "x">>, hash |-> 1],
          [text |-> <<"?", "x">>, hash |-> 1]}
Sim == INSTANCE HfSimdex WITH
  Node <- 1..3, KeyOf <- MCSelf, Bucket <- MCBucket, Buckets <- {0, 1},
  Inputs <- MCInputs, SkipArgs <- MCSkipArgs, HashSize <- 2,
  pc <- s1, idx_method <- s2, files <- s3, list_table <- s4, rbtree_table <-
  s5, skip_hash_list <- s6, at <- s7, file_count <- s8, chunk_count <- s9,
  duplicate_chunk_count <- s10, bytes_count <- s11, duplicate_bytes_count <-
  s12

\* Files up to the size of two windows, chunked by two methods at a time.
MCReg(b) == [kind |-> "reg", bytes |-> b]
MCFixed(c, tl) == [algo |-> "fixed", csize |-> c, tails |-> tl]
MCVar(a, lo, hi, tl) ==
  [algo |-> a, win_size |-> 2, match_bits |-> 2, pattern |-> 3,
   min_csize |-> lo, max_csize |-> hi, tails |-> tl]
MCBytes ==
  {<<2, 1, 3, 0, 2, 2, 0>>, <<0, 2, 3, 3, 3, 1>>, <<2, 2>>,
   <<1, 0, 0, 0, 0, 0, 0, 1>>, <<3, 1, 2, 2, 0, 1, 2, 3, 2>>}
    \cup [1..3 -> {1, 2, 3}]
MCTrees ==
  {<<MCReg(a), MCReg(<<1, 3, 2, 2, 1>>)>> : a \in MCBytes}
    \cup {<<MCReg(<<1, 2, 3, 3, 1, 2, 2, 0, 1>>), [kind |-> "link", bytes |-> <<>>],
            MCReg(<<>>), [kind |-> "dir", bytes |-> <<>>], MCReg(<<0, 0, 0, 0>>)>>}
MCMethods ==
  {<<MCFixed(2, TRUE), MCVar("rabin", 2, 4, TRUE)>>,
   <<MCVar("simple", 1, 3, TRUE), MCFixed(3, FALSE)>>,
   <<MCVar("random", 1, 3, FALSE), MCVar("rabin", 2, 4, FALSE)>>}
Fsh == INSTANCE FsHasher WITH
  Trees <- MCTrees, Methods <- MCMethods, Mmap <- BOOLEAN, window_size_read
  <- 4, window_size_mmap <- 6, page_size <- 2, PRIME <- 3, M <- 8, UINT64 <-
  64, MaxFails <- 1,
  tree <- s1, file <- s2, methods <- s3, mmap <- s4, offset <- s5, window <-
  s6, buffer_eof <- s7, mapped <- s8, chunks <- s9, pc <- s10, fails <- s11

\* Eight keys; the nodes 2 and 10 carry the same one.
MCKeyOf(n) == ((n - 1) % 8) + 1
Rbt == INSTANCE RbTreeApi WITH
  Keys <- 8, Node <- (1..8) \cup {10}, KeyOf <- MCKeyOf,
  tree <- s1, value <- s2, members <- s3

\* What the parts with fewer variables leave alone.
Rest12 == <<s13, s14, s15, s16, s17>>
Rest11 == <<s12, Rest12>>
Rest10 == <<s11, Rest11>>
Rest9 == <<s10, Rest10>>
Rest8 == <<s9, Rest9>>
Rest3 == <<s4, s5, s6, s7, s8, Rest8>>
Zero12 == s13 = 0 /\ s14 = 0 /\ s15 = 0 /\ s16 = 0 /\ s17 = 0
Zero11 == s12 = 0 /\ Zero12
Zero10 == s11 = 0 /\ Zero11
Zero9 == s10 = 0 /\ Zero10
Zero8 == s9 = 0 /\ Zero9
Zero3 == s4 = 0 /\ s5 = 0 /\ s6 = 0 /\ s7 = 0 /\ s8 = 0 /\ Zero8

MCInit ==
  \/ part = "defense" /\ Def!Init /\ Zero11
  \/ part = "count" /\ Cnt!Init /\ Zero9
  \/ part = "attack" /\ Loc!Init
  \/ part = "basic" /\ Bas!Init /\ Zero10
  \/ part = "hashfile" /\ Hsf!Init /\ Zero8
  \/ part = "simdex" /\ Sim!Init /\ Zero12
  \/ part = "hasher" /\ Fsh!Init /\ Zero11
  \/ part = "rbtree" /\ Rbt!Init /\ Zero3

HasherNext ==
  part = "hasher" /\ Fsh!Next /\ UNCHANGED <<part, Rest11>>

MCNext ==
  \/ part = "defense" /\ Def!Next /\ UNCHANGED <<part, Rest11>>
  \/ part = "count" /\ Cnt!Next /\ UNCHANGED <<part, Rest9>>
  \/ part = "attack" /\ Loc!Next /\ UNCHANGED part
  \/ part = "basic" /\ Bas!Next /\ UNCHANGED <<part, Rest10>>
  \/ part = "hashfile" /\ Hsf!Next /\ UNCHANGED <<part, Rest8>>
  \/ part = "simdex" /\ Sim!Next /\ UNCHANGED <<part, Rest12>>
  \/ HasherNext
  \/ part = "rbtree" /\ Rbt!Next /\ UNCHANGED <<part, Rest3>>

\* As in LocalityAttack and FsHasher: both programs take steps until they stop.
Fairness ==
  /\ []<>(part = "attack" => Loc!Stopped) \/ []<><<TRUE>>_all
  /\ WF_all(HasherNext)

MCSpec == MCInit /\ [][MCNext]_all /\ Fairness

----------------------------------------------------------------------------

\* Count: without errors the counts are the frequencies and the neighbour lists
\* exact; errors and kills lose counts but never add any.
CountsExact ==
  part = "count" =>
    Cnt!FrequencyExact /\ Cnt!NeighboursExact /\ Cnt!NeverOvercounted

\* LocalityAttack: without errors a ciphertext chunk is inferred once and the
\* leaked pairs are those of the ground truth; the rate printed is at most one.
InferredOnce ==
  part = "attack" => Loc!InferredOnce /\ Loc!LeakedPairsTrue /\ Loc!RateAtMostOne

\* BasicAttack: the chunks paired have the same rank, and a backup with distinct
\* frequencies is inferred from itself.
PairedByRank == part = "basic" => Bas!PairedByRank /\ Bas!SelfInferred



\* FsHasher: the chunks do not depend on where the windows end, and the method
\* that lags behind is in the window.
CutAsWhole ==
  part = "hasher" => Fsh!CutAsWhole /\ Fsh!LaggardInWindowUnlessEmpty

\* FsHasher, as long as no call has failed: the assertions of process_file hold,
\* "assert(cur_dedup->offset >= window_offset)" and that the offset is not past
\* the window.
LaggardInWindow == part = "hasher" /\ s11 = 0 => Fsh!LaggardInWindow

\* RbTreeApi: the tree is ordered, red-black and its parents are right, walking
\* visits the members in order, and augmented values are those of the subtrees.
RedBlack ==
  part = "rbtree" => Rbt!RedBlack /\ Rbt!WalksMembers /\ Rbt!AugmentExact

\* LocalityAttack and FsHasher: the main loop of the attack, which feeds its own
\* queue, lets it grow no further than its limit and comes to an end; the scan
\* comes to an end.
ProgramsEnd ==
  /\ [][part = "attack" /\ s14 # "stat" /\ Len(s7') > Len(s7) => Len(s7') <= 2]_all
  /\ part = "attack" ~> (part = "attack" /\ Loc!Stopped)
  /\ part = "hasher" ~> (part = "hasher" /\ s10 \in {"done", "exit", "abort"})
=============================================================================
