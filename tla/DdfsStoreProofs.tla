------------------------- MODULE DdfsStoreProofs --------------------------
(***************************************************************************)
(* The prototype without faults: its stores agree with each other, and it  *)
(* implements Dedup.                                                       *)
(***************************************************************************)
EXTENDS DdfsProofs

(***************************************************************************)
(* No fingerprint has a NUL before its last byte.  Otherwise the container *)
(* files, written through C strings, need not hold the fingerprints that   *)
(* were stored, and find may take a chunk for another one.                 *)
(***************************************************************************)
Whole == \A f \in Chunk : \A i \in 1..(FP_SIZE - 1) : f[i] # 0

Off == pc \in {"off", "create"}

(***************************************************************************)
(* Container files, counter and index: the files are numbered without a    *)
(* gap, an index entry names the container that holds the chunk, and       *)
(* containers hold chunks of the index only.                               *)
(***************************************************************************)
FilesInv ==
  /\ DOMAIN files = 0..((IF Off THEN mainfest ELSE now_id) - 1)
  /\ pc = "off" => mainfest # Torn
  /\ pc \in {"off", "create", "mainfest", "number", "bloom", "lpc"} => tmp = <<>>
  /\ IndexSound
  /\ \A i \in DOMAIN files : Range(files[i]) \subseteq DOMAIN index
  /\ Range(tmp) \subseteq DOMAIN index

(***************************************************************************)
(* The fingerprints being loaded and those in the cache are in the index.  *)
(***************************************************************************)
CopiesInv == Range(conti) \subseteq DOMAIN index /\ CacheSound

(***************************************************************************)
(* The chunks that were handled are those in the index; a run that ended   *)
(* is acknowledged.                                                        *)
(***************************************************************************)
HistoryInv ==
  /\ acked \cup cur = DOMAIN index
  /\ Off => cur \subseteq acked

StoreInv == Inv /\ FilterInv /\ FilesInv /\ CopiesInv /\ HistoryInv

----------------------------------------------------------------------------
(***************************************************************************)
(* Then strncmp is equality, and a container file reads back as it was.    *)
(***************************************************************************)
LEMMA WholeEqual ==
  ASSUME Whole, NEW f \in Chunk, NEW g \in Fp, StrnEqual(f, g)
  PROVE  f = g
<1>1. f \in Fp /\ FP_SIZE \in Nat BY DdfsAssumption, FpAssumption
<1>2. ASSUME NEW i \in 1..FP_SIZE PROVE f[i] = g[i]
  <2>1. \A j \in 1..(i-1) : j \in 1..(FP_SIZE - 1) BY <1>1
  <2>2. \A j \in 1..(i-1) : f[j] # 0 BY <2>1 DEF Whole
  <2> QED BY <2>2 DEF StrnEqual
<1> QED BY <1>1, <1>2 DEF Fp

LEMMA WholeImages ==
  ASSUME Whole, NEW s \in Seq(Chunk), NEW t \in Images(s)
  PROVE  t = s
<1>1. /\ t \in [1..Len(s) -> Fp] /\ s \in [1..Len(s) -> Chunk]
      /\ \A i \in 1..Len(s) : t[i] \in Fp /\ StrnEqual(s[i], t[i])
  BY LenProperties DEF Images, FileImages
<1>2. \A i \in 1..Len(s) : s[i] = t[i] BY <1>1, WholeEqual
<1> QED BY <1>1, <1>2

LEMMA RangeSeq ==
  ASSUME NEW S, NEW s \in Seq(S)
  PROVE  Range(s) = {s[i] : i \in 1..Len(s)}
BY LenProperties DEF Range

LEMMA RangeEmpty == Range(<<>>) = {}
BY DEF Range

LEMMA RangeAppend ==
  ASSUME NEW S, NEW s \in Seq(S), NEW x \in S
  PROVE  Range(Append(s, x)) = Range(s) \cup {x}
<1> DEFINE t == Append(s, x)
<1>1. /\ t \in Seq(S) /\ Len(t) = Len(s) + 1 /\ t[Len(s) + 1] = x
      /\ \A i \in 1..Len(s) : t[i] = s[i]
  BY AppendProperties
<1> HIDE DEF t
<1>2. Len(s) \in Nat OBVIOUS
<1>3. Range(t) = Range(s) \cup {x}
  BY <1>1, <1>2, RangeSeq
<1> QED BY <1>3 DEF t

LEMMA RangeTail ==
  ASSUME NEW S, NEW s \in Seq(S), s # <<>>
  PROVE  Head(s) \in Range(s) /\ Range(Tail(s)) \subseteq Range(s)
<1> DEFINE t == Tail(s)
<1>1. /\ t \in Seq(S) /\ Len(t) = Len(s) - 1 /\ Head(s) = s[1]
      /\ \A i \in 1..Len(t) : t[i] = s[i + 1]
      /\ Len(s) \in Nat \ {0}
  BY HeadTailProperties
<1> HIDE DEF t
<1>2. Range(t) \subseteq Range(s) BY <1>1, RangeSeq
<1>3. Head(s) \in Range(s) BY <1>1, RangeSeq
<1> QED BY <1>2, <1>3 DEF t

----------------------------------------------------------------------------
(***************************************************************************)
(* A step that concerns neither the container files nor the index.         *)
(***************************************************************************)
FilesKept ==
  /\ UNCHANGED <<files, mainfest, index, now_id, tmp>>
  /\ Off' <=> Off
  /\ pc' # "off"
  /\ \/ pc' = pc
     \/ pc' \notin {"off", "create", "mainfest", "number", "bloom", "lpc"}
     \/ tmp = <<>>

LEMMA FilesSteps ==
  ASSUME Inv, FilesInv, [Step]_vars
  PROVE  \/ UNCHANGED <<files, mainfest, index, now_id, tmp, pc>>
         \/ FilesKept
         \/ CreateMainfest \/ sys_ini \/ Push \/ WriteContainer \/ output_conf
         \/ TruncateMainfest \/ WriteMainfest
<1> USE DEF disk, cmr, Off, FilesKept
<1>1. CASE UNCHANGED vars BY <1>1 DEF vars
<1>2. ASSUME NEW f \in Chunk, CacheHit(f) \/ IndexHit(f) PROVE FilesKept
  BY <1>2 DEF CacheHit, IndexHit, NextLine
<1>3. ASSUME NEW f \in Chunk, NEW n \in Sizes, BloomMiss(f, n) \/ IndexMiss(f, n)
      PROVE  FilesKept
  BY <1>3 DEF BloomMiss, IndexMiss, NextLine, punique, pocessw
<1>4. CASE LoadOne \/ LoadDone BY <1>4 DEF LoadOne, LoadDone
<1>5. CASE EndOfFile BY <1>5 DEF EndOfFile, pocessw
<1>6. CASE bloom_conf_out BY <1>6 DEF bloom_conf_out, FilesInv
<1> QED BY <1>1, <1>2, <1>3, <1>4, <1>5, <1>6 DEF Step

LEMMA FilesInvStep == Whole /\ StoreInv /\ [Step]_vars => FilesInv'
<1> SUFFICES ASSUME Whole, StoreInv, [Step]_vars PROVE FilesInv' OBVIOUS
<1> USE DEF Off
<1>0. Inv /\ FilesInv /\ FilterInv BY DEF StoreInv
<1>a. /\ now_id \in Nat /\ tmp \in Seq(Chunk) /\ mainfest \in Nat \cup {Absent, Torn}
      /\ DOMAIN files \subseteq Nat /\ ret \in {"push", "bloom"}
  BY <1>0 DEF Inv, TypeOK
<1>1. CASE UNCHANGED <<files, mainfest, index, now_id, tmp, pc>>
  BY <1>0, <1>1 DEF FilesInv, IndexSound
<1>2. CASE FilesKept BY <1>0, <1>2 DEF FilesInv, IndexSound, FilesKept
<1>3. CASE CreateMainfest
  <2>1. /\ UNCHANGED <<files, index, now_id, tmp>> /\ pc = "off" /\ pc' = "create"
        /\ mainfest = Absent /\ mainfest' = Torn
    BY <1>3 DEF CreateMainfest, cmr
  <2>2. DOMAIN files = {} /\ 0..(Torn - 1) = {} BY <1>0, <2>1 DEF FilesInv, Absent, Torn
  <2> QED BY <1>0, <2>1, <2>2 DEF FilesInv, IndexSound
<1>4. CASE sys_ini
  <2>1. /\ UNCHANGED <<files, index>> /\ pc' = "read" /\ tmp' = <<>> /\ now_id' = init
        /\ Off /\ tmp = <<>> /\ (pc = "off" => mainfest \in Nat)
    BY <1>0, <1>4, <1>a DEF sys_ini, FilesInv, Absent, Torn
  <2>2. \A f \in DOMAIN index : index[f] \in DOMAIN files
    BY <1>0, <2>1, RangeEmpty DEF FilesInv, IndexSound
  <2>3. DOMAIN files = 0..(init - 1)
    BY <1>0, <2>1 DEF FilesInv, init, Inv, CounterInv, Torn
  <2> QED BY <1>0, <2>1, <2>2, <2>3 DEF FilesInv, IndexSound
<1>5. CASE Push
  <2>1. /\ UNCHANGED <<files, now_id>> /\ pc = "push" /\ pc' = "read"
        /\ tmp' = Append(tmp, hash) /\ hash \in Chunk
        /\ index' = Put(index, hash, now_id)
    BY <1>0, <1>5 DEF Push, insert, FPI_insert, Inv, FilterInv, Inserting
  <2>2. Range(tmp') = Range(tmp) \cup {hash} BY <1>a, <2>1, RangeAppend
  <2>3. /\ DOMAIN index' = DOMAIN index \cup {hash} /\ hash \notin DOMAIN index
        /\ index'[hash] = now_id /\ \A f \in DOMAIN index : index'[f] = index[f]
    BY <1>0, <2>1 DEF Put, FilterInv, Inserting
  <2>4. DOMAIN files = 0..(now_id - 1) BY <1>0, <2>1 DEF FilesInv
  <2>5. IndexSound'
    BY <1>0, <1>a, <2>1, <2>2, <2>3, <2>4 DEF FilesInv, IndexSound
  <2> QED BY <1>0, <2>1, <2>2, <2>3, <2>4, <2>5 DEF FilesInv
<1>6. CASE WriteContainer
  <2>1. PICK t \in Images(tmp) : files' = Put(files, now_id, t)
    BY <1>6 DEF WriteContainer
  <2>2. t = tmp BY <1>a, <2>1, WholeImages
  <2>3. /\ UNCHANGED index /\ now_id' = now_id + 1 /\ tmp' = <<>>
        /\ pc = "container" /\ pc' = "mainfest"
    BY <1>6 DEF WriteContainer
  <2>4. DOMAIN files = 0..(now_id - 1) BY <1>0, <2>3 DEF FilesInv
  <2>5. /\ DOMAIN files' = DOMAIN files \cup {now_id} /\ files'[now_id] = tmp
        /\ \A i \in DOMAIN files : files'[i] = files[i]
    BY <1>a, <2>1, <2>2, <2>4 DEF Put
  <2>6. DOMAIN files' = 0..(now_id' - 1) BY <1>a, <2>3, <2>4, <2>5
  <2>7. IndexSound' BY <1>0, <2>3, <2>5 DEF FilesInv, IndexSound
  <2> QED BY <1>0, <2>3, <2>5, <2>6, <2>7, RangeEmpty DEF FilesInv
<1>7. CASE output_conf
  <2>1. /\ UNCHANGED <<files, index, mainfest>> /\ tmp' = <<>> /\ pc' = "off"
        /\ pc = "lpc" /\ tmp = <<>>
    BY <1>0, <1>7 DEF output_conf, Exit, FilesInv
  <2>2. mainfest = now_id BY <1>0, <2>1 DEF Inv, CounterInv
  <2>3. \A f \in DOMAIN index : index[f] \in DOMAIN files
    BY <1>0, <2>1, RangeEmpty DEF FilesInv, IndexSound
  <2> QED BY <1>0, <1>a, <2>1, <2>2, <2>3 DEF FilesInv, IndexSound, Torn
<1>8. CASE TruncateMainfest
  BY <1>0, <1>8 DEF TruncateMainfest, FilesInv, IndexSound, cmr
<1>9. CASE WriteMainfest
  BY <1>0, <1>9, <1>a DEF WriteMainfest, FilesInv, IndexSound, cmr
<1> QED BY <1>0, <1>1, <1>2, <1>3, <1>4, <1>5, <1>6, <1>7, <1>8, <1>9, FilesSteps

(***************************************************************************)
(* No chunk leaves the index.                                              *)
(***************************************************************************)
LEMMA IndexGrows == Inv /\ [Step]_vars => DOMAIN index \subseteq DOMAIN index'
<1> SUFFICES ASSUME Inv, [Step]_vars PROVE DOMAIN index \subseteq DOMAIN index' OBVIOUS
<1>1. CASE Push BY <1>1 DEF Push, FPI_insert, Put
<1>2. CASE ~Push
  <2>1. UNCHANGED index
    BY <1>2 DEF Step, vars, disk, CreateMainfest, sys_ini, CacheHit, IndexHit, BloomMiss,
       IndexMiss, punique, LoadOne, LoadDone, WriteContainer, TruncateMainfest,
       WriteMainfest, EndOfFile, bloom_conf_out, output_conf
  <2> QED BY <2>1
<1> QED BY <1>1, <1>2

LEMMA CopiesSteps ==
  ASSUME [Step]_vars
  PROVE  \/ UNCHANGED <<conti, LPC, lcpConf>>
         \/ sys_ini \/ LoadOne \/ output_conf
         \/ \E f \in Chunk : CacheHit(f) \/ IndexHit(f)
BY DEF Step, vars, disk, CreateMainfest, BloomMiss, IndexMiss, punique, LoadDone, Push,
   insert, WriteContainer, TruncateMainfest, WriteMainfest, EndOfFile, bloom_conf_out

LEMMA CopiesInvStep == Whole /\ StoreInv /\ [Step]_vars => CopiesInv'
<1> SUFFICES ASSUME Whole, StoreInv, [Step]_vars PROVE CopiesInv' OBVIOUS
<1>0. Inv /\ FilesInv /\ CopiesInv /\ DOMAIN index \subseteq DOMAIN index'
  BY IndexGrows DEF StoreInv
<1>a. /\ LPC \in Seq(Fp) /\ lcpConf \in Seq(Fp) /\ conti \in Seq(Fp) /\ Chunk \subseteq Fp
      /\ tmp \in Seq(Chunk) /\ DOMAIN index \subseteq Chunk
  BY <1>0, DdfsAssumption DEF Inv, TypeOK
<1>b. /\ \A i \in 1..Len(LPC) : LPC[i] \in DOMAIN index
      /\ \A i \in 1..Len(lcpConf) : lcpConf[i] \in DOMAIN index
  BY <1>0, <1>a, RangeSeq DEF CopiesInv, CacheSound
<1>1. CASE UNCHANGED <<conti, LPC, lcpConf>>
  BY <1>0, <1>1 DEF CopiesInv, CacheSound
<1>2. CASE sys_ini
  <2> DEFINE s == init_conf(lcpConf)
  <2>1. s \in Seq(Fp) /\ Len(s) <= Len(lcpConf)
        /\ \A i \in 1..Len(s) : s[i] = lcpConf[Len(lcpConf) + 1 - i]
    BY <1>a, InitConfProperties
  <2>2. LPC' = s /\ UNCHANGED <<conti, lcpConf>> BY <1>2 DEF sys_ini
  <2> HIDE DEF s
  <2>3. Len(s) \in Nat /\ Len(lcpConf) \in Nat BY <1>a, <2>1
  <2>4. \A i \in 1..Len(s) : s[i] \in DOMAIN index BY <1>b, <2>1, <2>3
  <2>5. Range(s) \subseteq DOMAIN index BY <2>1, <2>4, RangeSeq
  <2> QED BY <1>0, <2>2, <2>5 DEF CopiesInv, CacheSound
<1>3. ASSUME NEW f \in Chunk, CacheHit(f) PROVE CopiesInv'
  <2>1. Cached(LPC, f) /\ LPC' = Touch(LPC, f) /\ UNCHANGED <<conti, lcpConf>>
    BY <1>3 DEF CacheHit, disk
  <2>2. PICK k \in 1..Len(LPC) : Alias(f, LPC[k]) BY <2>1 DEF Cached
  <2>3. f = LPC[k] BY <1>a, <1>b, <2>2, WholeEqual DEF Alias
  <2>4. /\ LPC' \in Seq(Fp)
        /\ \A i \in 1..Len(LPC') : LPC'[i] = f \/ \E j \in 1..Len(LPC) : LPC'[i] = LPC[j]
    BY <1>a, <2>1, TouchProperties
  <2>5. Range(LPC') \subseteq DOMAIN index BY <1>b, <2>3, <2>4, RangeSeq
  <2> QED BY <1>0, <2>1, <2>5 DEF CopiesInv, CacheSound
<1>4. ASSUME NEW f \in Chunk, IndexHit(f) PROVE CopiesInv'
  BY <1>0, <1>4, RangeEmpty DEF IndexHit, FilesInv, CopiesInv, CacheSound, disk
<1>5. CASE LoadOne
  <2>1. /\ LPC' = putdata(LPC, Head(conti)) /\ conti' = Tail(conti) /\ conti # <<>>
        /\ UNCHANGED lcpConf
    BY <1>5 DEF LoadOne, disk
  <2>2. Head(conti) \in DOMAIN index /\ Range(conti') \subseteq DOMAIN index
    BY <1>0, <1>a, <2>1, RangeTail DEF CopiesInv
  <2>3. \A i \in 1..Len(LPC') : LPC'[i] = Head(conti) \/ \E j \in 1..Len(LPC) : LPC'[i] = LPC[j]
    BY <1>a, <2>1, <2>2, PutdataProperties
  <2>4. LPC' \in Seq(Fp) BY <1>a, <2>1, <2>2, PutdataProperties
  <2>5. Range(LPC') \subseteq DOMAIN index BY <1>b, <2>2, <2>3, <2>4, RangeSeq
  <2> QED BY <1>0, <2>1, <2>2, <2>5 DEF CopiesInv, CacheSound
<1>6. CASE output_conf
  BY <1>0, <1>6, RangeEmpty DEF output_conf, Exit, CopiesInv, CacheSound
<1> QED BY <1>1, <1>2, <1>3, <1>4, <1>5, <1>6, CopiesSteps

----------------------------------------------------------------------------
LEMMA HistorySteps ==
  ASSUME Inv, [Step]_vars
  PROVE  \/ UNCHANGED <<index, cur, acked>> /\ (Off' => Off)
         \/ sys_ini \/ Push \/ output_conf
         \/ \E f \in Chunk : CacheHit(f) \/ IndexHit(f)
<1> USE DEF disk, hist, Off
<1>1. CASE UNCHANGED vars BY <1>1 DEF vars
<1>2. ASSUME NEW f \in Chunk, NEW n \in Sizes, BloomMiss(f, n) \/ IndexMiss(f, n)
      PROVE  UNCHANGED <<index, cur, acked>> /\ (Off' => Off)
  BY <1>2 DEF BloomMiss, IndexMiss, NextLine, punique, pocessw
<1>3. CASE CreateMainfest \/ LoadOne \/ LoadDone
  BY <1>3 DEF CreateMainfest, LoadOne, LoadDone
<1>4. CASE WriteContainer \/ TruncateMainfest
  BY <1>4 DEF WriteContainer, TruncateMainfest
<1>5. CASE EndOfFile \/ bloom_conf_out BY <1>5 DEF EndOfFile, pocessw, bloom_conf_out
<1>6. CASE WriteMainfest
  BY <1>6 DEF WriteMainfest, Inv, TypeOK
<1> QED BY <1>1, <1>2, <1>3, <1>4, <1>5, <1>6 DEF Step

(***************************************************************************)
(* A chunk taken for a duplicate is in the index.                          *)
(***************************************************************************)
LEMMA HitIsStored ==
  ASSUME Whole, StoreInv, NEW f \in Chunk, CacheHit(f) \/ IndexHit(f)
  PROVE  f \in DOMAIN index
<1>1. CASE IndexHit(f) BY <1>1 DEF IndexHit
<1>2. CASE CacheHit(f)
  <2>1. PICK k \in 1..Len(LPC) : Alias(f, LPC[k]) BY <1>2 DEF CacheHit, Cached
  <2>2. LPC \in Seq(Fp) BY DEF StoreInv, Inv, TypeOK
  <2>3. LPC[k] \in DOMAIN index BY <2>2, RangeSeq DEF StoreInv, CopiesInv, CacheSound
  <2>4. LPC[k] \in Fp BY <2>2
  <2> QED BY <2>1, <2>3, <2>4, WholeEqual DEF Alias
<1> QED BY <1>1, <1>2

LEMMA HistoryInvStep == Whole /\ StoreInv /\ [Step]_vars => HistoryInv'
<1> SUFFICES ASSUME Whole, StoreInv, [Step]_vars PROVE HistoryInv' OBVIOUS
<1> USE DEF HistoryInv, Off
<1>0. HistoryInv /\ Inv BY DEF StoreInv
<1>1. CASE UNCHANGED <<index, cur, acked>> /\ (Off' => Off) BY <1>0, <1>1
<1>2. CASE sys_ini BY <1>0, <1>2 DEF sys_ini
<1>3. CASE Push BY <1>0, <1>3 DEF Push, insert, FPI_insert, Put
<1>4. CASE output_conf BY <1>0, <1>4 DEF output_conf, Exit
<1>5. ASSUME NEW f \in Chunk, CacheHit(f) \/ IndexHit(f) PROVE HistoryInv'
  <2>1. f \in DOMAIN index BY <1>5, HitIsStored
  <2>2. cur' = cur \cup {f} /\ UNCHANGED <<index, acked>> /\ ~Off'
    BY <1>5 DEF CacheHit, IndexHit, NextLine, disk
  <2> QED BY <1>0, <2>1, <2>2
<1> QED BY <1>0, <1>1, <1>2, <1>3, <1>4, <1>5, HistorySteps

LEMMA StoreInitially == Init => StoreInv
<1> SUFFICES ASSUME Init PROVE StoreInv OBVIOUS
<1>1. Inv BY InitInv
<1>2. FilterInv BY DEF Init, FilterInv, BloomCovers, Inserting, EmptyStore
<1>3. FilesInv /\ CopiesInv /\ HistoryInv
  BY RangeEmpty DEF Init, FilesInv, CopiesInv, HistoryInv, IndexSound, CacheSound, Off,
     EmptyStore, Absent, Torn
<1> QED BY <1>1, <1>2, <1>3 DEF StoreInv

LEMMA StoreInvStep == Whole /\ StoreInv /\ [Step]_vars => StoreInv'
<1>1. StoreInv /\ [Step]_vars => Inv' BY StepInv DEF StoreInv, Next
<1>2. StoreInv /\ [Step]_vars => FilterInv' BY FilterInvStep DEF StoreInv
<1> QED BY <1>1, <1>2, FilesInvStep, CopiesInvStep, HistoryInvStep DEF StoreInv

LEMMA StoreInvariance == ASSUME Whole PROVE Spec => []StoreInv
<1>1. StoreInv /\ [Step]_vars => StoreInv' BY StoreInvStep
<1> QED BY <1>1, StoreInitially, PTL DEF Spec

(***************************************************************************)
(* StoresAgree: without faults the index names the container that holds a  *)
(* chunk, the filter covers the index and a hit in the cache can be        *)
(* trusted, for all snapshots, capacities and filters.                     *)
(***************************************************************************)
THEOREM StoresSafe == ASSUME Whole PROVE Spec => []StoresAgree
<1>1. StoreInv => StoresAgree
  BY DEF StoreInv, StoresAgree, FilesInv, FilterInv, CopiesInv
<1> QED BY <1>1, StoreInvariance, PTL

----------------------------------------------------------------------------
(***************************************************************************)
(* The recursive function FlattenSeq is defined by: that there is one,     *)
(* that it is the only one, and what it does with one more sequence.       *)
(***************************************************************************)
Flattens(g, ss) ==
  g = [i \in 1..Len(ss) |-> IF i = 1 THEN ss[i] ELSE g[i-1] \o ss[i]]

LEMMA FlattensOf ==
  ASSUME NEW ss, Len(ss) \in Nat, NEW g, Flattens(g, ss), NEW i \in 1..Len(ss)
  PROVE  g[i] = IF i = 1 THEN ss[i] ELSE g[i-1] \o ss[i]
<1>1. g = [j \in 1..Len(ss) |-> IF j = 1 THEN ss[j] ELSE g[j-1] \o ss[j]] BY DEF Flattens
<1> DEFINE F == [j \in 1..Len(ss) |-> IF j = 1 THEN ss[j] ELSE g[j-1] \o ss[j]]
<1>2. F[i] = IF i = 1 THEN ss[i] ELSE g[i-1] \o ss[i] OBVIOUS
<1>3. g = F BY <1>1
<1> HIDE DEF F
<1> QED BY <1>2, <1>3

LEMMA FlattensExists ==
  ASSUME NEW S, NEW ss \in Seq(Seq(S))
  PROVE  \E g : Flattens(g, ss)
<1>0. Len(ss) \in Nat OBVIOUS
<1> DEFINE P(n) == \E g : g = [i \in 1..n |-> IF i = 1 THEN ss[i] ELSE g[i-1] \o ss[i]]
           T == {n \in 0..Len(ss) : ~P(n)}
<1>1. T = {}
  <2> SUFFICES ASSUME T # {} PROVE FALSE OBVIOUS
  <2>1. T \subseteq Nat
    <3> HIDE DEF P
    <3> QED BY <1>0
  <2>2. PICK n \in T : \A k \in T : n <= k
    <3> HIDE DEF T
    <3> QED BY <2>1, SmallestNat
  <2>3. n \in 0..Len(ss) /\ ~P(n) OBVIOUS
  <2>4. CASE n = 0
    <3>1. <<>> = [i \in 1..n |-> IF i = 1 THEN ss[i] ELSE <<>>[i-1] \o ss[i]]
      BY <2>4
    <3>2. P(n) BY <3>1
    <3> QED BY <2>3, <3>2
  <2>5. CASE n # 0
    <3>1. n - 1 \in 0..Len(ss) /\ ~(n <= n - 1) BY <1>0, <2>3, <2>5
    <3>2. P(n - 1) BY <2>2, <3>1
    <3>3. PICK g : g = [i \in 1..(n-1) |-> IF i = 1 THEN ss[i] ELSE g[i-1] \o ss[i]]
      BY <3>2
    <3> DEFINE h == [i \in 1..n |-> IF i < n THEN g[i]
                                    ELSE IF i = 1 THEN ss[i] ELSE g[i-1] \o ss[i]]
               F == [i \in 1..(n-1) |-> IF i = 1 THEN ss[i] ELSE g[i-1] \o ss[i]]
               H == [i \in 1..n |-> IF i = 1 THEN ss[i] ELSE h[i-1] \o ss[i]]
    <3>4. ASSUME NEW i \in 1..n
          PROVE  h[i] = IF i = 1 THEN ss[i] ELSE h[i-1] \o ss[i]
      <4>1. i # 1 => h[i-1] = g[i-1]
        <5>1. i # 1 => i - 1 \in 1..n /\ i - 1 < n BY <1>0, <2>3
        <5> QED BY <5>1
      <4>2. CASE i < n
        <5>1. i \in 1..(n-1) BY <1>0, <2>3, <4>2
        <5>2. F[i] = IF i = 1 THEN ss[i] ELSE g[i-1] \o ss[i] BY <5>1
        <5>3. g = F BY <3>3
        <5>4. h[i] = g[i] BY <4>2
        <5> HIDE DEF F, h
        <5> QED BY <4>1, <5>2, <5>3, <5>4
      <4>3. CASE ~(i < n)
        <5>1. h[i] = IF i = 1 THEN ss[i] ELSE g[i-1] \o ss[i] BY <4>3
        <5> HIDE DEF h
        <5> QED BY <4>1, <5>1
      <4> QED BY <4>2, <4>3
    <3>5. h = H
      <4>1. DOMAIN h = 1..n /\ DOMAIN H = 1..n OBVIOUS
      <4>2. \A i \in 1..n : h[i] = H[i]
        <5> SUFFICES ASSUME NEW i \in 1..n PROVE h[i] = H[i] OBVIOUS
        <5>1. H[i] = IF i = 1 THEN ss[i] ELSE h[i-1] \o ss[i] OBVIOUS
        <5> HIDE DEF h, H
        <5> QED BY <3>4, <5>1
      <4>3. h = [i \in DOMAIN h |-> h[i]] /\ H = [i \in DOMAIN H |-> H[i]] OBVIOUS
      <4> HIDE DEF h, H
      <4> QED BY <4>1, <4>2, <4>3
    <3>6. P(n)
      <4> HIDE DEF h
      <4> QED BY <3>5
    <3> QED BY <2>3, <3>6
  <2> QED BY <2>4, <2>5
<1>2. P(Len(ss))
  <2>1. Len(ss) \in 0..Len(ss) BY <1>0
  <2> QED BY <1>1, <2>1
<1> QED BY <1>2 DEF Flattens

LEMMA FlattensPrefix ==
  ASSUME NEW S, NEW ss \in Seq(Seq(S)), NEW uu \in Seq(Seq(S)), Len(ss) <= Len(uu),
         \A i \in 1..Len(ss) : ss[i] = uu[i],
         NEW g, Flattens(g, ss), NEW h, Flattens(h, uu)
  PROVE  \A i \in 1..Len(ss) : g[i] = h[i] /\ g[i] \in Seq(S)
<1>0. Len(ss) \in Nat /\ Len(uu) \in Nat OBVIOUS
<1> DEFINE T == {i \in 1..Len(ss) : ~(g[i] = h[i] /\ g[i] \in Seq(S))}
<1>1. T = {}
  <2> SUFFICES ASSUME T # {} PROVE FALSE OBVIOUS
  <2>1. T \subseteq Nat BY <1>0
  <2>2. PICK n \in T : \A k \in T : n <= k
    <3> HIDE DEF T
    <3> QED BY <2>1, SmallestNat
  <2>3. /\ n \in 1..Len(ss) /\ n \in 1..Len(uu) /\ ss[n] = uu[n] /\ ss[n] \in Seq(S)
        /\ ~(g[n] = h[n] /\ g[n] \in Seq(S))
    BY <1>0
  <2>4. /\ g[n] = IF n = 1 THEN ss[n] ELSE g[n-1] \o ss[n]
        /\ h[n] = IF n = 1 THEN uu[n] ELSE h[n-1] \o uu[n]
    BY <1>0, <2>3, FlattensOf
  <2>5. CASE n = 1 BY <2>3, <2>4, <2>5
  <2>6. CASE n # 1
    <3>1. n - 1 \in 1..Len(ss) /\ ~(n <= n - 1) BY <1>0, <2>3, <2>6
    <3>2. g[n-1] = h[n-1] /\ g[n-1] \in Seq(S) BY <2>2, <3>1
    <3>3. g[n-1] \o ss[n] \in Seq(S) BY <2>3, <3>2, ConcatProperties
    <3> QED BY <2>3, <2>4, <2>6, <3>2, <3>3
  <2> QED BY <2>5, <2>6
<1> QED BY <1>1

LEMMA FlattenSeqBy ==
  ASSUME NEW S, NEW ss \in Seq(Seq(S)), Len(ss) # 0
  PROVE  \E g : Flattens(g, ss) /\ FlattenSeq(ss) = g[Len(ss)]
<1> DEFINE g == CHOOSE g : g = [i \in 1..Len(ss) |-> IF i = 1 THEN ss[i] ELSE g[i-1] \o ss[i]]
<1>1. Flattens(g, ss)
  BY FlattensExists DEF Flattens
<1>2. FlattenSeq(ss) = g[Len(ss)] BY DEF FlattenSeq
<1> QED BY <1>1, <1>2

LEMMA FlattenSeqAppend ==
  ASSUME NEW S, NEW ss \in Seq(Seq(S)), NEW t \in Seq(S)
  PROVE  /\ FlattenSeq(ss) \in Seq(S)
         /\ FlattenSeq(Append(ss, t)) = FlattenSeq(ss) \o t
<1> DEFINE uu == Append(ss, t)
           n == Len(ss)
<1>0. n \in Nat OBVIOUS
<1>1. /\ uu \in Seq(Seq(S)) /\ Len(uu) = n + 1 /\ uu[n + 1] = t
      /\ \A i \in 1..n : ss[i] = uu[i]
  BY AppendProperties
<1> HIDE DEF uu
<1>2. PICK h : Flattens(h, uu) /\ FlattenSeq(uu) = h[n + 1]
  <2>1. Len(uu) # 0 BY <1>0, <1>1
  <2>2. \E h : Flattens(h, uu) /\ FlattenSeq(uu) = h[Len(uu)] BY <1>1, <2>1, FlattenSeqBy
  <2> QED BY <1>1, <2>2
<1>3. h[n + 1] = IF n + 1 = 1 THEN t ELSE h[n] \o t
  <2>1. n + 1 \in 1..Len(uu) /\ Len(uu) \in Nat /\ (n + 1) - 1 = n BY <1>0, <1>1
  <2> HIDE DEF n
  <2>2. h[n + 1] = IF n + 1 = 1 THEN uu[n + 1] ELSE h[(n + 1) - 1] \o uu[n + 1]
    BY <1>2, <2>1, FlattensOf
  <2> QED BY <1>1, <2>1, <2>2
<1>4. CASE n = 0
  <2>1. ss = <<>> BY <1>4
  <2>2. FlattenSeq(ss) = <<>> BY <2>1 DEF FlattenSeq
  <2>3. FlattenSeq(uu) = t BY <1>2, <1>3, <1>4
  <2> QED BY <2>2, <2>3, ConcatEmptySeq DEF uu
<1>5. CASE n # 0
  <2>1. PICK g : Flattens(g, ss) /\ FlattenSeq(ss) = g[n] BY <1>5, FlattenSeqBy
  <2>2. n \in 1..n /\ n <= Len(uu) BY <1>0, <1>1, <1>5
  <2>3. g[n] = h[n] /\ g[n] \in Seq(S)
    BY <1>1, <1>2, <2>1, <2>2, FlattensPrefix
  <2>4. FlattenSeq(uu) = g[n] \o t BY <1>0, <1>2, <1>3, <1>5, <2>3
  <2> QED BY <2>1, <2>3, <2>4 DEF uu
<1> QED BY <1>4, <1>5

----------------------------------------------------------------------------
(***************************************************************************)
(* The containers as a sequence of sequences.                              *)
(***************************************************************************)
Blocks == [i \in 1..Cardinality(DOMAIN files) |-> files[i - 1]]

LEMMA BlocksType ==
  ASSUME TypeOK, NEW n \in Nat, DOMAIN files = 0..(n - 1)
  PROVE  /\ Cardinality(DOMAIN files) = n
         /\ Blocks \in Seq(Seq(Fp)) /\ Len(Blocks) = n
         /\ \A i \in 1..n : Blocks[i] = files[i - 1]
<1>1. Cardinality(DOMAIN files) = n
  <2>1. Cardinality(0..(n - 1)) = IF 0 > n - 1 THEN 0 ELSE (n - 1) - 0 + 1
    BY FS_Interval
  <2> QED BY <2>1
<1>2. \A i \in 1..n : files[i - 1] \in Seq(Fp) BY DEF TypeOK
<1>3. Blocks = [i \in 1..n |-> files[i - 1]] BY <1>1 DEF Blocks
<1>4. [i \in 1..n |-> files[i - 1]] \in Seq(Seq(Fp)) BY <1>2, IsASeq
<1>5. Len([i \in 1..n |-> files[i - 1]]) = n OBVIOUS
<1> QED BY <1>1, <1>3, <1>4, <1>5

LEMMA BlocksTyped ==
  ASSUME StoreInv
  PROVE  Blocks \in Seq(Seq(Fp))
<1>0. Inv /\ FilesInv BY DEF StoreInv
<1> DEFINE m == IF Off THEN mainfest ELSE now_id
<1>1. DOMAIN files = 0..(m - 1) BY <1>0 DEF FilesInv
<1>2. m \in Nat \cup {-1, -2} BY <1>0 DEF Inv, TypeOK, Absent, Torn
<1> HIDE DEF m
<1>3. \E n \in Nat : DOMAIN files = 0..(n - 1)
  <2>1. CASE m \in Nat BY <1>1, <2>1
  <2>2. CASE m \notin Nat
    <3>1. 0..(m - 1) = {} /\ 0..(0 - 1) = {} BY <1>2, <2>2
    <3> QED BY <1>1, <3>1
  <2> QED BY <2>1, <2>2
<1> QED BY <1>0, <1>3, BlocksType DEF Inv

LEMMA ContainersGrow ==
  ASSUME StoreInv, Push
  PROVE  Containers' = Append(Containers, hash)
<1>1. UNCHANGED files /\ tmp' = Append(tmp, hash) /\ hash \in Chunk
  BY DEF Push, insert, StoreInv, Inv, Inserting
<1>2. tmp \in Seq(Fp) /\ hash \in Fp
  BY <1>1, DdfsAssumption, ElementOfSeq DEF StoreInv, Inv, TypeOK
<1> DEFINE b == FlattenSeq(Blocks)
<1>3. b \in Seq(Fp) BY <1>2, BlocksTyped, FlattenSeqAppend
<1>4. Containers = b \o tmp BY DEF Containers, Blocks
<1>5. Containers' = b \o Append(tmp, hash) BY <1>1 DEF Containers, Blocks
<1> HIDE DEF b
<1>6. <<hash>> \in Seq(Fp) BY <1>2
<1>7. (b \o tmp) \o <<hash>> = b \o (tmp \o <<hash>>) BY <1>2, <1>3, <1>6, ConcatAssociative
<1>8. b \o tmp \in Seq(Fp) BY <1>2, <1>3, ConcatProperties
<1>9. /\ Append(b \o tmp, hash) = (b \o tmp) \o <<hash>>
      /\ Append(tmp, hash) = tmp \o <<hash>>
  BY <1>2, <1>8, AppendIsConcat
<1> QED BY <1>4, <1>5, <1>7, <1>9

LEMMA ContainersFlushed ==
  ASSUME Whole, StoreInv, WriteContainer
  PROVE  Containers' = Containers
<1>0. Inv /\ TypeOK' BY StepInv DEF StoreInv, Inv, Next, Step
<1>1. /\ now_id \in Nat /\ tmp \in Seq(Chunk) /\ tmp \in Seq(Fp)
  BY <1>0, DdfsAssumption, ElementOfSeq DEF Inv, TypeOK
<1>2. PICK t \in Images(tmp) : files' = Put(files, now_id, t)
  BY DEF WriteContainer
<1>3. t = tmp BY <1>1, <1>2, WholeImages
<1>4. DOMAIN files = 0..(now_id - 1) /\ tmp' = <<>>
  BY DEF StoreInv, FilesInv, WriteContainer, Off
<1> DEFINE n == now_id
<1>5. /\ DOMAIN files' = 0..((n + 1) - 1) /\ files'[n] = tmp
      /\ \A i \in 0..(n - 1) : files'[i] = files[i]
  BY <1>1, <1>2, <1>3, <1>4 DEF Put
<1> HIDE DEF n
<1>6. /\ Blocks \in Seq(Seq(Fp)) /\ Len(Blocks) = n
      /\ \A i \in 1..n : Blocks[i] = files[i - 1]
  BY <1>0, <1>1, <1>4, BlocksType DEF Inv, n
<1>7. n \in Nat /\ n + 1 \in Nat BY <1>1 DEF n
<1>8. Cardinality(DOMAIN files') = n + 1
  <2>1. Cardinality(0..((n + 1) - 1)) = IF 0 > (n + 1) - 1 THEN 0 ELSE ((n + 1) - 1) - 0 + 1
    BY <1>7, FS_Interval
  <2> QED BY <1>5, <1>7, <2>1
<1>9. Blocks' = [i \in 1..(n + 1) |-> files'[i - 1]] BY <1>8 DEF Blocks
<1> DEFINE B == Blocks
           u == Append(B, tmp)
<1>10. B \in Seq(Seq(Fp)) /\ Len(B) = n /\ \A i \in 1..n : B[i] = files[i - 1] BY <1>6
<1> HIDE DEF B
<1>11. /\ u \in Seq(Seq(Fp)) /\ Len(u) = n + 1 /\ u[n + 1] = tmp
       /\ \A i \in 1..n : u[i] = B[i]
  BY <1>1, <1>10, AppendProperties
<1>12. u = [i \in 1..(n + 1) |-> u[i]] 
  <2> HIDE DEF u
  <2> QED BY <1>11
<1> HIDE DEF u
<1>13. \A i \in 1..(n + 1) : u[i] = files'[i - 1]
  <2> SUFFICES ASSUME NEW i \in 1..(n + 1) PROVE u[i] = files'[i - 1] OBVIOUS
  <2>1. CASE i = n + 1 BY <1>5, <1>7, <1>11, <2>1
  <2>2. CASE i # n + 1
    <3>1. i \in 1..n /\ i - 1 \in 0..(n - 1) BY <1>7, <2>2
    <3> QED BY <1>5, <1>10, <1>11, <3>1
  <2> QED BY <2>1, <2>2
<1>14. Blocks' = u BY <1>9, <1>12, <1>13
<1>15. FlattenSeq(B) \in Seq(Fp) /\ FlattenSeq(u) = FlattenSeq(B) \o tmp
  BY <1>1, <1>10, FlattenSeqAppend DEF u
<1>16. Containers = FlattenSeq(B) \o tmp BY DEF Containers, Blocks, B
<1>17. Containers' = FlattenSeq(u) \o <<>> BY <1>4, <1>14 DEF Containers, Blocks
<1>18. FlattenSeq(u) \in Seq(Fp) BY <1>1, <1>15, ConcatProperties
<1> QED BY <1>15, <1>16, <1>17, <1>18, ConcatEmptySeq

(***************************************************************************)
(* What a step does to the abstract store.                                 *)
(***************************************************************************)
LEMMA AbstractSteps ==
  ASSUME Inv, FilesInv, [Step]_vars
  PROVE  \/ UNCHANGED <<files, tmp>> /\ UNCHANGED <<cur, acked>>
         \/ UNCHANGED <<files, tmp>> /\ (sys_ini \/ output_conf)
         \/ UNCHANGED <<files, tmp>> /\ \E f \in Chunk : CacheHit(f) \/ IndexHit(f)
         \/ Push \/ WriteContainer
BY DEF Step, vars, disk, cmr, hist, CreateMainfest, sys_ini, CacheHit, IndexHit, BloomMiss,
   IndexMiss, punique, LoadOne, LoadDone, TruncateMainfest,
   WriteMainfest, EndOfFile, bloom_conf_out, output_conf, Exit, FilesInv

LEMMA AbstractStep ==
  Whole /\ StoreInv /\ [Step]_vars => [Abstract!Next]_<<Containers, acked \cup cur>>
<1> SUFFICES ASSUME Whole, StoreInv, [Step]_vars
             PROVE  [Abstract!Next]_<<Containers, acked \cup cur>>
  OBVIOUS
<1>0. Inv /\ FilesInv /\ FilterInv /\ HistoryInv BY DEF StoreInv
<1>1. UNCHANGED <<files, tmp>> => Containers' = Containers BY DEF Containers
<1>2. CASE UNCHANGED <<files, tmp>> /\ UNCHANGED <<cur, acked>> BY <1>1, <1>2
<1>3. CASE UNCHANGED <<files, tmp>> /\ (sys_ini \/ output_conf)
  BY <1>0, <1>1, <1>3 DEF sys_ini, output_conf, HistoryInv, Off
<1>4. ASSUME UNCHANGED <<files, tmp>>, NEW f \in Chunk, CacheHit(f) \/ IndexHit(f)
      PROVE  UNCHANGED <<Containers, acked \cup cur>>
  <2>1. cur' = cur \cup {f} /\ UNCHANGED acked BY <1>4 DEF CacheHit, IndexHit
  <2>2. f \in acked \cup cur BY <1>0, <1>4, HitIsStored DEF HistoryInv
  <2> QED BY <1>1, <1>4, <2>1, <2>2
<1>5. CASE Push
  <2>1. /\ hash \in Chunk /\ hash \notin acked \cup cur
        /\ cur' = cur \cup {hash} /\ UNCHANGED acked
    BY <1>0, <1>5 DEF Push, insert, Inv, FilterInv, HistoryInv, Inserting
  <2>2. Containers' = Append(Containers, hash) BY <1>5, ContainersGrow
  <2>3. Abstract!Backup(hash) BY <2>1, <2>2 DEF Abstract!Backup
  <2> QED BY <2>1, <2>3 DEF Abstract!Next
<1>6. CASE WriteContainer
  BY <1>6, ContainersFlushed DEF WriteContainer, hist
<1> QED BY <1>0, <1>2, <1>3, <1>4, <1>5, <1>6, AbstractSteps

(***************************************************************************)
(* StoresInLogicalOrder: the prototype implements Dedup for all snapshots, *)
(* capacities, filters and numbers of runs.  Push is Backup of a new       *)
(* chunk, a hit that of a known one, and writing a container changes       *)
(* nothing.                                                                *)
(***************************************************************************)
THEOREM LogicalOrder == ASSUME Whole PROVE Spec => StoresInLogicalOrder
<1>1. Init => Abstract!Init
  <2> SUFFICES ASSUME Init PROVE Abstract!Init OBVIOUS
  <2>1. Cardinality(DOMAIN files) = 0 BY FS_EmptySet DEF Init, EmptyStore
  <2>2. Containers = <<>> BY <2>1 DEF Containers, Init, FlattenSeq
  <2> QED BY <2>2 DEF Abstract!Init, Init
<1>2. StoreInv /\ [Step]_vars => [Abstract!Next]_<<Containers, acked \cup cur>>
  BY AbstractStep
<1> QED BY <1>1, <1>2, StoreInvariance, PTL DEF Spec, StoresInLogicalOrder, Abstract!Spec
=============================================================================
