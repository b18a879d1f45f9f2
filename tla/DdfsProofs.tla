----------------------------- MODULE DdfsProofs -----------------------------
(***************************************************************************)
(* Proofs about the deduplication prototype, for every instance.           *)
(***************************************************************************)
EXTENDS Ddfs, SequenceTheorems, FiniteSetTheorems, WellFoundedInduction, TLAPS

Next == Step \/ Fault \/ Crash

(***************************************************************************)
(* A chunk is being inserted.                                              *)
(***************************************************************************)
Inserting ==
  pc = "push" \/ (pc \in {"container", "mainfest", "number"} /\ ret = "push")

(***************************************************************************)
(* The container counter, on disk and in memory, follows the container     *)
(* files, and no index entry is ahead of it.                               *)
(***************************************************************************)
CounterInv ==
  /\ pc = "off" /\ mainfest # Torn =>
       /\ \A i \in 0..(mainfest - 1) : i \in DOMAIN files
       /\ \A f \in DOMAIN index : index[f] <= mainfest
  /\ pc \notin {"off", "create"} =>
       /\ \A i \in 0..(now_id - 1) : i \in DOMAIN files
       /\ \A f \in DOMAIN index : index[f] <= now_id
  /\ pc = "create" => mainfest = Torn /\ DOMAIN index = {}
  /\ pc = "number" => mainfest = Torn
  /\ pc \notin {"off", "create", "mainfest", "number"} => now_id = mainfest
  /\ pc = "mainfest" =>
       /\ now_id = mainfest + 1 /\ mainfest \in Nat
       /\ \A f \in DOMAIN index : index[f] <= mainfest

Inv ==
  /\ TypeOK
  /\ Inserting => hash \in Chunk
  /\ CounterInv
  /\ LoadNeverFails

----------------------------------------------------------------------------
(***************************************************************************)
(* A set of naturals has a smallest element: what is shown below by        *)
(* induction is shown of a smallest counterexample.                        *)
(***************************************************************************)
LEMMA SmallestNat ==
  ASSUME NEW T, T \subseteq Nat, T # {}
  PROVE  \E x \in T : \A y \in T : x <= y
<1>1. PICK x \in T : \A y \in T : ~(<<y, x>> \in OpToRel(<, Nat))
  BY WFMin, NatLessThanWellFounded, Zenon
<1>2. ASSUME NEW y \in T PROVE x <= y
  <2>1. x \in Nat /\ y \in Nat OBVIOUS
  <2>2. ~(y < x) BY <1>1, <2>1 DEF OpToRel
  <2> QED BY <2>1, <2>2
<1> QED BY <1>2

(***************************************************************************)
(* find takes f for any of its aliases: a relation that is an equivalence. *)
(***************************************************************************)
LEMMA AliasEuclidean ==
  ASSUME NEW f \in Fp, NEW a \in Fp, NEW b \in Fp, Alias(f, a), Alias(f, b)
  PROVE  Alias(a, b)
<1>0. FP_SIZE \in Nat BY FpAssumption
<1>1. ASSUME NEW i \in 1..FP_SIZE, \A j \in 1..(i-1) : a[j] # 0
      PROVE  a[i] = b[i]
  <2> DEFINE T == {j \in 1..(i-1) : f[j] = 0}
  <2>1. T = {}
    <3> SUFFICES ASSUME T # {} PROVE FALSE OBVIOUS
    <3>0. T \subseteq Nat BY <1>0
    <3>1. PICK j \in T : \A k \in T : j <= k
      <4> HIDE DEF T
      <4> QED BY <3>0, SmallestNat
    <3>2. j \in 1..FP_SIZE /\ j \in 1..(i-1) /\ f[j] = 0 BY <1>0
    <3>3. ASSUME NEW k \in 1..(j-1) PROVE f[k] # 0
      <4>1. k \in 1..(i-1) /\ ~(j <= k) BY <3>2, <1>0
      <4>2. k \notin T BY <3>1, <4>1
      <4> QED BY <4>1, <4>2
    <3>4. f[j] = a[j] BY <3>2, <3>3 DEF Alias, StrnEqual
    <3> QED BY <3>2, <3>4, <1>1
  <2>2. \A j \in 1..(i-1) : f[j] # 0 BY <2>1
  <2>3. f[i] = a[i] /\ f[i] = b[i] BY <2>2 DEF Alias, StrnEqual
  <2> QED BY <2>3
<1>2. StrnEqual(a, b) BY <1>1 DEF StrnEqual
<1> QED BY <1>2 DEF Alias

LEMMA AliasReflexive == \A f : Alias(f, f)
BY DEF Alias, StrnEqual

LEMMA AliasSymmetric ==
  ASSUME NEW f \in Fp, NEW a \in Fp, Alias(f, a)
  PROVE  Alias(a, f)
BY AliasEuclidean, AliasReflexive

(***************************************************************************)
(* The operations of the cache: what they keep, where their elements come  *)
(* from, and that entries find would confuse never meet.                   *)
(***************************************************************************)
LEMMA RemoveAtProperties ==
  ASSUME NEW S, NEW s \in Seq(S), NEW i \in 1..Len(s)
  PROVE  /\ RemoveAt(s, i) \in Seq(S)
         /\ Len(RemoveAt(s, i)) = Len(s) - 1
         /\ \A j \in 1..(Len(s) - 1) :
              RemoveAt(s, i)[j] = s[IF j < i THEN j ELSE j + 1]
<1> DEFINE a == SubSeq(s, 1, i - 1)
           b == SubSeq(s, i + 1, Len(s))
<1>0. Len(s) \in Nat BY LenProperties
<1>1. a \in Seq(S) /\ Len(a) = i - 1 /\ \A j \in 1..(i-1) : a[j] = s[j]
  BY <1>0
<1>2. /\ b \in Seq(S) /\ Len(b) = Len(s) - i
      /\ \A j \in 1..(Len(s) - i) : b[j] = s[i + j]
  BY <1>0
<1>3. RemoveAt(s, i) = a \o b BY DEF RemoveAt
<1> HIDE DEF a, b
<1>4. a \o b \in Seq(S) /\ Len(a \o b) = Len(s) - 1
  <2>1. a \o b \in Seq(S) /\ Len(a \o b) = Len(a) + Len(b)
    BY <1>1, <1>2, ConcatProperties
  <2> QED BY <1>0, <1>1, <1>2, <2>1
<1>5. ASSUME NEW j \in 1..(Len(s) - 1)
      PROVE  (a \o b)[j] = s[IF j < i THEN j ELSE j + 1]
  <2>1. CASE j < i BY <1>0, <1>1, <1>2, <2>1
  <2>2. CASE ~(j < i)
    <3>1. (a \o b)[j] = b[j - (i - 1)] BY <1>0, <1>1, <1>2, <2>2
    <3>2. j - (i - 1) \in 1..(Len(s) - i) /\ i + (j - (i - 1)) = j + 1
      BY <1>0, <2>2
    <3> QED BY <1>2, <2>2, <3>1, <3>2
  <2> QED BY <2>1, <2>2
<1> QED BY <1>3, <1>4, <1>5

LEMMA AddProperties ==
  ASSUME NEW S, NEW s \in Seq(S), NEW f \in S
  PROVE  /\ add_node_to_head(s, f) \in Seq(S)
         /\ Len(add_node_to_head(s, f)) \in 1..(Len(s) + 1)
         /\ Len(s) <= LRU_SIZE => Len(add_node_to_head(s, f)) <= LRU_SIZE
         /\ add_node_to_head(s, f)[1] = f
         /\ \A i \in 2..Len(add_node_to_head(s, f)) :
              add_node_to_head(s, f)[i] = s[i - 1]
<1>0. LRU_SIZE \in Nat \ {0} /\ Len(s) \in Nat BY LruAssumption
<1>1. CASE Len(s) < LRU_SIZE BY <1>0, <1>1 DEF add_node_to_head
<1>2. CASE ~(Len(s) < LRU_SIZE)
  <2> DEFINE t == Front(s)
  <2>1. /\ t \in Seq(S) /\ Len(t) = Len(s) - 1
        /\ \A i \in 1..(Len(s) - 1) : t[i] = s[i]
    <3> DEFINE n == Len(s) - 1
    <3>1. n \in Nat /\ \A i \in 1..n : s[i] \in S BY <1>0, <1>2
    <3>2. t = SubSeq(s, 1, n) BY DEF Front
    <3> HIDE DEF n, t
    <3>3. t \in Seq(S) /\ Len(t) = n /\ \A i \in 1..n : t[i] = s[i]
      BY <3>1, <3>2, SubSeqProperties
    <3> QED BY <3>3 DEF n
  <2>2. add_node_to_head(s, f) = <<f>> \o t BY <1>2 DEF add_node_to_head
  <2> HIDE DEF t
  <2>3. /\ <<f>> \o t \in Seq(S) /\ Len(<<f>> \o t) = Len(s)
        /\ (<<f>> \o t)[1] = f
        /\ \A i \in 2..Len(s) : (<<f>> \o t)[i] = t[i - 1]
    BY <1>0, <1>2, <2>1
  <2> QED BY <1>0, <1>2, <2>1, <2>2, <2>3
<1> QED BY <1>1, <1>2

LEMMA InitConfProperties ==
  ASSUME NEW S, NEW s \in Seq(S)
  PROVE  /\ init_conf(s) \in Seq(S)
         /\ Len(init_conf(s)) <= LRU_SIZE /\ Len(init_conf(s)) <= Len(s)
         /\ \A i \in 1..Len(init_conf(s)) : init_conf(s)[i] = s[Len(s) + 1 - i]
<1>0. LRU_SIZE \in Nat \ {0} /\ Len(s) \in Nat BY LruAssumption
<1>1. /\ Reverse(s) \in Seq(S) /\ Len(Reverse(s)) = Len(s)
      /\ \A i \in 1..Len(s) : Reverse(s)[i] = s[Len(s) + 1 - i]
  BY IsASeq, ElementOfSeq, LenProperties DEF Reverse
<1> DEFINE n == IF Len(s) < LRU_SIZE THEN Len(s) ELSE LRU_SIZE
<1>2. n \in Nat /\ n <= Len(s) /\ n <= LRU_SIZE BY <1>0
<1>3. init_conf(s) = SubSeq(Reverse(s), 1, n) BY DEF init_conf
<1> HIDE DEF n
<1>4. /\ SubSeq(Reverse(s), 1, n) \in Seq(S) /\ Len(SubSeq(Reverse(s), 1, n)) = n
      /\ \A i \in 1..n : SubSeq(Reverse(s), 1, n)[i] = Reverse(s)[i]
  BY <1>0, <1>1, <1>2, SubSeqProperties
<1> QED BY <1>0, <1>1, <1>2, <1>3, <1>4

(***************************************************************************)
(* No two entries of the cache that find would confuse.                    *)
(***************************************************************************)
Distinct(s) == \A i, j \in 1..Len(s) : Alias(s[i], s[j]) => i = j

LEMMA AddDistinct ==
  ASSUME NEW s \in Seq(Fp), NEW f \in Fp, Distinct(s), ~Cached(s, f)
  PROVE  Distinct(add_node_to_head(s, f))
<1> DEFINE r == add_node_to_head(s, f)
<1>1. /\ r \in Seq(Fp) /\ Len(r) \in 1..(Len(s) + 1) /\ r[1] = f
      /\ \A i \in 2..Len(r) : r[i] = s[i - 1]
  BY AddProperties
<1>2. Len(s) \in Nat OBVIOUS
<1> HIDE DEF r
<1>3. ASSUME NEW i \in 2..Len(r) PROVE ~Alias(f, r[i])
  <2>1. i - 1 \in 1..Len(s) /\ r[i] = s[i - 1] BY <1>1, <1>2
  <2> QED BY <2>1 DEF Cached
<1>4. ASSUME NEW i \in 1..Len(r), NEW j \in 1..Len(r), Alias(r[i], r[j]) PROVE i = j
  <2>1. r[i] \in Fp /\ r[j] \in Fp BY <1>1, <1>2
  <2>2. CASE i = 1 BY <1>1, <1>2, <1>3, <1>4, <2>2
  <2>3. CASE j = 1 BY <1>1, <1>2, <1>3, <1>4, <2>1, <2>3, AliasSymmetric
  <2>4. CASE i # 1 /\ j # 1
    <3>1. i - 1 \in 1..Len(s) /\ j - 1 \in 1..Len(s) BY <1>1, <1>2, <2>4
    <3>2. r[i] = s[i - 1] /\ r[j] = s[j - 1] BY <1>1, <1>2, <2>4
    <3>3. i - 1 = j - 1 BY <1>4, <3>1, <3>2 DEF Distinct
    <3> QED BY <1>2, <3>3
  <2> QED BY <2>2, <2>3, <2>4
<1> QED BY <1>4 DEF Distinct, r

LEMMA TouchProperties ==
  ASSUME NEW s \in Seq(Fp), NEW f \in Fp, Cached(s, f)
  PROVE  /\ Touch(s, f) \in Seq(Fp)
         /\ Len(s) <= LRU_SIZE => Len(Touch(s, f)) <= LRU_SIZE
         /\ \A i \in 1..Len(Touch(s, f)) :
              Touch(s, f)[i] = f \/ \E j \in 1..Len(s) : Touch(s, f)[i] = s[j]
         /\ Distinct(s) => Distinct(Touch(s, f))
<1> DEFINE k == CHOOSE i \in 1..Len(s) : Alias(f, s[i])
           t == RemoveAt(s, k)
<1>1. k \in 1..Len(s) /\ Alias(f, s[k]) BY DEF Cached
<1>2. Touch(s, f) = add_node_to_head(t, f) BY DEF Touch
<1> HIDE DEF k
<1>3. /\ t \in Seq(Fp) /\ Len(t) = Len(s) - 1
      /\ \A j \in 1..(Len(s) - 1) : t[j] = s[IF j < k THEN j ELSE j + 1]
  BY <1>1, RemoveAtProperties
<1>4. Len(s) \in Nat OBVIOUS
<1> HIDE DEF t
<1>5. /\ Touch(s, f) \in Seq(Fp)
      /\ Len(Touch(s, f)) \in 1..(Len(t) + 1)
      /\ Len(t) <= LRU_SIZE => Len(Touch(s, f)) <= LRU_SIZE
      /\ Touch(s, f)[1] = f
      /\ \A i \in 2..Len(Touch(s, f)) : Touch(s, f)[i] = t[i - 1]
  <2>1. t \in Seq(Fp) BY <1>3
  <2>2. LRU_SIZE \in Nat BY LruAssumption
  <2>3. /\ add_node_to_head(t, f) \in Seq(Fp)
        /\ Len(add_node_to_head(t, f)) \in 1..(Len(t) + 1)
        /\ Len(t) <= LRU_SIZE => Len(add_node_to_head(t, f)) <= LRU_SIZE
        /\ add_node_to_head(t, f)[1] = f
        /\ \A i \in 2..Len(add_node_to_head(t, f)) :
             add_node_to_head(t, f)[i] = t[i - 1]
    BY <2>1, <2>2, AddProperties
  <2> QED BY <1>2, <2>3
<1>a. Len(s) <= LRU_SIZE => Len(Touch(s, f)) <= LRU_SIZE
  BY <1>3, <1>4, <1>5, LruAssumption
<1>b. ASSUME NEW i \in 1..Len(Touch(s, f))
      PROVE  Touch(s, f)[i] = f \/ \E j \in 1..Len(s) : Touch(s, f)[i] = s[j]
  <2>1. CASE i = 1 BY <1>5, <2>1
  <2>2. CASE i # 1
    <3>1. i - 1 \in 1..(Len(s) - 1) /\ Touch(s, f)[i] = t[i - 1]
      BY <1>3, <1>4, <1>5, <2>2
    <3> QED BY <1>1, <1>3, <1>4, <3>1
  <2> QED BY <2>1, <2>2
<1>c. ASSUME Distinct(s) PROVE Distinct(Touch(s, f))
  <2> DEFINE At(j) == IF j < k THEN j ELSE j + 1
  <2>1. ASSUME NEW j \in 1..Len(t)
        PROVE  /\ At(j) \in 1..Len(s) /\ At(j) # k /\ t[j] = s[At(j)]
               /\ s[At(j)] \in Fp
    BY <1>1, <1>3, <1>4
  <2>2. ASSUME NEW i \in 1..Len(t), NEW j \in 1..Len(t), At(i) = At(j) PROVE i = j
    BY <1>1, <1>3, <1>4, <2>2
  <2> HIDE DEF At
  <2>3. Distinct(t)
    <3>1. ASSUME NEW i \in 1..Len(t), NEW j \in 1..Len(t), Alias(t[i], t[j])
          PROVE  i = j
      <4>1. At(i) = At(j) BY <1>c, <2>1, <3>1 DEF Distinct
      <4> QED BY <2>2, <4>1
    <3> QED BY <3>1 DEF Distinct
  <2>4. ~Cached(t, f)
    <3> SUFFICES ASSUME NEW j \in 1..Len(t), Alias(f, t[j]) PROVE FALSE
      BY DEF Cached
    <3>1. Alias(s[k], s[At(j)])
      <4>1. s[k] \in Fp BY <1>1
      <4> QED BY <1>1, <2>1, <4>1, AliasEuclidean
    <3> QED BY <1>1, <1>c, <2>1, <3>1 DEF Distinct
  <2> QED BY <1>2, <1>3, <2>3, <2>4, AddDistinct
<1> QED BY <1>5, <1>a, <1>b, <1>c

LEMMA PutdataProperties ==
  ASSUME NEW s \in Seq(Fp), NEW f \in Fp
  PROVE  /\ putdata(s, f) \in Seq(Fp)
         /\ Len(s) <= LRU_SIZE => Len(putdata(s, f)) <= LRU_SIZE
         /\ \A i \in 1..Len(putdata(s, f)) :
              putdata(s, f)[i] = f \/ \E j \in 1..Len(s) : putdata(s, f)[i] = s[j]
         /\ Distinct(s) => Distinct(putdata(s, f))
<1>0. LRU_SIZE \in Nat /\ Len(s) \in Nat BY LruAssumption
<1>1. CASE Cached(s, f)
  <2>1. putdata(s, f) = Touch(s, f) BY <1>1 DEF putdata
  <2> QED BY <1>0, <1>1, <2>1, TouchProperties
<1>2. CASE ~Cached(s, f)
  <2> DEFINE r == add_node_to_head(s, f)
  <2>1. putdata(s, f) = r BY <1>2 DEF putdata
  <2>2. /\ r \in Seq(Fp) /\ Len(r) \in 1..(Len(s) + 1)
        /\ Len(s) <= LRU_SIZE => Len(r) <= LRU_SIZE
        /\ r[1] = f /\ \A i \in 2..Len(r) : r[i] = s[i - 1]
    BY <1>0, AddProperties
  <2>3. Distinct(s) => Distinct(r) BY <1>2, AddDistinct
  <2> HIDE DEF r
  <2>4. \A i \in 1..Len(r) : i = 1 \/ (i \in 2..Len(r) /\ i - 1 \in 1..Len(s))
    BY <1>0, <2>2
  <2>5. \A i \in 1..Len(r) : r[i] = f \/ \E j \in 1..Len(s) : r[i] = s[j]
    BY <2>2, <2>4
  <2> QED BY <2>1, <2>2, <2>3, <2>5
<1> QED BY <1>1, <1>2

LEMMA EmptyDistinct == Distinct(<<>>)
BY DEF Distinct

LEMMA PrefixDistinct ==
  ASSUME NEW s \in Seq(Fp), Distinct(s), NEW k \in 0..Len(s)
  PROVE  Distinct(SubSeq(s, 1, k))
<1>1. /\ Len(SubSeq(s, 1, k)) = k
      /\ \A i \in 1..k : i \in 1..Len(s) /\ SubSeq(s, 1, k)[i] = s[i]
  BY LenProperties
<1> QED BY <1>1 DEF Distinct

LEMMA InitConfDistinct ==
  ASSUME NEW s \in Seq(Fp), Distinct(s)
  PROVE  Distinct(init_conf(s))
<1> DEFINE r == init_conf(s)
<1>0. r \in Seq(Fp) /\ Len(r) <= Len(s)
      /\ \A i \in 1..Len(r) : r[i] = s[Len(s) + 1 - i]
  BY InitConfProperties
<1> HIDE DEF r
<1>1. Len(s) \in Nat /\ Len(r) \in Nat BY <1>0
<1>2. ASSUME NEW i \in 1..Len(r), NEW j \in 1..Len(r), Alias(r[i], r[j])
      PROVE  i = j
  <2>1. /\ Len(s) + 1 - i \in 1..Len(s) /\ r[i] = s[Len(s) + 1 - i]
        /\ Len(s) + 1 - j \in 1..Len(s) /\ r[j] = s[Len(s) + 1 - j]
    BY <1>0, <1>1
  <2>2. Len(s) + 1 - i = Len(s) + 1 - j BY <1>2, <2>1 DEF Distinct
  <2> QED BY <1>1, <2>2
<1> QED BY <1>2 DEF Distinct, r

----------------------------------------------------------------------------
LEMMA ImagesType ==
  ASSUME NEW s \in Seq(Chunk), NEW t \in Images(s)
  PROVE  t \in Seq(Fp) /\ Len(t) = Len(s)
BY LenProperties, IsASeq DEF Images

LEMMA TornImagesType ==
  ASSUME NEW s \in Seq(Chunk), NEW t \in TornImages(s)
  PROVE  t \in Seq(Fp)
<1>1. PICK k \in 0..(Len(s) - 1) :
        t \in Images(SubSeq(s, 1, k)) \cup
             {Append(u, g) : u \in Images(SubSeq(s, 1, k)), g \in Fp}
  BY DEF TornImages
<1>2. SubSeq(s, 1, k) \in Seq(Chunk) BY SubSeqProperties, LenProperties
<1>3. CASE t \in Images(SubSeq(s, 1, k)) BY <1>2, <1>3, ImagesType
<1>4. ASSUME NEW u \in Images(SubSeq(s, 1, k)), NEW g \in Fp, t = Append(u, g)
      PROVE  t \in Seq(Fp)
  BY <1>2, <1>4, ImagesType, AppendProperties
<1> QED BY <1>1, <1>3, <1>4

LEMMA InitInv == Init => Inv
<1> SUFFICES ASSUME Init PROVE Inv OBVIOUS
<1>1. TypeOK BY DEF Init, TypeOK, EmptyStore, Absent
<1> QED BY <1>1 DEF Init, Inv, Inserting, CounterInv, LoadNeverFails, EmptyStore,
                    Absent, Torn

LEMMA StepInv == Inv /\ [Next]_vars => Inv'
<1> SUFFICES ASSUME Inv, [Next]_vars PROVE Inv' OBVIOUS
<1> USE DEF Inv, Inserting, LoadNeverFails, disk, cmr, stat, env, hist
<1>1. CASE sys_ini
  <2>1. TypeOK' BY <1>1, InitConfProperties DEF TypeOK, sys_ini, init, bloom_init_conf, CounterInv, Absent, Torn
  <2>2. CounterInv' BY <1>1 DEF CounterInv, TypeOK, Absent, Torn, sys_ini, init
  <2>3. (Inserting => hash \in Chunk)' BY <1>1 DEF TypeOK, sys_ini, init, bloom_init_conf, CounterInv, Absent, Torn
  <2>4. LoadNeverFails' BY <1>1 DEF TypeOK, sys_ini, CounterInv, Absent, Torn
  <2> QED BY <2>1, <2>2, <2>3, <2>4
<1>2. ASSUME NEW f \in Chunk, CacheHit(f)
      PROVE  Inv'
  <2>1. TypeOK' BY <1>2, TouchProperties, DdfsAssumption DEF TypeOK, CacheHit, NextLine
  <2>2. CounterInv' BY <1>2 DEF CounterInv, TypeOK, Absent, Torn, CacheHit, NextLine
  <2>3. (Inserting => hash \in Chunk)' BY <1>2 DEF TypeOK, CacheHit, NextLine
  <2>4. LoadNeverFails' BY <1>2 DEF TypeOK, CacheHit, NextLine, CounterInv, Absent, Torn
  <2> QED BY <2>1, <2>2, <2>3, <2>4
<1>3. ASSUME NEW f \in Chunk, IndexHit(f)
      PROVE  Inv'
  <2>1. TypeOK' BY <1>3, ElementOfSeq, DdfsAssumption DEF TypeOK, IndexHit, NextLine, CounterInv, Absent, Torn
  <2>2. CounterInv' BY <1>3 DEF CounterInv, TypeOK, Absent, Torn, IndexHit, NextLine
  <2>3. (Inserting => hash \in Chunk)' BY <1>3 DEF TypeOK, IndexHit, NextLine, CounterInv, Absent, Torn
  <2>4. LoadNeverFails' BY <1>3 DEF TypeOK, IndexHit, NextLine, CounterInv, CounterInv, Absent, Torn
  <2> QED BY <2>1, <2>2, <2>3, <2>4
<1>4. ASSUME NEW f \in Chunk, NEW n \in Sizes, BloomMiss(f, n)
      PROVE  Inv'
  <2>1. TypeOK' BY <1>4, DdfsAssumption DEF TypeOK, BloomMiss, punique, bloom_add, pocessw, NextLine
  <2>2. CounterInv' BY <1>4 DEF CounterInv, TypeOK, Absent, Torn, BloomMiss, punique, bloom_add, pocessw, NextLine
  <2>3. (Inserting => hash \in Chunk)' BY <1>4 DEF TypeOK, BloomMiss, punique, bloom_add, pocessw, NextLine
  <2>4. LoadNeverFails' BY <1>4 DEF TypeOK, BloomMiss, punique, bloom_add, pocessw, NextLine, CounterInv, Absent, Torn
  <2> QED BY <2>1, <2>2, <2>3, <2>4
<1>5. ASSUME NEW f \in Chunk, NEW n \in Sizes, IndexMiss(f, n)
      PROVE  Inv'
  <2>1. TypeOK' BY <1>5, DdfsAssumption DEF TypeOK, IndexMiss, punique, bloom_add, pocessw, NextLine
  <2>2. CounterInv' BY <1>5 DEF CounterInv, TypeOK, Absent, Torn, IndexMiss, punique, bloom_add, pocessw, NextLine
  <2>3. (Inserting => hash \in Chunk)' BY <1>5 DEF TypeOK, IndexMiss, punique, bloom_add, pocessw, NextLine
  <2>4. LoadNeverFails' BY <1>5 DEF TypeOK, IndexMiss, punique, bloom_add, pocessw, NextLine, CounterInv, Absent, Torn
  <2> QED BY <2>1, <2>2, <2>3, <2>4
<1>6. CASE LoadOne
  <2>0. Head(conti) \in Fp /\ Tail(conti) \in Seq(Fp)
    BY <1>6, HeadTailProperties DEF TypeOK, LoadOne
  <2>a. LPC' \in Seq(Fp) BY <1>6, <2>0, PutdataProperties DEF TypeOK, LoadOne
  <2>1. TypeOK' BY <1>6, <2>0, <2>a DEF TypeOK, LoadOne
  <2>2. CounterInv' BY <1>6 DEF CounterInv, LoadOne
  <2>3. (Inserting => hash \in Chunk)' BY <1>6 DEF LoadOne
  <2>4. LoadNeverFails' BY <1>6 DEF LoadOne
  <2> QED BY <2>1, <2>2, <2>3, <2>4
<1>7. CASE LoadDone
  <2>1. TypeOK' BY <1>7 DEF TypeOK, LoadDone
  <2>2. CounterInv' BY <1>7 DEF CounterInv, TypeOK, Absent, Torn, LoadDone
  <2>3. (Inserting => hash \in Chunk)' BY <1>7 DEF TypeOK, LoadDone
  <2>4. LoadNeverFails' BY <1>7 DEF TypeOK, LoadDone, CounterInv, Absent, Torn
  <2> QED BY <2>1, <2>2, <2>3, <2>4
<1>8. CASE Push
  <2>0. /\ DOMAIN index' = DOMAIN index \cup {hash}
        /\ \A x \in DOMAIN index' :
             index'[x] = IF x \in DOMAIN index THEN index[x] ELSE now_id
    BY <1>8 DEF Push, FPI_insert, Put
  <2>a. hash \in Chunk /\ tmp' \in Seq(Chunk)
    BY <1>8, AppendProperties DEF TypeOK, Push, insert
  <2>b. DOMAIN index' \subseteq Chunk /\ \A x \in DOMAIN index' : index'[x] \in Nat
    BY <2>0, <2>a DEF TypeOK
  <2>1. TypeOK'
    <3>1. hash' \in Chunk \cup {NoFp} BY <1>8 DEF Push, insert
    <3> QED BY <1>8, <2>a, <2>b, <3>1 DEF TypeOK, Push, insert
  <2>2. CounterInv'
    <3>1. now_id = mainfest BY <1>8 DEF CounterInv, Push
    <3> QED BY <1>8, <2>0, <3>1 DEF CounterInv, TypeOK, Push, insert
  <2>3. (Inserting => hash \in Chunk)' BY <1>8 DEF Push, insert
  <2>4. LoadNeverFails' BY <1>8 DEF Push, insert
  <2> QED BY <2>1, <2>2, <2>3, <2>4
<1>9. CASE WriteContainer
  <2>0. PICK t \in Images(tmp) : files' = Put(files, now_id, t)
    BY <1>9 DEF WriteContainer
  <2>a. /\ DOMAIN files' = DOMAIN files \cup {now_id}
        /\ \A i \in DOMAIN files' :
             files'[i] = IF i = now_id THEN t ELSE files[i]
    BY <2>0 DEF Put
  <2>b. t \in Seq(Fp) BY ImagesType DEF TypeOK
  <2>c. DOMAIN files' \subseteq Nat /\ \A i \in DOMAIN files' : files'[i] \in Seq(Fp)
    BY <2>a, <2>b DEF TypeOK
  <2>1. TypeOK' BY <1>9, <2>c DEF TypeOK, WriteContainer
  <2>2. CounterInv'
    <3>1. now_id = mainfest BY <1>9 DEF CounterInv, WriteContainer
    <3> QED BY <1>9, <2>a, <3>1 DEF CounterInv, TypeOK, WriteContainer
  <2>3. (Inserting => hash \in Chunk)' BY <1>9 DEF WriteContainer
  <2>4. LoadNeverFails' BY <1>9 DEF WriteContainer
  <2> QED BY <2>1, <2>2, <2>3, <2>4
<1>10. CASE WriteMainfest
  <2>1. TypeOK' BY <1>10 DEF TypeOK, WriteMainfest, NewNumber
  <2>2. CounterInv' BY <1>10 DEF CounterInv, TypeOK, Absent, Torn, WriteMainfest, NewNumber
  <2>3. (Inserting => hash \in Chunk)' BY <1>10 DEF TypeOK, WriteMainfest, NewNumber
  <2>4. LoadNeverFails' BY <1>10 DEF TypeOK, WriteMainfest, NewNumber, CounterInv, Absent, Torn
  <2> QED BY <2>1, <2>2, <2>3, <2>4
<1>11. CASE EndOfFile
  <2>1. TypeOK' BY <1>11 DEF TypeOK, EndOfFile, pocessw
  <2>2. CounterInv' BY <1>11 DEF CounterInv, TypeOK, Absent, Torn, EndOfFile, pocessw
  <2>3. (Inserting => hash \in Chunk)' BY <1>11 DEF TypeOK, EndOfFile, pocessw
  <2>4. LoadNeverFails' BY <1>11 DEF TypeOK, EndOfFile, pocessw, CounterInv, Absent, Torn
  <2> QED BY <2>1, <2>2, <2>3, <2>4
<1>12. CASE bloom_conf_out
  <2>1. TypeOK' BY <1>12 DEF TypeOK, bloom_conf_out
  <2>2. CounterInv' BY <1>12 DEF CounterInv, TypeOK, Absent, Torn, bloom_conf_out
  <2>3. (Inserting => hash \in Chunk)' BY <1>12 DEF TypeOK, bloom_conf_out
  <2>4. LoadNeverFails' BY <1>12 DEF TypeOK, bloom_conf_out, CounterInv, Absent, Torn
  <2> QED BY <2>1, <2>2, <2>3, <2>4
<1>13. CASE output_conf
  <2>1. TypeOK' BY <1>13 DEF TypeOK, output_conf, Exit
  <2>2. CounterInv' BY <1>13 DEF CounterInv, TypeOK, Absent, Torn, output_conf, Exit
  <2>3. (Inserting => hash \in Chunk)' BY <1>13 DEF TypeOK, output_conf, Exit
  <2>4. LoadNeverFails' BY <1>13 DEF TypeOK, output_conf, Exit, CounterInv, Absent, Torn
  <2> QED BY <2>1, <2>2, <2>3, <2>4
<1>14. ASSUME NEW f \in Chunk, NEW n \in Sizes, GetFails(f, n)
      PROVE  Inv'
  <2>1. TypeOK' BY <1>14, DdfsAssumption DEF TypeOK, GetFails, punique, bloom_add, pocessw, NextLine
  <2>2. CounterInv' BY <1>14 DEF CounterInv, TypeOK, Absent, Torn, GetFails, punique, bloom_add, pocessw, NextLine
  <2>3. (Inserting => hash \in Chunk)' BY <1>14 DEF TypeOK, GetFails, punique, bloom_add, pocessw, NextLine
  <2>4. LoadNeverFails' BY <1>14 DEF TypeOK, GetFails, punique, bloom_add, pocessw, NextLine, CounterInv, Absent, Torn
  <2> QED BY <2>1, <2>2, <2>3, <2>4
<1>15. CASE PutFails
  <2>1. TypeOK' BY <1>15, AppendProperties DEF TypeOK, PutFails, insert
  <2>2. CounterInv' BY <1>15 DEF CounterInv, TypeOK, Absent, Torn, PutFails, insert
  <2>3. (Inserting => hash \in Chunk)' BY <1>15 DEF TypeOK, PutFails, insert
  <2>4. LoadNeverFails' BY <1>15 DEF TypeOK, PutFails, insert, CounterInv, Absent, Torn
  <2> QED BY <2>1, <2>2, <2>3, <2>4
<1>16. CASE Kill
  <2>1. TypeOK' BY <1>16 DEF TypeOK, Kill, Killed, Exit
  <2>2. CounterInv' BY <1>16 DEF CounterInv, TypeOK, Absent, Torn, Kill, Killed, Exit
  <2>3. (Inserting => hash \in Chunk)' BY <1>16 DEF TypeOK, Kill, Killed, Exit
  <2>4. LoadNeverFails' BY <1>16 DEF TypeOK, Kill, Killed, Exit, CounterInv, Absent, Torn
  <2> QED BY <2>1, <2>2, <2>3, <2>4
<1>17. CASE KillInContainer
  <2>0. PICK t \in TornImages(tmp) : files' = Put(files, now_id, t)
    BY <1>17 DEF KillInContainer
  <2>a. /\ DOMAIN files' = DOMAIN files \cup {now_id}
        /\ \A i \in DOMAIN files' :
             files'[i] = IF i = now_id THEN t ELSE files[i]
    BY <2>0 DEF Put
  <2>b. t \in Seq(Fp) BY TornImagesType DEF TypeOK
  <2>c. DOMAIN files' \subseteq Nat /\ \A i \in DOMAIN files' : files'[i] \in Seq(Fp)
    BY <2>a, <2>b DEF TypeOK
  <2>1. TypeOK' BY <1>17, <2>c, SMTT(60) DEF TypeOK, KillInContainer, Killed, Exit
  <2>2. CounterInv'
    <3>1. now_id = mainfest BY <1>17 DEF CounterInv, KillInContainer
    <3> QED BY <1>17, <2>a, <3>1 DEF CounterInv, TypeOK, KillInContainer, Killed, Exit
  <2>3. (Inserting => hash \in Chunk)' BY <1>17 DEF KillInContainer, Killed, Exit
  <2>4. LoadNeverFails' BY <1>17 DEF KillInContainer, Killed, Exit
  <2> QED BY <2>1, <2>2, <2>3, <2>4
<1>18. CASE TruncateMainfest
  <2>1. TypeOK' BY <1>18 DEF TypeOK, TruncateMainfest, Absent, Torn
  <2>2. CounterInv' BY <1>18 DEF CounterInv, TypeOK, Absent, Torn, TruncateMainfest
  <2>3. (Inserting => hash \in Chunk)' BY <1>18 DEF TypeOK, TruncateMainfest, Absent, Torn
  <2>4. LoadNeverFails' BY <1>18 DEF TypeOK, TruncateMainfest, CounterInv, Absent, Torn
  <2> QED BY <2>1, <2>2, <2>3, <2>4
<1>19. CASE KillInBloom
  <2>1. TypeOK' BY <1>19 DEF TypeOK, KillInBloom, Killed, Exit
  <2>2. CounterInv' BY <1>19 DEF CounterInv, TypeOK, Absent, Torn, KillInBloom, Killed, Exit
  <2>3. (Inserting => hash \in Chunk)' BY <1>19 DEF TypeOK, KillInBloom, Killed, Exit
  <2>4. LoadNeverFails' BY <1>19 DEF TypeOK, KillInBloom, Killed, Exit, CounterInv, Absent, Torn
  <2> QED BY <2>1, <2>2, <2>3, <2>4
<1>20. CASE KillInLpc
  <2>a. lcpConf' \in Seq(Fp)
    <3>1. PICK k \in 0..Len(LPC) : lcpConf' = SubSeq(LPC, 1, k)
      BY <1>20 DEF KillInLpc
    <3>2. LPC \in Seq(Fp) BY DEF TypeOK
    <3>3. k \in Int /\ \A i \in 1..k : LPC[i] \in Fp BY <3>2
    <3> QED BY <3>1, <3>3, SubSeqProperties
  <2>1. TypeOK' BY <1>20, <2>a DEF TypeOK, KillInLpc, Killed, Exit
  <2>2. CounterInv' BY <1>20 DEF CounterInv, TypeOK, Absent, Torn, KillInLpc, Killed, Exit
  <2>3. (Inserting => hash \in Chunk)' BY <1>20 DEF TypeOK, KillInLpc, Killed, Exit
  <2>4. LoadNeverFails' BY <1>20 DEF TypeOK, KillInLpc, Killed, Exit, CounterInv, Absent, Torn
  <2> QED BY <2>1, <2>2, <2>3, <2>4
<1>21. CASE CreateMainfest
  <2>1. TypeOK' BY <1>21 DEF TypeOK, CreateMainfest, Absent, Torn
  <2>2. CounterInv'
    <3>1. \A f \in DOMAIN index : index[f] \in Nat /\ index[f] <= -1
      BY <1>21 DEF CounterInv, TypeOK, Absent, Torn, CreateMainfest
    <3>a. ASSUME NEW f \in DOMAIN index PROVE FALSE
      <4>1. index[f] \in Nat /\ index[f] <= -1 BY <3>1
      <4> QED BY <4>1
    <3>2. DOMAIN index = {} BY <3>a
    <3> QED BY <1>21, <3>2 DEF CounterInv, Absent, Torn, CreateMainfest
  <2>3. (Inserting => hash \in Chunk)' BY <1>21 DEF TypeOK, CreateMainfest, Absent, Torn
  <2>4. LoadNeverFails' BY <1>21 DEF TypeOK, CreateMainfest, CounterInv, Absent, Torn
  <2> QED BY <2>1, <2>2, <2>3, <2>4
<1>22. CASE InsertGetFails
  <2>0. /\ DOMAIN index' = DOMAIN index
        /\ \A x \in DOMAIN index' :
             index'[x] = IF x = hash THEN now_id ELSE index[x]
    BY <1>22 DEF InsertGetFails, Put
  <2>a. hash \in Chunk /\ tmp' \in Seq(Chunk)
    BY <1>22, AppendProperties DEF TypeOK, InsertGetFails, insert
  <2>b. DOMAIN index' \subseteq Chunk /\ \A x \in DOMAIN index' : index'[x] \in Nat
    BY <2>0, <2>a DEF TypeOK
  <2>1. TypeOK'
    <3>1. hash' \in Chunk \cup {NoFp} BY <1>22 DEF InsertGetFails, insert
    <3>2. /\ pc' = "read" /\ size' = 0 /\ cur' = cur \cup {hash}
          /\ now_size' = now_size + size /\ update_access' = update_access + 1
          /\ faults' = faults + 1
          /\ UNCHANGED <<files, mainfest, bloomConf, lcpConf, ret, bf, LPC, now_id,
                         conti, index_access, loading_access, lines, runs, acked>>
      BY <1>22 DEF InsertGetFails, insert
    <3> QED BY <2>a, <2>b, <3>1, <3>2 DEF TypeOK
  <2>2. CounterInv'
    <3>1. now_id = mainfest BY <1>22 DEF CounterInv, InsertGetFails
    <3>2. /\ pc = "push" /\ pc' = "read"
          /\ now_id' = now_id /\ mainfest' = mainfest /\ files' = files
      BY <1>22 DEF InsertGetFails, insert
    <3>3. \A x \in DOMAIN index : index[x] <= now_id
      BY <3>2 DEF CounterInv
    <3>4. \A x \in DOMAIN index' : index'[x] <= now_id
      <4>1. now_id \in Nat BY DEF TypeOK
      <4>2. ASSUME NEW x \in DOMAIN index' PROVE index'[x] <= now_id
        <5>1. CASE x = hash BY <2>0, <4>1, <5>1
        <5>2. CASE x # hash BY <2>0, <3>3, <5>2
        <5> QED BY <5>1, <5>2
      <4> QED BY <4>2
    <3> QED BY <3>1, <3>2, <3>4 DEF CounterInv
  <2>3. (Inserting => hash \in Chunk)' BY <1>22 DEF InsertGetFails, insert
  <2>4. LoadNeverFails' BY <1>22 DEF InsertGetFails, insert
  <2> QED BY <2>1, <2>2, <2>3, <2>4
<1>23. CASE UNCHANGED vars
  <2>1. TypeOK' BY <1>23 DEF TypeOK, vars
  <2>2. CounterInv' BY <1>23 DEF CounterInv, TypeOK, Absent, Torn, vars
  <2>3. (Inserting => hash \in Chunk)' BY <1>23 DEF TypeOK, vars
  <2>4. LoadNeverFails' BY <1>23 DEF TypeOK, vars, CounterInv, Absent, Torn
  <2> QED BY <2>1, <2>2, <2>3, <2>4
<1> QED
  BY <1>1, <1>2, <1>3, <1>4, <1>5, <1>6, <1>7, <1>8, <1>9, <1>10, <1>11, <1>12, <1>13, <1>14, <1>15, <1>16, <1>17, <1>18, <1>19, <1>20, <1>21,
     <1>22, <1>23
  DEF Next, Step, Fault, Crash

(***************************************************************************)
(* The invariant holds in every reachable state, with faults and kills.    *)
(***************************************************************************)
THEOREM Invariance == FaultySpec => []Inv
BY InitInv, StepInv, PTL DEF FaultySpec, Next

(***************************************************************************)
(* The variables keep their types.                                         *)
(***************************************************************************)
THEOREM TypeCorrect == FaultySpec => []TypeOK
<1>1. Inv => TypeOK BY DEF Inv
<1> QED BY <1>1, Invariance, PTL

(***************************************************************************)
(* read_hashes never exits with "load failed", for all snapshots, sizes    *)
(* and capacities, wherever the process is killed and leveldb fails.       *)
(***************************************************************************)
THEOREM LoadSafe == FaultySpec => []LoadNeverFails
<1>1. Inv => LoadNeverFails BY DEF Inv
<1> QED BY <1>1, Invariance, PTL

----------------------------------------------------------------------------
Keeps ==
  \A i \in DOMAIN files :
    i < mainfest => i \in DOMAIN files' /\ files'[i] = files[i]

LEMMA StepKeeps == Inv /\ [Next]_vars => Keeps
<1> SUFFICES ASSUME Inv, [Next]_vars PROVE Keeps OBVIOUS
<1>1. CASE UNCHANGED files BY <1>1 DEF Keeps
<1>2. ASSUME pc = "container", NEW t, files' = Put(files, now_id, t)
      PROVE  Keeps
  <2>1. now_id = mainfest BY <1>2 DEF Inv, CounterInv
  <2>2. \A i \in DOMAIN files : i < mainfest => i # mainfest
    BY <2>1 DEF Inv, TypeOK
  <2> QED BY <1>2, <2>1, <2>2 DEF Keeps, Put
<1>3. CASE WriteContainer BY <1>2, <1>3 DEF WriteContainer
<1>4. CASE KillInContainer BY <1>2, <1>4 DEF KillInContainer
<1>5. CASE Step /\ ~WriteContainer
  BY <1>1, <1>5 DEF Step, disk, CreateMainfest, sys_ini, CacheHit, IndexHit,
     BloomMiss, IndexMiss, punique, LoadOne, LoadDone, Push, insert,
     TruncateMainfest, WriteMainfest, EndOfFile, bloom_conf_out, output_conf
<1>6. CASE Fault
  BY <1>1, <1>6 DEF Fault, disk, PutFails, InsertGetFails, GetFails, punique, insert
<1>7. CASE Crash /\ ~KillInContainer
  BY <1>1, <1>7 DEF Crash, Kill, KillInBloom, KillInLpc
<1>8. CASE UNCHANGED vars BY <1>1, <1>8 DEF vars, disk
<1> QED BY <1>3, <1>4, <1>5, <1>6, <1>7, <1>8 DEF Next

(***************************************************************************)
(* Containers below the number in MAINFEST are never rewritten, with       *)
(* kills and failing leveldb calls.                                        *)
(***************************************************************************)
THEOREM CommittedSafe == FaultySpec => CommittedImmutable
<1>1. Inv /\ [Next]_vars => [Keeps]_vars BY StepKeeps
<1> QED BY <1>1, Invariance, PTL DEF FaultySpec, Next, CommittedImmutable, Keeps

----------------------------------------------------------------------------
(***************************************************************************)
(* The cache is within its limit, and neither it nor its saved form has    *)
(* two entries that find would confuse.                                    *)
(***************************************************************************)
CacheInv ==
  /\ Len(LPC) <= LRU_SIZE
  /\ Distinct(LPC)
  /\ Distinct(lcpConf)

(***************************************************************************)
(* The container being filled: now_size is what tmp holds, and a chunk is  *)
(* pushed only where it fits or into an empty container.                   *)
(***************************************************************************)
FillInv ==
  /\ tmp = <<>> => now_size = 0
  /\ pc \in {"mainfest", "number"} => tmp = <<>>
  /\ pc = "push" => now_size + size <= MAX_SIZE \/ tmp = <<>>
  /\ now_size > MAX_SIZE => Len(tmp) = 1

(***************************************************************************)
(* The steps that change the cache, in memory or as saved.                 *)
(***************************************************************************)
LEMMA CacheSteps ==
  ASSUME [Next]_vars
  PROVE  \/ UNCHANGED <<LPC, lcpConf>>
         \/ sys_ini \/ (\E f \in Chunk : CacheHit(f)) \/ LoadOne
         \/ lcpConf' \in {LPC, lcpConf} /\ LPC' = <<>>
         \/ KillInLpc
BY DEF Next, Step, Fault, Crash, vars, disk, CreateMainfest, IndexHit, BloomMiss,
   IndexMiss, punique, LoadDone, Push, insert, WriteContainer, TruncateMainfest,
   WriteMainfest, EndOfFile, bloom_conf_out, output_conf, Exit, GetFails, PutFails,
   InsertGetFails, Kill, Killed, KillInContainer, KillInBloom

LEMMA CacheInvStep == Inv /\ CacheInv /\ [Next]_vars => CacheInv'
<1> SUFFICES ASSUME Inv, CacheInv, [Next]_vars PROVE CacheInv' OBVIOUS
<1> USE DEF CacheInv
<1>0. LPC \in Seq(Fp) /\ lcpConf \in Seq(Fp) /\ LRU_SIZE \in Nat
  BY LruAssumption DEF Inv, TypeOK
<1>1. CASE UNCHANGED <<LPC, lcpConf>> BY <1>1
<1>2. CASE sys_ini
  BY <1>0, <1>2, InitConfProperties, InitConfDistinct DEF sys_ini
<1>3. ASSUME NEW f \in Chunk, CacheHit(f) PROVE CacheInv'
  <2>1. f \in Fp /\ Cached(LPC, f) /\ LPC' = Touch(LPC, f) /\ lcpConf' = lcpConf
    BY <1>3, DdfsAssumption DEF CacheHit, disk
  <2> QED BY <1>0, <2>1, TouchProperties
<1>4. CASE LoadOne
  <2>1. Head(conti) \in Fp /\ LPC' = putdata(LPC, Head(conti)) /\ lcpConf' = lcpConf
    BY <1>4, HeadTailProperties DEF LoadOne, disk, Inv, TypeOK
  <2> QED BY <1>0, <2>1, PutdataProperties
<1>5. CASE lcpConf' \in {LPC, lcpConf} /\ LPC' = <<>>
  BY <1>0, <1>5, EmptyDistinct
<1>6. CASE KillInLpc
  <2>1. PICK k \in 0..Len(LPC) : lcpConf' = SubSeq(LPC, 1, k)
    BY <1>6 DEF KillInLpc
  <2>2. LPC' = <<>> BY <1>6 DEF KillInLpc, Killed, Exit
  <2> QED BY <1>0, <2>1, <2>2, EmptyDistinct, PrefixDistinct
<1> QED BY <1>1, <1>2, <1>3, <1>4, <1>5, <1>6, CacheSteps

(***************************************************************************)
(* The steps that change the container being filled, or go on to one that  *)
(* does.                                                                   *)
(***************************************************************************)
LEMMA FillSteps ==
  ASSUME [Next]_vars
  PROVE  \/ UNCHANGED <<tmp, now_size, size>> /\ pc' \notin {"push", "mainfest", "number"}
         \/ UNCHANGED <<tmp, now_size, pc, size>>
         \/ tmp' = <<>> /\ now_size' = 0
         \/ \E f \in Chunk, n \in Sizes : punique(f, n)
         \/ pc = "push" /\ insert
         \/ TruncateMainfest \/ WriteMainfest
BY DEF Next, Step, Fault, Crash, vars, cmr, CreateMainfest, sys_ini, CacheHit,
   NextLine, IndexHit, BloomMiss, IndexMiss, LoadOne, LoadDone, Push,
   WriteContainer, EndOfFile, pocessw, bloom_conf_out, output_conf, Exit, GetFails,
   PutFails, InsertGetFails, Kill, Killed, KillInContainer, KillInBloom, KillInLpc

LEMMA FillInvStep == Inv /\ FillInv /\ [Next]_vars => FillInv'
<1> SUFFICES ASSUME Inv, FillInv, [Next]_vars PROVE FillInv' OBVIOUS
<1> USE DEF FillInv
<1>0. /\ now_size \in Nat /\ size \in Nat /\ tmp \in Seq(Chunk) /\ MAX_SIZE \in Nat
      /\ Sizes \subseteq Nat /\ ret \in {"push", "bloom"}
  BY DdfsAssumption DEF Inv, TypeOK
<1>1. CASE UNCHANGED <<tmp, now_size, size>> /\ pc' \notin {"push", "mainfest", "number"}
  BY <1>1
<1>2. CASE UNCHANGED <<tmp, now_size, pc, size>> BY <1>2
<1>3. CASE tmp' = <<>> /\ now_size' = 0 BY <1>0, <1>3
<1>4. ASSUME NEW f \in Chunk, NEW n \in Sizes, punique(f, n) PROVE FillInv'
  BY <1>0, <1>4 DEF punique, pocessw, Full, cmr
<1>5. CASE pc = "push" /\ insert
  <2>1. /\ tmp' = Append(tmp, hash) /\ now_size' = now_size + size /\ pc' = "read"
        /\ Len(tmp') = Len(tmp) + 1 /\ tmp' # <<>>
    BY <1>0, <1>5 DEF insert
  <2>2. tmp = <<>> => Len(tmp) = 0 OBVIOUS
  <2> QED BY <1>0, <1>5, <2>1, <2>2
<1>6. CASE TruncateMainfest BY <1>6 DEF TruncateMainfest, cmr
<1>7. CASE WriteMainfest BY <1>0, <1>7 DEF WriteMainfest, cmr
<1> QED BY <1>1, <1>2, <1>3, <1>4, <1>5, <1>6, <1>7, FillSteps

(***************************************************************************)
(* LimitsKept for all capacities, snapshots and hash functions: the cache  *)
(* holds at most LRU_SIZE entries that find tells apart, and a container   *)
(* goes beyond MAX_SIZE only for one chunk, whatever the killed runs       *)
(* before left.                                                            *)
(***************************************************************************)
THEOREM LimitsSafe == FaultySpec => []LimitsKept
<1>1. Init => CacheInv /\ FillInv
  BY EmptyDistinct, LruAssumption, DdfsAssumption DEF Init, CacheInv, FillInv
<1>2. CacheInv /\ FillInv => LimitsKept BY DEF CacheInv, FillInv, LimitsKept, Distinct
<1> QED BY <1>1, <1>2, CacheInvStep, FillInvStep, Invariance, PTL DEF FaultySpec, Next

----------------------------------------------------------------------------
(***************************************************************************)
(* Without faults the filter, in memory or as saved, covers the index, and *)
(* a chunk on its way into a container is in the filter and not yet in the *)
(* index.                                                                  *)
(***************************************************************************)
FilterInv ==
  /\ BloomCovers
  /\ pc = "lpc" => bloomConf = bf
  /\ Inserting => hash \notin DOMAIN index /\ Positions(hash) \subseteq bf

(***************************************************************************)
(* A step that concerns neither filter nor index.                          *)
(***************************************************************************)
FilterKept ==
  /\ UNCHANGED <<index, bf, bloomConf>>
  /\ pc' \in {"off", "create"} <=> pc \in {"off", "create"}
  /\ pc' # "lpc" \/ pc' = pc
  /\ Inserting' => Inserting /\ hash' = hash

LEMMA FilterSteps ==
  ASSUME Inv, [Step]_vars
  PROVE  \/ FilterKept
         \/ sys_ini \/ Push \/ bloom_conf_out \/ output_conf
         \/ \E f \in Chunk, n \in Sizes : BloomMiss(f, n) \/ IndexMiss(f, n)
<1> USE DEF disk, cmr, Inserting, FilterKept
<1>1. CASE UNCHANGED vars BY <1>1 DEF vars
<1>2. ASSUME NEW f \in Chunk, CacheHit(f) \/ IndexHit(f)
      PROVE  FilterKept
  BY <1>2 DEF CacheHit, IndexHit, NextLine
<1>3. CASE CreateMainfest BY <1>3 DEF CreateMainfest
<1>4. CASE LoadOne \/ LoadDone BY <1>4 DEF LoadOne, LoadDone
<1>5. CASE WriteContainer BY <1>5 DEF WriteContainer
<1>6. CASE TruncateMainfest BY <1>6 DEF TruncateMainfest
<1>7. CASE WriteMainfest BY <1>7 DEF WriteMainfest, Inv, TypeOK
<1>8. CASE EndOfFile BY <1>8 DEF EndOfFile, pocessw
<1> QED BY <1>1, <1>2, <1>3, <1>4, <1>5, <1>6, <1>7, <1>8 DEF Step

LEMMA FilterInvStep == Inv /\ FilterInv /\ [Step]_vars => FilterInv'
<1> SUFFICES ASSUME Inv, FilterInv, [Step]_vars PROVE FilterInv' OBVIOUS
<1> USE DEF FilterInv, Inserting, BloomCovers
<1>1. CASE FilterKept
  BY <1>1 DEF FilterKept
<1>2. CASE sys_ini BY <1>2 DEF sys_ini, bloom_init_conf
<1>3. CASE Push BY <1>3 DEF Push, insert, FPI_insert, Put
<1>4. CASE bloom_conf_out BY <1>4 DEF bloom_conf_out
<1>5. CASE output_conf BY <1>5 DEF output_conf, Exit
<1>6. ASSUME NEW f \in Chunk, NEW n \in Sizes, BloomMiss(f, n) \/ IndexMiss(f, n)
      PROVE  FilterInv'
  <2>1. pc = "read" /\ f \notin DOMAIN index
    BY <1>6 DEF BloomMiss, IndexMiss, NextLine, bloom_check
  <2>2. /\ pc' \in {"push", "container"} /\ hash' = f /\ bf' = bf \cup Positions(f)
        /\ index' = index
    BY <1>6 DEF BloomMiss, IndexMiss, punique, pocessw, bloom_add, disk
  <2> QED BY <2>1, <2>2
<1> QED BY <1>1, <1>2, <1>3, <1>4, <1>5, <1>6, FilterSteps

LEMMA FaultFree == Spec => FaultySpec
<1>1. [Step]_vars => [Step \/ Fault \/ Crash]_vars OBVIOUS
<1> QED BY <1>1, PTL DEF Spec, FaultySpec

LEMMA FilterInvariance == Spec => [](Inv /\ FilterInv)
<1>1. Init => FilterInv
  BY DEF Init, FilterInv, BloomCovers, Inserting, EmptyStore
<1> QED BY <1>1, FilterInvStep, Invariance, FaultFree, PTL DEF Spec

(***************************************************************************)
(* UniqueIsNew: without faults punique is called for new chunks only, for  *)
(* every filter, however many of its answers are false positives.          *)
(***************************************************************************)
THEOREM UniqueSafe == Spec => []UniqueIsNew
<1>1. FilterInv => UniqueIsNew BY DEF FilterInv, UniqueIsNew, Inserting
<1> QED BY <1>1, FilterInvariance, PTL
=============================================================================
