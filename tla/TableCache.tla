------------------------------ MODULE TableCache ----------------------------
(***************************************************************************)
(* leveldb's cache (util/cache.cc) and the cache of open tables over it    *)
(* (db/table_cache.cc), used by several threads.  A shard is a list in LRU *)
(* order, a hash table with chains, and reference counts: the cache holds  *)
(* one reference of an entry, every handle given out another.  FindTable   *)
(* looks up and inserts under the shard's mutex but opens the file between *)
(* the two without it.                                                     *)
(***************************************************************************)
EXTENDS Integers, FiniteSets, SequencesExt

CONSTANTS
  NULL, Thread,
  Number,        \* file numbers, the keys
  Hash(_),       \* the hash of a key
  kNumShards,    \* 16
  Capacity,      \* entries: every table is charged 1
  MinLength      \* the smallest length of a hash table, 4

VARIABLES
  shard,    \* [0..kNumShards-1 -> a shard]
  thread    \* what each thread does: idle, opening a file, or holding a handle

vars == <<shard, thread>>

Handle == 1..(Cardinality(Number) + Cardinality(Thread))
Shard(n) == Hash(n) % kNumShards
PerShard == (Capacity + (kNumShards - 1)) \div kNumShards

----------------------------------------------------------------------------
(***************************************************************************)
(* HandleTable: chains of handles; s.key gives the key of a handle.        *)
(***************************************************************************)
Bucket(s, n) == (Hash(n) % Len(s.list)) + 1
FindPointer(s, n) ==   \* the place of n in its chain, 0 if it is not there
  SelectInSeq(s.list[Bucket(s, n)], LAMBDA h : s.key[h] = n)
Table_Lookup(s, n) ==
  IF FindPointer(s, n) = 0 THEN NULL ELSE s.list[Bucket(s, n)][FindPointer(s, n)]

NewLength(elems) ==
  CHOOSE l \in {MinLength * 2 ^ i : i \in 0..elems} :
    /\ l >= elems
    /\ l = MinLength \/ l \div 2 < elems

\* Every chain is walked and each handle put before those of its new bucket.
Resize(s) ==
  LET all == FlattenSeq(s.list)
      length == NewLength(s.elems)
  IN  [s EXCEPT !.list = [b \in 1..length |->
         Reverse(SelectSeq(all, LAMBDA h : (Hash(s.key[h]) % length) + 1 = b))]]

\* A handle of the same key is replaced in its place.
Table_Insert(s, h) ==
  LET b == Bucket(s, s.key[h])
      i == FindPointer(s, s.key[h])
      t == [s EXCEPT !.list[b] = Append(@, h), !.elems = @ + 1]
  IN  IF i # 0 THEN [s EXCEPT !.list[b][i] = h]
      ELSE IF t.elems > Len(t.list) THEN Resize(t) ELSE t

Table_Remove(s, n) ==
  IF FindPointer(s, n) = 0 THEN s
  ELSE [s EXCEPT !.list[Bucket(s, n)] = RemoveAt(@, FindPointer(s, n)),
                 !.elems = @ - 1]

----------------------------------------------------------------------------
(***************************************************************************)
(* LRUCache.  A handle with no references is freed and its table closed.   *)
(***************************************************************************)
LRU_Remove(s, h) == [s EXCEPT !.lru = SelectSeq(@, LAMBDA g : g # h)]
LRU_Append(s, h) == [s EXCEPT !.lru = Append(@, h)]

Unref(s, h) ==
  IF s.refs[h] > 1 THEN [s EXCEPT !.refs[h] = @ - 1]
  ELSE [s EXCEPT !.refs[h] = 0, !.usage = @ - 1, !.live = @ \ {h},
                 !.key[h] = NULL]

Lookup_unpinned(s, h) == LRU_Append(LRU_Remove(s, h), h)   \* faulty: no reference
Lookup(s, h) == LRU_Append(LRU_Remove([s EXCEPT !.refs[h] = @ + 1], h), h)

Erase(s, n) ==
  LET h == Table_Lookup(s, n)
  IN  IF h = NULL THEN s ELSE Unref(LRU_Remove(Table_Remove(s, n), h), h)

\* The oldest entries leave, also those whose handles are in use.
Trim(s) ==
  FoldLeft(LAMBDA t, h : IF t.usage <= PerShard THEN t ELSE Erase(t, t.key[h]),
           s, s.lru)

Insert(s, h, n) ==
  LET new == LRU_Append([s EXCEPT !.live = @ \cup {h}, !.key[h] = n,
                                  !.refs[h] = 2, !.usage = @ + 1], h)
      old == Table_Lookup(new, n)
      put == Table_Insert(new, h)
  IN  Trim(IF old = NULL THEN put ELSE Unref(LRU_Remove(put, old), old))

Prune_once(s, h) ==
  IF s.refs[h] = 1 THEN Unref(LRU_Remove(Table_Remove(s, s.key[h]), h), h) ELSE s
PruneShard(s) == FoldLeft(Prune_once, s, s.lru)

----------------------------------------------------------------------------
Idle == [state |-> "idle", number |-> NULL, handle |-> NULL]
EmptyShard ==
  [lru |-> <<>>, list |-> [b \in 1..MinLength |-> <<>>], elems |-> 0, usage |-> 0,
   live |-> {}, key |-> [h \in Handle |-> NULL], refs |-> [h \in Handle |-> 0]]

Init ==
  /\ shard = [i \in 0..(kNumShards - 1) |-> EmptyShard]
  /\ thread = [t \in Thread |-> Idle]

\* TableCache::FindTable, up to the result of Lookup.
FindTable(t, n) ==
  /\ thread[t] = Idle
  /\ LET s == shard[Shard(n)]
         h == Table_Lookup(s, n)
     IN  IF h = NULL
         THEN /\ thread' = [thread EXCEPT ![t] = [Idle EXCEPT !.state = "opening",
                                                              !.number = n]]
              /\ UNCHANGED shard
         ELSE /\ thread' = [thread EXCEPT ![t] = [state |-> "holding", number |-> n,
                                                  handle |-> h]]
              /\ shard' = [shard EXCEPT ![Shard(n)] = Lookup(s, h)]

\* The table is open and is inserted, or it could not be opened.
OpenTable(t) ==
  /\ thread[t].state = "opening"
  /\ LET n == thread[t].number
         s == shard[Shard(n)]
         h == CHOOSE x \in Handle : x \notin s.live
     IN  \/ /\ shard' = [shard EXCEPT ![Shard(n)] = Insert(s, h, n)]
            /\ thread' = [thread EXCEPT ![t] = [@ EXCEPT !.state = "holding",
                                                         !.handle = h]]
         \/ thread' = [thread EXCEPT ![t] = Idle] /\ UNCHANGED shard

\* The end of TableCache::Get, or of the iterator of NewIterator.
Release(t) ==
  /\ thread[t].state = "holding"
  /\ LET i == Shard(thread[t].number)
     IN  shard' = [shard EXCEPT ![i] = Unref(@, thread[t].handle)]
  /\ thread' = [thread EXCEPT ![t] = Idle]

\* DeleteObsoleteFiles evicts the tables it deletes.
Evict(n) ==
  /\ shard' = [shard EXCEPT ![Shard(n)] = Erase(@, n)]
  /\ UNCHANGED thread

Prune ==
  /\ shard' = [i \in DOMAIN shard |-> PruneShard(shard[i])]
  /\ UNCHANGED thread

Next ==
  \/ \E t \in Thread, n \in Number : FindTable(t, n)
  \/ \E t \in Thread : OpenTable(t) \/ Release(t)
  \/ \E n \in Number : Evict(n)
  \/ Prune

Spec == Init /\ [][Next]_vars

----------------------------------------------------------------------------
\* Entries of the shard that are in its list.
Cached(s) == ToSet(s.lru)
Holders(i, h) == {t \in Thread : /\ thread[t].state = "holding"
                                 /\ Shard(thread[t].number) = i
                                 /\ thread[t].handle = h}

\* HandlesAlive: the handle a thread holds is not freed and is still of the
\* table it asked for, whatever Erase, Insert and Prune of other threads did
\* meanwhile, and what the cache lists is not freed either; every other entry is
\* freed as soon as neither the cache nor a thread has a reference to it.
HandlesAlive ==
  /\ \A t \in Thread : thread[t].state = "holding" =>
       LET s == shard[Shard(thread[t].number)]
       IN  thread[t].handle \in s.live /\ s.key[thread[t].handle] = thread[t].number
  /\ \A i \in DOMAIN shard : \A h \in shard[i].live :
       h \in Cached(shard[i]) \/ Holders(i, h) # {}
  /\ \A i \in DOMAIN shard : Cached(shard[i]) \subseteq shard[i].live

\* ListAndTableAgree: the list and the hash table hold the same handles, each of
\* another key and each found by its key; a resize loses none of them.
ListAndTableAgree ==
  \A i \in DOMAIN shard :
    LET s == shard[i]
    IN  /\ Cached(s) = ToSet(FlattenSeq(s.list)) /\ s.elems = Len(s.lru)
        /\ \A h \in Cached(s) : Table_Lookup(s, s.key[h]) = h

\* OverOnlyWhenPinned: a shard holds more than its capacity only while threads
\* hold handles for all of it; the cache itself keeps nothing then.
OverOnlyWhenPinned ==
  \A i \in DOMAIN shard :
    /\ shard[i].usage = Cardinality(shard[i].live)
    /\ shard[i].usage > PerShard => shard[i].lru = <<>>
=============================================================================
