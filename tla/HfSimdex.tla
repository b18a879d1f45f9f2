------------------------------ MODULE HfSimdex ------------------------------
(***************************************************************************)
(* hf-simdex (hf-simdex.c): looks up every chunk hash of the hash files it *)
(* is given in an index (a table of lists or of red-black trees, by the    *)
(* first byte of the hash) and counts the duplicates.  Hashes named by -s  *)
(* are left out.  A hash is a positive number; all hash files of a call    *)
(* have the same hash size.                                                *)
(***************************************************************************)
EXTENDS RbTree, Integers, SequencesExt, FiniteSets

CONSTANTS
  Bucket(_),         \* key[0], the first byte of a hash
  Buckets,
  Inputs,            \* sequences of hash files; a hash file is a sequence of
                     \* files, a file one of chunks [hash, size]
  SkipArgs,          \* what -s may be given: [text, hash]; the text as a
                     \* sequence of hex digits "x", colons ":" and others "?"
  HashSize           \* header.hash_size / 8

VARIABLES
  pc,                \* "args", "open", "next", "spin", "done", "fatal"
  idx_method,        \* "list" or "rbtree"
  files,             \* the hash files given
  list_table, rbtree_table,
  skip_hash_list,    \* <<hash, size>> of each -s, the last first
  at,                \* hash file, file and chunk about to be read
  file_count, chunk_count, duplicate_chunk_count, bytes_count, duplicate_bytes_count

index == <<list_table, rbtree_table>>
counts == <<file_count, chunk_count, duplicate_chunk_count, bytes_count, duplicate_bytes_count>>
vars == <<pc, idx_method, files, index, skip_hash_list, at, counts>>

Init ==   \* init_key_value_store of either kind
  /\ pc = "args" /\ idx_method \in {"list", "rbtree"} /\ files \in Inputs
  /\ list_table = [b \in Buckets |-> <<>>]
  /\ rbtree_table = [b \in Buckets |-> RB_ROOT]
  /\ skip_hash_list = <<>>
  /\ at = [input |-> 1, file |-> 1, chunk |-> 1]
  /\ file_count = 0 /\ chunk_count = 0 /\ duplicate_chunk_count = 0
  /\ bytes_count = 0 /\ duplicate_bytes_count = 0

----------------------------------------------------------------------------
\* str_hash_to_number: -1, or the number of bytes.  set is how many digits of
\* the byte were seen; every third character is a colon.
RECURSIVE Digits(_, _, _)
Digits(text, i, set) ==
  IF i > Len(text) THEN (IF set # 2 THEN -1 ELSE (i + 1) \div 3)
  ELSE IF i % 3 = 0
  THEN (IF text[i] # ":" THEN -1 ELSE Digits(text, i + 1, 0))
  ELSE IF text[i] # "x" THEN -1 ELSE Digits(text, i + 1, set + 1)
str_hash_to_number(text) == Digits(text, 1, 0)

\* main: one -s option.
SkipOption ==
  /\ pc = "args" /\ Len(skip_hash_list) < 2
  /\ \E arg \in SkipArgs :
       LET n == str_hash_to_number(arg.text)
       IN  IF n < 0 THEN pc' = "fatal" /\ UNCHANGED skip_hash_list
           ELSE /\ skip_hash_list' = <<<<arg.hash, n>>>> \o skip_hash_list   \* skip_hash_add
                /\ UNCHANGED pc
  /\ UNCHANGED <<idx_method, files, index, at, counts>>
Start ==
  /\ pc = "args" /\ pc' = "open"
  /\ UNCHANGED <<idx_method, files, index, skip_hash_list, at, counts>>

\* process_hashfile: hashfile_open of the next one, or the statistics.
OpenNext ==
  /\ pc = "open"
  /\ IF at.input > Len(files) THEN pc' = "done" ELSE pc' \in {"next", "fatal"}
  /\ UNCHANGED <<idx_method, files, index, skip_hash_list, at, counts>>
\* hashfile_next_file: the next file, the end, or an error.
NextFile ==
  /\ pc = "next" /\ at.chunk = 1
  /\ IF at.file > Len(files[at.input])
     THEN /\ pc' = "open" /\ at' = [input |-> at.input + 1, file |-> 1, chunk |-> 1]
          /\ UNCHANGED file_count
     ELSE \/ /\ file_count' = file_count + 1
             /\ pc' = "chunk" /\ UNCHANGED at
          \/ pc' = "fatal" /\ UNCHANGED <<at, file_count>>
  /\ UNCHANGED <<idx_method, files, index, skip_hash_list, chunk_count, duplicate_chunk_count,
                 bytes_count, duplicate_bytes_count>>

\* skip_hash: goes down the list; an entry of another size is looked at again
\* and again.
RECURSIVE skip_hash(_, _)
skip_hash(hash, sh) ==
  IF sh = <<>> THEN "no"
  ELSE IF Head(sh)[2] # HashSize THEN "never returns"
  ELSE IF Head(sh)[1] = hash THEN "yes" ELSE skip_hash(hash, Tail(sh))

\* store_key_value: "duplicate", or the index with the hash.
listbased_store_key_value(table, key) ==
  LET b == Bucket(key)
  IN  IF \E i \in DOMAIN table[b] : table[b][i] = key THEN [dup |-> TRUE, table |-> table]
      ELSE [dup |-> FALSE, table |-> [table EXCEPT ![b] = <<key>> \o @]]     \* list_add
rbtree_store_key_value(table, key) ==
  LET b == Bucket(key)
  IN  IF search_rbtree(table[b], key) # Nil THEN [dup |-> TRUE, table |-> table]
      ELSE [dup |-> FALSE, table |-> [table EXCEPT ![b] = rbtree_insert(@, key)]]

Advance == at' = [at EXCEPT !.chunk = @ + 1]
Tallied(dup, size) ==
  /\ chunk_count' = chunk_count + 1 /\ bytes_count' = bytes_count + size
  /\ duplicate_chunk_count' = duplicate_chunk_count + (IF dup THEN 1 ELSE 0)
  /\ duplicate_bytes_count' = duplicate_bytes_count + (IF dup THEN size ELSE 0)
\* hashfile_next_chunk and what becomes of the chunk.
NextChunk ==
  /\ pc = "chunk"
  /\ LET chunks == files[at.input][at.file]
         chunk == chunks[at.chunk]
         skip == skip_hash(chunk.hash, skip_hash_list)
     IN  IF at.chunk > Len(chunks)
         THEN /\ pc' = "next" /\ at' = [at EXCEPT !.file = @ + 1, !.chunk = 1]
              /\ UNCHANGED <<index, chunk_count, duplicate_chunk_count, bytes_count, duplicate_bytes_count>>
         ELSE IF skip # "no"
         THEN /\ pc' = IF skip = "yes" THEN "chunk" ELSE "spin"
              /\ Advance
              /\ UNCHANGED <<index, chunk_count, duplicate_chunk_count, bytes_count, duplicate_bytes_count>>
         ELSE \/ LET l == listbased_store_key_value(list_table, chunk.hash)
                     r == rbtree_store_key_value(rbtree_table, chunk.hash)
                     list == idx_method = "list"
                 IN  /\ list_table' = IF list THEN l.table ELSE list_table
                     /\ rbtree_table' = IF list THEN rbtree_table ELSE r.table
                     /\ Tallied(IF list THEN l.dup ELSE r.dup, chunk.size)
                     /\ Advance /\ UNCHANGED pc
              \/ \* no memory for the entry
                 /\ pc' = "fatal"
                 /\ UNCHANGED <<index, at, chunk_count, duplicate_chunk_count, bytes_count, duplicate_bytes_count>>
  /\ UNCHANGED <<idx_method, files, skip_hash_list, file_count>>

Next == SkipOption \/ Start \/ OpenNext \/ NextFile \/ NextChunk
Spec == Init /\ [][Next]_vars

----------------------------------------------------------------------------
Skipped == {skip_hash_list[i][1] : i \in DOMAIN skip_hash_list}
Seen == SelectSeq(FlattenSeq(FlattenSeq(files)), LAMBDA c : c.hash \notin Skipped)
First ==   \* of the chunks with one hash, the first
  LET new == {i \in DOMAIN Seen : \A j \in 1..i - 1 : Seen[j].hash # Seen[i].hash}
  IN  [k \in 1..Cardinality(new) |-> Seen[CHOOSE i \in new : Cardinality({j \in new : j <= i}) = k]]
Sum(chunks) == FoldLeft(LAMBDA s, c : s + c.size, 0, chunks)


\* -s accepts pairs of hex digits joined by colons, and nothing else.
ParsesHashes ==
  \A arg \in SkipArgs :
    LET n == str_hash_to_number(arg.text)
        form(k) == FlattenSeq([i \in 1..k |-> IF i < k THEN <<"x", "x", ":">> ELSE <<"x", "x">>])
    IN  IF n < 0 THEN \A k \in 1..Len(arg.text) : arg.text # form(k) ELSE arg.text = form(n)
=============================================================================
