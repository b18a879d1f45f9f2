------------------------------- MODULE MemEnv -------------------------------
(***************************************************************************)
(* leveldb's in-memory environment (helpers/memenv/memenv.cc): a map from  *)
(* names to reference-counted FileStates, whose bytes are kept in blocks   *)
(* of kBlockSize.  The map holds one reference, every open handle another; *)
(* a file that is deleted or replaced lives on for the handles it has.     *)
(***************************************************************************)
EXTENDS Integers, FiniteSets, FiniteSetsExt, SequencesExt, Functions

CONSTANTS
  Name, NULL,
  State,             \* FileStates that may be allocated
  kBlockSize,        \* 8192
  Pieces,            \* lengths of the data appended at once
  MaxSize,           \* bound: bytes of a file
  MaxBytes,          \* bound: bytes written in all
  MaxHandles         \* bound: open handles

VARIABLES
  file_map,          \* name -> FileState
  state,             \* FileState -> [refs, size, blocks], while it is allocated
  handles,           \* the open files: kind, FileState and position
  content,           \* history: name -> the bytes written under it
  bytes              \* history: the next byte, so that all differ

vars == <<file_map, state, handles, content, bytes>>

----------------------------------------------------------------------------
(***************************************************************************)
(* FileState.                                                              *)
(***************************************************************************)
NewState == [refs |-> 0, size |-> 0, blocks |-> <<>>]
Ref(st, f) == [st EXCEPT ![f].refs = @ + 1]
Unref(st, f) ==   \* the last reference deletes it
  IF st[f].refs > 1 THEN [st EXCEPT ![f].refs = @ - 1]
  ELSE Restrict(st, DOMAIN st \ {f})

RECURSIVE Append_blocks(_, _)
Append_blocks(f, data) ==
  LET offset == f.size % kBlockSize
      avail == Min({IF offset # 0 THEN kBlockSize - offset ELSE kBlockSize, Len(data)})
      part == SubSeq(data, 1, avail)
      n == Len(f.blocks)
  IN  IF data = <<>> THEN f
      ELSE Append_blocks(
             [f EXCEPT !.size = @ + avail,
                       !.blocks = IF offset # 0 THEN [@ EXCEPT ![n] = @ \o part]
                                  ELSE Append(@, part)],
             SubSeq(data, avail + 1, Len(data)))

\* The bytes from block_offset of a block on, n of them.
RECURSIVE Copy(_, _, _, _)
Copy(f, block, block_offset, n) ==
  LET avail == Min({kBlockSize - block_offset, n})
  IN  IF n = 0 THEN <<>>
      ELSE SubSeq(f.blocks[block], block_offset + 1, block_offset + avail)
             \o Copy(f, block + 1, 0, n - avail)
Available(f, offset, n) == Min({n, f.size - offset})
Read(f, offset, n) ==   \* an error, or the bytes
  IF offset > f.size THEN NULL
  ELSE Copy(f, (offset \div kBlockSize) + 1, offset % kBlockSize, Available(f, offset, n))

----------------------------------------------------------------------------
(***************************************************************************)
(* InMemoryEnv.  All of its methods run under mutex_.                      *)
(***************************************************************************)
Has(n) == n \in DOMAIN file_map
Bind(m, n, f) == [x \in DOMAIN m \cup {n} |-> IF x = n THEN f ELSE m[x]]
Unbind(m, n) == Restrict(m, DOMAIN m \ {n})
Handle(k, f) == [kind |-> k, file |-> f, pos |-> 0]
Room == Cardinality(handles) < MaxHandles
Fresh == CHOOSE f \in State : f \notin DOMAIN state

Init ==
  /\ file_map = << >> /\ state = << >> /\ handles = {} /\ content = << >> /\ bytes = 0

NewSequentialFile(n) ==
  /\ Has(n) /\ Room
  /\ state' = Ref(state, file_map[n])
  /\ Handle("sequential", file_map[n]) \notin handles
  /\ handles' = handles \cup {Handle("sequential", file_map[n])}
  /\ UNCHANGED <<file_map, content, bytes>>

NewRandomAccessFile(n) ==
  /\ Has(n) /\ Room
  /\ state' = Ref(state, file_map[n])
  /\ Handle("random", file_map[n]) \notin handles
  /\ handles' = handles \cup {Handle("random", file_map[n])}
  /\ UNCHANGED <<file_map, content, bytes>>

DeleteFileInternal(st, n) == IF Has(n) THEN Unref(st, file_map[n]) ELSE st

\* One writer of a file at a time, as leveldb has it.
NewWritableFile(n) ==
  \E f \in {x \in State : x \notin DOMAIN state} :
    /\ f = Fresh /\ Room
    /\ state' = Bind(DeleteFileInternal(state, n), f, [NewState EXCEPT !.refs = 2])
    /\ file_map' = Bind(file_map, n, f)
    /\ handles' = handles \cup {Handle("writable", f)}
    /\ content' = Bind(content, n, <<>>)
    /\ UNCHANGED bytes

\* Called for files that exist, by ReuseManifest and RecoverLogFile.  (For another
\* name the new FileState would not be put into the map.)
NewAppendableFile(n) ==
  /\ Has(n) /\ Room
  /\ Handle("writable", file_map[n]) \notin handles
  /\ state' = Ref(state, file_map[n])
  /\ handles' = handles \cup {Handle("writable", file_map[n])}
  /\ UNCHANGED <<file_map, content, bytes>>

DeleteFile(n) ==
  /\ Has(n)
  /\ state' = DeleteFileInternal(state, n)
  /\ file_map' = Unbind(file_map, n) /\ content' = Unbind(content, n)
  /\ UNCHANGED <<handles, bytes>>

\* Never from a name to itself, which would delete the file.
RenameFile(src, target) ==
  /\ Has(src) /\ src # target
  /\ state' = DeleteFileInternal(state, target)
  /\ file_map' = Unbind(Bind(file_map, target, file_map[src]), src)
  /\ content' = Unbind(Bind(content, target, content[src]), src)
  /\ UNCHANGED <<handles, bytes>>

\* WritableFileImpl::Append; Close, Flush and Sync do nothing.
AppendData(h, n) ==
  LET data == [i \in 1..n |-> bytes + i]
  IN  /\ h.kind = "writable" /\ state[h.file].size + n <= MaxSize
      /\ bytes + n <= MaxBytes
      /\ state' = [state EXCEPT ![h.file] = Append_blocks(@, data)]
      /\ bytes' = bytes + n
      /\ content' = [x \in DOMAIN content |->
           IF file_map[x] = h.file THEN content[x] \o data ELSE content[x]]
      /\ UNCHANGED <<file_map, handles>>

\* SequentialFileImpl: Read moves on by what it got, Skip by what there is.
Advance(h, n) ==
  /\ h.kind = "sequential" /\ h.pos <= state[h.file].size
  /\ LET to == [h EXCEPT !.pos = @ + Len(Read(state[h.file], h.pos, n))]
     IN  to \notin handles /\ handles' = (handles \ {h}) \cup {to}
  /\ UNCHANGED <<file_map, state, content, bytes>>

Close(h) ==
  /\ handles' = handles \ {h} /\ state' = Unref(state, h.file)
  /\ UNCHANGED <<file_map, content, bytes>>

Next ==
  \/ \E n \in Name : \/ NewSequentialFile(n) \/ NewRandomAccessFile(n)
                     \/ NewWritableFile(n) \/ NewAppendableFile(n) \/ DeleteFile(n)
  \/ \E src, target \in Name : RenameFile(src, target)
  \/ \E h \in handles : Close(h)
  \/ \E h \in handles, n \in Pieces : AppendData(h, n) \/ Advance(h, n)

Spec == Init /\ [][Next]_vars

----------------------------------------------------------------------------
Count(f) == Cardinality({n \in DOMAIN file_map : file_map[n] = f})
              + Cardinality({h \in handles : h.file = f})

\* RefsExact: a FileState has as many references as names and open handles name
\* it, so that it is deleted with the last of them, neither earlier, under an open
\* file, nor never.
RefsExact ==
  /\ \A h \in handles : h.file \in DOMAIN state
  /\ \A f \in DOMAIN state : state[f].refs = Count(f)
  /\ \A n \in DOMAIN file_map : file_map[n] \in DOMAIN state

=============================================================================
