------------------------------ MODULE HashFile ------------------------------
(***************************************************************************)
(* libhashfile (libhashfile.c, libhashfile.h): a hash file is written by   *)
(* open4write, add_file, add_chunk and close, always in version 7, and     *)
(* read by open, next_file, next_chunk and reset, in versions 1 to 7.      *)
(*                                                                         *)
(* What follows the global header is a tape of cells, one for each thing   *)
(* that is read or written at once: a file header, a path, a link target,  *)
(* a word of a chunk size, a hash, a compression ratio.  Positions count   *)
(* cells from the end of the global header.  Every cell knows what it is,  *)
(* so that one read as something else can be told.                         *)
(***************************************************************************)
EXTENDS Integers, Sequences, SequencesExt

CONSTANTS
  Contents,          \* the scans written or found: sequences of files, where
                     \* a file is [link, size, chunks] and a chunk its size
  chunk_size,        \* fixed_params.chunk_size
  Word               \* 2^32

VARIABLES
  mode,              \* "idle", "write", "written", "read", "misread"
  header,            \* the global header on the disk: version, method and counters
  tape,
  handle,            \* struct hashfile_handle of the call sequence under way
  scan,              \* what is written: one of Contents
  failed,            \* a write failed or the writer was killed
  cut,               \* the file may lose its end before it is read
  offtrack           \* history: "reset" or "retry" once a caller has reset a
                     \* file of version 1 to 4, or called next_file again after -1

vars == <<mode, header, tape, handle, scan, failed, cut, offtrack>>

FIXED == "fixed"
VARYING == "variable"
HASH_FILE_VERSION7 == 7

----------------------------------------------------------------------------
(***************************************************************************)
(* The format.                                                             *)
(***************************************************************************)
Cell(kind, f, i) == [kind |-> kind, file |-> f, at |-> i]
\* A file header with its counters; the path is a cell of its own from
\* version 2 on, the target of a symlink from version 4 on.
FileHeader(f, chunks) ==
  [kind |-> "file", file |-> f, chunks |-> chunks, size |-> scan[f].size, link |-> scan[f].link]
PathCells(v, f) ==
  (IF v >= 2 THEN <<Cell("path", f, 1)>> ELSE <<>>) \o
  (IF v >= 4 /\ scan[f].link THEN <<Cell("target", f, 1)>> ELSE <<>>)
SizeWords(v, m) == IF m # VARYING \/ v < 3 THEN 0 ELSE IF v >= 7 THEN 1 ELSE 2
ChunkCells(v, m, f, i) ==
  SubSeq(<<Cell("size", f, i), Cell("size", f, i)>>, 1, SizeWords(v, m)) \o <<Cell("hash", f, i)>>
    \o (IF v >= 6 THEN <<Cell("cratio", f, i)>> ELSE <<>>)
ChunkInfoBlockSize(v, m) == SizeWords(v, m) + 1 + (IF v >= 6 THEN 1 ELSE 0)
\* How much longer the header of version 5 is than that of version v.
LongerBy(v) == IF v <= 2 THEN 2 ELSE IF v <= 4 THEN 1 ELSE 0

\* A whole hash file, as the library of its version wrote it.
FileCells(v, m, f) ==
  <<FileHeader(f, Len(scan[f].chunks))>> \o PathCells(v, f) \o
  FlattenSeq([i \in 1..Len(scan[f].chunks) |-> ChunkCells(v, m, f, i)])
Encoded(v, m) == FlattenSeq([f \in 1..Len(scan) |-> FileCells(v, m, f)])
Bytes(fs) == FoldLeft(LAMBDA s, f : FoldLeft(LAMBDA t, c : t + c, s, f.chunks), 0, fs)
Count(fs) == FoldLeft(LAMBDA s, f : s + Len(f.chunks), 0, fs)

----------------------------------------------------------------------------
(***************************************************************************)
(* Writing.  do_add_file first finalizes the file before: it goes back to  *)
(* its header, fills in the chunks that were added, and returns.           *)
(***************************************************************************)
NewHandle(v, m) ==
  [version |-> v, method |-> m, files |-> 0, chunks |-> 0, bytes |-> 0,   \* header
   pos |-> 0, header_offset |-> 0, current |-> 0, current_chunks |-> 0,
   num_files_processed |-> 0, num_hashes_processed |-> 0,
   answer |-> "none", size |-> 0]

hashfile_open4write(m) ==
  /\ mode = "idle" /\ mode' = "write"
  /\ handle' = NewHandle(HASH_FILE_VERSION7, m)
  /\ header' = [version |-> HASH_FILE_VERSION7, method |-> m, files |-> 0, chunks |-> 0, bytes |-> 0]
  /\ tape' = <<>>
  /\ UNCHANGED <<scan, failed, cut, offtrack>>

\* Overwriting in place, or at the end.
WriteAt(t, p, cells) ==
  [i \in 1..(IF p + Len(cells) > Len(t) THEN p + Len(cells) ELSE Len(t)) |->
     IF i \in p + 1..p + Len(cells) THEN cells[i - p] ELSE t[i]]
Finalized(t, h) ==
  IF h.num_files_processed = 0 THEN t
  ELSE WriteAt(t, h.header_offset,
               <<FileHeader(h.current, h.num_hashes_processed)>> \o PathCells(7, h.current))

hashfile_add_file ==
  /\ mode = "write" /\ ~failed
  /\ handle.num_files_processed < Len(scan)
  /\ handle.current > 0 => handle.num_hashes_processed = Len(scan[handle.current].chunks)
  /\ LET f == handle.num_files_processed + 1
         cells == <<FileHeader(f, 0)>> \o PathCells(7, f)
     IN  \E done \in 0..Len(cells) :     \* write may run out of room
           /\ tape' = WriteAt(Finalized(tape, handle), handle.pos, SubSeq(cells, 1, done))
           /\ failed' = (done < Len(cells))
           /\ handle' = [handle EXCEPT !.num_files_processed = f, !.num_hashes_processed = 0,
                           !.current = f, !.header_offset = handle.pos, !.pos = @ + done]
  /\ UNCHANGED <<mode, header, scan, cut, offtrack>>

hashfile_add_chunk ==
  /\ mode = "write" /\ ~failed /\ handle.current > 0
  /\ handle.num_hashes_processed < Len(scan[handle.current].chunks)
  /\ LET i == handle.num_hashes_processed + 1
         cells == ChunkCells(7, handle.method, handle.current, i)
     IN  \E done \in 0..Len(cells) :
           /\ tape' = WriteAt(tape, handle.pos, SubSeq(cells, 1, done))
           /\ failed' = (done < Len(cells))
           /\ handle' = IF done < Len(cells) THEN [handle EXCEPT !.pos = @ + done]
                        ELSE [handle EXCEPT !.pos = @ + done, !.num_hashes_processed = i,
                                !.chunks = @ + 1, !.bytes = @ + scan[handle.current].chunks[i]]
  /\ UNCHANGED <<mode, header, scan, cut, offtrack>>

\* hashfile_close of a file being written: do_add_file finalizes the last
\* file, and the global header gets its counters; either write may fail, and
\* nobody looks.
AllAdded ==
  /\ handle.num_files_processed = Len(scan)
  /\ handle.current > 0 => handle.num_hashes_processed = Len(scan[handle.current].chunks)
hashfile_close ==
  /\ mode = "write" /\ mode' = "written"
  /\ failed \/ AllAdded                  \* when the caller does it
  /\ \E last, global \in BOOLEAN :
       /\ tape' = IF last THEN Finalized(tape, handle) ELSE tape
       /\ header' = IF global
                    THEN [header EXCEPT !.files = handle.num_files_processed,
                                        !.chunks = handle.chunks, !.bytes = handle.bytes]
                    ELSE header
       /\ failed' = (failed \/ ~last \/ ~global)
  /\ UNCHANGED <<handle, scan, cut, offtrack>>

\* The writer is killed.
Crash ==
  /\ mode = "write" /\ mode' = "written" /\ failed' = TRUE
  /\ UNCHANGED <<header, tape, handle, scan, cut, offtrack>>

----------------------------------------------------------------------------
(***************************************************************************)
(* Reading.                                                                *)
(***************************************************************************)
\* The file may have lost its end by the time it is read.
hashfile_open ==
  /\ mode = "written" /\ mode' = "read"
  /\ \E n \in (IF cut THEN 0..Len(tape) ELSE {Len(tape)}) : tape' = SubSeq(tape, 1, n)
  /\ handle' = [NewHandle(header.version, header.method) EXCEPT
                  !.files = header.files, !.chunks = header.chunks, !.bytes = header.bytes]
  /\ UNCHANGED <<header, scan, failed, cut, offtrack>>

At(p) == IF p + 1 \in 1..Len(tape) THEN tape[p + 1].kind ELSE "end"
\* A read of these kinds of cells in turn, from p on: how many of them are
\* there, and whether all are what they are taken for.
Available(p, n) == IF p >= Len(tape) THEN 0 ELSE IF p + n <= Len(tape) THEN n ELSE Len(tape) - p
AsExpected(p, kinds) == \A i \in 1..Len(kinds) : At(p + i - 1) \in {kinds[i], "end"}

\* hashfile_next_file answers 0 at the end and -1 when a read is short; what
\* was read before the short read stays read.
AfterSkip(h) ==
  h.pos + (h.current_chunks - h.num_hashes_processed) * ChunkInfoBlockSize(h.version, h.method)
hashfile_next_file ==
  /\ mode = "read"
  /\ offtrack' = IF handle.answer = "error" THEN "retry" ELSE offtrack
  /\ \E h \in {[handle EXCEPT !.pos = AfterSkip(handle), !.num_hashes_processed = handle.current_chunks]} :
       LET c == tape[h.pos + 1]
           v == h.version
           kinds == <<"file">> \o (IF v >= 2 THEN <<"path">> ELSE <<>>) \o
                    (IF v >= 4 /\ At(h.pos) = "file" /\ c.link THEN <<"target">> ELSE <<>>)
           got == Available(h.pos, Len(kinds))
       IN  IF handle.num_files_processed = handle.files
           THEN handle' = [handle EXCEPT !.answer = "eof"] /\ UNCHANGED mode
           ELSE IF ~AsExpected(h.pos, kinds)
           THEN mode' = "misread" /\ UNCHANGED handle
           ELSE /\ handle' = [h EXCEPT
                     !.pos = @ + got,
                     !.current = IF got > 0 THEN c.file ELSE @,
                     !.current_chunks = IF got > 0 THEN c.chunks ELSE @,
                     !.num_files_processed = IF got = Len(kinds) THEN @ + 1 ELSE @,
                     !.num_hashes_processed = IF got = Len(kinds) THEN 0 ELSE @,
                     !.answer = IF got = Len(kinds) THEN "file" ELSE "error"]
                /\ UNCHANGED mode
  /\ UNCHANGED <<header, tape, scan, failed, cut>>

FixedSize(f, chunks, n) ==
  LET left == scan[f].size - (chunks - 1) * chunk_size
  IN  IF n = chunks - 1 /\ left <= chunk_size THEN left ELSE chunk_size
SizeRead(h, stored) ==
  IF h.method = FIXED THEN {FixedSize(h.current, h.current_chunks, h.num_hashes_processed)}
  ELSE IF h.version >= 7 THEN {stored % Word, (stored % Word) + Word}
  ELSE IF h.version >= 3 THEN {stored} ELSE {0}
hashfile_next_chunk ==
  /\ mode = "read" /\ handle.answer # "error"
  /\ LET n == handle.num_hashes_processed
         v == handle.version
         kinds == [i \in 1..SizeWords(v, handle.method) |-> "size"] \o <<"hash">>
                    \o (IF v >= 6 THEN <<"cratio">> ELSE <<>>)
         got == Available(handle.pos, Len(kinds))
         here == handle.pos + 1..handle.pos + got
     IN  IF n = handle.current_chunks
         THEN handle' = [handle EXCEPT !.answer = "null"] /\ UNCHANGED mode
         ELSE IF ~AsExpected(handle.pos, kinds)
              \/ \E i \in here : tape[i].file # handle.current \/ tape[i].at # n + 1
         THEN mode' = "misread" /\ UNCHANGED handle
         ELSE IF got < Len(kinds)
         THEN handle' = [handle EXCEPT !.pos = @ + got, !.answer = "null"] /\ UNCHANGED mode
         ELSE /\ \E s \in SizeRead(handle, scan[handle.current].chunks[n + 1]) :
                   handle' = [handle EXCEPT !.pos = @ + got, !.num_hashes_processed = n + 1,
                                !.answer = "chunk", !.size = s]
              /\ UNCHANGED mode
  /\ UNCHANGED <<header, tape, scan, failed, cut, offtrack>>

\* hashfile_reset: lseek past a header of version 5, and start over.
hashfile_reset ==
  /\ mode = "read"
  /\ offtrack' = IF handle.version < 5 THEN "reset" ELSE offtrack
  /\ handle' = [handle EXCEPT !.pos = LongerBy(handle.version), !.num_files_processed = 0,
                  !.num_hashes_processed = 0, !.current_chunks = 0, !.answer = "none"]
  /\ UNCHANGED <<mode, header, tape, scan, failed, cut>>

\* Nothing yet, or a file that an earlier version of the library has written.
Init ==
  /\ scan \in Contents /\ cut \in BOOLEAN
  /\ failed = FALSE /\ offtrack = "no"
  /\ \/ /\ mode = "idle" /\ tape = <<>>
        /\ handle = NewHandle(HASH_FILE_VERSION7, FIXED)
        /\ header = [version |-> HASH_FILE_VERSION7, method |-> FIXED, files |-> 0, chunks |-> 0, bytes |-> 0]
     \/ \E v \in 1..6, m \in {FIXED, VARYING} :
          /\ mode = "written" /\ tape = Encoded(v, m)
          /\ handle = NewHandle(v, m)
          /\ header = [version |-> v, method |-> m, files |-> Len(scan),
                       chunks |-> Count(scan), bytes |-> Bytes(scan)]

Next ==
  \/ \E m \in {FIXED, VARYING} : hashfile_open4write(m)
  \/ hashfile_add_file \/ hashfile_add_chunk \/ hashfile_close \/ Crash
  \/ hashfile_open \/ hashfile_next_file \/ hashfile_next_chunk \/ hashfile_reset
Spec == Init /\ [][Next]_vars

----------------------------------------------------------------------------
Chunk == scan[handle.current].chunks[handle.num_hashes_processed]
SizeRight ==
  \/ handle.version < 3 /\ handle.method = VARYING   \* the size is not in the file
  \/ handle.size % Word = Chunk % Word

\* next_file and next_chunk give back what was added, in order and in place,
\* whichever chunks the caller leaves out, whatever writes failed and
\* wherever the file was cut off: the n-th file is the n-th added, and its
\* i-th chunk the i-th of it with its size (the word of it that is stored).
ReadsBack ==
  offtrack = "no" =>
    /\ mode # "misread"
    /\ handle.answer = "file" => handle.current = handle.num_files_processed
    /\ handle.answer = "chunk" => SizeRight

\* A file written without error and read whole announces every file and every
\* chunk, and the counters of the global header are the sums over the files.
NothingMissing ==
  mode = "read" /\ ~failed /\ ~cut /\ offtrack = "no" =>
    /\ handle.files = Len(scan) /\ handle.chunks = Count(scan) /\ handle.bytes = Bytes(scan)
    /\ handle.answer = "file" => handle.current_chunks = Len(scan[handle.current].chunks)
    /\ handle.answer # "error"

=============================================================================
