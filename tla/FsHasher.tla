------------------------------ MODULE FsHasher ------------------------------
(***************************************************************************)
(* How fs-hasher cuts the files of a directory into chunks                 *)
(* (util/fs-hasher/fs-hasher.c).  A file is looked at through a window,    *)
(* filled by read or mapped by mmap; several chunking methods share the    *)
(* window, each with an offset of its own, and the one that lags behind    *)
(* goes next.  A file does not change while it is scanned.  A chunk is its *)
(* size; the hash file it goes to is HashFile's subject.                   *)
(***************************************************************************)
EXTENDS Integers, Sequences, FiniteSetsExt

CONSTANTS
  Trees,              \* the directories that occur: sequences of files
  Methods,            \* the sequences of chunking methods that occur
  Mmap,               \* whether -M is given: a set of Booleans
  window_size_read, window_size_mmap, page_size,
  PRIME, M, UINT64,   \* UINT64: number of values of a uint64_t
  MaxFails,           \* bound: system calls that fail
  NULL

VARIABLES
  tree,               \* the files still to come
  file,               \* the one being processed, or NULL
  methods, mmap,      \* the command line
  offset,             \* of each method: its position, or -1 for UINT64_MAX
  window, buffer_eof, \* [offset, size]; the window ends where the file does
  mapped,             \* window_buffer_mmap: "no", "yes" or "failed"
  chunks,             \* of each method: the chunks of the file
  pc,                 \* "next", "loop", "done", "exit" after a fatal error,
                      \* "abort" after an assertion
  fails               \* counted against the bound

vars == <<tree, file, methods, mmap, offset, window, buffer_eof, mapped,
          chunks, pc, fails>>

Init ==
  /\ tree \in Trees /\ methods \in Methods /\ mmap \in Mmap
  /\ file = NULL /\ offset = <<>> /\ chunks = <<>>
  /\ window = [offset |-> 0, size |-> 0] /\ buffer_eof = FALSE
  /\ mapped = "no" /\ pc = "next" /\ fails = 0

size == Len(file.bytes)

Smaller(a, b) == IF a < b THEN a ELSE b

----------------------------------------------------------------------------
\* The window.  Each operator gives the ways a call can come out.

Window(off, n, eof, state) ==
  [window |-> [offset |-> off, size |-> n], eof |-> eof, mapped |-> state]

(***************************************************************************)
(* read until the buffer is full or the file ends: a file that ends with   *)
(* the buffer has not ended yet.                                           *)
(***************************************************************************)
window_advance_read(f, off, state) ==
  LET rest == Len(f.bytes) - off
  IN  Window(off, Smaller(rest, window_size_read), rest < window_size_read, state)

(***************************************************************************)
(* mmap from the page off lies in.  Where there is nothing to map, the     *)
(* size becomes 0 and the offset stays what it was.  A mapping that failed *)
(* is not tried again for the same file.                                   *)
(***************************************************************************)
window_advance_mmap(f, off) ==
  LET from == off - (off % page_size)
      rest == Len(f.bytes) - from
  IN  IF mapped = "failed" /\ off # 0 THEN {window_advance_read(f, off, "failed")}
      ELSE IF rest <= 0 THEN {Window(window.offset, 0, TRUE, "no")}
      ELSE {Window(from, Smaller(rest, window_size_mmap),
                   rest <= window_size_mmap, "yes"),
            window_advance_read(f, from, "failed")}

window_advance(f, off) ==
  IF mmap THEN window_advance_mmap(f, off)
  ELSE {window_advance_read(f, off, mapped)}

\* The window moves; a mapping that fails counts against the bound.
Advanced(f, off) ==
  \E w \in window_advance(f, off) :
    LET n == IF w.mapped = "failed" /\ mapped # "failed" THEN 1 ELSE 0
    IN  /\ fails + n <= MaxFails /\ fails' = fails + n
        /\ window' = w.window /\ mapped' = w.mapped
        /\ buffer_eof' = w.eof

----------------------------------------------------------------------------
(***************************************************************************)
(* Where a method cuts the n bytes that start behind the first p of the    *)
(* file: the size of the chunk, 0 when it needs more data, or -1 after     *)
(* assert(0).                                                              *)
(***************************************************************************)
fixed_match(m, p, n) == IF n < m.csize THEN 0 ELSE m.csize

Power(a, k) ==   \* pwrmod(a, k, M)
  LET result[i \in 0..k] == IF i = 0 THEN 1 ELSE (result[i-1] * (a % M)) % M
  IN  result[k]

polynomial_table_long(m, t) == (t * Power(PRIME, m.win_size)) % M   \* faulty
polynomial_table(m, t) == (t * Power(PRIME, m.win_size - 1)) % M

(***************************************************************************)
(* The fingerprint of the win_size bytes behind p+i, rolled on from start  *)
(* in uint64_t arithmetic: the subtraction may wrap.                       *)
(***************************************************************************)
Rolled(m, p, start, i) ==
  LET buf(k) == file.bytes[p + k + 1]
      first[j \in 0..m.win_size] ==
        IF j = 0 THEN 0 ELSE (PRIME * first[j-1] + buf(start + j - 1)) % M
      fprt[k \in start..i] ==
        IF k = start THEN first[m.win_size]
        ELSE LET out == (fprt[k-1] - polynomial_table(m, buf(k - 1))) % UINT64
             IN  (((out * PRIME) % UINT64) + buf(k + m.win_size - 1)) % M
  IN  fprt[i]

mask(m) == 2^m.match_bits

Matches(m, value) == value % mask(m) = m.pattern % mask(m)

\* What the match loops have in common: i ran from start over the tested
\* positions and stopped at the first of those found; w bytes are looked at.
Cut(m, n, w, start, tested, found) ==
  LET i == IF tested = {} THEN start ELSE Max(tested) + 1
  IN  IF found # {} THEN Min(found) + w
      ELSE IF i + w = n + 1 THEN 0
      ELSE IF i = m.max_csize - w THEN m.max_csize
      ELSE -1

Sliding(m, n, w, start) ==
  {i \in start..n : i <= n - w /\ i < m.max_csize - w}

\* The first window is tested whatever max_csize is.
rabin_match(m, p, n) ==
  LET w == m.win_size
      start == IF m.min_csize > w THEN m.min_csize - w ELSE 0
      tested == {start} \cup Sliding(m, n, w, start + 1)
  IN  IF n < m.min_csize THEN 0
      ELSE Cut(m, n, w, start, tested,
               {i \in tested : Matches(m, Rolled(m, p, start, i))})

bytes_to_look_at(m) == (m.match_bits + 7) \div 8

\* slider: the low bytes come first.
simple_match(m, p, n) ==
  LET w == bytes_to_look_at(m)
      start == m.min_csize - w
      tested == Sliding(m, n, w, start)
      slider(i) == FoldSet(LAMBDA k, s : s + file.bytes[p + i + k] * 256^(k - 1),
                           0, 1..w)
  IN  IF n < m.min_csize THEN 0
      ELSE Cut(m, n, w, start, tested, {i \in tested : Matches(m, slider(i))})

\* Any of the sizes tried may be drawn, or none.
random_match(m, p, n) ==
  IF n < m.min_csize THEN {0}
  ELSE LET tried == {i \in m.min_csize..n : i < m.max_csize}
       IN  tried \cup {Cut(m, n, 0, m.min_csize, tried, {})}

Match(m, p, n) ==
  CASE m.algo = "fixed"  -> {fixed_match(m, p, n)}
    [] m.algo = "rabin"  -> {rabin_match(m, p, n)}
    [] m.algo = "simple" -> {simple_match(m, p, n)}
    [] m.algo = "random" -> random_match(m, p, n)

\* get_next_chunk: at the end of the file the tail is a chunk, unless tails=off.
NextChunk(m, p, n, eof) ==
  {IF c = 0 /\ eof /\ m.tails THEN n ELSE c : c \in Match(m, p, n)}

----------------------------------------------------------------------------
\* process_file, called by nftw for one file after the other.

Fails == fails < MaxFails /\ fails' = fails + 1

\* A directory, or a file that cannot be opened, is left out.
Skip ==
  /\ pc = "next" /\ tree # <<>> /\ tree' = Tail(tree)
  /\ \/ Head(tree).kind = "dir" /\ UNCHANGED fails
     \/ Head(tree).kind # "dir" /\ Fails
  /\ UNCHANGED <<file, methods, mmap, offset, window, buffer_eof, mapped,
                 chunks, pc>>

\* prepare_dedups_for_new_file, and the first window of a regular file.
Visit ==
  /\ pc = "next" /\ tree # <<>> /\ Head(tree).kind # "dir"
  /\ tree' = Tail(tree) /\ file' = Head(tree)
  /\ offset' = [m \in DOMAIN methods |-> 0]
  /\ chunks' = [m \in DOMAIN methods |-> <<>>]
  /\ IF file'.kind = "link"
     THEN UNCHANGED <<window, buffer_eof, mapped, pc, fails>>
     ELSE Advanced(file', 0) /\ pc' = "loop"
  /\ UNCHANGED <<methods, mmap>>

\* With -e a file that is gone, and an error of hashfile_add_file, end nftw.
StopScan ==
  /\ pc = "next" /\ tree # <<>> /\ Head(tree).kind # "dir" /\ Fails
  /\ pc' = "done"
  /\ UNCHANGED <<tree, file, methods, mmap, offset, window, buffer_eof, mapped,
                 chunks>>

\* The first of the methods with the lowest offset.
get_next_dedup_method ==
  LET left == {m \in DOMAIN methods : offset[m] # -1}
  IN  Min({m \in left : \A k \in left : offset[m] <= offset[k]})

AllFinished == \A m \in DOMAIN methods : offset[m] = -1

\* The window cannot be moved, or the hash file not be written: exit(1).
Fatal ==
  /\ pc = "loop" /\ ~AllFinished /\ Fails
  /\ pc' = "exit"
  /\ UNCHANGED <<tree, file, methods, mmap, offset, window, buffer_eof, mapped,
                 chunks>>

Finished(m) == offset' = [offset EXCEPT ![m] = -1]

(***************************************************************************)
(* One iteration for method m, with c the chunk it gets: the window moves  *)
(* to the method's offset when it needs more data, and the method has      *)
(* finished when there is no more.                                         *)
(***************************************************************************)
Chunked(m, c) ==
  IF c # 0
  THEN /\ offset' = [offset EXCEPT ![m] = @ + c]
       /\ chunks' = [chunks EXCEPT ![m] = Append(@, c)]
       /\ UNCHANGED <<window, buffer_eof, mapped, fails>>
  ELSE /\ UNCHANGED chunks
       /\ IF buffer_eof
          THEN Finished(m) /\ UNCHANGED <<window, buffer_eof, mapped, fails>>
          ELSE Advanced(file, offset[m]) /\ UNCHANGED offset

\* The assertions: the method's offset lies in the window, or at its end.
InWindow(m) ==
  offset[m] >= window.offset /\ offset[m] <= window.offset + window.size

Step ==
  /\ pc = "loop" /\ ~AllFinished
  /\ LET m == get_next_dedup_method
         n == window.size - (offset[m] - window.offset)
     IN  IF ~InWindow(m)
         THEN pc' = "abort" /\ UNCHANGED <<offset, window, buffer_eof, mapped,
                                           chunks, fails>>
         ELSE \E c \in IF n = 0 THEN {0}
                       ELSE NextChunk(methods[m], offset[m], n, buffer_eof) :
                IF c = -1
                THEN pc' = "abort" /\ UNCHANGED <<offset, window, buffer_eof,
                                                  mapped, chunks, fails>>
                ELSE Chunked(m, c) /\ UNCHANGED pc
  /\ UNCHANGED <<tree, file, methods, mmap>>

Close ==
  /\ pc = "loop" /\ AllFinished
  /\ pc' = "next"
  /\ UNCHANGED <<tree, file, methods, mmap, offset, window, buffer_eof, mapped,
                 chunks, fails>>

EndScan ==
  /\ pc = "next" /\ tree = <<>>
  /\ pc' = "done"
  /\ UNCHANGED <<tree, file, methods, mmap, offset, window, buffer_eof, mapped,
                 chunks, fails>>

Next == Skip \/ Visit \/ StopScan \/ Fatal \/ Step \/ Close \/ EndScan

Spec == Init /\ [][Next]_vars

\* The program is sequential and waits for nothing.
FairSpec == Spec /\ WF_vars(Next)

----------------------------------------------------------------------------
(***************************************************************************)
(* The chunks of a file, as if all of it were in the window: a chunk ends  *)
(* at the first place from min_csize to max_csize where the bytes before   *)
(* it match; rabin's match is defined by the polynomial itself.            *)
(***************************************************************************)
Fingerprint(m, e) ==
  LET f[j \in 0..m.win_size] ==
        IF j = 0 THEN 0
        ELSE (PRIME * f[j-1] + file.bytes[e - m.win_size + j]) % M
  IN  f[m.win_size]

Ends(m, e) ==
  IF m.algo = "rabin" THEN Matches(m, Fingerprint(m, e))
  ELSE Matches(m, file.bytes[e])

Reference(m) ==
  LET Whole(p) ==
        LET rest == size - p
            ends == {c \in m.min_csize..(m.max_csize - 1) :
                       c <= rest /\ Ends(m, p + c)}
        IN  IF m.algo = "fixed" THEN IF rest < m.csize THEN 0 ELSE m.csize
            ELSE IF ends # {} THEN Min(ends)
            ELSE IF rest >= m.max_csize THEN m.max_csize ELSE 0
      from[p \in 0..size] ==
        IF p = size THEN <<>>
        ELSE IF Whole(p) # 0 THEN <<Whole(p)>> \o from[p + Whole(p)]
        ELSE IF m.tails THEN <<size - p>> ELSE <<>>
  IN  from[0]

(***************************************************************************)
(* Where a file is cut does not depend on the windows it was seen through, *)
(* on how they were filled, or on the other methods: each method's chunks  *)
(* are those of the whole file.  simple is taken with match_bits up to 8.  *)
(***************************************************************************)
CutAsWhole ==
  pc = "next" /\ file # NULL /\ file.kind = "reg" =>
    \A m \in DOMAIN methods :
      methods[m].algo # "random" => chunks[m] = Reference(methods[m])

(***************************************************************************)
(* The assertions of process_file hold: the method that lags behind never  *)
(* falls out of the window the others moved.                               *)
(***************************************************************************)
LaggardInWindow ==
  pc = "loop" /\ ~AllFinished => InWindow(get_next_dedup_method)

\* The same where no file is empty, or mmap is not used.
LaggardInWindowUnlessEmpty ==
  ~mmap \/ (file # NULL /\ size > 0) => LaggardInWindow

(***************************************************************************)
(* The scan ends, every chunk fitting into the window.                     *)
(***************************************************************************)
ScanEnds == <>(pc \in {"done", "exit", "abort"})
=============================================================================
