-------------------------------- MODULE Count ------------------------------
(***************************************************************************)
(* The counting programs: basic_count.cc counts how often each chunk       *)
(* occurs, locality_count.cc also which chunks occur to its left and right *)
(* and how often.  The scripts run them on one snapshot file after another *)
(* with the same databases.                                                *)
(***************************************************************************)
EXTENDS Fingerprint, FiniteSets, KeyValue

CONSTANTS
  Programs,   \* "basic", "locality"
  Chunk,      \* the fingerprints that occur
  MaxLines,   \* bound: lines of all files
  MaxFiles,   \* bound: files
  MaxErrors   \* bound: leveldb calls that fail, and kills

VARIABLES
  program,      \* the program that runs
  db,           \* fingerprint -> count
  store_left,   \* fingerprint -> its left neighbours, with counts
  store_right,  \* fingerprint -> its right neighbours, with counts
  last, flag,   \* the chunk of the previous line, and whether there is one
  pc,           \* "read", or "exit" after exit(1) or a kill
  errors,       \* counted against the bound
  input         \* history: the files, as sequences of chunks

vars == <<program, db, store_left, store_right, last, flag, pc, errors, input>>

NoFp == [i \in 1..FP_SIZE |-> 0]

Init ==
  /\ program \in Programs
  /\ db = EmptyStore /\ store_left = EmptyStore /\ store_right = EmptyStore
  /\ last = NoFp /\ flag = FALSE /\ pc = "read" /\ errors = 0
  /\ input = <<<<>>>>

Lines == FoldLeft(LAMBDA n, file : n + Len(file), 0, input)

\* The program is started on the next file.
NextFile ==
  /\ Len(input) < MaxFiles
  /\ last' = NoFp /\ flag' = FALSE /\ pc' = "read"
  /\ input' = Append(input, <<>>)
  /\ UNCHANGED <<program, db, store_left, store_right, errors>>

(***************************************************************************)
(* The neighbour as it is stored: last_value.assign(last) stops at the     *)
(* first NUL, resize fills up with NULs.                                   *)
(***************************************************************************)
Assigned(f) ==
  [i \in 1..FP_SIZE |-> IF \E j \in 1..i : f[j] = 0 THEN 0 ELSE f[i]]

Read(f) ==
  /\ pc = "read" /\ Lines < MaxLines
  /\ input' = [input EXCEPT ![Len(input)] = Append(@, f)]

Left(f) == Neighbour(store_left, f, Assigned(last))
Right(f) == Neighbour(store_right, last, Assigned(f))

HasLast == program = "locality" /\ flag

(***************************************************************************)
(* A line of read_hashes that leaves d, l and r in the databases.          *)
(***************************************************************************)
Handle(f, d, l, r) ==
  /\ Read(f)
  /\ db' = d
  /\ IF HasLast THEN store_left' = l /\ store_right' = r
     ELSE UNCHANGED <<store_left, store_right>>
  /\ IF program = "locality" THEN last' = f /\ flag' = TRUE
     ELSE UNCHANGED <<last, flag>>
  /\ UNCHANGED <<program, pc>>

Line(f) ==
  /\ Handle(f, Counted(db, f), Left(f), Right(f))
  /\ UNCHANGED errors

Error == errors < MaxErrors /\ errors' = errors + 1

GetError_again(f) ==   \* faulty: what is there is counted twice
  /\ Error /\ program = "basic"
  /\ Handle(f, Put(db, f, 2), Left(f), Right(f))

\* basic_count takes a Get that fails for a chunk that is not there.
GetError(f) ==
  /\ Error /\ program = "basic"
  /\ Handle(f, Put(db, f, 1), Left(f), Right(f))

(***************************************************************************)
(* An entry is deleted before its new value is put.  When the Put fails    *)
(* the program goes on without the entry.                                  *)
(***************************************************************************)
PutError(f) ==
  /\ Error
  /\ \/ Handle(f, Delete(db, f), Left(f), Right(f))
     \/ HasLast /\ Handle(f, Counted(db, f), Delete(store_left, f), Right(f))
     \/ HasLast /\ Handle(f, Counted(db, f), Left(f), Delete(store_right, last))

(***************************************************************************)
(* The program stops within a line: locality_count exits when a Get fails, *)
(* and either may be killed after any of the deletes and puts.             *)
(***************************************************************************)
Stops(f) ==
  /\ Error /\ Read(f) /\ pc' = "exit"
  /\ UNCHANGED <<program, last, flag>>
  /\ \/ /\ db' \in {db, Delete(db, f), Counted(db, f)}
        /\ UNCHANGED <<store_left, store_right>>
     \/ /\ HasLast /\ db' = Counted(db, f)
        /\ \/ store_left' = Delete(store_left, f) /\ UNCHANGED store_right
           \/ /\ store_left' = Left(f)
              /\ store_right' \in {store_right, Delete(store_right, last)}

Next ==
  \/ NextFile
  \/ \E f \in Chunk : Line(f) \/ GetError(f) \/ PutError(f) \/ Stops(f)

Spec == Init /\ [][Next]_vars

----------------------------------------------------------------------------
\* Reference definitions, over the files that were read.

Places == UNION {{<<k, i>> : i \in 1..Len(input[k])} : k \in 1..Len(input)}
At(p) == input[p[1]][p[2]]

Frequency(f) == Cardinality({p \in Places : At(p) = f})

\* How often g is directly followed by f in a file.
Adjacent(g, f) ==
  Cardinality({p \in Places : /\ At(p) = f /\ p[2] > 1
                              /\ At(<<p[1], p[2] - 1>>) = g})

ListCount(list, g) ==
  LET pos == SelectInSeq(list, LAMBDA e : e.key = g)
  IN  IF pos = 0 THEN 0 ELSE list[pos].count

StoreCount(m, f, g) == IF f \in DOMAIN m THEN ListCount(m[f], g) ELSE 0

(***************************************************************************)
(* Without errors the counter of a chunk is the number of its occurrences  *)
(* in all files.                                                           *)
(***************************************************************************)
FrequencyExact ==
  errors = 0 =>
    \A f \in Chunk : Frequency(f) = IF f \in DOMAIN db THEN db[f] ELSE 0

(***************************************************************************)
(* The neighbour databases hold the number of times two chunks are         *)
(* adjacent, from both sides, never across two files; no list has two      *)
(* entries for one neighbour.                                              *)
(***************************************************************************)
NeighboursExact ==
  program = "locality" /\ errors = 0 =>
    /\ \A f, g \in Chunk :
         /\ StoreCount(store_left, f, g) = Adjacent(g, f)
         /\ StoreCount(store_right, g, f) = Adjacent(g, f)
    /\ \A m \in {store_left, store_right} : \A f \in DOMAIN m :
         IsInjective([i \in 1..Len(m[f]) |-> m[f][i].key])

(***************************************************************************)
(* No failure makes a program count too much: whatever is lost, no counter *)
(* exceeds the number of occurrences in the files.                         *)
(***************************************************************************)
NeverOvercounted ==
  /\ \A f \in DOMAIN db : db[f] <= Frequency(f)
  /\ \A f, g \in Chunk : /\ StoreCount(store_left, f, g) <= Adjacent(g, f)
                         /\ StoreCount(store_right, g, f) <= Adjacent(g, f)
=============================================================================
