--------------------------- MODULE LocalityAttack ---------------------------
(***************************************************************************)
(* The locality-based attack (attack/locality/locality_attack.cc).  From   *)
(* the databases of an auxiliary and of a target backup it grows a set of  *)
(* inferred pairs, kept in two queues, along the neighbours of the pairs   *)
(* it has.  A pair is counted as correct when both chunks are the same; in *)
(* the program for encrypted backups (locality_attack_e.cc), when the      *)
(* ground truth says so.  A fingerprint is a number in the order of        *)
(* leveldb's keys.                                                         *)
(***************************************************************************)
EXTENDS KeyValue, FiniteSets

CONSTANTS
  Backups,      \* the backups that occur, as sequences of fingerprints
  INIT_K, TH_K, QUEUE_LIMIT,  \* the parameters u (INIT), v and w
  LeakModes,    \* whether LEAK_RATE is not 0: a set of Booleans
  Truths,       \* the encryptions that occur: functions from ciphertexts to
                \* plaintexts.  NULL stands for none, that is, for the
                \* program that attacks a backup that is not encrypted
  NULL,
  MaxErrors     \* bound: leveldb calls that fail

VARIABLES
  o, t,           \* databases of the auxiliary and of the target backup
  leaks,          \* LEAK_RATE is not 0
  encrypted,      \* the program is locality_attack_e
  relate,         \* its ground-truth database
  exs,            \* the last value read from it
  q_o, q_t,       \* the inferred set
  uniq,           \* the ciphertext chunks that have been inferred
  correct, common, leak,
  it,             \* stat_db: the keys of the target still to come
  pc,             \* "stat", "left", "right", "done", or "exit" after exit(1)
  errors,         \* counted against the bound
  tried, again    \* history: the ciphertext chunks taken from q_t, and whether
                  \* one was taken twice

db == <<o, t, leaks, encrypted, relate>>
vars == <<db, exs, q_o, q_t, uniq, correct, common, leak, it, pc, errors,
          tried, again>>

\* The smallest count is on top.
cmp(a, b) == a.count > b.count
H == INSTANCE Heap WITH comp <- cmp

----------------------------------------------------------------------------
\* The databases locality_count writes for a backup.

Databases(b) ==
  [freq  |-> FoldLeft(Counted, EmptyStore, b),
   left  |-> FoldLeft(LAMBDA m, i : Neighbour(m, b[i], b[i-1]), EmptyStore,
                      [i \in 1..(Len(b) - 1) |-> i + 1]),
   right |-> FoldLeft(LAMBDA m, i : Neighbour(m, b[i-1], b[i]), EmptyStore,
                      [i \in 1..(Len(b) - 1) |-> i + 1])]

\* The iteration order of a database.
Ordered(m) == SetToSortSeq(DOMAIN m, <)

(***************************************************************************)
(* The ground truth of the target: combined.cc and minhash.cc put an entry *)
(* for every chunk they encrypt and do not look at the status of the Put.  *)
(* Without encryption a chunk stands for itself.                           *)
(***************************************************************************)
Related(d) ==
  IF d = NULL THEN errors = 0 /\ relate = [f \in DOMAIN t.freq |-> f]
  ELSE \E F \in SUBSET DOMAIN t.freq :
         /\ errors = Cardinality(F) /\ errors <= MaxErrors
         /\ relate = [f \in DOMAIN t.freq \ F |-> d[f]]

Init ==
  /\ leaks \in LeakModes
  /\ \E a, b \in Backups : o = Databases(a) /\ t = Databases(b)
  /\ exs = NULL
  /\ \E d \in Truths : encrypted = (d # NULL) /\ Related(d)
  /\ q_o = <<>> /\ q_t = <<>> /\ uniq = {}
  /\ correct = 0 /\ common = 0 /\ leak = 0
  /\ it = Ordered(t.freq) /\ pc = "stat"
  /\ tried = {} /\ again = FALSE

total == Cardinality(DOMAIN t.freq)

Entry(m, f) == [key |-> f, count |-> m[f]]

\* The calls out of S that fail, within the bound.
Failing(S) == {F \in SUBSET S : errors + Cardinality(F) <= MaxErrors}

Fail(F) == errors' = errors + Cardinality(F)

(***************************************************************************)
(* A leaked chunk that the auxiliary backup has too is a known pair.  The  *)
(* status of the Put that records it is not looked at.  x: its plaintext;  *)
(* n: the errors of this iteration so far.                                 *)
(***************************************************************************)
Leaked(x, f, n) ==
  /\ q_o' = Append(q_o, Entry(o.freq, x))
  /\ q_t' = Append(q_t, Entry(t.freq, f))
  /\ leak' = leak + 1
  /\ errors' \in (errors + n)..MaxErrors /\ errors' <= errors + n + 1
  /\ uniq' = IF errors' = errors + n THEN uniq \cup {f} ELSE uniq

(***************************************************************************)
(* What exs holds after the Get of f in the ground truth, whose status is  *)
(* not looked at either: without an entry, the value of the Get before it. *)
(***************************************************************************)
Read(f) == IF f \in DOMAIN relate THEN relate[f] ELSE exs

(***************************************************************************)
(* The key that is looked up in the auxiliary backup.  While exs is empty, *)
(* FP_SIZE bytes from c_str() are whatever lies there.                     *)
(***************************************************************************)
Plaintext(x) == IF x = NULL THEN DOMAIN o.freq \cup {NULL} ELSE {x}

(***************************************************************************)
(* stat_db, one key of the target: whether it is leaked is drawn at random.*)
(* A Get that fails in the ground truth (n = 1) leaves exs as it is.       *)
(***************************************************************************)
Stat ==
  /\ pc = "stat" /\ it # <<>>
  /\ it' = Tail(it)
  /\ \E n \in {0, 1} :
       /\ n = 1 => encrypted /\ errors < MaxErrors
       /\ exs' = IF n = 1 THEN exs ELSE Read(Head(it))
       /\ \/ errors' = errors + n /\ UNCHANGED <<q_o, q_t, uniq, common, leak>>
          \/ /\ leaks
             /\ common' = common + 1
             /\ \E x \in Plaintext(exs') :
                  IF x \in DOMAIN o.freq THEN Leaked(x, Head(it), n)
                  ELSE errors' = errors + n /\ UNCHANGED <<q_o, q_t, uniq, leak>>
  /\ UNCHANGED <<db, correct, pc, tried, again>>

(***************************************************************************)
(* Keeping the k most frequent entries of a list, and taking them out, the *)
(* least frequent first.                                                   *)
(***************************************************************************)
Keep(h, e, k) ==
  IF Len(h) < k THEN H!Push(h, e)
  ELSE IF e.count > H!Top(h).count THEN H!Push(H!Pop(h), e) ELSE h

Kept(list, k) == FoldLeft(LAMBDA h, e : Keep(h, e, k), <<>>, list)

RECURSIVE Drain(_)
Drain(h) == IF h = <<>> THEN <<>> ELSE <<H!Top(h)>> \o Drain(H!Pop(h))

db_insert(m, k) ==
  LET keys == Ordered(m)
  IN  Kept([i \in 1..Len(keys) |-> Entry(m, keys[i])], k)

Keys(q) == {q[i].key : i \in 1..Len(q)}

\* The inferred set starts with the u most frequent chunks of both sides.
Initialise ==
  /\ pc = "stat" /\ it = <<>>
  /\ pc' = "left"
  /\ IF leaks THEN UNCHANGED <<q_o, q_t, uniq, errors>>
     ELSE /\ q_o' = Reverse(Drain(db_insert(o.freq, INIT_K)))
          /\ q_t' = Reverse(Drain(db_insert(t.freq, INIT_K)))
          /\ \E F \in Failing(Keys(q_t')) : Fail(F) /\ uniq' = Keys(q_t') \ F
  /\ UNCHANGED <<db, exs, correct, common, leak, it, tried, again>>

----------------------------------------------------------------------------
\* An iteration of the main loop: the left neighbours, then the right ones.

List(m, f) == IF f \in DOMAIN m THEN m[f] ELSE <<>>

(***************************************************************************)
(* The pairs of two neighbour lists.  Both queues are popped together      *)
(* until one is empty, the least frequent first, and the stacks turn the   *)
(* order round.                                                            *)
(***************************************************************************)
Pairs(lo, lt) ==
  LET a == Drain(Kept(lo, TH_K))
      b == Drain(Kept(lt, TH_K))
      n == IF Len(a) < Len(b) THEN Len(a) ELSE Len(b)
  IN  Reverse([i \in 1..n |-> [o |-> a[i], t |-> b[i]]])

Fits(g) == Len(g.q_o) + 1 <= QUEUE_LIMIT

Inferred_status(g, p, F) ==   \* faulty: an earlier failure still counts
  errors = 0 /\ F = {} /\ p.t.key \in g.uniq
(***************************************************************************)
(* Whether the database of inferred chunks has the ciphertext chunk; a Get *)
(* that fails is taken for "no".                                           *)
(***************************************************************************)
Inferred(g, p, F) == p.t.key \in g.uniq /\ <<"get", p.t.key>> \notin F

Recorded_none(g, p, F) == g.uniq   \* faulty: without the Put
Recorded(g, p, F) ==
  IF <<"put", p.t.key>> \in F THEN g.uniq ELSE g.uniq \cup {p.t.key}

(***************************************************************************)
(* A pair whose ciphertext chunk is new is put into the queues; the first  *)
(* one that does not fit ends the loop.  F: the calls that fail.           *)
(***************************************************************************)
Infer(g, p, F) ==
  IF g.full \/ Inferred(g, p, F) THEN g
  ELSE IF ~Fits(g) THEN [g EXCEPT !.full = TRUE]
  ELSE [g EXCEPT !.q_o = Append(@, p.o), !.q_t = Append(@, p.t),
                 !.uniq = Recorded(g, p, F)]

Grown(pairs, F) ==
  FoldLeft(LAMBDA g, p : Infer(g, p, F),
           [q_o |-> q_o, q_t |-> q_t, uniq |-> uniq, full |-> FALSE], pairs)

Calls(pairs) == {"get", "put"} \X {pairs[i].t.key : i \in 1..Len(pairs)}

LeftPairs == Pairs(List(o.left, Head(q_o).key), List(t.left, Head(q_t).key))
RightPairs == Pairs(List(o.right, Head(q_o).key), List(t.right, Head(q_t).key))

\* A hit: the plaintext of the ciphertext chunk is the one it is paired with.
Hit(x, f) == f \in DOMAIN relate /\ relate[f] = x

Hits == IF Hit(Head(q_o).key, Head(q_t).key) THEN correct + 1 ELSE correct

Left ==
  /\ pc = "left" /\ q_o # <<>> /\ q_t # <<>>
  /\ correct' = Hits
  /\ \E F \in Failing(Calls(LeftPairs)) :
       /\ Fail(F)
       /\ LET g == Grown(LeftPairs, F)
          IN  q_o' = g.q_o /\ q_t' = g.q_t /\ uniq' = g.uniq
  /\ pc' = "right"
  /\ UNCHANGED <<db, exs, common, leak, it, tried, again>>

Right ==
  /\ pc = "right"
  /\ \E F \in Failing(Calls(RightPairs)) :
       /\ Fail(F)
       /\ LET g == Grown(RightPairs, F)
          IN  q_o' = Tail(g.q_o) /\ q_t' = Tail(g.q_t) /\ uniq' = g.uniq
  /\ tried' = tried \cup {Head(q_t).key}
  /\ again' = (again \/ Head(q_t).key \in tried)
  /\ pc' = "left"
  /\ UNCHANGED <<db, exs, correct, common, leak, it>>

(***************************************************************************)
(* exit(1): the Get of a leaked chunk in the auxiliary backup, the one in  *)
(* the ground truth of the main loop, or that of a neighbour list fails.   *)
(***************************************************************************)
GetFails ==
  /\ errors < MaxErrors /\ errors' = errors + 1
  /\ pc' = "exit"
  /\ \/ /\ pc = "stat" /\ it # <<>> /\ leaks
        /\ common' = common + 1 /\ UNCHANGED correct
     \/ /\ pc = "left" /\ q_o # <<>> /\ q_t # <<>>
        /\ (correct' = Hits \/ (encrypted /\ correct' = correct))
        /\ UNCHANGED common
     \/ pc = "right" /\ UNCHANGED <<correct, common>>
  /\ UNCHANGED <<db, exs, q_o, q_t, uniq, leak, it, tried, again>>

Finish ==
  /\ pc = "left" /\ (q_o = <<>> \/ q_t = <<>>)
  /\ pc' = "done"
  /\ UNCHANGED <<db, exs, q_o, q_t, uniq, correct, common, leak, it,
                 errors, tried, again>>

Next == Stat \/ Initialise \/ Left \/ Right \/ Finish \/ GetFails

Stopped == pc \in {"done", "exit"}

(***************************************************************************)
(* The program is sequential and waits for nothing, so it takes steps      *)
(* until it stops.  This is WF_vars(Next), written out because Next is     *)
(* enabled exactly while ~Stopped.                                         *)
(***************************************************************************)
Fairness == []<>Stopped \/ []<><<TRUE>>_vars

Spec == Init /\ [][Next]_vars /\ Fairness

----------------------------------------------------------------------------
(***************************************************************************)
(* Without errors every ciphertext chunk is inferred at most once: none is *)
(* taken from q_t twice, none waits in it twice.                           *)
(***************************************************************************)
InferredOnce ==
  errors = 0 =>
    /\ ~again
    /\ Keys(q_t) \cap tried = {}
    /\ Cardinality(Keys(q_t)) = Len(q_t)

(***************************************************************************)
(* Without errors, here or where the ground truth was written, a leaked    *)
(* chunk enters the inferred set with its own plaintext.                   *)
(***************************************************************************)
LeakedPairsTrue ==
  pc = "stat" /\ errors = 0 =>
    \A i \in 1..Len(q_t) : Hit(q_o[i].key, q_t[i].key)

(***************************************************************************)
(* Without errors the number of inferences printed, correct+common-leak,   *)
(* is at most the number of ciphertext chunks: the inference rate is at    *)
(* most 100%.                                                              *)
(***************************************************************************)
RateAtMostOne == errors = 0 => correct + common - leak <= total

(***************************************************************************)
(* The main loop takes no pair into the inferred set that does not fit,    *)
(* however the queues were filled before.                                  *)
(***************************************************************************)
GrowthLimited ==
  [][pc # "stat" /\ Len(q_o') > Len(q_o) => Len(q_o') <= QUEUE_LIMIT]_vars

(***************************************************************************)
(* The attack comes to an end: the pairs of the main loop run out.         *)
(***************************************************************************)
Terminates == <>Stopped
=============================================================================
