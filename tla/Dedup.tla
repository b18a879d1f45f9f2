------------------------------- MODULE Dedup -------------------------------
(***************************************************************************)
(* What the deduplication prototype promises: the chunks of the snapshots  *)
(* are stored once each, in logical order, that is, in the order of their  *)
(* first occurrence.                                                       *)
(***************************************************************************)
EXTENDS Sequences

CONSTANT Chunk

VARIABLES
  stored,  \* the chunks in the store, in storage order
  seen     \* the chunks that have been handled

Init == stored = <<>> /\ seen = {}

Backup(f) ==
  /\ stored' = IF f \in seen THEN stored ELSE Append(stored, f)
  /\ seen' = seen \cup {f}

Next == \E f \in Chunk : Backup(f)

Spec == Init /\ [][Next]_<<stored, seen>>
=============================================================================
