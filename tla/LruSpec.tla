------------------------------ MODULE LruSpec ------------------------------
(***************************************************************************)
(* What the fingerprint cache promises to ddfs.cc, as a state machine over *)
(* the sequence of LruList.                                                *)
(***************************************************************************)
EXTENDS LruList

CONSTANT Chunk

VARIABLES
  s,     \* the fingerprints in recency order
  call   \* the last call: its name, its argument and what it returned

Init == s = <<>> /\ call = <<"init">>

Find(f) ==
  /\ call' = <<"find", f, Cached(s, f)>>
  /\ s' = IF Cached(s, f) THEN Touch(s, f) ELSE s
Putdata(f) ==
  /\ call' = <<"putdata", f, ~Cached(s, f)>>
  /\ s' = putdata(s, f)
Reload == call' = <<"reload">> /\ s' = init_conf(s)

Next == Reload \/ \E f \in Chunk : Find(f) \/ Putdata(f)

Spec == Init /\ [][Next]_<<s, call>>
=============================================================================
