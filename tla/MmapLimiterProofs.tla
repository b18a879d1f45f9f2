------------------------ MODULE MmapLimiterProofs ---------------------------
(***************************************************************************)
(* The slots of the MmapLimiter, for any finite sets of threads and files  *)
(* and any limit.                                                          *)
(***************************************************************************)
EXTENDS MmapLimiter, FiniteSetTheorems, TLAPS

\* Threads and file handles are finite in number and different things, and the
\* limit is what MaxMmaps returns, 1000 or 0.
Finite ==
  /\ IsFiniteSet(Thread) /\ IsFiniteSet(File) /\ Thread \cap File = {}
  /\ Limit \in Nat

\* SlotsExact is inductive with the types; WithinLimit needs that Acquire never
\* takes allowed_ below 0.
SlotsInv == TypeOK /\ allowed_ >= 0 /\ SlotsExact

LEMMA HoldersFinite == Finite => IsFiniteSet(Holders) /\ Cardinality(Holders) \in Nat
<1> SUFFICES ASSUME Finite PROVE IsFiniteSet(Holders) /\ Cardinality(Holders) \in Nat
    OBVIOUS
<1>1. IsFiniteSet(File \cup Thread)
      BY FS_Union DEF Finite
<1>2. Holders \in SUBSET (File \cup Thread)
      BY DEF Holders
<1> QED
    BY <1>1, <1>2, FS_Subset, FS_CardinalityType

\* What every step of NewRandomAccessFile, Acquire, Release and the destructor
\* does to allowed_ and to the holders.
LEMMA StepHolders ==
  ASSUME Finite, TypeOK, NEW t \in Thread, LimiterStep(t)
  PROVE  \/ Holders' = Holders /\ allowed_' = allowed_
         \/ t \notin Holders /\ Holders' = Holders \cup {t} /\ allowed_ > 0
              /\ allowed_' = allowed_ - 1
         \/ t \in Holders /\ Holders' = Holders \ {t} /\ allowed_' = allowed_ + 1
         \/ \E x \in Holders, y \in File \cup Thread :
              /\ y \notin Holders /\ Holders' = (Holders \ {x}) \cup {y}
              /\ allowed_' = allowed_
<1> USE DEF TypeOK, Finite, Holders, Goto
<1>1. CASE Open(t)
      BY <1>1 DEF Open
<1>2. CASE Glance(t)
      BY <1>2 DEF Glance, NewFile
<1>3. CASE Acquire(t)
  <2>1. CASE allowed_ <= 0
        BY <1>3, <2>1 DEF Acquire, NewFile
  <2>2. CASE allowed_ > 0
        BY <1>3, <2>2 DEF Acquire
  <2> QED
      BY <2>1, <2>2
<1>4. CASE Map(t)
  <2>1. PICK f \in File : handles[f] = "none" /\ handles' = [handles EXCEPT ![f] = "mmap"]
        BY <1>4 DEF Map, NewFile
  <2>2. t \in Holders /\ f \notin Holders /\ allowed_' = allowed_
        BY <1>4, <2>1 DEF Map
  <2>3. Holders' = (Holders \ {t}) \cup {f}
        BY <1>4, <2>1 DEF Map
  <2> QED
      BY <2>2, <2>3
<1>5. CASE MapFails(t)
      BY <1>5 DEF MapFails
<1>6. CASE Delete(t)
  <2>1. PICK f \in File : /\ handles[f] # "none"
                          /\ handles' = [handles EXCEPT ![f] = "none"]
                          /\ Goto(t, IF handles[f] = "mmap" THEN "unmapped" ELSE "idle")
        BY <1>6 DEF Delete
  <2>2. CASE handles[f] = "mmap"
    <3>1. f \in Holders /\ t \notin Holders /\ allowed_' = allowed_
          BY <1>6, <2>2 DEF Delete
    <3>2. Holders' = (Holders \ {f}) \cup {t}
          BY <1>6, <2>1, <2>2 DEF Delete
    <3> QED
        BY <3>1, <3>2
  <2>3. CASE handles[f] # "mmap"
        BY <1>6, <2>1, <2>3 DEF Delete
  <2> QED
      BY <2>2, <2>3
<1>7. CASE Release(t)
      BY <1>7 DEF Release
<1> QED
    BY <1>1, <1>2, <1>3, <1>4, <1>5, <1>6, <1>7 DEF LimiterStep

LEMMA LimiterTypes == TypeOK /\ [Next]_vars => TypeOK'
<1> SUFFICES ASSUME TypeOK, [Next]_vars PROVE TypeOK'
    OBVIOUS
<1> USE DEF TypeOK
<1>1. ASSUME NEW t \in Thread, LimiterStep(t) PROVE TypeOK'
      BY <1>1 DEF LimiterStep, Open, Glance, Acquire, Map, MapFails, Delete,
         Release, Goto, NewFile
<1> QED
    BY <1>1 DEF Next, vars

\* The sum of slots left and slots in use stays what it is.
LEMMA SlotsStep == Finite /\ SlotsInv /\ [Next]_vars => SlotsInv'
<1> SUFFICES ASSUME Finite, SlotsInv, [Next]_vars PROVE SlotsInv'
    OBVIOUS
<1>1. TypeOK' /\ allowed_ \in Int /\ IsFiniteSet(Holders) /\ Cardinality(Holders) \in Nat
      BY LimiterTypes, HoldersFinite DEF SlotsInv, TypeOK
<1>2. CASE UNCHANGED vars
      BY <1>1, <1>2 DEF SlotsInv, SlotsExact, Holders, vars
<1>3. ASSUME NEW t \in Thread, LimiterStep(t) PROVE SlotsInv'
  <2>0. allowed_ >= 0 /\ allowed_ + Cardinality(Holders) = Limit
        BY DEF SlotsInv, SlotsExact
  <2>1. CASE Holders' = Holders /\ allowed_' = allowed_
        BY <1>1, <2>0, <2>1 DEF SlotsInv, SlotsExact
  <2>2. CASE t \notin Holders /\ Holders' = Holders \cup {t} /\ allowed_ > 0
               /\ allowed_' = allowed_ - 1
    <3>1. Cardinality(Holders \cup {t}) = Cardinality(Holders) + 1
          BY <1>1, <2>2, FS_AddElement
    <3> QED
        BY <1>1, <2>0, <2>2, <3>1 DEF SlotsInv, SlotsExact, Finite
  <2>3. CASE t \in Holders /\ Holders' = Holders \ {t} /\ allowed_' = allowed_ + 1
    <3>1. Cardinality(Holders \ {t}) = Cardinality(Holders) - 1
          BY <1>1, <2>3, FS_RemoveElement
    <3> QED
        BY <1>1, <2>0, <2>3, <3>1 DEF SlotsInv, SlotsExact, Finite
  <2>4. ASSUME NEW x \in Holders, NEW y \in File \cup Thread, y \notin Holders,
               Holders' = (Holders \ {x}) \cup {y}, allowed_' = allowed_
        PROVE  SlotsInv'
    <3>1. /\ IsFiniteSet(Holders \ {x})
          /\ Cardinality(Holders \ {x}) = Cardinality(Holders) - 1
          BY <1>1, FS_RemoveElement
    <3>2. y \notin Holders \ {x}
          BY <2>4
    <3>3. Cardinality((Holders \ {x}) \cup {y}) = Cardinality(Holders \ {x}) + 1
          BY <3>1, <3>2, FS_AddElement
    <3> QED
        BY <1>1, <2>0, <2>4, <3>1, <3>3 DEF SlotsInv, SlotsExact, Finite
  <2> QED
      BY <1>3, <2>1, <2>2, <2>3, <2>4, StepHolders DEF SlotsInv
<1> QED
    BY <1>2, <1>3 DEF Next

LEMMA SlotsInit == Finite /\ Init => SlotsInv
<1> SUFFICES ASSUME Finite, Init PROVE SlotsInv
    OBVIOUS
<1>1. Holders = {}
      BY DEF Init, Holders
<1> QED
    BY <1>1, FS_EmptySet DEF Init, Finite, SlotsInv, TypeOK, SlotsExact

\* No slot is lost, given out twice or given back twice, on any path.
THEOREM SlotsKept == ASSUME Finite PROVE Spec => []SlotsExact
<1>1. SlotsInv => SlotsExact
      BY DEF SlotsInv
<1> QED
    BY SlotsInit, SlotsStep, <1>1, PTL DEF Spec

\* Never more files are mapped than the limit allows, although Acquire first
\* looks at allowed_ without the mutex.
THEOREM LimitKept == ASSUME Finite PROVE Spec => []WithinLimit
<1>1. SlotsInv => WithinLimit
  <2> SUFFICES ASSUME SlotsInv PROVE WithinLimit
      OBVIOUS
  <2> DEFINE M == {f \in File : handles[f] = "mmap"}
  <2>1. M \in SUBSET Holders
        BY DEF Holders
  <2>2. Cardinality(M) <= Cardinality(Holders) /\ IsFiniteSet(M)
        BY <2>1, HoldersFinite, FS_Subset
  <2>3. Cardinality(M) \in Nat /\ Cardinality(Holders) \in Nat
        BY <2>2, HoldersFinite, FS_CardinalityType
  <2>4. allowed_ \in Int /\ allowed_ >= 0 /\ allowed_ + Cardinality(Holders) = Limit
        BY DEF SlotsInv, TypeOK, SlotsExact
  <2> QED
      BY <2>2, <2>3, <2>4 DEF WithinLimit, Finite
<1> QED
    BY SlotsInit, SlotsStep, <1>1, PTL DEF Spec
=============================================================================
