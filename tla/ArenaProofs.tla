---------------------------- MODULE ArenaProofs -----------------------------
(***************************************************************************)
(* The pieces an arena hands out lie in their blocks and share no byte, for*)
(* every sequence of requests.                                             *)
(***************************************************************************)
EXTENDS Arena, SequenceTheorems, TLAPS

\* Requests are not empty, as Allocate asserts; align is 8 on the platforms
\* whose pointers have at most eight bytes.
Requests == Sizes \subseteq Nat \ {0} /\ kBlockSize \in Nat \ {0} /\ Align = 8

TypeOK ==
  /\ blocks \in Seq(Nat)
  /\ given \in Seq([block : Nat, off : Nat, size : Nat, aligned : BOOLEAN])
  /\ alloc_ptr \in [block : Nat, off : Nat] /\ remaining \in Nat

\* What is left is the end of the current block.
Left ==
  /\ alloc_ptr.block <= Len(blocks)
  /\ IF alloc_ptr.block = 0 THEN remaining = 0
     ELSE alloc_ptr.off + remaining <= blocks[alloc_ptr.block]
\* A piece is in its block, and before alloc_ptr_ if that block is current.
Placed(p) ==
  /\ p.block \in 1..Len(blocks) /\ p.off + p.size <= blocks[p.block]
  /\ p.block = alloc_ptr.block => p.off + p.size <= alloc_ptr.off
  /\ p.aligned => p.off % Align = 0
Apart(p, q) ==
  p.block = q.block => p.off + p.size <= q.off \/ q.off + q.size <= p.off

ArenaInv ==
  /\ TypeOK /\ Left
  /\ \A i \in 1..Len(given) : Placed(given[i])
  /\ \A i, j \in 1..Len(given) : i < j => Apart(given[i], given[j])

\* One more piece p: it is placed, it is apart from the others, and the others
\* stay placed.
LEMMA OneMore ==
  ASSUME ArenaInv, NEW p \in [block : Nat, off : Nat, size : Nat, aligned : BOOLEAN],
         given' = Append(given, p), Placed(p)',
         \A i \in 1..Len(given) : Placed(given[i])' /\ Apart(given[i], p)
  PROVE  /\ \A i \in 1..Len(given') : Placed(given[i])'
         /\ \A i, j \in 1..Len(given') : i < j => Apart(given'[i], given'[j])
<1>1. /\ Len(given) \in Nat /\ Len(given') = Len(given) + 1
      /\ \A i \in 1..Len(given) : given'[i] = given[i]
      /\ given'[Len(given) + 1] = p
      BY AppendProperties, LenProperties DEF ArenaInv, TypeOK
<1>2. ASSUME NEW i \in 1..Len(given') PROVE i \in 1..Len(given) \/ i = Len(given) + 1
      BY <1>1
<1>3. ASSUME NEW i \in 1..Len(given') PROVE Placed(given[i])'
      BY <1>1, <1>2 DEF Placed
<1>4. ASSUME NEW i \in 1..Len(given'), NEW j \in 1..Len(given'), i < j
      PROVE  Apart(given'[i], given'[j])
  <2>1. i \in 1..Len(given)
        BY <1>1, <1>4
  <2>2. CASE j \in 1..Len(given)
        BY <1>1, <1>4, <2>1, <2>2 DEF ArenaInv
  <2>3. CASE j = Len(given) + 1
        BY <1>1, <2>1, <2>3
  <2> QED
      BY <1>2, <2>2, <2>3
<1> QED
    BY <1>3, <1>4

\* A piece cut from the current block.
LEMMA BumpKeeps ==
  ASSUME Requests, ArenaInv, NEW n \in Sizes, NEW slop \in Nat, NEW a \in BOOLEAN,
         n + slop <= remaining, a => (alloc_ptr.off + slop) % Align = 0,
         Bump(n, slop, a)
  PROVE  ArenaInv'
<1>0. PICK p : p = Piece(alloc_ptr.block, alloc_ptr.off + slop, n, a)
      OBVIOUS
<1>1. /\ n \in Nat \ {0} /\ alloc_ptr.block \in 1..Len(blocks)
      /\ alloc_ptr.block \in Nat /\ alloc_ptr.off \in Nat /\ remaining \in Nat
      /\ Len(blocks) \in Nat /\ blocks[alloc_ptr.block] \in Nat
      /\ alloc_ptr.off + remaining <= blocks[alloc_ptr.block]
      BY LenProperties, ElementOfSeq DEF Requests, ArenaInv, TypeOK, Left
<1>2. p \in [block : Nat, off : Nat, size : Nat, aligned : BOOLEAN]
      BY <1>0, <1>1 DEF Piece
<1>3. /\ given' = Append(given, p) /\ UNCHANGED blocks
      /\ alloc_ptr' = [block |-> alloc_ptr.block, off |-> alloc_ptr.off + slop + n]
      /\ remaining' = remaining - (n + slop)
      BY <1>0, <1>1 DEF Bump, ArenaInv, TypeOK
<1>4. TypeOK'
  <2>1. given' \in Seq([block : Nat, off : Nat, size : Nat, aligned : BOOLEAN])
        BY <1>2, <1>3, AppendProperties DEF ArenaInv, TypeOK
  <2> QED
      BY <1>1, <1>3, <2>1, SMTT(60) DEF ArenaInv, TypeOK
<1>5. Left'
      BY <1>1, <1>3, SMTT(60) DEF Left
<1>6. Placed(p)'
      BY <1>0, <1>1, <1>3, SMTT(60) DEF Placed, Piece
<1>7. ASSUME NEW i \in 1..Len(given) PROVE Placed(given[i])' /\ Apart(given[i], p)
  <2>1. given[i] \in [block : Nat, off : Nat, size : Nat, aligned : BOOLEAN]
        BY ElementOfSeq DEF ArenaInv, TypeOK
  <2>2. given'[i] = given[i]
        BY <1>2, <1>3, AppendProperties DEF ArenaInv, TypeOK
  <2>3. Placed(given[i])
        BY DEF ArenaInv
  <2> QED
      BY <1>1, <1>3, <2>1, <2>2, <2>3, <1>0, SMTT(60) DEF Placed, Apart, Piece
<1> QED
    BY <1>2, <1>3, <1>4, <1>5, <1>6, <1>7, OneMore DEF ArenaInv

\* A piece at the start of a new block.
LEMMA FallbackKeeps ==
  ASSUME Requests, ArenaInv, NEW n \in Sizes, NEW a \in BOOLEAN, AllocateFallback(n, a)
  PROVE  ArenaInv'
<1> DEFINE large == n > kBlockSize \div 4
           b == Len(blocks) + 1
           size == IF large THEN n ELSE kBlockSize
<1>0. PICK p : p = Piece(b, 0, n, a)
      OBVIOUS
<1>1. /\ n \in Nat \ {0} /\ Len(blocks) \in Nat /\ kBlockSize \in Nat \ {0}
      /\ alloc_ptr.block \in Nat /\ alloc_ptr.off \in Nat /\ remaining \in Nat
      BY LenProperties DEF Requests, ArenaInv, TypeOK
<1>2. n <= size /\ size \in Nat /\ (~large => n <= kBlockSize)
      BY <1>1
<1>3. p \in [block : Nat, off : Nat, size : Nat, aligned : BOOLEAN]
      BY <1>0, <1>1 DEF Piece
<1>4. /\ given' = Append(given, p) /\ blocks' = Append(blocks, size)
      /\ alloc_ptr' = IF large THEN alloc_ptr ELSE [block |-> b, off |-> n]
      /\ remaining' = IF large THEN remaining ELSE kBlockSize - n
      BY <1>0 DEF AllocateFallback
<1>5. /\ Len(blocks') = b /\ blocks'[b] = size
      /\ \A i \in 1..Len(blocks) : blocks'[i] = blocks[i]
      BY <1>2, <1>4, AppendProperties DEF ArenaInv, TypeOK
<1>6. TypeOK'
  <2>1. given' \in Seq([block : Nat, off : Nat, size : Nat, aligned : BOOLEAN])
        BY <1>3, <1>4, AppendProperties DEF ArenaInv, TypeOK
  <2>2. blocks' \in Seq(Nat)
        BY <1>2, <1>4, AppendProperties DEF ArenaInv, TypeOK
  <2>3. CASE large
        BY <1>4, <2>1, <2>2, <2>3 DEF ArenaInv, TypeOK
  <2>4. CASE ~large
        BY <1>1, <1>2, <1>4, <2>1, <2>2, <2>4 DEF TypeOK
  <2> QED
      BY <2>3, <2>4
<1>7. Left'
  <2>1. CASE large
        BY <1>1, <1>4, <1>5, <2>1 DEF Left, ArenaInv
  <2>2. CASE ~large
        BY <1>1, <1>2, <1>4, <1>5, <2>2 DEF Left
  <2> QED
      BY <2>1, <2>2
<1>8. Placed(p)'
  <2>1. CASE large
        BY <1>0, <1>1, <1>2, <1>4, <1>5, <2>1 DEF Placed, Piece, ArenaInv, Left, Requests
  <2>2. CASE ~large
        BY <1>0, <1>1, <1>2, <1>4, <1>5, <2>2 DEF Placed, Piece, Requests
  <2> QED
      BY <2>1, <2>2
<1>9. ASSUME NEW i \in 1..Len(given) PROVE Placed(given[i])' /\ Apart(given[i], p)
  <2>1. given[i] \in [block : Nat, off : Nat, size : Nat, aligned : BOOLEAN]
        BY ElementOfSeq DEF ArenaInv, TypeOK
  <2>2. given'[i] = given[i]
        BY <1>3, <1>4, AppendProperties DEF ArenaInv, TypeOK
  <2>3. Placed(given[i])
        BY DEF ArenaInv
  <2>4. given[i].block # b
        BY <1>1, <2>3 DEF Placed
  <2>5. CASE large
        BY <1>0, <1>1, <1>4, <1>5, <2>1, <2>2, <2>3, <2>4, <2>5 DEF Placed, Apart, Piece
  <2>6. CASE ~large
        BY <1>0, <1>1, <1>4, <1>5, <2>1, <2>2, <2>3, <2>4, <2>6 DEF Placed, Apart, Piece
  <2> QED
      BY <2>5, <2>6
<1> QED
    BY <1>3, <1>4, <1>6, <1>7, <1>8, <1>9, OneMore DEF ArenaInv

\* However Allocate and AllocateAligned are mixed, the pieces handed out lie in
\* their blocks, share no byte, and are aligned where that was asked for.
THEOREM PiecesKeptApart == ASSUME Requests PROVE Spec => []PiecesDisjoint
<1>1. Init => ArenaInv
      BY EmptySeq DEF Init, ArenaInv, TypeOK, Left
<1>2. ArenaInv /\ [Next]_vars => ArenaInv'
  <2> SUFFICES ASSUME ArenaInv, [Next]_vars PROVE ArenaInv'
      OBVIOUS
  <2>0. alloc_ptr.off \in Nat
        BY DEF ArenaInv, TypeOK
  <2>1. CASE UNCHANGED vars
        BY <2>1 DEF vars, ArenaInv, TypeOK, Left, Placed
  <2>2. ASSUME NEW n \in Sizes, Allocate(n) PROVE ArenaInv'
    <3>1. n \in Nat /\ remaining \in Nat
          BY DEF Requests, ArenaInv, TypeOK
    <3>2. CASE n <= remaining /\ Bump(n, 0, FALSE)
      <4>1. n + 0 <= remaining /\ 0 \in Nat /\ FALSE \in BOOLEAN
            BY <3>1, <3>2
      <4>2. Bump(n, 0, FALSE)
            BY <3>2
      <4> QED
          BY <4>1, <4>2, BumpKeeps
    <3>3. CASE AllocateFallback(n, FALSE)
          BY <3>3, FallbackKeeps
    <3> QED
        BY <2>2, <3>2, <3>3 DEF Allocate
  <2>3. ASSUME NEW n \in Sizes, AllocateAligned(n) PROVE ArenaInv'
    <3>1. n \in Nat /\ remaining \in Nat
          BY DEF Requests, ArenaInv, TypeOK
    <3>2. PICK slop : slop = Slop
          OBVIOUS
    <3>3. slop \in Nat /\ (alloc_ptr.off + slop) % Align = 0
          BY <2>0, <3>2 DEF Slop, Requests
    <3>5. CASE NeededBytes(n) <= remaining /\ Bump(n, Slop, TRUE)
          BY <3>1, <3>2, <3>3, <3>5, BumpKeeps DEF NeededBytes
    <3>4. CASE AllocateFallback(n, TRUE)
          BY <3>4, FallbackKeeps
    <3> QED
        BY <2>3, <3>4, <3>5 DEF AllocateAligned
  <2> QED
      BY <2>1, <2>2, <2>3 DEF Next
<1>3. ArenaInv => PiecesDisjoint
  <2> SUFFICES ASSUME ArenaInv PROVE PiecesDisjoint
      OBVIOUS
  <2>1. DOMAIN given = 1..Len(given)
        BY LenProperties DEF ArenaInv, TypeOK
  <2> QED
      BY <2>1 DEF ArenaInv, Placed, Apart, PiecesDisjoint
<1> QED
    BY <1>1, <1>2, <1>3, PTL DEF Spec
=============================================================================
