------------------------------- MODULE Arena --------------------------------
(***************************************************************************)
(* The allocator of a memtable: pieces cut from blocks of kBlockSize, large*)
(* requests in a block of their own.  An address is a block and an offset; *)
(* operator new[] returns aligned memory.                                  *)
(***************************************************************************)
EXTENDS Integers, Sequences

CONSTANTS
  kBlockSize, Align,
  Sizes,            \* the requests
  MaxRequests       \* bound: requests made

VARIABLES
  blocks,           \* the size of each block
  alloc_ptr,        \* block and offset
  remaining,        \* alloc_bytes_remaining_
  given             \* history: the pieces handed out

vars == <<blocks, alloc_ptr, remaining, given>>

Init ==
  /\ blocks = <<>> /\ given = <<>>
  /\ alloc_ptr = [block |-> 0, off |-> 0] /\ remaining = 0

Piece(b, o, n, a) == [block |-> b, off |-> o, size |-> n, aligned |-> a]

\* alloc_ptr_ moves past slop bytes and the piece.
Bump(n, slop, aligned) ==
  /\ given' = Append(given, Piece(alloc_ptr.block, alloc_ptr.off + slop, n, aligned))
  /\ alloc_ptr' = [alloc_ptr EXCEPT !.off = @ + slop + n]
  /\ remaining' = remaining - (n + slop)
  /\ UNCHANGED blocks

\* A large piece does not give up what is left of the current block.
AllocateFallback(n, aligned) ==
  LET large == n > kBlockSize \div 4
      b == Len(blocks) + 1
  IN  /\ blocks' = Append(blocks, IF large THEN n ELSE kBlockSize)
      /\ given' = Append(given, Piece(b, 0, n, aligned))
      /\ alloc_ptr' = IF large THEN alloc_ptr ELSE [block |-> b, off |-> n]
      /\ remaining' = IF large THEN remaining ELSE kBlockSize - n

Allocate(n) ==
  \/ n <= remaining /\ Bump(n, 0, FALSE)
  \/ n > remaining /\ AllocateFallback(n, FALSE)

Slop == (Align - (alloc_ptr.off % Align)) % Align

NeededBytes_bytes(n) == n   \* faulty: the slop is not counted
NeededBytes(n) == n + Slop
AllocateAligned(n) ==
  \/ NeededBytes(n) <= remaining /\ Bump(n, Slop, TRUE)
  \/ NeededBytes(n) > remaining /\ AllocateFallback(n, TRUE)

Next ==
  /\ Len(given) < MaxRequests
  /\ \E n \in Sizes : Allocate(n) \/ AllocateAligned(n)

Spec == Init /\ [][Next]_vars

----------------------------------------------------------------------------
\* PiecesDisjoint: every piece lies inside its block and no two share a byte,
\* however small and large, aligned and unaligned requests are mixed; what an
\* aligned request got is aligned, and MemTable's nodes may be built on it.
PiecesDisjoint ==
  /\ \A i \in DOMAIN given :
       /\ given[i].off + given[i].size <= blocks[given[i].block]
       /\ given[i].aligned => given[i].off % Align = 0
  /\ \A i, j \in DOMAIN given :
       i < j /\ given[i].block = given[j].block =>
         \/ given[i].off + given[i].size <= given[j].off
         \/ given[j].off + given[j].size <= given[i].off
=============================================================================
