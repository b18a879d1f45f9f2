------------------------------ MODULE MCDdfs -------------------------------
(***************************************************************************)
(* Instances of Ddfs.  Two of the three fingerprints share a bucket of the *)
(* cache, and the bits of each are covered by those of the other two, so   *)
(* that the filter has false positives.                                    *)
(***************************************************************************)
EXTENDS Ddfs

MCChar == {0, 1, 2}
MCChunk == {<<1, 1>>, <<1, 2>>, <<2, 1>>}
MCPositions(f) == {f[1] % 3, (f[1] + f[2]) % 3}
=============================================================================
