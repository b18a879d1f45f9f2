------------------------------- MODULE MCLsm --------------------------------
(***************************************************************************)
(* Two instances of Lsm in one run.  With small table files a merge cuts   *)
(* its output often; no snapshot is taken then, so that no two entries of  *)
(* a user key survive a merge.  With large ones, snapshots are taken.  The *)
(* combination of both is the run of MCLsmSplit.cfg.                       *)
(***************************************************************************)
EXTENDS Lsm

VARIABLE small

Large == INSTANCE Lsm WITH kTargetFileSize <- 9,
                           kMaxGrandParentOverlapBytes <- 9,
                           MaxSnapshots <- 1, MaxExtras <- 0

MCInit == small \in BOOLEAN /\ Init
MCBackground == IF small THEN Background ELSE Large!Background
MCNext ==
  /\ \/ small /\ Next
     \/ ~small /\ Large!Next
  /\ UNCHANGED small

MCSpec ==
  /\ MCInit /\ [][MCNext]_<<vars, small>>
  /\ []<>~Work \/ []<><<MCBackground>>_vars
  /\ []<>~Wakes \/ []<><<ManualStep>>_vars

\* The instance of the configuration alone.
SmallSpec == small = TRUE /\ Init /\ [][Next /\ UNCHANGED small]_<<vars, small>>

MCRanges == {<<NULL, NULL>>, <<1, 1>>}
=============================================================================
