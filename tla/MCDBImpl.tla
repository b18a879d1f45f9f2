------------------------------ MODULE MCDBImpl ------------------------------
(***************************************************************************)
(* Two writers; without reuse_logs a crash may tear a record.              *)
(***************************************************************************)
EXTENDS DBImpl

Mode(reuse, syncs, writes, stops_, faults_, reads_) ==
  [reuse_logs |-> reuse, torn |-> ~reuse, half |-> FALSE, Syncs |-> syncs,
   MaxWrites |-> writes, MaxStops |-> stops_, MaxFaults |-> faults_,
   MaxReads |-> reads_]
MCModes == {Mode(FALSE, BOOLEAN, 2, 2, 0, 0), Mode(TRUE, BOOLEAN, 2, 2, 0, 0),
            Mode(FALSE, {TRUE}, 3, 1, 0, 0), Mode(FALSE, {FALSE}, 3, 1, 0, 0),
            Mode(FALSE, {FALSE}, 3, 0, 0, 1), Mode(FALSE, {FALSE}, 4, 0, 1, 0),
            Mode(FALSE, BOOLEAN, 2, 1, 1, 0)}
FreshOnly == {Mode(FALSE, BOOLEAN, 3, 1, 0, 0)}
=============================================================================
