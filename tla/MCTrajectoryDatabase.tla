------------------------ MODULE MCTrajectoryDatabase ------------------------
(***************************************************************************)
(* Instances of TrajectoryDatabase for TLC.                                *)
(***************************************************************************)
EXTENDS TrajectoryDatabase

MCTime == 0 .. 2
=============================================================================
