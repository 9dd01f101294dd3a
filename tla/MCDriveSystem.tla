--------------------------- MODULE MCDriveSystem ----------------------------
(***************************************************************************)
(* DriveSystem for TLC, with the instances of the node alone.              *)
(***************************************************************************)
EXTENDS DriveSystem, MCCustomODriveNode
=============================================================================
