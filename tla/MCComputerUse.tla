--------------------------- MODULE MCComputerUse ---------------------------
(***************************************************************************)
(* Instance of ComputerUse for TLC. The bounds of ComputerUse hold each on *)
(* its own; Budget bounds operations, commands and tasks together, then    *)
(* these and the processes started.                                        *)
(***************************************************************************)
EXTENDS ComputerUse

Begun == used + asked + gen
Budget == Begun <= 3 /\ Begun + starts <= 5
============================================================================
