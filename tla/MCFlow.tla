-------------------------------- MODULE MCFlow --------------------------------
(* An instance of Flow for TLC.                                            *)
EXTENDS Flow, TLC
=============================================================================
