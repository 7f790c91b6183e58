-------------------------------- MODULE MCWarp --------------------------------
(* An instance of Warp for TLC.  Two requests of any method with a fault,  *)
(* or three without one, of which the second may have a body; the third is *)
(* a HEAD when it does not come.                                           *)
EXTENDS Warp

TwoOnly == method[3] = "head"
MCInit ==
  /\ Init /\ method[1] # "head"
  /\ \/ TwoOnly
     \/ method[1] = "get" /\ method[2] # "head" /\ method[3] = "get"

MCNext ==
  /\ Next
  /\ IF TwoOnly THEN req'[3].phase = "new" ELSE faults' = 0
MCSpec == MCInit /\ [][MCNext]_vars
=============================================================================
