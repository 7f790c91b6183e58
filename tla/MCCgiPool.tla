------------------------------ MODULE MCCgiPool -------------------------------
(* An instance of CgiPool for TLC.  Of the many ways in which requests may *)
(* come three are taken: two to one docker, of which the first may have a  *)
(* body; three, of which the second has a body and waits; four without a   *)
(* body to two dockers.                                                    *)
EXTENDS CgiPool, TLC
CONSTANTS d1, d2

AllPrompt == ~timeouts /\ \A r \in Requests : habit[r] = "prompt"

TwoOfAnyKind ==
  /\ last = 2 /\ docker = <<d1, d1, d1, d1>>
  /\ \A r \in 2 .. 4 : body[r] = 0 /\ (r = 2 \/ habit[r] = "prompt")
ThreeWithABody ==
  /\ last = 3 /\ docker \in {<<d1, d1, d1, d1>>, <<d1, d1, d2, d1>>}
  /\ body = <<0, BodyLen, 0, 0>> /\ AllPrompt
FourToTwoDockers ==
  /\ last = 4 /\ docker = <<d1, d2, d2, d1>>
  /\ body = <<0, 0, 0, 0>> /\ AllPrompt

MCInit == Init /\ (TwoOfAnyKind \/ ThreeWithABody \/ FourToTwoDockers)
MCSpec == MCInit /\ [][Next]_vars
=============================================================================
