------------------------------ MODULE MCSpider ------------------------------
(* Instances of Spider for TLC.  Connections, ports and units are each used *)
(* alike, so the safety run may permute them; the liveness run may not.     *)
(* The safety run has two busy connections, or three that write nothing.    *)
EXTENDS Spider, TLC

Symmetric == Permutations(Clients) \cup Permutations(Ports) \cup Permutations(Units)

MCNext ==
  /\ Next
  /\ Cardinality({c \in Clients : origin'[c] # "unused"}) <= 2 \/ asked' = {}
MCSpec == Init /\ [][MCNext]_vars
=============================================================================
