------------------------------ MODULE MCInbound ------------------------------
(* One connection of one of the three protocols, chosen at the start.      *)
EXTENDS H2Inbound, FcgInbound, AjpInbound

VARIABLES which

MCInit ==
  \/ which = "h2" /\ H2Init
  \/ which = "fcg" /\ FcgInit
  \/ which = "ajp" /\ AjpInit

MCNext ==
  /\ which' = which
  /\ \/ which = "h2" /\ H2Next
     \/ which = "fcg" /\ FcgNext
     \/ which = "ajp" /\ AjpNext

MCSpec == MCInit /\ [][MCNext]_<<which, vars>>

(* H2InboundHandler, FcgInboundHandler, AjpInboundHandler: no tour is      *)
(* orphaned, but for those each module names.                              *)
TourHasEnd ==
  /\ TypeOK
  /\ which = "h2" => H2TourHasEnd
  /\ which = "fcg" => FcgTourHasEnd
  /\ which = "ajp" => AjpTourHasEnd

(* The agent dies of a command only in the ways each module names.         *)
DeathsExplained ==
  /\ which = "h2" => H2DeathsExplained
  /\ which = "fcg" => FcgDeathsExplained
  /\ which = "ajp" => AjpDeathsExplained

(* No request is answered twice, whatever the commands of the client and   *)
(* however the response races them.  Once the server has nothing left to   *)
(* do every complete request has its answer and the connection is being    *)
(* read, but for the hangs each module names.                              *)
Answered ==
  /\ which = "h2" => H2AnsweredOnce /\ H2NothingLeftUndone
  /\ which = "fcg" => FcgAnsweredOnce /\ FcgNothingLeftUndone
  /\ which = "ajp" => AjpAnsweredOnce /\ AjpNothingLeftUndone
=============================================================================
