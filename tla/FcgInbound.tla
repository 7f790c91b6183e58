------------------------------ MODULE FcgInbound -----------------------------
(* FcgInboundHandler: the records of a FastCGI client (a web server).  A    *)
(* key is a request id; the handler reads one request at a time while      *)
(* earlier ones may still be answered.  What the handler returns as next   *)
(* action is lost between the unpackers: reading never stops.              *)
EXTENDS Inbound

FcgInit == InitWith("begin")

(* reset_state.  Mutant: the request goes on being read.                   *)
KeepState(h) == h
ResetState(h) == [h EXCEPT !.state = "begin", !.key = 0]

(* The client uses an id again once its END_REQUEST has been written.      *)
Unused(k) == answered[k] = asked[k].count /\ ~Queued(k)

(* A ProtocolException: 400 through an error tour, and the connection is   *)
(* closed before it is written.  A tour looked up before is there.         *)
Refused(k) ==
  /\ Set(k, GetTour(k)) /\ Closes
  /\ UNCHANGED <<cause, writes, hnd, asked, answered, marks>>

(* handle_begin_request, for a tour that may have been left behind.        *)
BeginRequest(k) ==
  /\ Receive /\ hnd.state = "begin" /\ Unused(k)
  /\ Set(k, GetTour(k))
  /\ hnd' = [hnd EXCEPT !.state = "params", !.key = k]
  /\ UNCHANGED <<cause, conn, reads, writes, asked, answered, marks>>

FcgNoTours(k) == Receive /\ ~Live(k) /\ Dies("noTours")

(* A record out of its state, or with another id than the one being read.  *)
(* check_req_id runs before a tour is looked up.                           *)
Misplaced ==
  /\ Receive /\ Closes
  /\ UNCHANGED <<cause, tour, writes, hnd, asked, answered, marks>>

Reading(k, state) == Receive /\ hnd.state = state /\ hnd.key = k

(* handle_params with names: REQUEST_URI and the like are looked up in env *)
(* after each record, and env outlives the request.                        *)
Params(k, whole) ==
  /\ Reading(k, "params")
  /\ IF ~whole /\ ~hnd.env THEN Dies("params")
     ELSE /\ Set(k, GetTour(k))
          /\ hnd' = [hnd EXCEPT !.env = TRUE]
          /\ UNCHANGED <<cause, conn, reads, writes, asked, answered, marks>>

(* The empty record: start_tour.  A refusal is answered at once, or kept   *)
(* while dev_null reads the body.                                          *)
ParamsEnd(k, kind, declared) ==
  LET t == [GetTour(k) EXCEPT !.kind = kind, !.declared = declared] IN
  /\ Reading(k, "params")
  /\ IF ~hnd.env THEN Dies("params")
     ELSE IF t.handler THEN Dies("handlerSet")
     ELSE /\ Asks(k, declared)
          /\ hnd' = [hnd EXCEPT !.state = "stdin"]
          /\ IF kind # "nowhere"
             THEN Set(k, Entered(t)) /\ UNCHANGED <<writes, answered>>
             ELSE IF declared = 0
             THEN Answer(k, Go(t), TRUE)
             ELSE /\ Set(k, [Go(t) EXCEPT !.error = TRUE, !.handler = TRUE])
                  /\ UNCHANGED <<writes, answered>>
          /\ UNCHANGED <<cause, conn, reads, marks>>

(* An HttpException while the body is read: the tour is aborted, and then  *)
(* its error is dropped with it; otherwise a process is killed and the     *)
(* error answered.                                                         *)
FcgRejects(k, t) ==
  /\ hnd' = ResetState(hnd)
  /\ IF Abandons(t)
     THEN /\ Set(k, NoTour) /\ marks' = marks \cup {"dropped"}
          /\ UNCHANGED <<writes, answered>>
     ELSE Answer(k, Kill(t), TRUE) /\ UNCHANGED marks
  /\ UNCHANGED <<cause, conn, reads, asked>>

StdIn(k, n, fills) ==
  LET t == GetTour(k) IN
  /\ Reading(k, "stdin")
  /\ IF Posting(t, n) \in {"notReading", "tooLong"}
     THEN FcgRejects(k, t)
     ELSE /\ Set(k, Post(t, n, fills))
          /\ asked' = [asked EXCEPT ![k].body = @ + n]
          /\ UNCHANGED <<cause, conn, reads, writes, hnd, answered, marks>>

(* The empty record ends the body, for a fresh tour if the response was    *)
(* quicker.  with_traceback does not take what the handler kept of the     *)
(* stack.                                                                  *)
StdInEnd(k) ==
  LET t == GetTour(k) IN
  /\ Reading(k, "stdin")
  /\ IF t.error THEN Dies("traceback")
     ELSE CASE EndOf(t) = "endedTwice" -> Dies("endedTwice")
            [] EndOf(t) = "invalid" -> Refused(k)
            [] EndOf(t) = "http" -> FcgRejects(k, t)
            [] OTHER ->
                 /\ Set(k, EndContent(t))
                 /\ hnd' = ResetState(hnd)
                 /\ asked' = [asked EXCEPT ![k].ended = TRUE]
                 /\ marks' = IF Live(k) THEN marks ELSE marks \cup {"phantom"}
                 /\ UNCHANGED <<cause, conn, reads, writes, answered>>

(* The consumer has caught up; reading had not stopped.                    *)
FcgConsumed(k) ==
  /\ Idle /\ tour[k].full
  /\ Set(k, [tour[k] EXCEPT !.full = FALSE])
  /\ UNCHANGED <<cause, conn, reads, writes, hnd, asked, answered, marks, events>>

(* send_end_tour: END_REQUEST; the connection is never closed, whatever    *)
(* the client wants kept.                                                  *)
FcgRest == Surroundings({TRUE})

FcgNext ==
  \/ \E k \in Keys : BeginRequest(k) \/ FcgNoTours(k) \/ StdInEnd(k) \/ FcgConsumed(k)
  \/ \E k \in Keys, whole \in BOOLEAN : Params(k, whole)
  \/ \E k \in Keys, kind \in Kinds, declared \in 0..MaxLength : ParamsEnd(k, kind, declared)
  \/ \E k \in Keys, n \in 1..MaxLength, fills \in BOOLEAN : StdIn(k, n, fills)
  \/ Misplaced
  \/ FcgRest

-----------------------------------------------------------------------------
(* Every tour has something that ends it, or is read, or was left behind   *)
(* for its id by a response that was quicker than the end of the request.  *)
(* Lost for good are two, when the connection goes before the end of the   *)
(* request: the tour dev_null reads for, and the one that is running.      *)
FcgTourHasEnd ==
  \A k \in Keys : Live(k) =>
    \/ Ending(k)
    \/ conn # "gone" /\ (hnd.key = k \/ tour[k].state = "preparing")
    \/ conn = "gone" /\ (tour[k].error \/ tour[k].state = "running")

(* A request id is answered once each time it is begun.                    *)
FcgAnsweredOnce == \A k \in Keys : answered[k] <= asked[k].count

(* What kills the agent: the first request without its names, a refused    *)
(* body, an id used again after a response that was too quick, a process   *)
(* whose tour is gone, no tours.                                           *)
FcgDeathsExplained ==
  /\ cause \in {"none", "noTours", "params", "traceback", "endedTwice", "staleProducer"}
  /\ cause = "params" => \A k \in Keys : asked[k].count = 0
  /\ cause = "traceback" => \E k \in Keys : tour[k].error
  /\ cause = "endedTwice" => "phantom" \in marks

(* Unanswered is only an error that was dropped with its tour.             *)
FcgNothingLeftUndone ==
  Quiet => /\ \A k \in Keys : asked[k].ended =>
                answered[k] = asked[k].count \/ "dropped" \in marks
           /\ reads = "on"
=============================================================================
