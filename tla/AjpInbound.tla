------------------------------ MODULE AjpInbound -----------------------------
(* AjpInboundHandler: the packets of an AJP client (a web server).  There  *)
(* is one key, DUMMY_KEY, and while a body is read every packet is DATA.   *)
EXTENDS Inbound

DUMMY_KEY == 1

AjpInit == InitWith("forward")

Becomes(state) == hnd' = [hnd EXCEPT !.state = state]

(* NextSocketAction.WRITE: reading stops, the rest of the buffer is        *)
(* dropped, and nothing resumes it.                                        *)
Write == reads' = "off" /\ marks' = marks \cup {"writeOff"}

(* handle_forward_request; a client sends the next request when it has     *)
(* the END_RESPONSE of the last.                                           *)
Forward(kind, declared, keep) ==
  LET k == DUMMY_KEY
      t == [Rented EXCEPT !.kind = kind, !.declared = declared]
      entered == Entered(t)
  IN
  /\ Receive /\ hnd.state = "forward" /\ ~Live(k)
  /\ Asks(k, declared)
  /\ IF declared > 0
     THEN /\ Set(k, IF kind = "nowhere"
                    THEN [Go(t) EXCEPT !.error = TRUE, !.handler = TRUE] ELSE entered)
          /\ Becomes("data")
          /\ UNCHANGED <<reads, writes, answered, marks>>
     ELSE IF kind \in {"nowhere", "missing"}
     THEN Answer(k, Go(t), keep) /\ Write /\ UNCHANGED hnd
     ELSE Set(k, EndContent(entered)) /\ UNCHANGED <<reads, writes, hnd, answered, marks>>
  /\ UNCHANGED <<cause, conn>>

AjpNoTours == Receive /\ ~Live(DUMMY_KEY) /\ Dies("noTours")

(* An HttpException for a chunk: the tour is aborted, and then its error   *)
(* is dropped with it, or else the error is answered.                      *)
AjpRejects(k, t, keep) ==
  /\ reads' = "off" /\ Becomes("forward")
  /\ IF Abandons(t)
     THEN /\ Set(k, NoTour) /\ UNCHANGED <<writes, answered>>
          /\ marks' = marks \cup {"writeOff", "dropped"}
     ELSE Answer(k, Kill(t), keep) /\ marks' = marks \cup {"writeOff"}
  /\ UNCHANGED asked

(* handle_data: with the last of the body the request ends or its error is *)
(* answered; before that the client is asked for more.  The next request   *)
(* of a client that was answered early is taken for a chunk as well.       *)
AjpData(n, fills, keep) ==
  LET k == DUMMY_KEY
      t == Post(GetTour(k), n, fills)
  IN
  /\ Receive /\ hnd.state = "data"
  /\ IF Posting(GetTour(k), n) \in {"notReading", "tooLong"}
     THEN AjpRejects(k, GetTour(k), keep)
     ELSE /\ asked' = [asked EXCEPT ![k].body = @ + n]
          /\ IF t.posted # t.limit
             THEN /\ Set(k, t)
                  /\ reads' = IF t.full THEN "last" ELSE reads
                  /\ UNCHANGED <<writes, hnd, answered, marks>>
             ELSE /\ Becomes("forward")
                  /\ IF t.error \/ EndOf(t) = "http"
                     THEN Answer(k, t, keep) /\ Write
                     ELSE /\ Set(k, EndContent(t))
                          /\ UNCHANGED <<reads, writes, answered, marks>>
  /\ UNCHANGED <<cause, conn>>

(* Any other packet, a CPING among them.                                   *)
Unexpected == Receive /\ hnd.state = "forward" /\ Dies("unexpected")

(* handle_shutdown calls BayServer.shutdown, which there is not.           *)
Shutdown == Receive /\ hnd.state = "forward" /\ Dies("shutdown")

(* The consumer has caught up: resume_read.                                *)
AjpConsumed ==
  /\ Idle /\ tour[DUMMY_KEY].full
  /\ Set(DUMMY_KEY, [tour[DUMMY_KEY] EXCEPT !.full = FALSE])
  /\ reads' = IF conn = "open" THEN "on" ELSE reads
  /\ UNCHANGED <<cause, conn, writes, hnd, asked, answered, marks, events>>

(* send_end_tour: END_RESPONSE, and without keep-alive post_close.         *)
AjpRest == Surroundings(BOOLEAN)

AjpNext ==
  \/ \E kind \in Kinds, declared \in 0..MaxLength, keep \in BOOLEAN : Forward(kind, declared, keep)
  \/ \E n \in 0..MaxLength, fills, keep \in BOOLEAN : AjpData(n, fills, keep)
  \/ AjpNoTours \/ Unexpected \/ Shutdown \/ AjpConsumed
  \/ AjpRest

-----------------------------------------------------------------------------
(* Every tour has something that ends it or is being read; lost for good   *)
(* is the one dev_null reads for when the connection goes.                 *)
AjpTourHasEnd ==
  \A k \in Keys : Live(k) =>
    Ending(k) \/ (tour[k].state = "reading" /\ (conn # "gone" \/ tour[k].error))

(* A request is answered once.                                             *)
AjpAnsweredOnce == \A k \in Keys : answered[k] <= asked[k].count

(* What kills the agent: a packet of another type, SHUTDOWN, a process     *)
(* whose tour is gone, no tours; never a chunk.                            *)
AjpDeathsExplained == cause \in {"none", "noTours", "unexpected", "shutdown", "staleProducer"}

(* Hangs are due to WRITE, or to a process that left its buffer full.      *)
AjpNothingLeftUndone ==
  Quiet => /\ \A k \in Keys : asked[k].body = asked[k].declared =>
                answered[k] = asked[k].count \/ "dropped" \in marks
           /\ reads = "off" => \/ marks \cap {"writeOff", "unread"} # {}
                               \/ \E k \in Keys : tour[k].full
=============================================================================
