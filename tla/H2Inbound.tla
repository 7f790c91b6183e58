------------------------------ MODULE H2Inbound ------------------------------
(* H2InboundHandler: the frames of an HTTP/2 client.  A key is a stream.    *)
EXTENDS Inbound

H2Init == InitWith("preface")

Frame == Receive /\ hnd.state = "frames"

(* handle_preface answers with the server's settings.                      *)
Preface ==
  /\ Receive /\ hnd.state = "preface"
  /\ hnd' = [hnd EXCEPT !.state = "frames"]
  /\ UNCHANGED <<cause, conn, reads, tour, writes, asked, answered, marks>>

(* HEADERS whose block goes on: the tour is rented and waits.              *)
HeadersGoOn(k, kind, declared) ==
  /\ Frame /\ ~Live(k) /\ asked[k].count = 0
  /\ Set(k, [Rented EXCEPT !.kind = kind, !.declared = declared])
  /\ UNCHANGED <<cause, conn, reads, writes, hnd, asked, answered, marks>>

(* The frame type the rest of the block comes in is unknown.               *)
Continuation(k) == Frame /\ tour[k].state = "preparing" /\ Dies("continuation")

(* HEADERS with END_HEADERS for a tour t: start_tour, and when no body is  *)
(* declared end_req_content; a refusal is answered at once, or kept until  *)
(* the body declared has been read.  On a live stream (trailers) the same  *)
(* is done again.                                                          *)
Enter(k, t) ==
  LET entered == Entered(t) IN
  IF t.kind = "nowhere"
  THEN /\ IF t.declared = 0
          THEN Answer(k, Go(t), TRUE)
          ELSE Set(k, [Go(t) EXCEPT !.error = TRUE]) /\ UNCHANGED <<writes, answered>>
       /\ UNCHANGED <<cause, conn, reads, hnd>>
  ELSE IF t.handler
  THEN Dies("handlerSet")
  ELSE IF t.declared > 0
  THEN Set(k, entered) /\ UNCHANGED <<cause, conn, reads, writes, hnd, answered>>
  ELSE IF EndOf(entered) = "http"
  THEN Answer(k, entered, TRUE) /\ UNCHANGED <<cause, conn, reads, hnd>>
  ELSE Set(k, EndContent(entered)) /\ UNCHANGED <<cause, conn, reads, writes, hnd, answered>>

Headers(k, kind, declared) ==
  LET t == [Rented EXCEPT !.kind = kind, !.declared = declared] IN
  /\ Frame /\ ~Live(k) /\ asked[k].count = 0
  /\ Asks(k, declared)
  /\ Enter(k, t)
  /\ UNCHANGED marks

Trailers(k) ==
  /\ Frame /\ Live(k) /\ tour[k].state # "preparing"
  /\ Enter(k, tour[k])
  /\ marks' = IF tour[k].kind = "nowhere" THEN marks \cup {"trailers"} ELSE marks
  /\ UNCHANGED asked

(* Trailers of a stream that was answered and returned: a new tour, which  *)
(* has no URI to enter the city with.                                      *)
TrailersLate(k) == Frame /\ ~Live(k) /\ asked[k].count > 0 /\ Dies("noUri")

(* No tour left: 503 is wanted, and needs a tour.                          *)
H2NoTours(k) == Frame /\ ~Live(k) /\ Dies("noTours")

(* GOAWAY is posted, the connection closed.  The stream of a DATA frame    *)
(* that came too late has a new tour by then.                              *)
Refuse(k, t) ==
  /\ Set(k, t) /\ Closes
  /\ UNCHANGED <<cause, writes, hnd, asked, answered, marks>>

(* A body nobody declared.                                                 *)
DataUnexpected(k) ==
  /\ Frame /\ GetTour(k).declared = 0
  /\ Refuse(k, GetTour(k))

(* An empty frame: success is still False, and nothing will resume.        *)
DataEmpty(k) ==
  /\ Frame /\ Live(k) /\ tour[k].declared > 0
  /\ reads' = "last" /\ marks' = marks \cup {"empty"}
  /\ UNCHANGED <<cause, conn, tour, writes, hnd, asked, answered>>

(* A chunk.  Its refusal is an HttpException nobody catches.  With the     *)
(* last of the body the request ends, or its error is answered.            *)
H2Data(k, n, fills) ==
  LET posting == Posting(tour[k], n)
      t == Post(tour[k], n, fills)
      complete == t.posted >= t.declared
  IN
  /\ Frame /\ Live(k) /\ tour[k].declared > 0
  /\ IF posting \in {"notReading", "tooLong"}
     THEN /\ Dies(posting)
     ELSE /\ asked' = [asked EXCEPT ![k].body = @ + n]
          /\ reads' = IF t.full /\ ~(complete /\ (t.error \/ EndOf(t) = "http"))
                      THEN "last" ELSE reads
          /\ IF complete /\ (t.error \/ EndOf(t) = "http")
             THEN Answer(k, t, TRUE)
             ELSE Set(k, IF complete THEN EndContent(t) ELSE t) /\ UNCHANGED <<writes, answered>>
          /\ UNCHANGED <<cause, conn, hnd, marks>>

(* The consumer has caught up: the callback calls a method ships lack.     *)
H2Consumed(k) ==
  /\ Idle /\ tour[k].full
  /\ Dies("resume") /\ UNCHANGED events

(* PRIORITY of a stream, SETTINGS, PING, RST_STREAM, WINDOW_UPDATE: at     *)
(* most a reply; no tour hears of them.                                    *)
Ignored == Frame /\ UNCHANGED <<cause, conn, reads, tour, writes, hnd, asked, answered, marks>>

(* PRIORITY of stream 0, WINDOW_UPDATE by 0; the client's GOAWAY.          *)
Rejected ==
  /\ Frame /\ Closes
  /\ UNCHANGED <<cause, tour, writes, hnd, asked, answered, marks>>

(* send_end_tour: the end is an empty DATA frame; the connection stays.    *)
H2Rest == Surroundings({TRUE})

H2Next ==
  \/ Preface
  \/ \E k \in Keys, kind \in Kinds, declared \in 0..MaxLength :
       HeadersGoOn(k, kind, declared) \/ Headers(k, kind, declared)
  \/ \E k \in Keys : Continuation(k) \/ Trailers(k) \/ TrailersLate(k) \/ H2NoTours(k)
  \/ \E k \in Keys : DataUnexpected(k) \/ DataEmpty(k) \/ H2Consumed(k)
  \/ \E k \in Keys, n \in 1..MaxLength, fills \in BOOLEAN : H2Data(k, n, fills)
  \/ Ignored \/ Rejected
  \/ H2Rest

-----------------------------------------------------------------------------
(* Every tour has something that ends it or waits for the client, and the  *)
(* connection takes all that wait with it.                                 *)
H2TourHasEnd ==
  \A k \in Keys : Live(k) =>
    Ending(k) \/ (conn # "gone" /\ tour[k].state \in {"preparing", "reading"})

(* A stream is answered once; trailers of a request that was refused       *)
(* answer it again.                                                        *)
H2AnsweredOnce == \A k \in Keys : answered[k] <= asked[k].count \/ "trailers" \in marks

(* What kills the agent: CONTINUATION, trailers, DATA that is too much or   *)
(* comes after the response, a process that reads slowly, no tours.  It is *)
(* never a producer that outlived its tour.                                *)
H2DeathsExplained ==
  /\ cause \in {"none", "noTours", "continuation", "handlerSet", "noUri",
                "notReading", "tooLong", "resume", "returnedTwice"}
  /\ cause = "notReading" => \E k \in Keys : tour[k].state \in {"preparing", "ended"}
  /\ cause = "returnedTwice" => "trailers" \in marks
  /\ cause = "resume" => \E k \in Keys : tour[k].kind = "slow"

(* Hangs are due to an empty DATA frame, or to a process that left its     *)
(* buffer full.                                                            *)
H2NothingLeftUndone ==
  Quiet => /\ \A k \in Keys : asked[k].count > 0 /\ asked[k].body >= asked[k].declared =>
                answered[k] >= 1 \/ "trailers" \in marks
           /\ reads = "off" => \/ marks \cap {"empty", "unread"} # {}
                               \/ \E k \in Keys : tour[k].full
=============================================================================
