------------------------------- MODULE Inbound -------------------------------
(***************************************************************************)
(* One multiplexed inbound connection as the three packet protocols see    *)
(* it: H2Inbound, FcgInbound and AjpInbound extend this module with the    *)
(* handlers of their commands.  A tour is found by the key the protocol    *)
(* gives it (stream id, request id, DUMMY_KEY); asking for a key that has  *)
(* none rents a new one.  Each action is one upcall on the agent's thread. *)
(* That tours are pooled objects with ids is Tours' subject, not this one. *)
(***************************************************************************)
EXTENDS Naturals, Sequences, FiniteSets

CONSTANTS
  Keys,       \* stream or request ids the client uses
  MaxLength,  \* bound: declared length of a body and length of a chunk
  MaxEvents   \* bound: commands received

(* Id 0 is the connection's; DUMMY_KEY is 1.                               *)
ASSUME InboundAssumption ==
  /\ Keys \subseteq Nat \ {0} /\ 1 \in Keys
  /\ MaxLength \in Nat /\ MaxEvents \in Nat

VARIABLES
  cause,     \* why the agent died of an uncaught exception, "none" if it runs
  conn,      \* the connection: "open", "closing", "gone"
  reads,     \* "on", "last" (SUSPEND returned, the buffer not finished), "off"
  tour,      \* the tour stored under each key
  writes,    \* end-of-response callbacks in the write queue
  hnd,       \* the state of the protocol's InboundHandler
  asked,     \* history: what the client has asked for under each key
  answered,  \* history: ends of response posted under each key
  marks,     \* history: what explains a hang, a leak or a death
  events

vars == <<cause, conn, reads, tour, writes, hnd, asked, answered, marks, events>>

(* What becomes of the request: a file; a process or backend that consumes *)
(* the body late and answers when it likes; a file that is not there,      *)
(* noticed when the body has ended; refused before it has a handler.       *)
Kinds == {"file", "slow", "missing", "nowhere"}

NoTour == [state |-> "none", kind |-> "file", declared |-> 0, handler |-> FALSE,
           error |-> FALSE, posted |-> 0, limit |-> 0, ended |-> FALSE,
           full |-> FALSE, prod |-> "none"]
Rented == [NoTour EXCEPT !.state = "preparing"]

NotAsked == [count |-> 0, declared |-> 0, body |-> 0, ended |-> FALSE]

Marks == {"unread", "empty", "trailers", "staleProducer", "dropped", "writeOff", "phantom"}

TypeOK ==
  /\ cause \in {"none", "noTours", "continuation", "handlerSet", "notReading",
                "tooLong", "resume", "endedTwice", "returnedTwice", "params",
                "traceback", "noUri", "unexpected", "shutdown", "staleProducer"}
  /\ conn \in {"open", "closing", "gone"} /\ reads \in {"on", "last", "off"}
  /\ tour \in [Keys -> [state : {"none", "preparing", "reading", "running", "ended"},
                        kind : Kinds, declared : 0..MaxLength, handler : BOOLEAN,
                        error : BOOLEAN, posted : Nat, limit : 0..MaxLength,
                        ended : BOOLEAN, full : BOOLEAN,
                        prod : {"none", "busy", "killed", "killedLate"}]]
  /\ writes \in Seq([key : Keys, keep : BOOLEAN])
  /\ hnd \in [state : {"preface", "frames", "begin", "params", "stdin", "forward", "data"},
              key : Keys \cup {0}, env : BOOLEAN]
  /\ asked \in [Keys -> [count : Nat, declared : 0..MaxLength, body : Nat, ended : BOOLEAN]]
  /\ answered \in [Keys -> Nat]
  /\ marks \subseteq Marks /\ events \in 0..MaxEvents

InitWith(state) ==
  /\ cause = "none" /\ conn = "open" /\ reads = "on"
  /\ tour = [k \in Keys |-> NoTour]
  /\ writes = <<>>
  /\ hnd = [state |-> state, key |-> 0, env |-> FALSE]
  /\ asked = [k \in Keys |-> NotAsked]
  /\ answered = [k \in Keys |-> 0]
  /\ marks = {} /\ events = 0

-----------------------------------------------------------------------------
(* TourReq and Tour, as operators on the record of a tour.                 *)

Live(k) == tour[k].state # "none"
Queued(k) == \E i \in DOMAIN writes : writes[i].key = k

(* get_tour: the tour of the key, or a fresh one.  Other connections share *)
(* the store, so it may be exhausted whenever a tour is needed.            *)
GetTour(k) == IF Live(k) THEN tour[k] ELSE Rented

(* set_limit, then the state that Tour.go sets before it enters the city.  *)
Go(t) == [t EXCEPT !.state = IF t.declared > 0 THEN "reading" ELSE "running",
                   !.limit = IF t.declared > 0 THEN t.declared ELSE @,
                   !.posted = IF t.declared > 0 THEN 0 ELSE @]

(* The docker found sets the content handler; a process starts at once.    *)
Entered(t) == [Go(t) EXCEPT !.handler = TRUE, !.prod = IF t.kind = "slow" THEN "busy" ELSE "none"]

(* post_req_content: what it makes of a chunk.                             *)
Posting(t, n) ==
  IF t.error THEN "counted"
  ELSE IF t.state # "reading" THEN "notReading"
  ELSE IF ~t.handler THEN "counted"
  ELSE IF t.posted + n > t.limit THEN "tooLong"
  ELSE "passed"

(* The chunk, when it is not refused.  A slow consumer may leave the       *)
(* buffer full, and then more is not wanted.                               *)
Post(t, n, fills) ==
  [t EXCEPT !.posted = @ + n,
            !.full = @ \/ (fills /\ n > 0 /\ t.kind = "slow" /\ Posting(t, n) = "passed")]

(* end_content: what it comes to, and the tour when it succeeds.  Mutant:  *)
(* the file is not started.                                                *)
EndOf(t) ==
  IF t.ended THEN "endedTwice"
  ELSE IF t.posted # t.limit THEN "invalid"
  ELSE IF t.handler /\ t.kind = "missing" THEN "http"
  ELSE "ok"
EndUnstarted(t) == [t EXCEPT !.ended = TRUE]
EndContent(t) == [t EXCEPT !.ended = TRUE,
                           !.prod = IF t.handler /\ t.kind = "file" THEN "busy" ELSE @]

(* on_abort_req of the content handler: a file not yet started is given    *)
(* up; a process is killed and its tour stays; dev_null says no.  Mutant:  *)
(* nothing is given up.                                                    *)
AbandonsNone(t) == FALSE
Abandons(t) ==
  \/ t.state = "preparing"
  \/ t.state = "reading" /\ (~t.handler \/ (t.kind \in {"file", "missing"} /\ ~t.error /\ t.prod = "none"))
Kill(t) == [t EXCEPT !.prod = IF t.state # "reading" \/ t.kind # "slow" \/ @ = "none" THEN @
                              ELSE IF conn = "open" THEN "killed" ELSE "killedLate"]

-----------------------------------------------------------------------------
(* Steps the handlers are made of.                                         *)

Alive == cause = "none"
Idle == Alive /\ reads # "last"    \* the read upcall has returned

(* A command is received.                                                  *)
Receive ==
  /\ Alive /\ conn # "gone" /\ reads # "off"
  /\ events < MaxEvents /\ events' = events + 1

Set(k, t) == tour' = [tour EXCEPT ![k] = t]

Dies(why) ==
  /\ cause' = why
  /\ UNCHANGED <<conn, reads, tour, writes, hnd, asked, answered, marks>>

Asks(k, declared) ==
  asked' = [asked EXCEPT ![k] = [count |-> @.count + 1, declared |-> declared,
                                 body |-> 0, ended |-> FALSE]]

(* end_res_content: a second end is ignored while the first is not written.*)
(* Mutants: it is not; the tour is left as after an I/O error.             *)
AnswerAborted(k, t, keep) ==
  /\ Set(k, [t EXCEPT !.state = "aborted"])
  /\ writes' = Append(writes, [key |-> k, keep |-> keep])
  /\ answered' = [answered EXCEPT ![k] = @ + 1]
AnswerTwice(k, t, keep) ==
  /\ Set(k, [t EXCEPT !.state = "ended"])
  /\ writes' = Append(writes, [key |-> k, keep |-> keep])
  /\ answered' = [answered EXCEPT ![k] = @ + 1]
Answer(k, t, keep) ==
  IF t.state = "ended"
  THEN Set(k, t) /\ UNCHANGED <<writes, answered>>
  ELSE /\ Set(k, [t EXCEPT !.state = "ended"])
       /\ writes' = Append(writes, [key |-> k, keep |-> keep])
       /\ answered' = [answered EXCEPT ![k] = @ + 1]

(* A ProtocolException: a final message is posted and the connection       *)
(* closed; the rest of the buffer goes with the exception.                 *)
Closes == conn' = "closing" /\ reads' = "off"

-----------------------------------------------------------------------------
(* What is not a command: the same under every protocol.                   *)

(* The read that returned SUSPEND has ended.                               *)
StopReading ==
  /\ Alive /\ reads = "last"
  /\ reads' = "off"
  /\ UNCHANGED <<cause, conn, tour, writes, hnd, asked, answered, marks, events>>

(* The producer of a response ends it.  With no connection left the tour   *)
(* is returned at once.                                                    *)
Produces(k, keep) ==
  LET t == [tour[k] EXCEPT !.prod = "none"] IN
  /\ Idle /\ tour[k].prod # "none"
  /\ IF conn = "gone"
     THEN Set(k, NoTour) /\ UNCHANGED <<writes, answered, marks>>
     ELSE /\ Answer(k, t, keep)
          /\ marks' = IF t.full THEN marks \cup {"unread"} ELSE marks
  /\ UNCHANGED <<cause, conn, reads, hnd, asked, events>>

(* The producer of a tour that was returned before it ended.               *)
StaleProducer ==
  /\ Idle /\ "staleProducer" \in marks
  /\ Dies("staleProducer") /\ UNCHANGED events

(* The letters of a killed process come before what happened later.        *)
Dying(k) == tour[k].prod \in {"killed", "killedLate"}

(* Tours are returned; a producer that runs on will miss its own.          *)
Outlived(R) == IF \E k \in R : tour[k].prod # "none"
               THEN marks \cup {"staleProducer"} ELSE marks

(* The end has been written: the callback returns the tour, and post_close *)
(* follows it when the connection is not to be kept.                       *)
Wrote ==
  LET u == Head(writes) IN
  /\ Idle /\ conn # "gone" /\ writes # <<>> /\ ~Dying(u.key)
  /\ IF ~Live(u.key)
     THEN Dies("returnedTwice")
     ELSE /\ Set(u.key, NoTour)
          /\ writes' = Tail(writes)
          /\ conn' = IF u.keep THEN conn ELSE "closing"
          /\ marks' = Outlived({u.key})
          /\ UNCHANGED <<cause, reads, hnd, asked, answered>>
  /\ UNCHANGED events

(* End of file, an I/O error, a timeout.                                   *)
CloseRequest ==
  /\ Idle /\ conn = "open"
  /\ conn' = "closing"
  /\ UNCHANGED <<cause, reads, tour, writes, hnd, asked, answered, marks, events>>

(* The ClosedLetter: the units left are called back, notify_close aborts   *)
(* what it can.  The letters of a process killed before the close come     *)
(* before this one, those of a process killed since come after it.         *)
OnClosed ==
  LET drained == {k \in Keys : Queued(k)}
      aborted == {k \in Keys \ drained : Abandons(tour[k])}
  IN
  /\ Idle /\ conn = "closing"
  /\ \A k \in Keys : tour[k].prod # "killed"
  /\ IF \/ \E k \in drained : ~Live(k)
        \/ \E i, j \in DOMAIN writes : i # j /\ writes[i].key = writes[j].key
     THEN Dies("returnedTwice")
     ELSE /\ conn' = "gone" /\ reads' = "off" /\ writes' = <<>>
          /\ tour' = [k \in Keys |-> IF k \in drained \cup aborted THEN NoTour
                                     ELSE Kill(tour[k])]
          /\ marks' = Outlived(drained)
          /\ UNCHANGED <<cause, hnd, asked, answered>>
  /\ UNCHANGED events

Surroundings(Keeps) ==
  \/ StopReading
  \/ \E k \in Keys, keep \in Keeps : Produces(k, keep)
  \/ StaleProducer \/ Wrote \/ CloseRequest \/ OnClosed

(* The server has nothing left to do until the client sends something.     *)
Quiet == Idle /\ conn = "open" /\ writes = <<>> /\ \A k \in Keys : tour[k].prod = "none"

(* Something will end the response of the tour.                            *)
Ending(k) == tour[k].prod # "none" \/ Queued(k)
=============================================================================
