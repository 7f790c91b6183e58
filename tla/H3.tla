---------------------------------- MODULE H3 ----------------------------------
(***************************************************************************)
(* One HTTP/3 connection (QicTicket) of a port that listens for itself.    *)
(* Two threads share its tours.  The loop thread runs the asyncio loop of  *)
(* the port: the events of the QUIC library, and, in the order they were   *)
(* posted, the coroutines the response methods leave to it.  The agent's   *)
(* thread handles the letters of files, processes and backends: it         *)
(* produces the responses.  A step of the loop is one event or coroutine,  *)
(* a step of the agent one letter, except where both threads read and      *)
(* write the same fields of a tour - consumed against send_res_content,    *)
(* the return of a tour against end_res_content -: there a step is one     *)
(* access to such a field.                                                 *)
(***************************************************************************)
EXTENDS Integers, Sequences, FiniteSets

CONSTANTS
  Keys,       \* streams, but for the first: its number is also the key of a tour in the store
  MaxTours,   \* TourStore.max_count
  Buffer,     \* harbor.tour_buffer_size(), in chunks
  MaxChunks,  \* bound: chunks of a response
  MaxLength,  \* bound: declared length of a body and length of a DATA frame
  MaxEvents   \* bound: events of the client

VARIABLES
  cause,     \* why the agent's thread died of an uncaught exception, or "none"
  open,      \* ConnectionTerminated has not come
  tour,      \* the tour stored under each stream, and which object of the store it is
  spoilt,    \* objects in the store that were left in state ENDED
  prod,      \* what produces the response of a stream, and the declared length of the request's body
  body,      \* units of a request's body that its backend's connection has not written
  agent,     \* what the agent's thread is in the middle of
  loop,      \* the call of consumed() the loop's thread is in the middle of
  coros,     \* coroutines posted to the loop
  stop,      \* stop_sending
  wire,      \* what has been sent on each stream
  asked,     \* history: what the client has sent on each stream
  blunders,  \* history: what has gone wrong on a stream
  lost,      \* history: producers whose resumption has been missed
  nextId, events

vars == <<cause, open, tour, spoilt, prod, body, agent, loop, coros, stop, wire,
          asked, blunders, lost, nextId, events>>
client == <<open, asked, stop, events>>

(* What a request asks for: a file, a process, a backend, a file that is   *)
(* not there, no city.                                                     *)
Kinds == {"file", "process", "backend", "missing", "nowhere"}
Slow == {"process", "backend"}

NoTour == [id |-> 0, obj |-> 0, state |-> "none", kind |-> "file", error |-> FALSE,
           posted |-> 0, limit |-> 0, full |-> FALSE, ended |-> FALSE,
           headerSent |-> FALSE, unread |-> 0, available |-> TRUE]
NoProducer == [at |-> "none", id |-> 0, left |-> 0, kind |-> "file", declared |-> 0]
NoBody == [id |-> 0, units |-> 0]
Resting == [at |-> "idle", key |-> 0, id |-> 0, obj |-> 0, chk |-> FALSE]
Waiting == [at |-> "idle", key |-> 0, old |-> FALSE]
NotAsked == [count |-> 0, fin |-> FALSE]

TypeOK ==
  /\ cause \in {"none", "resume", "stale", "returned", "consumed"} /\ open \in BOOLEAN
  /\ tour \in [Keys -> [id : Nat, obj : 0..MaxTours, state : {"none", "reading", "running", "ended", "aborted"},
                        kind : Kinds, error : BOOLEAN, posted : Nat,
                        limit : 0..MaxLength, full : BOOLEAN, ended : BOOLEAN,
                        headerSent : BOOLEAN, unread : Nat, available : BOOLEAN]]
  /\ spoilt \subseteq 1..MaxTours
  /\ prod \in [Keys -> [at : {"none", "queued", "starting", "busy", "stalled"}, id : Nat, left : 0..MaxChunks,
                        kind : {"file", "process", "backend"}, declared : 0..MaxLength]]
  /\ body \in [Keys -> [id : Nat, units : Nat]]
  /\ agent \in [at : {"idle", "sent", "full", "answering", "suspending", "ending", "changing", "assigning"},
                key : Keys \cup {0}, id : Nat, obj : 0..MaxTours, chk : BOOLEAN]
  /\ loop \in [at : {"idle", "counted", "freeing", "freed"}, key : Keys \cup {0}, old : BOOLEAN]
  /\ coros \in Seq([what : {"headers", "data", "end"}, key : Keys, id : Nat, obj : 0..MaxTours,
                    lis : BOOLEAN, chk : BOOLEAN])
  /\ stop \subseteq Keys /\ lost \subseteq Keys
  /\ wire \in [Keys -> {"none", "headers", "data", "end", "refused"}]
  /\ asked \in [Keys -> [count : 0..2, fin : BOOLEAN]]
  /\ blunders \in [Keys -> SUBSET {"noTours", "trailers", "tooLong", "short", "notReading", "reset",
                                   "bare", "late", "spoilt", "robbed"}]
  /\ nextId \in Nat /\ events \in 0..MaxEvents

Init ==
  /\ cause = "none" /\ open = TRUE
  /\ tour = [k \in Keys |-> NoTour] /\ spoilt = {}
  /\ prod = [k \in Keys |-> NoProducer] /\ body = [k \in Keys |-> NoBody]
  /\ agent = Resting /\ loop = Waiting /\ coros = <<>> /\ stop = {}
  /\ wire = [k \in Keys |-> "none"] /\ asked = [k \in Keys |-> NotAsked]
  /\ blunders = [k \in Keys |-> {}] /\ lost = {} /\ nextId = 1 /\ events = 0

-----------------------------------------------------------------------------
Live(k) == tour[k].state # "none"
Is(k, id) == Live(k) /\ tour[k].id = id
Holders(o) == {k \in Keys : Live(k) /\ tour[k].obj = o}
Free == {o \in 1..MaxTours : Holders(o) = {}}

Set(k, t) == tour' = [tour EXCEPT ![k] = t]
Blunder(k, what) == blunders' = [blunders EXCEPT ![k] = @ \cup {what}]
Post(k, t, what, lis, chk) ==
  [what |-> what, key |-> k, id |-> t.id, obj |-> t.obj, lis |-> lis, chk |-> chk]

(* What send_error posts if no header has gone, and end_res_content if the *)
(* tour is not ended.                                                      *)
Page(k, t) ==
  IF t.headerSent THEN <<>> ELSE <<Post(k, t, "headers", FALSE, FALSE), Post(k, t, "data", FALSE, FALSE)>>
End(k, t, chk) == IF t.state = "ended" THEN <<>> ELSE <<Post(k, t, "end", TRUE, chk)>>

(* send_http_exception on the loop thread, where the end it posts cannot   *)
(* be called back before the tour is marked as ended.  The tour's id is    *)
(* not checked.  Mutant: the end is posted before the page.                *)
MessagesSwapped(k, t) == End(k, t, FALSE) \o Page(k, t)
Messages(k, t) == Page(k, t) \o End(k, t, FALSE)
SendsError(k, t) ==
  /\ coros' = coros \o Messages(k, t)
  /\ Set(k, [t EXCEPT !.headerSent = TRUE, !.state = "ended"])
  /\ UNCHANGED prod

Producer(t, at) == [at |-> at, id |-> t.id, left |-> MaxChunks, kind |-> t.kind, declared |-> t.limit]

(* end_content.  A file is opened, its header sent and its reading begun;  *)
(* a file that is not there is an error; a process or backend is told.     *)
EndsContent(k, t) ==
  CASE t.kind = "missing" -> SendsError(k, t)
    [] t.kind = "file" ->
         /\ coros' = Append(coros, Post(k, t, "headers", FALSE, FALSE))
         /\ prod' = [prod EXCEPT ![k] = Producer(t, "busy")]
         /\ Set(k, [t EXCEPT !.headerSent = TRUE, !.ended = TRUE])
    [] OTHER -> Set(k, [t EXCEPT !.ended = TRUE]) /\ UNCHANGED <<prod, coros>>

-----------------------------------------------------------------------------
(* The loop thread: events.                                                *)

Event == open /\ loop.at = "idle" /\ events < MaxEvents /\ events' = events + 1

(* get_tour rents one of the store's objects.  One that was left in state  *)
(* ENDED is taken too, and its init raises an exception.                   *)
Rented(o, kind) == [NoTour EXCEPT !.id = nextId, !.obj = o, !.kind = kind, !.state = "reading"]
RentsSpoilt(k, o) ==
  /\ Set(k, [NoTour EXCEPT !.obj = o, !.state = "ended"])
  /\ spoilt' = spoilt \ {o}
  /\ UNCHANGED <<prod, coros, nextId>>

(* handle_headers of a request.  A process or backend is started at once,  *)
(* also if a body is to come; a process may have to wait for its slot.     *)
(* What the docker raises is wrapped in an HttpException: without a body   *)
(* to come it is answered at once, else when the body has come.  Without a *)
(* free tour a method is called that does not exist.                       *)
Starts(k, t, waits) ==
  IF t.kind \notin Slow THEN prod
  ELSE [prod EXCEPT ![k] = Producer(t, IF waits THEN "queued" ELSE "starting")]
Goes(k, t, waits) ==
  IF t.limit > 0
  THEN Set(k, t) /\ prod' = Starts(k, t, waits) /\ UNCHANGED coros
  ELSE CASE t.kind = "nowhere" -> SendsError(k, t)
         [] t.kind \in Slow -> Set(k, [t EXCEPT !.ended = TRUE]) /\ prod' = Starts(k, t, waits) /\ UNCHANGED coros
         [] OTHER -> EndsContent(k, t)

Headers(k, kind, declared, waits) ==
  /\ Event /\ asked[k].count = 0 /\ (waits => kind = "process")
  /\ asked' = [asked EXCEPT ![k].count = 1]
  /\ \/ Free = {} /\ Blunder(k, "noTours") /\ UNCHANGED <<tour, spoilt, prod, coros, nextId>>
     \/ \E o \in Free \cap spoilt : RentsSpoilt(k, o) /\ Blunder(k, "spoilt")
     \/ \E o \in Free \ spoilt :
          /\ Goes(k, [Rented(o, kind) EXCEPT !.limit = declared, !.error = kind = "nowhere",
                                             !.state = IF declared > 0 THEN "reading" ELSE "running"],
                  waits)
          /\ nextId' = nextId + 1 /\ UNCHANGED <<spoilt, blunders>>
  /\ UNCHANGED <<cause, open, body, agent, loop, stop, wire, lost>>

(* handle_headers once more, for the trailers of a request.  The tour goes *)
(* again: its state is set back, its second content handler refused, and   *)
(* what follows depends on the length it has declared.  A tour that has    *)
(* been returned meanwhile is replaced by one without a URI.  Bound: no    *)
(* trailers come for a tour whose init has failed.                         *)
GoesAgain(k, t) ==
  IF t.limit > 0
  THEN Set(k, [t EXCEPT !.state = "reading", !.posted = 0, !.error = TRUE]) /\ UNCHANGED <<prod, coros>>
  ELSE SendsError(k, [t EXCEPT !.state = "running"])

Trailers(k) ==
  /\ Event /\ asked[k].count = 1 /\ ~asked[k].fin /\ "spoilt" \notin blunders[k]
  /\ asked' = [asked EXCEPT ![k].count = 2, ![k].fin = TRUE]
  /\ Blunder(k, "trailers")
  /\ \/ Live(k) /\ GoesAgain(k, tour[k]) /\ UNCHANGED <<spoilt, nextId>>
     \/ ~Live(k) /\ Free = {} /\ UNCHANGED <<tour, spoilt, prod, coros, nextId>>
     \/ ~Live(k) /\ \E o \in Free \cap spoilt : RentsSpoilt(k, o)
     \/ ~Live(k) /\ \E o \in Free \ spoilt :
          GoesAgain(k, Rented(o, "nowhere")) /\ nextId' = nextId + 1 /\ UNCHANGED spoilt
  /\ UNCHANGED <<cause, open, body, agent, loop, stop, wire, lost>>

(* handle_data, then the end of the stream.  What post_req_content and     *)
(* end_content raise, except for the HttpException of the latter, leaves   *)
(* the event unhandled and the tour as it is.  A running process takes     *)
(* what it is given on this thread; a backend's unit, or a waiting         *)
(* process's, is left to the agent's, and may fill the request's buffer.   *)
Posting(t, n) ==
  IF t.error THEN "counted"
  ELSE IF t.state # "reading" THEN "notReading"
  ELSE IF t.posted + n > t.limit THEN "tooLong" ELSE "passed"
Leaves(k, n) ==
  n > 0 /\ ~tour[k].error /\ (tour[k].kind = "backend" \/ prod[k].at = "queued")

Data(k, n, fin, fills) ==
  LET t == [tour[k] EXCEPT !.posted = @ + n, !.full = @ \/ (fills /\ Leaves(k, n))]
      units == IF Leaves(k, n) /\ t.kind = "backend"
               THEN [body EXCEPT ![k] = [id |-> t.id, units |-> @.units + 1]] ELSE body
  IN
  /\ Event /\ asked[k].count = 1 /\ ~asked[k].fin
  /\ asked' = [asked EXCEPT ![k].fin = fin]
  /\ IF ~Live(k) \/ tour[k].ended
     THEN UNCHANGED <<tour, prod, body, coros, blunders>>
     ELSE IF Posting(tour[k], n) \in {"notReading", "tooLong"}
     THEN Blunder(k, Posting(tour[k], n)) /\ UNCHANGED <<tour, prod, body, coros>>
     ELSE /\ body' = units
          /\ IF ~fin
             THEN Set(k, t) /\ UNCHANGED <<prod, coros, blunders>>
             ELSE IF t.error
             THEN SendsError(k, t) /\ UNCHANGED blunders
             ELSE IF t.posted # t.limit
             THEN Set(k, t) /\ Blunder(k, "short") /\ UNCHANGED <<prod, coros>>
             ELSE EndsContent(k, t) /\ UNCHANGED blunders
  /\ UNCHANGED <<cause, open, spoilt, agent, loop, stop, wire, lost, nextId>>

(* on_stream_reset: an abort that only marks the tour.  A process that is  *)
(* killed, a backend whose connection is closed, ends its response itself. *)
(* Mutant: the tour is returned.                                           *)
ResetAndReturned(k) ==
  /\ Event /\ asked[k].count = 1 /\ ~asked[k].fin
  /\ asked' = [asked EXCEPT ![k].fin = TRUE]
  /\ Blunder(k, "reset") /\ Set(k, NoTour)
  /\ UNCHANGED <<cause, open, spoilt, prod, body, agent, loop, coros, stop, wire, lost, nextId>>
Reset(k) ==
  /\ Event /\ asked[k].count = 1 /\ ~asked[k].fin
  /\ asked' = [asked EXCEPT ![k].fin = TRUE]
  /\ Blunder(k, "reset")
  /\ IF tour[k].state # "reading" \/ tour[k].error
     THEN UNCHANGED <<tour, prod>>
     ELSE IF tour[k].kind \in Slow
     THEN /\ prod' = [prod EXCEPT ![k].left = IF prod[k].at = "queued" THEN @ ELSE 0]
          /\ UNCHANGED tour
     ELSE Set(k, [tour[k] EXCEPT !.state = "aborted"]) /\ UNCHANGED prod
  /\ UNCHANGED <<cause, open, spoilt, body, agent, loop, coros, stop, wire, lost, nextId>>

StopSending(k) ==
  /\ Event /\ asked[k].count > 0
  /\ stop' = stop \cup {k}
  /\ UNCHANGED <<cause, open, tour, spoilt, prod, body, agent, loop, coros, wire, asked, blunders, lost, nextId>>

ConnectionTerminated ==
  /\ Event /\ open' = FALSE
  /\ UNCHANGED <<cause, tour, spoilt, prod, body, agent, loop, coros, stop, wire, asked, blunders, lost, nextId>>

-----------------------------------------------------------------------------
(* The loop thread: coroutines.                                            *)

(* The library sends headers once, data between them and the end, and      *)
(* raises an exception for anything else.                                  *)
Sent(k, what) ==
  IF ~open THEN wire[k]
  ELSE CASE what = "headers" /\ wire[k] = "none" -> "headers"
         [] what # "headers" /\ wire[k] \in {"headers", "data"} -> what
         [] OTHER -> "refused"

(* The listener of an end returns the tour.  One that finds it returned    *)
(* raises in a coroutine nobody waits for; one that checks no id returns   *)
(* whatever tour the object has become.                                    *)
Returns(c) ==
  LET held == IF c.chk THEN {k \in {c.key} : Is(k, c.id)} ELSE Holders(c.obj) IN
  /\ tour' = [k \in Keys |-> IF k \in held THEN NoTour ELSE tour[k]]
  /\ blunders' = [k \in Keys |-> IF k \in held /\ tour[k].id # c.id
                                 THEN blunders[k] \cup {"robbed"} ELSE blunders[k]]
  /\ UNCHANGED loop

(* The listener of a chunk is TourRes.consumed, in four accesses to what   *)
(* the agent's thread shares: the chunk is counted and available read,     *)
Counts(c) ==
  /\ IF Is(c.key, c.id)
     THEN /\ Set(c.key, [tour[c.key] EXCEPT !.unread = @ - 1])
          /\ loop' = [at |-> "counted", key |-> c.key, old |-> tour[c.key].available]
     ELSE UNCHANGED <<tour, loop>>
  /\ UNCHANGED blunders

(* Nothing is sent on a stream the client has stopped, nor is the listener *)
(* called.                                                                 *)
RunCoroutine ==
  /\ loop.at = "idle" /\ coros # <<>> /\ coros' = Tail(coros)
  /\ LET c == Head(coros) IN
     IF c.key \in stop
     THEN UNCHANGED <<tour, loop, wire, blunders>>
     ELSE /\ wire' = [wire EXCEPT ![c.key] = Sent(c.key, c.what)]
          /\ \/ ~c.lis /\ UNCHANGED <<tour, loop, blunders>>
             \/ c.lis /\ c.what = "end" /\ Returns(c)
             \/ c.lis /\ c.what # "end" /\ Counts(c)
  /\ UNCHANGED <<cause, spoilt, prod, body, agent, lost, nextId, client>>

(* the buffer is looked at,                                                *)
LooksForRoom ==
  /\ loop.at = "counted"
  /\ loop' = IF tour[loop.key].unread < Buffer THEN [loop EXCEPT !.at = "freeing"] ELSE Waiting
  /\ UNCHANGED <<cause, tour, spoilt, prod, body, agent, coros, wire, blunders, lost, nextId, client>>

(* available is set,                                                       *)
Frees ==
  LET t == tour[loop.key] IN
  /\ loop.at = "freeing" /\ loop' = [loop EXCEPT !.at = "freed"]
  /\ Set(loop.key, [t EXCEPT !.available = TRUE])
  /\ lost' = IF loop.old /\ ~t.available THEN lost \cup {loop.key} ELSE lost
  /\ UNCHANGED <<cause, spoilt, prod, body, agent, coros, wire, blunders, nextId, client>>

(* and the producer is resumed, unless the tour is running.                *)
Resumes ==
  LET k == loop.key
      heard == ~loop.old /\ tour[k].available /\ tour[k].state # "running"
  IN
  /\ loop.at = "freed" /\ loop' = Waiting
  /\ prod' = [prod EXCEPT ![k].at = IF heard /\ @ = "stalled" THEN "busy" ELSE @]
  /\ lost' = IF heard /\ agent.at = "suspending" /\ agent.id = tour[k].id THEN lost \cup {k}
             ELSE IF heard THEN lost \ {k} ELSE lost
  /\ UNCHANGED <<cause, tour, spoilt, body, agent, coros, wire, blunders, nextId, client>>

-----------------------------------------------------------------------------
(* The agent's thread.                                                     *)

Alive == cause = "none"
Dies(why) ==
  /\ cause' = why
  /\ UNCHANGED <<tour, spoilt, prod, body, agent, loop, coros, wire, blunders, lost, nextId, client>>

Letter(k) ==
  /\ Alive /\ agent.at = "idle"
  /\ prod[k].at \in {"starting", "busy"} \/ (prod[k].at = "stalled" /\ prod[k].kind \in Slow)
Busy(k, at, chk) == agent' = [at |-> at, key |-> k, id |-> tour[k].id, obj |-> tour[k].obj, chk |-> chk]

(* Whatever a producer calls first checks that the tour is still its own.  *)
Stale(k) ==
  /\ Letter(k) /\ ~Is(k, prod[k].id)
  /\ Dies("stale")

(* A slot is free for a process that had to wait.  It takes the body that  *)
(* has come, which must not have filled the buffer: see ResumesClient.     *)
StartsProcess(k) ==
  /\ Alive /\ agent.at = "idle" /\ prod[k].at = "queued" /\ ~(Live(k) /\ tour[k].full)
  /\ prod' = [prod EXCEPT ![k].at = "starting"]
  /\ UNCHANGED <<cause, tour, spoilt, body, agent, loop, coros, wire, blunders, lost, nextId, client>>

(* A process or backend sends its headers.                                 *)
SendsHeaders(k) ==
  /\ Letter(k) /\ Is(k, prod[k].id) /\ prod[k].at = "starting"
  /\ prod' = [prod EXCEPT ![k].at = "busy"]
  /\ Set(k, [tour[k] EXCEPT !.headerSent = TRUE])
  /\ coros' = IF tour[k].headerSent THEN coros ELSE Append(coros, Post(k, tour[k], "headers", FALSE, FALSE))
  /\ UNCHANGED <<cause, spoilt, body, agent, loop, wire, blunders, lost, nextId, client>>

(* send_res_content, in four parts: the chunk is posted,                   *)
SendsContent(k) ==
  /\ Letter(k) /\ Is(k, prod[k].id) /\ prod[k].at = "busy" /\ prod[k].left > 0
  /\ prod' = [prod EXCEPT ![k].left = @ - 1]
  /\ Set(k, [tour[k] EXCEPT !.unread = @ + 1])
  /\ coros' = Append(coros, Post(k, tour[k], "data", TRUE, TRUE))
  /\ Busy(k, "sent", TRUE)
  /\ UNCHANGED <<cause, spoilt, body, loop, wire, blunders, lost, nextId, client>>

(* the buffer is looked at,                                                *)
ChecksBuffer ==
  /\ Alive /\ agent.at = "sent"
  /\ agent' = IF ~Is(agent.key, agent.id) THEN Resting
              ELSE [agent EXCEPT !.at = IF tour[agent.key].unread >= Buffer THEN "full" ELSE "answering"]
  /\ UNCHANGED <<cause, tour, spoilt, prod, body, loop, coros, wire, blunders, lost, nextId, client>>

(* available is cleared, even if room has been made by now,                *)
ClearsAvailable ==
  LET k == agent.key IN
  /\ Alive /\ agent.at = "full"
  /\ IF Is(k, agent.id)
     THEN /\ agent' = [agent EXCEPT !.at = "answering"]
          /\ Set(k, [tour[k] EXCEPT !.available = FALSE])
          /\ lost' = IF tour[k].unread < Buffer THEN lost \cup {k} ELSE lost
     ELSE agent' = Resting /\ UNCHANGED <<tour, lost>>
  /\ UNCHANGED <<cause, spoilt, prod, body, loop, coros, wire, blunders, nextId, client>>

(* and its value returned: the producer goes on, or it is suspended.       *)
Answers ==
  LET k == agent.key IN
  /\ Alive /\ agent.at = "answering"
  /\ IF Is(k, agent.id) /\ ~tour[k].available
     THEN agent' = [agent EXCEPT !.at = "suspending"] /\ UNCHANGED lost
     ELSE agent' = Resting /\ lost' = lost \ {k}
  /\ UNCHANGED <<cause, tour, spoilt, prod, body, loop, coros, wire, blunders, nextId, client>>

(* SUSPEND: reading is set off, also if it has been asked for meanwhile.   *)
Suspends ==
  /\ Alive /\ agent.at = "suspending"
  /\ prod' = [prod EXCEPT ![agent.key].at = "stalled"]
  /\ agent' = Resting
  /\ UNCHANGED <<cause, tour, spoilt, body, loop, coros, wire, blunders, lost, nextId, client>>

(* end_res_content, in four parts: the end is posted - after an error page *)
(* by a process or backend that has failed, if need be; with no header     *)
(* before it by one that never sent one; by a backend with or without a    *)
(* check of the id -,                                                      *)
EndsTour(k, page, chk) ==
  LET t == tour[k] IN
  /\ Letter(k) /\ Is(k, prod[k].id)
  /\ prod[k].kind \in Slow \/ prod[k].left = 0
  /\ page => prod[k].kind \in Slow /\ ~t.headerSent
  /\ chk \/ prod[k].kind = "backend"
  /\ prod' = [prod EXCEPT ![k] = NoProducer]
  /\ Set(k, [t EXCEPT !.headerSent = @ \/ page])
  /\ coros' = coros \o (IF page THEN Page(k, t) ELSE <<>>) \o End(k, t, chk)
  /\ IF t.state = "ended" THEN UNCHANGED agent ELSE Busy(k, "ending", chk)
  /\ IF page \/ t.headerSent THEN UNCHANGED blunders ELSE Blunder(k, "bare")
  /\ UNCHANGED <<cause, spoilt, body, loop, wire, lost, nextId, client>>

(* tour_returned is looked at,                                             *)
ChecksReturned ==
  /\ Alive /\ agent.at = "ending"
  /\ agent' = IF Is(agent.key, agent.id) THEN [agent EXCEPT !.at = "changing"] ELSE Resting
  /\ UNCHANGED <<cause, tour, spoilt, prod, body, loop, coros, wire, blunders, lost, nextId, client>>

(* change_state checks the id, if it is given one,                         *)
ChecksId ==
  /\ Alive /\ agent.at = "changing"
  /\ IF agent.chk /\ ~Is(agent.key, agent.id)
     THEN Dies("returned")
     ELSE /\ agent' = [agent EXCEPT !.at = "assigning"]
          /\ UNCHANGED <<cause, tour, spoilt, prod, body, loop, coros, wire, blunders, lost, nextId, client>>

(* and sets the state of whatever the object has become: this tour,        *)
(* another stream's, or none.                                              *)
ChangesState ==
  /\ Alive /\ agent.at = "assigning" /\ agent' = Resting
  /\ tour' = [k \in Keys |-> IF k \in Holders(agent.obj) THEN [tour[k] EXCEPT !.state = "ended"] ELSE tour[k]]
  /\ blunders' = [k \in Keys |-> IF k \in Holders(agent.obj) /\ tour[k].id # agent.id
                                 THEN blunders[k] \cup {"late"} ELSE blunders[k]]
  /\ spoilt' = IF Holders(agent.obj) = {} THEN spoilt \cup {agent.obj} ELSE spoilt
  /\ UNCHANGED <<cause, prod, body, loop, coros, wire, lost, nextId, client>>

(* A unit of a body is written, or dropped with its connection: TourReq's  *)
(* consumed checks the tour.                                               *)
WritesBody(k) ==
  /\ Alive /\ agent.at = "idle" /\ body[k].units > 0
  /\ IF ~Is(k, body[k].id)
     THEN Dies("consumed")
     ELSE /\ body' = [body EXCEPT ![k].units = @ - 1]
          /\ UNCHANGED <<cause, tour, spoilt, prod, agent, loop, coros, wire, blunders, lost, nextId, client>>

(* A backend that has taken what filled the buffer, or a process that has  *)
(* waited, resumes the ship, which has no transporter.                     *)
ResumesClient(k) ==
  /\ Alive /\ agent.at = "idle" /\ Live(k) /\ tour[k].full
  /\ (body[k].units > 0 /\ body[k].id = tour[k].id) \/ prod[k].at = "queued"
  /\ Dies("resume")

Next ==
  \/ \E k \in Keys, kind \in Kinds, n \in 0..MaxLength, waits \in BOOLEAN : Headers(k, kind, n, waits)
  \/ \E k \in Keys : Trailers(k) \/ Reset(k) \/ StopSending(k)
  \/ \E k \in Keys, n \in 0..MaxLength, fin, fills \in BOOLEAN : Data(k, n, fin, fills)
  \/ ConnectionTerminated \/ RunCoroutine \/ LooksForRoom \/ Frees \/ Resumes
  \/ \E k \in Keys : Stale(k) \/ StartsProcess(k) \/ SendsHeaders(k) \/ SendsContent(k)
  \/ \E k \in Keys, page, chk \in BOOLEAN : EndsTour(k, page, chk)
  \/ \E k \in Keys : WritesBody(k) \/ ResumesClient(k)
  \/ ChecksBuffer \/ ClearsAvailable \/ Answers \/ Suspends
  \/ ChecksReturned \/ ChecksId \/ ChangesState

Spec == Init /\ [][Next]_vars
-----------------------------------------------------------------------------
(* Properties.                                                             *)

Trailed(k) == "trailers" \in blunders[k]

(* Responses made by two threads leave in order all the same - headers,    *)
(* data, one end - whatever the client resets or stops: the library never  *)
(* refuses what a coroutine sends (send_res_headers, send_res_content,     *)
(* send_end_tour), except on a stream whose request had trailers, or whose *)
(* process or backend ended without a header.                              *)
StreamsInOrder == \A k \in Keys : wire[k] = "refused" => blunders[k] \cap {"trailers", "bare"} # {}

(* A tour that nothing ends any more - no producer, no end under way -     *)
(* still waits for its client, or else: the client has stopped the stream, *)
(* whose end then never returns the tour; or has reset it; or is gone; or  *)
(* an event of it was not survived by its handler; or the agent's thread   *)
(* has marked it as ended for another stream's tour, which had the object  *)
(* before.  There is no timeout.                                           *)
Ending(k) ==
  \/ prod[k].at # "none" /\ prod[k].id = tour[k].id
  \/ agent.at \in {"ending", "changing", "assigning"} /\ agent.id = tour[k].id
  \/ \E i \in DOMAIN coros : coros[i].id = tour[k].id /\ coros[i].what = "end"
StreamHasEnd ==
  \A k \in Keys : Alive /\ Live(k) /\ ~Ending(k) =>
    \/ ~asked[k].fin /\ tour[k].state = "reading"
    \/ k \in stop /\ tour[k].state = "ended"
    \/ "reset" \in blunders[k] /\ (tour[k].state = "aborted" \/ tour[k].error)
    \/ ~open /\ tour[k].state = "reading"
    \/ blunders[k] \cap {"trailers", "tooLong", "short", "notReading", "late", "spoilt"} # {}

(* Once nothing is under way, a file or process is left suspended only if  *)
(* its request had no body - consumed() resumes none of those -, if its    *)
(* resumption was missed, if the client stopped the stream, or after       *)
(* trailers.  A resumption is missed when it comes before the agent has    *)
(* suspended the producer, when the agent clears available though room has *)
(* been made since it looked, and when consumed() sets available though    *)
(* the agent has cleared it since it was read.                             *)
StalledForAReason ==
  coros = <<>> /\ agent.at = "idle" /\ loop.at = "idle" =>
    \A k \in Keys : prod[k].at = "stalled" =>
      prod[k].declared = 0 \/ k \in lost \cup stop \/ blunders[k] \cap {"trailers", "robbed"} # {}

(* The agent's thread ends in four ways only: a request whose tour was     *)
(* returned under its producer, which takes trailers; a body that filled   *)
(* the buffer of a backend or of a process that waits; an end called back  *)
(* between the two halves of end_res_content's last test; a unit of a body *)
(* that is written after its backend's early answer returned the tour.     *)
Returned(k) == ~open \/ wire[k] \in {"end", "refused"} \/ "robbed" \in blunders[k]
DeathExplained ==
  \/ cause' = cause
  \/ cause' = "stale" /\ \E k \in Keys : prod[k].at # "none" /\ blunders[k] \cap {"trailers", "robbed"} # {}
  \/ cause' = "resume" /\ \E k \in Keys : tour[k].full /\ tour[k].limit > 0
                                         /\ tour[k].kind \in Slow
  \/ cause' = "returned" /\ Returned(agent.key)
  \/ cause' = "consumed" /\ \E k \in Keys : body[k].units > 0 /\ Returned(k)
ThreadDeathsExplained == [][DeathExplained]_vars

(* What the streams of a connection promise, between two steps.            *)
StreamsServed == TypeOK /\ StreamsInOrder /\ StreamHasEnd /\ StalledForAReason
=============================================================================
