------------------------------ MODULE RecordWarp ------------------------------
(***************************************************************************)
(* The requests that are forwarded, one after the other, over one kept     *)
(* connection to a FastCGI or an AJP backend (FcgWarpHandler and           *)
(* AjpWarpHandler).  Warp models the store of such connections and the     *)
(* tours' clients; this module models what the two handlers make of the    *)
(* backend's records, and what they leave behind for the next request.     *)
(* A step is one upcall on the agent's thread, of one record, or a step of *)
(* the backend or of a client.                                             *)
(***************************************************************************)
EXTENDS Naturals, Sequences

CONSTANTS
  NumRequests,  \* bound: requests that arrive
  MaxFaults     \* bound: failures of the backend

Requests == 1 .. NumRequests
None == 0

VARIABLES
  proto,   \* "fcgi" or "ajp"
  agent,   \* "up", or why the agent has died
  conn,    \* the connection
  serves,  \* WarpShip.tour_map
  state,   \* STATE_READ_HEADER or STATE_READ_CONTENT
  line,    \* whose header bytes line_buf holds
  reading, \* the rudder is selected for reading
  units,   \* cmd_buf and the write queue
  inbox,   \* the records the backend has sent
  backend, \* what it has read
  req,     \* the requests
  cut,     \* history: the answers that ended within a header line
  strayed, \* history: the backend has sent a record unasked
  refused, \* history: the requests whose environment could not be built
  faults

vars == <<proto, agent, conn, serves, state, line, reading, units, inbox,
          backend, req, cut, strayed, refused, faults>>
wire == <<units, backend>>
past == <<cut, strayed, refused, faults>>

(* sent: the whole body has come; full: the response buffer is full;       *)
(* headers: whose header bytes the client is given; answer: "bare" is an   *)
(* end without headers.                                                    *)
NewRequest == [phase |-> "new", post |-> FALSE, sent |-> FALSE, full |-> FALSE,
               headed |-> FALSE, headers |-> {}, of |-> {}, answer |-> "none"]
Idle == [heard |-> None, whole |-> TRUE, owes |-> FALSE, gone |-> FALSE]

(* The records of the protocol, the end of the connection and a record     *)
(* only a server is sent.                                                  *)
Kinds == {"data", "end", "eof", "foreign"} \cup
  (IF proto = "fcgi" THEN {"part", "line", "blank", "drained", "bad"} ELSE {"headers", "wants", "final"})

TypeOK ==
  /\ proto \in {"fcgi", "ajp"} /\ agent \in {"up", "stray", "unsent", "id", "resume", "consumed"}
  /\ conn \in {"none", "connecting", "up", "closing", "closed", "lost"}
  /\ serves \in Requests \cup {None} /\ state \in {"header", "content"}
  /\ line \subseteq Requests /\ reading \in BOOLEAN
  /\ units \in Seq([kind : {"begin", "head", "body", "end"}, of : Requests])
  /\ inbox \in Seq([kind : Kinds, of : Requests \cup {None}])
  /\ backend \in [heard : Requests \cup {None}, whole : BOOLEAN, owes : BOOLEAN, gone : BOOLEAN]
  /\ req \in [Requests ->
       [phase : {"new", "arrived", "ended", "returned"}, post : BOOLEAN, sent : BOOLEAN,
        full : BOOLEAN, headed : BOOLEAN, headers : SUBSET Requests,
        of : SUBSET (Requests \cup {None}), answer : {"none", "given", "error", "bare"}]]
  /\ cut \subseteq Requests /\ refused \subseteq Requests /\ strayed \in BOOLEAN /\ faults \in 0 .. MaxFaults

Init ==
  /\ proto \in {"fcgi", "ajp"} /\ agent = "up" /\ conn = "none" /\ serves = None
  /\ state = "header" /\ line = {} /\ reading = FALSE /\ units = <<>> /\ inbox = <<>>
  /\ backend = Idle /\ req \in [Requests -> {[NewRequest EXCEPT !.post = p] : p \in BOOLEAN}]
  /\ cut = {} /\ strayed = FALSE /\ refused = {} /\ faults = 0

-----------------------------------------------------------------------------
Runs == agent = "up" /\ UNCHANGED <<proto, past>>
Fault(stray) ==
  /\ agent = "up" /\ faults < MaxFaults /\ faults' = faults + 1
  /\ strayed' = (strayed \/ stray) /\ UNCHANGED <<proto, cut, refused>>
Dies(why) == agent' = why /\ UNCHANGED <<conn, serves, state, line, reading, req, cut>>

(* post and flush.  An AJP request has no unit of its own for its end: its *)
(* listener, which starts to read, is called at once when connected, with  *)
(* the others when the connection is made.                                 *)
Unit(kind, r) == [kind |-> kind, of |-> r]
EndUnits(r) == IF proto = "fcgi" THEN <<Unit("end", r)>> ELSE <<>>
EndReads(r) == proto = "ajp" /\ conn = "up"

(* send_begin_req and send_params: BEGIN_REQUEST is posted first, and is   *)
(* all there is when the environment cannot be built (a NUL in a header).  *)
FcgiHead(r, bad) == <<Unit(IF bad THEN "begin" ELSE "head", r)>>

(* send_forward_request.                                                   *)
AjpHead(r) == <<Unit("head", r)>>

(* start_warp_tour: a new connection, or the one that was kept; the header *)
(* records, and the end of a request without a body.                       *)
InOrder(r) == \A q \in 1 .. r - 1 : req[q].phase # "new"
Free == serves = None /\ conn \in {"none", "up"}

Arrive(r) ==
  /\ Runs /\ req[r].phase = "new" /\ InOrder(r) /\ Free
  /\ req' = [req EXCEPT ![r].phase = "arrived", ![r].sent = ~req[r].post]
  /\ serves' = r
  /\ conn' = IF conn = "none" THEN "connecting" ELSE conn
  /\ units' = units \o (IF proto = "fcgi" THEN FcgiHead(r, FALSE) ELSE AjpHead(r))
                   \o (IF req[r].post THEN <<>> ELSE EndUnits(r))
  /\ reading' = (reading \/ (~req[r].post /\ EndReads(r)))
  /\ UNCHANGED <<agent, state, line, inbox, backend>>

(* The exception of send_params leaves the tour in tour_map and the ship   *)
(* busy; a new connection is never made.  The tour is answered with 400.   *)
Refuse(r) ==
  /\ agent = "up" /\ faults < MaxFaults /\ faults' = faults + 1
  /\ proto = "fcgi" /\ req[r].phase = "new" /\ InOrder(r) /\ Free
  /\ req' = [req EXCEPT ![r].phase = "ended", ![r].answer = "error", ![r].headed = TRUE]
  /\ serves' = r /\ refused' = refused \cup {r}
  /\ conn' = IF conn = "none" THEN "lost" ELSE conn
  /\ units' = units \o FcgiHead(r, TRUE)
  /\ UNCHANGED <<proto, agent, state, line, reading, inbox, backend, cut, strayed>>

(* The tour is returned to the ship it came from, and takes a new id.  The *)
(* letter of a close is handled before the end of a response the close has *)
(* made is written; what had ended before can as well be returned before.  *)
ReturnTour(r) ==
  /\ Runs /\ req[r].phase = "ended" /\ ~req[r].full /\ conn # "closing"
  /\ req' = [req EXCEPT ![r].phase = "returned"]
  /\ UNCHANGED <<agent, conn, serves, state, line, reading, inbox, wire>>

(* notify_connect, and the listeners that flush calls.                     *)
Connected ==
  /\ Runs /\ conn = "connecting" /\ conn' = "up"
  /\ reading' = (proto = "ajp" /\ req[serves].sent)
  /\ UNCHANGED <<agent, serves, state, line, inbox, wire, req>>

(* send_req_contents and send_end_req.                                     *)
Body(r) ==
  /\ Runs /\ req[r].phase = "arrived" /\ ~req[r].sent /\ conn \in {"connecting", "up"}
  /\ req' = [req EXCEPT ![r].sent = TRUE]
  /\ units' = units \o <<Unit("body", r)>> \o EndUnits(r)
  /\ reading' = (reading \/ EndReads(r))
  /\ UNCHANGED <<agent, conn, serves, state, line, inbox, backend>>

(* One unit is written, and its listener called: that of a chunk of a body *)
(* is TourReq.consumed, which raises Sink when the tour has been answered  *)
(* early and returned.  An AJP backend that is given a request in place of *)
(* the body of the one before closes.                                      *)
Unheard(u) == u.kind = "body" /\ req[u.of].phase = "returned"
Completes(u) == u.kind = "end" \/ (proto = "ajp" /\ (u.kind = "body" \/ ~req[u.of].post))
Hears(u) ==
  IF u.kind = "begin" THEN backend
  ELSE IF u.kind = "head" THEN [backend EXCEPT !.heard = u.of, !.whole = Completes(u), !.owes = TRUE]
  ELSE IF u.of = backend.heard THEN [backend EXCEPT !.whole = @ \/ Completes(u)]
  ELSE backend
Confused(u) == proto = "ajp" /\ u.kind = "head" /\ ~backend.whole

Write ==
  LET u == Head(units) IN
  /\ Runs /\ conn = "up" /\ units # <<>>
  /\ IF Unheard(u) THEN Dies("consumed") /\ UNCHANGED <<wire, inbox>>
     ELSE /\ units' = Tail(units)
          /\ IF backend.gone THEN UNCHANGED <<backend, inbox>>
             ELSE IF Confused(u)
             THEN backend' = [backend EXCEPT !.gone = TRUE] /\ inbox' = Append(inbox, [kind |-> "eof", of |-> None])
             ELSE backend' = Hears(u) /\ UNCHANGED inbox
          /\ reading' = (reading \/ u.kind = "end")
          /\ UNCHANGED <<agent, conn, serves, state, line, req>>

(* A client that has read on.  TourRes.consumed calls the listener that    *)
(* resumes the reading of the backend only when the tour is not running.   *)
(* The ship it was made on may have been returned: check_ship_id raises.   *)
Running(r) == req[r].phase = "arrived" /\ ~req[r].post
ClientReads(r) ==
  /\ Runs /\ req[r].full
  /\ IF ~Running(r) /\ conn = "closed" THEN Dies("resume")
     ELSE /\ req' = [req EXCEPT ![r].full = FALSE]
          /\ reading' = (reading \/ (~Running(r) /\ conn = "up"))
          /\ UNCHANGED <<agent, conn, serves, state, line>>
  /\ UNCHANGED <<inbox, wire>>

-----------------------------------------------------------------------------
(* The backend.                                                            *)

(* The records of an answer.  FastCGI: "part" is a header line's first     *)
(* bytes, "line" the rest of one, "blank" the empty line, "drained" the    *)
(* empty STDOUT.  AJP: "final" is an END_RESPONSE without reuse, "wants" a *)
(* GET_BODY_CHUNK.                                                         *)
Answers ==
  IF proto = "fcgi"
  THEN {<<"part", "line", "blank", "data", "drained", "end">>,
        <<"line", "blank", "end">>, <<"blank", "data", "end">>,
        <<"line", "part", "end">>, <<"drained", "end">>}
  ELSE {<<"headers", "data", "data", "end">>, <<"wants", "headers", "end">>,
        <<"end">>, <<"data", "final">>}

Says(kinds) == inbox \o [i \in DOMAIN kinds |-> [kind |-> kinds[i], of |-> backend.heard]]

UpAnswers ==
  /\ Runs /\ conn = "up" /\ backend.owes /\ ~backend.gone
  /\ \E a \in Answers : inbox' = Says(a)
  /\ backend' = [backend EXCEPT !.owes = FALSE]
  /\ UNCHANGED <<agent, conn, serves, state, line, reading, units, req>>

(* It dies while it answers.                                               *)
UpDies ==
  /\ Fault(FALSE) /\ conn = "up" /\ backend.owes /\ ~backend.gone
  /\ \E a \in Answers, n \in 0 .. 3 :
       n < Len(a) /\ inbox' = Append(Says(SubSeq(a, 1, n)), [kind |-> "eof", of |-> None])
  /\ backend' = [backend EXCEPT !.owes = FALSE, !.gone = TRUE]
  /\ UNCHANGED <<agent, conn, serves, state, line, reading, units, req>>

(* It answers out of order, or with a record only a server is sent.        *)
UpErrs ==
  /\ Fault(FALSE) /\ conn = "up" /\ backend.owes /\ ~backend.gone
  /\ \E records \in {<<"foreign">>, IF proto = "fcgi" THEN <<"line", "bad">> ELSE <<"data", "headers">>} :
       inbox' = Says(records)
  /\ backend' = [backend EXCEPT !.owes = FALSE]
  /\ UNCHANGED <<agent, conn, serves, state, line, reading, units, req>>

UpLeaves ==
  /\ Fault(FALSE) /\ conn = "up" /\ ~backend.owes /\ ~backend.gone
  /\ inbox' = Append(inbox, [kind |-> "eof", of |-> None])
  /\ backend' = [backend EXCEPT !.gone = TRUE]
  /\ UNCHANGED <<agent, conn, serves, state, line, reading, units, req>>

UpStray ==
  /\ Fault(TRUE) /\ conn = "up" /\ ~backend.owes /\ ~backend.gone
  /\ \E kind \in {"end", IF proto = "fcgi" THEN "line" ELSE "data"} : inbox' = Says(<<kind>>)
  /\ UNCHANGED <<agent, conn, serves, state, line, reading, wire, req>>

-----------------------------------------------------------------------------
(* What is read.                                                           *)

Ended(q, how) == [q EXCEPT !.phase = "ended", !.answer = IF q.headed THEN @ ELSE how]

(* notify_error_to_owner_tour, which checks the tour's id.                 *)
Stale(r) == r # None /\ req[r].phase = "returned"
Failed(r) == IF r = None THEN req
             ELSE [req EXCEPT ![r] = Ended(@, IF Running(r) THEN "error" ELSE "bare")]
Closes(r) ==
  IF Stale(r) THEN Dies("id")
  ELSE /\ conn' = "closing" /\ serves' = None /\ reading' = FALSE
       /\ req' = Failed(r) /\ UNCHANGED <<agent, state, line, cut>>

Stays == UNCHANGED <<agent, conn, serves>>
Sends(r, q) == req' = [req EXCEPT ![r] = q]
Heads(q, from) == [q EXCEPT !.headed = TRUE, !.answer = IF q.headed THEN @ ELSE "given",
                            !.of = @ \cup {from}]

(* parse_header and read_header, of a STDOUT in the header state.  A line  *)
(* is what line_buf holds, whoever it came from, and the new bytes; one    *)
(* without a colon is a protocol error.                                    *)
HeaderBytes(r, kind) ==
  CASE kind = "part" ->
         line' = line \cup {r} /\ Stays /\ UNCHANGED <<state, reading, req, cut>>
    [] kind = "line" ->
         /\ Sends(r, [req[r] EXCEPT !.headers = @ \cup line \cup {r}])
         /\ line' = {} /\ Stays /\ UNCHANGED <<state, reading, cut>>
    [] kind = "blank" /\ line = {} ->
         /\ Sends(r, Heads(req[r], r)) /\ state' = "content"
         /\ Stays /\ UNCHANGED <<line, reading, cut>>
    [] OTHER -> Closes(r)

(* send_res_content raises Sink before the headers have been sent.  The    *)
(* FastCGI unpacker does not heed a SUSPEND.  Mutant: it does.             *)
Heeded(full) == full
Suspends(full) == full /\ proto = "ajp"

Content(r, from) ==
  IF state = "content" /\ ~req[r].headed
  THEN Dies("unsent")
  ELSE \E full \in BOOLEAN :
         /\ Sends(r, [Heads(req[r], from) EXCEPT !.full = full])
         /\ reading' = ~Suspends(full)
         /\ state' = "content" /\ Stays /\ UNCHANGED <<line, cut>>

(* end_res_content: reset_state does not clear line_buf.                   *)
Finishes(r, q, keep) ==
  /\ Sends(r, Ended(q, "bare")) /\ serves' = None /\ state' = "header"
  /\ conn' = IF keep THEN conn ELSE "closing"
  /\ cut' = IF r \in line THEN cut \cup {r} ELSE cut
  /\ UNCHANGED <<agent, line, reading>>

(* handle_stdout and handle_end_request.                                   *)
FcgiRecord(r, item) ==
  CASE item.kind = "end" -> Finishes(r, req[r], TRUE)
    [] item.kind = "drained" ->
         state' = "header" /\ Stays /\ UNCHANGED <<line, reading, req, cut>>
    [] item.kind \notin {"end", "drained"} /\ state = "header" -> HeaderBytes(r, item.kind)
    [] OTHER -> Content(r, item.of)

(* handle_send_headers, handle_send_body_chunk and handle_end_response.    *)
AjpRecord(r, item) ==
  CASE item.kind = "headers" /\ state = "header" ->
         /\ Sends(r, [req[r] EXCEPT !.headers = @ \cup {item.of}])
         /\ Stays /\ UNCHANGED <<state, line, reading, cut>>
    [] item.kind = "headers" /\ state # "header" -> Closes(r)
    [] item.kind = "data" -> Content(r, item.of)
    [] item.kind = "wants" -> Stays /\ UNCHANGED <<state, line, reading, req, cut>>
    [] OTHER -> Finishes(r, IF state = "header" THEN Heads(req[r], item.of) ELSE req[r],
                         item.kind = "end")

(* notify_eof.                                                             *)
Eof(r) ==
  IF Stale(r) THEN Dies("id")
  ELSE /\ conn' = "closing" /\ serves' = None /\ reading' = FALSE
       /\ req' = IF r = None THEN req ELSE [req EXCEPT ![r] = Ended(@, "error")]
       /\ UNCHANGED <<agent, state, line, cut>>

(* get_tour: a FastCGI record carries the id of its request; every AJP     *)
(* request has the same one.  Mutant: FastCGI ids are not told apart.      *)
FixedIds(item) == serves
TourOf(item) == IF proto = "ajp" \/ item.of = serves THEN serves ELSE None

Read ==
  LET item == Head(inbox) IN
  /\ agent = "up" /\ conn = "up" /\ reading /\ inbox # <<>>
  /\ inbox' = Tail(inbox)
  /\ CASE item.kind = "eof" -> Eof(serves)
       [] item.kind = "foreign" -> Closes(serves)
       [] item.kind = "wants" -> Stays /\ UNCHANGED <<state, line, reading, req, cut>>
       [] item.kind \notin {"eof", "foreign", "wants"} /\ TourOf(item) = None -> Dies("stray")
       [] item.kind \notin {"eof", "foreign", "wants"} /\ Stale(TourOf(item)) -> Dies("id")
       [] OTHER -> IF proto = "fcgi" THEN FcgiRecord(TourOf(item), item)
                   ELSE AjpRecord(TourOf(item), item)
  /\ UNCHANGED <<proto, wire, strayed, refused, faults>>

(* check_timeout: neither handler marks its ship as keeping.               *)
TimesOut ==
  /\ agent = "up" /\ conn \in {"connecting", "up"} /\ Closes(serves)
  /\ UNCHANGED <<proto, wire, inbox, strayed, refused, faults>>

(* The units that wait are drained and their listeners called; then, in    *)
(* notify_close, the ship and its handler are returned and reset.          *)
Closed ==
  /\ Runs /\ conn = "closing"
  /\ IF \E i \in DOMAIN units : Unheard(units[i])
     THEN Dies("consumed") /\ UNCHANGED <<units, inbox>>
     ELSE /\ conn' = "closed" /\ line' = {} /\ state' = "header" /\ units' = <<>> /\ inbox' = <<>>
          /\ UNCHANGED <<agent, serves, reading, req>>
  /\ UNCHANGED backend

-----------------------------------------------------------------------------
(* What must happen when nobody waits for a timeout.                       *)
Prompt ==
  \/ \E r \in Requests : Body(r) \/ ClientReads(r) \/ ReturnTour(r)
  \/ Connected \/ Write \/ Read \/ Closed \/ UpAnswers
Next ==
  \/ Prompt \/ \E r \in Requests : Arrive(r) \/ Refuse(r)
  \/ UpLeaves \/ UpDies \/ UpErrs \/ UpStray \/ TimesOut

-----------------------------------------------------------------------------
(* Properties.                                                             *)

(* What a client is given is the backend's answer to its own request.  The *)
(* exceptions: header bytes of an earlier answer that ended within a line  *)
(* open the next one's headers (line_buf is not cleared), and an AJP       *)
(* record nobody asked for is taken for the next answer.  An end without   *)
(* any header is given only to a request with a body or by a FastCGI       *)
(* answer without a complete header.                                       *)
AnswersMatch ==
  \A r \in Requests :
    /\ \A q \in req[r].headers \ {r} : q \in cut \/ (strayed /\ proto = "ajp")
    /\ req[r].of \subseteq {r} \/ (strayed /\ proto = "ajp")
    /\ req[r].answer = "bare" => req[r].post \/ proto = "fcgi"
    /\ req[r].phase \in {"ended", "returned"} => req[r].answer # "none"

(* The agent dies only of a record nobody asked for; of what ends the      *)
(* connection when it finds the returned tour of a request that was        *)
(* refused while it was being sent (start_warp_tour had entered it in      *)
(* tour_map); of a client that reads on after the connection has been      *)
(* closed, which its listener would resume; of a piece of a body that is   *)
(* written or drained after its tour has been answered early and returned. *)
(* The state one answer leaves behind never makes the next one send        *)
(* content without headers.                                                *)
DeathsExplained ==
  agent # "up" => \/ agent = "stray" /\ strayed
                  \/ agent = "id" /\ serves \in refused
                  \/ agent = "resume" /\ conn = "closed"
                     /\ \E r \in Requests : req[r].full /\ req[r].phase = "ended"
                  \/ agent = "consumed" /\ \E i \in DOMAIN units : Unheard(units[i])

(* Nobody can do any more of what is prompt: Prompt is not enabled,        *)
(* written out.                                                            *)
Quiet ==
  /\ conn \notin {"connecting", "closing"}
  /\ \A r \in Requests : ~req[r].full /\ req[r].phase # "ended"
  /\ conn = "up" =>
       /\ \A r \in Requests : req[r].phase = "arrived" => req[r].sent
       /\ units = <<>> /\ (inbox = <<>> \/ ~reading) /\ (~backend.owes \/ backend.gone)

(* When only a timeout is left to happen, a request still without its end  *)
(* is an AJP request without a body whose buffer was full: its client has  *)
(* read on, the backend's records wait, and nobody resumes the reading.    *)
StalledForAReason ==
  agent = "up" /\ Quiet =>
    \A r \in Requests : req[r].phase = "arrived" =>
      proto = "ajp" /\ ~req[r].post /\ ~reading /\ inbox # <<>>

(* All but the last: the records of a kept connection are answered to whom *)
(* they belong.                                                            *)
RecordsAnswered == TypeOK /\ AnswersMatch /\ DeathsExplained
=============================================================================
