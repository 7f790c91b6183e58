--------------------------------- MODULE Flow ---------------------------------
(***************************************************************************)
(* Flow control of the bodies of requests and responses: TourReq and       *)
(* TourRes count what is posted and consumed, suspend whoever posts when   *)
(* the buffer of the tour is full and resume him when it is not.  The      *)
(* producer of a response is a file: its ship (SendFileShip) is driven by  *)
(* letters from the Taxi multiplexer, whose reads run on worker threads,   *)
(* or from the Spin multiplexer, on the agent's own.                       *)
(*                                                                         *)
(* Every tour has a connection of its own; what the network does to it is  *)
(* to write the queued units in order, or to drain them when it closes.    *)
(***************************************************************************)
EXTENDS Integers, Sequences, FiniteSets

CONSTANTS
  Tours,
  Buffer,      \* harbor.tour_buffer_size(), in chunks
  FileLen,     \* chunks of the file sent
  BodyLen,     \* content length of a request with a body, in chunks
  MaxChunk,    \* bound: chunks of a body one read may bring
  MaxGrowth,   \* bound: chunks appended to a file while it is sent
  MaxFailures  \* bound: reads of a file that fail

ASSUME FlowAssumption ==
  /\ Buffer \in Nat \ {0} /\ FileLen \in Nat /\ BodyLen \in Nat \ {0}
  /\ MaxChunk \in Nat \ {0} /\ MaxGrowth \in Nat /\ MaxFailures \in Nat

VARIABLES
  alive,     \* the agent's thread runs
  mpx,       \* harbor.file_multiplexer
  kind,      \* what each request asks for
  gzip,      \* TourRes.can_compress
  state,     \* Tour.state
  req,       \* TourReq: bytes_posted, bytes_consumed, available
  res,       \* TourRes: the same
  conn,      \* the client's connection: is it open, is it read
  backend,   \* the parts of a body its consumer has not reported yet
  net,       \* units in the client's write queue
  file,      \* the rudder and the RudderState of the file
  taxis,     \* reads posted to the pool of TaxiRunner, or being run
  lappers,   \* SpinMultiplexer.running_list
  letters,   \* GrandAgent.letter_queue
  failed     \* the tours whose file could not be read

vars == <<alive, mpx, kind, gzip, state, req, res, conn, backend, net, file,
          taxis, lappers, letters, failed>>
given == <<mpx, kind, gzip>>
fileVars == <<file, taxis, lappers>>

(* get: no body, a file.  post: a body nobody wants, then a file.  late: a  *)
(* body whose consumer (a process, a backend) reports later.  refused: a   *)
(* body whose request failed when its header was handled.                  *)
Kinds == {"get", "post", "late", "refused"}
WithBody == {"post", "late", "refused"}

Counts == [posted : Nat, consumed : Nat, available : BOOLEAN]
Parts == [from : Nat, to : Nat]
NoFile == [state |-> "none", reading |-> FALSE, left |-> 0]
OpenFile == [state |-> "open", reading |-> TRUE, left |-> FileLen]

TypeOK ==
  /\ alive \in BOOLEAN /\ mpx \in {"taxi", "spin"}
  /\ kind \in [Tours -> Kinds] /\ gzip \in [Tours -> BOOLEAN]
  /\ state \in [Tours -> {"reading", "running", "ended", "returned"}]
  /\ req \in [Tours -> Counts] /\ res \in [Tours -> Counts]
  /\ \A t \in Tours : /\ req[t].consumed <= req[t].posted
                      /\ ~gzip[t] => res[t].consumed <= res[t].posted
  /\ conn \in [Tours -> [open : BOOLEAN, reading : BOOLEAN]]
  /\ backend \in [Tours -> Seq(Parts)]
  /\ net \in [Tours -> Seq({"chunk", "part", "end"})]
  /\ file \in [Tours -> [state : {"none", "open", "closing", "closed"},
                         reading : BOOLEAN, left : Nat]]
  /\ taxis \in [Tours -> 0 .. 1] /\ lappers \subseteq Tours
  /\ letters \in Seq({"read", "eof", "ioerror", "fatal", "closed"} \X Tours)
  /\ failed \subseteq Tours

(* handle_header has returned: a tour without a body has ended its content *)
(* and started its producer, one with a body has called set_limit.         *)
Init ==
  /\ alive = TRUE
  /\ mpx \in {"taxi", "spin"}
  /\ kind \in [Tours -> Kinds]
  /\ gzip \in [Tours -> BOOLEAN]
  /\ \A t \in Tours : gzip[t] => kind[t] \in {"get", "post"}
  /\ state = [t \in Tours |-> IF kind[t] \in WithBody THEN "reading" ELSE "running"]
  /\ req = [t \in Tours |-> [posted |-> 0, consumed |-> 0,
                             available |-> kind[t] \in WithBody]]
  /\ res = [t \in Tours |-> [posted |-> 0, consumed |-> 0,
                             available |-> kind[t] = "get"]]
  /\ conn = [t \in Tours |-> [open |-> TRUE, reading |-> kind[t] \in WithBody]]
  /\ backend = [t \in Tours |-> <<>>]
  /\ net = [t \in Tours |-> <<>>]
  /\ file = [t \in Tours |-> IF kind[t] = "get" THEN OpenFile ELSE NoFile]
  /\ taxis = [t \in Tours |-> IF kind[t] = "get" /\ mpx = "taxi" THEN 1 ELSE 0]
  /\ lappers = {t \in Tours : kind[t] = "get" /\ mpx = "spin"}
  /\ letters = <<>>
  /\ failed = {}

-----------------------------------------------------------------------------
(* The counters.  Faults: a buffer that is never full, a report that does  *)
(* not make room.                                                          *)
Room(c) == c.posted < c.consumed + Buffer

PostUnbounded(c, n) == [c EXCEPT !.posted = @ + n]
Post(c, n) ==
  LET d == [c EXCEPT !.posted = @ + n]
  IN  [d EXCEPT !.available = @ /\ Room(d)]

ConsumeInVain(c, n) == [c EXCEPT !.consumed = @ + n]
Consume(c, n) ==
  LET d == [c EXCEPT !.consumed = @ + n]
  IN  [d EXCEPT !.available = @ \/ Room(d)]

Resumes(c, n) == ~c.available /\ Consume(c, n).available

(* resume_read of the file's ship: a file whose state is still known is    *)
(* read again unless it is being read.  Fault: even if it is.              *)
ResumedTwice(f) == f.state # "none"
Resumable(f) == f.state \in {"open", "closing"} /\ ~f.reading

ReadFile(t, yes) ==
  IF yes
  THEN /\ file' = [file EXCEPT ![t].reading = TRUE]
       /\ IF mpx = "taxi"
          THEN taxis' = [taxis EXCEPT ![t] = @ + 1] /\ UNCHANGED lappers
          ELSE lappers' = lappers \cup {t} /\ UNCHANGED taxis
  ELSE UNCHANGED fileVars

(* TourRes.consumed: the listener is told only when the tour is NOT        *)
(* running; a tour that had a body stays in READING until it ends.  Fault: *)
(* it is told only when the tour has ended.                                *)
ListensLate(t) == state[t] = "ended"
Listens(t) == state[t] # "running"

(* send_end_tour and the callback of its unit, which returns the tour.     *)
Answer(t) ==
  IF state[t] \in {"ended", "returned"} THEN UNCHANGED <<state, net>>
  ELSE IF conn[t].open
       THEN /\ state' = [state EXCEPT ![t] = "ended"]
            /\ net' = [net EXCEPT ![t] = Append(@, "end")]
       ELSE /\ state' = [state EXCEPT ![t] = "returned"]
            /\ UNCHANGED net

-----------------------------------------------------------------------------
(* H1InboundHandler.handle_content and TourReq.post_req_content.           *)
Incomplete(t) == kind[t] \in WithBody /\ state[t] = "reading"
                 /\ req[t].posted < BodyLen /\ file[t].state = "none"
Receives(t) == alive /\ conn[t].open /\ conn[t].reading /\ Incomplete(t)

(* A refused request: the chunk is dropped.  When exactly the whole body   *)
(* has been seen the error is sent; a chunk that overshoots never is it.   *)
BodyOfRefused(t, n) ==
  /\ Receives(t) /\ kind[t] = "refused"
  /\ req' = [req EXCEPT ![t].posted = @ + n]
  /\ IF req[t].posted + n = BodyLen
     THEN /\ Answer(t)
          /\ conn' = [conn EXCEPT ![t].reading = FALSE]
     ELSE UNCHANGED <<state, net, conn>>
  /\ UNCHANGED <<alive, given, res, backend, fileVars, letters, failed>>

(* More than content-length: the tour is aborted if its handler agrees,    *)
(* and then returned without an answer; else the error is the answer.      *)
BodyTooLong(t, n) ==
  /\ Receives(t) /\ kind[t] # "refused" /\ req[t].posted + n > BodyLen
  /\ IF kind[t] = "post"
     THEN state' = [state EXCEPT ![t] = "returned"] /\ UNCHANGED net
     ELSE Answer(t)
  /\ conn' = [conn EXCEPT ![t].reading = FALSE]
  /\ UNCHANGED <<alive, given, req, res, backend, fileVars, letters, failed>>

(* FileContentHandler reports every chunk as it gets it, and sends the     *)
(* file when the body is complete.                                         *)
BodyOfPost(t, n) ==
  /\ Receives(t) /\ kind[t] = "post" /\ req[t].posted + n <= BodyLen
  /\ req' = [req EXCEPT ![t] = Post(Consume(@, n), n)]
  /\ IF req'[t].posted = BodyLen
     THEN /\ res' = [res EXCEPT ![t].available = TRUE]
          /\ file' = [file EXCEPT ![t] = OpenFile]
          /\ IF mpx = "taxi"
             THEN taxis' = [taxis EXCEPT ![t] = 1] /\ UNCHANGED lappers
             ELSE lappers' = lappers \cup {t} /\ UNCHANGED taxis
          /\ UNCHANGED conn
     ELSE /\ conn' = [conn EXCEPT ![t].reading = req'[t].available]
          /\ UNCHANGED <<res, fileVars>>
  /\ UNCHANGED <<alive, given, state, backend, net, letters, failed>>

(* A consumer that reports later.                                          *)
BodyOfLate(t, n) ==
  /\ Receives(t) /\ kind[t] = "late" /\ req[t].posted + n <= BodyLen
  /\ req' = [req EXCEPT ![t] = Post(@, n)]
  /\ backend' = [backend EXCEPT ![t] =
                   Append(@, [from |-> req[t].posted, to |-> req[t].posted + n])]
  /\ conn' = [conn EXCEPT ![t].reading = req'[t].available \/ req'[t].posted = BodyLen]
  /\ UNCHANGED <<alive, given, state, res, net, fileVars, letters, failed>>

(* TourReq.consumed: its listener resumes the client's connection.  What a *)
(* consumer does to a tour that is gone is left to the consumers' modules. *)
Unreported(t) == Head(backend[t]).to - Head(backend[t]).from

BodyConsumed(t) ==
  /\ alive /\ backend[t] # <<>> /\ state[t] # "returned"
  /\ req' = [req EXCEPT ![t] = Consume(@, Unreported(t))]
  /\ conn' = [conn EXCEPT ![t].reading =
                 @ \/ (conn[t].open /\ Resumes(req[t], Unreported(t)))]
  /\ backend' = [backend EXCEPT ![t] = Tail(@)]
  /\ UNCHANGED <<alive, given, state, res, net, fileVars, letters, failed>>

-----------------------------------------------------------------------------
(* Worker threads and the spinning loop.                                   *)
Says(what, t) == letters' = Append(letters, <<what, t>>)

(* do_next_read.  A read of a file that has been closed raises ValueError. *)
TaxiReads(t) ==
  /\ taxis[t] > 0
  /\ taxis' = [taxis EXCEPT ![t] = @ - 1]
  /\ IF file[t].state # "open" THEN Says("fatal", t) /\ UNCHANGED file
     ELSE IF file[t].left = 0 THEN Says("eof", t) /\ UNCHANGED file
     ELSE Says("read", t) /\ file' = [file EXCEPT ![t].left = @ - 1]
  /\ UNCHANGED <<alive, given, state, req, res, conn, backend, net, lappers,
                 failed>>

TaxiFails(t) ==
  /\ taxis[t] > 0 /\ Cardinality(failed) < MaxFailures
  /\ taxis' = [taxis EXCEPT ![t] = @ - 1]
  /\ failed' = failed \cup {t}
  /\ Says("ioerror", t)
  /\ UNCHANGED <<alive, given, state, req, res, conn, backend, net, file,
                 lappers>>

(* ReadIOLapper.lap: the attribute buf_size does not exist, so every lap   *)
(* ends in the error letter of an AttributeError.                          *)
Lap(t) ==
  /\ alive /\ t \in lappers /\ <<"fatal", t>> \notin {letters[i] : i \in DOMAIN letters}
  /\ Says("fatal", t)
  /\ UNCHANGED <<alive, given, state, req, res, conn, backend, net, fileVars,
                 failed>>

(* A file that is written to while it is sent.                             *)
Grows(t) ==
  /\ file[t].state = "open"
  /\ file[t].left + res[t].posted < FileLen + MaxGrowth
  /\ file' = [file EXCEPT ![t].left = @ + 1]
  /\ UNCHANGED <<alive, given, state, req, res, conn, backend, net, taxis,
                 lappers, letters, failed>>

-----------------------------------------------------------------------------
(* The agent's thread handles a letter.                                    *)
Gets(what, t) ==
  /\ alive /\ letters # <<>> /\ Head(letters) = <<what, t>>
Handles(what, t) == Gets(what, t) /\ letters' = Tail(letters)

(* send_res_content beyond content-length: the ProtocolException meets     *)
(* ReadOnlyShip.notify_protocol_error, which takes one argument fewer.     *)
OnReadTooMuch(t) ==
  /\ Handles("read", t) /\ res[t].posted = FileLen
  /\ alive' = FALSE
  /\ UNCHANGED <<given, state, req, res, conn, backend, net, fileVars, failed>>

(* A chunk: a unit for the network, whose callback reports it; through the *)
(* compressor it may put out nothing, and then nobody reports it.  With    *)
(* the connection gone it is reported at once.                             *)
OnRead(t) ==
  /\ Handles("read", t) /\ res[t].posted < FileLen
  /\ \E out \in IF gzip[t] THEN {<<>>, <<"chunk">>} ELSE {<<"chunk">>} :
       LET r == [res[t] EXCEPT !.posted = @ + 1]
           s == IF out # <<>> /\ ~conn[t].open THEN Consume(r, 1) ELSE r
       IN  /\ res' = [res EXCEPT ![t] = Post(s, 0)]
           /\ net' = IF conn[t].open THEN [net EXCEPT ![t] = @ \o out] ELSE net
  /\ IF res'[t].available
     THEN taxis' = [taxis EXCEPT ![t] = @ + 1] /\ UNCHANGED file
     ELSE file' = [file EXCEPT ![t].reading = FALSE] /\ UNCHANGED taxis
  /\ UNCHANGED <<alive, given, state, req, conn, backend, lappers, failed>>

(* End of file: the response ends (the compressor puts out its rest, with  *)
(* the callback of the last chunk), the file is closed.                    *)
Closes(t) ==
  /\ file' = [file EXCEPT ![t].state = "closing", ![t].reading = FALSE]
  /\ letters' = Append(Tail(letters), <<"closed", t>>)

OnEof(t) ==
  /\ Gets("eof", t)
  /\ Closes(t)
  /\ IF gzip[t] /\ conn[t].open /\ state[t] # "ended"
     THEN /\ state' = [state EXCEPT ![t] = "ended"]
          /\ net' = [net EXCEPT ![t] = @ \o <<"part", "end">>]
     ELSE Answer(t)
  /\ UNCHANGED <<alive, given, req, res, conn, backend, taxis, lappers,
                 failed>>

(* _on_error: the file is closed, its ship is not told; any error but an   *)
(* IOError is raised again and ends the agent.                             *)
OnIOError(t) ==
  /\ Gets("ioerror", t)
  /\ Closes(t)
  /\ UNCHANGED <<alive, given, state, req, res, conn, backend, net, taxis,
                 lappers, failed>>

OnFatal(t) ==
  /\ Handles("fatal", t)
  /\ alive' = FALSE
  /\ UNCHANGED <<given, state, req, res, conn, backend, net, fileVars, failed>>

(* _on_closed; SendFileShip.notify_close does nothing.                     *)
OnClosed(t) ==
  /\ Handles("closed", t)
  /\ file' = [file EXCEPT ![t].state = "closed"]
  /\ UNCHANGED <<alive, given, state, req, res, conn, backend, net, taxis,
                 lappers, failed>>

-----------------------------------------------------------------------------
(* The network writes the oldest unit: its callback.                       *)
Reports(t, n) ==
  /\ res' = [res EXCEPT ![t] = Consume(@, n)]
  /\ ReadFile(t, n > 0 /\ Listens(t) /\ Resumes(res[t], n) /\ Resumable(file[t]))

NetWrites(t) ==
  /\ alive /\ net[t] # <<>>
  /\ net' = [net EXCEPT ![t] = Tail(@)]
  /\ IF Head(net[t]) = "end"
     THEN state' = [state EXCEPT ![t] = "returned"] /\ UNCHANGED <<res,
                                                                   fileVars>>
     ELSE Reports(t, 1) /\ UNCHANGED state
  /\ UNCHANGED <<alive, given, req, conn, backend, letters, failed>>

(* The client's connection closes: its units are drained, then the tours   *)
(* of its ship are aborted if their handlers agree; FileContentHandler     *)
(* agrees until the body is complete, a process does not.                  *)
Abortable(t) == state[t] = "reading" /\ kind[t] \in {"post", "refused"}
                /\ file[t].state = "none"

(* Faults: the drained units are not reported; the end is, as a chunk.     *)
DrainedSilently(t) == 0
DrainedWithEnd(t) == Len(net[t])
Drained(t) == Cardinality({i \in DOMAIN net[t] : net[t][i] # "end"})

Disconnect(t) ==
  /\ alive /\ conn[t].open
  /\ conn' = [conn EXCEPT ![t] = [open |-> FALSE, reading |-> FALSE]]
  /\ net' = [net EXCEPT ![t] = <<>>]
  /\ Reports(t, Drained(t))
  /\ state' = IF Abortable(t) \/ "end" \in {net[t][i] : i \in DOMAIN net[t]}
              THEN [state EXCEPT ![t] = "returned"] ELSE state
  /\ UNCHANGED <<alive, given, req, backend, letters, failed>>

-----------------------------------------------------------------------------
Body(t) ==
  \E n \in 1 .. MaxChunk :
    BodyOfRefused(t, n) \/ BodyTooLong(t, n) \/ BodyOfPost(t, n) \/ BodyOfLate(t, n)
Agent(t) ==
  \/ Lap(t) \/ OnRead(t) \/ OnReadTooMuch(t) \/ OnEof(t) \/ OnIOError(t)
  \/ OnFatal(t) \/ OnClosed(t)

Next ==
  \E t \in Tours :
    \/ Body(t) \/ TaxiReads(t) \/ Agent(t)
    \/ BodyConsumed(t) \/ NetWrites(t)
    \/ TaxiFails(t) \/ Grows(t) \/ Disconnect(t)

(* Worker threads run what is posted, the agent's loop handles every       *)
(* letter, and a peer that reads is written to; nothing else need happen.  *)
Fairness ==
  \A t \in Tours : /\ WF_vars(TaxiReads(t)) /\ WF_vars(Agent(t))
                   /\ WF_vars(NetWrites(t)) /\ WF_vars(BodyConsumed(t))

Spec == Init /\ [][Next]_vars /\ Fairness

-----------------------------------------------------------------------------
(* The parts that wait are the body between what was consumed and what was *)
(* posted, in its order and without a gap.                                 *)
InOrder(parts, from, to) ==
  IF parts = <<>> THEN from = to
  ELSE /\ parts[1].from = from /\ parts[Len(parts)].to = to
       /\ \A i \in DOMAIN parts : parts[i].from < parts[i].to
       /\ \A i \in DOMAIN parts : i > 1 => parts[i].from = parts[i - 1].to

WaitsInOrder(t) == InOrder(backend[t], req[t].consumed, req[t].posted)

Queued(t) == Cardinality({i \in DOMAIN net[t] : net[t][i] = "chunk"})

(* What was posted and is not reported is exactly what waits in a queue:   *)
(* no chunk is reported twice, and none is forgotten, whatever closes      *)
(* while it waits.  (With compression chunks are forgotten.)               *)
Reported(t) ==
  /\ kind[t] = "late" => WaitsInOrder(t)
  /\ file[t].state # "none" /\ ~gzip[t]
       => res[t].posted = res[t].consumed + Queued(t)

ReportedOnce == \A t \in Tours : Reported(t)

(* Whoever is suspended has something in a queue whose report will resume  *)
(* him: the client whose body is incomplete, and the file of a tour that   *)
(* is not running and not compressed.                                      *)
WillBeResumed(t) ==
  /\ Incomplete(t) /\ conn[t].open /\ ~conn[t].reading
       => ~req[t].available /\ backend[t] # <<>>
  /\ file[t].state = "open" /\ ~file[t].reading /\ Listens(t) /\ ~gzip[t]
       => ~res[t].available /\ Queued(t) > 0

NoLostResume == \A t \in Tours : WillBeResumed(t)

(* However reports, letters and closes interleave, a file is read by one   *)
(* worker at a time, never after it was closed, and never while more than  *)
(* the buffer of its tour waits for the client.                            *)
Outstanding(t) ==
  taxis[t] + Cardinality({i \in DOMAIN letters :
                            letters[i] \in {"read", "eof", "ioerror"} \X {t}})
ReadOnce(t) ==
  /\ Outstanding(t) = IF file[t].reading THEN 1 ELSE 0
  /\ file[t].reading => file[t].state = "open"
  /\ file[t].reading /\ ~gzip[t] => Queued(t) < Buffer

OneReader == mpx = "taxi" /\ alive => \A t \in Tours : ReadOnce(t)

(* What is posted, read and reported adds up, at any moment.               *)
Accounted == TypeOK /\ ReportedOnce /\ OneReader

(* A file that is sent ends its tour, or is suspended for good: the tour   *)
(* is running (nobody resumes it) or compressed; or its read failed, or    *)
(* the agent died of a file that had grown or of the spinning reader.      *)
TransfersEnd ==
  \A t \in Tours :
    file[t].state = "open" ~>
      \/ state[t] = "returned"
      \/ ~file[t].reading /\ file[t].state = "open"
         /\ (kind[t] = "get" \/ gzip[t])
      \/ t \in failed \/ ~alive
=============================================================================
