-------------------------------- MODULE Tours --------------------------------
(***************************************************************************)
(* The inbound HTTP/1 side of one agent: its TourStore, the InboundShips   *)
(* it pools, the Tour of every request, the request state of every         *)
(* H1InboundHandler, and what produces the responses: a file               *)
(* (SendFileShip) or a CGI process (CgiReqContentHandler).                 *)
(*                                                                         *)
(* Every action is one upcall on the agent's thread, so it runs from start *)
(* to end; the interleaving is that of the letters.  The multiplexer below *)
(* is abstracted to what Spider shows of it: units are written in order,   *)
(* each callback is called once, and a closed connection drains its units. *)
(***************************************************************************)
EXTENDS Naturals, Sequences, FiniteSets

CONSTANTS
  Ships,       \* InboundShip objects (InboundShipStore reuses them)
  Pool,        \* Tour objects: as many as TourStore.max_count
  MaxTourIds,  \* bound: values taken from Tour.tour_id_counter
  MaxShipIds,  \* bound: values taken from Ship.ship_id_counter
  NoShip, NoTour

ASSUME ToursAssumption ==
  /\ NoShip \notin Ships /\ NoTour \notin Pool
  /\ IsFiniteSet(Ships) /\ IsFiniteSet(Pool)
  /\ MaxTourIds \in Nat /\ MaxShipIds \in Nat

VARIABLES
  cause,      \* why the agent died of an uncaught exception, "none" if it runs
  ship,       \* the state of every InboundShip and of its connection
  tour,       \* the state of every Tour
  held,       \* TourStore.active_tour_map: the key a tour is stored under
  cur,        \* H1InboundHandler.cur_tour and cur_tour_id of every ship
  body,       \* the ships whose handler is in STATE_READ_CONTENT
  producers,  \* what still has to end the response of a tour
  writes,     \* the end-of-response callbacks in every ship's write queue
  nextTour,   \* Tour.tour_id_counter
  nextShip,   \* Ship.ship_id_counter
  unanswered  \* history: ids of tours dropped without a response while the
              \* peer was waiting for one

vars == <<cause, ship, tour, held, cur, body, producers, writes, nextTour,
          nextShip, unanswered>>

NoCheck == 0      \* TOUR_ID_NOCHECK, and no id
Free == <<0, 0>>  \* the key of a tour in free_tours (or not created yet)
NoCur == [tour |-> NoTour, id |-> 0]

(* Tour.reset and Ship.reset.                                              *)
ResetTour == [state |-> "uninitialized", id |-> 0, ship |-> NoShip,
              handler |-> "none", error |-> FALSE]
ResetShip == [id |-> 0, conn |-> "none", reading |-> FALSE, needEnd |-> FALSE,
              tours |-> {}]

Producer(t, id, status) == [tour |-> t, id |-> id, status |-> status]
Unit(t, id, keep) == [tour |-> t, id |-> id, keep |-> keep]

(* PREPARING and ABORTED do not outlive the upcall that sets them.          *)
TourState == {"uninitialized", "reading", "running", "ended"}
ShipType == [id : Nat, conn : {"none", "open", "closing", "gone"},
             reading : BOOLEAN, needEnd : BOOLEAN, tours : SUBSET Pool]
TourType == [state : TourState, id : Nat, ship : Ships \cup {NoShip},
             handler : {"none", "file", "process"}, error : BOOLEAN]
UnitType == [tour : Pool, id : Nat, keep : BOOLEAN]
ProducerType == [tour : Pool, id : Nat, status : {"busy", "killed", "killedLate"}]

TypeOK ==
  /\ cause \in {"none", "noTours", "staleContent", "staleProducer",
                "staleTour", "staleUnit"}
  /\ ship \in [Ships -> ShipType]
  /\ tour \in [Pool -> TourType]
  /\ held \in [Pool -> Nat \X Nat]
  /\ cur \in [Ships -> [tour : Pool \cup {NoTour}, id : Nat]]
  /\ body \subseteq Ships
  /\ producers \subseteq ProducerType
  /\ writes \in [Ships -> Seq(UnitType)]
  /\ nextTour \in Nat \ {0} /\ nextShip \in Nat \ {0}
  /\ unanswered \subseteq Nat

Init ==
  /\ cause = "none"
  /\ ship = [s \in Ships |-> ResetShip]
  /\ tour = [t \in Pool |-> ResetTour]
  /\ held = [t \in Pool |-> Free]
  /\ cur = [s \in Ships |-> NoCur]
  /\ body = {}
  /\ producers = {}
  /\ writes = [s \in Ships |-> <<>>]
  /\ nextTour = 1 /\ nextShip = 1
  /\ unanswered = {}

-----------------------------------------------------------------------------
(* Helpers.                                                                *)

(* uniq_key: the request number is unique within its ship, and so is the   *)
(* id of the tour, which stands for it.                                    *)
Key(s, id) == <<ship[s].id, id>>

Live(t) == tour[t].state # "uninitialized"
Alive == cause = "none"
Connected(s) == ship[s].conn \in {"open", "closing"}

(* A Sink or AttributeError reaches "Fatal Error" in GrandAgent.run.       *)
Fail(why) ==
  /\ cause' = why
  /\ UNCHANGED <<ship, tour, held, cur, body, producers, writes, nextTour,
                 nextShip, unanswered>>

(* get_tour or get_error_tour with a tour left, Tour.init and what the     *)
(* handler makes of the tour before it returns.                            *)
Rent(s, t, state, handler, error, reads) ==
  /\ held[t] = Free
  /\ nextTour <= MaxTourIds
  /\ tour' = [tour EXCEPT ![t] = [state |-> state, id |-> nextTour, ship |-> s,
                                  handler |-> handler, error |-> error]]
  /\ held' = [held EXCEPT ![t] = Key(s, nextTour)]
  /\ ship' = [ship EXCEPT ![s].tours = @ \cup {t}, ![s].reading = reads]
  /\ nextTour' = nextTour + 1

(* end_res_content of a tour whose peer can still be written to.  A second *)
(* end is ignored.  Mutant: it is not.                                     *)
EndsTwice(t) == FALSE
Ended(t) == tour[t].state = "ended"

EndResContent(t, id, keep) ==
  IF Ended(t)
  THEN UNCHANGED <<tour, writes>>
  ELSE /\ tour' = [tour EXCEPT ![t].state = "ended"]
       /\ writes' = [writes EXCEPT ![tour[t].ship] = Append(@, Unit(t, id, keep))]

(* TourStore.Return of a set of tours.  Mutants: end_res_content's finally *)
(* sets the state of a tour that has been returned already; a tour that    *)
(* was aborted is not reset.                                               *)
ReturnedEnded(R) ==
  /\ tour' = [t \in Pool |-> IF t \in R THEN [ResetTour EXCEPT !.state = "ended"]
                                       ELSE tour[t]]
  /\ held' = [t \in Pool |-> IF t \in R THEN Free ELSE held[t]]
ReturnedAborted(R) ==
  /\ tour' = [t \in Pool |-> IF t \notin R THEN tour[t]
                             ELSE IF tour[t].state = "reading"
                                  THEN [ResetTour EXCEPT !.state = "aborted"]
                                  ELSE ResetTour]
  /\ held' = [t \in Pool |-> IF t \in R THEN Free ELSE held[t]]
Returned(R) ==
  /\ tour' = [t \in Pool |-> IF t \in R THEN ResetTour ELSE tour[t]]
  /\ held' = [t \in Pool |-> IF t \in R THEN Free ELSE held[t]]

(* The producer of a tour, when it starts.                                 *)
Starts(t, id) == producers' = producers \cup {Producer(t, id, "busy")}

ResetState(s) == cur' = [cur EXCEPT ![s] = NoCur] /\ body' = body \ {s}

(* A ship once the tours R have been returned: return_tour ends it when    *)
(* the last tour leaves a ship that must end.  Mutant: it does not.        *)
NeverEnded(s, R) == [ship[s] EXCEPT !.tours = @ \ R]
Without(s, R) ==
  IF ship[s].needEnd /\ ship[s].tours \subseteq R
  THEN ResetShip ELSE [ship[s] EXCEPT !.tours = @ \ R]

(* end_ship returns the protocol handler, which is reset.                  *)
EndShip(s, ended) ==
  IF ended.conn = "none" THEN ResetState(s) ELSE UNCHANGED <<cur, body>>

(* The same, whatever the connection: with none left nothing is sent, the  *)
(* callback comes at once and returns the tour.                            *)
EndTour(t, id, keep) ==
  LET s == tour[t].ship
      ended == Without(s, {t})
  IN
  IF Connected(s) \/ Ended(t)
  THEN /\ EndResContent(t, id, keep)
       /\ UNCHANGED <<ship, held, cur, body>>
  ELSE /\ Returned({t})
       /\ ship' = [ship EXCEPT ![s] = ended]
       /\ EndShip(s, ended)
       /\ UNCHANGED writes

-----------------------------------------------------------------------------
(* Accepting and reading.  A chunk that was read before the close of its   *)
(* connection may still be handled while the connection is closing.        *)

Accept(s) ==
  /\ Alive /\ ship[s].conn = "none" /\ nextShip <= MaxShipIds
  /\ ship' = [ship EXCEPT ![s].id = nextShip, ![s].conn = "open", ![s].reading = TRUE]
  /\ nextShip' = nextShip + 1
  /\ UNCHANGED <<cause, tour, held, cur, body, producers, writes, nextTour, unanswered>>

ReadsHeader(s) == Alive /\ Connected(s) /\ ship[s].reading /\ s \notin body
ReadsContent(s) == Alive /\ Connected(s) /\ ship[s].reading /\ s \in body

(* handle_header when the pool is exhausted: get_tour is asked a second    *)
(* time with force, but hands force to rent as its ship.                   *)
HeaderWithoutTour(s) ==
  /\ ReadsHeader(s) /\ cur[s] = NoCur
  /\ \A t \in Pool : held[t] # Free
  /\ Fail("noTours")

(* A request without a body: its content ends at once and reading stops.   *)
HeaderGet(s, t, handler) ==
  /\ ReadsHeader(s) /\ cur[s] = NoCur
  /\ Rent(s, t, "running", handler, FALSE, FALSE)
  /\ Starts(t, nextTour)
  /\ UNCHANGED <<cause, cur, body, writes, nextShip, unanswered>>

(* It is refused (HttpException): answered with TOUR_ID_NOCHECK, and       *)
(* reading goes on.                                                        *)
HeaderGetRefused(s, t, keep) ==
  /\ ReadsHeader(s) /\ cur[s] = NoCur
  /\ Rent(s, t, "ended", "none", FALSE, TRUE)
  /\ writes' = [writes EXCEPT ![s] = Append(@, Unit(t, NoCheck, keep))]
  /\ UNCHANGED <<cause, cur, body, producers, nextShip, unanswered>>

(* A request with a body: a process starts now, a file when the body ends. *)
HeaderPost(s, t, handler) ==
  /\ ReadsHeader(s) /\ cur[s] = NoCur
  /\ Rent(s, t, "reading", handler, FALSE, TRUE)
  /\ IF handler = "process" THEN Starts(t, nextTour) ELSE UNCHANGED producers
  /\ cur' = [cur EXCEPT ![s] = [tour |-> t, id |-> nextTour]]
  /\ body' = body \cup {s}
  /\ UNCHANGED <<cause, writes, nextShip, unanswered>>

(* It is refused: the error is kept until the body has been read.          *)
HeaderPostRefused(s, t) ==
  /\ ReadsHeader(s) /\ cur[s] = NoCur
  /\ Rent(s, t, "reading", "none", TRUE, TRUE)
  /\ cur' = [cur EXCEPT ![s] = [tour |-> t, id |-> nextTour]]
  /\ body' = body \cup {s}
  /\ UNCHANGED <<cause, producers, writes, nextShip, unanswered>>

(* ProtocolException once cur_tour is set (method or protocol): 400 with   *)
(* TOUR_ID_NOCHECK; cur_tour stays.                                        *)
HeaderInvalid(s, t) ==
  /\ ReadsHeader(s) /\ cur[s] = NoCur
  /\ Rent(s, t, "ended", "none", FALSE, TRUE)
  /\ cur' = [cur EXCEPT ![s] = [tour |-> t, id |-> nextTour]]
  /\ writes' = [writes EXCEPT ![s] = Append(@, Unit(t, NoCheck, FALSE))]
  /\ UNCHANGED <<cause, body, producers, nextShip, unanswered>>

(* ProtocolException without a cur_tour, or because there is one already   *)
(* ("Header command not expected", after reset_state): 400 through a tour  *)
(* of get_error_tour, whose rent is not forced either.                     *)
HeaderUnexpected(s) ==
  /\ ReadsHeader(s)
  /\ ResetState(s)
  /\ \/ \E t \in Pool :
          /\ Rent(s, t, "ended", "none", FALSE, TRUE)
          /\ writes' = [writes EXCEPT ![s] = Append(@, Unit(t, NoCheck, FALSE))]
          /\ UNCHANGED <<cause, producers, nextShip, unanswered>>
     \/ /\ \A t \in Pool : held[t] # Free
        /\ cause' = "noTours"
        /\ UNCHANGED <<ship, tour, held, producers, writes, nextTour, nextShip, unanswered>>

(* ProtocolException of the command unpacker while cur_tour is set: the    *)
(* 400 goes to that tour, unchecked, whatever has become of it since.      *)
HeaderMalformed(s, keep) ==
  LET t == cur[s].tour IN
  /\ ReadsHeader(s) /\ cur[s] # NoCur
  /\ IF Live(t)
     THEN /\ EndTour(t, NoCheck, keep)
          /\ UNCHANGED <<cause, producers, nextTour, nextShip, unanswered>>
     ELSE Fail("staleTour")

(* handle_content of the last bytes of a body, or of more than its limit.  *)
ContentOf(s) == ReadsContent(s) /\ tour[cur[s].tour].id = cur[s].id

(* check_tour_id fails: the tour has been returned since its header.       *)
ContentStale(s) ==
  /\ ReadsContent(s) /\ tour[cur[s].tour].id # cur[s].id
  /\ Fail("staleContent")

(* "tour is not reading": it has been answered already.                    *)
ContentIgnored(s) ==
  /\ ContentOf(s) /\ tour[cur[s].tour].state # "reading"
  /\ ResetState(s)
  /\ UNCHANGED <<cause, ship, tour, held, producers, writes, nextTour, nextShip, unanswered>>

(* The delayed error of a refused request.                                 *)
ContentRefused(s, keep) ==
  /\ ContentOf(s) /\ tour[cur[s].tour].error
  /\ EndResContent(cur[s].tour, cur[s].id, keep)
  /\ ResetState(s)
  /\ UNCHANGED <<cause, ship, held, producers, nextTour, nextShip, unanswered>>

(* end_req_content: a file starts to be sent, a process is left to run.    *)
(* Reading goes on.  Mutant: the file is not sent.                         *)
ContentEndsUnsent(s) ==
  LET t == cur[s].tour IN
  /\ ContentOf(s) /\ tour[t].state = "reading" /\ ~tour[t].error
  /\ UNCHANGED producers
  /\ ResetState(s)
  /\ UNCHANGED <<cause, ship, tour, held, writes, nextTour, nextShip, unanswered>>
ContentEnds(s) ==
  LET t == cur[s].tour IN
  /\ ContentOf(s) /\ tour[t].state = "reading" /\ ~tour[t].error
  /\ IF tour[t].handler = "file" THEN Starts(t, tour[t].id) ELSE UNCHANGED producers
  /\ ResetState(s)
  /\ UNCHANGED <<cause, ship, tour, held, writes, nextTour, nextShip, unanswered>>

(* Request.abort asks the content handler of a tour that is reading: a     *)
(* file that has not been started is abandoned, a process is killed and    *)
(* its tour stays.                                                         *)
Abandons(t) == /\ tour[t].state = "reading"
               /\ \A p \in producers : p.tour # t \/ p.id # tour[t].id

Killed(R, status) ==
  {IF p.tour \in R /\ p.id = tour[p.tour].id THEN Producer(p.tour, p.id, status) ELSE p :
     p \in producers}

(* HttpException for a tour that is reading: too long a body, or a file    *)
(* that is not there once the body has ended.  An abandoned tour is        *)
(* ABORTED, so the error is not sent and the tour is returned at once.     *)
ContentRejected(s, keep) ==
  LET t == cur[s].tour IN
  /\ ContentOf(s) /\ tour[t].state = "reading" /\ ~tour[t].error
  /\ ResetState(s)
  /\ IF Abandons(t)
     THEN /\ Returned({t})
          /\ ship' = [ship EXCEPT ![s] = Without(s, {t})]
          /\ unanswered' = unanswered \cup {tour[t].id}
          /\ UNCHANGED <<producers, writes>>
     ELSE /\ producers' = Killed({t}, IF ship[s].conn = "open" THEN "killed"
                                                              ELSE "killedLate")
          /\ EndResContent(t, cur[s].id, keep)
          /\ UNCHANGED <<ship, held, unanswered>>
  /\ UNCHANGED <<cause, nextTour, nextShip>>

-----------------------------------------------------------------------------
(* Writing, closing and the ends of responses.                             *)

(* The letters of a killed process were queued when it was killed: they    *)
(* come before those of anything that happened later.                      *)
KillPending(t) == \E p \in producers : p.tour = t /\ p.status # "busy"
KillFirst(s) == \E p \in producers : p.tour \in ship[s].tours /\ p.status = "killed"

(* The callback of a unit returns its tour only after check_tour_id.       *)
Fits(u) == u.id = NoCheck \/ tour[u.tour].id = u.id

(* The end of a response has been written: resume_read or post_close, then *)
(* the tour is returned.                                                   *)
Wrote(s) ==
  LET u == Head(writes[s]) IN
  /\ Alive /\ Connected(s) /\ writes[s] # <<>>
  /\ ~KillPending(u.tour)
  /\ IF Fits(u)
     THEN /\ Returned({u.tour})
          /\ ship' = [ship EXCEPT ![s] =
                        [Without(s, {u.tour}) EXCEPT
                           !.reading = IF u.keep /\ ship[s].conn = "open" THEN TRUE ELSE @,
                           !.conn = IF u.keep THEN @ ELSE "closing"]]
          /\ writes' = [writes EXCEPT ![s] = Tail(@)]
          /\ UNCHANGED <<cause, cur, body, producers, nextTour, nextShip, unanswered>>
     ELSE Fail("staleUnit")

(* End of file, an I/O error, a timeout.                                   *)
CloseRequest(s) ==
  /\ Alive /\ ship[s].conn = "open"
  /\ ship' = [ship EXCEPT ![s].conn = "closing"]
  /\ UNCHANGED <<cause, tour, held, cur, body, producers, writes, nextTour,
                 nextShip, unanswered>>

(* The ClosedLetter: the units left are called back, then notify_close     *)
(* aborts what is valid and ends the ship, now or with its last tour.      *)
OnClosed(s) ==
  LET units == {writes[s][i] : i \in DOMAIN writes[s]}
      drained == {u.tour : u \in units}
      aborted == {t \in ship[s].tours \ drained : Abandons(t)}
      killed == {t \in ship[s].tours \ (drained \cup aborted) :
                   tour[t].state = "reading" /\ tour[t].handler = "process"}
      left == ship[s].tours \ (drained \cup aborted)
      ended == IF left = {} THEN ResetShip
               ELSE [ship[s] EXCEPT !.conn = "gone", !.reading = FALSE,
                                    !.needEnd = TRUE, !.tours = left]
  IN
  /\ Alive /\ ship[s].conn = "closing" /\ ~KillFirst(s)
  /\ IF \A u \in units : Fits(u)
     THEN /\ Returned(drained \cup aborted)
          /\ producers' = Killed(killed, "killed")
          /\ writes' = [writes EXCEPT ![s] = <<>>]
          /\ ship' = [ship EXCEPT ![s] = ended]
          /\ EndShip(s, ended)
          /\ UNCHANGED <<cause, nextTour, nextShip, unanswered>>
     ELSE Fail("staleUnit")

(* notify_eof of the file, or process_finished: the response ends.         *)
ProducerEnds(p, keep) ==
  /\ Alive /\ p \in producers
  /\ IF tour[p.tour].id # p.id THEN Fail("staleProducer")
     ELSE /\ producers' = producers \ {p}
          /\ EndTour(p.tour, p.id, keep)
          /\ UNCHANGED <<cause, nextTour, nextShip, unanswered>>

-----------------------------------------------------------------------------
Handlers == {"file", "process"}

Reading(s) ==
  \/ HeaderWithoutTour(s)
  \/ \E t \in Pool, h \in Handlers : HeaderGet(s, t, h) \/ HeaderPost(s, t, h)
  \/ \E t \in Pool, keep \in BOOLEAN : HeaderGetRefused(s, t, keep)
  \/ \E t \in Pool : HeaderPostRefused(s, t) \/ HeaderInvalid(s, t)
  \/ HeaderUnexpected(s)
  \/ \E keep \in BOOLEAN : HeaderMalformed(s, keep)
  \/ ContentStale(s)
  \/ ContentIgnored(s)
  \/ \E keep \in BOOLEAN : ContentRefused(s, keep) \/ ContentRejected(s, keep)
  \/ ContentEnds(s)

(* The response of the producer of a tour ends, one way or the other.      *)
Ends(t) == \E p \in producers, keep \in BOOLEAN : p.tour = t /\ ProducerEnds(p, keep)

Next ==
  \/ \E s \in Ships : Accept(s) \/ Reading(s) \/ Wrote(s) \/ CloseRequest(s) \/ OnClosed(s)
  \/ \E t \in Pool : Ends(t)

(* The agent's thread handles its letters, and what produces a response    *)
(* ends it.  Peers need do nothing.                                        *)
Fairness ==
  /\ \A s \in Ships : WF_vars(OnClosed(s))
  /\ \A t \in Pool : WF_vars(Ends(t))

Spec == Init /\ [][Next]_vars /\ Fairness

-----------------------------------------------------------------------------
(* Properties that hold.                                                   *)

(* The store, the tours and the ships agree: a tour is active exactly when *)
(* it is initialized, under the key of its ship as the ship is numbered    *)
(* now, and is in the list of that ship and of no other.  So a reused      *)
(* InboundShip never meets a tour of its former life, and the lookup by    *)
(* uniq_key in return_tour always finds the tour it means.                 *)
PoolConsistent ==
  /\ \A t \in Pool :
       IF Live(t)
       THEN /\ tour[t].ship \in Ships
            /\ held[t] = Key(tour[t].ship, tour[t].id)
            /\ held[t] # Free
            /\ t \in ship[tour[t].ship].tours
       ELSE held[t] = Free
  /\ \A s \in Ships : \A t \in ship[s].tours : Live(t) /\ tour[t].ship = s
  /\ \A s \in Ships : ship[s].conn = "none" => ship[s].tours = {}

(* No tour is orphaned: whatever is active is being read by its ship, or   *)
(* has something that will end it, or has its end in the write queue of    *)
(* its own ship.  An orphan would keep its slot of the pool for ever.      *)
NoTourIsOrphaned ==
  \A t \in Pool : Live(t) =>
    \/ /\ tour[t].ship \in body
       /\ cur[tour[t].ship] = [tour |-> t, id |-> tour[t].id]
    \/ \E p \in producers : p.tour = t /\ p.id = tour[t].id
    \/ \E i \in DOMAIN writes[tour[t].ship] : writes[tour[t].ship][i].tour = t

(* A request whose error was dropped is gone for good: nothing of it is    *)
(* left that a later request could meet.                                   *)
DroppedAreGone ==
  \A id \in unanswered :
    /\ id < nextTour
    /\ \A t \in Pool : Live(t) => tour[t].id # id
    /\ \A p \in producers : p.id # id
    /\ \A s \in Ships : \A i \in DOMAIN writes[s] : writes[s][i].id # id

(* All three: what is in the pool is what it says, and has an end to come. *)
ToursHaveEnds == TypeOK /\ NoTourIsOrphaned /\ DroppedAreGone

(* A response ends once: every end waiting to be written belongs to a tour *)
(* that has ended, on its own ship, with the id it was sent under, and no  *)
(* two ends belong to one tour.                                            *)
EndedOnce ==
  \A s \in Ships : \A i \in DOMAIN writes[s] :
    LET u == writes[s][i] IN
    /\ tour[u.tour].state = "ended" /\ tour[u.tour].ship = s
    /\ Fits(u)
    /\ \A j \in DOMAIN writes[s] : writes[s][j].tour = u.tour => i = j

(* notify_close may find tours that cannot be aborted; the ship is then    *)
(* ended by the last of them, however its response ends.                   *)
Waits(s) == ship[s].conn = "gone"
ShipEnded(s) == ship[s].conn # "gone" \/ ~Alive
ClosedShipsEnd == \A s \in Ships : Waits(s) ~> ShipEnded(s)

-----------------------------------------------------------------------------
(* What the repository says and the code does not do.                      *)

(* tour_res.py:260-261: "If tour is returned, we cannot change its state": *)
(* no part of the server goes on using a tour that has been returned.      *)
BodyNeverOutlivesTour == cause # "staleContent"
=============================================================================
