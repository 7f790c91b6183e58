--------------------------------- MODULE Warp ---------------------------------
(***************************************************************************)
(* The requests that one agent forwards to an HTTP/1 backend: the store of *)
(* kept and busy WarpShips, the connection of each, the one request it     *)
(* serves (H1WarpHandler, FIXED_WARP_ID), and the tours of the clients.    *)
(*                                                                         *)
(* Every action is one upcall on the agent's thread, one write of a unit,  *)
(* or a step of the backend or of a client.  Requests and connections are  *)
(* numbered in the order in which they come: a WarpShip that was returned  *)
(* is never used again (Return with reuse=False).  The body of a request   *)
(* is one chunk.                                                           *)
(***************************************************************************)
EXTENDS Naturals, Sequences, FiniteSets, Functions, SequencesExt

CONSTANTS
  NumRequests,  \* bound: requests that arrive
  MaxShips,     \* WarpShipStore.max_ships; 0: no limit
  MaxFaults     \* bound: clients that leave, bodies that are too long, and
                \* connections that fail, are closed or carry unasked answers

ASSUME WarpAssumption ==
  /\ NumRequests \in Nat /\ MaxShips \in Nat /\ MaxFaults \in Nat

Requests == 1 .. NumRequests
Ships == Requests
None == 0

VARIABLES
  agent,   \* "up", or why the agent has died
  method,  \* the method of each request
  req,     \* its tour, WarpData and client
  ship,    \* the state of every WarpShip, its connection and its backend
  keep,    \* WarpShipStore.keep_list
  busy,    \* WarpShipStore.busy_list
  faults,  \* how many faults there were
  strayed  \* history: the backend has sent an answer unasked

faultVars == <<faults, strayed>>
vars == <<agent, method, req, ship, keep, busy, faultVars>>

Unit == [kind : {"whole", "header", "body"}, of : Requests]
Item == [kind : {"empty", "head", "data", "last", "over", "eof"},
         to : Requests \cup {None}]

(* of a request: its tour's state; the connection its WarpData refers to;  *)
(* sent: it has had its whole body; full: what was sent to the client has  *)
(* filled the response buffer; headed: TourRes.header_sent; answer: whose  *)
(* response the client is given, "bare" being an end without headers and   *)
(* "mixed" an error with some of the backend's content behind it.          *)
RequestType ==
  [phase : {"new", "arrived", "ended", "returned"}, via : Ships \cup {None},
   client : BOOLEAN, sent : BOOLEAN, full : BOOLEAN, headed : BOOLEAN,
   answer : {"none", "own", "stray", "error", "bare", "mixed"}]
NewRequest ==
  [phase |-> "new", via |-> None, client |-> TRUE, sent |-> FALSE,
   full |-> FALSE, headed |-> FALSE, answer |-> "none"]

(* of a ship: serves is tour_map; units are cmd_buf and the write queue, a *)
(* unit being the header of a request, its body with the end of its        *)
(* content, or header and end together;                                    *)
(* armed is what its rudder is selected for; inbox is what the backend has *)
(* sent.  The backend: heard is the request it has read, whole whether     *)
(* with its body, owes that it has not answered.                           *)
ShipType ==
  [conn : {"none", "connecting", "up", "closing", "closed"},
   serves : Requests \cup {None}, keeping : BOOLEAN,
   state : {"header", "content"}, armed : SUBSET {"read", "write"},
   units : Seq(Unit), inbox : Seq(Item),
   heard : Requests \cup {None}, whole : BOOLEAN, owes : BOOLEAN, gone : BOOLEAN]
NewShip ==
  [conn |-> "none", serves |-> None, keeping |-> FALSE, state |-> "header",
   armed |-> {}, units |-> <<>>, inbox |-> <<>>,
   heard |-> None, whole |-> TRUE, owes |-> FALSE, gone |-> FALSE]

TypeOK ==
  /\ agent \in {"up", "stray", "consumed", "resume", "id"}
  /\ method \in [Requests -> {"get", "head", "post"}]
  /\ req \in [Requests -> RequestType]
  /\ ship \in [Ships -> ShipType]
  /\ keep \in Seq(Ships) /\ IsInjective(keep) /\ busy \subseteq Ships
  /\ faults \in 0 .. MaxFaults /\ strayed \in BOOLEAN

Init ==
  /\ agent = "up"
  /\ method \in [Requests -> {"get", "head", "post"}]
  /\ req = [r \in Requests |-> NewRequest]
  /\ ship = [s \in Ships |-> NewShip]
  /\ keep = <<>> /\ busy = {}
  /\ faults = 0 /\ strayed = FALSE

-----------------------------------------------------------------------------
Alive == agent = "up"
Runs == Alive /\ UNCHANGED <<faults, strayed>>
Fault(stray) ==
  /\ Alive /\ faults < MaxFaults
  /\ faults' = faults + 1 /\ strayed' = (strayed \/ stray)
Dies(why) == agent' = why /\ UNCHANGED <<method, req, ship, keep, busy>>

(* A tour is RUNNING, or READING until it has been answered.               *)
Running(r) == req[r].phase = "arrived" /\ method[r] # "post"

(* end_res_content: the tour is returned at once when its client is gone.  *)
(* A second end is ignored.                                                *)
End(q) == [q EXCEPT !.phase = IF q.client \/ @ = "ended" THEN "ended" ELSE "returned"]

(* notify_error_to_owner_tour: a running tour is answered with an error if *)
(* its headers have not been sent, one that is reading just ends.  Faults: *)
(* the error is never sent; a tour that is reading is forgotten.           *)
FailedBare(r) ==
  IF req[r].phase # "arrived" THEN req[r]
  ELSE [End(req[r]) EXCEPT !.answer = IF req[r].headed \/ ~req[r].client THEN @ ELSE "bare"]
FailedRunning(r) ==
  IF ~Running(r) THEN req[r]
  ELSE [End(req[r]) EXCEPT !.answer = IF req[r].headed \/ ~req[r].client THEN @ ELSE "error"]
Failed(r) ==
  IF req[r].phase # "arrived" THEN req[r]
  ELSE [End(req[r]) EXCEPT
          !.answer = IF req[r].headed \/ ~req[r].client THEN @
                     ELSE IF Running(r) THEN "error" ELSE "bare"]

(* A close from elsewhere leaves a letter with what has been read already. *)
Gone(s) == [ship[s] EXCEPT !.conn = "closing", !.armed = @ \ {"write"}]

-----------------------------------------------------------------------------
(* The store.                                                              *)

(* rent is refused when the kept and the busy ships make up the limit.     *)
Refused == MaxShips > 0 /\ MaxShips <= Len(keep) + Cardinality(busy)

(* Kept ships whose rudder is still open.  Fault: any kept ship.           *)
AnyKept == DOMAIN keep
Usable == {i \in DOMAIN keep : ship[keep[i]].conn = "up"}

(* arrive: the last usable ship that was kept, else a new one; the headers *)
(* are posted, for a request without a body with the end of its content.   *)
Start(r, s, rest) ==
  LET unit == [kind |-> IF method[r] = "post" THEN "header" ELSE "whole", of |-> r]
      old == ship[s]
      new == old.conn = "none"
  IN  /\ req' = [req EXCEPT ![r].phase = "arrived", ![r].via = s]
      /\ ship' = [ship EXCEPT ![s] =
                    [old EXCEPT !.serves = r, !.units = Append(@, unit),
                       !.conn = IF new THEN "connecting" ELSE @,
                       !.armed = IF new THEN {} ELSE @ \cup {"write"}]]
      /\ busy' = busy \cup {s} /\ keep' = rest

Unused(s) == ship[s].conn = "none" /\ \A t \in 1 .. s - 1 : ship[t].conn # "none"

Arrive(r) ==
  /\ Runs /\ req[r].phase = "new" /\ \A q \in 1 .. r - 1 : req[q].phase # "new"
  /\ \/ /\ Refused
        /\ req' = [req EXCEPT ![r].phase = "ended", ![r].answer = "error"]
        /\ UNCHANGED <<ship, keep, busy>>
     \/ /\ ~Refused /\ Usable # {}
        /\ \E i \in Usable : (\A j \in Usable : j <= i) /\ Start(r, keep[i], RemoveAt(keep, i))
     \/ /\ ~Refused /\ Usable = {}
        /\ \E s \in Ships : Unused(s) /\ Start(r, s, keep)
  /\ UNCHANGED <<agent, method>>

(* notify_connect: the check of the tour's id, then start and flush.       *)
Connected(s) ==
  LET r == ship[s].serves IN
  /\ Runs /\ ship[s].conn = "connecting"
  /\ IF r # None /\ req[r].phase = "returned" THEN Dies("id")
     ELSE /\ ship' = [ship EXCEPT ![s].conn = "up", ![s].armed = {"write"}]
          /\ UNCHANGED <<agent, method, req, keep, busy>>

ConnectFails(s) ==
  /\ Fault(FALSE) /\ ship[s].conn = "connecting"
  /\ ship' = [ship EXCEPT ![s] = Gone(s)]
  /\ UNCHANGED <<agent, method, req, keep, busy>>

-----------------------------------------------------------------------------
(* The request's body, and clients that leave before it has come.          *)

(* on_read_req_content and on_end_req_content, if the ship is still the    *)
(* one the WarpData was made for.                                          *)
Body(r) ==
  LET s == req[r].via IN
  /\ Runs /\ method[r] = "post" /\ req[r].phase = "arrived"
  /\ req[r].client /\ ~req[r].sent
  /\ IF ship[s].conn = "closed" THEN Dies("id")
     ELSE /\ req' = [req EXCEPT ![r].sent = TRUE]
          /\ ship' = [ship EXCEPT
                        ![s].units = Append(@, [kind |-> "body", of |-> r]),
                        ![s].armed = IF ship[s].conn = "up" THEN @ \cup {"write"} ELSE @]
          /\ UNCHANGED <<agent, method, keep, busy>>

(* A body that is too long: on_abort_req closes the connection, the client *)
(* is answered with an error unless the headers have been sent.            *)
TooLong(r) ==
  LET s == req[r].via IN
  /\ Fault(FALSE) /\ method[r] = "post" /\ req[r].phase = "arrived"
  /\ req[r].client /\ ~req[r].sent
  /\ IF ship[s].conn = "closed" THEN Dies("id")
     ELSE /\ ship' = [ship EXCEPT ![s] = Gone(s)]
          /\ req' = [req EXCEPT ![r].phase = "ended", ![r].headed = TRUE,
                       ![r].answer = IF req[r].headed THEN @ ELSE "error"]
          /\ UNCHANGED <<agent, method, keep, busy>>

(* The callbacks of the units a client has been written are called, or     *)
(* dropped with its connection.  TourRes.consumed calls the listener of    *)
(* handle_header only when the tour is not running; its ship may have been *)
(* returned by then.                                                       *)
Resumes(r) == req[r].full /\ ~Running(r)
StaleResume(r) == Resumes(r) /\ ship[req[r].via].conn = "closed"
ResumeRead(r, sh) ==
  IF Resumes(r) /\ sh.conn = "up" THEN [sh EXCEPT !.armed = @ \cup {"read"}] ELSE sh

ClientReads(r) ==
  LET s == req[r].via IN
  /\ Runs /\ req[r].full
  /\ IF StaleResume(r) THEN Dies("resume")
     ELSE /\ req' = [req EXCEPT ![r].full = FALSE]
          /\ ship' = [ship EXCEPT ![s] = ResumeRead(r, @)]
          /\ UNCHANGED <<agent, method, keep, busy>>

(* The connection of an abort is closed before the response of its tour    *)
(* can be written.  Fault: it may be closed later.                         *)
ReleasedEarly(r) == r \in Requests
Released(r) == \A s \in Ships : ship[s].serves = r => ship[s].conn # "closing"

ReturnTour(r) ==
  /\ Runs /\ req[r].phase = "ended" /\ ~req[r].full /\ Released(r)
  /\ req' = [req EXCEPT ![r].phase = "returned"]
  /\ UNCHANGED <<agent, method, ship, keep, busy>>

(* A client leaves: a tour that is reading is aborted, a running one goes  *)
(* on, an ended one is returned.                                           *)
Disconnect(r) ==
  LET s == req[r].via
      left == [req[r] EXCEPT !.client = FALSE, !.full = FALSE]
  IN
  /\ Fault(FALSE) /\ req[r].client /\ req[r].phase \in {"arrived", "ended"} /\ Released(r)
  /\ IF StaleResume(r) THEN Dies("resume")
     ELSE /\ req' = [req EXCEPT ![r] = IF left.phase = "ended" THEN End(left) ELSE left]
          /\ ship' = IF s = None THEN ship
                     ELSE [ship EXCEPT ![s] =
                             IF req[r].phase = "arrived" /\ method[r] = "post"
                             THEN Gone(s) ELSE ResumeRead(r, @)]
          /\ UNCHANGED <<agent, method, keep, busy>>

-----------------------------------------------------------------------------
(* The connection to the backend.                                          *)

(* One unit is written and its callbacks called: that of a chunk reports   *)
(* to the tour, that of the end starts to read.                            *)
Take(sh, u) ==
  IF u.kind # "body" /\ sh.whole
  THEN [sh EXCEPT !.heard = u.of, !.whole = u.kind = "whole", !.owes = TRUE]
  ELSE IF u.kind = "body" /\ sh.heard = u.of THEN [sh EXCEPT !.whole = TRUE]
  ELSE sh

Write(s) ==
  LET u == Head(ship[s].units)
      ops == IF u.kind # "header" THEN ship[s].armed \cup {"read"} ELSE ship[s].armed
      rest == Tail(ship[s].units)
  IN
  /\ Runs /\ ship[s].conn = "up" /\ "write" \in ship[s].armed
  /\ ship[s].units # <<>>
  /\ IF u.kind = "body" /\ req[u.of].phase = "returned" THEN Dies("consumed")
     ELSE /\ ship' = [ship EXCEPT ![s] =
                        [Take(@, u) EXCEPT !.units = rest,
                           !.armed = IF rest = <<>> THEN ops \ {"write"} ELSE ops]]
          /\ UNCHANGED <<agent, method, req, keep, busy>>

Says(s, kinds, r) == ship[s].inbox \o [i \in DOMAIN kinds |-> [kind |-> kinds[i], to |-> r]]

(* The backend answers what it has heard, perhaps before the body.  What   *)
(* it says of a HEAD has a content-length and no content.                  *)
Answers(r) ==
  IF method[r] = "head" THEN {<<"head">>, <<"empty">>}
  ELSE {<<"empty">>, <<"head", "data", "last">>, <<"head", "over">>,
        <<"head", "data", "eof">>}

UpAnswers(s) ==
  LET r == ship[s].heard IN
  /\ Runs /\ ship[s].conn = "up" /\ ship[s].owes /\ ~ship[s].gone
  /\ \E a \in Answers(r) :
       ship' = [ship EXCEPT ![s].owes = FALSE, ![s].inbox = Says(s, a, r),
                            ![s].gone = Last(a) = "eof"]
  /\ UNCHANGED <<agent, method, req, keep, busy>>

UpCloses(s) ==
  /\ Fault(FALSE) /\ ship[s].conn = "up" /\ ~ship[s].gone
  /\ ship' = [ship EXCEPT ![s].inbox = Says(s, <<"eof">>, None), ![s].gone = TRUE]
  /\ UNCHANGED <<agent, method, req, keep, busy>>

(* It says something unasked, as a 408 to a connection it finds idle.      *)
UpStray(s) ==
  /\ Fault(TRUE) /\ ship[s].conn = "up" /\ ~ship[s].gone /\ ~ship[s].owes
  /\ ship' = [ship EXCEPT ![s].inbox = Says(s, <<"empty">>, None)]
  /\ UNCHANGED <<agent, method, req, keep, busy>>

(* handle_header and what comes next, for the ship's record without the    *)
(* item that has been read.                                                *)
Headed(r, item) ==
  [req[r] EXCEPT !.headed = TRUE,
     !.answer = IF req[r].headed \/ ~req[r].client THEN @
                ELSE IF item.to = r THEN "own" ELSE "stray"]

(* send_res_content does not ask whether the tour has ended.               *)
Posted(r) ==
  [req[r] EXCEPT !.answer = IF req[r].phase = "ended" /\ @ = "error" THEN "mixed" ELSE @]

(* handle_header of a response with content.  Fault: keeping stays set.    *)
StillKeeping(sh) == [sh EXCEPT !.state = "content"]
Answering(sh) == [sh EXCEPT !.keeping = FALSE, !.state = "content"]

(* end_res_content: the ship is kept, the tour ended, in this order.       *)
(* Fault: the ship is kept and stays in tour_map.                          *)
StillServes(sh) == [sh EXCEPT !.keeping = TRUE, !.state = "header"]
Kept(sh) == [sh EXCEPT !.keeping = TRUE, !.state = "header", !.serves = None]

KeepShip(s, sh, r, q) ==
  /\ ship' = [ship EXCEPT ![s] = Kept(sh)]
  /\ keep' = Append(keep, s) /\ busy' = busy \ {s}
  /\ req' = [req EXCEPT ![r] = End(q)]

(* notify_eof and a protocol error: the tour is ended, the ship closed.    *)
DropShip(s, sh, r, q) ==
  /\ ship' = [ship EXCEPT ![s] = [sh EXCEPT !.conn = "closing", !.armed = {},
                                            !.serves = None]]
  /\ req' = IF r = None THEN req ELSE [req EXCEPT ![r] = q]
  /\ UNCHANGED <<keep, busy>>

Handle(s, sh, item, r) ==
  IF item.kind = "eof"
  THEN DropShip(s, sh, r, IF r # None /\ req[r].headed THEN End(req[r]) ELSE
                          IF r # None THEN [End(req[r]) EXCEPT !.answer =
                                              IF req[r].client THEN "error" ELSE @]
                          ELSE NewRequest)
  ELSE IF sh.state = "header"
  THEN IF item.kind = "empty"
       THEN KeepShip(s, sh, r, Headed(r, item))
       ELSE /\ ship' = [ship EXCEPT ![s] = Answering(sh)]
            /\ req' = [req EXCEPT ![r] = Headed(r, item)]
            /\ UNCHANGED <<keep, busy>>
  ELSE CASE item.kind = "last" ->
              \E full \in {FALSE, req[r].client} :
                KeepShip(s, sh, r, [Posted(r) EXCEPT !.full = full])
         [] item.kind = "over" -> DropShip(s, sh, r, Failed(r))
         [] OTHER ->
              \E full \in {FALSE, req[r].client} :
                /\ req' = [req EXCEPT ![r] = [Posted(r) EXCEPT !.full = full]]
                /\ ship' = [ship EXCEPT ![s] = IF full THEN [sh EXCEPT !.armed = {}] ELSE sh]
                /\ UNCHANGED <<keep, busy>>

(* get_tour raises Sink when there is no tour for what was read.           *)
Read(s) ==
  LET item == Head(ship[s].inbox)
      r == ship[s].serves
  IN
  /\ Runs /\ "read" \in ship[s].armed /\ ship[s].inbox # <<>>
  /\ \/ ship[s].conn = "up"
     \/ ship[s].conn = "closing" /\ item.kind # "eof"
  /\ IF r = None /\ item.kind # "eof" THEN Dies("stray")
     ELSE IF r # None /\ req[r].phase = "returned" THEN Dies("id")
     ELSE /\ Handle(s, [ship[s] EXCEPT !.inbox = Tail(@)], item, r)
          /\ UNCHANGED <<agent, method>>

(* check_timeout: never of a ship that is keeping, which a reused ship is  *)
(* until the header of its next answer has been handled.                   *)
TimesOut(s) ==
  LET r == ship[s].serves IN
  /\ Runs /\ ship[s].conn \in {"connecting", "up"} /\ ~ship[s].keeping
  /\ DropShip(s, ship[s], r, IF r = None THEN NewRequest ELSE Failed(r))
  /\ UNCHANGED <<agent, method>>

(* The units are drained, then notify_close: the tour is answered, the     *)
(* ship returned to the store.                                             *)
Stale(s) == \E i \in DOMAIN ship[s].units :
              LET u == ship[s].units[i]
              IN  u.kind = "body" /\ req[u.of].phase = "returned"

(* Return takes the ship out of both lists.  Fault: of the busy list only. *)
LeftInList(s) == keep' = keep /\ busy' = busy \ {s}
OutOfLists(s) == keep' = RemoveFirst(keep, s) /\ busy' = busy \ {s}

Closed(s) ==
  LET r == ship[s].serves IN
  /\ Runs /\ ship[s].conn = "closing"
  /\ IF Stale(s) THEN Dies("consumed")
     ELSE IF r # None /\ req[r].phase = "returned" THEN Dies("id")
     ELSE /\ ship' = [ship EXCEPT ![s] = [NewShip EXCEPT !.conn = "closed"]]
          /\ req' = IF r = None THEN req ELSE [req EXCEPT ![r] = Failed(r)]
          /\ OutOfLists(s)
          /\ UNCHANGED <<agent, method>>

-----------------------------------------------------------------------------
(* What happens whatever a client or the backend may choose to do.         *)
Internal ==
  \/ \E r \in Requests : Body(r) \/ ClientReads(r) \/ ReturnTour(r)
  \/ \E s \in Ships : \/ Connected(s) \/ Write(s) \/ UpAnswers(s) \/ Read(s)
                      \/ TimesOut(s) \/ Closed(s)
External ==
  \/ \E r \in Requests : Arrive(r) \/ TooLong(r) \/ Disconnect(r)
  \/ \E s \in Ships : ConnectFails(s) \/ UpCloses(s) \/ UpStray(s)

Next == Internal \/ External
Spec == Init /\ [][Next]_vars
-----------------------------------------------------------------------------
(* Properties.                                                             *)

Listed == ToSet(keep) \cup busy

(* A connection is in the store from its first request until it has been   *)
(* closed, in one list only; a kept one serves nobody, one that serves is  *)
(* busy, no two serve the same request; the limit is kept                  *)
(* (WarpShipStore, WarpShip.tour_map).                                     *)
StoreConsistent ==
  /\ Listed = {s \in Ships : ship[s].conn \notin {"none", "closed"}}
  /\ \A s \in ToSet(keep) : s \notin busy /\ ship[s].serves = None
  /\ \A s, t \in Ships : ship[s].serves = ship[t].serves => s = t \/ ship[s].serves = None
  /\ MaxShips > 0 => Cardinality(Listed) <= MaxShips

(* A request that has been forwarded and not answered is served by the     *)
(* connection its WarpData refers to: whatever ends that one ends the      *)
(* request (end_warp_tour, notify_eof, notify_close, check_timeout).       *)
TourHasShip ==
  \A r \in Requests : req[r].phase = "arrived" =>
    /\ ship[req[r].via].conn # "closed"
    /\ ship[req[r].via].serves = r

(* The store, the connections and the requests they serve are in step.     *)
StoreKept == TypeOK /\ StoreConsistent /\ TourHasShip

(* A client is given the answer to its own request or an error, unless the *)
(* backend said something unasked; content behind an error only after a    *)
(* refused body; an end without a header only for a request with a body.   *)
AnswersMatch ==
  \A r \in Requests :
    /\ req[r].answer = "stray" => strayed
    /\ req[r].answer = "bare" => method[r] = "post"
    /\ req[r].answer = "mixed" => method[r] = "post" /\ ~req[r].sent
    /\ req[r].client /\ req[r].phase \in {"ended", "returned"} => req[r].answer # "none"

(* The ids that are checked against a stale ship or tour (check_ship_id of *)
(* WarpData, check_tour_id of tour_map) always fit.  The agent dies of an  *)
(* answer nobody asked for, of a chunk written after the tour it belongs   *)
(* to had been answered early, or of a client that reads on after the      *)
(* connection its listener would resume is gone; of nothing else.          *)
DeathsExplained ==
  /\ agent # "id"
  /\ agent = "stray" => strayed
  /\ agent = "consumed" =>
       \E s \in Ships, r \in Requests :
         /\ [kind |-> "body", of |-> r] \in ToSet(ship[s].units)
         /\ req[r].via = s /\ req[r].phase = "returned"
  /\ agent = "resume" =>
       \E r \in Requests : req[r].full /\ req[r].phase = "ended"

(* No step of Internal can be taken: the guards of its actions, denied.    *)
RequestCan(r) ==
  \/ method[r] = "post" /\ req[r].phase = "arrived" /\ req[r].client /\ ~req[r].sent
  \/ req[r].full
  \/ req[r].phase = "ended" /\ ~req[r].full /\ Released(r)
ShipCan(s) ==
  LET sh == ship[s] IN
  \/ sh.conn \in {"connecting", "closing"}
  \/ /\ sh.conn = "up"
     /\ \/ ~sh.keeping
        \/ sh.owes /\ ~sh.gone
        \/ "write" \in sh.armed /\ sh.units # <<>>
        \/ "read" \in sh.armed /\ sh.inbox # <<>>
Quiet == ~(\E r \in Requests : RequestCan(r)) /\ ~(\E s \in Ships : ShipCan(s))

(* When nothing is left to happen, the only requests without an end wait   *)
(* on a reused connection, which is not timed out, whose backend took      *)
(* their header for the body of the request before.                        *)
Swallowed(s) == ship[s].keeping /\ ~ship[s].whole
NothingLeftUndone ==
  Alive /\ Quiet =>
    \A r \in Requests : req[r].phase = "arrived" => Swallowed(req[r].via)

(* The store, as the abstract pool of connections.                         *)
Asked == {r \in Requests : req[r].phase # "new"}
Idle == {s \in ToSet(keep) : ship[s].conn = "up"}
InUse(r) == {s \in Ships : ship[s].serves = r /\ ship[s].conn # "closing"}
LentTo == [r \in Requests |-> IF InUse(r) = {} THEN None ELSE CHOOSE s \in InUse(r) : TRUE]
Leaving == {s \in Ships : ship[s].conn = "closing"}
Pool == INSTANCE ShipPool WITH
  Limit <- MaxShips, Nobody <- None,
  asked <- Asked, idle <- Idle, lent <- LentTo, leaving <- Leaving

(* The store, the tour map and the connections together implement the pool *)
(* (WarpShipStore.rent, keep and Return).                                  *)
ImplementsPool == Pool!Spec
=============================================================================
