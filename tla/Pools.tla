------------------------------- MODULE Pools -------------------------------
(***************************************************************************)
(* The pooled objects behind the connections of an agent.  A connection    *)
(* rents a ship and a protocol handler when it is accepted, changes the    *)
(* handler when it turns out to speak HTTP/2, and gives both back when it  *)
(* is closed and its last tour has been returned; a message rents a packet *)
(* until it is written.  An object goes back to a free list and serves the *)
(* next connection, so whoever still refers to it then acts for another.   *)
(*                                                                         *)
(* All of this runs on the agent's thread; an action is one letter, or one *)
(* call of a tour's producer.                                              *)
(***************************************************************************)
EXTENDS Naturals, Sequences, FiniteSets, SequencesExt

CONSTANTS
  Conns,        \* the sockets the port accepts
  MaxRequests   \* bound: requests of all connections

ASSUME PoolsAssumption ==
  IsFiniteSet(Conns) /\ "nobody" \notin Conns /\ MaxRequests \in Nat

VARIABLES
  cause,     \* why the agent died, "none" if it runs
  listening, \* the port is open
  phase,     \* of a socket: "away", "open", "closing" (its letter queued), "draining", "gone"
  reading,   \* the socket is registered for reading
  queue,     \* write units: [pkt, via, sid, keep, tour]
  ships,     \* the store of inbound ships
  hands,     \* the stores of protocol handlers
  packets,   \* the store of packets
  ship,      \* [conn, id, hnd, needEnd] of each ship
  hnd,       \* the ship of each protocol handler, 0 if it has none
  nextId,    \* ship_id_counter
  tour,      \* [ship, state] of each request
  requests,
  early,     \* history: connections that changed protocol with a response outstanding
  unfit,     \* history: ships rented for a socket that could not be wrapped
  crossed    \* history: a callback closed the connection of another

vars == <<cause, listening, phase, reading, queue, ships, hands, packets, ship, hnd,
          nextId, tour, requests, early, unfit, crossed>>

Nobody == "nobody"
Objects == 1..Cardinality(Conns)
Tours == 1..MaxRequests

-----------------------------------------------------------------------------
(* ObjectStore.                                                            *)
Empty == [free |-> <<>>, active |-> {}, made |-> 0]

Rented(s) == IF s.free = <<>> THEN s.made + 1 ELSE Last(s.free)
Rent(s) ==
  IF s.free = <<>> THEN [s EXCEPT !.made = @ + 1, !.active = @ \cup {s.made + 1}]
  ELSE [s EXCEPT !.free = Front(@), !.active = @ \cup {Last(s.free)}]

Returnable(s, o) == ~Contains(s.free, o) /\ o \in s.active
Return(s, o) == [s EXCEPT !.active = @ \ {o}, !.free = Append(@, o)]

-----------------------------------------------------------------------------
NoShip == [conn |-> Nobody, id |-> 0, hnd |-> <<"h1", 0>>, needEnd |-> FALSE]
NoTour == [ship |-> 0, state |-> "none"]

Init ==
  /\ cause = "none" /\ listening = TRUE
  /\ phase = [c \in Conns |-> "away"]
  /\ reading = [c \in Conns |-> FALSE]
  /\ queue = [c \in Conns |-> <<>>]
  /\ ships = Empty /\ hands = [p \in {"h1", "h2"} |-> Empty] /\ packets = Empty
  /\ ship = [o \in Objects |-> NoShip]
  /\ hnd = [h \in {"h1", "h2"} \X Objects |-> 0]
  /\ nextId = 1
  /\ tour = [t \in Tours |-> NoTour] /\ requests = 0
  /\ early = {} /\ unfit = {} /\ crossed = FALSE

Idle == cause = "none" /\ \A c \in Conns : phase[c] # "draining"
ToursOf(o) == {t \in Tours : tour[t].ship = o}
ShipOf(c) == CHOOSE o \in Objects : ship[o].conn = c
Speaks(c, proto) == ship[ShipOf(c)].hnd[1] = proto

pools == <<ships, hands, ship, hnd>>
history == <<early, unfit, crossed>>

-----------------------------------------------------------------------------
(* on_connected: the ship is rented first, and only a ship that has its    *)
(* transporter, handler and rudder is initialized.                         *)

(* The caller takes any failure for one of the listening socket.           *)
RefuseSocket(c) ==
  /\ Idle /\ listening /\ phase[c] = "away"
  /\ phase' = [phase EXCEPT ![c] = "gone"] /\ listening' = FALSE
  /\ UNCHANGED <<cause, reading, queue, pools, packets, nextId, tour, requests, history>>

CannotWrap(c) ==
  /\ Idle /\ listening /\ phase[c] = "away"
  /\ ships' = Rent(ships) /\ unfit' = unfit \cup {Rented(ships)}
  /\ phase' = [phase EXCEPT ![c] = "gone"] /\ listening' = FALSE
  /\ UNCHANGED <<cause, reading, queue, hands, ship, hnd, packets, nextId, tour, requests, early, crossed>>

OnConnected(c) ==
  LET o == Rented(ships)  h == <<"h1", Rented(hands["h1"])>> IN
  /\ Idle /\ listening /\ phase[c] = "away"
  /\ IF ship[o].conn # Nobody THEN cause' = "alreadyInitialized" ELSE UNCHANGED cause
  /\ ships' = Rent(ships) /\ hands' = [hands EXCEPT !["h1"] = Rent(@)]
  /\ ship' = [ship EXCEPT ![o] = [@ EXCEPT !.conn = c, !.id = nextId, !.hnd = h]]
  /\ hnd' = [hnd EXCEPT ![h] = o]
  /\ nextId' = nextId + 1
  /\ phase' = [phase EXCEPT ![c] = "open"] /\ reading' = [reading EXCEPT ![c] = TRUE]
  /\ UNCHANGED <<listening, queue, packets, tour, requests, history>>

-----------------------------------------------------------------------------
(* Requests.  After one without a body reading is suspended; after a body  *)
(* the loop reads on, so the next request may come before the response.    *)
Reads(c) == Idle /\ phase[c] = "open" /\ reading[c]
HasBody(c) == \E t \in ToursOf(ShipOf(c)) : tour[t].state = "reading"

Starts(c, state) ==
  /\ Reads(c) /\ ~HasBody(c) /\ requests < MaxRequests
  /\ requests' = requests + 1
  /\ tour' = [tour EXCEPT ![requests + 1] = [ship |-> ShipOf(c), state |-> state]]
  /\ UNCHANGED <<cause, listening, phase, queue, pools, packets, nextId, history>>

HandleHeader(c) ==
  /\ phase[c] = "open" /\ Speaks(c, "h1")
  /\ \/ Starts(c, "running") /\ reading' = [reading EXCEPT ![c] = FALSE]
     \/ Starts(c, "reading") /\ UNCHANGED reading

(* A stream of HTTP/2; its id could be the key of a tour HTTP/1 left, so   *)
(* none is modelled on a connection that changed protocol early.           *)
HandleHeaders(c) ==
  /\ phase[c] = "open" /\ Speaks(c, "h2") /\ c \notin early
  /\ Starts(c, "running") /\ UNCHANGED reading

HandleContent(c) ==
  /\ Reads(c)
  /\ \E t \in ToursOf(ShipOf(c)) :
       /\ tour[t].state = "reading"
       /\ tour' = [tour EXCEPT ![t].state = "running"]
  /\ UNCHANGED <<cause, listening, phase, reading, queue, pools, packets, nextId, requests, history>>

(* PRI * HTTP/2.0: the handler goes back to its store, the ship gets one   *)
(* of HTTP/2, and the transporter hands the same read to it, outside of    *)
(* the clauses that catch its errors: a first line cut by a read, or a bad *)
(* frame behind it, ends the agent.                                        *)
Upgrade(c, whole) ==
  LET o == ShipOf(c)  h == ship[o].hnd  n == <<"h2", Rented(hands["h2"])>> IN
  /\ Reads(c) /\ Speaks(c, "h1") /\ ~HasBody(c)
  /\ hands' = [h1 |-> Return(hands["h1"], h[2]), h2 |-> Rent(hands["h2"])]
  /\ hnd' = [hnd EXCEPT ![h] = 0, ![n] = o]
  /\ ship' = [ship EXCEPT ![o].hnd = n]
  /\ early' = IF ToursOf(o) = {} THEN early ELSE early \cup {c}
  /\ cause' = IF whole THEN cause ELSE "secondRead"
  /\ UNCHANGED <<listening, phase, reading, queue, ships, packets, nextId, tour, requests, unfit, crossed>>

-----------------------------------------------------------------------------
(* end_ship: the handler goes back, then the ship.                         *)
ResetKeepsEnd(o) == [ship EXCEPT ![o] = [@ EXCEPT !.conn = Nobody, !.id = 0]]
Reset(o) == [ship EXCEPT ![o] = [@ EXCEPT !.conn = Nobody, !.id = 0, !.needEnd = FALSE]]

EndShip(o) ==
  LET h == ship[o].hnd  p == h[1] IN
  /\ hands' = [hands EXCEPT ![p] = Return(@, h[2])]
  /\ hnd' = [hnd EXCEPT ![h] = 0]
  /\ ships' = Return(ships, o)
  /\ ship' = Reset(o)
  /\ cause' = IF Returnable(hands[p], h[2]) /\ Returnable(ships, o) THEN cause ELSE "returned"

(* The callback of end_res_content.                                        *)
ReturnTour(t) ==
  LET o == tour[t].ship IN
  /\ tour' = [tour EXCEPT ![t] = NoTour]
  /\ IF ship[o].needEnd /\ ToursOf(o) = {t} THEN EndShip(o) ELSE UNCHANGED <<pools, cause>>

Close(cs) == phase' = [c \in Conns |-> IF c \in cs /\ phase[c] = "open" THEN "closing" ELSE phase[c]]

(* The callback of HTTP/1 around it finds the ship through its handler,    *)
(* and checks the ship's id only to resume.                                *)
Dies(c, why) == cause' = why /\ UNCHANGED <<tour, pools, reading, crossed>>

CalledBack(c, u) ==
  LET s == hnd[u.via] IN
  CASE u.via[1] = "h2" -> ReturnTour(u.tour) /\ UNCHANGED <<reading, crossed>> /\ Close({})
    [] u.via[1] = "h1" /\ s = 0 -> Dies(c, "noShip") /\ Close({})
    [] u.via[1] = "h1" /\ s # 0 /\ u.keep /\ ship[s].id # u.sid -> Dies(c, "staleShip") /\ Close({})
    [] u.via[1] = "h1" /\ s # 0 /\ u.keep /\ ship[s].id = u.sid ->
         ReturnTour(u.tour) /\ reading' = [reading EXCEPT ![c] = TRUE] /\ UNCHANGED crossed /\ Close({})
    [] OTHER ->
         /\ ReturnTour(u.tour) /\ UNCHANGED reading
         /\ crossed' = (crossed \/ ship[s].conn # c)
         /\ Close({ship[s].conn})

-----------------------------------------------------------------------------
(* send_end_tour: the packet of the last message is rented and queued, or, *)
(* when the state of the rudder is gone, given back and called back.       *)
Unit(t, keep) ==
  LET o == tour[t].ship IN
  [pkt |-> Rented(packets), via |-> ship[o].hnd, sid |-> ship[o].id, keep |-> keep, tour |-> t]

Post(t, keep) ==
  LET c == ship[tour[t].ship].conn IN
  /\ Idle /\ tour[t].state = "running"
  /\ \/ /\ phase[c] \in {"open", "closing"}
        /\ packets' = Rent(packets)
        /\ queue' = [queue EXCEPT ![c] = Append(@, Unit(t, keep))]
        /\ tour' = [tour EXCEPT ![t].state = "ended"]
        /\ UNCHANGED <<cause, phase, reading, pools, crossed>>
     \/ /\ phase[c] = "gone"
        /\ packets' = Return(Rent(packets), Rented(packets))
        /\ CalledBack(c, Unit(t, keep))
        /\ UNCHANGED queue
  /\ UNCHANGED <<listening, nextId, requests, early, unfit>>

Done(c) ==
  /\ queue[c] # <<>>
  /\ packets' = Return(packets, Head(queue[c]).pkt)
  /\ queue' = [queue EXCEPT ![c] = Tail(@)]
  /\ CalledBack(c, Head(queue[c]))
  /\ UNCHANGED <<listening, nextId, requests, early, unfit>>

OnWrote(c) == Idle /\ phase[c] = "open" /\ Done(c)

(* The client goes away or is timed out.                                   *)
ReqClose(c) ==
  /\ Idle /\ phase[c] = "open" /\ Close({c})
  /\ UNCHANGED <<cause, listening, reading, queue, pools, packets, nextId, tour, requests, history>>

(* on_closed: the units are called back one by one, then the ship hears.   *)
OnClosed(c) ==
  /\ Idle /\ phase[c] = "closing"
  /\ phase' = [phase EXCEPT ![c] = "draining"]
  /\ UNCHANGED <<cause, listening, reading, queue, pools, packets, nextId, tour, requests, history>>

ConsumeOldestUnit(c) == cause = "none" /\ phase[c] = "draining" /\ Done(c)

(* A tour whose body is still read agrees to be aborted, or does not; one  *)
(* that runs is left to its producer, and the last to return ends the ship.*)
NotifyClose(c) ==
  LET o == ShipOf(c) IN
  /\ cause = "none" /\ phase[c] = "draining" /\ queue[c] = <<>>
  /\ phase' = [phase EXCEPT ![c] = "gone"] /\ reading' = [reading EXCEPT ![c] = FALSE]
  /\ \E aborted \in SUBSET {t \in ToursOf(o) : tour[t].state = "reading"} :
       /\ tour' = [t \in Tours |->
                     IF t \in aborted THEN NoTour
                     ELSE IF tour[t].ship = o THEN [tour[t] EXCEPT !.state = "running"] ELSE tour[t]]
       /\ IF aborted = ToursOf(o) THEN EndShip(o)
          ELSE ship' = [ship EXCEPT ![o].needEnd = TRUE] /\ UNCHANGED <<cause, ships, hands, hnd>>
  /\ UNCHANGED <<listening, queue, packets, nextId, requests, history>>

Next ==
  \/ \E c \in Conns :
       \/ RefuseSocket(c) \/ CannotWrap(c) \/ OnConnected(c)
       \/ HandleHeader(c) \/ HandleHeaders(c) \/ HandleContent(c)
       \/ \E whole \in BOOLEAN : phase[c] = "open" /\ Upgrade(c, whole)
       \/ OnWrote(c) \/ ReqClose(c) \/ OnClosed(c) \/ ConsumeOldestUnit(c) \/ NotifyClose(c)
  \/ \E t \in Tours, keep \in BOOLEAN : Post(t, keep)

Spec == Init /\ [][Next]_vars

-----------------------------------------------------------------------------
StoreOK(s) ==
  /\ s.active \subseteq 1..s.made /\ IsInjective(s.free)
  /\ ToSet(s.free) = 1..s.made \ s.active

TypeOK ==
  /\ cause \in {"none", "secondRead", "noShip", "staleShip"} /\ listening \in BOOLEAN
  /\ phase \in [Conns -> {"away", "open", "closing", "draining", "gone"}]
  /\ StoreOK(ships) /\ StoreOK(hands["h1"]) /\ StoreOK(hands["h2"]) /\ StoreOK(packets)
  /\ hnd \in [{"h1", "h2"} \X Objects -> {0} \cup Objects]

(* A ship or a handler serves one connection: each open connection has its *)
(* own, the two refer to each other, and neither is in a free list.        *)
Serving == {o \in Objects : ship[o].conn # Nobody}
ServesOne ==
  /\ \A o, q \in Serving : ship[o].conn = ship[q].conn => o = q
  /\ \A o \in Serving : hnd[ship[o].hnd] = o
  /\ \A c \in Conns : phase[c] \in {"open", "closing", "draining"} => \E o \in Serving : ship[o].conn = c

(* Everything rented goes back: a ship is out only for a connection that   *)
(* is there or has tours left, or for a socket that could not be wrapped;  *)
(* a handler with its ship; a packet while its message is queued.          *)
Queued == UNION {ToSet(queue[c]) : c \in Conns}
NothingLost ==
  /\ ships.active = Serving \cup unfit /\ Cardinality(unfit) <= 1
  /\ \A o \in Serving : phase[ship[o].conn] # "gone" \/ ToursOf(o) # {}
  /\ \A p \in {"h1", "h2"} :
       hands[p].active = {n \in Objects : \E o \in Serving : ship[o].hnd = <<p, n>>}
  /\ packets.active = {u.pkt : u \in Queued}

(* A callback in a write queue finds the connection it was queued for,     *)
(* unless that one changed protocol with a response outstanding: only then *)
(* does it find no ship, a ship with another id, or another connection.    *)
FindsItsConnection ==
  /\ \A c \in Conns \ early : \A i \in DOMAIN queue[c] :
       hnd[queue[c][i].via] \in Serving /\ ship[hnd[queue[c][i].via]].conn = c
  /\ (crossed \/ cause \in {"noShip", "staleShip"}) => early # {}

(* What the pools of an agent promise.                                     *)
PoolsKept == TypeOK /\ (cause = "none" => ServesOne /\ NothingLost /\ FindsItsConnection)
=============================================================================
