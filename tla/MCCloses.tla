------------------------------ MODULE MCCloses ------------------------------
(* That closes come to an end: those of an agent's sockets (Spider) and    *)
(* those of connections with tours that cannot be aborted (Tours).  A      *)
(* behaviour is of one of the two.                                         *)
EXTENDS Naturals

CONSTANTS Port1, Clients, Unit1, Ship1, Tour1, Tour2, NoShip, NoTour

VARIABLES which,
  pc, busy, aborted, rudders, open, registered, operations, toConnect, connecting,
  queue, closed, letters, selected, caller, origin, asked, done,
  cause, ship, tour, held, cur, body, producers, writes, nextTour, nextShip, unanswered

agent == <<pc, busy, aborted, rudders, open, registered, operations, toConnect, connecting,
           queue, closed, letters, selected, caller, origin, asked, done>>
conns == <<cause, ship, tour, held, cur, body, producers, writes, nextTour, nextShip, unanswered>>
vars == <<which, agent, conns>>

Agent == INSTANCE Spider WITH
  Ports <- {Port1}, Units <- {Unit1}, Size <- 1, MaxShips <- 3, MaxLetters <- 2, AcceptMayFail <- FALSE

Conns == INSTANCE Tours WITH Ships <- {Ship1}, Pool <- {Tour1, Tour2}, MaxTourIds <- 3, MaxShipIds <- 2

NoAgent == /\ pc = 0 /\ busy = 0 /\ aborted = 0 /\ rudders = 0 /\ open = 0 /\ registered = 0
           /\ operations = 0 /\ toConnect = 0 /\ connecting = 0 /\ queue = 0 /\ closed = 0
           /\ letters = 0 /\ selected = 0 /\ caller = 0 /\ origin = 0 /\ asked = 0 /\ done = 0
NoConns == /\ cause = 0 /\ ship = 0 /\ tour = 0 /\ held = 0 /\ cur = 0 /\ body = 0
           /\ producers = 0 /\ writes = 0 /\ nextTour = 0 /\ nextShip = 0 /\ unanswered = 0

MCInit ==
  \/ which = "agent" /\ Agent!Init /\ NoConns
  \/ which = "conns" /\ Conns!Init /\ NoAgent

OfAgent(A) == which = "agent" /\ A /\ UNCHANGED <<which, conns>>
OfConns(A) == which = "conns" /\ A /\ UNCHANGED <<which, agent>>
MCNext == OfAgent(Agent!Next) \/ OfConns(Conns!Next)

(* The fairness of the two modules.                                        *)
Fairness ==
  /\ WF_vars(OfAgent(Agent!Run))
  /\ WF_vars(OfConns(Conns!OnClosed(Ship1)))
  /\ WF_vars(OfConns(Conns!Ends(Tour1))) /\ WF_vars(OfConns(Conns!Ends(Tour2)))

MCSpec == MCInit /\ [][MCNext]_vars /\ Fairness

-----------------------------------------------------------------------------
(* A close that was requested is carried out unless the agent stops first  *)
(* (SpiderMultiplexer.req_close, GrandAgent._on_closed).                   *)
CloseCompletes ==
  \A r \in Clients :
    (which = "agent" /\ Agent!Closing(r)) ~> (which = "agent" /\ Agent!CloseDone(r))

(* A connection that closed under tours which cannot be aborted gives its  *)
(* ship back in the end (InboundShip.notify_close, return_tour).           *)
ClosedShipsEnd ==
  (which = "conns" /\ Conns!Waits(Ship1)) ~> (which = "conns" /\ Conns!ShipEnded(Ship1))
=============================================================================
