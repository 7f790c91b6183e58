------------------------------- MODULE MCParts -------------------------------
(* Parts of the server with steps of several actors that are small enough  *)
(* to share one run: an HTTP/3 connection, the record protocols of the     *)
(* warp side, the access log, the start of the server, an agent's pools of *)
(* objects.  A behaviour is of one of them.                                *)
EXTENDS Pools, TLC

CONSTANTS
  Streams,    \* of the HTTP/3 connection
  MaxTours,   \* its limits and bounds, as in H3
  Buffer, MaxChunks, MaxLength, MaxEvents,
  MaxTaxis, MaxLines,       \* of the access log
  NumRequests, MaxFaults    \* of the backend's connection

ASSUME StreamsAssumption ==
  /\ MaxTours \in Nat /\ Buffer \in Nat \ {0}
  /\ MaxChunks \in Nat /\ MaxLength \in Nat /\ MaxEvents \in Nat

ASSUME LogAssumption == MaxTaxis \in Nat \ {0} /\ MaxLines \in Nat

ASSUME RecordsAssumption == NumRequests \in Nat /\ MaxFaults \in Nat

VARIABLES which,
  open, spoilt, prod, body, loop, coros, stop, wire, asked, blunders, lost, events,
  proto, conn, serves, line, units, inbox, backend, req, cut, strayed, refused, faults,
  h3, format, up, dead, at, writing, taxis, letters, buffer, disk, order, broken, missed,
  fork, plan, inUse, ports, opened, toStart, agents, curId, finale, edited, crashes,
  agent, state

http3 == <<open, spoilt, prod, body, loop, coros, stop, wire, asked, blunders, lost, events>>
records == <<proto, conn, serves, line, units, inbox, backend, req, cut, strayed, refused, faults>>
log == <<h3, format, up, dead, at, writing, taxis, letters, buffer, disk, order, broken, missed>>
startup == <<fork, plan, inUse, ports, opened, toStart, agents, curId, finale, edited, crashes>>
objects == <<listening, ships, hands, packets, ship, hnd, requests, early, unfit, crossed>>
shared == <<cause, tour, nextId>>

(* The variables of the other parts are idle.                              *)
NoHttp3 == /\ open = 0 /\ spoilt = 0 /\ prod = 0 /\ body = 0 /\ loop = 0 /\ coros = 0
           /\ stop = 0 /\ wire = 0 /\ asked = 0 /\ blunders = 0 /\ lost = 0 /\ events = 0
NoRecords == /\ proto = 0 /\ conn = 0 /\ serves = 0 /\ line = 0 /\ units = 0 /\ inbox = 0
             /\ backend = 0 /\ req = 0 /\ cut = 0 /\ strayed = 0 /\ refused = 0 /\ faults = 0
NoLog == /\ h3 = 0 /\ format = 0 /\ up = 0 /\ dead = 0 /\ at = 0 /\ writing = 0 /\ taxis = 0
         /\ letters = 0 /\ buffer = 0 /\ disk = 0 /\ order = 0 /\ broken = 0 /\ missed = 0
NoStartup == /\ fork = 0 /\ plan = 0 /\ inUse = 0 /\ ports = 0 /\ opened = 0 /\ toStart = 0
             /\ agents = 0 /\ curId = 0 /\ finale = 0 /\ edited = 0 /\ crashes = 0
NoPools == /\ listening = 0 /\ ships = 0 /\ hands = 0 /\ packets = 0 /\ ship = 0 /\ hnd = 0
           /\ requests = 0 /\ early = 0 /\ unfit = 0 /\ crossed = 0
NoShared == cause = 0 /\ tour = 0 /\ nextId = 0

Symmetry == Permutations(Streams) \cup Permutations(Conns)

-----------------------------------------------------------------------------
Http3 == INSTANCE H3 WITH Keys <- Streams

Records == INSTANCE RecordWarp

Log == INSTANCE AccessLog

-----------------------------------------------------------------------------
(* Plans with ports of every kind, two alike, two of one number, one that  *)
(* cannot listen, none, no harbor, and log multiplexers of both kinds; what *)
(* they may be edited to while the server runs; and ports already taken.   *)
Port(p, f, h, n) == [proto |-> p, form |-> f, host |-> h, number |-> n]
Tcp(h, n) == Port("http", "tcp", h, n)
Udp == Port("h3", "udp", "::", 1)
Plan(ps) == [harbor |-> TRUE, ports |-> ps, log |-> TRUE, logMultiplexer |-> "unset"]
One == Plan(<<Tcp("a", 1)>>)
MCPlans ==
  {Plan(ps) : ps \in {<<>>, <<Tcp("a", 1), Tcp("a", 2)>>, <<Tcp("a", 1), Tcp("b", 1)>>,
                      <<Tcp("a", 1), Tcp("a", 1)>>, <<Port("http", "unix", "s", 0), Tcp("a", 1)>>,
                      <<Udp>>, <<Tcp("a", 1), Udp>>, <<Udp, Udp, Tcp("b", 1)>>,
                      <<Tcp("a", 1), Port("http", "udp", "::", 1)>>, <<Tcp("a", 0)>>}}
  \cup {One, [One EXCEPT !.harbor = FALSE]}
  \cup {[One EXCEPT !.logMultiplexer = m] : m \in {"taxi", "unknown"}}
MCEdits == {Plan(<<Tcp("a", 2)>>), Plan(<<Udp>>), [One EXCEPT !.logMultiplexer = "taxi"]}
MCOccupied == {{}, {<<"tcp", "a", 1>>}, {<<"udp", "::", 1>>}}

Startup == INSTANCE Startup WITH
  Plans <- MCPlans, Edits <- MCEdits, Occupied <- MCOccupied, GrandAgents <- 2, MaxId <- 6, MaxCrashes <- 1

-----------------------------------------------------------------------------
MCInit ==
  \/ /\ which = "http3" /\ Http3!Init
     /\ NoRecords /\ NoLog /\ NoStartup /\ NoPools /\ state = 0 /\ reading = 0 /\ queue = 0 /\ phase = 0
  \/ /\ which = "records" /\ Records!Init
     /\ NoHttp3 /\ NoLog /\ NoStartup /\ NoPools /\ NoShared /\ queue = 0 /\ phase = 0
  \/ /\ which = "log" /\ Log!Init
     /\ NoHttp3 /\ NoRecords /\ NoStartup /\ NoPools /\ NoShared /\ agent = 0 /\ reading = 0 /\ phase = 0
  \/ /\ which = "startup" /\ Startup!Init
     /\ NoHttp3 /\ NoRecords /\ NoLog /\ NoPools /\ NoShared /\ agent = 0 /\ state = 0 /\ reading = 0 /\ queue = 0
  \/ /\ which = "pools" /\ Init
     /\ NoHttp3 /\ NoRecords /\ NoLog /\ NoStartup /\ agent = 0 /\ state = 0

MCNext ==
  /\ which' = which
  /\ \/ /\ which = "http3" /\ Http3!Next
        /\ UNCHANGED <<records, log, startup, objects, state, reading, queue, phase>>
     \/ /\ which = "records" /\ Records!Next
        /\ UNCHANGED <<http3, log, startup, objects, shared, queue, phase>>
     \/ /\ which = "log" /\ Log!Next
        /\ UNCHANGED <<http3, records, startup, objects, shared, agent, reading, phase>>
     \/ /\ which = "startup" /\ Startup!Next
        /\ UNCHANGED <<http3, records, log, objects, shared, agent, state, reading, queue>>
     \/ /\ which = "pools" /\ Next
        /\ UNCHANGED <<http3, records, log, startup, agent, state>>

allVars == <<which, http3, records, log, startup, objects, shared, agent, state, reading, queue, phase>>

MCSpec == MCInit /\ [][MCNext]_allVars

-----------------------------------------------------------------------------
(* The streams of HTTP/3: whichever thread runs when, responses leave in   *)
(* order, a tour nothing will end and a producer left suspended each have  *)
(* a cause the module names (QicTicket, TourRes).                          *)
StreamsServed == which = "http3" => Http3!StreamsServed

(* The agent's thread ends of a tour shared with the loop's thread in the  *)
(* four ways the module names only (TourRes, TourReq, Tour.check_tour_id). *)
ThreadDeathsExplained == [][which = "http3" => Http3!DeathExplained]_allVars

(* The answers of a FastCGI or AJP backend reach the requests they belong  *)
(* to, and nobody waits for ever, but in the ways RecordWarp names.        *)
RecordsAnswered == which = "records" => Records!RecordsAnswered /\ Records!StalledForAReason

(* The access log has every line once and in order (TaxiMultiplexer).      *)
LogKept == which = "log" => Log!LogKept

(* The server starts as a whole or not at all, and every socket is served  *)
(* by its own docker in every process (BayServer.start, GrandAgent).       *)
Started == which = "startup" => Startup!Started

(* Ships, handlers and packets serve one connection at a time and go back  *)
(* to their pools (ObjectStore, ProtocolHandlerStore, PacketStore).        *)
Pooled == which = "pools" => PoolsKept
=============================================================================
