# BayServer for Python: specifications, model checking and proofs

This directory holds TLA+ specifications of the core of BayServer (Python), the
TLC configurations that check them on small instances, and TLAPS proofs of the
invariants that matter most. Everything is translated from the sources under
`src/packages/`; paths below are relative to that directory, and
`core/` stands for `bayserver-core/bayserver_core/`.

| file | what it is |
|---|---|
| `Spider.tla` | one agent: its event loop, its SpiderMultiplexer, its letters and write queues |
| `Tours.tla` | ships, tours, the HTTP/1 inbound handler and what produces responses |
| `Monitors.tla` | the parent process: monitors, forks, commands, crashed agents |
| `Flow.tla` | flow control of both bodies, file ships, the Taxi and Spin multiplexers that read files |
| `CgiPool.tla` | CGI dockers: limit, postponed requests, pipes, blocking calls, timeouts |
| `Warp.tla`, `ShipPool.tla` | the proxy side with an HTTP/1 backend, and the abstract pool it implements |
| `RecordWarp.tla` | the warp handlers of FastCGI and AJP |
| `Inbound.tla`, `H2Inbound.tla`, `FcgInbound.tla`, `AjpInbound.tla` | a multiplexed inbound connection, and the commands of three protocols on it |
| `H3.tla` | an HTTP/3 connection between two threads |
| `Pools.tla` | the stores of ships, protocol handlers and packets |
| `AccessLog.tla` | the access log's lines through the Taxi multiplexer |
| `Startup.tla`, `PlanFile.tla` | from a plan to agents that serve; the reading of a plan file |
| `Routing.tla` | cities, towns, clubs, permissions |
| `Unpackers.tla`, `H1Unpacker.tla` | bytes to packets, however they are divided into reads |
| `Hpack.tla`, `Huffman.tla`, `Commands.tla` | packets to commands and back |
| `MC*.tla`, `MC*.cfg` | instances for TLC; `MCCloses`, `MCInbound`, `MCCodecs` and `MCParts` check several modules in one run |
| `SpiderProofs.tla`, `ToursProofs.tla`, `MonitorsProofs.tla`, `WarpProofs.tla`, `CgiPoolProofs.tla`, `FlowProofs.tla`, `InboundProofs.tla`, `PartsProofs.tla` | TLAPS proofs |
| `PROJECT.json` | components, runs, mutants, the map from definitions to source lines, hazards, theorems |

## 1. Inventory

### The system

A BayServer process reads a plan file, opens its ports and forks one child
process for every *grand agent*. (`harbor.multi_core` is a method that every caller
tests without calling it, so the condition is always true: the thread mode of the same
code is never taken.) An agent is single threaded and asynchronous (README.md:
"operates as a single-threaded, asynchronous server"): it waits in `select`, turns
readiness into *letters*, and handles the letters one after another. Other
threads exist only beside that loop: one monitor thread per agent in the parent, taxi
and job threads for blocking files and processes, and the asyncio thread of HTTP/3.

    monitor (parent) --pipe--> CommandReceiver
                                    |
     Port --accept--> GrandAgent loop <--letters-- multiplexers (spider, spin, taxi, job)
                                    |
                  Transporter (plain, secure)       upcalls: on_connected, on_read,
                                    |               on_closed, listeners of write units
                    InboundShip / WarpShip / CGI and file ships
                                    |
             ProtocolHandler: unpackers -> InboundHandler -> packers -> req_write
                                    |
          Tour (request + response), rented from TourStore, served by a Club:
          file, CGI, warp (proxy), WSGI, PHP

### Components

**Agent loop and Spider multiplexer** (`core/agent/grand_agent.py`,
`core/agent/multiplexer/spider_multiplexer.py`, `multiplexer_base.py`).
*State*: the rudders that have a `RudderState`; the selector's interest set of each; pending
`ChannelOperation`s; the letter queue; per rudder a queue of `WriteUnit`s, `connecting`,
`closed`; the local `busy` and the flag `aborted`. *Operations*: select and register,
connectable, acceptable, readable and writable handling, the handlers of the six letters, the
requests `req_read`, `req_write`, `req_connect`, `req_close`, `cancel_read`,
`cancel_write`, timeouts, shutdown. *Hard*: `req_close` closes the socket now and
forgets the state later, when its letter comes; listeners and `on_closed` may request
anything again while a rudder is being drained; a `send` may be partial; letters
produced by one pass are handled after state they describe has changed. *Correct
when*: each write unit is answered once, letters and units match, no stale key remains, a
requested close completes, bytes leave in order, one peer never ends the agent.

**Inbound ships, tours, HTTP/1 inbound handler** (`core/common/inbound_ship.py`,
`core/tour/*.py`, `bayserver-docker-http/.../h1/h1_inbound_handler.py`). *State*: the
pool of tours and its map of active ones by (ship id, request number); each ship's
list of tours, `need_end`, connection; each tour's state and id; the
handler's `cur_tour`, `cur_tour_id` and phase. *Operations*: header, content,
errors, end of response, callback of its write, close, abort. *Hard*: objects are pooled and
reused, so that only ids tell a tour from its successor; several parties may end a
response; a connection may close under any of them. *Correct when*: store, ships and
tours agree; an active tour always has something that will end it; every response ends
once, in the order of the requests; errors are answered.

**File and CGI dockers** (`core/docker/file/`, `bayserver-docker-cgi/`). *State*: the open
file or the process with its two pipes; a count of processes and a queue of postponed tours.
*Correct when*: the response ends once, a killed process is waited for, a freed place
starts a postponed tour.

**Response flow control** (`core/tour/tour_res.py`). *State*: bytes posted and consumed, the
buffer limit, `available`. *Correct when*: a producer that was suspended is resumed.

**Warp ships** (`core/common/warp_ship*.py`, `warp_data.py`, `docker/base/warp_base.py`).
*State*: kept and busy ships per agent, the tours they serve. *Correct when*: a ship serves one
owner, an error reaches the tour it is about, idle ships do not starve new ones.

**Object stores and packers** (`core/util/object_store.py`, `core/protocol/`). *State*: free and
active objects; the packet of a command until its write is called back. *Correct when*:
what is rented is fresh, and returned once.

**Taxi, Job and Spin multiplexers** (`core/agent/multiplexer/`, `core/taxi/`). Worker threads
that read, write and close on behalf of the agent and send it letters. *Correct when*: one
operation per rudder is in progress and its letter finds the rudder alive.

**Monitors, commands, signals** (`core/agent/monitor/`, `command_receiver.py`,
`core/agent/signal/`). *State*: `monitors`, `num_agents`, `cur_id`, `finale`, the pipes. *Correct
when*: an agent that died is replaced, at most once, unless the server shuts down; a
shutdown reaches every agent.

**Protocol modules**: HTTP/1 unpacker, HTTP/2 (streams, HPACK), HTTP/3 (over an external
library), FastCGI, AJP: buffers and parser states; chunk boundaries must not
change what is parsed.

**Configuration, cities and permissions, access log, WSGI and PHP adapters, utilities**:
sequential and mostly without state.

The list with source files and status is in `PROJECT.json` under `components`; what is hard to test,
line by line, is under `hazards`.

## 2. What is modelled

### Spider: one agent

The agent's thread is a program counter:

| `pc` | where `GrandAgent.run` is |
|---|---|
| `select` | at the head of the loop: busy switch, `_register_channel_ops`, `select` |
| `handle` | in `_handle_channel`, one key of the result after another |
| `letters` | draining the letter queue |
| `upcall` | inside a transporter's handler, or a listener of a write unit |
| `ended`, `dead` | left the loop: by shutdown, or by an uncaught exception ("Fatal Error") |

| variable | code |
|---|---|
| `rudders`, `open`, `closed` | keys of `MultiplexerBase.rudders`; sockets not closed; `RudderState.closed` |
| `registered`, `selected` | the selector's key of each rudder; what `select` returned and is not handled yet |
| `operations`, `toConnect` | `SpiderMultiplexer.operations` and their `to_connect` |
| `queue` | `RudderState.write_queue`: units as an identity and the bytes left |
| `letters` | `GrandAgent.letter_queue` |
| `caller` | the upcall in progress |
| `origin`, `asked`, `done` | history only |

One action is one handler: a letter, a ready key, a request. What a handler does after
an upcall is an action of its own (`Return...`), because the layer above may make requests *inside*
the upcall: `ReqWrite`, `ReqRead`, `UpperReqClose` and `ReqConnect` are enabled for any rudder that layer knows,
in any number and order, until the handler goes on. This is how the model stands for every
ship and protocol handler at once. The details that the properties depend on
are kept as the code has them:

* `cancel_read` unregisters the whole key, `cancel_write` leaves `{"R"}` or nothing, and
  either raises `KeyError` when an open rudder has no key;
* `_on_writable` goes through several units in a pass, and its test for "data remains"
  compares the bytes sent with what is left *after* the buffer has been cut
  (`DataRemains`, `Passes`);
* `_on_connectable` sends a connected letter even after an error letter;
* the state leaves the map before a closed rudder is drained, so that what a listener
  writes then is answered at once;
* a command is read on the agent's own thread, so `aborted` changes only between letters and
  the loop ends when it comes back to `select`.

Left out: file rudders, the TLS handshake inside a readiness event
(it looks like "nothing yet" or an I/O error), upcalls that raise `IOError`, `RudderState.end` (never set), memory usage
and certificate commands.

### Tours: ships, tours, HTTP/1 and the producers of responses

An action here is a whole upcall on the agent's thread: nothing interleaves inside it. The
multiplexer below is abstracted to what Spider shows of it: the units of a rudder are
written in order, each callback is called once, and a closed connection calls back
the units that are left.

| variable | code |
|---|---|
| `ship` | every pooled InboundShip: `ship_id`, its connection, whether it reads, `need_end`, `active_tours` |
| `tour` | every pooled Tour: state, `tour_id`, ship, content handler, the delayed error |
| `held` | the key each tour has in `TourStore.active_tour_map`, `Free` when it is in `free_tours` |
| `cur`, `body` | `cur_tour`, `cur_tour_id` and STATE_READ_CONTENT of each handler |
| `producers` | the open files and running processes that still have to end a response |
| `writes` | the callbacks of ends of responses waiting in each ship's write queue |
| `cause` | why the agent died of an uncaught exception |

`conn` is `none` for a ship in its store, then `open`, `closing` (the socket is closed,
its letter is not handled yet) and `gone` (`notify_close` found tours it could not abort; the
ship lives until the last of them ends). A chunk read before the close may still be
handled in `closing`; the model allows any number of them there. The request number within
a connection is represented by the id of its tour, which is unique too. PREPARING
and ABORTED never outlive the upcall that sets them, so they are not states of the model, but the
consequences of ABORTED (an error is not sent, the tour is returned at once) are in
`ContentRejected`.

Left out: flow control of responses (Flow), error pages written by a club (ZOMBIE), compression,
headers and their parsing, the HTTP/2 upgrade (Pools), warp tours (Warp) and WSGI (which ends its responses as a
process does), I/O errors raised while a body is posted.

### Monitors: the parent process

Three kinds of thread share `GrandAgentMonitor.monitors`, `num_agents`, `cur_id` and `finale`: the
main thread that starts the agents, one thread per monitor that waits for the end of its agent's pipe and
replaces it, and the control thread that carries out the operator's commands. `add` is cut at every point where another
thread can run (`Accepts`, `OpenPipe`, `Fork`, `Enter`, `StartMonitor`). A pipe is the sequence of
commands in it, together with the processes that hold the agent's end open: a child forked by another thread
inherits the parent's copy, so that the crash of the first agent is not seen before the second ends (`Inherited`).
An agent reads what is there: two commands together are neither of the two (`ReceiveTwo`).

### Flow: both bodies of a request

`TourReq` and `TourRes` as counters of what is posted and consumed, `available`, and the listeners; the `RudderState` of the file,
the taxis that read it and the laps of the Spin multiplexer; the letters between the worker threads and the agent. A letter may be
about a file that is closed by now. `backend` keeps the parts of a body by their offsets, so that "nothing missing and nothing
reported twice" can be read off the queue: the parts follow one another from what is consumed to what is posted. `consumed` calls the listener of a response only when the tour is *not* running
(tour_res.py:287): `Listens` says who is resumed, and the exceptions of `TransfersEnd` name who is not.

### CgiPool: processes

`Arrive` is the request at its docker, `Spawn` and `SpawnFails` its process, `Freed` the hand-over of a place to the oldest postponed
request, `Finished` the end. The agent's thread blocks in a write to a full pipe and in the wait for an exit; the variable `agent`
says for whom, and only processes and clients step meanwhile. A tour may have been rented by another request when the output of the
process of its former owner is read; `astray` and `owner` keep track. `Quiet`, the state in which nobody has anything left to do, is
written out as what the guards of the actions ask (`AgentCan`, `ProcessCan`), not with `ENABLED`, so that it can be proved about; TLC was
used to see that the two agree. The same holds of `Quiet` in Warp (`RequestCan`, `ShipCan`).

### Warp, ShipPool, RecordWarp: backends

Warp has the keep and busy lists, each ship's connection and backend, the request it carries, and the clients' tours.
`ShipPool` is what a request may rely on: `Lend` gives out an idle or a new connection, never one that another has or that is being
closed, `Refuse` only at the limit. `Pool == INSTANCE ShipPool WITH ...` maps the lists and the tour map to it (`Asked`, `Idle`, `LentTo`,
`Leaving`); the run checks `Pool!Spec` and WarpProofs proves it. RecordWarp has what FastCGI and AJP records do to one kept connection, chiefly what one request
leaves behind for the next (`line`, `cut`). A client may read on after the connection has been closed, and a piece of a body may be written after
an early answer has returned its tour: both raise `Sink` on the agent's thread (`ClientReads`, `Unheard`).

### Inbound, H2Inbound, FcgInbound, AjpInbound

Inbound is what the three handlers share: a tour per key, posting and refusing of bodies, answers that race them, the write queue, the
close. Each of the others is the handlers of one protocol's commands over it. Every way in which a tour may be left without an end,
a request without an answer or the agent without its thread is written into `TourHasEnd`, `Answered` and `DeathsExplained`
of the module; `marks` records which of them a behaviour has met. Key 1 stands for the tour `DUMMY_KEY` of AJP; key 0 is nobody's
(a FastCGI record with it is refused, an HTTP/2 frame with it is about the connection).

### H3: two threads

The asyncio loop of a port handles the library's events and the coroutines posted to it; the agent's thread handles the letters of what produces
the responses. The library (aioquic) is not under `src/`: it is taken to deliver the events of a stream in order.

| variable | code |
|---|---|
| `tour` | the tour `TourStore` has under each stream, and which of the pooled objects it is (`obj`) |
| `spoilt` | pooled objects that went back to the store and were then marked as ended |
| `prod` | the file, process or backend that produces the response, with the length of body its request declared; a process or backend is started by `tour.go`, so it may answer before the body has come, or waits for a slot |
| `body` | units of a body that its backend's connection has still to write; each write calls `TourReq.consumed` |
| `coros` | the coroutines posted by `call_soon_threadsafe`, each with the listener it calls |
| `agent`, `loop` | where each thread is inside a method both run on the same tour |
| `blunders`, `lost` | history: what has gone wrong on a stream, and whose resumption was missed |

Elsewhere a step is one event, coroutine or letter. Where the two threads read and write the same fields without a lock, it is one access:
`consumed` is `Counts`, `LooksForRoom`, `Frees`, `Resumes`; `send_res_content` is `SendsContent`, `ChecksBuffer`, `ClearsAvailable`, `Answers`, and
`Suspends` is the agent's SUSPEND that follows; `end_res_content` is `EndsTour`, `ChecksReturned`, and `change_state`'s check (`ChecksId`) and
assignment (`ChangesState`). What comes of it:

* a resumption is missed in three ways (`lost`): it comes before the producer is suspended; `available` is cleared although room has been made
  since the buffer was looked at (tour_res.py:215-216); or it is set although the agent has cleared it since it was read (tour_res.py:278-280);
* a tour that is returned between check and assignment (tour.py:164-165) leaves a pooled object ENDED, and the next `init` of it raises; if
  another stream has rented it by then, that stream's tour is marked as ended;
* a backend's error ends its tour without a check of the id, so that the listener may return the tour of another stream (`robbed`);
* a backend that answers before it has been sent the whole body, over a tour that is then returned, ends the agent's thread when the next unit is
  written (warp_data.py:45, tour_req.py:204): the fourth cause in `DeathExplained`.

Left out: the first stream, whose number as a key coincides with that of a tour in the store; trailers for a tour whose `init` has failed; chunks that a
FastCGI backend's handler posts without a check of the id; compression.

H3, RecordWarp, AccessLog, Startup and Pools share the run MCParts: a behaviour is of one of them (`which`), the variables of the others
are idle. MCParts extends Pools and instantiates the others.

### Pools: pooled objects

An action is a letter or a call by a tour's producer. Ships, handlers and packets are numbers in their stores; a write unit carries
the packet and the ship it was posted by with its id at that time. `early`, `unfit` and `crossed` record the three ways in which an object
comes to act for another connection, which `Pooled` excepts by name.

### AccessLog, Startup, PlanFile

AccessLog: the lines handed over by the agent and by an HTTP/3 loop (`at` is where each is in `req_write`), the taxis that write
them, the file's buffer and the disk. Startup: plans, addresses, parents and children; a child loads the plan again, and a socket it inherits
is matched to a port of what it loaded. PlanFile: the recursive descent of `BcfParser` as a stack, with the one list of columns that all levels share.

### Routing, Unpackers, H1Unpacker, Hpack, Huffman, Commands

What the server computes without waiting. Each has the algorithm step by step and, beside it, a reference definition
that does not share its structure: the closest town by its name, and where a path that exists nowhere is rerouted (Routing), the client's messages (Unpackers, H1Unpacker), the fields as the
encoder had them (Hpack), the text (Huffman), the message that was packed (Commands), the nesting by columns
(PlanFile). Inputs are cut into reads in every way where the code keeps state between reads. Where the code does not do what
its reference says, the exception is in the property, by name: an HTTP/2 frame without payload waits for the next
read; of an HTTP/1 request that was refused with its body to come, a piece that overshoots the declared length never ends it
(h1_inbound_handler.py:277), and what is pipelined behind is taken for its content; a NUL in a Huffman string is lost with what follows; AJP counts characters where the protocol counts bytes; an HTTP/1 value that begins
with a space is read without it. `CommandsAgree` and `HuffmanDecodes` are equivalences: what is not excepted is read back, and what is
excepted is not.

## 3. Runs

Passing runs check the design; each property has a mutant in `PROJECT.json`: a plausible bug in a
mapped definition, which the run must detect.

| run | properties | what it asks |
|---|---|---|
| `spider_safety` | `TypeOK`, `UnitsAnswered`, `SelectableAreOpen`, `InboundWithinMaxShips` | letters and units match under any mix of partial, whole and failing sends, and each listener is called once; nothing closed is selectable; ports keep inbound connections within `max_ships`, but for one late client per further port |
| `tours_safety` | `PoolConsistent`, `ToursHaveEnds`, `EndedOnce` | store, tours and ships agree; an active tour is being read, or has a producer, or its end is queued; a response ends once |
| `closes` | `CloseCompletes`, `ClosedShipsEnd` | liveness: a close that was requested is carried out unless the agent stops; a ship closed under tours that cannot be aborted goes back to its store |
| `monitors` | `Staffing`, `Watched`, `FinaleReachesAll`, `ToldAgentsEnd`, `StaffedAgain` | never too many agents (unless three share an id), each watched; a shutdown reaches all; told agents end; dead ones are replaced and the server comes back to its full size, ports' agents included, but for as many as the ports' agents hide (grand_agent_monitor.py:106) |
| `flow` | `Accounted`, `NoLostResume`, `TransfersEnd` | chunks are reported once; whoever is suspended has something queued that will resume him; transfers end |
| `cgi` | `SlotsKept`, `AnswersOwn`, `NothingLeftUndone` | places are counted and handed on; output goes to its own request; the only ways to wait for ever are those named |
| `warp` | `StoreKept`, `AnswersMatch`, `DeathsExplained`, `NothingLeftUndone`, `ImplementsPool` | store, tours and connections are in step, answers reach their requests, and the store implements ShipPool |
| `inbound` | `TourHasEnd`, `DeathsExplained`, `Answered` | tours, deaths and answers of HTTP/2, FastCGI and AJP connections |
| `codecs` | `RoutedAsDeclared`, `PacketsWhole`, `RequestsWhole`, `HeadersAgree`, `PlanAsIndented`, `CommandsAgree` | each algorithm against its reference |
| `parts` | `StreamsServed`, `ThreadDeathsExplained`, `RecordsAnswered`, `LogKept`, `Started`, `Pooled` | H3, RecordWarp, AccessLog, Startup, Pools, one at a time |

Many of these properties have the form "P, but for A, B and C": the code has exceptions to what one would like it to promise, and the
property states them so that a new exception is found. Two runs record where the code does something other than what the
repository says; each has an entry under `findings`:

| run | property | what TLC finds |
|---|---|---|
| `tours_early_response` | `BodyNeverOutlivesTour` | a process that answers before it has been sent the body: the rest of the body meets a returned tour, and the agent ends (tour.py:175) |
| `h1_header_cut` | `HeaderEndsAtEmptyLine` | a read that ends inside the CR LF of a header line: `line_len` is local to `bytes_received`, so the line feed that comes next is taken for the empty line (h1_packet_unpacker.py:56) |

### Known deviations without a run of their own

Seen while modelling; the models have them, as exceptions in properties or as branches.

* Agent: a `send` that takes at least half of a unit counts as complete, so bytes of the next unit overtake the rest
  (spider_multiplexer.py:486); a read that suspends and a write that empties the queue in one pass end the agent, because `cancel_write` looks
  for the key `cancel_read` has removed (spider_multiplexer.py:173); `cancel_read` drops the write interest of a rudder whose queue is not empty;
  one refused client closes the listening socket (grand_agent.py:358).
* HTTP/1: reading goes on after a body, so that a pipelined request may be answered first (h1_inbound_handler.py:284); an error met at
  the end of a body aborts the tour first and is then never sent (h1_inbound_handler.py:292); when the tours are used up, the path that answers
  503 needs one itself and ends the agent; after a request without a body the rest of the read is dropped.
* CGI: the tour of a killed process is returned before `process_finished` (cgi_req_content_handler.py:109).
* HTTP/2: CONTINUATION, PUSH_PROMISE and unknown frames raise a RuntimeError that ends the agent; the packet of the preface is not
  returned when its handling raises. FastCGI: what a handler returns as next action is lost. The warp handler takes a prefix of one character for
  SCRIPT_FILENAME (fcg_warp_handler.py:296). AJP: SHUTDOWN calls a method that does not exist (ajp_inbound_handler.py:256); packets above 8192
  bytes are not split.
* Monitors: `cur_id` is raised and read in two steps (grand_agent_monitor.py:123), so that two threads may give their agents one id and one
  entry. Three that share an id can leave two monitors waiting for one agent; when it dies each finds an entry to delete, that of the
  third, and each starts another (`Tripled`). The attempt to prove `NeverOverstaffed` without that exception found this.
* Monitors: `agent_aborted` compares all monitors that are left, those of ports' agents included, with the number of grand agents: with one agent of a
  port, a grand agent that dies is not replaced (grand_agent_monitor.py:106). `StaffedAgain` asks for the full size and has this as its exception.
* HTTP/3: trailers start a tour a second time; when the tours are used up a method is called that does not exist; `stop_sending` leaves the tour rented.
* Log: lines get no line feed; a value that is missing is logged as `None`; a taxi may find no line to write.
* Startup: when the pid file cannot be written after the agents have started, a fatal error is logged and the agents serve on; an agent that
  replaces a crashed one loads the plan as it is by then.

### Bounds

* **spider_safety**: two ports, three connections, two units of three bytes; `MaxShips = 3`, so that the agent becomes busy and
  free again and a client may come late through the other port; `MaxLetters = 2` caps the close requests
  that the layer above may let pile up within one upcall, enough for a second close of
  the same rudder before the first letter. Three bytes are the least for which a partial send can be both below and above
  half of a unit; two units are the least for which order, or a pass over several units, means
  anything. Connections and units are each treated alike, so symmetry is sound (no liveness here).
* **tours_safety**: two pooled ships over three connections, two tours over three requests (`MaxShipIds`,
  `MaxTourIds`): one more of each than there are objects, so that ships and tours
  are reused while something still refers to their former life.
* **closes**: one port, two connections, one unit of one byte; one ship, two connections, three requests. No symmetry.
* **monitors**: one grand agent, one agent of a port, ids up to three (two and one replacement), one crash, two commands. Two agents
  are the least that can take one id or inherit each other's pipe, two commands the least that can be read together.
* **flow**: two tours, whose files and letters cross; a buffer of one, a file of three reads, a body of two chunks, chunks of at most two, one file that
  grows, one failing read: the least for which a producer is suspended, resumed and suspended again.
* **cgi**: four requests, two dockers with one slot each, pipes of one chunk, bodies of two, outputs of one: one running and one postponed
  request for each docker, and a body that does not fit the pipe.
* **warp**: two requests of any kind with one fault, or three without, over at most two ships; three requests are the
  least that queue for two ships and reuse one (MCWarp says which methods the third may have).
* **inbound**: two keys, bodies of two chunks, seven commands: a whole request on one stream while another is answered, refused or closed.
* **codecs**: URIs of up to three elements, layouts of one and two towns, two messages or three requests in any division into reads, header tables
  of three entries and numbers of radix two (so that each prefix overflows), plans of four lines in three columns, every byte as a Huffman symbol and texts
  of three.
* **parts**: H3 two streams over one tour, so that its object is rented again while the agent still refers to it, three events of the client (a request
  with its body and one of another stream; the two threads' own steps are not bounded by it), two chunks and a buffer of one: the least for which a
  producer is suspended, resumed and suspended again; RecordWarp two requests, one fault; AccessLog two taxis, three lines; Startup the plans in
  MCParts, two agents, one crash; Pools two connections, two requests. The symmetry is between the streams and between the connections.
* `CHECK_DEADLOCK FALSE`: an agent may end, an input is used up, and the counters that the bounds
  cap run out.

### Fairness

* Spider: `WF_vars(Run)`, the steps the agent's thread takes by itself. `select` has a timeout and upcalls return, so
  the thread is never parked for good. Requests, peers and the arrival of clients are not fair. Nothing more is needed
  because letters are drained in order, before the next `select`.
* Tours: weak fairness of `OnClosed` (the ClosedLetter is in the queue and the thread drains it) and of the end of each
  producer. The second is an assumption about what is outside the module: a file is
  finite, a process ends or is killed by its timeout (NEWS.md:39). It holds of responses that fit the buffer of the
  tour; Flow says what becomes of the others.
* MCCloses states the fairness of both again, because a behaviour of it is of one of the two.
* Flow: weak fairness, for each tour, of the worker's read, of the agent's letters, of the network's writes and of the consumer's reports.
  A peer that neither reads nor disconnects is outside `TransfersEnd`.
* Monitors: weak fairness of each thread of the parent and of each agent that has a command to obey. Crashes and commands are not fair.

## 4. Proofs

TLAPS proves the following for every value of the constants that satisfies the module's assumption
(`SpiderAssumption`, `ToursAssumption`, `MonitorsAssumption`, `WarpAssumption`, `CgiPoolAssumption`, `FlowAssumption`, `InboundAssumption`, `PoolsAssumption`,
`LogAssumption`, `RecordsAssumption`): the sets are finite and disjoint where they must be, numbers are natural, null constants are not members; the keys of an
inbound connection are positive and 1 is one of them (`check_req_id` refuses `FCGI_NULL_REQUEST_ID`; `DUMMY_KEY` of AJP); the buffer of a tour holds at
least one chunk (`tour_buffer_size` is positive); there is a taxi (`ThreadPoolExecutor` refuses to be made with none). Nothing else is assumed.

**SpiderProofs**

* `TypeCorrect == Spec => []TypeOK`. `TypeOK` is inductive. The content is in the arithmetic of partial sends: a pass
  never takes more bytes from a unit than it has (`SentBytesType`), and in the types of letters and upcalls.
* `NoStaleKeys == Spec => []SelectableAreOpen`. The property is not inductive: a socket is
  closed by `req_close` but keeps its state until its letter is drained, so what makes "every rudder with a state is open at
  `select`" true is that the letter exists meanwhile and that the queue is empty at `select`. The invariant `SelectInv`
  says so: `KeysAreOpen`, `CloseIsComing` (a closed rudder that has a state has a ClosedLetter in the queue),
  `CloseIsFinal` (such a letter is about a rudder that stays closed), `AcceptedAreNew` (a fresh client is open, unknown and announced
  once), `Lifecycle` (unused, known, closed, never back) and `Phases` (no letters at `select`, nothing selected outside
  `handle`).

* `WritesAreAnswered == Spec => []UnitsAnswered`. `UnitsInv` counts letters (`Times`): those of a rudder with a state are covered by its queue
  (`WroteFit`). One pass of the write loop sends at most one letter per unit, but only because none of an earlier pass is left: a rudder that
  is selected has no such letter (`NotYetWrote`), since they are drained before the next `select` and a pass uses up its selection; and a
  rudder that gets its state has none (`WroteKnown`). `QueuedOnce` and `AnsweredOrQueued` say that a unit stands in one place until its listener
  is called; `WaitAtOpen` that units wait only at rudders with a state, or at the one that is being drained, so that nothing is left when it is
  marked closed.
* `ShipsAreLimited == Spec => []InboundWithinMaxShips`. `is_busy` is looked at before `select` only, and counts rudders with a state; a client that
  was accepted has none until its letter is handled. So `ShipsInv` counts a client from the moment its port is selected: selected ports,
  announced clients and inbound rudders together (`Coming`) keep within the limit, a step moves one from each to the next, and a port has a key only
  while the agent is not busy (`PortsRest`).

**ToursProofs**

* `PoolAgrees == Spec => []PoolConsistent` and `NoSecondEnd == Spec => []EndedOnce`, from `PoolSafe == Spec => []PoolInv`.
  `PoolInv` is `TypeOK`, the two properties and three strengthenings: `BlankIsReset` (what is not live is as `reset` left it),
  `IdsAreOld` (whoever refers to a tour took the id from the counter, so a new tour never matches an old
  reference) and `CurIsOwn` (a `cur_tour` whose id still fits belongs to the same ship). The two properties need each other: a callback returns
  the tour of its unit, so units must be of live tours of their own ship; and an end is queued only for a tour that the store, the ship
  and the tour itself agree on.
* `NoOrphans == Spec => []ToursHaveEnds`, from `EndsInv` over `PoolInv`. "An active tour is being read, or has a producer, or its end is queued"
  is not inductive: when a process's tour has been read to the end, nothing would be left. Which end a tour has depends on its state
  (`HasEnd`): while it is reading, the body (`InBody`) or a producer (`Produced`), and, unless a file or an error answers it, a producer in any
  case; while it is running, a producer; once ended, the queued end (`Queued`). `OneId` and `ProducersOwn` say that an id means one tour,
  so that no producer ends another's tour, and an id that has been dropped is referred to by nobody (`DroppedAreGone`).

**MonitorsProofs**

* `MonitorsTyped == Spec => []TypeOK` and `AgentsAreWatched == Spec => []Watched`. `Watched` speaks of what holds once `add` has
  finished, so the invariant `WatchInv` says what holds while it runs, on any number of threads: a process being added belongs to one thread and has
  no monitor that runs (`NewAreNew`); an entry is under the id of its process (`EntriesFit`); between the entry and `start()` only a
  twin can have replaced the entry (`EnteredIsFound`); a monitor's thread reads the pipe of its own process or of a twin
  (`ReadersOwn`), so that the entry it deletes when it sees the end is never that of an agent that runs alone under its id. Fifteen of the
  actions only move a thread or end a process: `AsideKeepsRules` deals with them at once; `OpenPipe`, `Fork`, `Enter`, `StartMonitor`
  and `Eof` have a lemma each.
* `StaffingHolds == Spec => []Staffing`. That there are never too many agents is a fact about who stands for whom. `StaffInv` adds to
  `WatchInv`: each process was added by one thread, a monitor's thread adds one at most (`Parentage`); the main thread adds no more than the plan
  has (`Within`); what a monitor's thread replaces is dead, held open by nobody and out of the table (`DeathsTaken`); and, unless three agents
  share an id, no death is taken twice (`TakenOnce`: who still waits for the same agent will find no entry). `StaffedEnough` then counts.
  Every process was opened by the main thread, which opens no more than the plan has, or by a monitor's thread: these, with the monitors'
  threads that are about to add one, map one to one into the dead agents that were taken. And a process that was opened runs, is dead, or
  still waits for its fork, one for each thread that is about to fork. So those that run and those about to be forked are no more than the
  plan. The counting rests on `FS_Injection` and `FS_Union`.
* `ShutdownReachesAll == Spec => []FinaleReachesAll`. `FinaleInv` says what holds while the command is being carried out: whoever
  runs has been told, or is in what is left of the copy of the table that the control thread works through.

**WarpProofs**

* `StoreStaysKept == Spec => []StoreKept`. What a step does to a connection depends on whom it serves, where it is listed and which request
  is forwarded to it, so `StoreInv` adds to `StoreKept`: who is served was forwarded on that connection, which is busy (`Served`); a kept
  connection is up or being closed, a busy one serves somebody or is being closed (`Listings`); who is forwarded has a connection
  (`Forwarded`). The lemmas on lists (`AppendToSet`, `RemoveAtSet`...) come first, then those on the handlers the actions are made of, each
  with what it leaves alone.
* `StoreIsAPool == Spec => ImplementsPool`: the initial states map to ShipPool's, and each step to `Refuse`, `Lend`, `GiveBack`, `Leave`, `Expire`,
  `Discard` or a stutter. Most steps change nothing the mapping sees; the others are matched by what happens to the one connection
  they are about. For every number of requests and every limit.
* `PoolPromises == Spec => []PoolInv`: for every limit, ShipPool keeps each connection in one place (idle, lent or being closed), lends it to one
  request at a time, and has no more of them than the limit. It is proved of ShipPool's steps and carried to WarpShipStore by `StoreIsAPool`.
* `AnswersStayMatched == Spec => []AnswersMatch` and `DeathsStayExplained == Spec => []DeathsExplained`, from `EndInv`. The handlers give what they read
  to the tour their connection serves, whomever it was sent to. `Conversation` is why this is right: on each connection that is still
  read, what waits in either direction is about the request it serves, at most one header is under way, and nothing is left over
  when it is kept. `BodyUnits` says whose parts of bodies may still wait, and `Endings` what the record of a request may be.
* `NothingStaysUndone == Spec => []NothingLeftUndone`, from `WaitInv` over `StoreInv`. When nobody can do more, no connection is being made or
  closed, and one that serves its first request is timed out, so a request can only be left on one that was kept (`QuietIsSwallowed`). `Ready` and `Attended` say what such a connection waits
  for: it reads, and expects a header; of the request it serves, either the header still waits to be written, with nothing but its body behind it
  (`HeaderWaits`), or an answer is owed or has arrived (`AnswerComes`), or the backend has taken the header for a part of the body before it
  (`HeaderTaken`), which is the exception. `NoneNew` says that nothing under way is about a request that has not come yet, so that what is found there is never mistaken for the new
  request's. An earlier form of the property also excepted clients that had gone; the proof did not need it, and the exception was dropped.

**CgiPoolProofs**

* `SlotsStayKept == Spec => []SlotsKept`. Counting is not enough: when a process ends, its slot goes to the *oldest* handler of the
  agent's queue, whichever docker that belongs to. `PoolInv` therefore adds who may hold a slot and who may wait: a handler that is
  postponed has neither a process nor a slot (`PostponedWait`), the request the agent is starting has no process yet and the one it waits
  for has one that is not reaped (`AtWork`), a process that is reaped has closed its outputs and one that could not be created has none
  (`Outputs`), a request that has not arrived has nothing (`Arrived`). `Limited` says that nobody is postponed where `maxProcesses` is not
  positive; TLC's instance has a limit, so only the proof asks for it. `CatchUpCases` is the point of the argument: a docker somebody waits
  for is full, hence the head of the queue finds room exactly if it waits for the docker whose process ended, and takes that slot; else the agent
  asks for the lock it holds. `PlacesOfTail` counts the places in the queue once the first is gone.
* `AnswersStayOwn == Spec => []AnswersOwn`, over the same invariant: a ship takes the id of a tour once, and nobody who has been answered
  is answered again, so output goes astray only after its request was.
* `NothingStaysUndone == Spec => []NothingLeftUndone`, from `UndoneInv` over `PoolInv`. `UnderWay` says what is still to come for a request that has
  arrived (it is postponed, being started, or has a process that is not reaped), `InOrder` in which order its process and pipes
  end. A request with a process that is not reaped is stuck in one of the ways the property names when everybody is quiet (`HolderIsStuck`); one
  without a process is postponed, hence by the counts its docker is full, hence somebody holds a slot, and he is stuck.

**FlowProofs**

* `TransfersAccounted == Spec => []Accounted` and `NobodyIsForgotten == Spec => []NoLostResume`, both from `FlowInv`, because neither is
  inductive without the other. Whether a suspended file has something in the client's queue depends on the counters: what was posted and not
  reported is at least `Buffer`, which is positive, and it is what waits. That the counters add up depends on who may post, which is
  whoever has been resumed. `FlowInv` is `TypeOK`, `Spins` (the reader of the Spin multiplexer never gets
  further than its first lap) and, for each tour, `TourInv`: the two properties' parts (`Reported`, `WillBeResumed`, and `ReadOnce` while an agent
  with taxis lives), `BodyWaits` (only a consumer that reports later has parts waiting, and all of them were posted) and `FileSent`: nothing is
  sent before a file is opened; a tour whose file is open has not ended and has no end queued; whoever is available has room; and only a
  file that is being closed is said to be (`Told`).
* `OneOutstanding` is where the worker threads come in: a letter about reading that the agent handles is the one read there is of that file, so
  the file is open, and no taxi reads it. A step changes one tour, and `AsideKeeps` is for the others. For the tour itself, `Sides` splits the
  invariant into what the request's and the response's counters say, so that a step argues about one; `ReportsKeep` serves both the
  network's writes and disconnections, and `CountAppend` and `CountTail` count letters.
* Stating it for proof showed that a conjunct of `TypeOK` said less than was meant (its layout made "consumed at
  most what was posted" of requests a hypothesis of the same for responses); it has been corrected.

**InboundProofs**

* `InboundInvariant == MCSpec => []InboundInv`: one invariant for each protocol (`H2Inv`, `FcgInv`, `AjpInv`) over what they share. Per key it
  ties the tour to what produces its response, to the queue of ends (each end waits once, `NoneTwice`) and to the two histories: what its client
  has sent, how often it was asked and answered. The protocols differ in who has a handler when: HTTP/2 may start a tour a second time, by
  trailers, so that `H2Untrailed` keeps the rules of the ordinary streams apart from the few that still hold for the others; FastCGI's
  handler has a phase of its own that the tour's state must fit (`FcgHandler`); AJP has one tour at a time (`AjpRules` is about key 1).
* `TourHasEndAlways`, `DeathsExplainedAlways`, `AnsweredAlways`: the three properties of the run, for any set of keys, bodies of any length and
  any number of commands. The exceptions they name are what `marks` and the hangs of each module (`H2Hangs`, `AjpHangs`) stand for: the proofs show that the
  lists are complete.

**PartsProofs**

* `PoolsInvariant` and `PooledAlways == MCSpec => []Pooled`. First the stores: what renting and returning do to the free list and the active
  set (`ObjectStore`). `PoolsInv` is `Held` (a ship is rented by one live connection, its handlers by one ship, each active object
  by somebody: `Lent`, `Paired`), `Lives` (each live connection has the ship that serves it, `Attended`, and the tours of a connection are its own,
  `Toured`), `Sent` (the packets in use are those of the units that wait, once each, and a unit was posted by the connection that holds it
  unless an upgrade came early) and `Crossings` (objects cross between connections, or the agent dies of it, only after such an upgrade).
* `LogInvariant` and `LogKeptAlways == MCSpec => []LogKept`, for any number of taxis and lines. `LogInv` says that one taxi or letter at most is under
  way, and is about the head of the queue (`Token`); that the disk, the file's buffer and what waits, put one after another, are the lines in the order
  in which they were queued while the file is open (`Complete`); that when a line waits somebody writes or is about to, unless a wake-up was missed
  (`Woken`), which takes a second thread (`Alone`). That no line is left when nobody can do more needs `Quiet`, which is written out as what the guards
  ask. Stating it for proof showed that `MaxTaxis` must be positive.
* `RecordsInvariant` and `RecordsAnsweredAlways == MCSpec => []RecordsAnswered`, for any number of requests and failures. `RecInv` says that the connection
  serves the one request without an end, or one that was refused while it was being sent (`Entered`), and, while the connection is up (`Exchange`),
  that the answer to that request is in one place: its head waits to be written, the backend owes it, or its records wait to be read (`Asked`, `Matched`,
  `WillEnd`); that what waits contains a record after which the request has its end; and that the records are read once the request has been sent, unless
  an AJP client's buffer is full (`ReadsOn`). `Given` is what one request has been given, and that a full buffer keeps its tour from being returned:
  without it the death of a client that reads on too late could not be told from others. An AJP record nobody asked for breaks `Asked` and
  `Matched` for good, which is why the exceptions of `AnswersMatch` need `strayed`. `Quiet` is again `~ENABLED Prompt` written out; TLC was used to see that
  the two agree.

Proofs are laid out with one lemma per group of actions (`...Step`, `...Inv`), below it the lemmas on
the operators the actions are built from, and one theorem that combines them.

Only model-checked, though invariants: `Started`, which speaks of `ENABLED`; `StreamsServed` and `ThreadDeathsExplained` of H3, whose
two threads are cut at every access to what they share. What the prover cannot reach: the
liveness properties (and `ENABLED`), and what MCCodecs checks of recursive computations over data, which would need induction.

## 5. Plan

What has been written follows the order in which the parts matter to a request: the agent's loop, the tours, flow control, the producers of
responses, the protocols, then what surrounds them. What is left:

1. The state in which nobody can do more, of Startup, written out as in CgiPool, Warp, AccessLog and RecordWarp, and a proof of the
   property that speaks of it.
2. The invariant of H3 over the accesses of its two threads, and from it `StreamsServed` and `ThreadDeathsExplained` for any number of streams.
3. `TablesAgree` of Hpack and the arithmetic of its numbers.

### Not modelled, and why

* The legacy transporters and handlers: superseded by the multiplexers, nothing creates them.
* The Job multiplexer: its accept and connect start their thread inside the function the thread should run, so it never serves a
  socket.
* WebDAV methods and directory listings of the file docker: the first are sequential file operations; the second
  cannot run (DirectoryTrain's constructor does not match that of Train).
* The TLS handshake: a readiness event in which it takes place looks to Spider like "nothing yet" or an I/O error.
* Error pages served through another tour (the ZOMBIE state), interim (1xx) answers, status lines.
* Windows of HTTP/2: the server writes without regard to one, so there is nothing to model.
* The WSGI train: a thread of its own per request, whose response ends as that of a process does in Tours.
* Arithmetic of netmasks, checks of passwords, command line options, environment variables, the text of log items, headers, messages
  and listings: sequential formatting and parsing of strings.
* aioquic and the other libraries: external, taken to deliver what they promise.
