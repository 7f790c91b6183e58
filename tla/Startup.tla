-------------------------------- MODULE Startup --------------------------------
(***************************************************************************)
(* From the plan to agents that serve: BayServer.start in the parent, which*)
(* opens the ports and starts a process for each agent, and again in each  *)
(* child, which loads the plan once more and finds among its ports the one *)
(* each inherited socket belongs to.  Children are forked, with the        *)
(* parent's port list, or spawned, with an empty one.  A port of HTTP/3    *)
(* has an agent and a thread of its own and no socket of the parent's.     *)
(* The monitors' races are in Monitors; here an agent is replaced in one   *)
(* step, and what a replacement serves is the question.                    *)
(***************************************************************************)
EXTENDS Naturals, Sequences, FiniteSets, SequencesExt, FiniteSetsExt

CONSTANTS
  Plans,        \* plan files
  Edits,        \* those the first may be replaced with
  Occupied,     \* sets of addresses that may be in use by others
  GrandAgents,  \* harbor.grand_agents()
  MaxId,        \* the last agent id add() accepts (100)
  MaxCrashes    \* bound: agents that crash

VARIABLES
  fork,     \* how processes are started
  plan,     \* the plan file
  inUse,    \* addresses others have
  phase,    \* of the parent: "load", "open", "agents", "end", "up" or "failed"
  ports,    \* its port_docker_list
  opened,   \* its anchorable_port_map: indexes into ports, in order
  toStart,  \* agents the parent has still to start
  agents,   \* agent id -> its process
  curId,    \* GrandAgentMonitor.cur_id
  finale,   \* GrandAgentMonitor.finale
  edited,   \* history: the plan has been edited
  crashes

parent == <<phase, ports, opened, toStart>>
vars == <<fork, plan, inUse, parent, agents, curId, finale, edited, crashes>>

(* Agents.  self is the index of the port an agent listens on itself.      *)
NoPort == 0
Agent(self) == [self |-> self, state |-> "starting", serves |-> <<>>, told |-> FALSE, reaped |-> FALSE]

Init ==
  /\ fork \in BOOLEAN /\ plan \in Plans /\ inUse \in Occupied
  /\ phase = "load" /\ ports = <<>> /\ opened = <<>> /\ toStart = 0
  /\ agents = <<>> /\ curId = 0 /\ finale = FALSE
  /\ edited = FALSE /\ crashes = 0

-----------------------------------------------------------------------------
(* The parent.                                                             *)
(* A port is [proto, form, host, number]: UDP is for HTTP/3 only, and only *)
(* UDP is.  The harbor's multiplexers are given by names it knows.         *)
Valid(port) == (port.proto = "h3") = (port.form = "udp") /\ (port.form = "unix" \/ port.number > 0)
KeysValid(p) == p.logMultiplexer # "unknown"
Loads(p) == p.harbor /\ KeysValid(p) /\ \A i \in DOMAIN p.ports : Valid(p.ports[i])
SelfListen(port) == port.proto = "h3"
Selves == {i \in DOMAIN ports : SelfListen(ports[i])}
Others == {i \in DOMAIN ports : ~SelfListen(ports[i])}

(* load_plan; what is missing or invalid is fatal.                         *)
Load ==
  /\ phase = "load"
  /\ ports' = plan.ports
  /\ phase' = IF Loads(plan) /\ plan.ports # <<>> THEN "open" ELSE "failed"
  /\ UNCHANGED <<fork, plan, inUse, opened, toStart, agents, curId, finale, edited, crashes>>

(* open_ports.  A Unix socket replaces whatever has its path.  An address  *)
(* that is taken ends the start before there are agents.                   *)
Address(i) == <<ports[i].form, ports[i].host, ports[i].number>>
Taken(i) == ports[i].form = "tcp" /\ (Address(i) \in inUse \/ \E j \in Range(opened) : Address(j) = Address(i))

OpenPort ==
  /\ phase = "open" /\ Others \ Range(opened) # {}
  /\ LET i == Min(Others \ Range(opened)) IN
     IF Taken(i) THEN phase' = "failed" /\ UNCHANGED opened
     ELSE opened' = Append(opened, i) /\ UNCHANGED phase
  /\ UNCHANGED <<fork, plan, inUse, ports, toStart, agents, curId, finale, edited, crashes>>

PortsOpen ==
  /\ phase = "open" /\ Others \subseteq Range(opened) /\ phase' = "agents"
  /\ toStart' = Cardinality(Selves) + GrandAgents
  /\ UNCHANGED <<fork, plan, inUse, ports, opened, agents, curId, finale, edited, crashes>>

(* parent_start: the agents of HTTP/3 ports, in order, then the others.    *)
(* multi_core is a method and always true: no agent is a thread.           *)
StartAgent ==
  /\ phase = "agents" /\ toStart > 0 /\ toStart' = toStart - 1
  /\ curId' = curId + 1
  /\ LET due == {i \in Selves : \A n \in DOMAIN agents : agents[n].self # i} IN
     agents' = Append(agents, Agent(IF due = {} THEN NoPort ELSE Min(due)))
  /\ UNCHANGED <<fork, plan, inUse, phase, ports, opened, finale, edited, crashes>>

(* A pid file that cannot be written is logged as fatal, but the exit then *)
(* waits for the processes that have been started: they serve on.          *)
FinishStart ==
  /\ phase = "agents" /\ toStart = 0
  /\ phase' = "up"
  /\ UNCHANGED <<fork, plan, inUse, ports, opened, toStart, agents, curId, finale, edited, crashes>>

-----------------------------------------------------------------------------
(* The children.                                                           *)

(* port_docker_list of a forked child starts with the parent's.            *)
Known == IF fork THEN ports \o plan.ports ELSE plan.ports

(* A log docker asks harbor.log_multiplexer(), which is a number when the  *)
(* plan sets it.                                                           *)
LogBreaks == plan.logMultiplexer # "unset" /\ plan.log

(* child_start: the first port of the same number, or of the same path.    *)
(* Mutant: of the same number, whatever it is.                             *)
SameNumber(port, of) == port.number = of.number
Matches(port, of) ==
  IF of.form = "unix" THEN port.form = "unix" /\ port.host = of.host
  ELSE port.form = "tcp" /\ port.number = of.number
Found(i) == SelectInSeq(Known, LAMBDA p : Matches(p, ports[i]))
Serves == [c \in DOMAIN opened |-> IF Found(opened[c]) = 0 THEN 0 ELSE Known[Found(opened[c])]]

Fails(a) ==
  \/ ~Loads(plan) \/ LogBreaks
  \/ IF a.self = NoPort
     THEN opened = <<>> \/ \E c \in DOMAIN opened : Found(opened[c]) = 0
     ELSE a.self \notin DOMAIN Known

(* The agent of an HTTP/3 port starts a thread, which ends if it cannot    *)
(* bind the port; on another port listen() does nothing.                   *)
Listens(a) ==
  LET port == Known[a.self] IN
  /\ SelfListen(port) /\ <<"udp", "::", port.number>> \notin inUse
  /\ \A n \in DOMAIN agents : agents[n].self # NoPort /\ agents[n].state \in {"up", "hung"} =>
       \A s \in DOMAIN agents[n].serves : agents[n].serves[s].number # port.number

StartsChild(n) ==
  /\ agents[n].state = "starting"
  /\ LET a == agents[n]
         served == IF a.self = NoPort THEN Serves
                   ELSE IF Listens(a) THEN <<Known[a.self]>> ELSE <<>>
     IN agents' = IF Fails(a) THEN [agents EXCEPT ![n].state = "dead"]
                  ELSE [agents EXCEPT ![n].state = "up", ![n].serves = served]
  /\ UNCHANGED <<fork, plan, inUse, parent, curId, finale, edited, crashes>>

(* An exception in the loop: the process ends at once.                     *)
Crash(n) ==
  /\ agents[n].state = "up" /\ crashes < MaxCrashes /\ crashes' = crashes + 1
  /\ agents' = [agents EXCEPT ![n].state = "dead"]
  /\ UNCHANGED <<fork, plan, inUse, parent, curId, finale, edited>>

(* CMD_SHUTDOWN: the loop ends and so does its thread, but the process     *)
(* waits for the thread of the HTTP/3 server, which does not.              *)
Ends(a) == IF a.self # NoPort /\ a.serves # <<>> THEN "hung" ELSE "dead"
EndAgent(n) ==
  /\ agents[n].state = "up" /\ agents[n].told
  /\ agents' = [agents EXCEPT ![n].state = Ends(agents[n])]
  /\ UNCHANGED <<fork, plan, inUse, parent, curId, finale, edited, crashes>>

-----------------------------------------------------------------------------
(* agent_aborted: the monitor hands self_listen to add() in the place of   *)
(* anchorable: whatever its agent was, the new one is a plain one.  Here   *)
(* monitors wait until the parent has started (see Monitors).              *)
Monitors == {n \in DOMAIN agents : ~agents[n].reaped}

Reap(n) ==
  /\ phase = "up" /\ agents[n].state = "dead" /\ ~agents[n].reaped
  /\ LET gone == [agents EXCEPT ![n].reaped = TRUE, ![n].serves = <<>>, ![n].told = FALSE]
         short == ~finale /\ Cardinality(Monitors) - 1 < GrandAgents
     IN /\ agents' = IF short /\ curId < MaxId THEN Append(gone, Agent(NoPort)) ELSE gone
        /\ curId' = IF short /\ curId <= MaxId THEN curId + 1 ELSE curId
  /\ UNCHANGED <<fork, plan, inUse, parent, finale, edited, crashes>>

(* The operator.                                                           *)
Tell == agents' = [n \in DOMAIN agents |-> [agents[n] EXCEPT !.told = @ \/ ~agents[n].reaped]]
EditPlan ==
  /\ phase = "up" /\ ~edited /\ edited' = TRUE
  /\ plan' \in Edits \ {plan}
  /\ UNCHANGED <<fork, inUse, parent, agents, curId, finale, crashes>>
Restart ==
  /\ phase = "up" /\ ~finale /\ edited /\ \A n \in DOMAIN agents : ~agents[n].told
  /\ Tell
  /\ UNCHANGED <<fork, plan, inUse, parent, curId, finale, edited, crashes>>
Shutdown ==
  /\ phase = "up" /\ ~finale /\ finale' = TRUE /\ Tell
  /\ UNCHANGED <<fork, plan, inUse, parent, curId, edited, crashes>>

Prompt ==
  \/ Load \/ OpenPort \/ PortsOpen \/ StartAgent \/ FinishStart
  \/ \E n \in DOMAIN agents : StartsChild(n) \/ EndAgent(n) \/ Reap(n)
Next ==
  \/ Prompt \/ EditPlan \/ Restart \/ Shutdown
  \/ \E n \in DOMAIN agents : Crash(n)

-----------------------------------------------------------------------------
(* Properties.                                                             *)
TypeOK ==
  /\ phase \in {"load", "open", "agents", "up", "failed"}
  /\ Range(opened) \subseteq Others /\ Len(agents) <= MaxId /\ curId \in 0 .. MaxId + 1
  /\ \A n \in DOMAIN agents :
       agents[n].self \in Selves \cup {NoPort}
       /\ agents[n].state \in {"starting", "up", "hung", "dead"}

(* Processes are started only when every port of the plan has been opened: *)
(* a start that fails leaves nothing behind.                               *)
AllOrNothing == agents # <<>> => phase \notin {"load", "open", "failed"} /\ Range(opened) = Others

(* Every socket is served by the docker the parent opened it for, in every *)
(* agent.  The exceptions: a port of the same number on another host comes *)
(* before it; a spawned agent is of a plan edited since.                   *)
Twin(i) == \E j \in Others : j < i /\ ports[j].form = "tcp" /\ ports[i].form = "tcp" /\ ports[j].number = ports[i].number
OwnDocker ==
  \A n \in DOMAIN agents : agents[n].state = "up" /\ agents[n].self = NoPort =>
    /\ DOMAIN agents[n].serves = DOMAIN opened
    /\ \A c \in DOMAIN opened :
         agents[n].serves[c] = ports[opened[c]] \/ Twin(opened[c]) \/ (edited /\ ~fork)

(* When there is nothing left to do, there are as many agents as the       *)
(* harbor asks for, unless the agents of HTTP/3 ports, hung ones included, *)
(* make up the number; or ids have run out, which takes a plan, or one it  *)
(* was edited from, no agent can start with.  An HTTP/3 port is served     *)
(* until its agent ends, and never after.                                  *)
CannotStart == Fails(Agent(NoPort))
Up(n) == agents[n].state = "up"
Settled == phase = "up" /\ ~ENABLED Prompt
Staffed ==
  /\ curId > MaxId => CannotStart \/ edited
  /\ Settled /\ ~finale /\ curId <= MaxId =>
       Cardinality({n \in DOMAIN agents : Up(n) /\ agents[n].self = NoPort})
         + Cardinality({n \in DOMAIN agents : agents[n].self # NoPort /\ ~agents[n].reaped}) >= GrandAgents
  /\ Settled => \A i \in Selves : Cardinality({n \in DOMAIN agents : agents[n].self = i}) = 1

(* After shutdown every process ends, but those of HTTP/3 ports.           *)
ShutDown ==
  Settled /\ finale => \A n \in DOMAIN agents :
    agents[n].state = "dead" \/ (agents[n].state = "hung" /\ agents[n].self # NoPort)

Started == TypeOK /\ AllOrNothing /\ OwnDocker /\ Staffed /\ ShutDown
=============================================================================
