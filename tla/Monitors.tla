------------------------------- MODULE Monitors -------------------------------
(***************************************************************************)
(* The parent process of BayServer: one GrandAgentMonitor per agent, each  *)
(* with a thread that waits for the end of its agent's pipe, replaces the  *)
(* agent and ends; the main thread, which starts the first agents; and the *)
(* control thread (SignalAgent), which sends the operator's commands.      *)
(*                                                                         *)
(* harbor.multi_core is tested as an attribute but is a method, so it is   *)
(* always true: every agent is a child process made by fork, which copies  *)
(* every descriptor the parent has open.  The parent keeps the child's end *)
(* of a pipe open until add() returns; a child forked by another thread    *)
(* meanwhile inherits it.                                                  *)
(***************************************************************************)
EXTENDS Naturals, Sequences, FiniteSets

CONSTANTS
  GrandAgents,  \* harbor.grand_agents()
  PortAgents,   \* ports that listen by themselves or are not anchored
  MaxId,        \* the last agent id add() accepts (100)
  MaxCrashes,   \* bound: agents that end by a fatal error
  MaxCommands   \* bound: commands of the operator

ASSUME MonitorsAssumption ==
  /\ GrandAgents \in Nat \ {0} /\ PortAgents \in Nat /\ MaxId \in Nat
  /\ MaxCrashes \in Nat /\ MaxCommands \in Nat

(* Every process started, counting those that replace a crashed or a       *)
(* restarted one.  add() number n starts process n and thread n.           *)
Procs == 1 .. (GrandAgents + PortAgents) * (MaxCommands + 1) + MaxCrashes
Main == 0       \* the main thread, and the parent process as a holder
NoProc == 0
Threads == {Main} \cup Procs

VARIABLES
  proc,      \* the state of each agent's process
  pipe,      \* the commands in the pipe to it
  heldBy,    \* the other processes that have the agent's end of it open
  id,        \* the agent id it was started with
  monitors,  \* GrandAgentMonitor.monitors: agent id -> process
  curId, numAgents, finale,   \* class variables of GrandAgentMonitor
  pc,        \* where each thread is
  new,       \* the process a thread is adding
  by,        \* history: the thread that added each process
  obj,       \* the monitor a thread runs
  toStart,   \* agents the main thread has still to start: of ports, others
  control,   \* the command the control thread is carrying out
  crashes,
  told,      \* history: agents that were sent CMD_SHUTDOWN
  late       \* history: threads past the test of finale at shutdown_all

vars == <<proc, pipe, heldBy, id, monitors, curId, numAgents, finale, pc, new,
          by, obj, toStart, control, crashes, told, late>>
agentVars == <<proc, pipe, heldBy, id, by, crashes>>
ruleVars == <<curId, numAgents, finale>>

(* The operator's commands: "report" stands for reloadcert and memusage,   *)
(* which iterate over monitors itself; the others iterate over a copy.     *)
LiveView == {"report"}
Copied == {"restart", "shutdown", "abort"}
WireWrong(c) == IF c \in {"restart", "shutdown"} THEN "report" ELSE c \* fault
Wire(c) == IF c = "restart" THEN "shutdown" ELSE c    \* what is sent
Commands == LiveView \cup Copied
Adding == {"add", "id", "fork", "enter", "start"}

Idle == [cmd |-> "none", copy |-> {}, done |-> {}, count |-> 0]
Running(p) == proc[p] \in {"live", "stopping"}
Registered == {monitors[n] : n \in 1 .. MaxId} \ {NoProc}
Unused == {p \in Procs : proc[p] = "none"}
Twins(p) == {q \in Procs \ {p} : proc[q] # "none" /\ id[q] = id[p]}

TypeOK ==
  /\ proc \in [Procs -> {"none", "pipe", "live", "stopping", "dead"}]
  /\ pipe \in [Procs -> Seq(Commands)]
  /\ heldBy \in [Procs -> SUBSET (Procs \cup {Main})]
  /\ id \in [Procs -> 0 .. MaxId]
  /\ monitors \in [1 .. MaxId -> Procs \cup {NoProc}]
  /\ curId \in Nat /\ numAgents \in {0, GrandAgents} /\ finale \in BOOLEAN
  /\ pc \in [Threads -> {"none", "next", "read", "test", "over"}
                        \cup Adding]
  /\ new \in [Threads -> Procs \cup {NoProc}]
  /\ by \in [Procs -> Threads]
  /\ obj \in [Threads -> Procs \cup {NoProc}]
  /\ toStart \in [ports : 0 .. PortAgents, agents : 0 .. GrandAgents]
  /\ control \in [cmd : Commands \cup {"none", "broken"}, copy : SUBSET Procs,
                  done : SUBSET Procs, count : 0 .. MaxCommands]
  /\ crashes \in 0 .. MaxCrashes
  /\ told \subseteq Procs /\ late \subseteq Threads

Init ==
  /\ proc = [p \in Procs |-> "none"]
  /\ pipe = [p \in Procs |-> <<>>]
  /\ heldBy = [p \in Procs |-> {}]
  /\ id = [p \in Procs |-> 0]
  /\ monitors = [n \in 1 .. MaxId |-> NoProc]
  /\ curId = 0 /\ numAgents = 0 /\ finale = FALSE
  /\ pc = [t \in Threads |-> IF t = Main THEN "next" ELSE "none"]
  /\ new = [t \in Threads |-> NoProc]
  /\ by = [p \in Procs |-> Main]
  /\ obj = [t \in Threads |-> NoProc]
  /\ toStart = [ports |-> PortAgents, agents |-> GrandAgents]
  /\ control = Idle
  /\ crashes = 0
  /\ told = {} /\ late = {}

Go(t, where) == pc' = [pc EXCEPT ![t] = where]

-----------------------------------------------------------------------------
(* parent_start: first the agents of the ports that have their own, then   *)
(* num_agents is set, then the others.                                     *)
StartPortAgent ==
  /\ pc[Main] = "next" /\ toStart.ports > 0
  /\ toStart' = [toStart EXCEPT !.ports = @ - 1]
  /\ Go(Main, "add")
  /\ UNCHANGED <<agentVars, monitors, ruleVars, new, obj, control, told, late>>

StartGrandAgent ==
  /\ pc[Main] = "next" /\ toStart.ports = 0 /\ toStart.agents > 0
  /\ numAgents' = GrandAgents
  /\ toStart' = [toStart EXCEPT !.agents = @ - 1]
  /\ Go(Main, "add")
  /\ UNCHANGED <<agentVars, monitors, curId, finale, new, obj, control, told, late>>

StartSignalAgent ==
  /\ pc[Main] = "next" /\ toStart.ports = 0 /\ toStart.agents = 0
  /\ Go(Main, "over")
  /\ UNCHANGED <<agentVars, monitors, ruleVars, new, obj, toStart, control, told, late>>

(* add() on any thread: cur_id is raised, then read, by two statements.    *)
NextId(t) ==
  /\ pc[t] = "add"
  /\ curId' = curId + 1
  /\ Go(t, "id")
  /\ UNCHANGED <<agentVars, monitors, numAgents, finale, new, obj, toStart,
                 control, told, late>>

After(t) == IF t = Main THEN "next" ELSE "over"

AcceptsOneMore == curId <= MaxId + 1    \* fault: off by one
Accepts == curId <= MaxId

(* "Too many agents started": SystemExit ends the thread's work.           *)
TooMany(t) ==
  /\ pc[t] = "id" /\ ~Accepts
  /\ Go(t, "over")
  /\ UNCHANGED <<agentVars, monitors, ruleVars, new, obj, toStart, control, told, late>>

OpenPipe(t) ==
  /\ pc[t] = "id" /\ Accepts
  /\ \E p \in Unused :
       /\ \A q \in Unused : p <= q
       /\ proc' = [proc EXCEPT ![p] = "pipe"]
       /\ id' = [id EXCEPT ![p] = curId]
       /\ heldBy' = [heldBy EXCEPT ![p] = {Main}]
       /\ new' = [new EXCEPT ![t] = p]
       /\ by' = [by EXCEPT ![p] = t]
  /\ Go(t, "fork")
  /\ UNCHANGED <<pipe, crashes, monitors, ruleVars, obj, toStart, control, told,
                 late>>

(* Process.start: the child gets every end the parent has open now.        *)
Fork(t) ==
  /\ pc[t] = "fork"
  /\ proc' = [proc EXCEPT ![new[t]] = "live"]
  /\ heldBy' = [q \in Procs |-> IF q # new[t] /\ Main \in heldBy[q]
                                THEN heldBy[q] \cup {new[t]} ELSE heldBy[q]]
  /\ Go(t, "enter")
  /\ UNCHANGED <<pipe, id, by, crashes, monitors, ruleVars, new, obj, toStart,
                 control, told, late>>

EntryOfCurId(t) == curId    \* fault: the class variable, not the local one
Entry(t) == id[new[t]]

Enter(t) ==
  /\ pc[t] = "enter"
  /\ monitors' = [monitors EXCEPT ![Entry(t)] = new[t]]
  /\ Go(t, "start")
  /\ UNCHANGED <<agentVars, ruleVars, new, obj, toStart, control, told, late>>

(* monitors[agt_id].start() and the return, which drops the child's end.   *)
(* The entry may be that of a twin, or gone (KeyError).                    *)
StartMonitor(t) ==
  LET m == monitors[Entry(t)] IN
  /\ pc[t] = "start"
  /\ heldBy' = [heldBy EXCEPT ![new[t]] = @ \ {Main}]
  /\ pc' = [pc EXCEPT ![t] = After(t),
                      ![new[t]] = IF m = NoProc THEN "none" ELSE "read"]
  /\ obj' = [obj EXCEPT ![new[t]] = m]
  /\ new' = [new EXCEPT ![t] = NoProc]
  /\ UNCHANGED <<proc, pipe, id, by, crashes, monitors, ruleVars, toStart, control,
                 told, late>>

-----------------------------------------------------------------------------
(* GrandAgentMonitor.run and agent_aborted.  Nothing but the answer to an  *)
(* abort is ever sent by an agent (send_command_to_monitor does not send), *)
(* so what a monitor waits for is the end of its pipe.                     *)
(* Then kill, join and del monitors[agent_id], which may be a KeyError.    *)
GoneUnjoined(p) == proc[p] \in {"stopping", "dead"}    \* fault: no join
Gone(p) == proc[p] = "dead" /\ heldBy[p] = {}

Eof(t) ==
  LET n == id[obj[t]] IN
  /\ pc[t] = "read" /\ Gone(obj[t])
  /\ monitors' = [monitors EXCEPT ![n] = NoProc]
  /\ Go(t, IF monitors[n] = NoProc THEN "over" ELSE "test")
  /\ UNCHANGED <<agentVars, ruleVars, new, obj, toStart, control, told, late>>

(* Faults the properties must notice: finale is not asked; one agent fewer. *)
ReplacesInFinale == Cardinality(Registered) < numAgents
ReplacesTooFew == ~finale /\ Cardinality(Registered) + 1 < numAgents
Replaces == ~finale /\ Cardinality(Registered) < numAgents

Test(t) ==
  /\ pc[t] = "test"
  /\ Go(t, IF Replaces THEN "add" ELSE "over")
  /\ UNCHANGED <<agentVars, monitors, ruleVars, new, obj, toStart, control, told, late>>

-----------------------------------------------------------------------------
(* The agents.  What is left in the pipe of a dead one is never read.      *)
Ended(p) ==
  /\ proc' = [proc EXCEPT ![p] = "dead"]
  /\ pipe' = [pipe EXCEPT ![p] = <<>>]
  /\ told' = told \ {p}
  /\ heldBy' = [q \in Procs |-> heldBy[q] \ {p}]

(* A fatal error in the loop: shutdown() closes the pipe and exits.        *)
Crash(p) ==
  /\ proc[p] = "live" /\ crashes < MaxCrashes
  /\ crashes' = crashes + 1
  /\ Ended(p)
  /\ UNCHANGED <<id, by, monitors, ruleVars, pc, new, obj, toStart, control, late>>

(* CommandReceiver.notify_read: one command, read on its own.              *)
OneCommand(p) == proc[p] = "live" /\ Len(pipe[p]) = 1

Receive(p) ==
  /\ OneCommand(p) /\ Head(pipe[p]) # "abort"
  /\ pipe' = [pipe EXCEPT ![p] = <<>>]
  /\ proc' = IF Head(pipe[p]) = "shutdown" THEN [proc EXCEPT ![p] = "stopping"]
             ELSE proc
  /\ UNCHANGED <<heldBy, id, by, crashes, monitors, ruleVars, pc, new, obj,
                 toStart, control, told, late>>

ReceiveAbort(p) ==
  /\ OneCommand(p) /\ Head(pipe[p]) = "abort"
  /\ Ended(p)
  /\ UNCHANGED <<id, by, crashes, monitors, ruleVars, pc, new, obj, toStart,
                 control, late>>

(* The transporter reads eight bytes: two commands make one number, which  *)
(* is no command.                                                          *)
ReceiveTwo(p) ==
  /\ proc[p] = "live" /\ Len(pipe[p]) > 1
  /\ pipe' = [pipe EXCEPT ![p] = SubSeq(@, 3, Len(@))]
  /\ UNCHANGED <<proc, heldBy, id, by, crashes, monitors, ruleVars, pc, new, obj,
                 toStart, control, told, late>>

(* The loop ends, run() returns and the process exits.                     *)
Exit(p) ==
  /\ proc[p] = "stopping"
  /\ Ended(p)
  /\ UNCHANGED <<id, by, crashes, monitors, ruleVars, pc, new, obj, toStart,
                 control, late>>

-----------------------------------------------------------------------------
(* SignalAgent.run_signal_agent and handle_command.                        *)
Command(c) ==
  /\ pc[Main] = "over" /\ control.cmd = "none" /\ control.count < MaxCommands
  /\ control' = [cmd |-> c, copy |-> Registered, done |-> {},
                 count |-> control.count + 1]
  /\ finale' = (finale \/ c \in {"shutdown", "abort"})
  /\ late' = IF finale' /\ ~finale THEN {t \in Threads : pc[t] \in Adding} ELSE late
  /\ UNCHANGED <<agentVars, monitors, curId, numAgents, pc, new, obj, toStart, told>>

Left == IF control.cmd \in LiveView THEN Registered \ control.done
        ELSE control.copy \ control.done
Changed == control.cmd \in LiveView
           /\ Cardinality(Registered) # Cardinality(control.copy)

(* monitor.send: the command is written to the pipe.                       *)
Send(p) ==
  /\ control.cmd \in Commands /\ p \in Left /\ ~Changed /\ ~Gone(p)
  /\ pipe' = [pipe EXCEPT ![p] = IF proc[p] = "dead" THEN @
                                 ELSE Append(@, Wire(control.cmd))]
  /\ control' = [control EXCEPT !.done = @ \cup {p}]
  /\ told' = IF control.cmd \in {"shutdown", "abort"} /\ proc[p] # "dead"
             THEN told \cup {p} ELSE told
  /\ UNCHANGED <<proc, heldBy, id, by, crashes, monitors, ruleVars, pc, new, obj,
                 toStart, late>>

(* EPIPE, or "dictionary changed size during iteration": the exception     *)
(* ends the loop of the control thread for good.                           *)
Breaks ==
  /\ control.cmd \in Commands
  /\ Changed \/ \E p \in Left : Gone(p)
  /\ control' = [control EXCEPT !.cmd = "broken"]
  /\ UNCHANGED <<agentVars, monitors, ruleVars, pc, new, obj, toStart, told, late>>

Done ==
  /\ control.cmd \in Commands /\ Left = {} /\ ~Changed
  /\ control' = [control EXCEPT !.cmd = "none", !.copy = {}, !.done = {}]
  /\ UNCHANGED <<agentVars, monitors, ruleVars, pc, new, obj, toStart, told, late>>

-----------------------------------------------------------------------------
Add(t) == NextId(t) \/ TooMany(t) \/ OpenPipe(t) \/ Fork(t) \/ Enter(t) \/ StartMonitor(t)
MainStep == StartPortAgent \/ StartGrandAgent \/ StartSignalAgent \/ Add(Main)
MonitorStep(t) == Eof(t) \/ Test(t) \/ Add(t)
Obey(p) == Receive(p) \/ ReceiveAbort(p) \/ ReceiveTwo(p) \/ Exit(p)
ControlStep == (\E p \in Procs : Send(p)) \/ Breaks \/ Done

Next ==
  \/ MainStep
  \/ \E t \in Procs : MonitorStep(t)
  \/ \E p \in Procs : Crash(p) \/ Obey(p)
  \/ (\E c \in Commands : Command(c)) \/ ControlStep

(* The threads of the parent and the processes are scheduled by the system *)
(* and none waits for another; crashes and commands need not happen.       *)
Fairness ==
  /\ WF_vars(MainStep) /\ WF_vars(ControlStep)
  /\ \A p \in Procs : WF_vars(MonitorStep(p)) /\ WF_vars(Obey(p))

Spec == Init /\ [][Next]_vars /\ Fairness

-----------------------------------------------------------------------------
Twinned == \E p \in Procs : Twins(p) # {}

(* Every agent that runs has a monitor of its own waiting for its end,     *)
(* once the thread that started it has finished add(), unless a second     *)
(* thread took the same id meanwhile: the two would share one entry.       *)
Watched ==
  \A p \in Procs : Running(p) =>
    \/ Twins(p) # {}
    \/ \E t \in Threads : new[t] = p
    \/ monitors[id[p]] = p /\ pc[p] = "read" /\ obj[p] = p

(* Three agents share an id: two monitors that wait for the same agent may *)
(* then both find an entry to delete, that of the third, and replace it.   *)
Tripled == \E p \in Procs \ Unused : \E q, r \in Twins(p) : q # r

(* However the deaths, the replacements and the first starts interleave,   *)
(* the parent never has more agents than the plan asks for, unless three   *)
(* of them share an id.                                                    *)
NeverOverstaffed ==
  Tripled \/ Cardinality({p \in Procs : Running(p)})
               + Cardinality({t \in Procs : pc[t] \in {"add", "id", "fork"}})
             <= GrandAgents + PortAgents

(* The parent's tables are what they should be and never too full.         *)
Staffing == TypeOK /\ NeverOverstaffed

(* After shutdown_all or abort_all every agent that still runs has been    *)
(* told, or the sending has failed half way, or it was started by a thread *)
(* that had tested finale before, or it shares its id.                     *)
FinaleReachesAll ==
  finale /\ control.cmd = "none" =>
    \A p \in Procs : Running(p) => p \in told \/ Twins(p) # {} \/ by[p] \in late

(* An agent told to end ends, if no second command reaches its pipe before *)
(* it has read the first: read together the two are lost.                  *)
ToldAgentsEnd ==
  \A p \in Procs :
    [](Len(pipe[p]) <= 1) => (p \in told ~> proc[p] = "dead")

(* An agent that dies is replaced and the server comes back to its full    *)
(* size, agents of ports included, but for those whose monitor has left    *)
(* them unreplaced: there are at most as many of these as ports with an    *)
(* agent of their own, because agent_aborted() compares all that are left, *)
(* of either kind, with the number of grand agents alone.  What is missing *)
(* for good may be a grand agent or the only agent of a port: a            *)
(* replacement is always a grand agent.  Assumed: the server is not        *)
(* shutting down, the ids have not run out, no two agents share an id, and *)
(* no other child holds the end of a dead agent's pipe open, so that its   *)
(* monitor sees it die.                                                    *)
Inherited == \E p \in Procs : proc[p] = "dead" /\ heldBy[p] \ {Main} # {}
Size == Cardinality({p \in Procs : Running(p)})
Unreplaced == {t \in Procs : pc[t] = "over" /\ \A p \in Procs : by[p] # t}
StaffedAgain ==
  [](~finale /\ curId <= MaxId /\ ~Twinned) /\ <>[](~Inherited)
    => <>[](/\ Size + Cardinality(Unreplaced) >= GrandAgents + PortAgents
            /\ Cardinality(Unreplaced) <= PortAgents)
=============================================================================
