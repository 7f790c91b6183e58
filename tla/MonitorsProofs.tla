---------------------------- MODULE MonitorsProofs ----------------------------
(***************************************************************************)
(* Machine-checked facts about Monitors, for every number of agents, ids,  *)
(* crashes and commands: the state stays well typed, every agent that runs *)
(* is watched, there are never more than the plan asks for, and a shutdown *)
(* reaches all of them.                                                    *)
(***************************************************************************)
EXTENDS Monitors, FiniteSetTheorems, TLAPS

(* What Watched rests on.  A process that was opened has an id, and a      *)
(* thread that is about to open one has raised the counter.                *)
IdsTaken ==
  /\ \A p \in Procs : proc[p] # "none" => id[p] \in 1 .. MaxId
  /\ \A t \in Threads : pc[t] = "id" => 1 <= curId

(* The process a thread is adding is nobody else's, and has no monitor     *)
(* that runs.                                                              *)
NewAreNew ==
  /\ \A t \in Threads : new[t] # NoProc <=> pc[t] \in {"fork", "enter", "start"}
  /\ \A t \in Threads : new[t] # NoProc => pc[new[t]] = "none" /\ proc[new[t]] # "none"
  /\ \A s, t \in Threads : new[s] = new[t] /\ new[s] # NoProc => s = t

UnusedAreIdle == \A p \in Procs : proc[p] = "none" => pc[p] = "none"

(* An entry of the table is under the id of its process.                   *)
EntriesFit ==
  \A n \in 1 .. MaxId : monitors[n] # NoProc =>
    id[monitors[n]] = n /\ proc[monitors[n]] # "none"

(* Between the entry and start() only a twin can replace the entry.        *)
EnteredIsFound ==
  \A t \in Threads : pc[t] = "start" =>
    monitors[id[new[t]]] = new[t] \/ Twins(new[t]) # {}

(* A monitor's thread watches the process it was made for, or a twin.      *)
ReadersOwn ==
  \A t \in Procs : pc[t] = "read" =>
    /\ obj[t] # NoProc /\ proc[obj[t]] # "none" /\ id[obj[t]] = id[t]
    /\ obj[t] = t \/ Twins(obj[t]) # {}

Rules == IdsTaken /\ NewAreNew /\ UnusedAreIdle /\ EntriesFit /\ EnteredIsFound /\ ReadersOwn
WatchInv == TypeOK /\ Rules /\ Watched

-----------------------------------------------------------------------------
(* Initially.                                                              *)

LEMMA ProcsAreNumbers == Procs \subseteq Nat \ {0}
  BY MonitorsAssumption DEF Procs

LEMMA ThreadSets == Procs \subseteq Threads /\ Main \in Threads /\ Main \notin Procs /\ NoProc \notin Procs
  BY ProcsAreNumbers DEF Threads, Main, NoProc

LEMMA InitType == Init => TypeOK
  <1> SUFFICES ASSUME Init PROVE TypeOK
    OBVIOUS
  <1> USE MonitorsAssumption, ThreadSets
  <1>1. control \in [cmd : Commands \cup {"none", "broken"}, copy : SUBSET Procs,
                    done : SUBSET Procs, count : 0 .. MaxCommands]
    BY DEF Init, Idle
  <1>2. pc \in [Threads -> {"none", "next", "read", "test", "over"} \cup Adding]
    BY DEF Init
  <1>3. pipe \in [Procs -> Seq(Commands)] /\ heldBy \in [Procs -> SUBSET (Procs \cup {Main})]
    BY DEF Init
  <1>4. toStart \in [ports : 0 .. PortAgents, agents : 0 .. GrandAgents]
    BY DEF Init
  <1>5. /\ proc \in [Procs -> {"none", "pipe", "live", "stopping", "dead"}]
        /\ id \in [Procs -> 0 .. MaxId]
        /\ monitors \in [1 .. MaxId -> Procs \cup {NoProc}]
        /\ new \in [Threads -> Procs \cup {NoProc}]
        /\ obj \in [Threads -> Procs \cup {NoProc}]
        /\ by \in [Procs -> Threads]
    BY DEF Init
  <1>6. /\ curId \in Nat /\ numAgents \in {0, GrandAgents} /\ finale \in BOOLEAN
        /\ told \subseteq Procs /\ late \subseteq Threads
    BY DEF Init
  <1>7. crashes \in 0 .. MaxCrashes
    BY DEF Init, MonitorsAssumption
  <1> QED BY <1>1, <1>2, <1>3, <1>4, <1>5, <1>6, <1>7 DEF TypeOK

LEMMA InitWatched == Init => WatchInv
  <1> SUFFICES ASSUME Init PROVE Rules /\ Watched
    BY InitType DEF WatchInv
  <1>1. \A t \in Threads : pc[t] \in {"next", "none"} /\ new[t] = NoProc
    BY DEF Init
  <1>2. \A p \in Procs : proc[p] = "none" /\ pc[p] = "none"
    BY ThreadSets DEF Init
  <1>3. \A n \in 1 .. MaxId : monitors[n] = NoProc
    BY DEF Init
  <1>4. IdsTaken /\ NewAreNew /\ UnusedAreIdle /\ EntriesFit /\ EnteredIsFound /\ ReadersOwn
    BY <1>1, <1>2, <1>3, ThreadSets
       DEF IdsTaken, NewAreNew, UnusedAreIdle, EntriesFit, EnteredIsFound, ReadersOwn
  <1>5. Watched
    BY <1>2 DEF Watched, Running
  <1> QED BY <1>4, <1>5 DEF Rules

-----------------------------------------------------------------------------
(* Types.                                                                  *)

LEMMA RegisteredType == TypeOK => Registered \subseteq Procs
  BY DEF TypeOK, Registered

LEMMA MainType ==
  ASSUME TypeOK, StartPortAgent \/ StartGrandAgent \/ StartSignalAgent
  PROVE  TypeOK'
  <1> USE MonitorsAssumption, ThreadSets
  <1> USE DEF TypeOK, agentVars, ruleVars, Go, Adding
  <1>1. CASE StartPortAgent
    <2>1. toStart.ports - 1 \in 0 .. PortAgents
      BY <1>1 DEF StartPortAgent, MonitorsAssumption
    <2>2. toStart' = [toStart EXCEPT !.ports = toStart.ports - 1]
      BY <1>1 DEF StartPortAgent
    <2>3. toStart' \in [ports : 0 .. PortAgents, agents : 0 .. GrandAgents]
      BY <2>1, <2>2
    <2> QED BY <1>1, <2>3 DEF StartPortAgent
  <1>2. CASE StartGrandAgent
    <2>1. toStart.agents - 1 \in 0 .. GrandAgents
      BY <1>2 DEF StartGrandAgent, MonitorsAssumption
    <2>2. toStart' = [toStart EXCEPT !.agents = toStart.agents - 1]
      BY <1>2 DEF StartGrandAgent
    <2>3. toStart' \in [ports : 0 .. PortAgents, agents : 0 .. GrandAgents]
      BY <2>1, <2>2
    <2> QED BY <1>2, <2>3 DEF StartGrandAgent
  <1>3. CASE StartSignalAgent
    BY <1>3 DEF StartSignalAgent
  <1> QED BY <1>1, <1>2, <1>3

LEMMA AddType ==
  ASSUME TypeOK, Rules, NEW t \in Threads, Add(t)
  PROVE  TypeOK'
  <1> USE MonitorsAssumption, ThreadSets
  <1> USE DEF TypeOK, agentVars, ruleVars, Go, Adding
  <1>1. CASE NextId(t)
    BY <1>1 DEF NextId
  <1>2. CASE TooMany(t)
    BY <1>2 DEF TooMany
  <1>3. CASE OpenPipe(t)
    <2>1. PICK p \in Unused :
            /\ proc' = [proc EXCEPT ![p] = "pipe"]
            /\ id' = [id EXCEPT ![p] = curId]
            /\ heldBy' = [heldBy EXCEPT ![p] = {Main}]
            /\ new' = [new EXCEPT ![t] = p]
            /\ by' = [by EXCEPT ![p] = t]
      BY <1>3 DEF OpenPipe
    <2>2. p \in Procs /\ curId \in 0 .. MaxId
      BY <1>3 DEF OpenPipe, Accepts, Unused
    <2> QED BY <1>3, <2>1, <2>2 DEF OpenPipe
  <1>4. CASE Fork(t)
    <2>1. new[t] \in Procs
      BY <1>4 DEF Fork, Rules, NewAreNew
    <2>2. heldBy' \in [Procs -> SUBSET (Procs \cup {Main})]
      BY <1>4, <2>1 DEF Fork
    <2> QED BY <1>4, <2>1, <2>2 DEF Fork
  <1>5. CASE Enter(t)
    <2>1. new[t] \in Procs
      BY <1>5 DEF Enter, Rules, NewAreNew
    <2> QED BY <1>5, <2>1 DEF Enter
  <1>6. CASE StartMonitor(t)
    <2>1. new[t] \in Procs /\ id[new[t]] \in 1 .. MaxId
      BY <1>6 DEF StartMonitor, Rules, NewAreNew, IdsTaken
    <2>2. monitors[Entry(t)] \in Procs \cup {NoProc}
      BY <2>1 DEF Entry
    <2>3. After(t) \in {"next", "over"}
      BY DEF After
    <2>4. pc' \in [Threads -> {"none", "next", "read", "test", "over"} \cup Adding]
      BY <1>6, <2>3 DEF StartMonitor
    <2>5. obj' \in [Threads -> Procs \cup {NoProc}] /\ new' \in [Threads -> Procs \cup {NoProc}]
      BY <1>6, <2>1, <2>2 DEF StartMonitor
    <2>6. heldBy' \in [Procs -> SUBSET (Procs \cup {Main})]
      BY <1>6, <2>1 DEF StartMonitor
    <2> QED BY <1>6, <2>4, <2>5, <2>6 DEF StartMonitor
  <1> QED BY <1>1, <1>2, <1>3, <1>4, <1>5, <1>6 DEF Add

LEMMA MonitorType ==
  ASSUME TypeOK, NEW t \in Procs, Eof(t) \/ Test(t)
  PROVE  TypeOK'
  <1> USE MonitorsAssumption, ThreadSets
  <1> USE DEF TypeOK, agentVars, ruleVars, Go, Adding
  <1>1. CASE Eof(t)
    BY <1>1 DEF Eof
  <1>2. CASE Test(t)
    BY <1>2 DEF Test
  <1> QED BY <1>1, <1>2

LEMMA EndedType ==
  ASSUME TypeOK, NEW p \in Procs, Ended(p)
  PROVE  /\ proc' \in [Procs -> {"none", "pipe", "live", "stopping", "dead"}]
         /\ pipe' \in [Procs -> Seq(Commands)]
         /\ told' \subseteq Procs
         /\ heldBy' \in [Procs -> SUBSET (Procs \cup {Main})]
  BY DEF TypeOK, Ended

LEMMA AgentType ==
  ASSUME TypeOK, NEW p \in Procs, Crash(p) \/ Obey(p)
  PROVE  TypeOK'
  <1> USE MonitorsAssumption, ThreadSets
  <1> USE DEF TypeOK, ruleVars
  <1>1. CASE Crash(p)
    <2>1. Ended(p) /\ crashes' = crashes + 1 /\ crashes < MaxCrashes
      BY <1>1 DEF Crash
    <2>2. crashes' \in 0 .. MaxCrashes
      BY <2>1
    <2> QED BY <1>1, <2>1, <2>2, EndedType DEF Crash
  <1>2. CASE Receive(p)
    <2>1. <<>> \in Seq(Commands)
      OBVIOUS
    <2>2. pipe' \in [Procs -> Seq(Commands)]
      BY <1>2, <2>1 DEF Receive
    <2>3. proc' \in [Procs -> {"none", "pipe", "live", "stopping", "dead"}]
      BY <1>2 DEF Receive
    <2> QED BY <1>2, <2>2, <2>3 DEF Receive
  <1>3. CASE ReceiveAbort(p)
    BY <1>3, EndedType DEF ReceiveAbort
  <1>4. CASE ReceiveTwo(p)
    <2>1. pipe[p] \in Seq(Commands) /\ Len(pipe[p]) > 1
      BY <1>4 DEF ReceiveTwo
    <2>2. SubSeq(pipe[p], 3, Len(pipe[p])) \in Seq(Commands)
      BY <2>1
    <2>3. pipe' \in [Procs -> Seq(Commands)]
      BY <1>4, <2>2 DEF ReceiveTwo
    <2> QED BY <1>4, <2>3 DEF ReceiveTwo
  <1>5. CASE Exit(p)
    BY <1>5, EndedType DEF Exit
  <1> QED BY <1>1, <1>2, <1>3, <1>4, <1>5 DEF Obey

LEMMA ControlType ==
  ASSUME TypeOK, (\E c \in Commands : Command(c)) \/ ControlStep
  PROVE  TypeOK'
  <1> USE MonitorsAssumption, ThreadSets
  <1> USE DEF TypeOK, agentVars, ruleVars
  <1>1. CASE \E c \in Commands : Command(c)
    <2>1. PICK c \in Commands : Command(c)
      BY <1>1
    <2>2. Registered \subseteq Procs
      BY RegisteredType
    <2>3. control' \in [cmd : Commands \cup {"none", "broken"}, copy : SUBSET Procs,
                        done : SUBSET Procs, count : 0 .. MaxCommands]
      BY <2>1, <2>2 DEF Command
    <2>4. finale' \in BOOLEAN /\ late' \subseteq Threads
      BY <2>1 DEF Command
    <2> QED BY <2>1, <2>3, <2>4 DEF Command
  <1>2. CASE \E p \in Procs : Send(p)
    <2>1. PICK p \in Procs : Send(p)
      BY <1>2
    <2>2. Wire(control.cmd) \in Commands
      BY <2>1 DEF Send, Wire, Commands, LiveView, Copied
    <2>3. Append(pipe[p], Wire(control.cmd)) \in Seq(Commands)
      BY <2>2
    <2>4. pipe' \in [Procs -> Seq(Commands)]
      BY <2>1, <2>3 DEF Send
    <2>5. control' \in [cmd : Commands \cup {"none", "broken"}, copy : SUBSET Procs,
                        done : SUBSET Procs, count : 0 .. MaxCommands]
      BY <2>1 DEF Send
    <2>6. told' \subseteq Procs
      BY <2>1 DEF Send
    <2> QED BY <2>1, <2>4, <2>5, <2>6 DEF Send
  <1>3. CASE Breaks
    BY <1>3 DEF Breaks
  <1>4. CASE Done
    BY <1>4 DEF Done
  <1> QED BY <1>1, <1>2, <1>3, <1>4 DEF ControlStep

LEMMA StepType == TypeOK /\ Rules /\ [Next]_vars => TypeOK'
  <1> SUFFICES ASSUME TypeOK, Rules, [Next]_vars PROVE TypeOK'
    OBVIOUS
  <1>1. CASE MainStep
    BY <1>1, MainType, AddType, ThreadSets DEF MainStep
  <1>2. CASE \E t \in Procs : MonitorStep(t)
    BY <1>2, MonitorType, AddType, ThreadSets DEF MonitorStep
  <1>3. CASE \E p \in Procs : Crash(p) \/ Obey(p)
    BY <1>3, AgentType
  <1>4. CASE (\E c \in Commands : Command(c)) \/ ControlStep
    BY <1>4, ControlType
  <1>5. CASE UNCHANGED vars
    BY <1>5 DEF vars, TypeOK
  <1> QED BY <1>1, <1>2, <1>3, <1>4, <1>5 DEF Next

-----------------------------------------------------------------------------
(* Twins stay twins: a process keeps its id.                               *)
LEMMA TwinsStay ==
  ASSUME NEW p \in Procs, proc[p] # "none", Twins(p) # {},
         \A q \in Procs : proc[q] # "none" => proc'[q] # "none" /\ id'[q] = id[q]
  PROVE  (Twins(p) # {})'
  BY DEF Twins

(* Steps that touch neither the table nor what is being added: a thread    *)
(* goes on outside add()'s second half, a process ends or obeys.           *)
Aside ==
  /\ UNCHANGED <<id, monitors, new, obj>> /\ curId' >= curId
  /\ \A p \in Procs : (proc'[p] = "none") = (proc[p] = "none")
  /\ \A p \in Procs : proc'[p] \in {"live", "stopping"} => proc[p] \in {"live", "stopping"}
  /\ \A t \in Threads :
       \/ pc'[t] = pc[t]
       \/ /\ pc[t] \in {"next", "add", "id", "test"}
          /\ pc'[t] \in {"next", "add", "id", "test", "over"}
          /\ pc'[t] = "id" => 1 <= curId'

LEMMA AsideKeepsRules ==
  ASSUME WatchInv, TypeOK', Aside
  PROVE  (Rules /\ Watched)'
  <1> USE ThreadSets
  <1>1. \A p \in Procs : proc[p] # "none" /\ Twins(p) # {} => (Twins(p) # {})'
    BY TwinsStay DEF Aside
  <1>2. \A t \in Threads, v \in {"none", "fork", "enter", "start", "read"} :
          pc'[t] = v <=> pc[t] = v
    BY DEF Aside
  <1>3. IdsTaken'
    <2>1. \A p \in Procs : proc'[p] # "none" => id'[p] \in 1 .. MaxId
      BY DEF Aside, WatchInv, Rules, IdsTaken
    <2>2. \A t \in Threads : pc'[t] = "id" => 1 <= curId'
      <3>1. curId \in Nat /\ curId' \in Nat /\ curId <= curId'
        BY DEF Aside, WatchInv, TypeOK
      <3> QED BY <3>1 DEF Aside, WatchInv, Rules, IdsTaken
    <2> QED BY <2>1, <2>2 DEF IdsTaken
  <1>4. NewAreNew'
    <2>1. \A t \in Threads : new[t] \in Procs \cup {NoProc}
      BY DEF WatchInv, TypeOK
    <2> QED BY <1>2, <2>1 DEF Aside, WatchInv, Rules, NewAreNew
  <1>5. UnusedAreIdle'
    BY <1>2 DEF Aside, WatchInv, Rules, UnusedAreIdle
  <1>6. EntriesFit'
    <2>1. \A n \in 1 .. MaxId : monitors[n] \in Procs \cup {NoProc}
      BY DEF WatchInv, TypeOK
    <2> QED BY <2>1 DEF Aside, WatchInv, Rules, EntriesFit
  <1>7. EnteredIsFound'
    <2>1. SUFFICES ASSUME NEW t \in Threads, pc'[t] = "start"
                   PROVE  monitors'[id'[new'[t]]] = new'[t] \/ (Twins(new[t]) # {})'
      BY DEF EnteredIsFound, Aside
    <2>2. pc[t] = "start" /\ new[t] \in Procs /\ proc[new[t]] # "none"
      BY <1>2, <2>1 DEF WatchInv, Rules, NewAreNew, TypeOK
    <2>3. monitors[id[new[t]]] = new[t] \/ Twins(new[t]) # {}
      BY <2>2 DEF WatchInv, Rules, EnteredIsFound
    <2> QED BY <1>1, <2>2, <2>3 DEF Aside
  <1>8. ReadersOwn'
    <2>1. SUFFICES ASSUME NEW t \in Procs, pc'[t] = "read"
                   PROVE  /\ obj[t] # NoProc /\ proc'[obj[t]] # "none" /\ id[obj[t]] = id[t]
                          /\ obj[t] = t \/ (Twins(obj[t]) # {})'
      BY DEF ReadersOwn, Aside
    <2>2. pc[t] = "read" /\ obj[t] \in Procs /\ proc[obj[t]] # "none" /\ id[obj[t]] = id[t]
          /\ (obj[t] = t \/ Twins(obj[t]) # {})
      BY <1>2, <2>1 DEF WatchInv, Rules, ReadersOwn, TypeOK
    <2> QED BY <1>1, <2>2 DEF Aside
  <1>9. Watched'
    <2>1. SUFFICES ASSUME NEW p \in Procs, Running(p)'
                   PROVE  \/ (Twins(p) # {})'
                          \/ \E t \in Threads : new'[t] = p
                          \/ monitors'[id'[p]] = p /\ pc'[p] = "read" /\ obj'[p] = p
      BY DEF Watched
    <2>2. Running(p) /\ proc[p] # "none"
      BY <2>1 DEF Aside, Running
    <2> QED BY <1>1, <1>2, <2>2 DEF Aside, WatchInv, Watched
  <1> QED BY <1>3, <1>4, <1>5, <1>6, <1>7, <1>8, <1>9 DEF Rules

(* Most steps are such.                                                    *)
LEMMA MainIsAside ==
  ASSUME WatchInv, StartPortAgent \/ StartGrandAgent \/ StartSignalAgent
  PROVE  Aside
  BY ThreadSets DEF WatchInv, TypeOK, Aside, StartPortAgent, StartGrandAgent, StartSignalAgent,
     Go, agentVars, ruleVars

LEMMA AddIsAside ==
  ASSUME WatchInv, NEW t \in Threads, NextId(t) \/ TooMany(t)
  PROVE  Aside
  BY DEF WatchInv, TypeOK, Aside, NextId, TooMany, Go, agentVars, ruleVars

LEMMA TestIsAside ==
  ASSUME WatchInv, NEW t \in Procs, Test(t)
  PROVE  Aside
  BY ThreadSets DEF WatchInv, TypeOK, Aside, Test, Go, agentVars, ruleVars

LEMMA AgentIsAside ==
  ASSUME WatchInv, NEW p \in Procs, Crash(p) \/ Obey(p)
  PROVE  Aside
  <1> USE DEF WatchInv, TypeOK, Aside, Ended, ruleVars
  <1>1. CASE Crash(p)
    BY <1>1 DEF Crash
  <1>2. CASE Receive(p)
    BY <1>2 DEF Receive, OneCommand
  <1>3. CASE ReceiveAbort(p)
    BY <1>3 DEF ReceiveAbort, OneCommand
  <1>4. CASE ReceiveTwo(p)
    BY <1>4 DEF ReceiveTwo
  <1>5. CASE Exit(p)
    BY <1>5 DEF Exit
  <1> QED BY <1>1, <1>2, <1>3, <1>4, <1>5 DEF Obey

LEMMA ControlIsAside ==
  ASSUME WatchInv, (\E c \in Commands : Command(c)) \/ ControlStep
  PROVE  Aside
  <1> USE DEF WatchInv, TypeOK, Aside, agentVars, ruleVars
  <1>1. CASE \E c \in Commands : Command(c)
    BY <1>1 DEF Command
  <1>2. CASE \E p \in Procs : Send(p)
    BY <1>2 DEF Send
  <1>3. CASE Breaks
    BY <1>3 DEF Breaks
  <1>4. CASE Done
    BY <1>4 DEF Done
  <1> QED BY <1>1, <1>2, <1>3, <1>4 DEF ControlStep

LEMMA StutterIsAside == ASSUME WatchInv, UNCHANGED vars PROVE Aside
  BY DEF WatchInv, TypeOK, Aside, vars

-----------------------------------------------------------------------------
(* OpenPipe: the process is new to everything.                             *)
LEMMA OpenPipeKeepsRules ==
  ASSUME WatchInv, TypeOK', NEW t \in Threads, OpenPipe(t)
  PROVE  (Rules /\ Watched)'
  <1> USE ThreadSets
  <1>1. PICK p \in Procs :
          /\ proc[p] = "none"
          /\ proc' = [proc EXCEPT ![p] = "pipe"]
          /\ id' = [id EXCEPT ![p] = curId]
          /\ new' = [new EXCEPT ![t] = p]
    BY DEF OpenPipe, Unused
  <1>2. /\ pc[t] = "id" /\ pc' = [pc EXCEPT ![t] = "fork"]
        /\ UNCHANGED <<monitors, obj>> /\ curId' = curId /\ curId \in 1 .. MaxId
    BY DEF OpenPipe, Go, Accepts, ruleVars, WatchInv, TypeOK, Rules, IdsTaken
  <1>3. \A q \in Procs : proc[q] # "none" => q # p /\ proc'[q] = proc[q] /\ id'[q] = id[q]
    BY <1>1 DEF WatchInv, TypeOK
  <1>4. \A q \in Procs : proc[q] # "none" /\ Twins(q) # {} =>
          \E r \in Procs \ {q} : proc'[r] # "none" /\ id'[r] = id'[q]
    BY <1>3 DEF Twins
  <1>5. \A s \in Threads : new[s] # p /\ (s # t => new'[s] = new[s] /\ pc'[s] = pc[s])
    BY <1>1, <1>2 DEF WatchInv, TypeOK, Rules, NewAreNew
  <1>6. proc'[p] = "pipe" /\ id'[p] = curId /\ new'[t] = p /\ pc'[t] = "fork"
    BY <1>1, <1>2 DEF WatchInv, TypeOK
  <1>7. pc[p] = "none" /\ p # t /\ pc'[p] = "none"
    BY <1>1, <1>2 DEF WatchInv, TypeOK, Rules, UnusedAreIdle
  <1>8. new[t] = NoProc
    BY <1>2 DEF WatchInv, Rules, NewAreNew
  <1>9. IdsTaken'
    <2>1. \A q \in Procs : proc'[q] # "none" => id'[q] \in 1 .. MaxId
      <3> SUFFICES ASSUME NEW q \in Procs, proc'[q] # "none" PROVE id'[q] \in 1 .. MaxId
        OBVIOUS
      <3>1. CASE q = p
        BY <3>1, <1>6, <1>2
      <3>2. CASE q # p
        BY <3>2, <1>1 DEF WatchInv, TypeOK, Rules, IdsTaken
      <3> QED BY <3>1, <3>2
    <2>2. \A s \in Threads : pc'[s] = "id" => 1 <= curId'
      BY <1>2
    <2> QED BY <2>1, <2>2 DEF IdsTaken
  <1>10. NewAreNew'
    <2>1. \A s \in Threads : new'[s] # NoProc <=> pc'[s] \in {"fork", "enter", "start"}
      BY <1>5, <1>6 DEF WatchInv, Rules, NewAreNew
    <2>2. \A s \in Threads : new'[s] # NoProc => pc'[new'[s]] = "none" /\ proc'[new'[s]] # "none"
      <3> SUFFICES ASSUME NEW s \in Threads, new'[s] # NoProc
                   PROVE  pc'[new'[s]] = "none" /\ proc'[new'[s]] # "none"
        OBVIOUS
      <3>1. CASE s = t
        BY <3>1, <1>6, <1>7
      <3>2. CASE s # t
        <4>1. new'[s] = new[s] /\ new[s] \in Procs /\ pc[new[s]] = "none" /\ proc[new[s]] # "none"
          BY <3>2, <1>5 DEF WatchInv, TypeOK, Rules, NewAreNew
        <4>2. new[s] # t
          BY <4>1, <1>2
        <4> QED BY <4>1, <4>2, <1>3, <1>5
      <3> QED BY <3>1, <3>2
    <2>3. \A r, s \in Threads : new'[r] = new'[s] /\ new'[r] # NoProc => r = s
      BY <1>5, <1>6 DEF WatchInv, Rules, NewAreNew
    <2> QED BY <2>1, <2>2, <2>3 DEF NewAreNew
  <1>11. UnusedAreIdle'
    BY <1>1, <1>2, <1>6, <1>7 DEF WatchInv, TypeOK, Rules, UnusedAreIdle
  <1>12. EntriesFit'
    <2>1. \A n \in 1 .. MaxId : monitors[n] \in Procs \cup {NoProc}
      BY DEF WatchInv, TypeOK
    <2> QED BY <2>1, <1>2, <1>3 DEF WatchInv, Rules, EntriesFit
  <1>13. EnteredIsFound'
    <2> SUFFICES ASSUME NEW s \in Threads, pc'[s] = "start"
                 PROVE  \/ monitors'[id'[new'[s]]] = new'[s]
                        \/ \E r \in Procs \ {new'[s]} : proc'[r] # "none" /\ id'[r] = id'[new'[s]]
      BY DEF EnteredIsFound, Twins
    <2>1. s # t /\ pc[s] = "start" /\ new'[s] = new[s]
      BY <1>5, <1>6
    <2>2. new[s] \in Procs /\ proc[new[s]] # "none"
      BY <2>1 DEF WatchInv, TypeOK, Rules, NewAreNew
    <2>3. monitors[id[new[s]]] = new[s] \/ Twins(new[s]) # {}
      BY <2>1 DEF WatchInv, Rules, EnteredIsFound
    <2>4. CASE monitors[id[new[s]]] = new[s]
      BY <2>4, <2>1, <2>2, <1>2, <1>3
    <2>5. CASE Twins(new[s]) # {}
      BY <2>5, <2>1, <2>2, <1>4
    <2> QED BY <2>3, <2>4, <2>5
  <1>14. ReadersOwn'
    <2> SUFFICES ASSUME NEW s \in Procs, pc'[s] = "read"
                 PROVE  /\ obj[s] # NoProc /\ proc'[obj[s]] # "none" /\ id'[obj[s]] = id'[s]
                        /\ \/ obj[s] = s
                           \/ \E r \in Procs \ {obj[s]} : proc'[r] # "none" /\ id'[r] = id'[obj[s]]
      BY <1>2 DEF ReadersOwn, Twins
    <2>1. s # t /\ pc[s] = "read"
      BY <1>5, <1>6
    <2>2. proc[s] # "none"
      BY <2>1 DEF WatchInv, Rules, UnusedAreIdle
    <2>3. obj[s] \in Procs /\ proc[obj[s]] # "none" /\ id[obj[s]] = id[s]
          /\ (obj[s] = s \/ Twins(obj[s]) # {})
      BY <2>1 DEF WatchInv, TypeOK, Rules, ReadersOwn
    <2> QED BY <2>2, <2>3, <1>3, <1>4
  <1>15. Watched'
    <2> SUFFICES ASSUME NEW q \in Procs, Running(q)'
                 PROVE  \/ \E r \in Procs \ {q} : proc'[r] # "none" /\ id'[r] = id'[q]
                        \/ \E s \in Threads : new'[s] = q
                        \/ monitors'[id'[q]] = q /\ pc'[q] = "read" /\ obj'[q] = q
      BY DEF Watched, Twins
    <2>1. q # p /\ Running(q)
      BY <1>1, <1>6 DEF Running, WatchInv, TypeOK
    <2>2. proc[q] # "none" /\ id'[q] = id[q]
      BY <2>1, <1>3 DEF Running
    <2>3. CASE Twins(q) # {}
      BY <2>3, <2>2, <1>4
    <2>4. CASE \E s \in Threads : new[s] = q
      BY <2>4, <1>5, <1>8
    <2>5. CASE monitors[id[q]] = q /\ pc[q] = "read" /\ obj[q] = q
      <3>1. q # t
        BY <2>5, <1>2
      <3> QED BY <2>5, <3>1, <2>2, <1>2, <1>5
    <2> QED BY <2>1, <2>3, <2>4, <2>5 DEF WatchInv, Watched
  <1> QED BY <1>9, <1>10, <1>11, <1>12, <1>13, <1>14, <1>15 DEF Rules

-----------------------------------------------------------------------------
(* Fork: the new process runs, and its thread is still adding it.          *)
LEMMA ForkKeepsRules ==
  ASSUME WatchInv, TypeOK', NEW t \in Threads, Fork(t)
  PROVE  (Rules /\ Watched)'
  <1> USE ThreadSets
  <1>1. /\ pc[t] = "fork" /\ pc' = [pc EXCEPT ![t] = "enter"]
        /\ new[t] \in Procs /\ proc' = [proc EXCEPT ![new[t]] = "live"]
        /\ UNCHANGED <<id, monitors, new, obj, curId>>
    BY DEF Fork, Go, ruleVars, WatchInv, TypeOK, Rules, NewAreNew
  <1>2. /\ proc[new[t]] # "none"
        /\ \A q \in Procs : (proc'[q] = "none") = (proc[q] = "none")
    BY <1>1 DEF WatchInv, TypeOK, Rules, NewAreNew
  <1>3. \A q \in Procs : Twins(q) # {} =>
          \E r \in Procs \ {q} : proc'[r] # "none" /\ id'[r] = id'[q]
    BY <1>1, <1>2 DEF Twins
  <1>4. \A s \in Threads, v \in {"none", "start", "read", "id"} : pc'[s] = v <=> pc[s] = v
    BY <1>1 DEF WatchInv, TypeOK
  <1>5. \A s \in Threads : pc'[s] \in {"fork", "enter", "start"} <=> pc[s] \in {"fork", "enter", "start"}
    BY <1>1 DEF WatchInv, TypeOK
  <1>6. \A s \in Threads : new[s] \in Procs \cup {NoProc} /\ obj[s] \in Procs \cup {NoProc}
    BY DEF WatchInv, TypeOK
  <1>7. IdsTaken'
    BY <1>1, <1>2, <1>4 DEF WatchInv, Rules, IdsTaken
  <1>8. NewAreNew'
    BY <1>1, <1>2, <1>4, <1>5, <1>6 DEF WatchInv, Rules, NewAreNew
  <1>9. UnusedAreIdle'
    BY <1>2, <1>4 DEF WatchInv, Rules, UnusedAreIdle
  <1>10. EntriesFit'
    <2>1. \A n \in 1 .. MaxId : monitors[n] \in Procs \cup {NoProc}
      BY DEF WatchInv, TypeOK
    <2> QED BY <2>1, <1>1, <1>2 DEF WatchInv, Rules, EntriesFit
  <1>11. EnteredIsFound'
    <2> SUFFICES ASSUME NEW s \in Threads, pc[s] = "start", new[s] \in Procs
                 PROVE  \/ monitors[id[new[s]]] = new[s]
                        \/ \E r \in Procs \ {new[s]} : proc'[r] # "none" /\ id'[r] = id'[new[s]]
      BY <1>1, <1>4, <1>6 DEF EnteredIsFound, Twins, WatchInv, Rules, NewAreNew
    <2> QED BY <1>3 DEF WatchInv, Rules, EnteredIsFound
  <1>12. ReadersOwn'
    <2> SUFFICES ASSUME NEW s \in Procs, pc[s] = "read"
                 PROVE  /\ obj[s] # NoProc /\ proc'[obj[s]] # "none" /\ id[obj[s]] = id[s]
                        /\ \/ obj[s] = s
                           \/ \E r \in Procs \ {obj[s]} : proc'[r] # "none" /\ id'[r] = id'[obj[s]]
      BY <1>1, <1>4 DEF ReadersOwn, Twins
    <2> QED BY <1>2, <1>3, <1>6 DEF WatchInv, Rules, ReadersOwn
  <1>13. Watched'
    <2> SUFFICES ASSUME NEW q \in Procs, Running(q)'
                 PROVE  \/ \E r \in Procs \ {q} : proc'[r] # "none" /\ id'[r] = id'[q]
                        \/ \E s \in Threads : new[s] = q
                        \/ monitors[id[q]] = q /\ pc'[q] = "read" /\ obj[q] = q
      BY <1>1 DEF Watched, Twins
    <2>1. CASE q = new[t]
      BY <2>1
    <2>2. CASE q # new[t]
      <3>1. Running(q)
        BY <2>2, <1>1 DEF Running, WatchInv, TypeOK
      <3> QED BY <3>1, <1>3, <1>4 DEF WatchInv, Watched
    <2> QED BY <2>1, <2>2
  <1> QED BY <1>7, <1>8, <1>9, <1>10, <1>11, <1>12, <1>13 DEF Rules

(* Enter: whose entry is replaced has a twin.                              *)
LEMMA EnterKeepsRules ==
  ASSUME WatchInv, TypeOK', NEW t \in Threads, Enter(t)
  PROVE  (Rules /\ Watched)'
  <1> USE ThreadSets
  <1>1. /\ pc[t] = "enter" /\ pc' = [pc EXCEPT ![t] = "start"]
        /\ new[t] \in Procs /\ proc[new[t]] # "none" /\ pc[new[t]] = "none"
        /\ id[new[t]] \in 1 .. MaxId
        /\ monitors' = [monitors EXCEPT ![id[new[t]]] = new[t]]
        /\ UNCHANGED <<proc, id, new, obj, curId>>
    BY DEF Enter, Entry, Go, agentVars, ruleVars, WatchInv, TypeOK, Rules, NewAreNew, IdsTaken
  <1>2. \A q \in Procs : Twins(q) # {} =>
          \E r \in Procs \ {q} : proc'[r] # "none" /\ id'[r] = id'[q]
    BY <1>1 DEF Twins
  <1>3. \A s \in Threads, v \in {"none", "read", "id"} : pc'[s] = v <=> pc[s] = v
    BY <1>1 DEF WatchInv, TypeOK
  <1>4. \A s \in Threads : pc'[s] \in {"fork", "enter", "start"} <=> pc[s] \in {"fork", "enter", "start"}
    BY <1>1 DEF WatchInv, TypeOK
  <1>5. \A s \in Threads : new[s] \in Procs \cup {NoProc} /\ obj[s] \in Procs \cup {NoProc}
    BY DEF WatchInv, TypeOK
  <1>6. \A q \in Procs : q # new[t] /\ id[q] = id[new[t]] => Twins(q) # {}
    BY <1>1 DEF Twins
  <1>7. \A n \in 1 .. MaxId : monitors[n] \in Procs \cup {NoProc}
          /\ monitors'[n] = IF n = id[new[t]] THEN new[t] ELSE monitors[n]
    BY <1>1 DEF WatchInv, TypeOK
  <1>8. IdsTaken'
    BY <1>1, <1>3 DEF WatchInv, Rules, IdsTaken
  <1>9. NewAreNew'
    BY <1>1, <1>3, <1>4, <1>5 DEF WatchInv, Rules, NewAreNew
  <1>10. UnusedAreIdle'
    BY <1>1, <1>3 DEF WatchInv, Rules, UnusedAreIdle
  <1>11. EntriesFit'
    BY <1>1, <1>7 DEF WatchInv, Rules, EntriesFit
  <1>12. EnteredIsFound'
    <2> SUFFICES ASSUME NEW s \in Threads, pc'[s] = "start"
                 PROVE  \/ monitors'[id[new[s]]] = new[s]
                        \/ \E r \in Procs \ {new[s]} : proc'[r] # "none" /\ id'[r] = id'[new[s]]
      BY <1>1 DEF EnteredIsFound, Twins
    <2>1. CASE s = t
      BY <2>1, <1>1, <1>7
    <2>2. CASE s # t
      <3>1. pc[s] = "start" /\ new[s] \in Procs /\ new[s] # new[t] /\ proc[new[s]] # "none"
        BY <2>2, <1>1, <1>5 DEF WatchInv, TypeOK, Rules, NewAreNew
      <3>2. id[new[s]] \in 1 .. MaxId
        BY <3>1 DEF WatchInv, Rules, IdsTaken
      <3>3. monitors[id[new[s]]] = new[s] \/ Twins(new[s]) # {}
        BY <3>1 DEF WatchInv, Rules, EnteredIsFound
      <3> QED BY <3>1, <3>2, <3>3, <1>2, <1>6, <1>7
    <2> QED BY <2>1, <2>2
  <1>13. ReadersOwn'
    <2> SUFFICES ASSUME NEW s \in Procs, pc[s] = "read"
                 PROVE  /\ obj[s] # NoProc /\ proc[obj[s]] # "none" /\ id[obj[s]] = id[s]
                        /\ \/ obj[s] = s
                           \/ \E r \in Procs \ {obj[s]} : proc'[r] # "none" /\ id'[r] = id'[obj[s]]
      BY <1>1, <1>3 DEF ReadersOwn, Twins
    <2> QED BY <1>2, <1>5 DEF WatchInv, Rules, ReadersOwn
  <1>14. Watched'
    <2> SUFFICES ASSUME NEW q \in Procs, Running(q)
                 PROVE  \/ \E r \in Procs \ {q} : proc'[r] # "none" /\ id'[r] = id'[q]
                        \/ \E s \in Threads : new[s] = q
                        \/ monitors'[id[q]] = q /\ pc'[q] = "read" /\ obj[q] = q
      BY <1>1 DEF Watched, Running, Twins
    <2>1. id[q] \in 1 .. MaxId
      BY DEF Running, WatchInv, Rules, IdsTaken
    <2>2. CASE q # new[t] /\ id[q] = id[new[t]]
      BY <2>2, <1>2, <1>6
    <2>3. CASE q = new[t]
      BY <2>3
    <2>4. CASE id[q] # id[new[t]]
      BY <2>1, <2>4, <1>2, <1>3, <1>7 DEF WatchInv, Watched
    <2> QED BY <2>2, <2>3, <2>4
  <1> QED BY <1>8, <1>9, <1>10, <1>11, <1>12, <1>13, <1>14 DEF Rules

(* StartMonitor: the entry is that of the new process, or of a twin.       *)
LEMMA StartMonitorKeepsRules ==
  ASSUME WatchInv, TypeOK', NEW t \in Threads, StartMonitor(t)
  PROVE  (Rules /\ Watched)'
  <1> USE ThreadSets
  <1>a. PICK p \in Procs : p = new[t] /\ pc[t] = "start" /\ proc[p] # "none" /\ pc[p] = "none"
    BY DEF StartMonitor, WatchInv, TypeOK, Rules, NewAreNew
  <1>b. id[p] \in 1 .. MaxId
    BY <1>a DEF WatchInv, Rules, IdsTaken
  <1>c. PICK m \in Procs \cup {NoProc} : m = monitors[id[p]]
    BY <1>b DEF WatchInv, TypeOK
  <1>1. /\ pc[t] = "start" /\ p \in Procs /\ proc[p] # "none" /\ pc[p] = "none"
        /\ p # t /\ new[p] = NoProc /\ id[p] \in 1 .. MaxId
        /\ m \in Procs \cup {NoProc}
    BY <1>a, <1>b, <1>c DEF WatchInv, Rules, NewAreNew
  <1>2. /\ pc' = [pc EXCEPT ![t] = After(t), ![p] = IF m = NoProc THEN "none" ELSE "read"]
        /\ obj' = [obj EXCEPT ![p] = m] /\ new' = [new EXCEPT ![t] = NoProc]
        /\ UNCHANGED <<proc, id, monitors, curId>>
    BY <1>a, <1>c DEF StartMonitor, Entry, ruleVars
  <1>3. /\ pc'[t] \in {"next", "over"} /\ new'[t] = NoProc
        /\ pc'[p] = IF m = NoProc THEN "none" ELSE "read"
        /\ obj'[p] = m
    BY <1>1, <1>2 DEF After, WatchInv, TypeOK
  <1>4. \A s \in Threads :
          /\ s # t => new'[s] = new[s]
          /\ s # p => obj'[s] = obj[s]
          /\ s \notin {t, p} => pc'[s] = pc[s]
    BY <1>1, <1>2 DEF WatchInv, TypeOK
  <1>5. \A s \in Threads : new[s] \in Procs \cup {NoProc} /\ obj[s] \in Procs \cup {NoProc}
    BY DEF WatchInv, TypeOK
  <1>6. \A s \in Threads : s # t /\ new[s] # NoProc => new[s] # p /\ new[s] # t
    BY <1>1, <1>a, <1>5 DEF WatchInv, Rules, NewAreNew
  <1>7. \A q \in Procs : Twins(q) # {} =>
          \E r \in Procs \ {q} : proc'[r] # "none" /\ id'[r] = id'[q]
    BY <1>2 DEF Twins
  <1>8. IdsTaken'
    <2>1. \A q \in Procs : proc'[q] # "none" => id'[q] \in 1 .. MaxId
      BY <1>2 DEF WatchInv, Rules, IdsTaken
    <2>2. \A s \in Threads : pc'[s] = "id" => pc[s] = "id"
      BY <1>3, <1>4
    <2> QED BY <1>2, <2>1, <2>2 DEF WatchInv, Rules, IdsTaken
  <1>9. NewAreNew'
    <2>1. \A s \in Threads : new'[s] # NoProc <=> pc'[s] \in {"fork", "enter", "start"}
      BY <1>1, <1>3, <1>4 DEF WatchInv, Rules, NewAreNew
    <2>2. \A s \in Threads : new'[s] # NoProc => pc'[new'[s]] = "none" /\ proc'[new'[s]] # "none"
      <3> SUFFICES ASSUME NEW s \in Threads, new'[s] # NoProc
                   PROVE  pc'[new'[s]] = "none" /\ proc'[new'[s]] # "none"
        OBVIOUS
      <3>1. s # t /\ new'[s] = new[s] /\ new[s] \in Procs
        BY <1>3, <1>4, <1>5
      <3>2. pc[new[s]] = "none" /\ proc[new[s]] # "none"
        BY <3>1 DEF WatchInv, Rules, NewAreNew
      <3>3. pc'[new[s]] = pc[new[s]]
        BY <3>1, <1>4, <1>6
      <3> QED BY <3>1, <3>2, <3>3, <1>2
    <2>3. \A r, s \in Threads : new'[r] = new'[s] /\ new'[r] # NoProc => r = s
      BY <1>3, <1>4 DEF WatchInv, Rules, NewAreNew
    <2> QED BY <2>1, <2>2, <2>3 DEF NewAreNew
  <1>10. UnusedAreIdle'
    BY <1>1, <1>2, <1>4 DEF WatchInv, Rules, UnusedAreIdle
  <1>11. EntriesFit'
    BY <1>2 DEF WatchInv, Rules, EntriesFit
  <1>12. EnteredIsFound'
    <2> SUFFICES ASSUME NEW s \in Threads, pc'[s] = "start"
                 PROVE  \/ monitors[id[new'[s]]] = new'[s]
                        \/ \E r \in Procs \ {new'[s]} : proc'[r] # "none" /\ id'[r] = id'[new'[s]]
      BY <1>2 DEF EnteredIsFound, Twins
    <2>1. s \notin {t, p} /\ pc[s] = "start" /\ new'[s] = new[s]
      BY <1>3, <1>4
    <2>2. new[s] \in Procs /\ (monitors[id[new[s]]] = new[s] \/ Twins(new[s]) # {})
      BY <2>1, <1>5 DEF WatchInv, Rules, NewAreNew, EnteredIsFound
    <2> QED BY <2>1, <2>2, <1>7
  <1>13. ReadersOwn'
    <2> SUFFICES ASSUME NEW s \in Procs, pc'[s] = "read"
                 PROVE  /\ obj'[s] # NoProc /\ proc[obj'[s]] # "none" /\ id[obj'[s]] = id[s]
                        /\ \/ obj'[s] = s
                           \/ \E r \in Procs \ {obj'[s]} : proc'[r] # "none" /\ id'[r] = id'[obj'[s]]
      BY <1>2 DEF ReadersOwn, Twins
    <2>1. CASE s = p
      <3>1. m \in Procs /\ obj'[s] = m
        BY <2>1, <1>1, <1>3
      <3>2. id[m] = id[p] /\ proc[m] # "none"
        BY <3>1, <1>1, <1>c DEF WatchInv, Rules, EntriesFit
      <3> QED BY <2>1, <3>1, <3>2, <1>1, <1>2
    <2>2. CASE s # p
      <3>1. pc[s] = "read" /\ obj'[s] = obj[s]
        BY <2>2, <1>3, <1>4
      <3> QED BY <3>1, <1>5, <1>7 DEF WatchInv, Rules, ReadersOwn
    <2> QED BY <2>1, <2>2
  <1>14. Watched'
    <2> SUFFICES ASSUME NEW q \in Procs, Running(q)
                 PROVE  \/ \E r \in Procs \ {q} : proc'[r] # "none" /\ id'[r] = id'[q]
                        \/ \E s \in Threads : new'[s] = q
                        \/ monitors[id[q]] = q /\ pc'[q] = "read" /\ obj'[q] = q
      BY <1>2 DEF Watched, Running, Twins
    <2>1. CASE q = p
      <3>1. m = p \/ Twins(p) # {}
        BY <1>1, <1>a, <1>c DEF WatchInv, Rules, EnteredIsFound
      <3> QED BY <2>1, <3>1, <1>1, <1>3, <1>7, <1>c
    <2>2. CASE q # p
      <3>1. CASE \E s \in Threads : new[s] = q
        BY <2>2, <3>1, <1>4, <1>a
      <3>2. CASE monitors[id[q]] = q /\ pc[q] = "read" /\ obj[q] = q
        BY <2>2, <3>2, <1>1, <1>4
      <3> QED BY <3>1, <3>2, <1>7 DEF WatchInv, Watched
    <2> QED BY <2>1, <2>2
  <1> QED BY <1>8, <1>9, <1>10, <1>11, <1>12, <1>13, <1>14 DEF Rules

(* Eof: the entry that is removed is a dead process's, or a twin's.        *)
LEMMA EofKeepsRules ==
  ASSUME WatchInv, TypeOK', NEW t \in Procs, Eof(t)
  PROVE  (Rules /\ Watched)'
  <1> USE ThreadSets
  <1> DEFINE p == obj[t]
  <1>1. /\ pc[t] = "read" /\ p \in Procs /\ proc[p] = "dead"
        /\ id[p] \in 1 .. MaxId /\ (p = t \/ Twins(p) # {})
    BY DEF Eof, Gone, WatchInv, TypeOK, Rules, ReadersOwn, IdsTaken
  <1>2. /\ monitors' = [monitors EXCEPT ![id[p]] = NoProc]
        /\ pc' = [pc EXCEPT ![t] = IF monitors[id[p]] = NoProc THEN "over" ELSE "test"]
        /\ UNCHANGED <<proc, id, new, obj, curId>>
    BY DEF Eof, Go, agentVars, ruleVars
  <1> HIDE DEF p
  <1>3. pc'[t] \in {"over", "test"} /\ \A s \in Threads : s # t => pc'[s] = pc[s]
    BY <1>1, <1>2 DEF WatchInv, TypeOK
  <1>4. \A s \in Threads : new[s] \in Procs \cup {NoProc} /\ obj[s] \in Procs \cup {NoProc}
    BY DEF WatchInv, TypeOK
  <1>5. \A s \in Threads : new[s] # t /\ (new[s] # NoProc => s # t)
    BY <1>1, <1>4 DEF WatchInv, Rules, NewAreNew
  <1>6. \A n \in 1 .. MaxId : monitors'[n] = IF n = id[p] THEN NoProc ELSE monitors[n]
    BY <1>1, <1>2 DEF WatchInv, TypeOK
  <1>7. \A q \in Procs : Twins(q) # {} \/ (q # p /\ id[q] = id[p]) =>
          \E r \in Procs \ {q} : proc'[r] # "none" /\ id'[r] = id'[q]
    BY <1>1, <1>2 DEF Twins
  <1>8. IdsTaken'
    BY <1>2, <1>3 DEF WatchInv, Rules, IdsTaken
  <1>9. NewAreNew'
    BY <1>1, <1>2, <1>3, <1>4, <1>5 DEF WatchInv, Rules, NewAreNew
  <1>10. UnusedAreIdle'
    BY <1>1, <1>2, <1>3 DEF WatchInv, Rules, UnusedAreIdle
  <1>11. EntriesFit'
    BY <1>2, <1>6 DEF WatchInv, Rules, EntriesFit
  <1>12. EnteredIsFound'
    <2> SUFFICES ASSUME NEW s \in Threads, pc'[s] = "start"
                 PROVE  \/ monitors'[id[new[s]]] = new[s]
                        \/ \E r \in Procs \ {new[s]} : proc'[r] # "none" /\ id'[r] = id'[new[s]]
      BY <1>2 DEF EnteredIsFound, Twins
    <2>1. pc[s] = "start" /\ new[s] \in Procs /\ proc[new[s]] # "none" /\ new[s] # t
      BY <1>3, <1>4, <1>5 DEF WatchInv, Rules, NewAreNew
    <2>2. id[new[s]] \in 1 .. MaxId /\ (monitors[id[new[s]]] = new[s] \/ Twins(new[s]) # {})
      BY <2>1 DEF WatchInv, Rules, IdsTaken, EnteredIsFound
    <2>3. CASE id[new[s]] = id[p]
      BY <2>1, <2>3, <1>1, <1>7
    <2>4. CASE id[new[s]] # id[p]
      BY <2>1, <2>2, <2>4, <1>6, <1>7
    <2> QED BY <2>3, <2>4
  <1>13. ReadersOwn'
    <2> SUFFICES ASSUME NEW s \in Procs, pc'[s] = "read"
                 PROVE  /\ obj[s] # NoProc /\ proc[obj[s]] # "none" /\ id[obj[s]] = id[s]
                        /\ \/ obj[s] = s
                           \/ \E r \in Procs \ {obj[s]} : proc'[r] # "none" /\ id'[r] = id'[obj[s]]
      BY <1>2 DEF ReadersOwn, Twins
    <2>1. pc[s] = "read"
      BY <1>3
    <2> QED BY <2>1, <1>4, <1>7 DEF WatchInv, Rules, ReadersOwn
  <1>14. Watched'
    <2> SUFFICES ASSUME NEW q \in Procs, Running(q)
                 PROVE  \/ \E r \in Procs \ {q} : proc'[r] # "none" /\ id'[r] = id'[q]
                        \/ \E s \in Threads : new[s] = q
                        \/ monitors'[id[q]] = q /\ pc'[q] = "read" /\ obj[q] = q
      BY <1>2 DEF Watched, Running, Twins
    <2>1. q # p /\ id[q] \in 1 .. MaxId
      BY <1>1 DEF Running, WatchInv, Rules, IdsTaken
    <2>2. CASE id[q] = id[p]
      BY <2>1, <2>2, <1>7
    <2>3. CASE id[q] # id[p]
      <3>1. CASE monitors[id[q]] = q /\ pc[q] = "read" /\ obj[q] = q
        <4>1. q # t
          BY <2>1, <3>1 DEF p
        <4> QED BY <2>1, <2>3, <3>1, <4>1, <1>3, <1>6
      <3> QED BY <3>1, <1>7 DEF WatchInv, Watched
    <2> QED BY <2>2, <2>3
  <1> QED BY <1>8, <1>9, <1>10, <1>11, <1>12, <1>13, <1>14 DEF Rules

-----------------------------------------------------------------------------
(* Every step.                                                             *)
LEMMA AddKeepsRules ==
  ASSUME WatchInv, TypeOK', NEW t \in Threads, Add(t)
  PROVE  (Rules /\ Watched)'
  <1>1. CASE NextId(t) \/ TooMany(t)
    BY <1>1, AddIsAside, AsideKeepsRules
  <1>2. CASE OpenPipe(t)
    BY <1>2, OpenPipeKeepsRules
  <1>3. CASE Fork(t)
    BY <1>3, ForkKeepsRules
  <1>4. CASE Enter(t)
    BY <1>4, EnterKeepsRules
  <1>5. CASE StartMonitor(t)
    BY <1>5, StartMonitorKeepsRules
  <1> QED BY <1>1, <1>2, <1>3, <1>4, <1>5 DEF Add

LEMMA StepWatched == WatchInv /\ [Next]_vars => WatchInv'
  <1> SUFFICES ASSUME WatchInv, [Next]_vars PROVE WatchInv'
    OBVIOUS
  <1>1. TypeOK'
    BY StepType DEF WatchInv
  <1>2. CASE MainStep
    BY <1>1, <1>2, MainIsAside, AsideKeepsRules, AddKeepsRules, ThreadSets DEF MainStep, WatchInv
  <1>3. CASE \E t \in Procs : MonitorStep(t)
    BY <1>1, <1>3, EofKeepsRules, TestIsAside, AsideKeepsRules, AddKeepsRules, ThreadSets
       DEF MonitorStep, WatchInv
  <1>4. CASE \E p \in Procs : Crash(p) \/ Obey(p)
    BY <1>1, <1>4, AgentIsAside, AsideKeepsRules DEF WatchInv
  <1>5. CASE (\E c \in Commands : Command(c)) \/ ControlStep
    BY <1>1, <1>5, ControlIsAside, AsideKeepsRules DEF WatchInv
  <1>6. CASE UNCHANGED vars
    BY <1>1, <1>6, StutterIsAside, AsideKeepsRules DEF WatchInv
  <1> QED BY <1>2, <1>3, <1>4, <1>5, <1>6 DEF Next

(* For every number of agents, ids, crashes and commands the parent's      *)
(* tables stay well typed (GrandAgentMonitor).                             *)
THEOREM MonitorsTyped == Spec => []TypeOK
  <1>1. WatchInv => TypeOK
    BY DEF WatchInv
  <1> QED BY <1>1, InitWatched, StepWatched, PTL DEF Spec

(* However the threads interleave, an agent that runs and has been added   *)
(* has a monitor of its own reading its pipe, under its id, unless another *)
(* agent was given the same id (GrandAgentMonitor.add, run).               *)
THEOREM AgentsAreWatched == Spec => []Watched
  <1>1. WatchInv => Watched
    BY DEF WatchInv
  <1> QED BY <1>1, InitWatched, StepWatched, PTL DEF Spec

-----------------------------------------------------------------------------
Opened == {p \in Procs : proc[p] # "none"}

(* A monitor's thread has taken the death of the agent it watched for      *)
(* its own business: it asks whether to replace it, or has replaced it.    *)
Took(t) == pc[t] \in {"test", "add", "id"} \/ \E p \in Opened : by[p] = t

(* A process is known to the thread that added it, which keeps the agent's *)
(* end of its pipe open until it has returned; a monitor's thread adds one.*)
Parentage ==
  /\ \A t \in Threads : new[t] # NoProc => by[new[t]] = t /\ Main \in heldBy[new[t]]
  /\ \A t \in Threads : pc[t] = "fork" => proc[new[t]] = "pipe"
  /\ \A p \in Opened : by[p] # Main => pc[by[p]] \in {"fork", "enter", "start", "over"}
  /\ \A p, q \in Opened : by[p] = by[q] /\ by[p] # Main => p = q

(* The main thread starts no more agents than the plan asks for.           *)
Roots == {p \in Opened : by[p] = Main}
Coming == toStart.ports + toStart.agents + (IF pc[Main] \in {"add", "id"} THEN 1 ELSE 0)
Within == Cardinality(Roots) + Coming <= GrandAgents + PortAgents

(* What a thread replaces has died, is held open by nobody, and is not in  *)
(* the table any more.                                                     *)
DeathsTaken ==
  \A t \in Procs : Took(t) =>
    /\ obj[t] \in Procs /\ proc[obj[t]] = "dead" /\ heldBy[obj[t]] = {}
    /\ id[obj[t]] = id[t] /\ monitors[id[t]] # obj[t]

(* No death is taken twice: who still waits for the same agent will find   *)
(* no entry.                                                               *)
TakenOnce ==
  /\ \A s, t \in Procs : Took(s) /\ Took(t) /\ obj[s] = obj[t] => s = t
  /\ \A s, t \in Procs : Took(t) /\ pc[s] = "read" /\ obj[s] = obj[t] => monitors[id[s]] = NoProc

StaffInv == WatchInv /\ Parentage /\ Within /\ DeathsTaken /\ (Tripled \/ TakenOnce)

-----------------------------------------------------------------------------
(* There are finitely many processes, so those of the main thread can be   *)
(* counted.                                                                *)
LEMMA RootsAreFinite == IsFiniteSet(Procs) /\ IsFiniteSet(Roots) /\ Cardinality(Roots) \in Nat
  <1>1. IsFiniteSet(Procs)
    <2> DEFINE n == (GrandAgents + PortAgents) * (MaxCommands + 1) + MaxCrashes
    <2>1. n \in Int
      BY MonitorsAssumption
    <2>2. Procs = 1 .. n
      BY DEF Procs
    <2> HIDE DEF n
    <2> QED BY <2>1, <2>2, FS_Interval
  <1>2. Roots \subseteq Procs
    BY DEF Roots, Opened
  <1> QED BY <1>1, <1>2, FS_Subset, FS_CardinalityType

(* What the main thread has still to start is a natural number.            *)
LEMMA ComingType == (TypeOK => Coming \in Nat) /\ (TypeOK' => Coming' \in Nat)
  <1>1. ASSUME TypeOK PROVE toStart.ports \in Nat /\ toStart.agents \in Nat
    BY <1>1, MonitorsAssumption DEF TypeOK
  <1>2. ASSUME TypeOK' PROVE toStart'.ports \in Nat /\ toStart'.agents \in Nat
    BY <1>2, MonitorsAssumption DEF TypeOK
  <1> QED BY <1>1, <1>2 DEF Coming

(* No agent has been opened, and the whole plan is still to come.          *)
LEMMA StaffInit == Init => StaffInv
  <1> SUFFICES ASSUME Init PROVE StaffInv
    OBVIOUS
  <1>1. WatchInv
    BY InitWatched
  <1>2. \A p \in Procs : proc[p] = "none"
    BY DEF Init
  <1>3. Opened = {}
    BY <1>2 DEF Opened
  <1>4. \A t \in Threads : pc[t] \in {"none", "next"} /\ new[t] = NoProc
    BY DEF Init
  <1>5. Parentage
    BY <1>3, <1>4 DEF Parentage
  <1>6. \A t \in Procs : ~Took(t)
    BY <1>3, <1>4, ThreadSets DEF Took
  <1>7. Within
    <2>1. Roots = {} /\ Cardinality(Roots) = 0
      BY <1>3, FS_EmptySet DEF Roots
    <2>2. Coming = PortAgents + GrandAgents
      BY MonitorsAssumption, ThreadSets DEF Init, Coming
    <2> QED BY <2>1, <2>2, MonitorsAssumption DEF Within
  <1> QED BY <1>1, <1>5, <1>6, <1>7 DEF StaffInv, DeathsTaken, TakenOnce

(* Who shares an id goes on to share it.                                   *)
LEMMA TripledStays ==
  ASSUME Tripled, \A q \in Procs : proc[q] # "none" => proc'[q] # "none" /\ id'[q] = id[q]
  PROVE  Tripled'
  <1>1. PICK p \in Procs \ Unused : \E q, r \in Twins(p) : q # r
    BY DEF Tripled
  <1>2. PICK q, r \in Twins(p) : q # r
    BY <1>1
  <1>3. p \in Procs \ Unused' /\ q \in Twins(p)' /\ r \in Twins(p)'
    <2>1. p \in Procs /\ proc[p] # "none" /\ proc'[p] # "none" /\ id'[p] = id[p]
      BY DEF Unused
    <2> QED BY <2>1, <1>2 DEF Twins, Unused
  <1> QED BY <1>2, <1>3 DEF Tripled

(* Steps that add nobody, watch nobody and see no death.                   *)
Calm ==
  /\ UNCHANGED <<id, monitors, new, obj, by>>
  /\ \A p \in Procs : proc'[p] = "none" <=> proc[p] = "none"
  /\ \A p \in Procs : proc[p] = "dead" => proc'[p] = "dead"
  /\ \A p \in Procs : Main \in heldBy[p] => Main \in heldBy'[p]
  /\ \A p \in Procs : heldBy[p] = {} => heldBy'[p] = {}
  /\ \A t \in Threads : pc'[t] = "fork" => pc[t] = "fork" /\ proc'[new[t]] = proc[new[t]]
  /\ \A t \in Procs : pc'[t] \in {"test", "add", "id"} => pc[t] \in {"test", "add", "id"}
  /\ \A t \in Procs : pc'[t] = "read" => pc[t] = "read"
  /\ \A t \in Procs : pc[t] \in {"fork", "enter", "start", "over"}
                        => pc'[t] \in {"fork", "enter", "start", "over"}
  /\ Coming' <= Coming

(* What such a step leaves alone is all that the invariant is about.       *)
LEMMA CalmKeeps ==
  ASSUME StaffInv, WatchInv', Calm
  PROVE  StaffInv'
  <1> USE ThreadSets
  <1>1. Opened' = Opened /\ Roots' = Roots
    BY DEF Calm, Opened, Roots
  <1>2. \A t \in Procs : Took(t)' => Took(t)
    BY <1>1 DEF Took, Calm
  <1>3. TypeOK
    BY DEF StaffInv, WatchInv
  <1>4. Parentage'
    <2>1. \A t \in Threads : new[t] # NoProc => by'[new[t]] = t /\ Main \in heldBy'[new[t]]
      BY <1>3 DEF StaffInv, Parentage, Calm, TypeOK
    <2>2. \A t \in Threads : pc'[t] = "fork" => proc'[new'[t]] = "pipe"
      BY DEF StaffInv, Parentage, Calm
    <2>3. \A p \in Opened' : by'[p] # Main => pc'[by'[p]] \in {"fork", "enter", "start", "over"}
      <3>1. \A p \in Opened : by[p] \in Procs \/ by[p] = Main
        BY <1>3 DEF TypeOK, Opened, Threads
      <3> QED BY <1>1, <3>1 DEF StaffInv, Parentage, Calm
    <2>4. \A p, q \in Opened' : by'[p] = by'[q] /\ by'[p] # Main => p = q
      BY <1>1 DEF StaffInv, Parentage, Calm
    <2> QED BY <2>1, <2>2, <2>3, <2>4 DEF Parentage, Calm
  <1>5. Within'
    <2>1. IsFiniteSet(Roots) /\ Cardinality(Roots) \in Nat
      BY RootsAreFinite
    <2>2. Coming \in Nat /\ Coming' \in Nat
      BY <1>3, ComingType DEF WatchInv
    <2> QED BY <1>1, <2>1, <2>2, MonitorsAssumption DEF StaffInv, Within, Calm
  <1>6. DeathsTaken'
    BY <1>2 DEF StaffInv, DeathsTaken, Calm
  <1>7. Tripled' \/ TakenOnce'
    <2>1. CASE Tripled
      BY <2>1, TripledStays DEF Calm
    <2>2. CASE TakenOnce
      BY <1>2, <2>2 DEF TakenOnce, Calm
    <2> QED BY <2>1, <2>2 DEF StaffInv
  <1> QED BY <1>4, <1>5, <1>6, <1>7 DEF StaffInv

(* The main thread takes one of what is to come into its hands.            *)
LEMMA MainIsCalm ==
  ASSUME StaffInv, StartPortAgent \/ StartGrandAgent \/ StartSignalAgent
  PROVE  Calm
  <1> USE ThreadSets
  <1>1. /\ toStart \in [ports : 0 .. PortAgents, agents : 0 .. GrandAgents]
        /\ pc \in [Threads -> {"none", "next", "read", "test", "over"} \cup Adding]
    BY DEF StaffInv, WatchInv, TypeOK
  <1>2. Coming' <= Coming
    <2>1. toStart.ports \in Nat /\ toStart.agents \in Nat
      BY <1>1, MonitorsAssumption
    <2>2. pc[Main] = "next"
      BY DEF StartPortAgent, StartGrandAgent, StartSignalAgent
    <2>3. \/ /\ pc'[Main] = "add"
             /\ \/ toStart'.ports = toStart.ports - 1 /\ toStart'.agents = toStart.agents
                \/ toStart'.ports = toStart.ports /\ toStart'.agents = toStart.agents - 1
          \/ pc'[Main] = "over" /\ toStart' = toStart
      BY <1>1 DEF StartPortAgent, StartGrandAgent, StartSignalAgent, Go
    <2> QED BY <2>1, <2>2, <2>3 DEF Coming
  <1>3. \A t \in Procs : pc'[t] = pc[t]
    BY <1>1 DEF StartPortAgent, StartGrandAgent, StartSignalAgent, Go
  <1>4. pc'[Main] # "fork"
    BY <1>1 DEF StartPortAgent, StartGrandAgent, StartSignalAgent, Go
  <1>5. UNCHANGED <<agentVars, monitors, new, obj>>
    BY DEF StartPortAgent, StartGrandAgent, StartSignalAgent
  <1> QED BY <1>2, <1>3, <1>4, <1>5 DEF Calm, agentVars, Threads

(* The id a thread takes, or the refusal of one, changes no process.       *)
LEMMA AddIsCalm ==
  ASSUME StaffInv, NEW t \in Threads, NextId(t) \/ TooMany(t)
  PROVE  Calm
  <1> USE ThreadSets
  <1>1. pc \in [Threads -> {"none", "next", "read", "test", "over"} \cup Adding]
    BY DEF StaffInv, WatchInv, TypeOK
  <1>2. toStart.ports \in Nat /\ toStart.agents \in Nat
    BY MonitorsAssumption DEF StaffInv, WatchInv, TypeOK
  <1>3. /\ \A s \in Threads : s # t => pc'[s] = pc[s]
        /\ (pc[t] = "add" /\ pc'[t] = "id") \/ (pc[t] = "id" /\ pc'[t] = "over")
        /\ UNCHANGED <<agentVars, monitors, new, obj, toStart>>
    BY <1>1 DEF NextId, TooMany, Go
  <1>4. Coming' <= Coming
    BY <1>2, <1>3 DEF Coming
  <1> QED BY <1>3, <1>4 DEF Calm, agentVars

(* A monitor that decides whether to replace its agent has taken the death *)
(* already.                                                                *)
LEMMA TestIsCalm ==
  ASSUME StaffInv, NEW t \in Procs, Test(t)
  PROVE  Calm
  <1> USE ThreadSets
  <1>1. pc \in [Threads -> {"none", "next", "read", "test", "over"} \cup Adding]
    BY DEF StaffInv, WatchInv, TypeOK
  <1>2. toStart.ports \in Nat /\ toStart.agents \in Nat
    BY MonitorsAssumption DEF StaffInv, WatchInv, TypeOK
  <1>3. /\ \A s \in Threads : s # t => pc'[s] = pc[s]
        /\ pc[t] = "test" /\ pc'[t] \in {"add", "over"}
        /\ UNCHANGED <<agentVars, monitors, new, obj, toStart>>
    BY <1>1 DEF Test, Go
  <1>4. Coming' <= Coming
    BY <1>2, <1>3 DEF Coming
  <1> QED BY <1>3, <1>4 DEF Calm, agentVars

(* A process is forked by the thread that opened it.                       *)
LEMMA ForkIsCalm ==
  ASSUME StaffInv, NEW t \in Threads, Fork(t)
  PROVE  Calm
  <1> USE ThreadSets
  <1>1. TypeOK /\ new[t] \in Procs /\ proc[new[t]] # "none" /\ proc[new[t]] # "dead"
    BY DEF StaffInv, WatchInv, TypeOK, Rules, NewAreNew, Fork, Parentage
  <1>2. toStart.ports \in Nat /\ toStart.agents \in Nat
    BY <1>1, MonitorsAssumption DEF TypeOK
  <1>3. /\ \A s \in Threads : s # t => pc'[s] = pc[s]
        /\ pc[t] = "fork" /\ pc'[t] = "enter"
        /\ UNCHANGED <<id, by, monitors, new, obj, toStart>>
    BY <1>1 DEF Fork, Go, TypeOK
  <1>4. Coming' <= Coming
    BY <1>2, <1>3 DEF Coming
  <1>5. /\ proc'[new[t]] = "live"
        /\ \A p \in Procs : p # new[t] => proc'[p] = proc[p]
        /\ \A p \in Procs : Main \in heldBy[p] => Main \in heldBy'[p]
        /\ \A p \in Procs : heldBy[p] = {} => heldBy'[p] = {}
    BY <1>1 DEF Fork, TypeOK
  <1>6. \A s \in Threads : pc'[s] = "fork" => pc[s] = "fork" /\ proc'[new[s]] = proc[new[s]]
    <2>1. SUFFICES ASSUME NEW s \in Threads, pc'[s] = "fork"
                   PROVE  pc[s] = "fork" /\ proc'[new[s]] = proc[new[s]]
      OBVIOUS
    <2>2. s # t /\ pc[s] = "fork"
      BY <1>3, <2>1
    <2>3. new[s] \in Procs /\ new[s] # new[t]
      BY <1>1, <2>2 DEF StaffInv, WatchInv, Rules, NewAreNew, TypeOK
    <2> QED BY <1>5, <2>2, <2>3
  <1> QED BY <1>1, <1>3, <1>4, <1>5, <1>6 DEF Calm

(* An agent that ends closes its end of the pipe; none is opened.          *)
LEMMA AgentIsCalm ==
  ASSUME StaffInv, NEW p \in Procs, Crash(p) \/ Obey(p)
  PROVE  Calm
  <1> USE ThreadSets
  <1>1. TypeOK
    BY DEF StaffInv, WatchInv
  <1>2. /\ UNCHANGED <<id, by, monitors, new, obj, pc, toStart>>
        /\ proc[p] \in {"live", "stopping"} /\ proc'[p] \in {"live", "stopping", "dead"}
        /\ \A q \in Procs : q # p => proc'[q] = proc[q]
        /\ \/ heldBy' = heldBy
           \/ heldBy' = [q \in Procs |-> heldBy[q] \ {p}]
    BY <1>1 DEF Crash, Obey, Receive, ReceiveAbort, ReceiveTwo, Exit, OneCommand, Ended, TypeOK
  <1>3. \A t \in Threads : pc[t] = "fork" => new[t] # p
    BY <1>2 DEF StaffInv, Parentage
  <1>4. \A t \in Threads : pc[t] = "fork" => new[t] \in Procs
    BY <1>1 DEF StaffInv, WatchInv, Rules, NewAreNew, TypeOK
  <1>5. Coming' <= Coming
    BY <1>1, <1>2, ComingType DEF Coming
  <1> QED BY <1>2, <1>3, <1>4, <1>5 DEF Calm

(* The control thread's commands and steps start no agent.                 *)
LEMMA ControlIsCalm ==
  ASSUME StaffInv, (\E c \in Commands : Command(c)) \/ ControlStep \/ UNCHANGED vars
  PROVE  Calm
  <1>1. TypeOK
    BY DEF StaffInv, WatchInv
  <1>2. UNCHANGED <<proc, heldBy, id, by, monitors, new, obj, pc, toStart>>
    BY DEF Command, ControlStep, Send, Breaks, Done, vars, agentVars
  <1>3. Coming' <= Coming
    BY <1>1, <1>2, ComingType DEF Coming
  <1> QED BY <1>2, <1>3 DEF Calm

-----------------------------------------------------------------------------
(* Who has no monitor that has run has taken no death.                     *)
LEMMA TookWhen ==
  ASSUME StaffInv, NEW s \in Procs, Took(s)
  PROVE  pc[s] \in {"test", "add", "id", "fork", "enter", "start", "over"} /\ proc[s] # "none"
  <1>1. pc[s] \in {"test", "add", "id", "fork", "enter", "start", "over"}
    BY ThreadSets DEF StaffInv, Parentage, Took
  <1> QED BY <1>1 DEF StaffInv, WatchInv, Rules, UnusedAreIdle

(* OpenPipe: one agent more, of the plan or for a death that is nobody     *)
(* else's.                                                                 *)
LEMMA OpenPipeKeepsStaff ==
  ASSUME StaffInv, WatchInv', NEW t \in Threads, OpenPipe(t)
  PROVE  StaffInv'
  <1> USE ThreadSets
  <1>1. PICK p \in Unused :
          /\ proc' = [proc EXCEPT ![p] = "pipe"]
          /\ id' = [id EXCEPT ![p] = curId]
          /\ heldBy' = [heldBy EXCEPT ![p] = {Main}]
          /\ new' = [new EXCEPT ![t] = p]
          /\ by' = [by EXCEPT ![p] = t]
    BY DEF OpenPipe
  <1>2. /\ p \in Procs /\ proc[p] = "none" /\ pc[t] = "id" /\ pc' = [pc EXCEPT ![t] = "fork"]
        /\ UNCHANGED <<monitors, obj, toStart>>
    BY DEF OpenPipe, Unused, Go
  <1>3. TypeOK
    BY DEF StaffInv, WatchInv
  <1>4. Opened' = Opened \cup {p} /\ p \notin Opened /\ pc[p] = "none"
    BY <1>1, <1>2, <1>3 DEF Opened, TypeOK, StaffInv, WatchInv, Rules, UnusedAreIdle
  <1>5. /\ proc'[p] = "pipe" /\ id'[p] = curId /\ heldBy'[p] = {Main} /\ by'[p] = t
        /\ new'[t] = p /\ pc'[t] = "fork"
        /\ \A q \in Procs : q # p => proc'[q] = proc[q] /\ id'[q] = id[q]
                                     /\ heldBy'[q] = heldBy[q] /\ by'[q] = by[q]
        /\ \A s \in Threads : s # t => new'[s] = new[s] /\ pc'[s] = pc[s]
    BY <1>1, <1>2, <1>3 DEF TypeOK
  <1>6. \A q \in Opened : q \in Procs /\ q # p
    BY <1>4 DEF Opened
  <1>7. \A q \in Opened : by[q] = t => t = Main
    BY <1>2 DEF StaffInv, Parentage
  <1>8. Parentage'
    <2>1. \A s \in Threads : new'[s] # NoProc => by'[new'[s]] = s /\ Main \in heldBy'[new'[s]]
      <3>1. SUFFICES ASSUME NEW s \in Threads, s # t, new[s] # NoProc
                     PROVE  by'[new[s]] = s /\ Main \in heldBy'[new[s]]
        BY <1>5
      <3>2. new[s] \in Procs /\ new[s] # p
        BY <1>2, <1>3, <3>1 DEF TypeOK, StaffInv, WatchInv, Rules, NewAreNew
      <3> QED BY <1>5, <3>1, <3>2 DEF StaffInv, Parentage
    <2>2. \A s \in Threads : pc'[s] = "fork" => proc'[new'[s]] = "pipe"
      <3>1. SUFFICES ASSUME NEW s \in Threads, s # t, pc[s] = "fork"
                     PROVE  proc'[new[s]] = "pipe"
        BY <1>5
      <3>2. new[s] \in Procs /\ new[s] # p
        BY <1>2, <1>3, <3>1 DEF TypeOK, StaffInv, WatchInv, Rules, NewAreNew
      <3> QED BY <1>5, <3>1, <3>2 DEF StaffInv, Parentage
    <2>3. \A q \in Opened' : by'[q] # Main => pc'[by'[q]] \in {"fork", "enter", "start", "over"}
      <3>1. SUFFICES ASSUME NEW q \in Opened, by[q] # Main
                     PROVE  pc'[by[q]] \in {"fork", "enter", "start", "over"}
        BY <1>4, <1>5, <1>6
      <3>2. by[q] \in Threads /\ by[q] # t /\ pc[by[q]] \in {"fork", "enter", "start", "over"}
        BY <1>3, <1>6, <1>7, <3>1 DEF TypeOK, StaffInv, Parentage
      <3> QED BY <1>5, <3>2
    <2>4. \A q, r \in Opened' : by'[q] = by'[r] /\ by'[q] # Main => q = r
      BY <1>4, <1>5, <1>6, <1>7 DEF StaffInv, Parentage
    <2> QED BY <2>1, <2>2, <2>3, <2>4 DEF Parentage
  <1>9. Within'
    <2>1. IsFiniteSet(Roots) /\ Cardinality(Roots) \in Nat
      BY RootsAreFinite
    <2>2. toStart.ports \in Nat /\ toStart.agents \in Nat
      BY <1>3, MonitorsAssumption DEF TypeOK
    <2>3. CASE t = Main
      <3>1. Roots' = Roots \cup {p} /\ p \notin Roots
        BY <1>4, <1>5, <1>6, <2>3 DEF Roots
      <3>2. Cardinality(Roots') = Cardinality(Roots) + 1
        BY <2>1, <3>1, FS_AddElement
      <3>3. Coming' = Coming - 1 /\ Coming \in Nat
        BY <1>2, <1>5, <2>2, <2>3 DEF Coming
      <3> QED BY <2>1, <3>2, <3>3, MonitorsAssumption DEF StaffInv, Within
    <2>4. CASE t # Main
      <3>1. Roots' = Roots
        BY <1>4, <1>5, <1>6, <2>4 DEF Roots
      <3>2. Coming' = Coming
        BY <1>2, <1>5, <2>4 DEF Coming
      <3> QED BY <3>1, <3>2 DEF StaffInv, Within
    <2> QED BY <2>3, <2>4
  <1>10. \A s \in Procs : Took(s)' => Took(s) /\ s # p
    <2>1. \A s \in Procs : Took(s)' => Took(s)
      BY <1>2, <1>4, <1>5, <1>6 DEF Took
    <2> QED BY <1>2, <2>1, TookWhen
  <1>11. DeathsTaken'
    <2>1. SUFFICES ASSUME NEW s \in Procs, Took(s)'
                   PROVE  /\ obj[s] \in Procs /\ proc'[obj[s]] = "dead" /\ heldBy'[obj[s]] = {}
                          /\ id'[obj[s]] = id'[s] /\ monitors[id'[s]] # obj[s]
      BY <1>2 DEF DeathsTaken
    <2>2. /\ s # p /\ obj[s] \in Procs /\ proc[obj[s]] = "dead" /\ heldBy[obj[s]] = {}
          /\ id[obj[s]] = id[s] /\ monitors[id[s]] # obj[s]
      BY <1>10, <2>1 DEF StaffInv, DeathsTaken
    <2>3. obj[s] # p
      BY <1>2, <2>2
    <2> QED BY <1>5, <2>2, <2>3
  <1>12. Tripled' \/ TakenOnce'
    <2>1. CASE Tripled
      BY <1>5, <1>2, <2>1, TripledStays
    <2>2. CASE TakenOnce
      <3>1. \A s \in Procs : pc'[s] = "read" => pc[s] = "read" /\ s # p
        BY <1>4, <1>5
      <3> QED BY <1>2, <1>5, <1>10, <2>2, <3>1 DEF TakenOnce
    <2> QED BY <2>1, <2>2 DEF StaffInv
  <1> QED BY <1>8, <1>9, <1>11, <1>12 DEF StaffInv

(* Enter: whose entry is replaced has a twin, and if a death was taken     *)
(* twice through it there are three.                                       *)
LEMMA EnterKeepsStaff ==
  ASSUME StaffInv, WatchInv', NEW t \in Threads, Enter(t)
  PROVE  StaffInv'
  <1> USE ThreadSets
  <1>1. TypeOK
    BY DEF StaffInv, WatchInv
  <1>2. PICK p : p = new[t]
    OBVIOUS
  <1>3. /\ p \in Procs /\ pc[p] = "none" /\ proc[p] # "none" /\ by[p] = t /\ Main \in heldBy[p]
        /\ id[p] \in 1 .. MaxId
    BY <1>1, <1>2 DEF Enter, TypeOK, StaffInv, WatchInv, Rules, NewAreNew, IdsTaken, Parentage
  <1>4. /\ UNCHANGED <<proc, heldBy, id, by, new, obj, toStart>>
        /\ monitors'[id[p]] = p /\ \A n \in 1 .. MaxId : n # id[p] => monitors'[n] = monitors[n]
        /\ pc[t] = "enter" /\ pc'[t] = "start" /\ \A s \in Threads : s # t => pc'[s] = pc[s]
    BY <1>1, <1>2, <1>3 DEF Enter, Entry, Go, agentVars, TypeOK
  <1>5. Opened' = Opened /\ Roots' = Roots /\ Coming' = Coming
    BY <1>4 DEF Opened, Roots, Coming
  <1>6. Parentage'
    <2>1. \A q \in Opened : by[q] \in Threads
      BY <1>1 DEF Opened, TypeOK
    <2> QED BY <1>4, <1>5, <2>1 DEF StaffInv, Parentage
  <1>7. \A s \in Procs : /\ Took(s)' => Took(s)
                         /\ pc'[s] = "read" => pc[s] = "read"
    BY <1>4, <1>5 DEF Took
  <1>8. \A s \in Procs : Took(s) => s # p /\ proc[s] # "none" /\ id[s] \in 1 .. MaxId
    BY <1>3, TookWhen DEF StaffInv, WatchInv, Rules, IdsTaken
  <1>9. DeathsTaken'
    <2>1. SUFFICES ASSUME NEW s \in Procs, Took(s)
                   PROVE  /\ obj[s] \in Procs /\ proc[obj[s]] = "dead" /\ heldBy[obj[s]] = {}
                          /\ id[obj[s]] = id[s] /\ monitors'[id[s]] # obj[s]
      BY <1>4, <1>7 DEF DeathsTaken
    <2>2. /\ obj[s] \in Procs /\ proc[obj[s]] = "dead" /\ heldBy[obj[s]] = {}
          /\ id[obj[s]] = id[s] /\ monitors[id[s]] # obj[s]
      BY <2>1 DEF StaffInv, DeathsTaken
    <2> QED BY <1>3, <1>4, <1>8, <2>1, <2>2
  <1>10. Tripled' \/ TakenOnce'
    <2>1. CASE Tripled
      BY <1>4, <2>1, TripledStays
    <2>2. CASE TakenOnce /\ \E s, u \in Procs : /\ Took(u) /\ pc[s] = "read" /\ obj[s] = obj[u]
                                                 /\ id[s] = id[p]
      <3>1. PICK s \in Procs, u \in Procs : /\ Took(u) /\ pc[s] = "read" /\ obj[s] = obj[u]
                                            /\ id[s] = id[p]
        BY <2>2
      <3>2. s # u /\ u # p /\ s # p /\ proc[u] # "none"
        BY <1>3, <1>8, <3>1, TookWhen
      <3>3. proc[s] # "none" /\ id[obj[s]] = id[s] /\ id[obj[u]] = id[u]
        BY <3>1 DEF StaffInv, DeathsTaken, WatchInv, Rules, ReadersOwn, UnusedAreIdle
      <3>4. s \in Twins(p) /\ u \in Twins(p) /\ p \in Procs \ Unused
        BY <1>3, <3>1, <3>2, <3>3 DEF Twins, Unused
      <3>5. Tripled
        BY <3>2, <3>4 DEF Tripled
      <3> QED BY <1>4, <3>5, TripledStays
    <2>3. CASE TakenOnce /\ ~\E s, u \in Procs : /\ Took(u) /\ pc[s] = "read" /\ obj[s] = obj[u]
                                                  /\ id[s] = id[p]
      <3>1. \A s \in Procs : pc[s] = "read" => id[s] \in 1 .. MaxId
        BY DEF StaffInv, WatchInv, Rules, IdsTaken, UnusedAreIdle
      <3> QED BY <1>4, <1>7, <2>3, <3>1 DEF TakenOnce
    <2> QED BY <2>1, <2>2, <2>3 DEF StaffInv
  <1> QED BY <1>5, <1>6, <1>9, <1>10 DEF StaffInv, Within

(* StartMonitor: the monitor waits for an agent whose death is not taken.  *)
LEMMA StartMonitorKeepsStaff ==
  ASSUME StaffInv, WatchInv', NEW t \in Threads, StartMonitor(t)
  PROVE  StaffInv'
  <1> USE ThreadSets
  <1>1. TypeOK
    BY DEF StaffInv, WatchInv
  <1>2. PICK p : p = new[t]
    OBVIOUS
  <1>3. /\ p \in Procs /\ pc[p] = "none" /\ proc[p] # "none" /\ by[p] = t /\ p # t
        /\ id[p] \in 1 .. MaxId
    BY <1>1, <1>2 DEF StartMonitor, TypeOK, StaffInv, WatchInv, Rules, NewAreNew, IdsTaken, Parentage
  <1>4. PICK m : m = monitors[id[p]]
    OBVIOUS
  <1>5. /\ UNCHANGED <<proc, id, by, monitors, toStart>>
        /\ new'[t] = NoProc /\ \A s \in Threads : s # t => new'[s] = new[s]
        /\ obj'[p] = m /\ \A s \in Threads : s # p => obj'[s] = obj[s]
        /\ pc[t] = "start" /\ pc'[t] = After(t)
        /\ pc'[p] = IF m = NoProc THEN "none" ELSE "read"
        /\ \A s \in Threads : s # p /\ s # t => pc'[s] = pc[s]
        /\ \A q \in Procs : q # p => heldBy'[q] = heldBy[q]
        /\ heldBy'[p] = heldBy[p] \ {Main}
    BY <1>1, <1>2, <1>3, <1>4 DEF StartMonitor, Entry, TypeOK
  <1>6. Opened' = Opened /\ Roots' = Roots /\ Coming' = Coming
    <2>1. p # Main
      BY <1>3
    <2>2. pc'[Main] \in {"add", "id"} <=> pc[Main] \in {"add", "id"}
      BY <1>5, <2>1 DEF After
    <2>3. Coming' = Coming
      BY <1>5, <2>2 DEF Coming
    <2> QED BY <1>5, <2>3 DEF Opened, Roots
  <1>7. Parentage'
    <2>1. \A s \in Threads : new'[s] # NoProc => by[new'[s]] = s /\ Main \in heldBy'[new'[s]]
      <3>1. SUFFICES ASSUME NEW s \in Threads, s # t, new[s] # NoProc
                     PROVE  by[new[s]] = s /\ Main \in heldBy'[new[s]]
        BY <1>5
      <3>2. new[s] \in Procs /\ new[s] # p
        BY <1>1, <1>2, <3>1 DEF TypeOK, StaffInv, WatchInv, Rules, NewAreNew
      <3> QED BY <1>5, <3>1, <3>2 DEF StaffInv, Parentage
    <2>2. \A s \in Threads : pc'[s] = "fork" => proc[new'[s]] = "pipe"
      BY <1>5 DEF StaffInv, Parentage, After
    <2>3. \A q \in Opened : by[q] # Main => pc'[by[q]] \in {"fork", "enter", "start", "over"}
      <3>1. SUFFICES ASSUME NEW q \in Opened, by[q] # Main
                     PROVE  pc'[by[q]] \in {"fork", "enter", "start", "over"}
        OBVIOUS
      <3>2. by[q] \in Threads /\ by[q] # p /\ pc[by[q]] \in {"fork", "enter", "start", "over"}
        BY <1>1, <1>3, <3>1 DEF Opened, TypeOK, StaffInv, Parentage
      <3> QED BY <1>5, <3>1, <3>2 DEF After
    <2> QED BY <1>5, <1>6, <2>1, <2>2, <2>3 DEF StaffInv, Parentage
  <1>8. \A s \in Procs : Took(s)' => Took(s) /\ s # p
    <2>1. \A s \in Procs : Took(s)' => Took(s)
      BY <1>5, <1>6 DEF Took, After
    <2> QED BY <1>3, <2>1, TookWhen
  <1>9. DeathsTaken'
    <2>1. SUFFICES ASSUME NEW s \in Procs, Took(s), s # p
                   PROVE  /\ obj[s] \in Procs /\ proc[obj[s]] = "dead" /\ heldBy'[obj[s]] = {}
                          /\ id[obj[s]] = id[s] /\ monitors[id[s]] # obj[s]
      BY <1>5, <1>8 DEF DeathsTaken
    <2>2. /\ obj[s] \in Procs /\ proc[obj[s]] = "dead" /\ heldBy[obj[s]] = {}
          /\ id[obj[s]] = id[s] /\ monitors[id[s]] # obj[s]
      BY <2>1 DEF StaffInv, DeathsTaken
    <2> QED BY <1>5, <2>2
  <1>10. Tripled' \/ TakenOnce'
    <2>1. CASE Tripled
      BY <1>5, <2>1, TripledStays
    <2>2. CASE TakenOnce
      <3>1. ASSUME m # NoProc, NEW u \in Procs, Took(u), obj[u] = m
            PROVE  FALSE
        <4>1. id[m] = id[p]
          BY <1>3, <1>4, <3>1 DEF StaffInv, WatchInv, Rules, EntriesFit
        <4> QED BY <1>4, <3>1, <4>1 DEF StaffInv, DeathsTaken
      <3>2. \A s \in Procs : pc'[s] = "read" => (pc[s] = "read" /\ s # p) \/ (s = p /\ m # NoProc)
        BY <1>3, <1>5 DEF After
      <3>3. \A s, u \in Procs : Took(s)' /\ Took(u)' /\ obj'[s] = obj'[u] => s = u
        BY <1>5, <1>8, <2>2 DEF TakenOnce
      <3>4. ASSUME NEW s \in Procs, NEW u \in Procs, Took(u)', pc'[s] = "read", obj'[s] = obj'[u]
            PROVE  monitors'[id'[s]] = NoProc
        <4>1. Took(u) /\ u # p /\ obj'[u] = obj[u]
          BY <1>5, <1>8, <3>4
        <4>2. s # p
          BY <1>5, <3>1, <3>2, <3>4, <4>1
        <4> QED BY <1>5, <2>2, <3>2, <3>4, <4>1, <4>2 DEF TakenOnce
      <3> QED BY <3>3, <3>4 DEF TakenOnce
    <2> QED BY <2>1, <2>2 DEF StaffInv
  <1> QED BY <1>6, <1>7, <1>9, <1>10 DEF StaffInv, Within

(* Eof: the monitor takes a death only when it finds an entry, which it    *)
(* deletes.                                                                *)
LEMMA EofKeepsStaff ==
  ASSUME StaffInv, WatchInv', NEW t \in Procs, Eof(t)
  PROVE  StaffInv'
  <1> USE ThreadSets
  <1>1. TypeOK
    BY DEF StaffInv, WatchInv
  <1>2. /\ pc[t] = "read" /\ obj[t] \in Procs /\ id[obj[t]] = id[t]
        /\ proc[obj[t]] = "dead" /\ heldBy[obj[t]] = {} /\ id[t] \in 1 .. MaxId
    BY <1>1 DEF Eof, Gone, TypeOK, StaffInv, WatchInv, Rules, ReadersOwn, IdsTaken, UnusedAreIdle
  <1>3. /\ UNCHANGED <<proc, heldBy, id, by, new, obj, toStart>>
        /\ monitors'[id[t]] = NoProc /\ \A n \in 1 .. MaxId : n # id[t] => monitors'[n] = monitors[n]
        /\ pc'[t] = IF monitors[id[t]] = NoProc THEN "over" ELSE "test"
        /\ \A s \in Threads : s # t => pc'[s] = pc[s]
    BY <1>1, <1>2 DEF Eof, Go, agentVars, TypeOK
  <1>4. Opened' = Opened /\ Roots' = Roots /\ Coming' = Coming
    BY <1>3 DEF Opened, Roots, Coming
  <1>5. Parentage'
    <2>1. \A q \in Opened : by[q] \in Threads
      BY <1>1 DEF Opened, TypeOK
    <2>2. \A q \in Opened : by[q] # t
      BY <1>2 DEF StaffInv, Parentage
    <2> QED BY <1>3, <1>4, <2>1, <2>2 DEF StaffInv, Parentage
  <1>6. /\ \A s \in Procs : Took(s)' => Took(s) \/ (s = t /\ monitors[id[t]] # NoProc)
        /\ \A s \in Procs : pc'[s] = "read" => pc[s] = "read" /\ s # t
    BY <1>3, <1>4 DEF Took
  <1>7. \A s \in Procs : Took(s) => id[s] \in 1 .. MaxId
    BY TookWhen DEF StaffInv, WatchInv, Rules, IdsTaken
  <1>8. DeathsTaken'
    <2>1. SUFFICES ASSUME NEW s \in Procs, Took(s)'
                   PROVE  /\ obj[s] \in Procs /\ proc[obj[s]] = "dead" /\ heldBy[obj[s]] = {}
                          /\ id[obj[s]] = id[s] /\ monitors'[id[s]] # obj[s]
      BY <1>3 DEF DeathsTaken
    <2>2. CASE s = t
      BY <1>2, <1>3, <2>2
    <2>3. CASE Took(s)
      <3>1. /\ obj[s] \in Procs /\ proc[obj[s]] = "dead" /\ heldBy[obj[s]] = {}
            /\ id[obj[s]] = id[s] /\ monitors[id[s]] # obj[s]
        BY <2>3 DEF StaffInv, DeathsTaken
      <3> QED BY <1>3, <1>7, <2>3, <3>1
    <2> QED BY <1>6, <2>1, <2>2, <2>3
  <1>9. Tripled' \/ TakenOnce'
    <2>1. CASE Tripled
      BY <1>3, <2>1, TripledStays
    <2>2. CASE TakenOnce
      <3>1. \A s \in Procs : Took(s) /\ obj[s] = obj[t] => monitors[id[t]] = NoProc
        BY <1>2, <2>2 DEF TakenOnce
      <3>2. \A s, u \in Procs : Took(s)' /\ Took(u)' /\ obj'[s] = obj'[u] => s = u
        BY <1>3, <1>6, <2>2, <3>1 DEF TakenOnce
      <3>3. ASSUME NEW s \in Procs, NEW u \in Procs, Took(u)', pc'[s] = "read", obj'[s] = obj'[u]
            PROVE  monitors'[id'[s]] = NoProc
        <4>1. pc[s] = "read" /\ s # t /\ id[obj[s]] = id[s] /\ id[s] \in 1 .. MaxId
          BY <1>6, <3>3 DEF StaffInv, WatchInv, Rules, ReadersOwn, IdsTaken, UnusedAreIdle
        <4>2. CASE u = t
          BY <1>2, <1>3, <3>3, <4>1, <4>2
        <4>3. CASE Took(u)
          <5>1. monitors[id[s]] = NoProc
            BY <1>3, <2>2, <3>3, <4>1, <4>3 DEF TakenOnce
          <5> QED BY <1>3, <4>1, <5>1
        <4> QED BY <1>6, <3>3, <4>2, <4>3
      <3> QED BY <3>2, <3>3 DEF TakenOnce
    <2> QED BY <2>1, <2>2 DEF StaffInv
  <1> QED BY <1>4, <1>5, <1>8, <1>9 DEF StaffInv, Within

(* Every step.                                                             *)
LEMMA StaffStep == StaffInv /\ [Next]_vars => StaffInv'
  <1> SUFFICES ASSUME StaffInv, [Next]_vars PROVE StaffInv'
    OBVIOUS
  <1>1. WatchInv'
    BY StepWatched DEF StaffInv
  <1>2. ASSUME NEW t \in Threads, Add(t) PROVE StaffInv'
    BY <1>1, <1>2, AddIsCalm, ForkIsCalm, CalmKeeps, OpenPipeKeepsStaff, EnterKeepsStaff,
       StartMonitorKeepsStaff DEF Add
  <1>3. CASE MainStep
    BY <1>1, <1>2, <1>3, MainIsCalm, CalmKeeps, ThreadSets DEF MainStep
  <1>4. CASE \E t \in Procs : MonitorStep(t)
    BY <1>1, <1>2, <1>4, TestIsCalm, CalmKeeps, EofKeepsStaff, ThreadSets DEF MonitorStep
  <1>5. CASE \E p \in Procs : Crash(p) \/ Obey(p)
    BY <1>1, <1>5, AgentIsCalm, CalmKeeps
  <1>6. CASE (\E c \in Commands : Command(c)) \/ ControlStep \/ UNCHANGED vars
    BY <1>1, <1>6, ControlIsCalm, CalmKeeps
  <1> QED BY <1>3, <1>4, <1>5, <1>6 DEF Next

-----------------------------------------------------------------------------
(* Two finite sets apart from each other, side by side in a third.         *)
LEMMA TwoApart ==
  ASSUME NEW U, IsFiniteSet(U), NEW A, NEW B, A \subseteq U, B \subseteq U, A \cap B = {}
  PROVE  /\ Cardinality(A) \in Nat /\ Cardinality(B) \in Nat /\ Cardinality(U) \in Nat
         /\ Cardinality(A) + Cardinality(B) <= Cardinality(U)
  <1>1. IsFiniteSet(A) /\ IsFiniteSet(B) /\ IsFiniteSet(A \cup B)
    BY FS_Subset, FS_Union
  <1>2. Cardinality(A \cup B) = Cardinality(A) + Cardinality(B) - Cardinality(A \cap B)
    BY <1>1, FS_Union
  <1>3. Cardinality(A \cap B) = 0
    BY FS_EmptySet
  <1>4. A \cup B \in SUBSET U
    OBVIOUS
  <1>5. Cardinality(A \cup B) <= Cardinality(U)
    BY <1>4, FS_Subset
  <1>6. /\ Cardinality(A) \in Nat /\ Cardinality(B) \in Nat /\ Cardinality(U) \in Nat
    BY <1>1, FS_CardinalityType
  <1> QED BY <1>2, <1>3, <1>5, <1>6

(* One set within another when a function tells its elements apart there.  *)
LEMMA NoMore ==
  ASSUME NEW S, NEW T, IsFiniteSet(T), NEW f \in [S -> T],
         \A x, y \in S : f[x] = f[y] => x = y
  PROVE  IsFiniteSet(S) /\ Cardinality(S) <= Cardinality(T)
  <1>1. f \in Injection(S, T)
    BY DEF Injection, IsInjective
  <1> QED BY <1>1, FS_Injection

(* Every agent beyond those of the plan has a dead one which no other      *)
(* replaces.                                                               *)
LEMMA StaffedEnough == StaffInv => NeverOverstaffed
  <1> SUFFICES ASSUME StaffInv, ~Tripled PROVE NeverOverstaffed
    BY DEF NeverOverstaffed
  <1> USE ThreadSets
  <1>1. TypeOK /\ TakenOnce
    BY DEF StaffInv, WatchInv
  <1>2. PICK R, F, A, D, K :
          /\ R = {p \in Procs : Running(p)}
          /\ F = {t \in Procs : pc[t] = "fork"}
          /\ A = {t \in Procs : pc[t] \in {"add", "id"}}
          /\ D = {p \in Procs : proc[p] = "dead"}
          /\ K = {p \in Opened : by[p] # Main}
    OBVIOUS
  <1>3. PICK P : P = {p \in Procs : proc[p] = "pipe"}
    OBVIOUS
  <1>4. IsFiniteSet(Procs)
    BY RootsAreFinite
  <1>5. R \subseteq Procs /\ F \subseteq Procs /\ A \subseteq Procs /\ D \subseteq Procs
        /\ K \subseteq Procs /\ P \subseteq Procs /\ Opened \subseteq Procs /\ Roots \subseteq Procs
    BY <1>2, <1>3 DEF Opened, Roots
  <1>6. IsFiniteSet(R) /\ IsFiniteSet(F) /\ IsFiniteSet(A) /\ IsFiniteSet(D)
        /\ IsFiniteSet(K) /\ IsFiniteSet(P) /\ IsFiniteSet(Opened) /\ IsFiniteSet(Roots)
    BY <1>4, <1>5, FS_Subset
  (* Who adds has a process that is not running yet.                       *)
  <1>7. Cardinality(F) <= Cardinality(P)
    <2>1. [t \in F |-> new[t]] \in [F -> P]
      BY <1>1, <1>2, <1>3 DEF TypeOK, StaffInv, WatchInv, Rules, NewAreNew, Parentage
    <2>2. \A s, t \in F : new[s] = new[t] => s = t
      BY <1>2 DEF StaffInv, WatchInv, Rules, NewAreNew
    <2> QED BY <1>6, <2>1, <2>2, NoMore
  (* Every process that a monitor added, or will add, is for a dead one.   *)
  <1>8. PICK X : X = {obj[by[p]] : p \in K}
    OBVIOUS
  <1>9. PICK Y : Y = {obj[t] : t \in A}
    OBVIOUS
  <1>10. \A p \in K : by[p] \in Procs /\ Took(by[p]) /\ pc[by[p]] \notin {"add", "id"}
    BY <1>1, <1>2 DEF TypeOK, Threads, Opened, Took, StaffInv, Parentage
  <1>11. \A t \in A : t \in Procs /\ Took(t) /\ pc[t] \in {"add", "id"}
    BY <1>2 DEF Took
  <1>12. X \subseteq D /\ Y \subseteq D
    BY <1>2, <1>8, <1>9, <1>10, <1>11 DEF StaffInv, DeathsTaken
  <1>13. X \cap Y = {}
    BY <1>1, <1>8, <1>9, <1>10, <1>11 DEF TakenOnce
  <1>14. Cardinality(K) <= Cardinality(X)
    <2>1. [p \in K |-> obj[by[p]]] \in [K -> X] /\ IsFiniteSet(X)
      BY <1>6, <1>8, <1>12, FS_Subset
    <2>2. \A p, q \in K : obj[by[p]] = obj[by[q]] => p = q
      BY <1>1, <1>2, <1>10 DEF TakenOnce, StaffInv, Parentage
    <2> QED BY <2>1, <2>2, NoMore
  <1>15. Cardinality(A) <= Cardinality(Y)
    <2>1. [t \in A |-> obj[t]] \in [A -> Y] /\ IsFiniteSet(Y)
      BY <1>6, <1>9, <1>12, FS_Subset
    <2>2. \A s, t \in A : obj[s] = obj[t] => s = t
      BY <1>1, <1>11 DEF TakenOnce
    <2> QED BY <2>1, <2>2, NoMore
  <1>16. Cardinality(X) + Cardinality(Y) <= Cardinality(D) /\ Cardinality(X) \in Nat /\ Cardinality(Y) \in Nat
    BY <1>6, <1>12, <1>13, TwoApart
  <1>17. /\ Cardinality(R) + Cardinality(P) <= Cardinality(R \cup P)
         /\ Cardinality(R \cup P) + Cardinality(D) <= Cardinality(Opened)
    <2>1. R \cap P = {} /\ (R \cup P) \cap D = {} /\ R \cup P \subseteq Opened /\ D \subseteq Opened
      BY <1>2, <1>3 DEF Running, Opened
    <2>2. IsFiniteSet(R \cup P)
      BY <1>6, <2>1, FS_Subset
    <2> QED BY <1>6, <2>1, <2>2, TwoApart
  <1>18. Cardinality(Opened) <= Cardinality(Roots) + Cardinality(K)
    <2>1. Opened = Roots \cup K /\ Roots \cap K = {}
      BY <1>2 DEF Roots
    <2>2. Cardinality(Roots \cup K) = Cardinality(Roots) + Cardinality(K) - Cardinality(Roots \cap K)
      BY <1>6, FS_Union
    <2>3. Cardinality(Roots) \in Nat /\ Cardinality(K) \in Nat /\ Cardinality(Roots \cap K) = 0
      BY <1>6, <2>1, FS_CardinalityType, FS_EmptySet
    <2> QED BY <2>1, <2>2, <2>3
  <1>23. PICK W : W = {t \in Procs : pc[t] \in {"add", "id", "fork"}}
    OBVIOUS
  <1>19. Cardinality(W) = Cardinality(A) + Cardinality(F)
    <2>1. W = A \cup F /\ A \cap F = {}
      BY <1>2, <1>23
    <2>2. Cardinality(A \cup F) = Cardinality(A) + Cardinality(F) - Cardinality(A \cap F)
      BY <1>6, FS_Union
    <2>3. Cardinality(A) \in Nat /\ Cardinality(F) \in Nat /\ Cardinality(A \cap F) = 0
      BY <1>6, <2>1, FS_CardinalityType, FS_EmptySet
    <2> QED BY <2>1, <2>2, <2>3
  <1>20. /\ Cardinality(R) \in Nat /\ Cardinality(F) \in Nat /\ Cardinality(A) \in Nat
         /\ Cardinality(D) \in Nat /\ Cardinality(K) \in Nat /\ Cardinality(P) \in Nat
         /\ Cardinality(Roots) \in Nat /\ Cardinality(Opened) \in Nat /\ Cardinality(R \cup P) \in Nat
    BY <1>6, FS_Union, FS_CardinalityType
  <1>21. Coming \in Nat /\ Cardinality(Roots) + Coming <= GrandAgents + PortAgents
    BY <1>1, ComingType DEF StaffInv, Within
  <1>22. Cardinality(R) + (Cardinality(A) + Cardinality(F)) <= GrandAgents + PortAgents
    BY <1>7, <1>14, <1>15, <1>16, <1>17, <1>18, <1>20, <1>21, MonitorsAssumption
  <1> QED BY <1>2, <1>19, <1>22, <1>23 DEF NeverOverstaffed

(* However the threads interleave, the parent stays well typed and never   *)
(* has more agents, with those it is about to fork, than the plan asks     *)
(* for, unless three of them share an id (GrandAgentMonitor.add, run,      *)
(* agent_aborted).                                                         *)
THEOREM StaffingHolds == Spec => []Staffing
  <1>1. StaffInv => Staffing
    BY StaffedEnough DEF StaffInv, WatchInv, Staffing
  <1> QED BY <1>1, StaffInit, StaffStep, PTL DEF Spec

-----------------------------------------------------------------------------
(* Once the server is shutting down every agent that runs has been told,   *)
(* or is about to be told by the command in progress, but for those named. *)
FinaleInv ==
  finale =>
    /\ pc[Main] = "over" /\ \A t \in Threads : pc[t] \in Adding => t \in late
    /\ \A p \in Procs : Running(p) =>
         \/ p \in told \/ Twins(p) # {} \/ by[p] \in late
         \/ control.cmd = "broken"
         \/ control.cmd \in {"shutdown", "abort"} /\ p \in control.copy \ control.done

(* Steps that start no thread on add() and leave commands and agents alone.*)
LEMMA FinaleKept ==
  ASSUME TypeOK, FinaleInv, UNCHANGED <<finale, told, late, control>>,
         \A q \in Procs : proc[q] # "none" => proc'[q] # "none" /\ id'[q] = id[q] /\ by'[q] = by[q],
         finale /\ pc[Main] = "over" => pc'[Main] = "over",
         \A t \in Threads : finale /\ pc'[t] \in Adding => pc[t] \in Adding,
         \A p \in Procs : finale /\ Running(p)' => Running(p) \/ by'[p] \in late
  PROVE  FinaleInv'
  <1>1. \A p \in Procs : Running(p) /\ Twins(p) # {} => (Twins(p) # {})'
    BY TwinsStay DEF Running
  <1>2. \A p \in Procs : Running(p) => by'[p] = by[p]
    BY DEF Running
  <1> QED BY <1>1, <1>2 DEF FinaleInv

(* No thread of the parent forks an agent that nobody will tell, unless it *)
(* had passed the test of finale before.                                   *)
LEMMA FinaleOfThreads ==
  ASSUME StaffInv, FinaleInv, MainStep \/ \E t \in Procs : MonitorStep(t)
  PROVE  FinaleInv'
  <1> USE ThreadSets
  <1>1. TypeOK
    BY DEF StaffInv, WatchInv
  <1>2. UNCHANGED <<finale, told, late, control>>
    BY DEF MainStep, MonitorStep, Add, StartPortAgent, StartGrandAgent, StartSignalAgent, NextId, TooMany,
       OpenPipe, Fork, Enter, StartMonitor, Eof, Test, ruleVars
  <1>3. ASSUME NEW t \in Threads, Add(t)
        PROVE  FinaleInv'
    <2>1. CASE NextId(t) \/ TooMany(t)
      <3>1. /\ UNCHANGED <<proc, id, by>>
            /\ \A s \in Threads : s # t => pc'[s] = pc[s]
            /\ pc[t] \in Adding
        BY <1>1, <2>1 DEF NextId, TooMany, Go, agentVars, TypeOK, Adding
      <3> QED BY <1>1, <1>2, <3>1, FinaleKept DEF Adding, Running
    <2>2. CASE OpenPipe(t)
      <3>1. PICK p \in Unused : /\ proc' = [proc EXCEPT ![p] = "pipe"]
                                /\ id' = [id EXCEPT ![p] = curId] /\ by' = [by EXCEPT ![p] = t]
        BY <2>2 DEF OpenPipe
      <3>2. p \in Procs /\ proc[p] = "none" /\ pc[t] \in Adding /\ pc' = [pc EXCEPT ![t] = "fork"]
        BY <2>2 DEF OpenPipe, Unused, Go, Adding
      <3>3. \A q \in Procs : q # p => proc'[q] = proc[q] /\ id'[q] = id[q] /\ by'[q] = by[q]
        BY <1>1, <3>1 DEF TypeOK
      <3>4. \A q \in Procs : Running(q)' => Running(q)
        BY <1>1, <3>1, <3>2, <3>3 DEF Running, TypeOK
      <3>5. \A s \in Threads : pc'[s] \in Adding => pc[s] \in Adding
        BY <1>1, <3>2 DEF TypeOK
      <3>6. pc[Main] = "over" => pc'[Main] = "over"
        BY <1>1, <3>2 DEF TypeOK, Adding
      <3> QED BY <1>1, <1>2, <3>2, <3>3, <3>4, <3>5, <3>6, FinaleKept
    <2>3. CASE Fork(t)
      <3>1. new[t] \in Procs /\ by[new[t]] = t /\ proc[new[t]] # "none" /\ pc[t] \in Adding
        BY <1>1, <2>3 DEF Fork, Adding, TypeOK, StaffInv, WatchInv, Rules, NewAreNew, Parentage
      <3>2. /\ UNCHANGED <<id, by>> /\ proc' = [proc EXCEPT ![new[t]] = "live"]
            /\ pc' = [pc EXCEPT ![t] = "enter"]
        BY <2>3 DEF Fork, Go
      <3>3. \A q \in Procs : q # new[t] => proc'[q] = proc[q]
        BY <1>1, <3>2 DEF TypeOK
      <3>4. \A q \in Procs : finale /\ Running(q)' => Running(q) \/ by'[q] \in late
        BY <3>1, <3>2, <3>3 DEF Running, FinaleInv
      <3>5. \A s \in Threads : pc'[s] \in Adding => pc[s] \in Adding
        BY <1>1, <3>1, <3>2 DEF TypeOK
      <3>6. pc[Main] = "over" => pc'[Main] = "over"
        BY <1>1, <3>1, <3>2 DEF TypeOK, Adding
      <3>7. \A q \in Procs : proc[q] # "none" => proc'[q] # "none" /\ id'[q] = id[q] /\ by'[q] = by[q]
        BY <1>1, <3>1, <3>2, <3>3 DEF TypeOK
      <3> QED BY <1>1, <1>2, <3>4, <3>5, <3>6, <3>7, FinaleKept
    <2>4. CASE Enter(t)
      <3>1. /\ UNCHANGED <<proc, id, by>> /\ pc[t] \in Adding /\ pc' = [pc EXCEPT ![t] = "start"]
        BY <2>4 DEF Enter, Go, agentVars, Adding
      <3>2. /\ \A s \in Threads : pc'[s] \in Adding => pc[s] \in Adding
            /\ pc[Main] = "over" => pc'[Main] = "over"
        BY <1>1, <3>1 DEF TypeOK, Adding
      <3> QED BY <1>1, <1>2, <3>1, <3>2, FinaleKept DEF Running
    <2>5. CASE StartMonitor(t)
      <3>1. new[t] \in Procs /\ pc[new[t]] = "none" /\ pc[t] = "start"
        BY <1>1, <2>5 DEF StartMonitor, TypeOK, StaffInv, WatchInv, Rules, NewAreNew
      <3>2. /\ UNCHANGED <<proc, id, by>>
            /\ pc'[t] \in {"next", "over"} /\ pc'[new[t]] \in {"none", "read"}
            /\ \A s \in Threads : s # t /\ s # new[t] => pc'[s] = pc[s]
        BY <1>1, <2>5, <3>1 DEF StartMonitor, After, TypeOK
      <3>3. /\ \A s \in Threads : pc'[s] \in Adding => pc[s] \in Adding
            /\ pc[Main] = "over" => pc'[Main] = "over"
        BY <3>1, <3>2 DEF Adding
      <3> QED BY <1>1, <1>2, <3>2, <3>3, FinaleKept DEF Running
    <2> QED BY <1>3, <2>1, <2>2, <2>3, <2>4, <2>5 DEF Add
  <1>4. CASE StartPortAgent \/ StartGrandAgent \/ StartSignalAgent
    <2>1. UNCHANGED <<proc, id, by>> /\ pc[Main] = "next"
      BY <1>4 DEF StartPortAgent, StartGrandAgent, StartSignalAgent, agentVars
    <2>2. ~finale
      BY <2>1 DEF FinaleInv
    <2> QED BY <1>2, <2>2 DEF FinaleInv
  <1>5. ASSUME NEW t \in Procs, Eof(t) \/ Test(t)
        PROVE  FinaleInv'
    <2>1. /\ UNCHANGED <<proc, id, by>>
          /\ \A s \in Threads : s # t => pc'[s] = pc[s]
          /\ finale => pc'[t] \in {"over", "test"}
      BY <1>1, <1>5 DEF Eof, Test, Replaces, Go, agentVars, TypeOK
    <2> QED BY <1>1, <1>2, <2>1, FinaleKept DEF Running, Adding
  <1> QED BY <1>3, <1>4, <1>5 DEF MainStep, MonitorStep

(* An agent that ends need not be told.                                    *)
LEMMA FinaleOfAgents ==
  ASSUME StaffInv, FinaleInv, NEW p \in Procs, Crash(p) \/ Obey(p)
  PROVE  FinaleInv'
  <1>1. TypeOK
    BY DEF StaffInv, WatchInv
  <1>2. /\ UNCHANGED <<finale, late, control, id, by, pc>>
        /\ \A q \in Procs : q # p => proc'[q] = proc[q] /\ (q \in told => q \in told')
        /\ \/ proc'[p] = "dead"
           \/ told' = told /\ proc[p] = "live"
        /\ proc[p] \in {"live", "stopping"} /\ proc'[p] # "none"
    BY <1>1 DEF Crash, Obey, Receive, ReceiveAbort, ReceiveTwo, Exit, OneCommand, Ended, TypeOK, ruleVars
  <1>3. \A q \in Procs : Running(q)' => Running(q) /\ (q \in told => q \in told')
    BY <1>2 DEF Running
  <1>4. \A q \in Procs : Running(q) /\ Twins(q) # {} => (Twins(q) # {})'
    BY <1>2, TwinsStay DEF Running
  <1> QED BY <1>2, <1>3, <1>4 DEF FinaleInv

(* A shutdown tells whom its copy of the table names, and who is not in it *)
(* has a twin.                                                             *)
LEMMA FinaleOfCommands ==
  ASSUME StaffInv, FinaleInv, (\E c \in Commands : Command(c)) \/ ControlStep
  PROVE  FinaleInv'
  <1> USE ThreadSets
  <1>1. TypeOK
    BY DEF StaffInv, WatchInv
  <1>2. UNCHANGED <<proc, id, by, pc>>
    BY DEF Command, ControlStep, Send, Breaks, Done, agentVars
  <1>3. \A p \in Procs : Running(p)' = Running(p) /\ Twins(p)' = Twins(p)
    BY <1>2 DEF Running, Twins
  <1>4. CASE \E c \in Commands : Command(c)
    <2>1. PICK c \in Commands : Command(c)
      BY <1>4
    <2>2. /\ pc[Main] = "over" /\ control.cmd = "none" /\ told' = told
          /\ control'.cmd = c /\ control'.copy = Registered /\ control'.done = {}
          /\ finale' = (finale \/ c \in {"shutdown", "abort"})
          /\ late' = IF finale' /\ ~finale THEN {t \in Threads : pc[t] \in Adding} ELSE late
      BY <2>1 DEF Command
    <2>3. CASE finale
      BY <1>2, <1>3, <2>2, <2>3 DEF FinaleInv
    <2>4. CASE ~finale /\ finale'
      <3>1. c \in {"shutdown", "abort"} /\ late' = {t \in Threads : pc[t] \in Adding}
        BY <2>2, <2>4
      <3>2. ASSUME NEW p \in Procs, Running(p), Twins(p) = {}
            PROVE  by[p] \in late' \/ p \in Registered
        <4>1. CASE \E t \in Threads : new[t] = p
          <5>1. PICK t \in Threads : new[t] = p
            BY <4>1
          <5>2. by[p] = t /\ pc[t] \in {"fork", "enter", "start"}
            BY <3>2, <5>1 DEF StaffInv, Parentage, WatchInv, Rules, NewAreNew
          <5> QED BY <3>1, <5>2 DEF Adding
        <4>2. CASE monitors[id[p]] = p
          <5>1. id[p] \in 1 .. MaxId
            BY <3>2 DEF StaffInv, WatchInv, Rules, IdsTaken, Running
          <5> QED BY <4>2, <5>1 DEF Registered
        <4> QED BY <3>2, <4>1, <4>2 DEF StaffInv, WatchInv, Watched
      <3> QED BY <1>2, <1>3, <2>2, <3>1, <3>2 DEF FinaleInv
    <2>5. CASE ~finale'
      BY <2>5 DEF FinaleInv
    <2> QED BY <2>2, <2>3, <2>4, <2>5
  <1>5. ASSUME NEW p \in Procs, Send(p)
        PROVE  FinaleInv'
    <2>1. /\ UNCHANGED <<finale, late>>
          /\ control.cmd \in Commands /\ p \in Left
          /\ control'.cmd = control.cmd /\ control'.copy = control.copy
          /\ control'.done = control.done \cup {p}
          /\ told' = IF control.cmd \in {"shutdown", "abort"} /\ proc[p] # "dead"
                     THEN told \cup {p} ELSE told
      BY <1>1, <1>5 DEF Send, ruleVars, TypeOK
    <2>2. \A q \in Procs : Running(q) => proc[q] # "dead"
      BY DEF Running
    <2> QED BY <1>2, <1>3, <2>1, <2>2 DEF FinaleInv
  <1>6. CASE Breaks
    <2>1. UNCHANGED <<finale, late, told>> /\ control'.cmd = "broken"
      BY <1>1, <1>6 DEF Breaks, ruleVars, TypeOK
    <2> QED BY <1>2, <2>1 DEF FinaleInv
  <1>7. CASE Done
    <2>1. UNCHANGED <<finale, late, told>> /\ control.cmd \in Commands /\ Left = {}
      BY <1>7 DEF Done, ruleVars
    <2>2. control.cmd \in {"shutdown", "abort"} => control.copy \ control.done = {}
      BY <2>1 DEF Left, LiveView
    <2>3. control.cmd # "broken"
      BY <2>1 DEF Commands, LiveView, Copied
    <2> QED BY <1>2, <1>3, <2>1, <2>2, <2>3 DEF FinaleInv
  <1> QED BY <1>4, <1>5, <1>6, <1>7 DEF ControlStep

(* Every step.                                                             *)
LEMMA FinaleStep == StaffInv /\ FinaleInv /\ [Next]_vars => FinaleInv'
  <1> SUFFICES ASSUME StaffInv, FinaleInv, [Next]_vars PROVE FinaleInv'
    OBVIOUS
  <1>1. CASE UNCHANGED vars
    BY <1>1 DEF vars, FinaleInv, Running, Twins
  <1> QED BY <1>1, FinaleOfThreads, FinaleOfAgents, FinaleOfCommands DEF Next

(* Once shutdown_all or abort_all is over, every agent that runs has been  *)
(* told, or shares its id, or was forked by a thread that had tested       *)
(* finale before, unless the sending has failed half way                   *)
(* (GrandAgentMonitor.shutdown_all, abort_all, add).                       *)
THEOREM ShutdownReachesAll == Spec => []FinaleReachesAll
  <1>1. Init => FinaleInv
    BY DEF Init, FinaleInv
  <1>2. FinaleInv => FinaleReachesAll
    BY DEF FinaleInv, FinaleReachesAll
  <1> QED BY <1>1, <1>2, StaffInit, StaffStep, FinaleStep, PTL DEF Spec
===============================================================================
