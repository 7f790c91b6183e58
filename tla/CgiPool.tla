------------------------------- MODULE CgiPool --------------------------------
(***************************************************************************)
(* The CGI dockers of one agent: each runs at most MaxProcesses processes, *)
(* postpones the requests beyond that and starts the oldest postponed one  *)
(* when a process ends.  The agent's one thread writes to the standard     *)
(* input of a process and waits for its exit with blocking calls.          *)
(*                                                                         *)
(* A request is a CgiReqContentHandler; requests are numbered in the order *)
(* in which they arrive.  Its tour is an object of a pool, which another   *)
(* request may rent once the response has been written.                    *)
(***************************************************************************)
EXTENDS Integers, Sequences, SequencesExt, FiniteSets

CONSTANTS
  NumRequests,   \* bound: requests that arrive
  NumTours,      \* bound: tour objects
  Dockers,
  MaxProcesses,  \* maxProcesses of every docker; not positive: no limit
  PipeSize,      \* what a pipe holds, in chunks
  BodyLen,       \* chunks of a request's body, if it has one
  OutLen,        \* bound: chunks a process writes, unless it is a writer
  MaxSpawnFails  \* bound: processes that cannot be created

ASSUME CgiPoolAssumption ==
  /\ NumRequests \in Nat /\ NumTours \in Nat
  /\ MaxProcesses \in Int /\ PipeSize \in Nat \ {0} /\ BodyLen \in Nat
  /\ OutLen \in Nat /\ MaxSpawnFails \in Nat

Requests == 1 .. NumRequests
Tours == 1 .. NumTours
None == 0

VARIABLES
  last,       \* how many requests arrive
  docker,     \* the docker each of them arrives at
  body,       \* the chunks of its body; 0: a tour that is RUNNING
  habit,      \* what its process is like, see ProcExits
  timeouts,   \* the dockers have a timeout
  agent,      \* what the agent's thread is doing, for whom, why
  count,      \* CgiDocker.process_count
  wait,       \* CgiDocker.wait_count
  postponed,  \* GrandAgent.postpone_queue
  owner,      \* the request that has rented the tour
  tour,       \* CgiReqContentHandler.tour
  phase,      \* the response of each request
  conn,       \* its client is connected and has not got all of it
  got,        \* chunks of its body that were read
  proc,       \* its process
  wrote,      \* what that has written
  stdin, stdout,  \* chunks in the pipes
  out, err,   \* the rudders of the process's outputs
  outTour,    \* CgiStdOutShip.tour_id: whose tour it was when that was set
  leaked,     \* counted, but no process could be created
  astray      \* output of the process went to another request

requestVars == <<last, docker, body, habit, timeouts>>
poolVars == <<count, wait, postponed>>
tourVars == <<owner, tour, phase, conn, got>>
procVars == <<proc, wrote, stdin, stdout>>
rudderVars == <<out, err, outTour>>
vars == <<requestVars, agent, poolVars, tourVars, procVars, rudderVars,
          leaked, astray>>

Idle == [doing |-> "idle", for |-> None, why |-> "none", left |-> 0]
Dead == [Idle EXCEPT !.doing = "dead"]

TypeOK ==
  /\ last \in 0 .. NumRequests
  /\ docker \in [Requests -> Dockers] /\ body \in [Requests -> {0, BodyLen}]
  /\ habit \in [Requests -> {"prompt", "patient", "writer"}]
  /\ timeouts \in BOOLEAN
  /\ agent \in [doing : {"idle", "spawn", "write", "wait", "locked", "dead"},
                for : Requests \cup {None},
                why : {"none", "arrive", "catchup", "body"},
                left : 0 .. BodyLen]
  /\ count \in [Dockers -> Nat] /\ wait \in [Dockers -> Nat]
  /\ postponed \in Seq(Requests) /\ IsInjective(postponed)
  /\ owner \in [Tours -> Requests \cup {None}]
  /\ tour \in [Requests -> Tours \cup {None}]
  /\ phase \in [Requests -> {"new", "arrived", "ended", "returned"}]
  /\ conn \in [Requests -> BOOLEAN] /\ got \in [Requests -> 0 .. BodyLen]
  /\ proc \in [Requests -> {"none", "running", "quiet", "exited", "reaped"}]
  /\ wrote \in [Requests -> Nat]
  /\ stdin \in [Requests -> 0 .. PipeSize] /\ stdout \in [Requests -> 0 .. PipeSize]
  /\ out \in [Requests -> {"none", "open", "suspended", "closing", "closed"}]
  /\ err \in [Requests -> {"none", "open", "closing", "closed"}]
  /\ outTour \in [Requests -> Requests \cup {None}]
  /\ leaked \subseteq Requests /\ astray \subseteq Requests

Init ==
  /\ last \in 0 .. NumRequests
  /\ docker \in [Requests -> Dockers] /\ body \in [Requests -> {0, BodyLen}]
  /\ habit \in [Requests -> {"prompt", "patient", "writer"}]
  /\ timeouts \in BOOLEAN
  /\ agent = Idle
  /\ count = [d \in Dockers |-> 0] /\ wait = [d \in Dockers |-> 0]
  /\ postponed = <<>>
  /\ owner = [t \in Tours |-> None] /\ tour = [r \in Requests |-> None]
  /\ phase = [r \in Requests |-> "new"] /\ conn = [r \in Requests |-> TRUE]
  /\ got = [r \in Requests |-> 0]
  /\ proc = [r \in Requests |-> "none"] /\ wrote = [r \in Requests |-> 0]
  /\ stdin = [r \in Requests |-> 0] /\ stdout = [r \in Requests |-> 0]
  /\ out = [r \in Requests |-> "none"] /\ err = [r \in Requests |-> "none"]
  /\ outTour = [r \in Requests |-> None]
  /\ leaked = {} /\ astray = {}

-----------------------------------------------------------------------------
(* add_process_count.  Fault: a limit that is off by one.                  *)
RoomForOneMore(n) == MaxProcesses <= 0 \/ n <= MaxProcesses
Room(n) == MaxProcesses <= 0 \/ n < MaxProcesses

Spawning(r, why) == [doing |-> "spawn", for |-> r, why |-> why, left |-> 0]

(* TourStore.rent: a tour that is free, else a new one.                    *)
Rentable(t) ==
  owner[t] = None /\ \A u \in 1 .. t - 1 : \E q \in Requests : tour[q] = u

(* arrive: the handler is set, then the process started or postponed.      *)
Arrive(r, t) ==
  LET d == docker[r]
  IN  /\ agent = Idle /\ r <= last /\ phase[r] = "new" /\ Rentable(t)
      /\ \A q \in 1 .. r - 1 : phase[q] # "new"
      /\ owner' = [owner EXCEPT ![t] = r]
      /\ tour' = [tour EXCEPT ![r] = t]
      /\ phase' = [phase EXCEPT ![r] = "arrived"]
      /\ IF Room(count[d])
         THEN /\ count' = [count EXCEPT ![d] = @ + 1]
              /\ agent' = Spawning(r, "arrive")
              /\ UNCHANGED <<wait, postponed>>
         ELSE /\ wait' = [wait EXCEPT ![d] = @ + 1]
              /\ postponed' = Append(postponed, r)
              /\ UNCHANGED <<agent, count>>
      /\ UNCHANGED <<requestVars, conn, got, procVars, rudderVars, leaked, astray>>

(* start_tour, up to Popen, then what was buffered is written.             *)
Spawn(r) ==
  /\ agent.doing = "spawn" /\ agent.for = r
  /\ proc' = [proc EXCEPT ![r] = "running"]
  /\ agent' = [agent EXCEPT !.doing = "write", !.left = got[r]]
  /\ UNCHANGED <<requestVars, poolVars, tourVars, wrote, stdin, stdout,
                 rudderVars, leaked, astray>>

(* Popen raises an OSError.  While the header is handled it closes the     *)
(* client's connection; in process_finished it ends the agent.             *)
SpawnFails(r) ==
  /\ agent.doing = "spawn" /\ agent.for = r
  /\ Cardinality(leaked) < MaxSpawnFails
  /\ leaked' = leaked \cup {r}
  /\ IF agent.why = "arrive"
     THEN agent' = Idle /\ conn' = [conn EXCEPT ![r] = FALSE]
     ELSE agent' = Dead /\ UNCHANGED conn
  /\ UNCHANGED <<requestVars, poolVars, owner, tour, phase, got, procVars,
                 rudderVars, astray>>

-----------------------------------------------------------------------------
(* on_abort_req: both outputs are asked to close and the process, if there *)
(* is one, is killed; the tour goes on.                                    *)
Closing(s) == IF s \in {"open", "suspended"} THEN "closing" ELSE s
Alive(r) == proc[r] \in {"running", "quiet"}
Kill(r) == proc' = [proc EXCEPT ![r] = IF Alive(r) THEN "exited" ELSE @]

Abort(r) ==
  /\ out' = [out EXCEPT ![r] = Closing(@)]
  /\ err' = [err EXCEPT ![r] = Closing(@)]
  /\ Kill(r)

(* A chunk of the body: written to the process or, while there is none,    *)
(* kept for it.                                                            *)
Body(r) ==
  /\ agent = Idle /\ phase[r] = "arrived" /\ conn[r] /\ got[r] < body[r]
  /\ got' = [got EXCEPT ![r] = @ + 1]
  /\ agent' = IF proc[r] = "none" THEN agent
              ELSE [doing |-> "write", for |-> r, why |-> "body", left |-> 1]
  /\ UNCHANGED <<requestVars, poolVars, owner, tour, phase, conn, procVars,
                 rudderVars, leaked, astray>>

(* os.write blocks while the pipe is full.                                 *)
WriteChunk(r) ==
  /\ agent.doing = "write" /\ agent.for = r /\ agent.left > 0
  /\ Alive(r) /\ stdin[r] < PipeSize
  /\ stdin' = [stdin EXCEPT ![r] = @ + 1]
  /\ agent' = [agent EXCEPT !.left = @ - 1]
  /\ UNCHANGED <<requestVars, poolVars, tourVars, proc, wrote, stdout,
                 rudderVars, leaked, astray>>

(* A broken pipe: an OSError again.  The connection whose body it was is   *)
(* closed, which aborts its tour.                                          *)
WriteBreaks(r) ==
  /\ agent.doing = "write" /\ agent.for = r /\ agent.left > 0 /\ ~Alive(r)
  /\ IF agent.why = "body"
     THEN /\ agent' = Idle
          /\ conn' = [conn EXCEPT ![r] = FALSE]
          /\ Abort(r)
     ELSE agent' = Dead /\ UNCHANGED <<conn, proc, out, err>>
  /\ UNCHANGED <<requestVars, poolVars, owner, tour, phase, got, wrote, stdin,
                 stdout, outTour, leaked, astray>>

(* Everything is written; start_tour goes on to register the outputs.  The *)
(* ship takes the id the tour has now.                                     *)
Written(r) ==
  /\ agent.doing = "write" /\ agent.for = r /\ agent.left = 0
  /\ agent' = Idle
  /\ IF agent.why = "body" THEN UNCHANGED rudderVars
     ELSE /\ out' = [out EXCEPT ![r] = "open"]
          /\ err' = [err EXCEPT ![r] = "open"]
          /\ outTour' = [outTour EXCEPT ![r] = owner[tour[r]]]
  /\ UNCHANGED <<requestVars, poolVars, tourVars, procVars, leaked, astray>>

(* A body longer than announced: the tour is asked to abort, the handler   *)
(* does not agree, the error is sent.                                      *)
Refuse(r) ==
  /\ agent = Idle /\ phase[r] = "arrived" /\ conn[r] /\ body[r] > 0
  /\ phase' = [phase EXCEPT ![r] = "ended"]
  /\ Abort(r)
  /\ UNCHANGED <<requestVars, agent, poolVars, owner, tour, conn, got, wrote,
                 stdin, stdout, outTour, leaked, astray>>

(* The last unit of a response is written, or drained: the tour returns.   *)
Return(r) ==
  /\ phase' = [phase EXCEPT ![r] = "returned"]
  /\ owner' = [owner EXCEPT ![tour[r]] = None]
  /\ conn' = [conn EXCEPT ![r] = FALSE]

ReturnTour(r) ==
  /\ agent = Idle /\ phase[r] = "ended"
  /\ Return(r)
  /\ UNCHANGED <<requestVars, agent, poolVars, tour, got, procVars, rudderVars,
                 leaked, astray>>

(* The client goes: only a tour that is still reading is asked to abort.   *)
Disconnect(r) ==
  /\ agent = Idle /\ conn[r] /\ phase[r] \in {"arrived", "ended"}
  /\ IF phase[r] = "ended" THEN Return(r)
     ELSE conn' = [conn EXCEPT ![r] = FALSE] /\ UNCHANGED <<phase, owner>>
  /\ IF phase[r] = "arrived" /\ body[r] > 0
     THEN Abort(r) ELSE UNCHANGED <<proc, out, err>>
  /\ UNCHANGED <<requestVars, agent, poolVars, tour, got, wrote, stdin,
                 stdout, outTour, leaked, astray>>

-----------------------------------------------------------------------------
(* The process.  A prompt one may end at any time; a writer writes all it  *)
(* has to say, more than its pipe holds, before it reads or ends; a        *)
(* patient one waits for the end of its input, which never comes (nobody   *)
(* closes that pipe), and may close its outputs meanwhile.  How a process  *)
(* exits decides what the answer says, not that there is one: left out.    *)
Output(r) == IF habit[r] = "writer" THEN PipeSize + 1 ELSE OutLen
Busy(r) == habit[r] = "writer" /\ wrote[r] < Output(r)

ProcReads(r) ==
  /\ Alive(r) /\ stdin[r] > 0 /\ ~Busy(r)
  /\ stdin' = [stdin EXCEPT ![r] = @ - 1]
  /\ UNCHANGED <<requestVars, agent, poolVars, tourVars, proc, wrote, stdout,
                 rudderVars, leaked, astray>>

ProcWrites(r) ==
  /\ proc[r] = "running" /\ wrote[r] < Output(r) /\ stdout[r] < PipeSize
  /\ wrote' = [wrote EXCEPT ![r] = @ + 1]
  /\ stdout' = [stdout EXCEPT ![r] = @ + 1]
  /\ UNCHANGED <<requestVars, agent, poolVars, tourVars, proc, stdin,
                 rudderVars, leaked, astray>>

ProcCloses(r) ==
  /\ proc[r] = "running" /\ habit[r] = "patient"
  /\ proc' = [proc EXCEPT ![r] = "quiet"]
  /\ UNCHANGED <<requestVars, agent, poolVars, tourVars, wrote, stdin, stdout,
                 rudderVars, leaked, astray>>

ProcExits(r) ==
  /\ Alive(r) /\ ~Busy(r) /\ habit[r] # "patient"
  /\ proc' = [proc EXCEPT ![r] = "exited"]
  /\ UNCHANGED <<requestVars, agent, poolVars, tourVars, wrote, stdin, stdout,
                 rudderVars, leaked, astray>>

-----------------------------------------------------------------------------
(* The agent reads the outputs.  The ids of ship and tour must agree: a    *)
(* Sink, which nobody catches, ends the agent.                             *)
OutRead(r) ==
  /\ agent = Idle /\ out[r] = "open" /\ stdout[r] > 0
  /\ stdout' = [stdout EXCEPT ![r] = @ - 1]
  /\ IF outTour[r] = None \/ owner[tour[r]] # outTour[r]
     THEN agent' = Dead /\ UNCHANGED <<out, astray>>
     ELSE /\ astray' = astray \cup ({r} \ {outTour[r]})
          /\ \E s \in {"open", "suspended"} : out' = [out EXCEPT ![r] = s]
          /\ UNCHANGED agent
  /\ UNCHANGED <<requestVars, poolVars, tourVars, proc, wrote, stdin, err,
                 outTour, leaked>>

(* The client has been written to: a tour that is RUNNING is not resumed.  *)
(* Fault: no tour is.                                                      *)
ResumesNobody(r) == FALSE
Resumes(r) == body[r] > 0 \/ phase[r] = "ended"

ResumeOut(r) ==
  /\ agent = Idle /\ out[r] = "suspended" /\ Resumes(r)
  /\ out' = [out EXCEPT ![r] = "open"]
  /\ UNCHANGED <<requestVars, agent, poolVars, tourVars, procVars, err,
                 outTour, leaked, astray>>

Eof(r) ==
  /\ agent = Idle /\ proc[r] \in {"quiet", "exited"}
  /\ \/ /\ out[r] = "open" /\ stdout[r] = 0
        /\ out' = [out EXCEPT ![r] = "closing"] /\ UNCHANGED err
     \/ /\ err[r] = "open"
        /\ err' = [err EXCEPT ![r] = "closing"] /\ UNCHANGED out
  /\ UNCHANGED <<requestVars, agent, poolVars, tourVars, procVars, outTour,
                 leaked, astray>>

(* check_timeout: the ship of the output kills, that of the errors only    *)
(* lets its rudder be closed.                                              *)
TimesOut(r) ==
  /\ agent = Idle /\ timeouts
  /\ \/ /\ out[r] \in {"open", "suspended"}
        /\ out' = [out EXCEPT ![r] = "closing"] /\ Kill(r) /\ UNCHANGED err
     \/ /\ err[r] = "open"
        /\ err' = [err EXCEPT ![r] = "closing"] /\ UNCHANGED <<out, proc>>
  /\ UNCHANGED <<requestVars, agent, poolVars, tourVars, wrote, stdin, stdout,
                 outTour, leaked, astray>>

(* on_std_out_closed, on_std_err_closed: process_finished once both are.   *)
(* Fault: as soon as one of them is.                                       *)
EitherClosed(o, e) == "closed" \in {o, e}
BothClosed(o, e) == o = "closed" /\ e = "closed"

Closed(r) ==
  /\ agent = Idle
  /\ \/ out[r] = "closing" /\ out' = [out EXCEPT ![r] = "closed"] /\ UNCHANGED err
     \/ err[r] = "closing" /\ err' = [err EXCEPT ![r] = "closed"] /\ UNCHANGED out
  /\ agent' = IF BothClosed(out'[r], err'[r])
              THEN [Idle EXCEPT !.doing = "wait", !.for = r] ELSE agent
  /\ UNCHANGED <<requestVars, poolVars, tourVars, procVars, outTour, leaked,
                 astray>>

-----------------------------------------------------------------------------
(* The end of process_finished and catch_up, which runs the oldest of the  *)
(* postponed handlers, whichever docker's it is, under the lock of the     *)
(* queue: one that must wait again asks for the lock again, in vain.       *)
(* Faults: nobody is started; the slot is given up only afterwards.        *)
NobodyWaits(d) == FALSE
Waits(d) == wait[d] > 0

FreedLater(d) == count
Freed(d) == [count EXCEPT ![d] = @ - 1]

CatchUp(d) ==
  IF ~Waits(d)
  THEN agent' = Idle /\ count' = Freed(d) /\ UNCHANGED <<wait, postponed>>
  ELSE LET h == Head(postponed)
           e == docker[h]
       IN  /\ postponed' = Tail(postponed)
           /\ IF Room(Freed(d)[e])
              THEN /\ wait' = [wait EXCEPT ![e] = @ - 1]
                   /\ count' = [Freed(d) EXCEPT ![e] = @ + 1]
                   /\ agent' = Spawning(h, "catchup")
              ELSE /\ count' = Freed(d)
                   /\ agent' = [Idle EXCEPT !.doing = "locked", !.for = h]
                   /\ UNCHANGED wait

(* process_finished after process.wait: the response ends, whatever the    *)
(* state of the connection, if the tour is still that of the handler (a    *)
(* Sink ends the agent else; fault: it is not asked); the process is       *)
(* uncounted only after that.                                              *)
AnyTour(r) == owner[tour[r]] # None
OwnTour(r) == owner[tour[r]] = r

Finished(r) ==
  /\ agent.doing = "wait" /\ agent.for = r
  /\ proc[r] \in {"exited", "reaped"}
  /\ proc' = [proc EXCEPT ![r] = "reaped"]
  /\ wrote' = [wrote EXCEPT ![r] = 0]
  /\ stdin' = [stdin EXCEPT ![r] = 0] /\ stdout' = [stdout EXCEPT ![r] = 0]
  /\ IF ~OwnTour(r)
     THEN agent' = Dead /\ UNCHANGED <<poolVars, phase, owner, conn, astray>>
     ELSE LET o == owner[tour[r]]
          IN  /\ IF conn[o]
                 THEN /\ phase' = [phase EXCEPT ![o] = "ended"]
                      /\ UNCHANGED <<owner, conn>>
                 ELSE Return(o)
              /\ astray' = astray \cup ({r} \ {o})
              /\ CatchUp(docker[r])
  /\ UNCHANGED <<requestVars, tour, got, rudderVars, leaked>>

-----------------------------------------------------------------------------
Agent(r) ==
  \/ Spawn(r) \/ WriteChunk(r) \/ WriteBreaks(r) \/ Written(r)
  \/ OutRead(r) \/ ResumeOut(r) \/ Eof(r) \/ Closed(r) \/ Finished(r)
Process(r) == ProcReads(r) \/ ProcWrites(r) \/ ProcExits(r)
Client(r) == Body(r) \/ Refuse(r) \/ Disconnect(r)

Next ==
  \E r \in Requests :
    \/ \E t \in Tours : Arrive(r, t)
    \/ Agent(r) \/ ReturnTour(r) \/ Process(r) \/ Client(r)
    \/ ProcCloses(r) \/ SpawnFails(r) \/ TimesOut(r)

Spec == Init /\ [][Next]_vars

-----------------------------------------------------------------------------
Running == agent.doing \notin {"locked", "dead"}
Holds(r) ==
  \/ proc[r] \notin {"none", "reaped"} \/ r \in leaked
  \/ agent.doing = "spawn" /\ agent.for = r

(* The two counters of a docker are exactly the slots taken (one of which  *)
(* stays taken for ever when a process cannot be created) and the handlers *)
(* postponed, and the limit is kept, whatever aborts, timeouts and ends    *)
(* come together.                                                          *)
SlotsCounted ==
  Running =>
    \A d \in Dockers :
      /\ count[d] = Cardinality({r \in Requests : docker[r] = d /\ Holds(r)})
      /\ MaxProcesses > 0 => count[d] <= MaxProcesses
      /\ wait[d] = Cardinality({i \in DOMAIN postponed : docker[postponed[i]] = d})

(* Whoever is postponed waits for a slot that is taken: no slot is free    *)
(* while somebody waits for it, so the end of a process is all it needs.   *)
WaitersHaveRunners ==
  Running => \A d \in Dockers : wait[d] > 0 => count[d] = MaxProcesses

(* The agent locks itself out only when the process that ended and the     *)
(* handler that is started in its place belong to different dockers.       *)
LockedByAnother ==
  agent.doing = "locked" =>
    \E r \in Requests : proc[r] = "reaped" /\ docker[r] # docker[agent.for]

(* The slots of every docker: counted, and handed to whoever waits.        *)
SlotsKept == TypeOK /\ SlotsCounted /\ WaitersHaveRunners /\ LockedByAnother

(* What a process writes, and its end, go to the request it was started    *)
(* for, except when that was answered while its handler was postponed: the *)
(* ship then takes the id of whoever has the tour by now.                  *)
AnswersOwn == \A r \in astray : outTour[r] \notin {r, None} /\ phase[r] = "returned"

(* What the agent's thread, or the network or the clock it waits for, can  *)
(* do next of a request, and what its process can: the conditions under    *)
(* which a step of Agent, ReturnTour, TimesOut or Process is possible.     *)
AgentCan(r) ==
  \/ agent.for = r /\ \/ agent.doing = "spawn"
                      \/ agent.doing = "write" /\ (agent.left = 0 \/ ~Alive(r) \/ stdin[r] < PipeSize)
                      \/ agent.doing = "wait" /\ proc[r] \in {"exited", "reaped"}
  \/ agent = Idle /\ \/ phase[r] = "ended" \/ "closing" \in {out[r], err[r]}
                     \/ out[r] = "open" /\ stdout[r] > 0
                     \/ out[r] = "suspended" /\ Resumes(r)
                     \/ "open" \in {out[r], err[r]} /\ proc[r] \in {"quiet", "exited"}
                     \/ timeouts /\ (out[r] \in {"open", "suspended"} \/ err[r] = "open")

ProcessCan(r) ==
  \/ Alive(r) /\ ~Busy(r) /\ (stdin[r] > 0 \/ habit[r] # "patient")
  \/ proc[r] = "running" /\ wrote[r] < Output(r) /\ stdout[r] < PipeSize

Quiet == \A r \in Requests : ~AgentCan(r) /\ ~ProcessCan(r)

Stuck(s) ==
  \/ s \in leaked
  \/ agent.doing \in {"write", "wait"} /\ agent.for = s /\ habit[s] # "prompt"
  \/ ~timeouts /\ (habit[s] = "patient" \/ (out[s] = "suspended" /\ body[s] = 0))

(* When neither the agent, nor the network, nor a process, nor the clock   *)
(* has anything left to do, every request that arrived is answered and its *)
(* tour returned, unless something holds the agent or a slot for good: a   *)
(* process that could not be created, a blocking call for a process that   *)
(* itself waits or, without a timeout, a process that waits for its input  *)
(* to end or whose output is suspended for a tour that is never resumed.   *)
(* (No behaviour goes on for ever: every action uses up a bounded input.)  *)
NothingLeftUndone ==
  Running /\ Quiet =>
    \/ \A r \in Requests : phase[r] \in {"new", "returned"}
    \/ \E s \in Requests : Stuck(s)
=============================================================================
