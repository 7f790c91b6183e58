--------------------------- MODULE CgiPoolProofs ----------------------------
(* Machine-checked facts about CgiPool, for every number of requests,       *)
(* tours, dockers and processes.                                            *)
EXTENDS CgiPool, FiniteSetTheorems, TLAPS

(* Who holds a slot of a docker, and the places of its requests in a queue. *)
Places(q, d) == {i \in DOMAIN q : docker[q[i]] = d}
Holders(d) == {r \in Requests : docker[r] = d /\ Holds(r)}

(* A request that has not arrived has nothing; one that has been answered   *)
(* for good does not own its tour any more.                                 *)
Arrived ==
  /\ \A r \in Requests : phase[r] = "new" =>
       /\ r \notin leaked /\ proc[r] = "none" /\ agent.for # r
       /\ \A i \in DOMAIN postponed : postponed[i] # r
  /\ \A r \in Requests : phase[r] # "new" =>
       tour[r] \in Tours /\ (owner[tour[r]] = r <=> phase[r] # "returned")

(* What the agent's thread is doing, and for whom.                          *)
AtWork ==
  /\ agent.doing \in {"spawn", "write", "wait", "locked"} => agent.for \in Requests
  /\ agent.doing = "spawn" => proc[agent.for] = "none" /\ agent.for \notin leaked
  /\ agent.doing = "write" => proc[agent.for] # "none"
  /\ agent.doing = "write" /\ agent.why # "body" => out[agent.for] = "none"
  /\ agent.doing = "wait" => /\ proc[agent.for] \notin {"none", "reaped"}
                             /\ out[agent.for] = "closed" /\ err[agent.for] = "closed"

(* Who is postponed has no process and no slot.                             *)
PostponedWait ==
  \A i \in DOMAIN postponed :
    /\ proc[postponed[i]] = "none" /\ postponed[i] \notin leaked
    /\ agent.doing = "spawn" => agent.for # postponed[i]

(* The outputs are those of a process, and closed when it has been reaped.  *)
Outputs ==
  \A r \in Requests :
    /\ proc[r] = "none" => out[r] = "none" /\ err[r] = "none"
    /\ proc[r] = "reaped" => out[r] = "closed" /\ err[r] = "closed"
    /\ r \in leaked => proc[r] = "none"

(* Nobody is postponed where there is no limit.                             *)
Limited == MaxProcesses <= 0 => postponed = <<>>

(* The inductive invariants of the two theorems.                            *)
PoolInv == SlotsKept /\ Arrived /\ AtWork /\ PostponedWait /\ Outputs /\ Limited
StrayInv == AnswersOwn /\ \A r \in astray : out[r] # "none"

(* A connection that is aborted leaves well-typed rudders and processes.    *)
LEMMA AbortType ==
  ASSUME TypeOK, NEW r \in Requests, Abort(r)
  PROVE  /\ out' \in [Requests -> {"none", "open", "suspended", "closing", "closed"}]
         /\ err' \in [Requests -> {"none", "open", "closing", "closed"}]
         /\ proc' \in [Requests -> {"none", "running", "quiet", "exited", "reaped"}]
  <1>1. out' = [out EXCEPT ![r] = Closing(@)] /\ err' = [err EXCEPT ![r] = Closing(@)]
    BY DEF Abort
  <1>2. out' \in [Requests -> {"none", "open", "suspended", "closing", "closed"}]
    BY <1>1 DEF TypeOK, Closing
  <1>3. err' \in [Requests -> {"none", "open", "closing", "closed"}]
    BY <1>1 DEF TypeOK, Closing
  <1>4. proc' \in [Requests -> {"none", "running", "quiet", "exited", "reaped"}]
    <2>1. proc \in [Requests -> {"none", "running", "quiet", "exited", "reaped"}]
      BY DEF TypeOK
    <2> QED BY <2>1 DEF Abort, Kill, Alive
  <1> QED BY <1>2, <1>3, <1>4

(* A rudder is left alone, closing or closed.                               *)
LEMMA RudderTypes ==
  ASSUME TypeOK, NEW r \in Requests,
         out' = out \/ \E s \in {"closing", "closed"} : out' = [out EXCEPT ![r] = s],
         err' = err \/ \E s \in {"closing", "closed"} : err' = [err EXCEPT ![r] = s]
  PROVE  /\ out' \in [Requests -> {"none", "open", "suspended", "closing", "closed"}]
         /\ err' \in [Requests -> {"none", "open", "closing", "closed"}]
  <1>1. out' \in [Requests -> {"none", "open", "suspended", "closing", "closed"}]
    BY DEF TypeOK
  <1>2. err' \in [Requests -> {"none", "open", "closing", "closed"}]
    BY DEF TypeOK
  <1> QED BY <1>1, <1>2

LEMMA KillType ==
  ASSUME TypeOK, NEW r \in Requests, Kill(r)
  PROVE  proc' \in [Requests -> {"none", "running", "quiet", "exited", "reaped"}]
  BY DEF Kill, Alive, TypeOK

(* The states of the agent's thread.                                        *)
Agents == [doing : {"idle", "spawn", "write", "wait", "locked", "dead"},
           for : Requests \cup {None},
           why : {"none", "arrive", "catchup", "body"},
           left : 0 .. BodyLen]

LEMMA AgentTypes ==
  /\ Idle \in Agents /\ Dead \in Agents
  /\ \A r \in Requests, why \in {"arrive", "catchup"} : Spawning(r, why) \in Agents
  /\ \A r \in Requests : [Idle EXCEPT !.doing = "wait", !.for = r] \in Agents
  /\ \A r \in Requests : [Idle EXCEPT !.doing = "locked", !.for = r] \in Agents
  /\ Idle.doing = "idle" /\ Idle.for = None /\ Dead.doing = "dead" /\ Dead.for = None
  <1>1. 0 \in 0 .. BodyLen
    BY CgiPoolAssumption DEF CgiPoolAssumption
  <1>2. Idle \in Agents
    BY <1>1 DEF Agents, Idle, None
  <1>3. Dead \in Agents
    BY <1>2 DEF Agents, Dead
  <1>4. \A r \in Requests, why \in {"arrive", "catchup"} : Spawning(r, why) \in Agents
    BY <1>1 DEF Agents, Spawning
  <1>5. \A r \in Requests : [Idle EXCEPT !.doing = "wait", !.for = r] \in Agents
    BY <1>2 DEF Agents
  <1>6. \A r \in Requests : [Idle EXCEPT !.doing = "locked", !.for = r] \in Agents
    BY <1>2 DEF Agents
  <1>7. Idle.doing = "idle" /\ Idle.for = None
    BY DEF Idle
  <1>8. Dead.doing = "dead" /\ Dead.for = None
    BY DEF Dead, Idle
  <1> QED BY <1>2, <1>3, <1>4, <1>5, <1>6, <1>7, <1>8

LEMMA Numbers ==
  /\ None \notin Requests /\ None \notin Tours
  /\ Requests \subseteq Nat /\ IsFiniteSet(Requests)
  /\ BodyLen \in Nat /\ 0 \in 0 .. BodyLen
  <1>1. NumRequests \in Int /\ 1 \in Int
    BY CgiPoolAssumption DEF CgiPoolAssumption
  <1>2. IsFiniteSet(Requests)
    BY <1>1, FS_Interval DEF Requests
  <1> QED BY <1>2, CgiPoolAssumption DEF CgiPoolAssumption, Requests, Tours, None

(* The agent's thread.                                                      *)
LEMMA ThreadTypes ==
  ASSUME PoolInv, NEW r \in Requests,
         Spawn(r) \/ SpawnFails(r) \/ WriteChunk(r) \/ WriteBreaks(r) \/ Written(r)
  PROVE  TypeOK'
  <1>1. TypeOK /\ agent \in Agents
    BY DEF PoolInv, SlotsKept, TypeOK, Agents
  <1>2. CASE Spawn(r)
    <2>1. agent' \in Agents
      BY <1>1, <1>2 DEF Spawn, Agents, TypeOK
    <2>2. proc' \in [Requests -> {"none", "running", "quiet", "exited", "reaped"}]
      BY <1>1, <1>2 DEF Spawn, TypeOK
    <2> QED BY <1>1, <1>2, <2>1, <2>2 DEF Spawn, TypeOK, Agents, requestVars, poolVars, tourVars, rudderVars
  <1>3. CASE SpawnFails(r)
    <2>1. agent' \in Agents /\ leaked' \subseteq Requests /\ conn' \in [Requests -> BOOLEAN]
      <3>1. leaked \subseteq Requests /\ conn \in [Requests -> BOOLEAN]
        BY <1>1 DEF TypeOK
      <3>2. /\ agent' \in {Idle, Dead} /\ leaked' = leaked \cup {r}
            /\ conn' = conn \/ conn' = [conn EXCEPT ![r] = FALSE]
        BY <1>3 DEF SpawnFails, requestVars, poolVars, tourVars
      <3> QED BY <3>1, <3>2, AgentTypes
    <2> QED BY <1>1, <1>3, <2>1 DEF SpawnFails, TypeOK, Agents, requestVars, poolVars, procVars, rudderVars
  <1>4. CASE WriteChunk(r)
    <2>1. agent' \in Agents
      <3>1. agent.left \in 0 .. BodyLen /\ agent.left > 0 /\ BodyLen \in Nat
        BY <1>1, <1>4, Numbers DEF WriteChunk, Agents
      <3>2. agent.left - 1 \in 0 .. BodyLen
        BY <3>1
      <3> QED BY <1>1, <1>4, <3>2 DEF WriteChunk, Agents
    <2>2. stdin' \in [Requests -> 0 .. PipeSize]
      <3>1. stdin[r] \in 0 .. PipeSize /\ stdin[r] < PipeSize /\ PipeSize \in Nat
        BY <1>1, <1>4, CgiPoolAssumption DEF WriteChunk, TypeOK, CgiPoolAssumption
      <3>2. stdin[r] + 1 \in 0 .. PipeSize
        BY <3>1
      <3> QED BY <1>1, <1>4, <3>2 DEF WriteChunk, TypeOK
    <2> QED BY <1>1, <1>4, <2>1, <2>2 DEF WriteChunk, TypeOK, Agents, requestVars, poolVars, tourVars, rudderVars
  <1>5. CASE WriteBreaks(r)
    <2>1. /\ agent' \in Agents /\ conn' \in [Requests -> BOOLEAN]
          /\ out' \in [Requests -> {"none", "open", "suspended", "closing", "closed"}]
          /\ err' \in [Requests -> {"none", "open", "closing", "closed"}]
          /\ proc' \in [Requests -> {"none", "running", "quiet", "exited", "reaped"}]
      <3>1. CASE agent.why = "body"
        <4>1. Abort(r) /\ agent' = Idle /\ conn' = [conn EXCEPT ![r] = FALSE]
          BY <1>5, <3>1 DEF WriteBreaks
        <4>2. conn' \in [Requests -> BOOLEAN]
          BY <1>1, <4>1 DEF TypeOK
        <4> QED BY <1>1, <4>1, <4>2, AbortType, AgentTypes
      <3>2. CASE agent.why # "body"
        <4>1. agent' = Dead /\ UNCHANGED <<proc, conn, out, err>>
          BY <1>5, <3>2 DEF WriteBreaks
        <4> QED BY <1>1, <4>1, AgentTypes DEF TypeOK
      <3> QED BY <3>1, <3>2
    <2> QED BY <1>1, <1>5, <2>1 DEF WriteBreaks, TypeOK, Agents, requestVars, poolVars
  <1>6. CASE Written(r)
    <2>1. tour[r] \in Tours
      BY <1>1, <1>6 DEF Written, PoolInv, AtWork, Arrived
    <2>2. owner[tour[r]] \in Requests \cup {None}
      BY <1>1, <2>1 DEF TypeOK
    <2>3. /\ agent' \in Agents
          /\ out' \in [Requests -> {"none", "open", "suspended", "closing", "closed"}]
          /\ err' \in [Requests -> {"none", "open", "closing", "closed"}]
          /\ outTour' \in [Requests -> Requests \cup {None}]
      <3>1. agent' \in Agents
        BY <1>6, AgentTypes DEF Written
      <3>2. CASE agent.why = "body"
        BY <1>1, <1>6, <3>1, <3>2 DEF Written, TypeOK, rudderVars
      <3>3. CASE agent.why # "body"
        <4>1. /\ out' = [out EXCEPT ![r] = "open"] /\ err' = [err EXCEPT ![r] = "open"]
              /\ outTour' = [outTour EXCEPT ![r] = owner[tour[r]]]
          BY <1>6, <3>3 DEF Written
        <4>2. outTour' \in [Requests -> Requests \cup {None}]
          BY <1>1, <2>2, <4>1 DEF TypeOK
        <4>3. out' \in [Requests -> {"none", "open", "suspended", "closing", "closed"}]
          BY <1>1, <4>1 DEF TypeOK
        <4>4. err' \in [Requests -> {"none", "open", "closing", "closed"}]
          BY <1>1, <4>1 DEF TypeOK
        <4> QED BY <3>1, <4>2, <4>3, <4>4
      <3> QED BY <3>2, <3>3
    <2> QED BY <1>1, <1>6, <2>3 DEF Written, TypeOK, Agents, requestVars, poolVars, tourVars, procVars
  <1> QED BY <1>2, <1>3, <1>4, <1>5, <1>6

(* The client.                                                              *)
LEMMA ClientTypes ==
  ASSUME PoolInv, NEW r \in Requests, Client(r) \/ ReturnTour(r)
  PROVE  TypeOK'
  <1>1. TypeOK /\ agent \in Agents
    BY DEF PoolInv, SlotsKept, TypeOK, Agents
  <1>2. CASE Body(r)
    <2>1. got' \in [Requests -> 0 .. BodyLen]
      <3>1. got[r] \in 0 .. BodyLen /\ body[r] \in {0, BodyLen} /\ got[r] < body[r] /\ BodyLen \in Nat
        BY <1>1, <1>2, Numbers DEF Body, TypeOK
      <3>2. got[r] + 1 \in 0 .. BodyLen
        BY <3>1
      <3> QED BY <1>1, <1>2, <3>2 DEF Body, TypeOK
    <2>2. 1 \in 0 .. BodyLen
      <3>1. got[r] \in 0 .. BodyLen /\ body[r] \in {0, BodyLen} /\ got[r] < body[r] /\ BodyLen \in Nat
        BY <1>1, <1>2, Numbers DEF Body, TypeOK
      <3> QED BY <3>1
    <2>3. agent' \in Agents
      BY <1>1, <1>2, <2>2 DEF Body, Agents
    <2> QED BY <1>1, <1>2, <2>1, <2>3 DEF Body, TypeOK, Agents, requestVars, poolVars, procVars, rudderVars
  <1>3. CASE Refuse(r)
    <2>1. /\ out' \in [Requests -> {"none", "open", "suspended", "closing", "closed"}]
          /\ err' \in [Requests -> {"none", "open", "closing", "closed"}]
          /\ proc' \in [Requests -> {"none", "running", "quiet", "exited", "reaped"}]
          /\ phase' \in [Requests -> {"new", "arrived", "ended", "returned"}]
      BY <1>1, <1>3, AbortType DEF Refuse, TypeOK
    <2> QED BY <1>1, <1>3, <2>1 DEF Refuse, TypeOK, requestVars, poolVars
  <1>4. Return(r) => /\ phase' \in [Requests -> {"new", "arrived", "ended", "returned"}]
                     /\ owner' \in [Tours -> Requests \cup {None}]
                     /\ conn' \in [Requests -> BOOLEAN]
    BY <1>1 DEF Return, TypeOK
  <1>5. CASE ReturnTour(r)
    BY <1>1, <1>4, <1>5 DEF ReturnTour, TypeOK, requestVars, poolVars, procVars, rudderVars
  <1>6. CASE Disconnect(r)
    <2>1. /\ phase' \in [Requests -> {"new", "arrived", "ended", "returned"}]
          /\ owner' \in [Tours -> Requests \cup {None}]
          /\ conn' \in [Requests -> BOOLEAN]
      <3>1. Return(r) \/ (conn' = [conn EXCEPT ![r] = FALSE] /\ UNCHANGED <<phase, owner>>)
        BY <1>6 DEF Disconnect
      <3> QED BY <1>1, <1>4, <3>1 DEF TypeOK
    <2>2. /\ out' \in [Requests -> {"none", "open", "suspended", "closing", "closed"}]
          /\ err' \in [Requests -> {"none", "open", "closing", "closed"}]
          /\ proc' \in [Requests -> {"none", "running", "quiet", "exited", "reaped"}]
      <3>1. CASE Abort(r)
        BY <1>1, <3>1, AbortType
      <3>2. CASE UNCHANGED <<proc, out, err>>
        BY <1>1, <3>2 DEF TypeOK
      <3> QED BY <1>6, <3>1, <3>2 DEF Disconnect
    <2> QED BY <1>1, <1>6, <2>1, <2>2 DEF Disconnect, TypeOK, requestVars, poolVars
  <1> QED BY <1>2, <1>3, <1>5, <1>6 DEF Client

(* The process, its outputs and the clock.                                  *)
LEMMA ProcessTypes ==
  ASSUME PoolInv, NEW r \in Requests,
         \/ Process(r) \/ ProcCloses(r) \/ OutRead(r) \/ ResumeOut(r) \/ Eof(r) \/ TimesOut(r)
         \/ Closed(r)
  PROVE  TypeOK'
  <1>1. TypeOK /\ agent \in Agents
    BY DEF PoolInv, SlotsKept, TypeOK, Agents
  <1>2. PipeSize \in Nat /\ stdin[r] \in 0 .. PipeSize /\ stdout[r] \in 0 .. PipeSize /\ wrote[r] \in Nat
    BY <1>1, CgiPoolAssumption DEF CgiPoolAssumption, TypeOK
  <1>3. CASE ProcReads(r)
    <2>1. stdin[r] - 1 \in 0 .. PipeSize
      BY <1>2, <1>3 DEF ProcReads
    <2>2. stdin' \in [Requests -> 0 .. PipeSize]
      BY <1>1, <1>3, <2>1 DEF ProcReads, TypeOK
    <2> QED BY <1>1, <1>3, <2>2 DEF ProcReads, TypeOK, requestVars, poolVars, tourVars, rudderVars
  <1>4. CASE ProcWrites(r)
    <2>1. stdout[r] + 1 \in 0 .. PipeSize /\ wrote[r] + 1 \in Nat
      BY <1>2, <1>4 DEF ProcWrites
    <2>2. stdout' \in [Requests -> 0 .. PipeSize] /\ wrote' \in [Requests -> Nat]
      BY <1>1, <1>4, <2>1 DEF ProcWrites, TypeOK
    <2> QED BY <1>1, <1>4, <2>2 DEF ProcWrites, TypeOK, requestVars, poolVars, tourVars, rudderVars
  <1>5. CASE ProcCloses(r) \/ ProcExits(r)
    <2>1. proc' \in [Requests -> {"none", "running", "quiet", "exited", "reaped"}]
      <3>1. \E p \in {"quiet", "exited"} : proc' = [proc EXCEPT ![r] = p]
        BY <1>5 DEF ProcCloses, ProcExits
      <3> QED BY <1>1, <3>1 DEF TypeOK
    <2>2. UNCHANGED <<requestVars, agent, poolVars, tourVars, wrote, stdin, stdout, rudderVars, leaked, astray>>
      BY <1>5 DEF ProcCloses, ProcExits
    <2> QED BY <1>1, <2>1, <2>2 DEF TypeOK, requestVars, poolVars, tourVars, rudderVars
  <1>6. CASE OutRead(r)
    <2>1. stdout[r] - 1 \in 0 .. PipeSize
      BY <1>2, <1>6 DEF OutRead
    <2>2. stdout' \in [Requests -> 0 .. PipeSize]
      BY <1>1, <1>6, <2>1 DEF OutRead, TypeOK
    <2>3. /\ out' \in [Requests -> {"none", "open", "suspended", "closing", "closed"}]
          /\ astray' \subseteq Requests /\ agent' \in Agents
      <3>1. CASE outTour[r] = None \/ owner[tour[r]] # outTour[r]
        <4>1. agent' = Dead /\ UNCHANGED <<out, astray>>
          BY <1>6, <3>1 DEF OutRead
        <4> QED BY <1>1, <4>1, AgentTypes DEF TypeOK
      <3>2. CASE ~(outTour[r] = None \/ owner[tour[r]] # outTour[r])
        <4>1. /\ astray' = astray \cup ({r} \ {outTour[r]})
              /\ \E s \in {"open", "suspended"} : out' = [out EXCEPT ![r] = s]
              /\ agent' = agent
          BY <1>6, <3>2 DEF OutRead
        <4>2. out' \in [Requests -> {"none", "open", "suspended", "closing", "closed"}]
          BY <1>1, <4>1 DEF TypeOK
        <4> QED BY <1>1, <4>1, <4>2 DEF TypeOK
      <3> QED BY <3>1, <3>2
    <2> QED BY <1>1, <1>6, <2>2, <2>3 DEF OutRead, TypeOK, Agents, requestVars, poolVars, tourVars
  <1>7. CASE ResumeOut(r)
    <2>1. out' \in [Requests -> {"none", "open", "suspended", "closing", "closed"}]
      BY <1>1, <1>7 DEF ResumeOut, TypeOK
    <2> QED BY <1>1, <1>7, <2>1 DEF ResumeOut, TypeOK, requestVars, poolVars, tourVars, procVars
  <1>8. CASE Eof(r)
    <2>1. /\ out' \in [Requests -> {"none", "open", "suspended", "closing", "closed"}]
          /\ err' \in [Requests -> {"none", "open", "closing", "closed"}]
      <3>1. /\ out' = out \/ \E s \in {"closing", "closed"} : out' = [out EXCEPT ![r] = s]
            /\ err' = err \/ \E s \in {"closing", "closed"} : err' = [err EXCEPT ![r] = s]
        BY <1>8 DEF Eof
      <3> QED BY <1>1, <3>1, RudderTypes
    <2> QED BY <1>1, <1>8, <2>1 DEF Eof, TypeOK, requestVars, poolVars, tourVars, procVars
  <1>9. CASE TimesOut(r)
    <2>1. /\ out' \in [Requests -> {"none", "open", "suspended", "closing", "closed"}]
          /\ err' \in [Requests -> {"none", "open", "closing", "closed"}]
          /\ proc' \in [Requests -> {"none", "running", "quiet", "exited", "reaped"}]
      <3>1. /\ out' = out \/ \E s \in {"closing", "closed"} : out' = [out EXCEPT ![r] = s]
            /\ err' = err \/ \E s \in {"closing", "closed"} : err' = [err EXCEPT ![r] = s]
            /\ Kill(r) \/ proc' = proc
        BY <1>9 DEF TimesOut
      <3>2. proc' \in [Requests -> {"none", "running", "quiet", "exited", "reaped"}]
        BY <1>1, <3>1, KillType DEF TypeOK
      <3> QED BY <1>1, <3>1, <3>2, RudderTypes
    <2> QED BY <1>1, <1>9, <2>1 DEF TimesOut, TypeOK, requestVars, poolVars, tourVars
  <1>10. CASE Closed(r)
    <2>1. /\ out' \in [Requests -> {"none", "open", "suspended", "closing", "closed"}]
          /\ err' \in [Requests -> {"none", "open", "closing", "closed"}]
      <3>1. /\ out' = out \/ \E s \in {"closing", "closed"} : out' = [out EXCEPT ![r] = s]
            /\ err' = err \/ \E s \in {"closing", "closed"} : err' = [err EXCEPT ![r] = s]
        BY <1>10 DEF Closed
      <3> QED BY <1>1, <3>1, RudderTypes
    <2>2. agent' \in Agents
      BY <1>1, <1>10, AgentTypes DEF Closed
    <2> QED BY <1>1, <1>10, <2>1, <2>2 DEF Closed, TypeOK, Agents, requestVars, poolVars, tourVars, procVars
  <1> QED BY <1>3, <1>4, <1>5, <1>6, <1>7, <1>8, <1>9, <1>10 DEF Process

(* The invariant holds in the beginning.                                    *)
LEMMA PoolInit ==
  ASSUME Init
  PROVE  PoolInv
  <1>1. Idle \in Agents /\ Idle.doing = "idle" /\ Idle.for = None
    BY AgentTypes
  <1>2. TypeOK
    <2>1. postponed \in Seq(Requests) /\ IsInjective(postponed)
      BY DEF Init, IsInjective
    <2>2. PipeSize \in Nat /\ BodyLen \in Nat /\ 0 \in 0 .. PipeSize /\ 0 \in 0 .. BodyLen
      BY CgiPoolAssumption DEF CgiPoolAssumption
    <2>3. got \in [Requests -> 0 .. BodyLen] /\ stdin \in [Requests -> 0 .. PipeSize] /\ stdout \in [Requests -> 0 .. PipeSize]
      BY <2>2 DEF Init
    <2>4. agent \in Agents
      BY <1>1 DEF Init
    <2> QED BY <2>1, <2>3, <2>4 DEF Init, TypeOK, Agents, None
  <1>3. agent.doing = "idle" /\ agent.for = None /\ postponed = <<>> /\ DOMAIN postponed = {}
    BY <1>1 DEF Init
  <1>4. \A r \in Requests : ~Holds(r)
    BY <1>3 DEF Init, Holds
  <1>5. SlotsCounted
    <2> SUFFICES ASSUME NEW d \in Dockers
                 PROVE  /\ count[d] = Cardinality({r \in Requests : docker[r] = d /\ Holds(r)})
                        /\ MaxProcesses > 0 => count[d] <= MaxProcesses
                        /\ wait[d] = Cardinality({i \in DOMAIN postponed : docker[postponed[i]] = d})
      BY DEF SlotsCounted
    <2>1. count[d] = 0 /\ wait[d] = 0
      BY DEF Init
    <2>2. {r \in Requests : docker[r] = d /\ Holds(r)} = {} /\ {i \in DOMAIN postponed : docker[postponed[i]] = d} = {}
      BY <1>3, <1>4
    <2>3. MaxProcesses \in Int
      BY CgiPoolAssumption DEF CgiPoolAssumption
    <2>4. MaxProcesses > 0 => count[d] <= MaxProcesses
      BY <2>1, <2>3
    <2> QED BY <2>1, <2>2, <2>4, FS_EmptySet
  <1>6. WaitersHaveRunners
    BY DEF WaitersHaveRunners, Init
  <1>7. LockedByAnother /\ AtWork
    BY <1>3 DEF LockedByAnother, AtWork
  <1>8. Arrived
    BY <1>3, Numbers DEF Arrived, Init
  <1>9. PostponedWait /\ Limited
    BY <1>3 DEF PostponedWait, Limited
  <1>10. Outputs
    BY DEF Outputs, Init
  <1> QED BY <1>2, <1>5, <1>6, <1>7, <1>8, <1>9, <1>10 DEF PoolInv, SlotsKept

(* A step that moves no slot and no place in the queue keeps the counters.  *)
LEMMA SameSlots ==
  ASSUME PoolInv, UNCHANGED <<docker, count, wait, postponed>>, Running' => Running,
         \A q \in Requests : Holds(q)' <=> Holds(q)
  PROVE  SlotsCounted' /\ WaitersHaveRunners' /\ Limited'
  <1>1. \A d \in Dockers : {r \in Requests : docker'[r] = d /\ Holds(r)'} = {r \in Requests : docker[r] = d /\ Holds(r)}
    OBVIOUS
  <1>2. SlotsCounted'
    BY <1>1 DEF SlotsCounted, PoolInv, SlotsKept
  <1> QED BY <1>2 DEF WaitersHaveRunners, Limited, PoolInv, SlotsKept

(* The steps that neither take nor give up a slot: they may change what the *)
(* agent does, and which outputs are open, but not who has a process.       *)
LEMMA CalmStep ==
  ASSUME PoolInv, TypeOK', UNCHANGED <<docker, count, wait, postponed, leaked>>,
         \A q \in Requests : /\ proc'[q] = "none" <=> proc[q] = "none"
                             /\ proc'[q] = "reaped" <=> proc[q] = "reaped",
         \/ UNCHANGED agent
         \/ Running /\ agent.doing # "spawn" /\ agent'.doing \notin {"spawn", "locked"},
         Arrived', AtWork', Outputs'
  PROVE  PoolInv'
  <1>1. \A q \in Requests : Holds(q)' <=> Holds(q)
    BY DEF Holds
  <1>2. Running' => Running
    BY DEF Running
  <1>3. LockedByAnother'
    BY DEF LockedByAnother, PoolInv, SlotsKept
  <1>4. PostponedWait'
    <2>1. \A i \in DOMAIN postponed : postponed[i] \in Requests
      BY DEF PoolInv, SlotsKept, TypeOK
    <2> QED BY <2>1 DEF PostponedWait, PoolInv
  <1> QED BY <1>1, <1>2, <1>3, <1>4, SameSlots DEF PoolInv, SlotsKept

(* Those of them that leave the responses and the tours alone as well.      *)
LEMMA ArrivedKept ==
  ASSUME PoolInv, UNCHANGED <<postponed, leaked, phase, owner, tour>>,
         \A q \in Requests : proc[q] = "none" => proc'[q] = "none" \/ phase[q] # "new",
         agent'.for \in {agent.for, None} \/ phase[agent'.for] # "new"
  PROVE  Arrived'
  BY Numbers DEF Arrived, PoolInv

(* The outputs of processes are opened and closed, in this order.           *)
LEMMA OutputsKept ==
  ASSUME PoolInv, UNCHANGED leaked,
         \A q \in Requests : /\ proc'[q] = "none" <=> proc[q] = "none"
                             /\ proc'[q] = "reaped" <=> proc[q] = "reaped",
         \A q \in Requests :
           \/ out'[q] = out[q] /\ err'[q] = err[q]
           \/ /\ proc[q] # "none" /\ (out[q] = "closed" => out'[q] = "closed")
              /\ err[q] = "closed" => err'[q] = "closed"
  PROVE  Outputs'
  BY DEF Outputs, PoolInv

(* What a client does that goes, or is refused, to the process.             *)
LEMMA AbortKeeps ==
  ASSUME PoolInv, NEW r \in Requests, Abort(r), UNCHANGED leaked
  PROVE  /\ \A q \in Requests : /\ proc'[q] = "none" <=> proc[q] = "none"
                                /\ proc'[q] = "reaped" <=> proc[q] = "reaped"
                                /\ out[q] = "none" <=> out'[q] = "none"
         /\ Outputs'
  <1>1. TypeOK
    BY DEF PoolInv, SlotsKept
  <1>2. \A q \in Requests : /\ proc'[q] = IF q = r /\ Alive(r) THEN "exited" ELSE proc[q]
                            /\ out'[q] = IF q = r THEN Closing(out[r]) ELSE out[q]
                            /\ err'[q] = IF q = r THEN Closing(err[r]) ELSE err[q]
    BY <1>1 DEF Abort, Kill, TypeOK
  <1>3. \A q \in Requests : /\ proc'[q] = "none" <=> proc[q] = "none"
                            /\ proc'[q] = "reaped" <=> proc[q] = "reaped"
    BY <1>2 DEF Alive
  <1>4. \A q \in Requests : /\ out[q] = "none" <=> out'[q] = "none"
                            /\ out[q] = "closed" => out'[q] = "closed"
                            /\ err[q] = "none" <=> err'[q] = "none"
                            /\ err[q] = "closed" => err'[q] = "closed"
    BY <1>2 DEF Closing
  <1>5. Outputs'
    BY <1>3, <1>4 DEF Outputs, PoolInv
  <1> QED BY <1>3, <1>4, <1>5

(* A request somebody works for, or whose output is open, has arrived.      *)
LEMMA AtWorkArrived ==
  ASSUME PoolInv
  PROVE  /\ \A q \in Requests : agent.for = q \/ proc[q] # "none" => phase[q] # "new"
         /\ agent = Idle => agent.doing = "idle" /\ agent.for = None
         /\ Running <=> agent.doing \notin {"locked", "dead"}
  BY AgentTypes DEF PoolInv, Arrived, Running

(* What the agent's thread does for a process.                              *)
LEMMA ThreadCalm ==
  ASSUME PoolInv, NEW r \in Requests, WriteChunk(r) \/ WriteBreaks(r) \/ Written(r)
  PROVE  PoolInv'
  <1>1. TypeOK /\ TypeOK'
    BY ThreadTypes DEF PoolInv, SlotsKept
  <1>2. /\ agent.doing = "write" /\ agent.for = r /\ Running
        /\ proc[r] # "none" /\ phase[r] # "new"
    BY AtWorkArrived DEF WriteChunk, WriteBreaks, Written, PoolInv, AtWork, Running
  <1>3. UNCHANGED <<docker, count, wait, postponed, leaked, phase, owner, tour>>
    BY DEF WriteChunk, WriteBreaks, Written, requestVars, poolVars, tourVars
  <1>4. CASE WriteChunk(r)
    <2>1. UNCHANGED <<proc, out, err>>
      BY <1>4 DEF WriteChunk, rudderVars
    <2>2. agent'.doing = "write" /\ agent'.for = r /\ agent'.why = agent.why
      BY <1>2, <1>4, <1>1 DEF WriteChunk, TypeOK
    <2>3. Arrived' /\ Outputs'
      BY <1>2, <1>3, <2>1, <2>2, ArrivedKept, OutputsKept
    <2>4. AtWork'
      BY <1>2, <2>1, <2>2 DEF AtWork, PoolInv
    <2> QED BY <1>1, <1>2, <1>3, <2>1, <2>2, <2>3, <2>4, CalmStep
  <1>5. CASE WriteBreaks(r)
    <2>1. agent' \in {Idle, Dead}
      BY <1>5 DEF WriteBreaks
    <2>2. agent'.doing \in {"idle", "dead"} /\ agent'.for = None
      BY <2>1, AgentTypes
    <2>3. Abort(r) \/ UNCHANGED <<proc, out, err>>
      BY <1>5 DEF WriteBreaks
    <2>4. /\ \A q \in Requests : /\ proc'[q] = "none" <=> proc[q] = "none"
                                 /\ proc'[q] = "reaped" <=> proc[q] = "reaped"
          /\ Outputs'
      BY <1>3, <2>3, AbortKeeps, OutputsKept
    <2>5. Arrived' /\ AtWork'
      BY <1>3, <2>2, <2>4, ArrivedKept DEF AtWork
    <2> QED BY <1>1, <1>2, <1>3, <2>2, <2>4, <2>5, CalmStep
  <1>6. CASE Written(r)
    <2>1. agent'.doing = "idle" /\ agent'.for = None /\ UNCHANGED proc
      BY <1>6, AgentTypes DEF Written, procVars
    <2>2. Outputs'
      <3>1. CASE agent.why = "body"
        BY <1>3, <1>6, <2>1, <3>1, OutputsKept DEF Written, rudderVars
      <3>2. CASE agent.why # "body"
        <4>1. out[r] = "none"
          BY <1>2, <3>2 DEF PoolInv, AtWork
        <4>2. proc[r] # "reaped"
          BY <4>1 DEF PoolInv, Outputs
        <4>3. \A q \in Requests : /\ out'[q] = IF q = r THEN "open" ELSE out[q]
                                  /\ err'[q] = IF q = r THEN "open" ELSE err[q]
          <5>1. out' = [out EXCEPT ![r] = "open"] /\ err' = [err EXCEPT ![r] = "open"]
            BY <1>6, <3>2 DEF Written
          <5>2. DOMAIN out = Requests /\ DOMAIN err = Requests
            BY <1>1 DEF TypeOK
          <5> QED BY <5>1, <5>2
        <4> QED BY <1>2, <1>3, <2>1, <4>2, <4>3 DEF Outputs, PoolInv
      <3> QED BY <3>1, <3>2
    <2>3. Arrived' /\ AtWork'
      BY <1>3, <2>1, ArrivedKept DEF AtWork
    <2> QED BY <1>1, <1>2, <1>3, <2>1, <2>2, <2>3, CalmStep
  <1> QED BY <1>4, <1>5, <1>6

(* A tour that is returned belongs to nobody until it is rented again.      *)
LEMMA ReturnKeeps ==
  ASSUME PoolInv, NEW r \in Requests, Return(r), phase[r] \notin {"new", "returned"},
         UNCHANGED <<postponed, leaked, tour>>,
         \A q \in Requests : proc[q] = "none" <=> proc'[q] = "none",
         agent'.for \in {agent.for, None} \/ phase[agent'.for] # "new"
  PROVE  Arrived'
  <1>1. TypeOK
    BY DEF PoolInv, SlotsKept
  <1>2. \A q \in Requests : phase'[q] = IF q = r THEN "returned" ELSE phase[q]
    BY <1>1 DEF Return, TypeOK
  <1>3. tour[r] \in Tours /\ owner[tour[r]] = r
    BY DEF PoolInv, Arrived
  <1>4. \A t \in Tours : owner'[t] = IF t = tour[r] THEN None ELSE owner[t]
    BY <1>1 DEF Return, TypeOK
  <1>5. \A q \in Requests : phase'[q] = "new" =>
          q \notin leaked' /\ proc'[q] = "none" /\ agent'.for # q /\ \A i \in DOMAIN postponed' : postponed'[i] # q
    BY <1>2, Numbers DEF PoolInv, Arrived
  <1>6. \A q \in Requests : phase'[q] # "new" => tour'[q] \in Tours /\ (owner'[tour'[q]] = q <=> phase'[q] # "returned")
    <2> SUFFICES ASSUME NEW q \in Requests, phase'[q] # "new"
                 PROVE  tour[q] \in Tours /\ (owner'[tour[q]] = q <=> phase'[q] # "returned")
      OBVIOUS
    <2>1. phase[q] # "new" /\ tour[q] \in Tours /\ (owner[tour[q]] = q <=> phase[q] # "returned")
      BY <1>2 DEF PoolInv, Arrived
    <2>2. CASE q = r
      BY <1>2, <1>3, <1>4, <2>2, Numbers
    <2>3. CASE q # r
      BY <1>2, <1>3, <1>4, <2>1, <2>3, Numbers
    <2> QED BY <2>2, <2>3
  <1> QED BY <1>5, <1>6 DEF Arrived

(* What the client does, and the end of a response.                         *)
LEMMA ClientCalm ==
  ASSUME PoolInv, NEW r \in Requests, Client(r) \/ ReturnTour(r)
  PROVE  PoolInv'
  <1>1. TypeOK /\ TypeOK'
    BY ClientTypes DEF PoolInv, SlotsKept
  <1>2. agent.doing = "idle" /\ agent.for = None /\ Running
    BY AtWorkArrived DEF Client, Body, Refuse, Disconnect, ReturnTour
  <1>3. UNCHANGED <<docker, count, wait, postponed, leaked, tour>>
    BY DEF Client, Body, Refuse, Disconnect, ReturnTour, requestVars, poolVars
  <1>4. CASE Body(r)
    <2>1. UNCHANGED <<proc, out, err, phase, owner>> /\ phase[r] = "arrived"
      BY <1>4 DEF Body, procVars, rudderVars
    <2>2. \/ UNCHANGED agent
          \/ proc[r] # "none" /\ agent'.doing = "write" /\ agent'.for = r /\ agent'.why = "body"
      BY <1>4 DEF Body
    <2>3. Arrived' /\ Outputs'
      BY <1>3, <2>1, <2>2, ArrivedKept, OutputsKept
    <2>4. AtWork'
      BY <1>2, <2>1, <2>2 DEF AtWork
    <2> QED BY <1>1, <1>2, <1>3, <2>1, <2>2, <2>3, <2>4, CalmStep
  <1>5. CASE Refuse(r)
    <2>1. UNCHANGED <<agent, owner>> /\ phase[r] = "arrived" /\ Abort(r)
      BY <1>5 DEF Refuse
    <2>2. \A q \in Requests : phase'[q] = IF q = r THEN "ended" ELSE phase[q]
      BY <1>1, <1>5 DEF Refuse, TypeOK
    <2>3. /\ \A q \in Requests : /\ proc'[q] = "none" <=> proc[q] = "none"
                                 /\ proc'[q] = "reaped" <=> proc[q] = "reaped"
          /\ Outputs'
      BY <1>3, <2>1, AbortKeeps
    <2>4. Arrived'
      BY <1>3, <2>1, <2>2, <2>3 DEF PoolInv, Arrived
    <2>5. AtWork'
      BY <1>2, <2>1 DEF AtWork
    <2> QED BY <1>1, <1>2, <1>3, <2>1, <2>3, <2>4, <2>5, CalmStep
  <1>6. CASE ReturnTour(r)
    <2>1. UNCHANGED <<agent, proc, out, err>> /\ phase[r] = "ended" /\ Return(r)
      BY <1>6 DEF ReturnTour, procVars, rudderVars
    <2>2. Arrived' /\ Outputs' /\ AtWork'
      BY <1>2, <1>3, <2>1, ReturnKeeps, OutputsKept DEF AtWork
    <2> QED BY <1>1, <1>2, <1>3, <2>1, <2>2, CalmStep
  <1>7. CASE Disconnect(r)
    <2>1. UNCHANGED agent /\ (Abort(r) \/ UNCHANGED <<proc, out, err>>)
      BY <1>7 DEF Disconnect
    <2>2. /\ \A q \in Requests : /\ proc'[q] = "none" <=> proc[q] = "none"
                                 /\ proc'[q] = "reaped" <=> proc[q] = "reaped"
          /\ Outputs'
      BY <1>3, <2>1, AbortKeeps, OutputsKept
    <2>3. Arrived'
      <3>1. CASE phase[r] = "ended"
        BY <1>3, <1>7, <2>1, <2>2, <3>1, ReturnKeeps DEF Disconnect
      <3>2. CASE phase[r] # "ended"
        BY <1>3, <1>7, <2>1, <2>2, <3>2, ArrivedKept DEF Disconnect
      <3> QED BY <3>1, <3>2
    <2>4. AtWork'
      BY <1>2, <2>1 DEF AtWork
    <2> QED BY <1>1, <1>2, <1>3, <2>1, <2>2, <2>3, <2>4, CalmStep
  <1> QED BY <1>4, <1>5, <1>6, <1>7 DEF Client

(* What a process does, whatever the agent is doing.                        *)
LEMMA ProcessCalm ==
  ASSUME PoolInv, NEW r \in Requests, Process(r) \/ ProcCloses(r)
  PROVE  PoolInv'
  <1>1. TypeOK /\ TypeOK'
    BY ProcessTypes DEF PoolInv, SlotsKept
  <1>2. UNCHANGED <<docker, count, wait, postponed, leaked, tour, phase, owner, agent, out, err>>
    BY DEF Process, ProcReads, ProcWrites, ProcExits, ProcCloses, requestVars, poolVars, tourVars, rudderVars
  <1>3. UNCHANGED proc \/ (Alive(r) /\ \E p \in {"quiet", "exited"} : proc' = [proc EXCEPT ![r] = p])
    BY DEF Process, ProcReads, ProcWrites, ProcExits, ProcCloses, Alive
  <1>4. \A q \in Requests : /\ proc'[q] = "none" <=> proc[q] = "none"
                            /\ proc'[q] = "reaped" <=> proc[q] = "reaped"
    <2>1. CASE UNCHANGED proc
      BY <2>1
    <2>2. CASE Alive(r) /\ \E p \in {"quiet", "exited"} : proc' = [proc EXCEPT ![r] = p]
      <3>1. DOMAIN proc = Requests
        BY <1>1 DEF TypeOK
      <3>2. PICK p \in {"quiet", "exited"} : proc' = [proc EXCEPT ![r] = p]
        BY <2>2
      <3>3. \A q \in Requests : proc'[q] = IF q = r THEN p ELSE proc[q]
        BY <3>1, <3>2
      <3> QED BY <2>2, <3>3 DEF Alive
    <2> QED BY <1>3, <2>1, <2>2
  <1>5. Arrived' /\ Outputs'
    BY <1>2, <1>4, ArrivedKept, OutputsKept
  <1>6. AtWork'
    <2>1. /\ agent.doing \in {"spawn", "write", "wait", "locked"} => agent.for \in Requests
          /\ agent.doing = "spawn" => proc[agent.for] = "none" /\ agent.for \notin leaked
          /\ agent.doing = "write" => proc[agent.for] # "none"
          /\ agent.doing = "write" /\ agent.why # "body" => out[agent.for] = "none"
          /\ agent.doing = "wait" => /\ proc[agent.for] \notin {"none", "reaped"}
                                     /\ out[agent.for] = "closed" /\ err[agent.for] = "closed"
      BY DEF AtWork, PoolInv
    <2> QED BY <1>2, <1>4, <2>1 DEF AtWork
  <1> QED BY <1>1, <1>2, <1>4, <1>5, <1>6, CalmStep

(* What the agent does with the outputs, and the clock.                     *)
LEMMA OutputCalm ==
  ASSUME PoolInv, NEW r \in Requests,
         OutRead(r) \/ ResumeOut(r) \/ Eof(r) \/ TimesOut(r) \/ Closed(r)
  PROVE  PoolInv'
  <1>1. TypeOK /\ TypeOK'
    BY ProcessTypes DEF PoolInv, SlotsKept
  <1>2. agent.doing = "idle" /\ agent.for = None /\ Running
    BY AtWorkArrived DEF OutRead, ResumeOut, Eof, TimesOut, Closed
  <1>3. UNCHANGED <<docker, count, wait, postponed, leaked, tour, phase, owner>>
    BY DEF OutRead, ResumeOut, Eof, TimesOut, Closed, requestVars, poolVars, tourVars
  <1>11. DOMAIN proc = Requests /\ DOMAIN out = Requests /\ DOMAIN err = Requests
    BY <1>1 DEF TypeOK
  <1>12. UNCHANGED proc \/ Kill(r)
    BY DEF OutRead, ResumeOut, Eof, TimesOut, Closed, procVars
  <1>4. \A q \in Requests : /\ proc'[q] = "none" <=> proc[q] = "none"
                            /\ proc'[q] = "reaped" <=> proc[q] = "reaped"
    <2>1. CASE UNCHANGED proc
      BY <2>1
    <2>2. CASE Kill(r)
      <3>1. \A q \in Requests : proc'[q] = IF q = r /\ Alive(r) THEN "exited" ELSE proc[q]
        BY <1>11, <2>2 DEF Kill
      <3> QED BY <3>1 DEF Alive
    <2> QED BY <1>12, <2>1, <2>2
  <1>13. \/ UNCHANGED out
         \/ out[r] \in {"open", "suspended", "closing"} /\ UNCHANGED err /\ \E s \in {"open", "suspended", "closing", "closed"} : out' = [out EXCEPT ![r] = s]
    BY DEF OutRead, ResumeOut, Eof, TimesOut, Closed, rudderVars
  <1>14. \/ UNCHANGED err
         \/ err[r] \in {"open", "closing"} /\ UNCHANGED out /\ \E s \in {"closing", "closed"} : err' = [err EXCEPT ![r] = s]
    BY DEF OutRead, ResumeOut, Eof, TimesOut, Closed, rudderVars
  <1>5. \A q \in Requests : q # r => out'[q] = out[q] /\ err'[q] = err[q]
    <2>1. \A q \in Requests : q # r => out'[q] = out[q]
      BY <1>11, <1>13
    <2>2. \A q \in Requests : q # r => err'[q] = err[q]
      BY <1>11, <1>14
    <2> QED BY <2>1, <2>2
  <1>6. \/ out'[r] = out[r] /\ err'[r] = err[r]
        \/ out[r] \in {"open", "suspended", "closing"} /\ err'[r] = err[r]
        \/ err[r] \in {"open", "closing"} /\ out'[r] = out[r]
    BY <1>13, <1>14
  <1>7. proc[r] = "none" => out[r] = "none" /\ err[r] = "none"
    BY DEF PoolInv, Outputs
  <1>8. Outputs'
    <2>1. \A q \in Requests :
           \/ out'[q] = out[q] /\ err'[q] = err[q]
           \/ /\ proc[q] # "none" /\ (out[q] = "closed" => out'[q] = "closed")
              /\ err[q] = "closed" => err'[q] = "closed"
      BY <1>5, <1>6, <1>7
    <2> QED BY <1>3, <1>4, <2>1, OutputsKept
  <1>9. CASE ~Closed(r)
    <2>1. agent' \in {Idle, Dead}
      BY <1>2, <1>9 DEF OutRead, ResumeOut, Eof, TimesOut
    <2>2. agent'.doing \in {"idle", "dead"} /\ agent'.for = None
      BY <2>1, AgentTypes
    <2>3. Arrived' /\ AtWork'
      BY <1>3, <1>4, <2>2, ArrivedKept DEF AtWork
    <2> QED BY <1>1, <1>2, <1>3, <1>4, <1>8, <2>2, <2>3, CalmStep
  <1>10. CASE Closed(r)
    <2>1. proc[r] \notin {"none", "reaped"}
      BY <1>10 DEF Closed, PoolInv, Outputs
    <2>2. phase[r] # "new"
      BY <2>1, AtWorkArrived
    <2>3. \/ UNCHANGED agent
          \/ /\ agent' = [Idle EXCEPT !.doing = "wait", !.for = r]
             /\ out'[r] = "closed" /\ err'[r] = "closed"
      BY <1>10 DEF Closed, BothClosed
    <2>4. \/ agent'.doing = "idle" /\ agent'.for = None
          \/ agent'.doing = "wait" /\ agent'.for = r /\ out'[r] = "closed" /\ err'[r] = "closed"
      <3>1. CASE UNCHANGED agent
        BY <1>2, <3>1
      <3>2. CASE ~UNCHANGED agent
        <4>1. agent' = [Idle EXCEPT !.doing = "wait", !.for = r]
          BY <2>3, <3>2
        <4>2. agent' = [doing |-> "wait", for |-> r, why |-> "none", left |-> 0]
          BY <4>1 DEF Idle
        <4> QED BY <2>3, <3>2, <4>2
      <3> QED BY <3>1, <3>2
    <2>5. Arrived' /\ AtWork'
      BY <1>3, <1>4, <2>1, <2>2, <2>4, ArrivedKept DEF AtWork
    <2> QED BY <1>1, <1>2, <1>3, <1>4, <1>8, <2>4, <2>5, CalmStep
  <1> QED BY <1>9, <1>10

(* The process of the slot that was taken is created, or cannot be.         *)
LEMMA SpawnKeeps ==
  ASSUME PoolInv, NEW r \in Requests, Spawn(r) \/ SpawnFails(r)
  PROVE  PoolInv'
  <1>1. TypeOK /\ TypeOK'
    BY ThreadTypes DEF PoolInv, SlotsKept
  <1>2. /\ agent.doing = "spawn" /\ agent.for = r /\ Running
        /\ proc[r] = "none" /\ r \notin leaked /\ phase[r] # "new"
    BY AtWorkArrived DEF Spawn, SpawnFails, PoolInv, AtWork, Running
  <1>3. UNCHANGED <<docker, count, wait, postponed, phase, owner, tour, out, err>>
    BY DEF Spawn, SpawnFails, requestVars, poolVars, tourVars, rudderVars
  <1>4. \A i \in DOMAIN postponed : postponed[i] \in Requests /\ postponed[i] # r
    BY <1>1, <1>2 DEF PoolInv, PostponedWait, TypeOK
  <1>5. out[r] = "none" /\ err[r] = "none"
    BY <1>2 DEF PoolInv, Outputs
  <1>6. CASE Spawn(r)
    <2>1. agent'.doing = "write" /\ agent'.for = r
      BY <1>1, <1>2, <1>6 DEF Spawn, TypeOK
    <2>2. /\ leaked' = leaked
          /\ \A q \in Requests : proc'[q] = IF q = r THEN "running" ELSE proc[q]
      BY <1>1, <1>6 DEF Spawn, TypeOK
    <2>3. \A q \in Requests : Holds(q)' <=> Holds(q)
      BY <1>2, <2>1, <2>2 DEF Holds
    <2>4. SlotsCounted' /\ WaitersHaveRunners' /\ Limited'
      BY <1>2, <1>3, <2>3, SameSlots
    <2>5. LockedByAnother'
      BY <2>1 DEF LockedByAnother
    <2>6. Arrived'
      BY <1>2, <1>3, <2>1, <2>2, ArrivedKept
    <2>7. AtWork'
      BY <1>2, <1>3, <1>5, <2>1, <2>2 DEF AtWork
    <2>8. PostponedWait'
      BY <1>3, <1>4, <2>1, <2>2 DEF PostponedWait, PoolInv
    <2>9. Outputs'
      BY <1>2, <1>3, <2>2 DEF Outputs, PoolInv
    <2> QED BY <1>1, <2>4, <2>5, <2>6, <2>7, <2>8, <2>9 DEF PoolInv, SlotsKept
  <1>7. CASE SpawnFails(r)
    <2>1. agent' \in {Idle, Dead}
      BY <1>7 DEF SpawnFails
    <2>2. agent'.doing \in {"idle", "dead"} /\ agent'.for = None
      BY <2>1, AgentTypes
    <2>3. leaked' = leaked \cup {r} /\ UNCHANGED proc
      BY <1>7 DEF SpawnFails, procVars
    <2>4. \A q \in Requests : Holds(q)' <=> Holds(q)
      BY <1>2, <2>2, <2>3 DEF Holds
    <2>5. SlotsCounted' /\ WaitersHaveRunners' /\ Limited'
      BY <1>2, <1>3, <2>4, SameSlots
    <2>6. LockedByAnother' /\ AtWork'
      BY <2>2 DEF LockedByAnother, AtWork
    <2>7. Arrived'
      BY <1>2, <1>3, <2>2, <2>3, Numbers DEF Arrived, PoolInv
    <2>8. PostponedWait'
      BY <1>3, <1>4, <2>2, <2>3 DEF PostponedWait, PoolInv
    <2>9. Outputs'
      BY <1>2, <1>3, <2>3 DEF Outputs, PoolInv
    <2> QED BY <1>1, <2>5, <2>6, <2>7, <2>8, <2>9 DEF PoolInv, SlotsKept
  <1> QED BY <1>6, <1>7

(* The holders of a docker's slots, and its places in the queue, are finite *)
(* sets.                                                                    *)
LEMMA SlotsFinite ==
  ASSUME TypeOK, NEW d \in Dockers
  PROVE  /\ IsFiniteSet(Holders(d)) /\ Cardinality(Holders(d)) \in Nat
         /\ IsFiniteSet(Places(postponed, d)) /\ Cardinality(Places(postponed, d)) \in Nat
         /\ IsFiniteSet(DOMAIN postponed)
  <1>1. Holders(d) \in SUBSET Requests
    BY DEF Holders
  <1>2. IsFiniteSet(Holders(d))
    BY <1>1, Numbers, FS_Subset
  <1>3. DOMAIN postponed = 1 .. Len(postponed) /\ Len(postponed) \in Int
    BY DEF TypeOK
  <1>4. IsFiniteSet(DOMAIN postponed)
    <2>1. 1 \in Int
      OBVIOUS
    <2> QED BY <1>3, <2>1, FS_Interval
  <1>5. Places(postponed, d) \in SUBSET DOMAIN postponed
    BY DEF Places
  <1>6. IsFiniteSet(Places(postponed, d))
    BY <1>4, <1>5, FS_Subset
  <1> QED BY <1>2, <1>4, <1>6, FS_CardinalityType

(* A request that joins the queue has its last place.                       *)
LEMMA PlacesOfAppend ==
  ASSUME NEW q \in Seq(Requests), NEW r \in Requests, NEW d
  PROVE  /\ docker[r] = d => Places(Append(q, r), d) = Places(q, d) \cup {Len(q) + 1}
         /\ docker[r] # d => Places(Append(q, r), d) = Places(q, d)
         /\ Len(q) + 1 \notin Places(q, d)
  <1>1. /\ DOMAIN Append(q, r) = 1 .. Len(q) + 1 /\ DOMAIN q = 1 .. Len(q) /\ Len(q) \in Nat
        /\ Append(q, r)[Len(q) + 1] = r
        /\ \A i \in 1 .. Len(q) : Append(q, r)[i] = q[i]
    OBVIOUS
  <1>2. /\ 1 .. Len(q) + 1 = (1 .. Len(q)) \cup {Len(q) + 1}
        /\ Len(q) + 1 \notin 1 .. Len(q)
    BY <1>1
  <1> HIDE DEF Requests
  <1>3. DOMAIN Append(q, r) = DOMAIN q \cup {Len(q) + 1}
    BY <1>1, <1>2
  <1>4. \A i \in DOMAIN q : Append(q, r)[i] = q[i]
    BY <1>1
  <1> QED BY <1>1, <1>2, <1>3, <1>4, Zenon DEF Places

(* The requests behind the one that leaves the queue move up one place.     *)
LEMMA PlacesOfTail ==
  ASSUME NEW q \in Seq(Requests), q # <<>>, NEW d, IsFiniteSet(Places(q, d))
  PROVE  Cardinality(Places(Tail(q), d)) = Cardinality(Places(q, d) \ {1})
  <1> DEFINE f == [i \in Places(Tail(q), d) |-> i + 1]
             S == Places(Tail(q), d)
             T == Places(q, d) \ {1}
  <1>1. Len(q) \in Nat /\ Len(q) >= 1 /\ DOMAIN q = 1 .. Len(q) /\ DOMAIN Tail(q) = 1 .. Len(q) - 1
    OBVIOUS
  <1>2. \A i \in DOMAIN Tail(q) : Tail(q)[i] = q[i + 1] /\ i + 1 \in DOMAIN q /\ i + 1 # 1 /\ i \in Nat
    BY <1>1
  <1>3. \A i \in S : f[i] \in T
    BY <1>2 DEF Places
  <1>4. \A i, j \in S : f[i] = f[j] => i = j
    <2> SUFFICES ASSUME NEW i \in S, NEW j \in S, i + 1 = j + 1 PROVE i = j
      OBVIOUS
    <2>1. i \in Nat /\ j \in Nat
      BY <1>2 DEF Places
    <2> QED BY <2>1
  <1>5. \A j \in T : \E i \in S : f[i] = j
    <2> SUFFICES ASSUME NEW j \in T PROVE \E i \in S : i + 1 = j
      BY DEF Places
    <2>1. j \in 1 .. Len(q) /\ j # 1 /\ docker[q[j]] = d
      BY <1>1 DEF Places
    <2>2. j - 1 \in 1 .. Len(q) - 1 /\ (j - 1) + 1 = j
      BY <1>1, <2>1
    <2>3. j - 1 \in S
      BY <1>1, <1>2, <2>1, <2>2 DEF Places
    <2> QED BY <2>2, <2>3
  <1>6. f \in Bijection(S, T)
    <2>1. f \in [S -> T]
      BY <1>3
    <2>2. f \in Injection(S, T)
      BY <1>4, <2>1 DEF Injection, IsInjective
    <2>3. f \in Surjection(S, T)
      BY <1>5, <2>1 DEF Surjection
    <2> QED BY <2>2, <2>3 DEF Bijection
  <1>7. IsFiniteSet(T)
    BY FS_RemoveElement
  <1>8. f \in Injection(S, T) /\ f \in Surjection(S, T)
    BY <1>6 DEF Bijection
  <1> HIDE DEF f, S, T
  <1>9. Cardinality(S) = Cardinality(T)
    BY <1>7, <1>8, FS_Injection
  <1> QED BY <1>9 DEF S, T

(* The counters of a docker while the agent runs.                           *)
LEMMA SlotFacts ==
  ASSUME PoolInv, Running, NEW d \in Dockers
  PROVE  /\ count[d] = Cardinality(Holders(d)) /\ wait[d] = Cardinality(Places(postponed, d))
         /\ MaxProcesses > 0 => count[d] <= MaxProcesses
         /\ wait[d] > 0 => count[d] = MaxProcesses /\ MaxProcesses > 0
         /\ count[d] \in Nat /\ wait[d] \in Nat /\ MaxProcesses \in Int
  <1>1. TypeOK
    BY DEF PoolInv, SlotsKept
  <1>2. count[d] = Cardinality(Holders(d)) /\ wait[d] = Cardinality(Places(postponed, d))
    BY DEF PoolInv, SlotsKept, SlotsCounted, Holders, Places
  <1>3. MaxProcesses \in Int
    BY CgiPoolAssumption DEF CgiPoolAssumption
  <1>4. wait[d] > 0 => MaxProcesses > 0
    <2>1. CASE MaxProcesses <= 0
      <3>1. Places(postponed, d) = {}
        BY <2>1 DEF Places, PoolInv, Limited
      <3> QED BY <1>2, <3>1, FS_EmptySet
    <2> QED BY <1>3, <2>1
  <1> QED BY <1>1, <1>2, <1>3, <1>4, SlotsFinite DEF PoolInv, SlotsKept, SlotsCounted, WaitersHaveRunners

(* What Append makes of a sequence.                                         *)
LEMMA AppendFacts ==
  ASSUME NEW S, NEW q \in Seq(S), NEW x \in S
  PROVE  /\ Append(q, x) \in Seq(S) /\ Len(q) \in Nat
         /\ DOMAIN Append(q, x) = 1 .. Len(q) + 1 /\ DOMAIN q = 1 .. Len(q)
         /\ Append(q, x)[Len(q) + 1] = x
         /\ \A i \in DOMAIN q : Append(q, x)[i] = q[i]
         /\ \A i \in DOMAIN Append(q, x) : i \in DOMAIN q \/ i = Len(q) + 1
  OBVIOUS

(* What is left when a request arrives is well typed.                       *)
LEMMA ArriveTypes ==
  ASSUME PoolInv, NEW r \in Requests, NEW t \in Tours, Arrive(r, t)
  PROVE  TypeOK'
  <1>1. TypeOK /\ agent \in Agents
    BY DEF PoolInv, SlotsKept, TypeOK, Agents
  <1> DEFINE d == docker[r]
  <1>2. d \in Dockers /\ count[d] \in Nat /\ wait[d] \in Nat
    BY <1>1 DEF TypeOK
  <1>3. /\ owner' \in [Tours -> Requests \cup {None}] /\ tour' \in [Requests -> Tours \cup {None}]
        /\ phase' \in [Requests -> {"new", "arrived", "ended", "returned"}]
    BY <1>1 DEF Arrive, TypeOK
  <1>4. UNCHANGED <<requestVars, conn, got, procVars, rudderVars, leaked, astray>>
    BY DEF Arrive
  <1>5. CASE Room(count[d])
    <2>1. count' \in [Dockers -> Nat]
      <3>1. count' = [count EXCEPT ![d] = @ + 1]
        BY <1>5 DEF Arrive
      <3>2. count[d] + 1 \in Nat /\ count \in [Dockers -> Nat]
        BY <1>1, <1>2 DEF TypeOK
      <3> HIDE DEF d
      <3> QED BY <3>1, <3>2
    <2>2. agent' \in Agents
      BY <1>5, AgentTypes DEF Arrive
    <2>3. UNCHANGED <<wait, postponed>>
      BY <1>5 DEF Arrive
    <2> QED BY <1>1, <1>3, <1>4, <2>1, <2>2, <2>3 DEF TypeOK, Agents, requestVars, procVars, rudderVars
  <1>6. CASE ~Room(count[d])
    <2>1. wait' \in [Dockers -> Nat]
      <3>1. wait' = [wait EXCEPT ![d] = @ + 1]
        BY <1>6 DEF Arrive
      <3>2. wait[d] + 1 \in Nat /\ wait \in [Dockers -> Nat]
        BY <1>1, <1>2 DEF TypeOK
      <3> HIDE DEF d
      <3> QED BY <3>1, <3>2
    <2>2. postponed' = Append(postponed, r) /\ UNCHANGED <<agent, count>>
      BY <1>6 DEF Arrive
    <2>3. postponed' \in Seq(Requests)
      BY <1>1, <2>2 DEF TypeOK
    <2>4. IsInjective(postponed')
      <3>1. /\ DOMAIN postponed' = 1 .. Len(postponed) + 1 /\ DOMAIN postponed = 1 .. Len(postponed) /\ Len(postponed) \in Nat
            /\ postponed'[Len(postponed) + 1] = r
            /\ \A i \in DOMAIN postponed : postponed'[i] = postponed[i]
        <4>1. postponed \in Seq(Requests)
          BY <1>1 DEF TypeOK
        <4>2. /\ Len(postponed) \in Nat
              /\ DOMAIN Append(postponed, r) = 1 .. Len(postponed) + 1 /\ DOMAIN postponed = 1 .. Len(postponed)
              /\ Append(postponed, r)[Len(postponed) + 1] = r
              /\ \A i \in DOMAIN postponed : Append(postponed, r)[i] = postponed[i]
              /\ \A i \in DOMAIN Append(postponed, r) : i \in DOMAIN postponed \/ i = Len(postponed) + 1
          BY <4>1, AppendFacts
        <4> QED BY <2>2, <4>2
      <3>2. \A i \in DOMAIN postponed : postponed[i] # r
        BY DEF PoolInv, Arrived, Arrive
      <3>3. \A i \in DOMAIN postponed' : i \in DOMAIN postponed \/ i = Len(postponed) + 1
        BY <3>1
      <3> QED BY <1>1, <3>1, <3>2, <3>3 DEF IsInjective, TypeOK
    <2> QED BY <1>1, <1>3, <1>4, <2>1, <2>2, <2>3, <2>4 DEF TypeOK, Agents, requestVars, procVars, rudderVars
  <1> QED BY <1>5, <1>6

(* A request that arrives takes a free slot or waits for one that is taken. *)
LEMMA ArriveKeeps ==
  ASSUME PoolInv, NEW r \in Requests, NEW t \in Tours, Arrive(r, t)
  PROVE  PoolInv'
  <1>1. TypeOK /\ TypeOK'
    BY ArriveTypes DEF PoolInv, SlotsKept
  <1> DEFINE d == docker[r]
  <1>2. /\ agent.doing = "idle" /\ agent.for = None /\ Running /\ d \in Dockers
        /\ phase[r] = "new" /\ owner[t] = None
    <2>1. agent = Idle /\ phase[r] = "new" /\ owner[t] = None
      BY DEF Arrive, Rentable
    <2>2. d \in Dockers
      BY <1>1 DEF TypeOK
    <2> QED BY <2>1, <2>2, AtWorkArrived
  <1>3. /\ r \notin leaked /\ proc[r] = "none"
        /\ \A i \in DOMAIN postponed : postponed[i] # r /\ postponed[i] \in Requests
    BY <1>1, <1>2 DEF PoolInv, Arrived, TypeOK
  <1>4. UNCHANGED <<docker, proc, leaked, out, err>>
    BY DEF Arrive, requestVars, procVars, rudderVars
  <1>5. agent' \in {agent, Spawning(r, "arrive")}
    BY DEF Arrive
  <1>6. agent'.doing \in {"idle", "spawn"} /\ agent'.for \in {None, r}
    BY <1>2, <1>5 DEF Spawning
  <1>7. \A i \in DOMAIN postponed' : (i \in DOMAIN postponed /\ postponed'[i] = postponed[i]) \/ postponed'[i] = r
    <2>1. CASE UNCHANGED postponed
      BY <2>1
    <2>2. CASE postponed' = Append(postponed, r)
      <3>1. postponed \in Seq(Requests)
        BY <1>1 DEF TypeOK
      <3>2. /\ Len(postponed) \in Nat
            /\ DOMAIN Append(postponed, r) = 1 .. Len(postponed) + 1 /\ DOMAIN postponed = 1 .. Len(postponed)
            /\ Append(postponed, r)[Len(postponed) + 1] = r
            /\ \A i \in DOMAIN postponed : Append(postponed, r)[i] = postponed[i]
            /\ \A i \in DOMAIN Append(postponed, r) : i \in DOMAIN postponed \/ i = Len(postponed) + 1
        BY <3>1, AppendFacts
      <3> QED BY <2>2, <3>2
    <2> QED BY <2>1, <2>2 DEF Arrive
  <1>8. Arrived'
    <2>1. \A q \in Requests : phase'[q] = IF q = r THEN "arrived" ELSE phase[q]
      BY <1>1 DEF Arrive, TypeOK
    <2>2. \A q \in Requests : tour'[q] = IF q = r THEN t ELSE tour[q]
      BY <1>1 DEF Arrive, TypeOK
    <2>3. \A u \in Tours : owner'[u] = IF u = t THEN r ELSE owner[u]
      BY <1>1 DEF Arrive, TypeOK
    <2>4. \A q \in Requests : phase'[q] = "new" =>
            q \notin leaked' /\ proc'[q] = "none" /\ agent'.for # q /\ \A i \in DOMAIN postponed' : postponed'[i] # q
      BY <1>4, <1>6, <1>7, <2>1, Numbers DEF PoolInv, Arrived
    <2>5. \A q \in Requests : phase'[q] # "new" => tour'[q] \in Tours /\ (owner'[tour'[q]] = q <=> phase'[q] # "returned")
      <3> SUFFICES ASSUME NEW q \in Requests, phase'[q] # "new"
                   PROVE  tour'[q] \in Tours /\ (owner'[tour'[q]] = q <=> phase'[q] # "returned")
        OBVIOUS
      <3>1. CASE q = r
        BY <2>1, <2>2, <2>3, <3>1
      <3>2. CASE q # r
        <4>1. phase[q] # "new" /\ tour[q] \in Tours /\ (owner[tour[q]] = q <=> phase[q] # "returned")
          BY <2>1, <3>2 DEF PoolInv, Arrived
        <4> QED BY <1>2, <2>1, <2>2, <2>3, <3>2, <4>1, Numbers
      <3> QED BY <3>1, <3>2
    <2> QED BY <2>4, <2>5 DEF Arrived
  <1>9. Outputs'
    BY <1>4 DEF Outputs, PoolInv
  <1>10. LockedByAnother'
    BY <1>6 DEF LockedByAnother
  <1>11. DOMAIN count = Dockers /\ DOMAIN wait = Dockers
    BY <1>1 DEF TypeOK
  <1>12. CASE Room(count[d])
    <2>1. count' = [count EXCEPT ![d] = @ + 1] /\ agent' = Spawning(r, "arrive") /\ UNCHANGED <<wait, postponed>>
      BY <1>12 DEF Arrive
    <2>2. agent'.doing = "spawn" /\ agent'.for = r
      BY <2>1 DEF Spawning
    <2>3. \A q \in Requests : Holds(q)' <=> Holds(q) \/ q = r
      BY <1>2, <1>4, <2>2 DEF Holds
    <2>4. ~Holds(r)
      BY <1>2, <1>3 DEF Holds
    <2>5. SlotsCounted' /\ WaitersHaveRunners'
      <3> SUFFICES ASSUME NEW e \in Dockers
                   PROVE  /\ count'[e] = Cardinality({q \in Requests : docker'[q] = e /\ Holds(q)'})
                          /\ MaxProcesses > 0 => count'[e] <= MaxProcesses
                          /\ wait'[e] = Cardinality({i \in DOMAIN postponed' : docker'[postponed'[i]] = e})
                          /\ wait'[e] > 0 => count'[e] = MaxProcesses
        BY DEF SlotsCounted, WaitersHaveRunners
      <3>1. /\ count[e] = Cardinality(Holders(e)) /\ wait[e] = Cardinality(Places(postponed, e))
            /\ MaxProcesses > 0 => count[e] <= MaxProcesses
            /\ wait[e] > 0 => count[e] = MaxProcesses /\ MaxProcesses > 0
            /\ count[e] \in Nat /\ wait[e] \in Nat /\ MaxProcesses \in Int
        BY <1>2, SlotFacts
      <3>2. wait'[e] = Cardinality({i \in DOMAIN postponed' : docker'[postponed'[i]] = e})
        BY <1>4, <2>1, <3>1 DEF Places
      <3>3. CASE e # d
        <4>1. {q \in Requests : docker'[q] = e /\ Holds(q)'} = Holders(e)
          BY <1>4, <2>3, <3>3 DEF Holders
        <4>2. count'[e] = count[e] /\ wait'[e] = wait[e]
          BY <2>1, <3>3, <1>11
        <4> QED BY <3>1, <3>2, <4>1, <4>2
      <3>4. CASE e = d
        <4>1. {q \in Requests : docker'[q] = d /\ Holds(q)'} = Holders(d) \cup {r}
          BY <1>4, <2>3 DEF Holders
        <4>2. r \notin Holders(d)
          BY <2>4 DEF Holders
        <4>3. Cardinality(Holders(d) \cup {r}) = Cardinality(Holders(d)) + 1
          BY <1>1, <1>2, <4>2, SlotsFinite, FS_AddElement
        <4>4. count'[d] = count[d] + 1 /\ wait'[d] = wait[d]
          BY <1>2, <2>1, <1>11
        <4>5. MaxProcesses <= 0 \/ count[d] < MaxProcesses
          BY <1>12 DEF Room
        <4>6. /\ MaxProcesses > 0 => count[d] + 1 <= MaxProcesses
              /\ ~(wait[d] > 0)
          BY <3>1, <3>4, <4>5
        <4> QED BY <3>1, <3>2, <3>4, <4>1, <4>3, <4>4, <4>6
      <3> QED BY <3>3, <3>4
    <2>6. PostponedWait'
      BY <1>3, <1>4, <2>1, <2>2 DEF PostponedWait, PoolInv
    <2>7. AtWork'
      BY <1>3, <1>4, <2>2 DEF AtWork
    <2>8. Limited'
      BY <2>1 DEF Limited, PoolInv
    <2> QED BY <1>1, <1>8, <1>9, <1>10, <2>5, <2>6, <2>7, <2>8 DEF PoolInv, SlotsKept
  <1>13. CASE ~Room(count[d])
    <2>1. wait' = [wait EXCEPT ![d] = @ + 1] /\ postponed' = Append(postponed, r) /\ UNCHANGED <<agent, count>>
      BY <1>13 DEF Arrive
    <2>2. \A q \in Requests : Holds(q)' <=> Holds(q)
      BY <1>4, <2>1 DEF Holds
    <2>3. MaxProcesses > 0 /\ ~(count[d] < MaxProcesses)
      BY <1>13, CgiPoolAssumption DEF Room, CgiPoolAssumption
    <2>4. SlotsCounted' /\ WaitersHaveRunners'
      <3> SUFFICES ASSUME NEW e \in Dockers
                   PROVE  /\ count'[e] = Cardinality({q \in Requests : docker'[q] = e /\ Holds(q)'})
                          /\ MaxProcesses > 0 => count'[e] <= MaxProcesses
                          /\ wait'[e] = Cardinality({i \in DOMAIN postponed' : docker'[postponed'[i]] = e})
                          /\ wait'[e] > 0 => count'[e] = MaxProcesses
        BY DEF SlotsCounted, WaitersHaveRunners
      <3>1. /\ count[e] = Cardinality(Holders(e)) /\ wait[e] = Cardinality(Places(postponed, e))
            /\ MaxProcesses > 0 => count[e] <= MaxProcesses
            /\ wait[e] > 0 => count[e] = MaxProcesses /\ MaxProcesses > 0
            /\ count[e] \in Nat /\ wait[e] \in Nat /\ MaxProcesses \in Int
        BY <1>2, SlotFacts
      <3>2. {q \in Requests : docker'[q] = e /\ Holds(q)'} = Holders(e) /\ count'[e] = count[e]
        BY <1>4, <2>1, <2>2 DEF Holders
      <3>3. {i \in DOMAIN postponed' : docker'[postponed'[i]] = e} = Places(Append(postponed, r), e)
        BY <1>4, <2>1 DEF Places
      <3>4. postponed \in Seq(Requests)
        BY <1>1 DEF TypeOK
      <3>5. CASE e # d
        <4>1. Places(Append(postponed, r), e) = Places(postponed, e)
          BY <3>4, <3>5, PlacesOfAppend
        <4>2. wait'[e] = wait[e]
          BY <2>1, <3>5, <1>11
        <4> QED BY <3>1, <3>2, <3>3, <4>1, <4>2
      <3>6. CASE e = d
        <4>1. /\ Places(Append(postponed, r), d) = Places(postponed, d) \cup {Len(postponed) + 1}
              /\ Len(postponed) + 1 \notin Places(postponed, d)
          BY <3>4, PlacesOfAppend
        <4>2. IsFiniteSet(Places(postponed, d))
          BY <1>1, <1>2, SlotsFinite
        <4>3. Cardinality(Places(Append(postponed, r), d)) = Cardinality(Places(postponed, d)) + 1
          BY <4>1, <4>2, FS_AddElement
        <4>4. wait'[d] = wait[d] + 1
          BY <1>2, <2>1, <1>11
        <4>5. count[d] = MaxProcesses
          BY <2>3, <3>1, <3>6
        <4> QED BY <3>1, <3>2, <3>3, <3>6, <4>3, <4>4, <4>5
      <3> QED BY <3>5, <3>6
    <2>5. PostponedWait'
      BY <1>2, <1>3, <1>4, <1>7, <2>1 DEF PostponedWait, PoolInv
    <2>6. AtWork'
      BY <1>2, <2>1 DEF AtWork
    <2>7. Limited'
      BY <2>3, CgiPoolAssumption DEF Limited, CgiPoolAssumption
    <2> QED BY <1>1, <1>8, <1>9, <1>10, <2>4, <2>5, <2>6, <2>7 DEF PoolInv, SlotsKept
  <1> QED BY <1>12, <1>13

(* What a step that ends a process knows of it, and of its answer.          *)
LEMMA FinishedFacts ==
  ASSUME PoolInv, NEW r \in Requests, Finished(r)
  PROVE  /\ agent.doing = "wait" /\ agent.for = r /\ Running /\ docker[r] \in Dockers
         /\ proc[r] \notin {"none", "reaped"} /\ r \notin leaked
         /\ out[r] = "closed" /\ err[r] = "closed"
         /\ phase[r] # "new" /\ tour[r] \in Tours
         /\ (owner[tour[r]] = r <=> phase[r] # "returned")
         /\ \A q \in Requests : proc'[q] = IF q = r THEN "reaped" ELSE proc[q]
         /\ UNCHANGED <<docker, out, err, leaked, tour, outTour>>
         /\ ~OwnTour(r) => agent' = Dead /\ UNCHANGED <<poolVars, phase, owner, conn, astray>>
         /\ OwnTour(r) => /\ \/ conn[r] /\ phase' = [phase EXCEPT ![r] = "ended"] /\ UNCHANGED <<owner, conn>>
                             \/ ~conn[r] /\ Return(r)
                          /\ astray' = astray /\ CatchUp(docker[r])
  <1>1. TypeOK
    BY DEF PoolInv, SlotsKept
  <1>2. agent.doing = "wait" /\ agent.for = r /\ Running /\ docker[r] \in Dockers
    BY <1>1 DEF Finished, Running, TypeOK
  <1>3. proc[r] \notin {"none", "reaped"} /\ out[r] = "closed" /\ err[r] = "closed"
    BY <1>2 DEF PoolInv, AtWork
  <1>4. r \notin leaked
    BY <1>3 DEF PoolInv, Outputs
  <1>5. phase[r] # "new" /\ tour[r] \in Tours /\ (owner[tour[r]] = r <=> phase[r] # "returned")
    BY <1>3 DEF PoolInv, Arrived
  <1>6. \A q \in Requests : proc'[q] = IF q = r THEN "reaped" ELSE proc[q]
    BY <1>1 DEF Finished, TypeOK
  <1>7. UNCHANGED <<docker, out, err, leaked, tour, outTour>>
    BY DEF Finished, requestVars, rudderVars
  <1>8. ~OwnTour(r) => agent' = Dead /\ UNCHANGED <<poolVars, phase, owner, conn, astray>>
    BY DEF Finished
  <1>9. OwnTour(r) => /\ \/ conn[r] /\ phase' = [phase EXCEPT ![r] = "ended"] /\ UNCHANGED <<owner, conn>>
                         \/ ~conn[r] /\ Return(r)
                      /\ astray' = astray /\ CatchUp(docker[r])
    BY DEF Finished, OwnTour
  <1> QED BY <1>2, <1>3, <1>4, <1>5, <1>6, <1>7, <1>8, <1>9

(* What the slot that a process gives up becomes.  A handler that waits for *)
(* this docker gets it; one that waits for another finds no room there, for *)
(* a docker somebody waits for is full.                                     *)
LEMMA CatchUpCases ==
  ASSUME PoolInv, Running, NEW d \in Dockers, CatchUp(d)
  PROVE  \/ /\ wait[d] = 0 /\ agent' = Idle /\ count' = Freed(d)
            /\ UNCHANGED <<wait, postponed>>
         \/ /\ wait[d] > 0 /\ postponed # <<>> /\ docker[Head(postponed)] = d
            /\ postponed' = Tail(postponed) /\ wait' = [wait EXCEPT ![d] = @ - 1]
            /\ UNCHANGED count /\ agent' = Spawning(Head(postponed), "catchup")
         \/ /\ wait[d] > 0 /\ postponed # <<>> /\ docker[Head(postponed)] # d
            /\ postponed' = Tail(postponed) /\ UNCHANGED wait /\ count' = Freed(d)
            /\ agent' = [Idle EXCEPT !.doing = "locked", !.for = Head(postponed)]
  <1>1. TypeOK
    BY DEF PoolInv, SlotsKept
  <1>2. wait[d] \in Nat /\ wait[d] = Cardinality(Places(postponed, d))
    BY SlotFacts
  <1>3. CASE ~(wait[d] > 0)
    BY <1>2, <1>3 DEF CatchUp, Waits
  <1>4. CASE wait[d] > 0
    <2> DEFINE h == Head(postponed)
               e == docker[h]
    <2>1. postponed # <<>>
      <3>1. ASSUME postponed = <<>> PROVE FALSE
        <4>1. Places(postponed, d) = {}
          BY <3>1 DEF Places
        <4> QED BY <1>2, <1>4, <4>1, FS_EmptySet
      <3> QED BY <3>1
    <2>2. postponed \in Seq(Requests)
      BY <1>1 DEF TypeOK
    <2>3. 1 \in DOMAIN postponed /\ postponed[1] = h /\ h \in Requests
      BY <2>1, <2>2
    <2>4. e \in Dockers
      BY <1>1, <2>3 DEF TypeOK
    <2> HIDE DEF h
    <2>5. wait[e] > 0
      <3>1. IsFiniteSet(Places(postponed, e)) /\ 1 \in Places(postponed, e)
        BY <1>1, <2>3, <2>4, SlotsFinite DEF Places
      <3>2. Cardinality(Places(postponed, e)) # 0
        BY <3>1, FS_EmptySet
      <3>3. wait[e] = Cardinality(Places(postponed, e)) /\ wait[e] \in Nat
        BY <2>4, SlotFacts
      <3> QED BY <3>2, <3>3
    <2>6. /\ count[e] = MaxProcesses /\ count[d] = MaxProcesses /\ MaxProcesses > 0
          /\ MaxProcesses \in Int
      BY <1>4, <2>4, <2>5, SlotFacts
    <2>7. count \in [Dockers -> Nat]
      BY <1>1 DEF TypeOK
    <2>8. /\ postponed' = Tail(postponed)
          /\ IF Room(Freed(d)[e])
             THEN /\ wait' = [wait EXCEPT ![e] = @ - 1]
                  /\ count' = [Freed(d) EXCEPT ![e] = @ + 1]
                  /\ agent' = Spawning(h, "catchup")
             ELSE /\ count' = Freed(d)
                  /\ agent' = [Idle EXCEPT !.doing = "locked", !.for = h]
                  /\ UNCHANGED wait
      BY <1>4 DEF CatchUp, Waits, h
    <2>9. CASE e = d
      <3>1. Freed(d)[d] = count[d] - 1
        BY <2>7 DEF Freed
      <3>2. Room(Freed(d)[e])
        BY <2>6, <2>9, <3>1 DEF Room
      <3>3. [Freed(d) EXCEPT ![d] = @ + 1] = count
        <4>1. \A x \in Dockers : [Freed(d) EXCEPT ![d] = @ + 1][x] = count[x]
          <5> SUFFICES ASSUME NEW x \in Dockers PROVE [Freed(d) EXCEPT ![d] = @ + 1][x] = count[x]
            OBVIOUS
          <5>1. count[d] \in Nat /\ (count[d] - 1) + 1 = count[d]
            BY <2>7
          <5>2. DOMAIN Freed(d) = Dockers /\ (x # d => Freed(d)[x] = count[x])
            BY <2>7 DEF Freed
          <5> HIDE DEF Freed
          <5> QED BY <3>1, <5>1, <5>2
        <4>2. DOMAIN [Freed(d) EXCEPT ![d] = @ + 1] = Dockers
          BY <2>7 DEF Freed
        <4>3. [Freed(d) EXCEPT ![d] = @ + 1] = [x \in Dockers |-> [Freed(d) EXCEPT ![d] = @ + 1][x]]
          BY <4>2 DEF Freed
        <4>4. count = [x \in Dockers |-> count[x]]
          BY <2>7
        <4> QED BY <4>1, <4>3, <4>4
      <3> QED BY <1>4, <2>1, <2>8, <2>9, <3>2, <3>3 DEF h
    <2>10. CASE e # d
      <3>1. Freed(d)[e] = count[e]
        BY <2>4, <2>7, <2>10 DEF Freed
      <3>2. ~Room(Freed(d)[e])
        BY <2>6, <3>1 DEF Room
      <3> QED BY <1>4, <2>1, <2>8, <2>10, <3>2 DEF h
    <2> QED BY <2>9, <2>10
  <1> QED BY <1>2, <1>3, <1>4

(* The requests behind the first, and what is known of the first.           *)
LEMMA TailFacts ==
  ASSUME TypeOK, postponed # <<>>
  PROVE  /\ postponed \in Seq(Requests) /\ Tail(postponed) \in Seq(Requests)
         /\ 1 \in DOMAIN postponed /\ Head(postponed) = postponed[1] /\ Head(postponed) \in Requests
         /\ \A i \in DOMAIN Tail(postponed) :
              i + 1 \in DOMAIN postponed /\ Tail(postponed)[i] = postponed[i + 1] /\ i + 1 # 1 /\ i \in Nat
         /\ \A i \in DOMAIN Tail(postponed) : Tail(postponed)[i] # Head(postponed)
         /\ IsInjective(Tail(postponed))
  <1>1. postponed \in Seq(Requests) /\ IsInjective(postponed)
    BY DEF TypeOK
  <1>2. /\ Tail(postponed) \in Seq(Requests)
        /\ 1 \in DOMAIN postponed /\ Head(postponed) = postponed[1] /\ Head(postponed) \in Requests
    BY <1>1
  <1>3. \A i \in DOMAIN Tail(postponed) :
          i + 1 \in DOMAIN postponed /\ Tail(postponed)[i] = postponed[i + 1] /\ i + 1 # 1 /\ i \in Nat
    BY <1>1
  <1>4. \A i \in DOMAIN Tail(postponed) : Tail(postponed)[i] # Head(postponed)
    BY <1>1, <1>2, <1>3 DEF IsInjective
  <1>5. IsInjective(Tail(postponed))
    <2> SUFFICES ASSUME NEW i \in DOMAIN Tail(postponed), NEW j \in DOMAIN Tail(postponed),
                        Tail(postponed)[i] = Tail(postponed)[j]
                 PROVE  i = j
      BY DEF IsInjective
    <2>1. i + 1 = j + 1
      BY <1>1, <1>3 DEF IsInjective
    <2>2. i \in Nat /\ j \in Nat
      BY <1>3
    <2> QED BY <2>1, <2>2
  <1> QED BY <1>1, <1>2, <1>3, <1>4, <1>5

(* The end of a process leaves a well-typed state.                          *)
LEMMA FinishedTypes ==
  ASSUME PoolInv, NEW r \in Requests, Finished(r)
  PROVE  TypeOK'
  <1>1. TypeOK /\ agent \in Agents
    BY DEF PoolInv, SlotsKept, TypeOK, Agents
  <1>2. PipeSize \in Nat /\ 0 \in 0 .. PipeSize
    BY CgiPoolAssumption DEF CgiPoolAssumption
  <1>3. /\ proc' \in [Requests -> {"none", "running", "quiet", "exited", "reaped"}]
        /\ wrote' \in [Requests -> Nat] /\ stdin' \in [Requests -> 0 .. PipeSize]
        /\ stdout' \in [Requests -> 0 .. PipeSize]
    BY <1>1, <1>2 DEF Finished, TypeOK
  <1>4. UNCHANGED <<requestVars, tour, got, rudderVars, leaked>>
    BY DEF Finished
  <1>5. CASE ~OwnTour(r)
    <2>1. agent' = Dead /\ UNCHANGED <<poolVars, phase, owner, conn, astray>>
      BY <1>5, FinishedFacts
    <2>2. agent' \in Agents
      BY <2>1, AgentTypes
    <2> QED BY <1>1, <1>3, <1>4, <2>1, <2>2 DEF TypeOK, Agents, requestVars, poolVars, rudderVars
  <1>6. CASE OwnTour(r)
    <2> DEFINE d == docker[r]
    <2>1. /\ \/ conn[r] /\ phase' = [phase EXCEPT ![r] = "ended"] /\ UNCHANGED <<owner, conn>>
             \/ ~conn[r] /\ Return(r)
          /\ astray' = astray /\ CatchUp(d) /\ Running /\ d \in Dockers
      BY <1>6, FinishedFacts
    <2>2. /\ phase' \in [Requests -> {"new", "arrived", "ended", "returned"}]
          /\ owner' \in [Tours -> Requests \cup {None}]
          /\ conn' \in [Requests -> BOOLEAN]
      <3>1. CASE phase' = [phase EXCEPT ![r] = "ended"] /\ UNCHANGED <<owner, conn>>
        BY <1>1, <3>1 DEF TypeOK
      <3>2. CASE Return(r)
        BY <1>1, <3>2 DEF Return, TypeOK
      <3> QED BY <2>1, <3>1, <3>2
    <2>3. wait[d] > 0 => count[d] = MaxProcesses /\ MaxProcesses > 0
      BY <2>1, SlotFacts
    <2>4. count[d] \in Nat /\ wait[d] \in Nat /\ count[d] > 0
      <3>1. r \in Holders(d)
        BY FinishedFacts DEF Holders, Holds
      <3>2. Cardinality(Holders(d)) # 0 /\ Cardinality(Holders(d)) \in Nat
        BY <1>1, <2>1, <3>1, SlotsFinite, FS_EmptySet
      <3> QED BY <2>1, <3>2, SlotFacts
    <2>5. count[d] - 1 \in Nat /\ (wait[d] > 0 => wait[d] - 1 \in Nat)
      BY <2>4
    <2>6. count \in [Dockers -> Nat] /\ wait \in [Dockers -> Nat]
      BY <1>1 DEF TypeOK
    <2> HIDE DEF d
    <2>7. Freed(d) \in [Dockers -> Nat]
      BY <2>5, <2>6 DEF Freed
    <2>8. wait[d] > 0 => [wait EXCEPT ![d] = @ - 1] \in [Dockers -> Nat]
      BY <2>5, <2>6
    <2>9. /\ count' \in [Dockers -> Nat] /\ wait' \in [Dockers -> Nat] /\ agent' \in Agents
          /\ postponed' \in Seq(Requests) /\ IsInjective(postponed')
      <3>1. CASE agent' = Idle /\ count' = Freed(d) /\ UNCHANGED <<wait, postponed>>
        BY <1>1, <2>6, <2>7, <3>1, AgentTypes DEF TypeOK
      <3>2. CASE /\ wait[d] > 0 /\ postponed # <<>>
                 /\ postponed' = Tail(postponed) /\ wait' = [wait EXCEPT ![d] = @ - 1]
                 /\ UNCHANGED count /\ agent' = Spawning(Head(postponed), "catchup")
        BY <1>1, <2>6, <2>8, <3>2, TailFacts, AgentTypes
      <3>3. CASE /\ postponed # <<>>
                 /\ postponed' = Tail(postponed) /\ UNCHANGED wait /\ count' = Freed(d)
                 /\ agent' = [Idle EXCEPT !.doing = "locked", !.for = Head(postponed)]
        BY <1>1, <2>6, <2>7, <3>3, TailFacts, AgentTypes
      <3> QED BY <2>1, <3>1, <3>2, <3>3, CatchUpCases
    <2> QED BY <1>1, <1>3, <1>4, <2>1, <2>2, <2>9 DEF TypeOK, Agents, requestVars, rudderVars
  <1> QED BY <1>5, <1>6

(* What becomes of the response, the tour and the outputs.                  *)
LEMMA FinishedArrived ==
  ASSUME PoolInv, NEW r \in Requests, Finished(r),
         agent'.for \in {agent.for, None} \/ phase[agent'.for] # "new",
         UNCHANGED postponed \/ (postponed # <<>> /\ postponed' = Tail(postponed))
  PROVE  Arrived' /\ Outputs'
  <1>1. TypeOK
    BY DEF PoolInv, SlotsKept
  <1>2. /\ phase[r] # "new" /\ tour[r] \in Tours /\ proc[r] # "none" /\ r \notin leaked
        /\ (owner[tour[r]] = r <=> phase[r] # "returned")
        /\ out[r] = "closed" /\ err[r] = "closed"
        /\ \A q \in Requests : proc'[q] = IF q = r THEN "reaped" ELSE proc[q]
        /\ UNCHANGED <<out, err, leaked, tour>>
    BY FinishedFacts
  <1>3. Outputs'
    BY <1>2 DEF Outputs, PoolInv
  <1>4. \A i \in DOMAIN postponed' : \E j \in DOMAIN postponed : postponed'[i] = postponed[j]
    BY <1>1, TailFacts
  <1>5. \A q \in Requests : phase[q] = "new" =>
          q \notin leaked' /\ proc'[q] = "none" /\ agent'.for # q /\ \A i \in DOMAIN postponed' : postponed'[i] # q
    BY <1>2, <1>4, Numbers DEF PoolInv, Arrived
  <1>6. /\ \A q \in Requests : (phase'[q] = "new" <=> phase[q] = "new")
        /\ \A q \in Requests : phase[q] # "new" => (owner'[tour[q]] = q <=> phase'[q] # "returned")
    <2>1. CASE UNCHANGED <<phase, owner>>
      BY <2>1 DEF PoolInv, Arrived
    <2>2. CASE OwnTour(r) /\ phase' = [phase EXCEPT ![r] = "ended"] /\ UNCHANGED owner
      <3>1. \A q \in Requests : phase'[q] = IF q = r THEN "ended" ELSE phase[q]
        BY <1>1, <2>2 DEF TypeOK
      <3> QED BY <1>2, <2>2, <3>1 DEF PoolInv, Arrived, OwnTour
    <2>3. CASE OwnTour(r) /\ Return(r)
      <3>1. \A q \in Requests : phase'[q] = IF q = r THEN "returned" ELSE phase[q]
        BY <1>1, <2>3 DEF Return, TypeOK
      <3>2. \A u \in Tours : owner'[u] = IF u = tour[r] THEN None ELSE owner[u]
        BY <1>1, <2>3 DEF Return, TypeOK
      <3>3. \A q \in Requests : phase[q] # "new" => tour[q] \in Tours /\ (owner[tour[q]] = q <=> phase[q] # "returned")
        BY DEF PoolInv, Arrived
      <3>4. ASSUME NEW q \in Requests, phase[q] # "new" PROVE owner'[tour[q]] = q <=> phase'[q] # "returned"
        BY <1>2, <2>3, <3>1, <3>2, <3>3, <3>4, Numbers DEF OwnTour
      <3> QED BY <1>2, <3>1, <3>4
    <2> QED BY <2>1, <2>2, <2>3, FinishedFacts
  <1>7. \A q \in Requests : phase[q] # "new" => tour[q] \in Tours
    BY DEF PoolInv, Arrived
  <1> QED BY <1>2, <1>3, <1>5, <1>6, <1>7 DEF Arrived

(* The slot of a process that ended is free, or is that of the oldest       *)
(* request that waited for it.                                              *)
LEMMA FinishedKeeps ==
  ASSUME PoolInv, NEW r \in Requests, Finished(r)
  PROVE  PoolInv'
  <1>1. TypeOK /\ TypeOK'
    BY FinishedTypes DEF PoolInv, SlotsKept
  <1> DEFINE d == docker[r]
  <1>2. /\ agent.doing = "wait" /\ agent.for = r /\ Running /\ d \in Dockers
        /\ proc[r] \notin {"none", "reaped"} /\ r \notin leaked /\ phase[r] # "new"
        /\ \A q \in Requests : proc'[q] = IF q = r THEN "reaped" ELSE proc[q]
        /\ UNCHANGED <<docker, out, err, leaked, tour>>
    BY FinishedFacts
  <1>3. \A i \in DOMAIN postponed : /\ postponed[i] \in Requests /\ proc[postponed[i]] = "none"
                                    /\ postponed[i] \notin leaked /\ postponed[i] # r
    <2>1. \A i \in DOMAIN postponed : postponed[i] \in Requests
      BY <1>1 DEF TypeOK
    <2>2. \A i \in DOMAIN postponed : proc[postponed[i]] = "none" /\ postponed[i] \notin leaked
      BY DEF PoolInv, PostponedWait
    <2> QED BY <1>2, <2>1, <2>2
  <1>4. count \in [Dockers -> Nat] /\ wait \in [Dockers -> Nat]
    BY <1>1 DEF TypeOK
  <1>5. Holds(r) /\ \A q \in Requests : q # r => (Holds(q) <=> proc[q] \notin {"none", "reaped"} \/ q \in leaked)
    BY <1>2 DEF Holds
  <1>6. CASE ~OwnTour(r)
    <2>1. agent' = Dead /\ UNCHANGED <<count, wait, postponed>>
      BY <1>6, FinishedFacts DEF poolVars
    <2>2. agent'.doing = "dead" /\ agent'.for = None
      BY <2>1, AgentTypes
    <2>3. Arrived' /\ Outputs'
      BY <2>1, <2>2, FinishedArrived
    <2>4. PostponedWait'
      BY <1>2, <1>3, <2>1, <2>2 DEF PostponedWait
    <2>5. SlotsCounted' /\ WaitersHaveRunners' /\ LockedByAnother' /\ AtWork' /\ Limited'
      BY <2>1, <2>2 DEF SlotsCounted, WaitersHaveRunners, Running, LockedByAnother, AtWork, Limited, PoolInv
    <2> QED BY <1>1, <2>3, <2>4, <2>5 DEF PoolInv, SlotsKept
  <1>7. CASE OwnTour(r)
    <2>1. CatchUp(d)
      BY <1>7, FinishedFacts
    <2>2. CASE wait[d] = 0 /\ agent' = Idle /\ count' = Freed(d) /\ UNCHANGED <<wait, postponed>>
      <3>1. agent'.doing = "idle" /\ agent'.for = None
        BY <2>2, AgentTypes
      <3>2. Arrived' /\ Outputs'
        BY <2>2, <3>1, FinishedArrived
      <3>3. PostponedWait'
        BY <1>2, <1>3, <2>2, <3>1 DEF PostponedWait
      <3>4. LockedByAnother' /\ AtWork' /\ Limited'
        BY <2>2, <3>1 DEF LockedByAnother, AtWork, Limited, PoolInv
      <3>5. SlotsCounted' /\ WaitersHaveRunners'
        <4> SUFFICES ASSUME NEW x \in Dockers
                     PROVE  /\ count'[x] = Cardinality({q \in Requests : docker'[q] = x /\ Holds(q)'})
                            /\ MaxProcesses > 0 => count'[x] <= MaxProcesses
                            /\ wait'[x] = Cardinality({i \in DOMAIN postponed' : docker'[postponed'[i]] = x})
                            /\ wait'[x] > 0 => count'[x] = MaxProcesses
          BY DEF SlotsCounted, WaitersHaveRunners
        <4>1. /\ count[x] = Cardinality(Holders(x)) /\ wait[x] = Cardinality(Places(postponed, x))
              /\ MaxProcesses > 0 => count[x] <= MaxProcesses
              /\ wait[x] > 0 => count[x] = MaxProcesses /\ MaxProcesses > 0
              /\ count[x] \in Nat /\ wait[x] \in Nat /\ MaxProcesses \in Int
          BY <1>2, SlotFacts
        <4>2. wait'[x] = Cardinality({i \in DOMAIN postponed' : docker'[postponed'[i]] = x})
          BY <1>2, <2>2, <4>1 DEF Places
        <4>3. {q \in Requests : docker'[q] = x /\ Holds(q)'} = Holders(x) \ {r}
          BY <1>2, <1>5, <3>1 DEF Holders, Holds
        <4>4. IsFiniteSet(Holders(x)) /\ (r \in Holders(x) <=> x = d)
          BY <1>1, <1>5, SlotsFinite DEF Holders
        <4>5. Cardinality(Holders(x) \ {r}) = IF x = d THEN count[x] - 1 ELSE count[x]
          BY <4>1, <4>4, FS_RemoveElement
        <4>6. count'[x] = IF x = d THEN count[x] - 1 ELSE count[x]
          BY <1>4, <2>2 DEF Freed
        <4>7. /\ MaxProcesses > 0 => count'[x] <= MaxProcesses
              /\ wait'[x] > 0 => count'[x] = MaxProcesses
          BY <2>2, <4>1, <4>6
        <4> QED BY <4>2, <4>3, <4>5, <4>6, <4>7
      <3> QED BY <1>1, <3>2, <3>3, <3>4, <3>5 DEF PoolInv, SlotsKept
    <2> DEFINE h == Head(postponed)
    <2>3. CASE /\ wait[d] > 0 /\ postponed # <<>> /\ docker[h] = d
               /\ postponed' = Tail(postponed) /\ wait' = [wait EXCEPT ![d] = @ - 1]
               /\ UNCHANGED count /\ agent' = Spawning(h, "catchup")
      <3>1. agent'.doing = "spawn" /\ agent'.for = h
        BY <2>3 DEF Spawning
      <3>2. /\ h \in Requests /\ proc[h] = "none" /\ h \notin leaked /\ h # r /\ phase[h] # "new"
            /\ 1 \in DOMAIN postponed /\ h = postponed[1]
        BY <1>1, <1>3, <2>3, TailFacts DEF PoolInv, Arrived
      <3>3. Arrived' /\ Outputs'
        BY <2>3, <3>1, <3>2, FinishedArrived
      <3>4. \A i \in DOMAIN postponed' : /\ i + 1 \in DOMAIN postponed /\ postponed'[i] = postponed[i + 1]
                                         /\ postponed'[i] # h
        BY <1>1, <2>3, TailFacts
      <3> HIDE DEF h
      <3>5. PostponedWait'
        BY <1>2, <1>3, <3>1, <3>4 DEF PostponedWait
      <3>6. LockedByAnother' /\ AtWork'
        BY <1>2, <3>1, <3>2 DEF LockedByAnother, AtWork
      <3>7. Limited'
        BY <2>3 DEF Limited, PoolInv
      <3>8. SlotsCounted' /\ WaitersHaveRunners'
        <4> SUFFICES ASSUME NEW x \in Dockers
                     PROVE  /\ count'[x] = Cardinality({q \in Requests : docker'[q] = x /\ Holds(q)'})
                            /\ MaxProcesses > 0 => count'[x] <= MaxProcesses
                            /\ wait'[x] = Cardinality({i \in DOMAIN postponed' : docker'[postponed'[i]] = x})
                            /\ wait'[x] > 0 => count'[x] = MaxProcesses
          BY DEF SlotsCounted, WaitersHaveRunners
        <4>1. /\ count[x] = Cardinality(Holders(x)) /\ wait[x] = Cardinality(Places(postponed, x))
              /\ MaxProcesses > 0 => count[x] <= MaxProcesses
              /\ wait[x] > 0 => count[x] = MaxProcesses /\ MaxProcesses > 0
              /\ count[x] \in Nat /\ wait[x] \in Nat /\ MaxProcesses \in Int
          BY <1>2, SlotFacts
        <4>2. {i \in DOMAIN postponed' : docker'[postponed'[i]] = x} = Places(Tail(postponed), x)
          BY <1>2, <2>3 DEF Places
        <4>3. IsFiniteSet(Places(postponed, x)) /\ IsFiniteSet(Holders(x)) /\ postponed \in Seq(Requests)
          BY <1>1, SlotsFinite DEF TypeOK
        <4>4. Cardinality(Places(Tail(postponed), x)) = Cardinality(Places(postponed, x) \ {1})
          BY <2>3, <4>3, PlacesOfTail
        <4>5. 1 \in Places(postponed, x) <=> x = d
          BY <2>3, <3>2 DEF Places
        <4>6. Cardinality(Places(Tail(postponed), x)) = IF x = d THEN wait[x] - 1 ELSE wait[x]
          BY <4>1, <4>3, <4>4, <4>5, FS_RemoveElement
        <4>7. wait'[x] = IF x = d THEN wait[x] - 1 ELSE wait[x]
          BY <1>4, <2>3
        <4>8. {q \in Requests : docker'[q] = x /\ Holds(q)'} = IF x = d THEN (Holders(x) \ {r}) \cup {h} ELSE Holders(x)
          BY <1>2, <1>5, <2>3, <3>1, <3>2 DEF Holders, Holds
        <4>9. r \in Holders(d) /\ h \notin Holders(d)
          BY <1>5, <3>2 DEF Holders
        <4>10. x = d => Cardinality((Holders(x) \ {r}) \cup {h}) = count[x]
          <5> SUFFICES ASSUME x = d PROVE Cardinality((Holders(x) \ {r}) \cup {h}) = count[x]
            OBVIOUS
          <5>1. IsFiniteSet(Holders(x) \ {r}) /\ Cardinality(Holders(x) \ {r}) = count[x] - 1
            BY <4>1, <4>3, <4>9, FS_RemoveElement
          <5>2. Cardinality((Holders(x) \ {r}) \cup {h}) = (count[x] - 1) + 1
            <6>1. h \notin Holders(x) \ {r}
              BY <4>9
            <6>2. Cardinality((Holders(x) \ {r}) \cup {h}) = IF h \in Holders(x) \ {r} THEN Cardinality(Holders(x) \ {r}) ELSE Cardinality(Holders(x) \ {r}) + 1
              BY <5>1, FS_AddElement
            <6> QED BY <5>1, <6>1, <6>2, Zenon
          <5> QED BY <4>1, <5>2
        <4>11. count'[x] = count[x]
          BY <2>3
        <4>12. count[x] = Cardinality({q \in Requests : docker'[q] = x /\ Holds(q)'})
          BY <4>1, <4>8, <4>10
        <4>13. wait'[x] > 0 => count[x] = MaxProcesses
          BY <4>1, <4>7
        <4> QED BY <4>1, <4>2, <4>6, <4>7, <4>11, <4>12, <4>13
      <3> QED BY <1>1, <3>3, <3>5, <3>6, <3>7, <3>8 DEF PoolInv, SlotsKept
    <2>4. CASE /\ wait[d] > 0 /\ postponed # <<>> /\ docker[h] # d
               /\ postponed' = Tail(postponed) /\ UNCHANGED wait /\ count' = Freed(d)
               /\ agent' = [Idle EXCEPT !.doing = "locked", !.for = h]
      <3>1. agent'.doing = "locked" /\ agent'.for = h
        BY <2>4 DEF Idle
      <3>2. h \in Requests /\ phase[h] # "new"
        BY <1>1, <2>4, TailFacts DEF PoolInv, Arrived
      <3>3. Arrived' /\ Outputs'
        BY <2>4, <3>1, <3>2, FinishedArrived
      <3>4. \A i \in DOMAIN postponed' : i + 1 \in DOMAIN postponed /\ postponed'[i] = postponed[i + 1]
        BY <1>1, <2>4, TailFacts
      <3> HIDE DEF h
      <3>5. PostponedWait'
        BY <1>2, <1>3, <3>1, <3>4 DEF PostponedWait
      <3>6. LockedByAnother' /\ AtWork'
        BY <1>2, <2>4, <3>1, <3>2 DEF LockedByAnother, AtWork
      <3>7. Limited'
        BY <2>4 DEF Limited, PoolInv
      <3>8. SlotsCounted' /\ WaitersHaveRunners'
        BY <3>1 DEF SlotsCounted, WaitersHaveRunners, Running
      <3> QED BY <1>1, <3>3, <3>5, <3>6, <3>7, <3>8 DEF PoolInv, SlotsKept
    <2>5. \/ wait[d] = 0 /\ agent' = Idle /\ count' = Freed(d) /\ UNCHANGED <<wait, postponed>>
          \/ /\ wait[d] > 0 /\ postponed # <<>> /\ docker[h] = d
             /\ postponed' = Tail(postponed) /\ wait' = [wait EXCEPT ![d] = @ - 1]
             /\ UNCHANGED count /\ agent' = Spawning(h, "catchup")
          \/ /\ wait[d] > 0 /\ postponed # <<>> /\ docker[h] # d
             /\ postponed' = Tail(postponed) /\ UNCHANGED wait /\ count' = Freed(d)
             /\ agent' = [Idle EXCEPT !.doing = "locked", !.for = h]
      BY <1>2, <2>1, CatchUpCases
    <2> QED BY <2>2, <2>3, <2>4, <2>5
  <1> QED BY <1>6, <1>7

(* No step of an agent, a process or a client loses a slot.                 *)
LEMMA PoolStep ==
  ASSUME PoolInv, [Next]_vars
  PROVE  PoolInv'
  <1>1. CASE UNCHANGED vars
    <2>1. UNCHANGED <<requestVars, poolVars, tourVars, procVars, rudderVars, agent, leaked, astray>>
      BY <1>1 DEF vars
    <2>2. UNCHANGED <<last, docker, body, habit, timeouts, count, wait, postponed, owner, tour, phase, conn, got,
                      proc, wrote, stdin, stdout, out, err, outTour, agent, leaked, astray>>
      BY <2>1 DEF requestVars, poolVars, tourVars, procVars, rudderVars
    <2>3. TypeOK'
      BY <2>2 DEF PoolInv, SlotsKept, TypeOK
    <2>4. Arrived' /\ Outputs'
      BY <2>2 DEF PoolInv, Arrived, Outputs
    <2>5. AtWork'
      BY <2>2 DEF PoolInv, AtWork
    <2> QED BY <2>2, <2>3, <2>4, <2>5, CalmStep
  <1>2. CASE Next
    <2>1. PICK r \in Requests : \/ \E t \in Tours : Arrive(r, t)
                                \/ Agent(r) \/ ReturnTour(r) \/ Process(r) \/ Client(r)
                                \/ ProcCloses(r) \/ SpawnFails(r) \/ TimesOut(r)
      BY <1>2 DEF Next
    <2>2. CASE \E t \in Tours : Arrive(r, t)
      BY <2>2, ArriveKeeps
    <2>3. CASE Agent(r)
      BY <2>3, SpawnKeeps, ThreadCalm, OutputCalm, FinishedKeeps DEF Agent
    <2>4. CASE ReturnTour(r) \/ Client(r)
      BY <2>4, ClientCalm
    <2>5. CASE Process(r) \/ ProcCloses(r)
      BY <2>5, ProcessCalm
    <2>6. CASE SpawnFails(r)
      BY <2>6, SpawnKeeps
    <2>7. CASE TimesOut(r)
      BY <2>7, OutputCalm
    <2> QED BY <2>1, <2>2, <2>3, <2>4, <2>5, <2>6, <2>7
  <1> QED BY <1>1, <1>2

(* The invariant holds in every reachable state.                           *)
LEMMA PoolIsKept == Spec => []PoolInv
  <1>1. Init => PoolInv
    BY PoolInit
  <1>2. PoolInv /\ [Next]_vars => PoolInv'
    BY PoolStep
  <1> QED BY <1>1, <1>2, PTL DEF Spec

(* The slots of every CGI docker are kept (add_process_count,               *)
(* sub_process_count, the wait count and the queue of the agent): while the *)
(* agent runs, process_count is the number of handlers that hold a slot and *)
(* never beyond maxProcesses, wait_count the number of those postponed, and *)
(* whoever waits for a docker finds it full, so that a process which ends   *)
(* will start it.  The agent locks itself out (postpone under the lock of   *)
(* catch_up) only when the process that ended and the handler that is run   *)
(* in its place belong to different dockers.                                *)
THEOREM SlotsStayKept == Spec => []SlotsKept
  <1>1. PoolInv => SlotsKept
    BY DEF PoolInv
  <1> QED BY <1>1, PoolIsKept, PTL

(* What goes astray is only what an output is read for whose request has    *)
(* been answered; and what was read, rented or answered stays so.           *)
LEMMA StrayFrame ==
  ASSUME StrayInv, PoolInv,
         \A q \in astray : phase[q] = "returned" => phase'[q] = "returned",
         \A q \in astray : out[q] # "none" => outTour'[q] = outTour[q] /\ out'[q] # "none",
         \A q \in astray' \ astray :
           outTour'[q] \notin {q, None} /\ phase'[q] = "returned" /\ out'[q] # "none"
  PROVE  StrayInv'
  BY DEF StrayInv, AnswersOwn

(* A response that has been returned is not reopened.                       *)
LEMMA ReturnedStays ==
  ASSUME PoolInv, Next
  PROVE  \A q \in Requests : phase[q] = "returned" => phase'[q] = "returned"
  <1>1. TypeOK
    BY DEF PoolInv, SlotsKept
  <1>2. PICK r \in Requests : \/ \E t \in Tours : Arrive(r, t)
                              \/ Agent(r) \/ ReturnTour(r) \/ Process(r) \/ Client(r)
                              \/ ProcCloses(r) \/ SpawnFails(r) \/ TimesOut(r)
    BY DEF Next
  <1>3. \/ UNCHANGED phase
        \/ \E s \in {"arrived", "ended"} : phase' = [phase EXCEPT ![r] = s] /\ phase[r] # "returned"
        \/ phase' = [phase EXCEPT ![r] = "returned"]
    <2>1. CASE \E t \in Tours : Arrive(r, t)
      BY <2>1 DEF Arrive
    <2>2. CASE Finished(r)
      BY <2>2, FinishedFacts DEF OwnTour, Return
    <2>3. CASE Client(r) \/ ReturnTour(r)
      BY <2>3 DEF Client, Body, Refuse, Disconnect, ReturnTour, Return
    <2>4. CASE Agent(r) /\ ~Finished(r)
      BY <2>4 DEF Agent, Spawn, WriteChunk, WriteBreaks, Written, OutRead, ResumeOut, Eof, Closed, tourVars
    <2>5. CASE Process(r) \/ ProcCloses(r) \/ SpawnFails(r) \/ TimesOut(r)
      BY <2>5 DEF Process, ProcReads, ProcWrites, ProcExits, ProcCloses, SpawnFails, TimesOut, tourVars
    <2> QED BY <1>2, <2>1, <2>2, <2>3, <2>4, <2>5
  <1> QED BY <1>1, <1>3 DEF TypeOK

(* An output that was opened keeps the id it took, and is not forgotten.    *)
LEMMA OpenedStays ==
  ASSUME PoolInv, Next
  PROVE  \A q \in Requests : out[q] # "none" => outTour'[q] = outTour[q] /\ out'[q] # "none"
  <1>1. TypeOK
    BY DEF PoolInv, SlotsKept
  <1>2. PICK r \in Requests : \/ \E t \in Tours : Arrive(r, t)
                              \/ Agent(r) \/ ReturnTour(r) \/ Process(r) \/ Client(r)
                              \/ ProcCloses(r) \/ SpawnFails(r) \/ TimesOut(r)
    BY DEF Next
  <1>3. DOMAIN out = Requests /\ DOMAIN outTour = Requests
    BY <1>1 DEF TypeOK
  <1>4. CASE Written(r)
    <2>1. CASE agent.why = "body"
      BY <1>4, <2>1 DEF Written, rudderVars
    <2>2. CASE agent.why # "body"
      <3>1. out[r] = "none"
        BY <1>4, <2>2 DEF Written, PoolInv, AtWork
      <3>2. /\ out' = [out EXCEPT ![r] = "open"]
            /\ outTour' = [outTour EXCEPT ![r] = owner[tour[r]]]
        BY <1>4, <2>2 DEF Written
      <3> QED BY <1>3, <3>1, <3>2
    <2> QED BY <2>1, <2>2
  <1>5. CASE ~Written(r)
    <2>1. UNCHANGED outTour
      BY <1>2, <1>5 DEF Arrive, Agent, Spawn, WriteChunk, WriteBreaks, OutRead, ResumeOut, Eof, Closed, Finished,
           ReturnTour, Client, Body, Refuse, Disconnect, Process, ProcReads, ProcWrites, ProcExits, ProcCloses,
           SpawnFails, TimesOut, rudderVars
    <2>2. \/ UNCHANGED out
          \/ \E s \in {"open", "suspended", "closing", "closed"} : out' = [out EXCEPT ![r] = s]
          \/ Abort(r)
      BY <1>2, <1>5 DEF Arrive, Agent, Spawn, WriteChunk, WriteBreaks, OutRead, ResumeOut, Eof, Closed, Finished,
           ReturnTour, Client, Body, Refuse, Disconnect, Process, ProcReads, ProcWrites, ProcExits, ProcCloses,
           SpawnFails, TimesOut, rudderVars
    <2>3. \A q \in Requests : out[q] # "none" => out'[q] # "none"
      <3>1. CASE UNCHANGED out
        BY <3>1
      <3>2. CASE \E s \in {"open", "suspended", "closing", "closed"} : out' = [out EXCEPT ![r] = s]
        BY <1>3, <3>2
      <3>3. CASE Abort(r)
        <4>1. \A q \in Requests : out'[q] = IF q = r THEN Closing(out[r]) ELSE out[q]
          BY <1>3, <3>3 DEF Abort
        <4> QED BY <4>1 DEF Closing
      <3> QED BY <2>2, <3>1, <3>2, <3>3
    <2> QED BY <2>1, <2>3
  <1> QED BY <1>4, <1>5

(* What is read goes to the request that owns the id, and that is another   *)
(* only if the response of this one has been returned.                      *)
LEMMA NewlyAstray ==
  ASSUME PoolInv, Next
  PROVE  \A q \in astray' \ astray :
           outTour'[q] \notin {q, None} /\ phase'[q] = "returned" /\ out'[q] # "none"
  <1>1. TypeOK
    BY DEF PoolInv, SlotsKept
  <1>2. PICK r \in Requests : \/ \E t \in Tours : Arrive(r, t)
                              \/ Agent(r) \/ ReturnTour(r) \/ Process(r) \/ Client(r)
                              \/ ProcCloses(r) \/ SpawnFails(r) \/ TimesOut(r)
    BY DEF Next
  <1>3. CASE OutRead(r)
    <2>1. CASE outTour[r] = None \/ owner[tour[r]] # outTour[r]
      BY <1>3, <2>1 DEF OutRead
    <2>2. CASE ~(outTour[r] = None \/ owner[tour[r]] # outTour[r])
      <3>1. /\ astray' = astray \cup ({r} \ {outTour[r]}) /\ out[r] = "open"
            /\ \E s \in {"open", "suspended"} : out' = [out EXCEPT ![r] = s]
            /\ UNCHANGED <<outTour, phase>>
        BY <1>3, <2>2 DEF OutRead, tourVars
      <3>2. proc[r] # "none" /\ phase[r] # "new"
        BY <3>1, AtWorkArrived DEF PoolInv, Outputs
      <3>3. outTour[r] # r => phase[r] = "returned"
        BY <2>2, <3>2 DEF PoolInv, Arrived
      <3>4. out'[r] # "none"
        BY <1>1, <3>1 DEF TypeOK
      <3> QED BY <2>2, <3>1, <3>3, <3>4
    <2> QED BY <2>1, <2>2
  <1>4. CASE ~OutRead(r)
    <2>1. UNCHANGED astray
      <3>1. CASE Finished(r)
        BY <3>1, FinishedFacts
      <3>2. CASE ~Finished(r)
        BY <1>2, <1>4, <3>2 DEF Arrive, Agent, Spawn, WriteChunk, WriteBreaks, Written, ResumeOut, Eof, Closed,
             ReturnTour, Client, Body, Refuse, Disconnect, Process, ProcReads, ProcWrites, ProcExits, ProcCloses,
             SpawnFails, TimesOut
      <3> QED BY <3>1, <3>2
    <2> QED BY <2>1
  <1> QED BY <1>3, <1>4

(* What a process writes goes to the request it was started for.  The ship  *)
(* of its output may have taken the id of another, since init_std_out reads *)
(* it off the tour once the process has been created, but only if the       *)
(* request itself has been answered and its tour rented again.              *)
THEOREM AnswersStayOwn == Spec => []AnswersOwn
  <1>1. Init => StrayInv
    BY DEF Init, StrayInv, AnswersOwn
  <1>2. PoolInv /\ StrayInv /\ [Next]_vars => StrayInv'
    <2> SUFFICES ASSUME PoolInv, StrayInv, [Next]_vars PROVE StrayInv'
      OBVIOUS
    <2>1. CASE UNCHANGED vars
      BY <2>1 DEF vars, rudderVars, tourVars, StrayInv, AnswersOwn
    <2>2. CASE Next
      <3>1. astray \subseteq Requests
        BY DEF PoolInv, SlotsKept, TypeOK
      <3> QED BY <2>2, <3>1, ReturnedStays, OpenedStays, NewlyAstray, StrayFrame
    <2> QED BY <2>1, <2>2
  <1>3. StrayInv => AnswersOwn
    BY DEF StrayInv
  <1> QED BY <1>1, <1>2, <1>3, PoolIsKept, PTL DEF Spec

-----------------------------------------------------------------------------
(* What is under way for a request: outputs are opened together, and closed *)
(* only of a process that closed them, was killed or has ended; whoever has *)
(* arrived waits for a slot or has a process, or its creation has begun;    *)
(* and whoever's outputs are closed is being waited for.                    *)
UnderWay(q) ==
  /\ proc[q] # "none" /\ out[q] = "none" =>
       agent.doing = "write" /\ agent.for = q /\ agent.why # "body"
  /\ out[q] = "closed" /\ err[q] = "closed" /\ proc[q] # "reaped" =>
       agent.doing = "wait" /\ agent.for = q
  /\ phase[q] = "arrived" /\ proc[q] = "none" /\ q \notin leaked =>
       \/ agent.doing = "spawn" /\ agent.for = q
       \/ \E i \in DOMAIN postponed : postponed[i] = q

InOrder(q) ==
  /\ out[q] = "none" <=> err[q] = "none"
  /\ out[q] \in {"closing", "closed"} => proc[q] \notin {"none", "running"}
  /\ proc[q] = "quiet" => habit[q] = "patient"
  /\ proc[q] = "reaped" => phase[q] \in {"ended", "returned"}

UndoneInv ==
  /\ agent.doing = "idle" => agent = Idle
  /\ agent.doing = "spawn" => agent.why # "body"
  /\ \A q \in Requests : InOrder(q) /\ (Running => UnderWay(q))

(* A step that leaves the agent where it is, or idle and done.              *)
LEMMA UndoneInit ==
  ASSUME Init
  PROVE  UndoneInv
  BY DEF Init, UndoneInv, InOrder, UnderWay, Idle

(* A chunk is written, the client or the process does something on its own. *)
LEMMA UndoneAside ==
  ASSUME PoolInv, UndoneInv, NEW r \in Requests,
         WriteChunk(r) \/ Process(r) \/ ProcCloses(r) \/ ReturnTour(r) \/ Body(r)
  PROVE  UndoneInv'
  <1>1. TypeOK /\ (Running <=> agent.doing \notin {"locked", "dead"})
    BY DEF PoolInv, SlotsKept, Running
  <1>2. CASE WriteChunk(r)
    <2>1. UNCHANGED <<habit, proc, phase, out, err, leaked, postponed>>
      BY <1>2 DEF WriteChunk, requestVars, tourVars, poolVars, rudderVars
    <2>2. agent.doing = "write" /\ agent'.doing = "write" /\ agent'.for = agent.for /\ agent'.why = agent.why
      BY <1>1, <1>2 DEF WriteChunk, TypeOK
    <2> QED BY <2>1, <2>2 DEF UndoneInv, InOrder, UnderWay, Running
  <1>3. CASE Process(r) \/ ProcCloses(r)
    <2>1. UNCHANGED <<habit, agent, phase, out, err, leaked, postponed>>
      BY <1>3 DEF Process, ProcReads, ProcWrites, ProcExits, ProcCloses, requestVars, tourVars, poolVars, rudderVars
    <2>2. \/ UNCHANGED proc
          \/ Alive(r) /\ proc' = [proc EXCEPT ![r] = "exited"]
          \/ Alive(r) /\ habit[r] = "patient" /\ proc' = [proc EXCEPT ![r] = "quiet"]
      BY <1>3 DEF Process, ProcReads, ProcWrites, ProcExits, ProcCloses, Alive
    <2>3. \A q \in Requests :
            \/ proc'[q] = proc[q]
            \/ Alive(q) /\ proc'[q] = "exited"
            \/ Alive(q) /\ proc'[q] = "quiet" /\ habit[q] = "patient"
      BY <1>1, <2>2 DEF TypeOK
    <2>4. ASSUME NEW q \in Requests PROVE InOrder(q)' /\ (Running' => UnderWay(q)')
      <3>1. InOrder(q) /\ (Running => UnderWay(q)) /\ (Running' <=> Running)
        BY <2>1 DEF UndoneInv, Running
      <3> QED BY <2>1, <2>3, <3>1 DEF InOrder, UnderWay, Alive
    <2> QED BY <2>1, <2>4 DEF UndoneInv
  <1>4. CASE ReturnTour(r)
    <2>1. UNCHANGED <<habit, agent, proc, out, err, leaked, postponed>>
      BY <1>4 DEF ReturnTour, requestVars, procVars, poolVars, rudderVars
    <2>2. \A q \in Requests : phase'[q] = phase[q] \/ phase'[q] = "returned"
      BY <1>1, <1>4 DEF ReturnTour, Return, TypeOK
    <2> QED BY <2>1, <2>2 DEF UndoneInv, InOrder, UnderWay, Running
  <1>5. CASE Body(r)
    <2>1. UNCHANGED <<habit, phase, proc, out, err, leaked, postponed>> /\ agent = Idle
      BY <1>5 DEF Body, requestVars, procVars, poolVars, rudderVars
    <2>2. \/ UNCHANGED agent
          \/ agent'.doing = "write" /\ agent'.for = r /\ agent'.why = "body"
      BY <1>5 DEF Body
    <2>3. agent.doing = "idle"
      BY <2>1, AgentTypes
    <2> QED BY <2>1, <2>2, <2>3 DEF UndoneInv, InOrder, UnderWay, Running
  <1> QED BY <1>2, <1>3, <1>4, <1>5

(* A process begins, or cannot, or its outputs are registered.              *)
LEMMA UndoneSpawn ==
  ASSUME PoolInv, UndoneInv, NEW r \in Requests, Spawn(r) \/ SpawnFails(r) \/ Written(r)
  PROVE  UndoneInv'
  <1>1. TypeOK /\ Running
    BY DEF PoolInv, SlotsKept, Running, Spawn, SpawnFails, Written
  <1>2. CASE Spawn(r)
    <2>1. UNCHANGED <<habit, phase, out, err, leaked, postponed>>
      BY <1>2 DEF Spawn, requestVars, tourVars, poolVars, rudderVars
    <2>2. /\ agent.doing = "spawn" /\ agent.for = r /\ agent.why # "body"
          /\ agent'.doing = "write" /\ agent'.for = r /\ agent'.why # "body"
      BY <1>1, <1>2 DEF Spawn, TypeOK, UndoneInv
    <2>3. \A q \in Requests : proc'[q] = IF q = r THEN "running" ELSE proc[q]
      BY <1>1, <1>2 DEF Spawn, TypeOK
    <2>4. out[r] = "none" /\ err[r] = "none"
      BY <2>2 DEF PoolInv, AtWork, Outputs
    <2>5. ASSUME NEW q \in Requests PROVE InOrder(q)' /\ UnderWay(q)'
      <3>1. InOrder(q) /\ UnderWay(q)
        BY <1>1 DEF UndoneInv
      <3> QED BY <2>1, <2>2, <2>3, <2>4, <3>1 DEF InOrder, UnderWay
    <2> QED BY <2>2, <2>5 DEF UndoneInv
  <1>3. CASE SpawnFails(r)
    <2>1. UNCHANGED <<habit, phase, proc, out, err, postponed>> /\ leaked' = leaked \cup {r}
      BY <1>3 DEF SpawnFails, requestVars, procVars, poolVars, rudderVars
    <2>2. /\ agent.doing = "spawn" /\ agent.for = r /\ agent' \in {Idle, Dead}
          /\ agent'.doing \in {"idle", "dead"} /\ (agent'.doing = "idle" => agent' = Idle)
      BY <1>3, AgentTypes DEF SpawnFails
    <2>3. ASSUME NEW q \in Requests PROVE InOrder(q)' /\ UnderWay(q)'
      <3>1. InOrder(q) /\ UnderWay(q)
        BY <1>1 DEF UndoneInv
      <3> QED BY <2>1, <2>2, <3>1 DEF InOrder, UnderWay
    <2> QED BY <2>2, <2>3 DEF UndoneInv
  <1>4. CASE Written(r)
    <2>1. UNCHANGED <<habit, phase, proc, leaked, postponed>>
      BY <1>4 DEF Written, requestVars, tourVars, procVars, poolVars
    <2>2. agent.doing = "write" /\ agent.for = r /\ agent' = Idle /\ agent'.doing = "idle" /\ proc[r] # "none"
      BY <1>4, AgentTypes DEF Written, PoolInv, AtWork
    <2>3. \/ agent.why = "body" /\ UNCHANGED <<out, err>>
          \/ /\ agent.why # "body"
             /\ \A q \in Requests : /\ out'[q] = IF q = r THEN "open" ELSE out[q]
                                    /\ err'[q] = IF q = r THEN "open" ELSE err[q]
      BY <1>1, <1>4 DEF Written, TypeOK, rudderVars
    <2>4. ASSUME NEW q \in Requests PROVE InOrder(q)' /\ UnderWay(q)'
      <3>1. InOrder(q) /\ UnderWay(q)
        BY <1>1 DEF UndoneInv
      <3> QED BY <2>1, <2>2, <2>3, <3>1 DEF InOrder, UnderWay
    <2> QED BY <2>2, <2>4 DEF UndoneInv
  <1> QED BY <1>2, <1>3, <1>4

(* A tour is aborted: its outputs are to close, its process is killed.      *)
LEMMA UndoneAbort ==
  ASSUME PoolInv, UndoneInv, NEW r \in Requests,
         WriteBreaks(r) \/ Refuse(r) \/ Disconnect(r)
  PROVE  UndoneInv'
  <1>1. TypeOK /\ Running
    BY AgentTypes DEF PoolInv, SlotsKept, Running, WriteBreaks, Refuse, Disconnect
  <1>2. UNCHANGED <<habit, leaked, postponed>>
    BY DEF WriteBreaks, Refuse, Disconnect, requestVars, poolVars
  <1>3. \/ UNCHANGED <<proc, out, err>>
        \/ \A q \in Requests : /\ proc'[q] = IF q = r /\ Alive(r) THEN "exited" ELSE proc[q]
                               /\ out'[q] = IF q = r THEN Closing(out[r]) ELSE out[q]
                               /\ err'[q] = IF q = r THEN Closing(err[r]) ELSE err[q]
    <2>1. Abort(r) \/ UNCHANGED <<proc, out, err>>
      BY DEF WriteBreaks, Refuse, Disconnect
    <2>2. ASSUME Abort(r)
          PROVE  \A q \in Requests : /\ proc'[q] = IF q = r /\ Alive(r) THEN "exited" ELSE proc[q]
                                     /\ out'[q] = IF q = r THEN Closing(out[r]) ELSE out[q]
                                     /\ err'[q] = IF q = r THEN Closing(err[r]) ELSE err[q]
      <3>1. DOMAIN proc = Requests /\ DOMAIN out = Requests /\ DOMAIN err = Requests
        BY <1>1 DEF TypeOK
      <3>2. /\ proc' = [proc EXCEPT ![r] = IF Alive(r) THEN "exited" ELSE @]
            /\ out' = [out EXCEPT ![r] = Closing(@)] /\ err' = [err EXCEPT ![r] = Closing(@)]
        BY <2>2 DEF Abort, Kill
      <3> QED BY <3>1, <3>2
    <2> QED BY <2>1, <2>2
  <1>4. \A q \in Requests : phase'[q] = phase[q] \/ phase'[q] \in {"ended", "returned"}
    <2>1. \/ UNCHANGED phase
          \/ \E s \in {"ended", "returned"} : phase' = [phase EXCEPT ![r] = s]
      BY DEF WriteBreaks, Refuse, Disconnect, Return
    <2>2. DOMAIN phase = Requests
      BY <1>1 DEF TypeOK
    <2> QED BY <2>1, <2>2
  <1>5. \/ /\ agent = Idle /\ agent' = Idle
        \/ /\ agent.doing = "write" /\ agent.for = r /\ agent.why = "body" /\ agent' = Idle
        \/ agent' = Dead
    BY DEF WriteBreaks, Refuse, Disconnect
  <1>6. Idle.doing = "idle" /\ Dead.doing = "dead"
    BY AgentTypes
  <1>7. ASSUME NEW q \in Requests PROVE InOrder(q)' /\ (Running' => UnderWay(q)')
    <2>1. /\ InOrder(q) /\ UnderWay(q)
          /\ proc[q] = "none" => out[q] = "none" /\ err[q] = "none"
          /\ proc[q] = "reaped" => out[q] = "closed" /\ err[q] = "closed"
      BY <1>1 DEF UndoneInv, PoolInv, Outputs
    <2>2. \/ /\ proc'[q] = proc[q] /\ out'[q] = out[q] /\ err'[q] = err[q]
          \/ /\ proc'[q] = IF Alive(q) THEN "exited" ELSE proc[q]
             /\ out'[q] = Closing(out[q]) /\ err'[q] = Closing(err[q])
      BY <1>3
    <2>3. InOrder(q)'
      BY <1>2, <1>4, <2>1, <2>2 DEF InOrder, Closing, Alive
    <2>4. Running' => UnderWay(q)'
      BY <1>2, <1>4, <1>5, <1>6, <2>1, <2>2 DEF UnderWay, Running, Closing, Alive
    <2> QED BY <2>3, <2>4
  <1> QED BY <1>5, <1>6, <1>7 DEF UndoneInv

(* The outputs are read, resumed, seen to end or timed out, and closed.     *)
LEMMA UndoneOutput ==
  ASSUME PoolInv, UndoneInv, NEW r \in Requests,
         OutRead(r) \/ ResumeOut(r) \/ Eof(r) \/ TimesOut(r) \/ Closed(r)
  PROVE  UndoneInv'
  <1>1. TypeOK /\ Running /\ agent = Idle /\ agent.doing = "idle"
    BY AgentTypes DEF PoolInv, SlotsKept, Running, OutRead, ResumeOut, Eof, TimesOut, Closed
  <1>2. UNCHANGED <<habit, leaked, postponed, phase>>
    BY DEF OutRead, ResumeOut, Eof, TimesOut, Closed, requestVars, poolVars, tourVars
  <1>3. DOMAIN proc = Requests /\ DOMAIN out = Requests /\ DOMAIN err = Requests
    BY <1>1 DEF TypeOK
  <1>4. Idle.doing = "idle" /\ Dead.doing = "dead"
    BY AgentTypes
  <1>5. ASSUME NEW q \in Requests
        PROVE  /\ InOrder(q) /\ UnderWay(q)
               /\ proc[q] = "none" => out[q] = "none" /\ err[q] = "none"
               /\ proc[q] = "reaped" => out[q] = "closed" /\ err[q] = "closed"
    BY <1>1, <1>5 DEF UndoneInv, PoolInv, Outputs
  <1>6. CASE Closed(r)
    <2>1. /\ UNCHANGED proc
          /\ \/ out[r] = "closing" /\ out' = [out EXCEPT ![r] = "closed"] /\ UNCHANGED err
             \/ err[r] = "closing" /\ err' = [err EXCEPT ![r] = "closed"] /\ UNCHANGED out
          /\ agent' = IF out'[r] = "closed" /\ err'[r] = "closed"
                      THEN [Idle EXCEPT !.doing = "wait", !.for = r] ELSE agent
      BY <1>6 DEF Closed, procVars, BothClosed
    <2>2. \A q \in Requests : q # r => out'[q] = out[q] /\ err'[q] = err[q]
      BY <1>3, <2>1
    <2>3. \/ out[r] = "closing" /\ out'[r] = "closed" /\ err'[r] = err[r]
          \/ err[r] = "closing" /\ err'[r] = "closed" /\ out'[r] = out[r]
      BY <1>3, <2>1
    <2>4. \/ agent' = Idle /\ agent'.doing = "idle" /\ ~(out'[r] = "closed" /\ err'[r] = "closed")
          \/ agent'.doing = "wait" /\ agent'.for = r /\ out'[r] = "closed" /\ err'[r] = "closed"
      <3>1. [Idle EXCEPT !.doing = "wait", !.for = r].doing = "wait"
            /\ [Idle EXCEPT !.doing = "wait", !.for = r].for = r
        BY DEF Idle
      <3> QED BY <1>1, <1>4, <2>1, <3>1
    <2>5. ASSUME NEW q \in Requests PROVE InOrder(q)' /\ UnderWay(q)'
      <3>1. CASE q = r
        BY <1>1, <1>2, <1>5, <2>1, <2>3, <2>4, <3>1 DEF InOrder, UnderWay
      <3>2. CASE q # r
        BY <1>1, <1>2, <1>5, <2>1, <2>2, <2>4, <3>2 DEF InOrder, UnderWay
      <3> QED BY <3>1, <3>2
    <2> QED BY <2>4, <2>5 DEF UndoneInv
  <1>7. CASE ~Closed(r)
    <2>1. agent' = Idle \/ agent' = Dead
      BY <1>1, <1>7 DEF OutRead, ResumeOut, Eof, TimesOut
    <2>2. \/ UNCHANGED <<proc, out, err>>
          \/ /\ UNCHANGED <<proc, err>> /\ out[r] \in {"open", "suspended"}
             /\ \E s \in {"open", "suspended"} : out' = [out EXCEPT ![r] = s]
          \/ /\ proc[r] \in {"quiet", "exited"} /\ out[r] = "open"
             /\ out' = [out EXCEPT ![r] = "closing"] /\ UNCHANGED <<proc, err>>
          \/ /\ err[r] = "open"
             /\ err' = [err EXCEPT ![r] = "closing"] /\ UNCHANGED <<proc, out>>
          \/ /\ out[r] \in {"open", "suspended"}
             /\ out' = [out EXCEPT ![r] = "closing"] /\ Kill(r) /\ UNCHANGED err
      BY <1>7 DEF OutRead, ResumeOut, Eof, TimesOut, procVars, rudderVars
    <2>3. \A q \in Requests : q # r => proc'[q] = proc[q] /\ out'[q] = out[q] /\ err'[q] = err[q]
      BY <1>3, <2>2 DEF Kill
    <2>4. \/ proc'[r] = proc[r] /\ out'[r] = out[r] /\ err'[r] = err[r]
          \/ /\ proc'[r] = proc[r] /\ err'[r] = err[r]
             /\ {out[r], out'[r]} \subseteq {"open", "suspended"}
          \/ /\ proc[r] \in {"quiet", "exited"} /\ out[r] = "open" /\ out'[r] = "closing"
             /\ proc'[r] = proc[r] /\ err'[r] = err[r]
          \/ err[r] = "open" /\ err'[r] = "closing" /\ proc'[r] = proc[r] /\ out'[r] = out[r]
          \/ /\ out[r] \in {"open", "suspended"} /\ out'[r] = "closing" /\ err'[r] = err[r]
             /\ proc'[r] = IF Alive(r) THEN "exited" ELSE proc[r]
      BY <1>3, <2>2 DEF Kill
    <2>5. ASSUME NEW q \in Requests PROVE InOrder(q)' /\ (Running' => UnderWay(q)')
      <3>1. CASE q = r
        BY <1>1, <1>2, <1>4, <1>5, <2>1, <2>4, <3>1 DEF InOrder, UnderWay, Alive
      <3>2. CASE q # r
        BY <1>1, <1>2, <1>4, <1>5, <2>1, <2>3, <3>2 DEF InOrder, UnderWay
      <3> QED BY <3>1, <3>2
    <2> QED BY <1>4, <2>1, <2>5 DEF UndoneInv
  <1> QED BY <1>6, <1>7

(* A request arrives: it is spawned or postponed.                           *)
LEMMA UndoneArrive ==
  ASSUME PoolInv, UndoneInv, NEW r \in Requests, NEW t \in Tours, Arrive(r, t)
  PROVE  UndoneInv'
  <1>1. TypeOK /\ Running /\ agent = Idle /\ agent.doing = "idle" /\ phase[r] = "new"
    BY AgentTypes DEF PoolInv, SlotsKept, Running, Arrive
  <1>2. UNCHANGED <<habit, leaked, proc, out, err>>
    BY DEF Arrive, requestVars, procVars, rudderVars
  <1>3. \A q \in Requests : phase'[q] = IF q = r THEN "arrived" ELSE phase[q]
    BY <1>1 DEF Arrive, TypeOK
  <1>4. \/ /\ agent'.doing = "spawn" /\ agent'.for = r /\ agent'.why # "body" /\ UNCHANGED postponed
        \/ /\ agent' = agent
           /\ \A i \in DOMAIN postponed : i \in DOMAIN postponed' /\ postponed'[i] = postponed[i]
           /\ \E i \in DOMAIN postponed' : postponed'[i] = r
    <2>1. \/ agent' = Spawning(r, "arrive") /\ UNCHANGED postponed
          \/ agent' = agent /\ postponed' = Append(postponed, r)
      BY DEF Arrive
    <2>2. postponed \in Seq(Requests)
      BY <1>1 DEF TypeOK
    <2>3. /\ \A i \in DOMAIN postponed : /\ i \in DOMAIN Append(postponed, r)
                                          /\ Append(postponed, r)[i] = postponed[i]
          /\ \E i \in DOMAIN Append(postponed, r) : Append(postponed, r)[i] = r
      <3>1. Len(postponed) + 1 \in DOMAIN Append(postponed, r)
        BY <2>2, AppendFacts
      <3> QED BY <2>2, <3>1, AppendFacts
    <2>4. Spawning(r, "arrive").doing = "spawn" /\ Spawning(r, "arrive").for = r
          /\ Spawning(r, "arrive").why # "body"
      BY DEF Spawning
    <2> QED BY <2>1, <2>3, <2>4
  <1>5. ASSUME NEW q \in Requests PROVE InOrder(q)' /\ UnderWay(q)'
    <2>1. InOrder(q) /\ UnderWay(q) /\ (phase[q] = "new" => proc[q] = "none" /\ out[q] = "none")
      BY <1>1 DEF UndoneInv, PoolInv, Arrived, Outputs
    <2>2. InOrder(q)'
      BY <1>1, <1>2, <1>3, <2>1 DEF InOrder
    <2>3. UnderWay(q)'
      BY <1>1, <1>2, <1>3, <1>4, <2>1 DEF UnderWay
    <2> QED BY <2>2, <2>3
  <1> QED BY <1>1, <1>4, <1>5 DEF UndoneInv

(* A process is reaped, and the oldest postponed handler is run.            *)
LEMMA UndoneFinished ==
  ASSUME PoolInv, UndoneInv, NEW r \in Requests, Finished(r)
  PROVE  UndoneInv'
  <1>1. TypeOK /\ Running /\ agent.doing = "wait" /\ agent.for = r /\ phase[r] # "new"
    BY FinishedFacts DEF PoolInv, SlotsKept
  <1>2. /\ UNCHANGED <<habit, out, err, leaked>> /\ out[r] = "closed" /\ err[r] = "closed"
        /\ \A q \in Requests : proc'[q] = IF q = r THEN "reaped" ELSE proc[q]
    BY FinishedFacts DEF Finished, requestVars
  <1>3. Idle.doing = "idle" /\ Dead.doing = "dead"
    BY AgentTypes
  <1>4. /\ \A q \in Requests : q # r => phase'[q] = phase[q]
        /\ phase'[r] \in {"ended", "returned"}
    <2>1. \/ owner[tour[r]] # r /\ UNCHANGED phase
          \/ \E s \in {"ended", "returned"} : phase' = [phase EXCEPT ![r] = s]
      BY FinishedFacts DEF OwnTour, Return
    <2>2. owner[tour[r]] # r => phase[r] = "returned"
      BY FinishedFacts
    <2>3. DOMAIN phase = Requests
      BY <1>1 DEF TypeOK
    <2> QED BY <2>1, <2>2, <2>3
  <1>5. \/ agent' = Dead
        \/ agent' = Idle /\ UNCHANGED postponed
        \/ /\ agent'.doing = "spawn" /\ agent'.why # "body" /\ postponed # <<>>
           /\ agent'.for = Head(postponed) /\ postponed' = Tail(postponed)
        \/ agent'.doing = "locked"
    <2>1. agent' = Dead \/ CatchUp(docker[r])
      BY FinishedFacts
    <2>2. docker[r] \in Dockers
      BY FinishedFacts
    <2>3. ASSUME NEW h PROVE /\ Spawning(h, "catchup").doing = "spawn" /\ Spawning(h, "catchup").for = h
                             /\ Spawning(h, "catchup").why # "body"
                             /\ [Idle EXCEPT !.doing = "locked", !.for = h].doing = "locked"
      BY DEF Spawning, Idle
    <2>4. ASSUME CatchUp(docker[r])
          PROVE  \/ agent' = Idle /\ UNCHANGED postponed
                 \/ /\ postponed # <<>> /\ postponed' = Tail(postponed)
                    /\ agent' = Spawning(Head(postponed), "catchup")
                 \/ agent' = [Idle EXCEPT !.doing = "locked", !.for = Head(postponed)]
      BY <1>1, <2>2, <2>4, CatchUpCases
    <2>5. PICK h : h = Head(postponed)
      OBVIOUS
    <2>6. CASE agent' = Spawning(h, "catchup") /\ postponed # <<>> /\ postponed' = Tail(postponed)
      BY <2>3, <2>5, <2>6
    <2>7. CASE agent' = [Idle EXCEPT !.doing = "locked", !.for = h]
      <3>1. agent'.doing = "locked"
        BY <2>7 DEF Idle
      <3> QED BY <3>1
    <2> QED BY <2>1, <2>4, <2>5, <2>6, <2>7
  <1>6. ASSUME NEW q \in Requests PROVE InOrder(q)' /\ (Running' => UnderWay(q)')
    <2>1. InOrder(q) /\ UnderWay(q)
      BY <1>1 DEF UndoneInv
    <2>2. InOrder(q)'
      BY <1>2, <1>4, <2>1 DEF InOrder
    <2>3. CASE q = r
      <3>1. out'[q] = "closed" /\ proc'[q] = "reaped" /\ phase'[q] # "arrived"
        BY <1>2, <1>4, <2>3
      <3> QED BY <2>2, <3>1 DEF UnderWay
    <2>4. CASE q # r
      <3>1. /\ ~(proc[q] # "none" /\ out[q] = "none")
            /\ ~(out[q] = "closed" /\ err[q] = "closed" /\ proc[q] # "reaped")
            /\ phase[q] = "arrived" /\ proc[q] = "none" /\ q \notin leaked =>
                 \E i \in DOMAIN postponed : postponed[i] = q
        BY <1>1, <2>1, <2>4 DEF UnderWay
      <3>2. /\ ~(proc'[q] # "none" /\ out'[q] = "none")
            /\ ~(out'[q] = "closed" /\ err'[q] = "closed" /\ proc'[q] # "reaped")
            /\ phase'[q] = "arrived" /\ proc'[q] = "none" /\ q \notin leaked' =>
                 \E i \in DOMAIN postponed : postponed[i] = q
        BY <1>2, <1>4, <2>4, <3>1
      <3>3. ASSUME Running', NEW i \in DOMAIN postponed, postponed[i] = q
            PROVE  \/ agent'.doing = "spawn" /\ agent'.for = q
                   \/ \E j \in DOMAIN postponed' : postponed'[j] = q
        <4>1. CASE agent' = Idle /\ UNCHANGED postponed
          BY <3>3, <4>1
        <4>2. CASE /\ agent'.doing = "spawn" /\ postponed # <<>>
                   /\ agent'.for = Head(postponed) /\ postponed' = Tail(postponed)
          <5>1. postponed \in Seq(Requests)
            BY <1>1 DEF TypeOK
          <5>2. i = 1 => q = Head(postponed)
            BY <3>3, <4>2, <5>1
          <5>3. i # 1 => i - 1 \in DOMAIN Tail(postponed) /\ Tail(postponed)[i - 1] = q
            BY <3>3, <4>2, <5>1
          <5> QED BY <4>2, <5>2, <5>3
        <4> QED BY <1>3, <1>5, <3>3, <4>1, <4>2 DEF Running
      <3>4. Running' /\ phase'[q] = "arrived" /\ proc'[q] = "none" /\ q \notin leaked' =>
              \/ agent'.doing = "spawn" /\ agent'.for = q
              \/ \E j \in DOMAIN postponed' : postponed'[j] = q
        BY <3>2, <3>3
      <3> QED BY <2>2, <3>2, <3>4 DEF UnderWay
    <2> QED BY <2>2, <2>3, <2>4
  <1>7. agent'.doing = "idle" => agent' = Idle
    BY <1>3, <1>5
  <1>8. agent'.doing = "spawn" => agent'.why # "body"
    BY <1>3, <1>5
  <1> QED BY <1>6, <1>7, <1>8 DEF UndoneInv

LEMMA UndoneStep ==
  ASSUME PoolInv, UndoneInv, [Next]_vars
  PROVE  UndoneInv'
  <1>1. CASE UNCHANGED vars
    <2>1. UNCHANGED <<habit, agent, proc, phase, out, err, leaked, postponed>>
      BY <1>1 DEF vars, requestVars, procVars, tourVars, rudderVars, poolVars
    <2> QED BY <2>1 DEF UndoneInv, InOrder, UnderWay, Running
  <1>2. CASE Next
    <2>1. PICK r \in Requests : \/ \E t \in Tours : Arrive(r, t)
                                \/ Agent(r) \/ ReturnTour(r) \/ Process(r) \/ Client(r)
                                \/ ProcCloses(r) \/ SpawnFails(r) \/ TimesOut(r)
      BY <1>2 DEF Next
    <2> QED BY <2>1, UndoneAside, UndoneSpawn, UndoneAbort, UndoneOutput, UndoneArrive, UndoneFinished
            DEF Agent, Client
  <1> QED BY <1>1, <1>2

(* Whoever has an unreaped process when nothing is left to do and the agent *)
(* is idle: its process will not end, or its output is never read again.    *)
LEMMA HolderIsStuck ==
  ASSUME PoolInv, UndoneInv, agent.doing = "idle", Quiet,
         NEW s \in Requests, proc[s] \notin {"none", "reaped"}
  PROVE  Stuck(s)
  <1>1. TypeOK /\ agent = Idle /\ InOrder(s) /\ UnderWay(s) /\ ~AgentCan(s) /\ ~ProcessCan(s)
    BY DEF PoolInv, SlotsKept, UndoneInv, Running, Quiet
  <1>2. /\ proc[s] \in {"running", "quiet", "exited"}
        /\ out[s] \in {"none", "open", "suspended", "closing", "closed"}
        /\ err[s] \in {"none", "open", "closing", "closed"}
        /\ habit[s] \in {"prompt", "patient", "writer"} /\ timeouts \in BOOLEAN
        /\ stdout[s] \in 0 .. PipeSize /\ PipeSize \in Nat \ {0}
        /\ body[s] \in {0, BodyLen} /\ BodyLen \in Nat /\ wrote[s] \in Nat
    BY <1>1, CgiPoolAssumption DEF TypeOK, CgiPoolAssumption
  <1>3. out[s] # "none" /\ err[s] # "none" /\ ~(out[s] = "closed" /\ err[s] = "closed")
    BY <1>1 DEF InOrder, UnderWay
  <1>4. /\ out[s] # "closing" /\ err[s] # "closing"
        /\ out[s] = "open" => stdout[s] = 0
        /\ out[s] = "suspended" => body[s] = 0
        /\ out[s] = "open" \/ err[s] = "open" => proc[s] = "running"
        /\ out[s] \in {"open", "suspended"} \/ err[s] = "open" => ~timeouts
    BY <1>1, <1>2 DEF AgentCan, Resumes
  <1>5. CASE out[s] = "suspended"
    BY <1>4, <1>5 DEF Stuck
  <1>6. CASE out[s] = "open"
    <2>1. proc[s] = "running" /\ stdout[s] < PipeSize /\ ~timeouts
      BY <1>2, <1>4, <1>6
    <2>2. ~(wrote[s] < Output(s)) /\ (Busy(s) \/ habit[s] = "patient")
      BY <1>1, <2>1 DEF ProcessCan, Alive
    <2>3. habit[s] = "patient"
      BY <2>2 DEF Busy
    <2> QED BY <2>1, <2>3 DEF Stuck
  <1>7. CASE out[s] = "closed"
    BY <1>1, <1>2, <1>3, <1>4, <1>7 DEF InOrder
  <1> QED BY <1>2, <1>3, <1>4, <1>5, <1>6, <1>7

(* What the two invariants say of a state with nothing left to do.          *)
LEMMA UndoneIsStuck ==
  ASSUME PoolInv, UndoneInv
  PROVE  NothingLeftUndone
  <1> SUFFICES ASSUME Running, Quiet, NEW r \in Requests, phase[r] \notin {"new", "returned"}
               PROVE  \E s \in Requests : Stuck(s)
    BY DEF NothingLeftUndone
  <1>1. TypeOK /\ agent \in Agents
    BY DEF PoolInv, SlotsKept, TypeOK, Agents
  <1>2. CASE agent.doing \in {"spawn", "write", "wait"}
    <2>1. PICK f \in Requests : f = agent.for
      BY <1>2 DEF PoolInv, AtWork
    <2>2. ~AgentCan(f) /\ ~ProcessCan(f)
      BY DEF Quiet
    <2>3. agent.doing \in {"write", "wait"} /\ Alive(f)
      <3>1. agent.doing # "spawn" /\ (agent.doing = "write" => Alive(f))
            /\ (agent.doing = "wait" => proc[f] \notin {"exited", "reaped"})
        BY <2>1, <2>2 DEF AgentCan
      <3>2. agent.doing = "wait" => proc[f] \notin {"none", "reaped"}
        BY <2>1 DEF PoolInv, AtWork
      <3>3. proc[f] \in {"none", "running", "quiet", "exited", "reaped"}
        BY <1>1 DEF TypeOK
      <3> QED BY <1>2, <3>1, <3>2, <3>3 DEF Alive
    <2>4. habit[f] # "prompt"
      BY <2>2, <2>3 DEF ProcessCan, Busy
    <2> QED BY <2>1, <2>3, <2>4 DEF Stuck
  <1>3. CASE agent.doing = "idle" /\ \A s \in Requests : s \notin leaked
    <2>1. agent = Idle /\ InOrder(r) /\ UnderWay(r) /\ ~AgentCan(r)
      BY <1>3 DEF UndoneInv, Quiet
    <2>2. phase[r] = "arrived"
      BY <1>1, <2>1 DEF AgentCan, TypeOK
    <2>3. CASE proc[r] # "none"
      BY <1>3, <2>1, <2>2, <2>3, HolderIsStuck DEF InOrder
    <2>4. CASE proc[r] = "none"
      <3>1. PICK i \in DOMAIN postponed : postponed[i] = r
        BY <1>3, <2>1, <2>2, <2>4 DEF UnderWay
      <3>2. PICK d \in Dockers : d = docker[r]
        BY <1>1 DEF TypeOK
      <3>3. IsFiniteSet(Places(postponed, d)) /\ i \in Places(postponed, d)
        BY <1>1, <3>1, <3>2, SlotsFinite DEF Places
      <3>4. wait[d] > 0
        <4>1. Cardinality(Places(postponed, d)) # 0
          BY <3>3, FS_EmptySet
        <4> QED BY <4>1, SlotFacts
      <3>5. Cardinality(Holders(d)) > 0
        BY <3>4, SlotFacts
      <3>6. Holders(d) # {}
        BY <3>5, FS_EmptySet
      <3>7. PICK s \in Requests : Holds(s)
        BY <3>6 DEF Holders
      <3>8. proc[s] \notin {"none", "reaped"}
        BY <1>3, <3>7 DEF Holds
      <3> QED BY <1>3, <3>8, HolderIsStuck
    <2> QED BY <2>3, <2>4
  <1>4. CASE \E s \in Requests : s \in leaked
    BY <1>4 DEF Stuck
  <1> QED BY <1>1, <1>2, <1>3, <1>4 DEF Running, Agents

(* When nothing is left to do (the agent's thread waits for nothing that    *)
(* will come, the processes have done what they do by themselves), every    *)
(* request that arrived at a CGI docker has been answered and its tour      *)
(* returned, unless something holds the agent or a slot for good in one of  *)
(* the ways Stuck names.                                                    *)
THEOREM NothingStaysUndone == Spec => []NothingLeftUndone
  <1>1. Init => UndoneInv
    BY UndoneInit
  <1>2. PoolInv /\ UndoneInv /\ [Next]_vars => UndoneInv'
    BY UndoneStep
  <1>3. PoolInv /\ UndoneInv => NothingLeftUndone
    BY UndoneIsStuck
  <1> QED BY <1>1, <1>2, <1>3, PoolIsKept, PTL DEF Spec
=============================================================================
