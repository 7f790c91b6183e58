------------------------------- MODULE AccessLog -------------------------------
(***************************************************************************)
(* The access log of one agent: BuiltInLogDocker hands a line to the       *)
(* agent's TaxiMultiplexer for every tour that ends, on the agent's thread *)
(* or, for an HTTP/3 tour, on the loop of its port; taxis on a pool of     *)
(* threads write the lines to the file and report by letters, which the    *)
(* agent handles between its other upcalls.  The file is buffered: what is *)
(* written reaches the disk later.                                         *)
(***************************************************************************)
EXTENDS Naturals, Sequences, FiniteSets, SequencesExt

CONSTANTS
  MaxTaxis,  \* harbor.taxi_runners(): positive, or ThreadPoolExecutor raises
  MaxLines   \* bound: lines

VARIABLES
  h3,        \* the agent has an HTTP/3 port, whose loop logs as well
  format,    \* what the configured format holds
  up,        \* "off", "failed" to start, "up", "shut" or "aborted"
  dead,      \* the threads an exception has got through
  at,        \* where each thread is in req_write
  state,     \* the RudderState: "open", "closing" or "closed"
  writing,   \* RudderState.writing
  queue,     \* RudderState.write_queue
  taxis,     \* the taxis posted and under way, oldest first
  letters,   \* what they have reported
  buffer, disk, \* the file
  order,     \* history: the lines in the order in which they were queued
  broken,    \* history: the disk has failed
  missed     \* history: a taxi found no line to write

Threads == IF h3 THEN {"agent", "loop"} ELSE {"agent"}
file == <<buffer, disk>>
past == <<order, broken, missed>>
vars == <<h3, format, up, dead, at, state, writing, queue, taxis, letters,
          file, past>>

Idle == [pc |-> "idle", line |-> 0]

Init ==
  /\ h3 \in BOOLEAN
  /\ format \in SUBSET {"unknown", "faulty"} /\ up = "off" /\ dead = {}
  /\ at = [t \in Threads |-> Idle] /\ state = "open" /\ writing = FALSE
  /\ queue = <<>> /\ taxis = <<>> /\ letters = <<>>
  /\ buffer = <<>> /\ disk = <<>> /\ order = <<>> /\ broken = FALSE
  /\ missed = FALSE

-----------------------------------------------------------------------------
(* compile looks the control codes up: an unknown one is a KeyError, not   *)
(* the ConfigException that is made for it.                                *)
Compiles == "unknown" \notin format

(* AgentListener.add: the multiplexer is a TaxiMultiplexer, whatever is    *)
(* configured.                                                             *)
Open ==
  /\ up = "off" /\ up' = IF Compiles THEN "up" ELSE "failed"
  /\ UNCHANGED <<h3, format, dead, at, state, writing, queue, taxis, letters, file, past>>

Lives(t) == up \in {"up", "shut"} /\ t \notin dead /\ (t = "agent" => up = "up")
Rest(t) == Lives(t) /\ at[t].pc = "idle"
Raises(t) == dead' = dead \cup {t} /\ at' = [at EXCEPT ![t] = Idle]
Lines == Len(order) + Cardinality({t \in Threads : at[t].pc = "found"})

(* log: the items of the format, some of which name attributes that do not *)
(* exist; then req_write, which calls the listener, here None, when the    *)
(* file's state is gone.                                                   *)
Log(t) ==
  /\ Rest(t) /\ Lines < MaxLines
  /\ IF "faulty" \in format \/ up = "shut" \/ state = "closed" THEN Raises(t)
     ELSE at' = [at EXCEPT ![t] = [pc |-> "found", line |-> Lines + 1]] /\ UNCHANGED dead
  /\ UNCHANGED <<h3, format, up, state, writing, queue, taxis, letters, file, past>>

(* The unit is queued under write_queue_lock, then a taxi is posted if     *)
(* none is writing, under writing_lock.                                    *)
Queue(t) ==
  /\ Lives(t) /\ at[t].pc = "found"
  /\ queue' = Append(queue, at[t].line) /\ order' = Append(order, at[t].line)
  /\ at' = [at EXCEPT ![t].pc = "queued"]
  /\ UNCHANGED <<h3, format, up, dead, state, writing, taxis, letters, file, broken, missed>>

Posted == Append(taxis, [pc |-> "posted", line |-> 0])

(* Mutants: a taxi for each line; one only when the queue was empty.       *)
ForEach == TRUE
IfFirst == Len(queue) = 1
IfNotWriting == ~writing

Start(t) ==
  /\ Lives(t) /\ at[t].pc = "queued" /\ at' = [at EXCEPT ![t] = Idle]
  /\ IF IfNotWriting THEN writing' = TRUE /\ taxis' = Posted ELSE UNCHANGED <<writing, taxis>>
  /\ UNCHANGED <<h3, format, up, dead, state, queue, letters, file, past>>

-----------------------------------------------------------------------------
(* The taxis.                                                              *)
Alive == up \in {"up", "shut"}
Without(i) == RemoveAt(taxis, i)

(* do_next_write: the oldest unit, or Sink, which is only logged.          *)
Depart(i) ==
  /\ Alive /\ i <= MaxTaxis /\ taxis[i].pc = "posted"
  /\ IF queue = <<>> THEN taxis' = Without(i) /\ missed' = TRUE
     ELSE /\ taxis' = [taxis EXCEPT ![i] = [pc |-> "writing", line |-> Head(queue)]]
          /\ UNCHANGED missed
  /\ UNCHANGED <<h3, format, up, dead, at, state, writing, queue, letters, file, order, broken>>

(* It is written to the buffer, perhaps with what is there to the disk;    *)
(* a closed file is a ValueError, a failing disk an IOError.               *)
Wrote(i) ==
  /\ state = "open" /\ ~broken /\ letters' = Append(letters, "wrote")
  /\ \/ buffer' = Append(buffer, taxis[i].line) /\ UNCHANGED disk
     \/ disk' = disk \o Append(buffer, taxis[i].line) /\ buffer' = <<>>
  /\ UNCHANGED broken
Fails(i) ==
  /\ state = "open" /\ letters' = Append(letters, "error")
  /\ broken' = TRUE /\ buffer' = <<>> /\ UNCHANGED disk
FindsClosed(i) ==
  /\ state # "open" /\ letters' = Append(letters, "fatal")
  /\ UNCHANGED <<buffer, disk, broken>>

Write(i) ==
  /\ Alive /\ taxis[i].pc = "writing" /\ taxis' = Without(i)
  /\ (Wrote(i) \/ Fails(i) \/ FindsClosed(i))
  /\ UNCHANGED <<h3, format, up, dead, at, state, writing, queue, order, missed>>

-----------------------------------------------------------------------------
(* The letters.                                                            *)
OnWrote ==
  IF state = "closed" THEN UNCHANGED <<dead, state, writing, queue, taxis>> /\ letters' = Tail(letters)
  ELSE IF queue = <<>>
  THEN dead' = dead \cup {"agent"} /\ letters' = Tail(letters) /\ UNCHANGED <<state, writing, queue, taxis>>
  ELSE /\ queue' = Tail(queue) /\ letters' = Tail(letters)
       /\ IF queue' = <<>> THEN writing' = FALSE /\ UNCHANGED taxis
          ELSE taxis' = Posted /\ UNCHANGED writing
       /\ UNCHANGED <<dead, state>>
OnError ==
  /\ state' = IF state = "open" THEN "closing" ELSE state
  /\ letters' = IF state = "closed" THEN Tail(letters) ELSE Append(Tail(letters), "closed")
  /\ UNCHANGED <<dead, writing, queue, taxis>>
OnFatal ==
  /\ dead' = dead \cup {"agent"} /\ letters' = Tail(letters)
  /\ UNCHANGED <<state, writing, queue, taxis>>
OnClosed ==
  /\ state' = "closed" /\ queue' = <<>> /\ letters' = Tail(letters)
  /\ UNCHANGED <<dead, writing, taxis>>

Letter ==
  /\ Rest("agent") /\ letters # <<>>
  /\ CASE Head(letters) = "wrote" -> OnWrote
       [] Head(letters) = "error" -> OnError
       [] Head(letters) = "fatal" -> OnFatal
       [] Head(letters) = "closed" -> OnClosed
  /\ UNCHANGED <<h3, format, up, at, file, past>>

(* shutdown: the file is closed, with what is in its buffer; nobody        *)
(* handles letters any more.  An agent that was aborted does not even      *)
(* close the file.                                                         *)
Shutdown ==
  /\ Rest("agent") /\ up' = "shut"
  /\ state' = "closing" /\ buffer' = <<>>
  /\ disk' = IF state = "open" THEN disk \o buffer ELSE disk
  /\ UNCHANGED <<h3, format, dead, at, writing, queue, taxis, letters, past>>
Abort ==
  /\ Rest("agent") /\ up' = "aborted" /\ buffer' = <<>>
  /\ UNCHANGED <<h3, format, dead, at, state, writing, queue, taxis, letters, disk, past>>

Works ==
  \/ \E t \in Threads : Queue(t) \/ Start(t)
  \/ \E i \in DOMAIN taxis : Depart(i) \/ Write(i)
  \/ Letter
Next ==
  \/ Open \/ Works \/ Shutdown \/ Abort
  \/ \E t \in Threads : Log(t)

-----------------------------------------------------------------------------
(* Properties.                                                             *)
Letters == {"wrote", "error", "fatal", "closed"}

TypeOK ==
  /\ format \subseteq {"unknown", "faulty"} /\ up \in {"off", "failed", "up", "shut", "aborted"}
  /\ dead \subseteq Threads /\ state \in {"open", "closing", "closed"} /\ writing \in BOOLEAN
  /\ at \in [Threads -> [pc : {"idle", "found", "queued"}, line : 0 .. MaxLines]]
  /\ queue \in Seq(1 .. MaxLines) /\ Len(taxis) <= 1 /\ letters \in Seq(Letters)
  /\ broken \in BOOLEAN

(* The file holds the lines in the order in which they were queued, each   *)
(* once, without a gap, whichever threads log and write.                   *)
LinesInOrder == IsPrefix(disk \o buffer, order)

(* A taxi always finds a line to write: do_next_write raises Sink when     *)
(* there is none, and its line's writing flag then stays set for ever.     *)
TaxisFindLines == ~missed

(* Nobody can do more.                                                     *)
Quiet ==
  /\ \A t \in Threads : Lives(t) => at[t].pc \notin {"found", "queued"}
  /\ Alive => \A i \in DOMAIN taxis : taxis[i].pc = "posted" /\ i > MaxTaxis
  /\ Rest("agent") => letters = <<>>

(* When nothing is under way, every line has been written, unless the disk *)
(* failed, the agent has shut down, or a taxi found no line: one that a    *)
(* second thread posted after the agent had seen the other's lines, its    *)
(* own among them, written.                                                *)
NoLineWaits ==
  /\ missed => h3
  /\ up = "up" /\ dead = {} /\ ~broken /\ ~missed /\ Quiet => disk \o buffer = order

(* A thread dies of the log only when the disk has failed and the file was *)
(* closed for it, when the format has a faulty item, or after shutdown.    *)
DeathsExplained == dead # {} => broken \/ "faulty" \in format \/ up = "shut"

LogKept == TypeOK /\ LinesInOrder /\ NoLineWaits /\ DeathsExplained
=============================================================================
