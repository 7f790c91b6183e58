------------------------------- MODULE Spider -------------------------------
(***************************************************************************)
(* One GrandAgent and its SpiderMultiplexer: the select loop of            *)
(* GrandAgent.run, the selector's interest sets, the queue of channel      *)
(* operations, the letter queue and the write queue of every RudderState.  *)
(*                                                                         *)
(* Everything here runs on the agent's thread.  The layer above (ships,    *)
(* protocol handlers, tours) is reached only through upcalls: while one is *)
(* in progress (pc = "upcall") that layer may issue any of the requests it *)
(* has, on any rudder it knows, before it returns a NextSocketAction.      *)
(***************************************************************************)
EXTENDS Naturals, Sequences, FiniteSets

CONSTANTS
  Ports,         \* rudders of anchorable_port_map (listening sockets)
  Clients,       \* rudders of the connections that may come to exist
  Units,         \* identities of WriteUnits
  Size,          \* bytes of the buffer of a new WriteUnit
  MaxShips,      \* harbor.max_ships less the rudder of the CommandReceiver
  MaxLetters,    \* bound: letters the layer above may let pile up
  AcceptMayFail  \* whether Port.on_connected may refuse a connection

ASSUME SpiderAssumption ==
  /\ Ports \cap Clients = {}
  /\ IsFiniteSet(Ports) /\ IsFiniteSet(Clients)
  /\ Size \in Nat \ {0} /\ MaxShips \in Nat /\ MaxLetters \in Nat
  /\ AcceptMayFail \in BOOLEAN

Rudders == Ports \cup Clients
Ops == {"R", "W"}

VARIABLES
  pc,          \* where the agent's thread is
  busy,        \* local variable of GrandAgent.run
  aborted,     \* GrandAgent.aborted
  rudders,     \* the rudders that have a RudderState in the multiplexer
  open,        \* the rudders whose socket is open
  registered,  \* the selector's interest set of each rudder, {} if no key
  operations,  \* the pending ChannelOperation of each rudder, {} if none
  toConnect,   \* the pending operations that have to_connect set
  connecting,  \* RudderState.connecting
  queue,       \* RudderState.write_queue
  closed,      \* RudderState.closed
  letters,     \* GrandAgent.letter_queue
  selected,    \* what select returned and receive has not handled yet
  caller,      \* the upcall in progress: its kind and its rudder
  origin,      \* history: how a client rudder came to exist
  asked,       \* history: the units that req_write has been given
  done         \* history: how many times a unit's listener has been called

selectorVars == <<registered, operations, toConnect, connecting>>
vars == <<pc, busy, aborted, rudders, open, registered, operations, toConnect,
          connecting, queue, closed, letters, selected, caller, origin, asked, done>>

Letter(kind, rd) == [kind |-> kind, rd |-> rd]
LetterType == [kind : {"connected", "read", "wrote", "error"}, rd : Clients]
                \cup [kind : {"closed"}, rd : Rudders]
                \cup [kind : {"accepted"}, rd : Clients, port : Ports]

Upcall(kind, rd) == [kind |-> kind, rd |-> rd]
NoCall == Upcall("none", "none")
CallType == {NoCall, Upcall("timer", "none")}
              \cup [kind : {"connected", "read", "wrote", "drain", "closed"}, rd : Clients]
Unit == [id : Units, rest : 0..Size]

Fresh == {c \in Clients : origin[c] = "unused"}
Known == {c \in Clients : origin[c] \in {"inbound", "outbound"}}
Waiting(u) == UNION {{r} \X {i \in DOMAIN queue[r] : queue[r][i].id = u} : r \in Rudders}

TypeOK ==
  /\ pc \in {"select", "handle", "letters", "upcall", "ended", "dead"}
  /\ busy \in BOOLEAN /\ aborted \in BOOLEAN
  /\ rudders \subseteq Rudders /\ open \subseteq Rudders /\ closed \subseteq Rudders
  /\ registered \in [Rudders -> SUBSET Ops]
  /\ operations \in [Rudders -> SUBSET Ops]
  /\ selected \in [Rudders -> SUBSET Ops]
  /\ toConnect \subseteq Clients /\ connecting \subseteq Clients
  /\ queue \in [Rudders -> Seq(Unit)]
  /\ letters \in Seq(LetterType)
  /\ caller \in CallType
  /\ origin \in [Clients -> {"unused", "accepted", "inbound", "outbound"}]
  /\ asked \subseteq Units
  /\ done \in [Units -> Nat]

Init ==
  /\ pc = "select"
  /\ busy = TRUE
  /\ aborted = FALSE
  /\ rudders = Ports
  /\ open = Ports
  /\ registered = [r \in Rudders |-> {}]
  /\ operations = [r \in Rudders |-> {}]
  /\ toConnect = {}
  /\ connecting = {}
  /\ queue = [r \in Rudders |-> <<>>]
  /\ closed = {}
  /\ letters = <<>>
  /\ selected = [r \in Rudders |-> {}]
  /\ caller = NoCall
  /\ origin = [c \in Clients |-> "unused"]
  /\ asked = {}
  /\ done = [u \in Units |-> 0]

-----------------------------------------------------------------------------
(* What the multiplexer's methods do to the selector and to the queues.     *)

(* An uncaught exception leaves the loop of run: "Fatal Error".             *)
Die == /\ pc' = "dead"
       /\ caller' = NoCall

(* Mutant: off by one.                                                      *)
IsBusyLate == Cardinality(rudders) > MaxShips
IsBusy == Cardinality(rudders) >= MaxShips

(* Mutants of ReqClose: the key stays, the letter is forgotten.             *)
ReqCloseKeepsKey(r, pending) ==
  IF r \in rudders
  THEN open' = open \ {r} /\ letters' = Append(pending, Letter("closed", r))
                          /\ UNCHANGED registered
  ELSE letters' = pending /\ UNCHANGED <<open, registered>>

ReqCloseSilent(r, pending) ==
  /\ open' = open \ {r}
  /\ registered' = [registered EXCEPT ![r] = {}]
  /\ letters' = pending

(* close_rudder and the letter of req_close, for a rudder that may have no  *)
(* state any more; the letters before it are given.                         *)
ReqClose(r, pending) ==
  IF r \in rudders
  THEN /\ open' = open \ {r}
       /\ registered' = [registered EXCEPT ![r] = {}]
       /\ letters' = Append(pending, Letter("closed", r))
  ELSE /\ letters' = pending
       /\ UNCHANGED <<open, registered>>

AddOperation(r, op) == operations' = [operations EXCEPT ![r] = @ \cup {op}]

(* The interest that stays when OP_WRITE goes: all but {"R"} is no key.     *)
WriteOff(ops) == IF ops \ {"W"} = {"R"} THEN {"R"} ELSE {}

(* cancel_write: KeyError if an open rudder has no key.                     *)
CancelWrite(r) ==
  IF r \in open /\ registered[r] = {}
  THEN Die /\ UNCHANGED registered
  ELSE /\ pc' = "letters"
       /\ caller' = NoCall
       /\ registered' = IF r \in open
                        THEN [registered EXCEPT ![r] = WriteOff(@)]
                        ELSE registered

(* cancel_read: unregister removes the whole key, KeyError if there is none. *)
CancelRead(r) ==
  IF r \in open /\ registered[r] = {}
  THEN Die /\ UNCHANGED registered
  ELSE /\ pc' = "letters"
       /\ caller' = NoCall
       /\ registered' = [registered EXCEPT ![r] = {}]

(* Mutant: one letter consumes the whole queue.                             *)
ConsumeAllUnits(r, kind) ==
  /\ queue' = [queue EXCEPT ![r] = <<>>]
  /\ done' = [u \in Units |-> IF \E i \in DOMAIN queue[r] : queue[r][i].id = u
                             THEN done[u] + 1 ELSE done[u]]
  /\ pc' = "upcall"
  /\ caller' = Upcall(kind, r)

(* consume_oldest_unit: pop the unit, then call its listener (an upcall).    *)
ConsumeOldestUnit(r, kind) ==
  /\ queue' = [queue EXCEPT ![r] = Tail(@)]
  /\ done' = [done EXCEPT ![Head(queue[r]).id] = @ + 1]
  /\ pc' = "upcall"
  /\ caller' = Upcall(kind, r)

-----------------------------------------------------------------------------
(* GrandAgent.run: the busy switch, select and _register_channel_ops.       *)

(* The interests on_busy and on_free leave when the switch flips.           *)
Switched ==
  [r \in Rudders |-> IF r \in Ports /\ IsBusy # busy
                     THEN IF IsBusy THEN {} ELSE {"R"}
                     ELSE registered[r]]

(* on_busy and on_free fail on a listening socket that has been closed.     *)
SwitchFails == IsBusy # busy /\ ~(Ports \subseteq open)

Registered(interest) ==
  [r \in Rudders |-> IF r \in rudders \cap open
                     THEN interest[r] \cup operations[r] ELSE interest[r]]

Select ==
  /\ pc = "select" /\ ~aborted /\ ~SwitchFails
  /\ busy' = IsBusy
  /\ \E ready \in [Rudders -> SUBSET Ops] :
       /\ \A r \in Rudders : ready[r] \subseteq Switched[r]
       /\ selected' = ready
  /\ registered' = Registered(Switched)
  /\ connecting' = connecting \cup (toConnect \cap rudders \cap open)
  /\ operations' = [r \in Rudders |-> {}]
  /\ toConnect' = {}
  /\ pc' = "handle"
  /\ UNCHANGED <<aborted, rudders, open, queue, closed, letters, caller, origin, asked, done>>

SelectFails ==
  /\ pc = "select" /\ ~aborted /\ SwitchFails
  /\ Die
  /\ UNCHANGED <<busy, aborted, rudders, open, selectorVars, queue, closed,
                 letters, selected, origin, asked, done>>

(* The CommandReceiver reads CMD_SHUTDOWN: its ReadLetter is one of those   *)
(* drained here.  The loop ends when it comes back to its condition, and    *)
(* shutdown() returns at once because the flag is set.                      *)
ReqShutdown ==
  /\ ~aborted /\ pc = "letters"
  /\ aborted' = TRUE
  /\ UNCHANGED <<pc, busy, rudders, open, selectorVars, queue, closed, letters,
                 selected, caller, origin, asked, done>>

StopLoop ==
  /\ aborted /\ pc = "select"
  /\ pc' = "ended"
  /\ UNCHANGED <<busy, aborted, rudders, open, selectorVars, queue, closed,
                 letters, selected, caller, origin, asked, done>>

-----------------------------------------------------------------------------
(* SpiderMultiplexer._handle_channel, for each key that select returned.    *)

Handling(r) ==
  /\ pc = "handle" /\ selected[r] # {} /\ r \in rudders
  /\ selected' = [selected EXCEPT ![r] = {}]

(* _on_connectable sends ConnectedLetter after an ErrorLetter too.          *)
HandleConnectable(r) ==
  /\ Handling(r) /\ r \in connecting
  /\ \E failure \in {<<>>, <<Letter("error", r)>>} :
       letters' = letters \o failure \o <<Letter("connected", r)>>
  /\ connecting' = connecting \ {r}
  /\ registered' = [registered EXCEPT ![r] = WriteOff(@)]
  /\ UNCHANGED <<pc, busy, aborted, rudders, open, operations, toConnect, queue,
                 closed, caller, origin, asked, done>>

HandleAcceptable(p) ==
  /\ Handling(p) /\ p \in Ports
  /\ \/ UNCHANGED <<letters, open, origin>>   \* another agent took the client
     \/ \E c \in Fresh :
          /\ letters' = Append(letters, [kind |-> "accepted", rd |-> c, port |-> p])
          /\ open' = open \cup {c}
          /\ origin' = [origin EXCEPT ![c] = "accepted"]
  /\ UNCHANGED <<pc, busy, aborted, rudders, selectorVars, queue, closed, caller, asked, done>>

(* _on_readable: nothing yet, data or EOF, or an I/O error.                 *)
ReadLetters(r) ==
  IF "R" \in selected[r]
  THEN {<<>>, <<Letter("read", r)>>, <<Letter("error", r)>>} ELSE {<<>>}

(* The test that ends the write loop: n bytes of a buffer of len were sent  *)
(* and the test compares n with the length of what is left.                 *)
DataRemains(n, len) == n < len - n

(* The byte counts one pass of _on_writable can send from the first units   *)
(* of q: a send takes at least a byte, an empty buffer sends nothing, and   *)
(* the loop ends at the end of q, where DataRemains, or where send blocks.  *)
Passes(q) ==
  {w \in UNION {[1..m -> 0..Size] : m \in 0..Len(q)} :
     /\ \A i \in DOMAIN w : w[i] <= q[i].rest /\ (w[i] = 0 <=> q[i].rest = 0)
     /\ \A i \in DOMAIN w : i < Len(w) => ~DataRemains(w[i], q[i].rest)
     /\ \/ Len(w) = Len(q)
        \/ Len(w) > 0 /\ DataRemains(w[Len(w)], q[Len(w)].rest)
        \/ q[Len(w) + 1].rest > 0}

(* Mutant: the buffer advances a byte too far.                              *)
SentOneMore(q, w) ==
  [i \in DOMAIN q |-> [q[i] EXCEPT !.rest = IF i \in DOMAIN w THEN @ - w[i] - 1 ELSE @]]

(* wunit.buf = wunit.buf[length::] for the units the pass has reached.      *)
SentBytes(q, w) ==
  [i \in DOMAIN q |-> [q[i] EXCEPT !.rest = IF i \in DOMAIN w THEN @ - w[i] ELSE @]]

(* A send that raises anything but "would block" becomes an ErrorLetter.    *)
SendFailure(q, w) ==
  IF \/ Len(w) = Len(q)
     \/ Len(w) > 0 /\ DataRemains(w[Len(w)], q[Len(w)].rest)
  THEN {FALSE} ELSE BOOLEAN

HandleReadWrite(r) ==
  /\ Handling(r) /\ r \in Clients \ connecting
  /\ \E got \in ReadLetters(r) :
       IF "W" \notin selected[r]
       THEN letters' = letters \o got /\ UNCHANGED <<queue, registered>>
       ELSE IF queue[r] = <<>>
       THEN /\ letters' = letters \o got
            /\ registered' = [registered EXCEPT ![r] = WriteOff(@)]
            /\ UNCHANGED queue
       ELSE \E w \in Passes(queue[r]) : \E failed \in SendFailure(queue[r], w) :
            /\ letters' = letters \o got
                            \o [i \in 1..Len(w) |-> Letter("wrote", r)]
                            \o (IF failed THEN <<Letter("error", r)>> ELSE <<>>)
            /\ queue' = [queue EXCEPT ![r] = SentBytes(@, w)]
            /\ UNCHANGED registered
  /\ UNCHANGED <<pc, busy, aborted, rudders, open, operations, toConnect,
                 connecting, closed, caller, origin, asked, done>>

(* After receive: with no letter the timers may be due (_ring).             *)
EndReceive ==
  /\ pc = "handle"
  /\ \A r \in Rudders : selected[r] = {}
  /\ \/ pc' = "letters" /\ UNCHANGED caller
     \/ letters = <<>> /\ pc' = "upcall" /\ caller' = Upcall("timer", "none")
  /\ UNCHANGED <<busy, aborted, rudders, open, selectorVars, queue, closed,
                 letters, selected, origin, asked, done>>

-----------------------------------------------------------------------------
(* The letters, drained in order before the next select.                    *)

Received(kind) == pc = "letters" /\ letters # <<>> /\ Head(letters).kind = kind
Rd == Head(letters).rd

EndLetters ==
  /\ pc = "letters" /\ letters = <<>>
  /\ pc' = "select"
  /\ UNCHANGED <<busy, aborted, rudders, open, selectorVars, queue, closed,
                 letters, selected, caller, origin, asked, done>>

(* A letter for a RudderState that has been closed is dropped.              *)
DropLetter ==
  /\ pc = "letters" /\ letters # <<>>
  /\ Head(letters).kind \in {"connected", "read", "wrote", "closed"}
  /\ Rd \in closed
  /\ letters' = Tail(letters)
  /\ UNCHANGED <<pc, busy, aborted, rudders, open, selectorVars, queue, closed,
                 selected, caller, origin, asked, done>>

(* Port.on_connected: the new RudderState and its first req_read.           *)
OnAccepted ==
  /\ Received("accepted")
  /\ letters' = Tail(letters)
  /\ rudders' = rudders \cup {Rd}
  /\ origin' = [origin EXCEPT ![Rd] = "inbound"]
  /\ AddOperation(Rd, "R")
  /\ UNCHANGED <<pc, busy, aborted, open, registered, toConnect, connecting,
                 queue, closed, selected, caller, asked, done>>

(* Port.on_connected refused the client (permission, TLS wrap): the next    *)
(* action CLOSE goes to the letter's state, which is the port's.            *)
OnAcceptRefused ==
  /\ Received("accepted") /\ AcceptMayFail
  /\ LET p == Head(letters).port IN
     IF p \in rudders
     THEN /\ open' = open \ {Rd, p}
          /\ registered' = [registered EXCEPT ![p] = {}]
          /\ letters' = Append(Tail(letters), Letter("closed", p))
     ELSE /\ open' = open \ {Rd}
          /\ letters' = Tail(letters)
          /\ UNCHANGED registered
  /\ UNCHANGED <<pc, busy, aborted, rudders, operations, toConnect, connecting,
                 queue, closed, selected, caller, origin, asked, done>>

(* The upcall of a ConnectedLetter or a ReadLetter begins.                  *)
OnNotify(kind) ==
  /\ Received(kind) /\ Rd \notin closed
  /\ letters' = Tail(letters)
  /\ pc' = "upcall"
  /\ caller' = Upcall(kind, Rd)
  /\ UNCHANGED <<busy, aborted, rudders, open, selectorVars, queue, closed,
                 selected, origin, asked, done>>

OnConnected == OnNotify("connected")
OnRead == OnNotify("read")

(* An empty queue here is a Sink, which no handler catches.                 *)
OnWrote ==
  /\ Received("wrote") /\ Rd \notin closed
  /\ letters' = Tail(letters)
  /\ IF queue[Rd] = <<>> THEN Die /\ UNCHANGED <<queue, done>>
     ELSE IF Head(queue[Rd]).rest > 0 THEN UNCHANGED <<pc, caller, queue, done>>
     ELSE ConsumeOldestUnit(Rd, "wrote")
  /\ UNCHANGED <<busy, aborted, rudders, open, selectorVars, closed, selected,
                 origin, asked>>

(* The state leaves the map first, so that what the listeners request is    *)
(* answered at once; then every unit is consumed.                           *)
OnClosed ==
  /\ Received("closed") /\ Rd \notin closed
  /\ letters' = Tail(letters)
  /\ rudders' = rudders \ {Rd}
  /\ IF Rd \in Ports
     THEN closed' = closed \cup {Rd} /\ UNCHANGED <<pc, caller, queue, done>>
     ELSE /\ UNCHANGED closed
          /\ IF queue[Rd] # <<>> THEN ConsumeOldestUnit(Rd, "drain")
             ELSE /\ pc' = "upcall" /\ caller' = Upcall("closed", Rd)
                  /\ UNCHANGED <<queue, done>>
  /\ UNCHANGED <<busy, aborted, open, selectorVars, selected, origin, asked>>

OnError ==
  /\ Received("error")
  /\ ReqClose(Rd, Tail(letters))
  /\ UNCHANGED <<pc, busy, aborted, rudders, operations, toConnect, connecting,
                 queue, closed, selected, caller, origin, asked, done>>

-----------------------------------------------------------------------------
(* The requests of the layer above, made from within an upcall.             *)

Serving == pc = "upcall" /\ caller.kind # "timer"

(* Mutant: a request on a closed rudder is dropped.                         *)
NeverAnswered(u) == UNCHANGED done

(* req_write on a rudder that is closed: the listener is called at once.    *)
AnswerAtOnce(u) == done' = [done EXCEPT ![u] = @ + 1]

ReqWrite(r, u) ==
  /\ pc = "upcall" /\ r \in Known /\ u \in Units \ asked
  /\ asked' = asked \cup {u}
  /\ IF r \in rudders
     THEN /\ queue' = [queue EXCEPT ![r] = Append(@, [id |-> u, rest |-> Size])]
          /\ AddOperation(r, "W")
          /\ UNCHANGED done
     ELSE /\ AnswerAtOnce(u)
          /\ UNCHANGED <<queue, operations>>
  /\ UNCHANGED <<pc, busy, aborted, rudders, open, registered, toConnect,
                 connecting, closed, letters, selected, caller, origin>>

ReqRead(r) ==
  /\ Serving /\ r \in Known
  /\ AddOperation(r, "R")
  /\ UNCHANGED <<pc, busy, aborted, rudders, open, registered, toConnect,
                 connecting, queue, closed, letters, selected, caller, origin, asked, done>>

(* Also what close_timeout_sockets does, in the "timer" upcall.             *)
UpperReqClose(r) ==
  /\ pc = "upcall" /\ r \in rudders \cap Clients /\ Len(letters) < MaxLetters
  /\ ReqClose(r, letters)
  /\ UNCHANGED <<pc, busy, aborted, rudders, operations, toConnect, connecting,
                 queue, closed, selected, caller, origin, asked, done>>

(* add_rudder_state and req_connect of an outbound (warp) connection.       *)
ReqConnect(c) ==
  /\ Serving /\ c \in Fresh
  /\ origin' = [origin EXCEPT ![c] = "outbound"]
  /\ rudders' = rudders \cup {c}
  /\ open' = open \cup {c}
  /\ AddOperation(c, "W")
  /\ toConnect' = toConnect \cup {c}
  /\ UNCHANGED <<pc, busy, aborted, registered, connecting, queue, closed,
                 letters, selected, caller, asked, done>>

-----------------------------------------------------------------------------
(* The upcall returns and the handler of the letter goes on.                *)

Returning(kind) == pc = "upcall" /\ caller.kind = kind

ReturnTimer ==
  /\ Returning("timer")
  /\ pc' = "letters" /\ caller' = NoCall
  /\ UNCHANGED <<busy, aborted, rudders, open, selectorVars, queue, closed,
                 letters, selected, origin, asked, done>>

(* _next_action of on_connected and on_read with CONTINUE: nothing to do.    *)
ReturnContinue ==
  /\ pc = "upcall" /\ caller.kind \in {"connected", "read"}
  /\ pc' = "letters" /\ caller' = NoCall
  /\ UNCHANGED <<busy, aborted, rudders, open, selectorVars, queue, closed,
                 letters, selected, origin, asked, done>>

(* CLOSE: the cancel_read that follows finds the rudder closed.             *)
ReturnClose ==
  /\ pc = "upcall" /\ caller.kind \in {"connected", "read"}
  /\ Len(letters) < MaxLetters
  /\ ReqClose(caller.rd, letters)
  /\ pc' = "letters" /\ caller' = NoCall
  /\ UNCHANGED <<busy, aborted, rudders, operations, toConnect, connecting,
                 queue, closed, selected, origin, asked, done>>

(* SUSPEND, and WRITE on an anchorable agent.                               *)
ReturnSuspend ==
  /\ Returning("read")
  /\ CancelRead(caller.rd)
  /\ UNCHANGED <<busy, aborted, rudders, open, operations, toConnect, connecting,
                 queue, closed, letters, selected, origin, asked, done>>

ReturnWrote ==
  /\ Returning("wrote")
  /\ IF queue[caller.rd] = <<>> THEN CancelWrite(caller.rd)
     ELSE pc' = "letters" /\ caller' = NoCall /\ UNCHANGED registered
  /\ UNCHANGED <<busy, aborted, rudders, open, operations, toConnect, connecting,
                 queue, closed, letters, selected, origin, asked, done>>

ReturnDrain ==
  /\ Returning("drain")
  /\ IF queue[caller.rd] # <<>> THEN ConsumeOldestUnit(caller.rd, "drain")
     ELSE /\ caller' = Upcall("closed", caller.rd)
          /\ UNCHANGED <<pc, queue, done>>
  /\ UNCHANGED <<busy, aborted, rudders, open, selectorVars, closed, letters,
                 selected, origin, asked>>

ReturnClosed ==
  /\ Returning("closed")
  /\ closed' = closed \cup {caller.rd}
  /\ pc' = "letters" /\ caller' = NoCall
  /\ UNCHANGED <<busy, aborted, rudders, open, selectorVars, queue, letters,
                 selected, origin, asked, done>>

-----------------------------------------------------------------------------
HandleChannel ==
  \E r \in Rudders : HandleConnectable(r) \/ HandleAcceptable(r) \/ HandleReadWrite(r)

OnLetter ==
  DropLetter \/ OnAccepted \/ OnAcceptRefused \/ OnConnected \/ OnRead
    \/ OnWrote \/ OnClosed \/ OnError

Request ==
  \E r \in Clients : \/ \E u \in Units : ReqWrite(r, u)
                     \/ ReqRead(r) \/ UpperReqClose(r) \/ ReqConnect(r)

Return ==
  ReturnTimer \/ ReturnContinue \/ ReturnClose \/ ReturnSuspend \/ ReturnWrote
    \/ ReturnDrain \/ ReturnClosed

(* The steps the agent's thread takes by itself.                            *)
Run == Select \/ SelectFails \/ StopLoop \/ HandleChannel \/ EndReceive
         \/ EndLetters \/ OnLetter \/ Return

Next == Run \/ Request \/ ReqShutdown

(* The thread is never parked for good: select has a timeout, and every     *)
(* upcall returns.                                                          *)
Spec == Init /\ [][Next]_vars /\ WF_vars(Run)

-----------------------------------------------------------------------------
(* Properties.                                                              *)

(* A WroteLetter always finds a unit to account for: the "Write queue is    *)
(* empty" Sink of GrandAgent._on_wrote, which would end the agent, cannot   *)
(* be raised whatever mix of partial, whole and empty sends a pass makes.   *)
WroteLettersHaveUnits ==
  \A r \in rudders :
    Cardinality({i \in DOMAIN letters : letters[i] = Letter("wrote", r)})
      <= Len(queue[r])

(* req_write's promise: a unit waits in one write queue or its listener has *)
(* been called, once; and a closed rudder keeps no unit back, even one that *)
(* a listener or on_closed requested while the rudder was being closed.     *)
EachUnitAnsweredOnce ==
  /\ \A u \in asked : done[u] + Cardinality(Waiting(u)) = 1
  /\ \A r \in closed : queue[r] = <<>>

(* Both: letters, units and listeners match.                                *)
UnitsAnswered == WroteLettersHaveUnits /\ EachUnitAnsweredOnce

(* When the loop is back at select, every rudder with a state is open and   *)
(* only such rudders have a key: req_close closes at once but leaves the    *)
(* state until its letter, so a stale key would make _handle_channel work   *)
(* on a closed socket or miss its state.                                    *)
SelectableAreOpen ==
  /\ pc = "select" => rudders \subseteq open
  /\ \A r \in Rudders : registered[r] # {} => r \in rudders \cap open
  /\ \A r \in Rudders : selected[r] # {} => r \in rudders

(* on_busy stops accepting in time: inbound connections and ports together  *)
(* stay within max_ships, plus one late client for each further port.       *)
InboundWithinMaxShips ==
  LET inbound == {c \in rudders \cap Clients : origin[c] = "inbound"}
  IN inbound # {} =>
       Cardinality(inbound) + Cardinality(rudders \cap Ports)
         <= MaxShips + Cardinality(Ports) - 1

(* A close that was requested is carried out: units drained, on_closed      *)
(* notified, state marked, unless the agent stops first.                    *)
Closing(r) == r \in rudders /\ r \notin open
CloseDone(r) == r \in closed \/ pc \in {"ended", "dead"}
CloseCompletes == \A r \in Clients : Closing(r) ~> CloseDone(r)
=============================================================================
