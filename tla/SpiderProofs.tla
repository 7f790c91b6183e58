---------------------------- MODULE SpiderProofs ----------------------------
(* Machine-checked facts about Spider, for every set of ports, connections  *)
(* and write units.                                                         *)
EXTENDS Spider, FiniteSetTheorems, TLAPS

(* A step takes its letter from the front of the queue.                     *)
LEMMA HeadLetter ==
  ASSUME letters \in Seq(LetterType), letters # <<>>
  PROVE  /\ Head(letters) \in LetterType
         /\ Tail(letters) \in Seq(LetterType)
  OBVIOUS

LEMMA LetterIsLetter ==
  /\ \A r \in Clients, k \in {"connected", "read", "wrote", "error"} :
       Letter(k, r) \in LetterType
  /\ \A r \in Rudders : Letter("closed", r) \in LetterType
  BY DEF Letter, LetterType

(* req_close leaves well-typed state.                                       *)
LEMMA ReqCloseType ==
  ASSUME TypeOK, NEW r \in Rudders, NEW pending \in Seq(LetterType),
         ReqClose(r, pending)
  PROVE  /\ open' \subseteq Rudders
         /\ registered' \in [Rudders -> SUBSET Ops]
         /\ letters' \in Seq(LetterType)
  <1>1. CASE r \in rudders
    <2>1. Letter("closed", r) \in LetterType
      BY LetterIsLetter
    <2>2. Append(pending, Letter("closed", r)) \in Seq(LetterType)
      BY <2>1
    <2> QED BY <1>1, <2>2 DEF ReqClose, TypeOK
  <1>2. CASE r \notin rudders
    BY <1>2 DEF ReqClose, TypeOK
  <1> QED BY <1>1, <1>2

(* What one pass of the write loop leaves of a queue is a queue.            *)
LEMMA SentBytesType ==
  ASSUME NEW q \in Seq(Unit), NEW w \in Passes(q)
  PROVE  /\ SentBytes(q, w) \in Seq(Unit)
         /\ Len(w) \in Nat
  <1> USE SpiderAssumption
  <1>1. PICK m \in 0..Len(q) : w \in [1..m -> 0..Size]
    BY DEF Passes
  <1>2. DOMAIN w = 1..m /\ Len(w) = m
    BY <1>1
  <1>3. \A i \in 1..m : w[i] <= q[i].rest /\ w[i] \in 0..Size
    BY <1>1, <1>2 DEF Passes
  <1>4. \A i \in 1..Len(q) :
          [q[i] EXCEPT !.rest = IF i \in DOMAIN w THEN @ - w[i] ELSE @] \in Unit
    <2>1. TAKE i \in 1..Len(q)
    <2>2. q[i] \in Unit
      OBVIOUS
    <2>3. CASE i \in DOMAIN w
      <3>1. q[i].rest \in 0..Size /\ w[i] \in 0..Size /\ w[i] <= q[i].rest
        BY <2>2, <2>3, <1>2, <1>3 DEF Unit
      <3>2. q[i].rest - w[i] \in 0..Size
        BY <3>1 DEF SpiderAssumption
      <3>3. [q[i] EXCEPT !.rest = q[i].rest - w[i]] \in Unit
        BY <2>2, <3>2 DEF Unit
      <3> QED BY <2>3, <3>3
    <2>4. CASE i \notin DOMAIN w
      BY <2>2, <2>4 DEF Unit
    <2> QED BY <2>3, <2>4
  <1>5. DOMAIN q = 1..Len(q)
    OBVIOUS
  <1>6. SentBytes(q, w) \in [1..Len(q) -> Unit]
    BY <1>4, <1>5 DEF SentBytes
  <1> QED BY <1>2, <1>6

(* Popping a unit counts a call of its listener.                            *)
LEMMA ConsumeType ==
  ASSUME TypeOK, NEW r \in Clients, queue[r] # <<>>,
         NEW kind \in {"wrote", "drain"}, ConsumeOldestUnit(r, kind)
  PROVE  /\ queue' \in [Rudders -> Seq(Unit)]
         /\ done' \in [Units -> Nat]
         /\ pc' = "upcall"
         /\ caller' \in CallType
  <1>1. r \in Rudders /\ queue[r] \in Seq(Unit)
    BY DEF Rudders, TypeOK
  <1>2. Head(queue[r]) \in Unit /\ Tail(queue[r]) \in Seq(Unit)
    BY <1>1
  <1>3. Head(queue[r]).id \in Units
    BY <1>2 DEF Unit
  <1>4. Upcall(kind, r) \in CallType
    BY DEF Upcall, CallType
  <1>5. queue' \in [Rudders -> Seq(Unit)]
    BY <1>1, <1>2 DEF ConsumeOldestUnit, TypeOK
  <1>6. done' \in [Units -> Nat]
    BY <1>3 DEF ConsumeOldestUnit, TypeOK
  <1> QED BY <1>4, <1>5, <1>6 DEF ConsumeOldestUnit

LEMMA NoCallType == NoCall \in CallType /\ Upcall("timer", "none") \in CallType
  BY DEF CallType

LEMMA UpcallType ==
  \A r \in Clients, k \in {"connected", "read", "wrote", "drain", "closed"} :
    Upcall(k, r) \in CallType
  BY DEF CallType, Upcall

(* The upcalls of a rudder name a client rudder.                            *)
LEMMA CallerRd ==
  ASSUME TypeOK, caller.kind \in {"connected", "read", "wrote", "drain", "closed"}
  PROVE  caller.rd \in Clients
  BY DEF TypeOK, CallType, NoCall, Upcall

(* Who a letter of each kind is about.                                      *)
LEMMA LetterRd ==
  ASSUME TypeOK, letters # <<>>
  PROVE  /\ Rd \in Rudders
         /\ Head(letters).kind # "closed" => Rd \in Clients
         /\ Head(letters).kind = "accepted" => Head(letters).port \in Ports
         /\ Tail(letters) \in Seq(LetterType)
  <1>1. Head(letters) \in LetterType /\ Tail(letters) \in Seq(LetterType)
    BY HeadLetter DEF TypeOK
  <1> QED BY <1>1 DEF LetterType, Rd, Rudders

(* Concatenating letters.                                                   *)
LEMMA ConcatLetters ==
  ASSUME NEW S, NEW a \in Seq(S), NEW b \in Seq(S)
  PROVE  a \o b \in Seq(S)
  OBVIOUS

LEMMA ConcatAssoc ==
  ASSUME NEW S, NEW T, T \subseteq S, NEW a \in Seq(S), NEW b \in Seq(T), NEW c \in Seq(T)
  PROVE  (a \o b) \o c = a \o (b \o c)
  OBVIOUS

LEMMA FewLetters ==
  ASSUME NEW S
  PROVE  <<>> \in Seq(S) /\ \A a \in S : <<a>> \in Seq(S)
  OBVIOUS

LEMMA WriteOffType == \A ops \in SUBSET Ops : WriteOff(ops) \in SUBSET Ops
  BY DEF WriteOff, Ops

LEMMA AddOperationType ==
  ASSUME TypeOK, NEW r \in Rudders, NEW op \in Ops, AddOperation(r, op)
  PROVE  operations' \in [Rudders -> SUBSET Ops]
  <1>1. operations[r] \cup {op} \in SUBSET Ops
    BY DEF TypeOK
  <1> QED BY <1>1 DEF AddOperation, TypeOK

LEMMA SelectType ==
  ASSUME TypeOK, Select PROVE TypeOK'
  <1>1. Switched \in [Rudders -> SUBSET Ops]
    BY DEF TypeOK, Switched, Ops
  <1>2. Registered(Switched) \in [Rudders -> SUBSET Ops]
    BY <1>1 DEF TypeOK, Registered
  <1>3. IsBusy \in BOOLEAN
    BY DEF IsBusy
  <1>4. selected' \in [Rudders -> SUBSET Ops]
    BY DEF Select
  <1>5. operations' \in [Rudders -> SUBSET Ops]
    BY DEF Select
  <1>6. toConnect' \subseteq Clients /\ connecting' \subseteq Clients
    BY DEF Select, TypeOK
  <1> QED BY <1>2, <1>3, <1>4, <1>5, <1>6 DEF Select, TypeOK

LEMMA LoopType ==
  ASSUME TypeOK, SelectFails \/ StopLoop \/ EndReceive \/ EndLetters \/ ReqShutdown
  PROVE  TypeOK'
  <1>1. CASE SelectFails
    BY <1>1, NoCallType DEF SelectFails, Die, TypeOK, selectorVars
  <1>2. CASE StopLoop
    BY <1>2 DEF StopLoop, TypeOK, selectorVars
  <1>3. CASE EndReceive
    BY <1>3, NoCallType DEF EndReceive, TypeOK, selectorVars
  <1>4. CASE EndLetters
    BY <1>4 DEF EndLetters, TypeOK, selectorVars
  <1>5. CASE ReqShutdown
    BY <1>5 DEF ReqShutdown, TypeOK, selectorVars
  <1> QED BY <1>1, <1>2, <1>3, <1>4, <1>5

LEMMA HandleType ==
  ASSUME TypeOK, NEW r \in Rudders,
         HandleConnectable(r) \/ HandleAcceptable(r) \/ HandleReadWrite(r)
  PROVE  TypeOK'
  <1>1. Handling(r) => selected' \in [Rudders -> SUBSET Ops]
    BY DEF Handling, TypeOK
  <1>2. CASE HandleConnectable(r)
    <2>1. r \in Clients
      BY <1>2 DEF HandleConnectable, TypeOK
    <2>2. Letter("error", r) \in LetterType /\ Letter("connected", r) \in LetterType
      BY <2>1, LetterIsLetter
    <2>3. PICK failure \in {<<>>, <<Letter("error", r)>>} :
            letters' = letters \o failure \o <<Letter("connected", r)>>
      BY <1>2 DEF HandleConnectable
    <2>4. failure \in Seq(LetterType) /\ <<Letter("connected", r)>> \in Seq(LetterType)
      BY <2>2, <2>3, FewLetters, Zenon
    <2>5. letters \o failure \in Seq(LetterType)
      BY <2>4, ConcatLetters DEF TypeOK
    <2>6. letters' \in Seq(LetterType)
      BY <2>3, <2>4, <2>5, ConcatLetters
    <2>7. registered' \in [Rudders -> SUBSET Ops]
      BY <1>2, WriteOffType DEF HandleConnectable, TypeOK
    <2>8. connecting' \subseteq Clients
      BY <1>2 DEF HandleConnectable, TypeOK
    <2> QED BY <1>1, <1>2, <2>6, <2>7, <2>8 DEF HandleConnectable, TypeOK
  <1>3. CASE HandleAcceptable(r)
    <2>1. CASE UNCHANGED <<letters, open, origin>>
      BY <1>1, <1>3, <2>1 DEF HandleAcceptable, TypeOK, selectorVars
    <2>2. CASE \E c \in Fresh :
                 /\ letters' = Append(letters, [kind |-> "accepted", rd |-> c, port |-> r])
                 /\ open' = open \cup {c}
                 /\ origin' = [origin EXCEPT ![c] = "accepted"]
      <3>1. PICK c \in Fresh :
                 /\ letters' = Append(letters, [kind |-> "accepted", rd |-> c, port |-> r])
                 /\ open' = open \cup {c}
                 /\ origin' = [origin EXCEPT ![c] = "accepted"]
        BY <2>2
      <3>2. c \in Clients /\ c \in Rudders /\ r \in Ports
        BY <1>3 DEF Fresh, Rudders, HandleAcceptable
      <3>3. [kind |-> "accepted", rd |-> c, port |-> r] \in LetterType
        BY <3>2 DEF LetterType
      <3>4. letters' \in Seq(LetterType)
        BY <3>1, <3>3 DEF TypeOK
      <3> QED BY <1>1, <1>3, <3>1, <3>2, <3>4
              DEF HandleAcceptable, TypeOK, selectorVars
    <2> QED BY <1>3, <2>1, <2>2 DEF HandleAcceptable
  <1>4. CASE HandleReadWrite(r)
    <2>1. r \in Clients /\ r \in Rudders /\ queue[r] \in Seq(Unit)
      BY <1>4 DEF HandleReadWrite, TypeOK, Rudders
    <2>2. \A k \in {"read", "error", "wrote"} :
            Letter(k, r) \in LetterType /\ <<Letter(k, r)>> \in Seq(LetterType)
      BY <2>1, LetterIsLetter
    <2>3. PICK got \in ReadLetters(r) :
            IF "W" \notin selected[r]
            THEN letters' = letters \o got /\ UNCHANGED <<queue, registered>>
            ELSE IF queue[r] = <<>>
            THEN /\ letters' = letters \o got
                 /\ registered' = [registered EXCEPT ![r] = WriteOff(@)]
                 /\ UNCHANGED queue
            ELSE \E w \in Passes(queue[r]) : \E failed \in SendFailure(queue[r], w) :
                 /\ letters' = letters \o got
                                 \o [i \in 1..Len(w) |-> Letter("wrote", r)]
                                 \o (IF failed THEN <<Letter("error", r)>> ELSE <<>>)
                 /\ queue' = [queue EXCEPT ![r] = SentBytes(@, w)]
                 /\ UNCHANGED registered
      BY <1>4 DEF HandleReadWrite
    <2>4. got \in Seq(LetterType)
      BY <2>2, <2>3, FewLetters, Zenon DEF ReadLetters
    <2>5. letters \o got \in Seq(LetterType)
      BY <2>4, ConcatLetters DEF TypeOK
    <2>6. /\ letters' \in Seq(LetterType)
          /\ queue' \in [Rudders -> Seq(Unit)]
          /\ registered' \in [Rudders -> SUBSET Ops]
      <3>1. CASE "W" \notin selected[r]
        BY <2>3, <2>5, <3>1 DEF TypeOK
      <3>2. CASE "W" \in selected[r] /\ queue[r] = <<>>
        <4>1. /\ letters' = letters \o got
              /\ registered' = [registered EXCEPT ![r] = WriteOff(@)]
              /\ queue' = queue
          BY <2>3, <3>2
        <4>2. registered' \in [Rudders -> SUBSET Ops]
          BY <4>1, WriteOffType DEF TypeOK
        <4> QED BY <2>5, <4>1, <4>2 DEF TypeOK
      <3>3. CASE "W" \in selected[r] /\ queue[r] # <<>>
        <4>1. PICK w \in Passes(queue[r]) : \E failed \in SendFailure(queue[r], w) :
                 /\ letters' = letters \o got
                                 \o [i \in 1..Len(w) |-> Letter("wrote", r)]
                                 \o (IF failed THEN <<Letter("error", r)>> ELSE <<>>)
                 /\ queue' = [queue EXCEPT ![r] = SentBytes(@, w)]
                 /\ UNCHANGED registered
          BY <2>3, <3>3
        <4>2. PICK failed \in SendFailure(queue[r], w) :
                 letters' = letters \o got
                              \o [i \in 1..Len(w) |-> Letter("wrote", r)]
                              \o (IF failed THEN <<Letter("error", r)>> ELSE <<>>)
          BY <4>1
        <4>3. SentBytes(queue[r], w) \in Seq(Unit) /\ Len(w) \in Nat
          BY <2>1, <4>1, SentBytesType
        <4> DEFINE wrote == [i \in 1..Len(w) |-> Letter("wrote", r)]
                   failure == IF failed THEN <<Letter("error", r)>> ELSE <<>>
        <4>4. wrote \in Seq(LetterType)
          BY <2>2, <4>3
        <4>5. failure \in Seq(LetterType)
          BY <2>2
        <4>6. letters' = letters \o got \o wrote \o failure
          BY <4>2
        <4> HIDE DEF wrote, failure
        <4>7. (letters \o got) \o wrote \in Seq(LetterType)
          BY <2>5, <4>4, ConcatLetters
        <4>8. letters' \in Seq(LetterType)
          BY <4>5, <4>6, <4>7, ConcatLetters
        <4> QED BY <4>1, <4>3, <4>8 DEF TypeOK
      <3> QED BY <3>1, <3>2, <3>3
    <2> QED BY <1>1, <1>4, <2>6 DEF HandleReadWrite, TypeOK
  <1> QED BY <1>2, <1>3, <1>4

LEMMA AcceptType ==
  ASSUME TypeOK, OnAccepted \/ OnAcceptRefused PROVE TypeOK'
  <1>1. /\ Rd \in Clients /\ Rd \in Rudders /\ Tail(letters) \in Seq(LetterType)
        /\ Head(letters).port \in Ports
    BY LetterRd DEF OnAccepted, OnAcceptRefused, Received
  <1>2. CASE OnAccepted
    BY <1>1, <1>2 DEF OnAccepted, AddOperation, TypeOK, Ops
  <1>3. CASE OnAcceptRefused
    <2> DEFINE p == Head(letters).port
    <2>1. p \in Rudders
      BY <1>1 DEF Rudders
    <2>2. Letter("closed", p) \in LetterType
      BY <2>1, LetterIsLetter
    <2>3. Append(Tail(letters), Letter("closed", p)) \in Seq(LetterType)
      BY <1>1, <2>2
    <2>4. CASE p \in rudders
      BY <1>3, <2>1, <2>3, <2>4 DEF OnAcceptRefused, TypeOK
    <2>5. CASE p \notin rudders
      BY <1>1, <1>3, <2>5 DEF OnAcceptRefused, TypeOK
    <2> QED BY <2>4, <2>5
  <1> QED BY <1>2, <1>3

LEMMA NotifyType ==
  ASSUME TypeOK, OnConnected \/ OnRead PROVE TypeOK'
  <1>1. PICK kind \in {"connected", "read"} : OnNotify(kind)
    BY DEF OnConnected, OnRead
  <1>2. Rd \in Clients /\ Tail(letters) \in Seq(LetterType)
    BY <1>1, LetterRd DEF OnNotify, Received
  <1>3. Upcall(kind, Rd) \in CallType
    BY <1>1, <1>2, UpcallType
  <1> QED BY <1>1, <1>2, <1>3 DEF OnNotify, TypeOK, selectorVars

LEMMA WroteType ==
  ASSUME TypeOK, OnWrote PROVE TypeOK'
  <1>1. Rd \in Clients /\ Tail(letters) \in Seq(LetterType)
    BY LetterRd DEF OnWrote, Received
  <1>2. CASE queue[Rd] = <<>>
    BY <1>1, <1>2, NoCallType DEF OnWrote, Die, TypeOK, selectorVars
  <1>3. CASE queue[Rd] # <<>> /\ Head(queue[Rd]).rest > 0
    BY <1>1, <1>3 DEF OnWrote, TypeOK, selectorVars
  <1>4. CASE queue[Rd] # <<>> /\ ~(Head(queue[Rd]).rest > 0)
    <2>1. ConsumeOldestUnit(Rd, "wrote")
      BY <1>4 DEF OnWrote
    <2>2. /\ queue' \in [Rudders -> Seq(Unit)]
          /\ done' \in [Units -> Nat]
          /\ pc' = "upcall"
          /\ caller' \in CallType
      BY <1>1, <1>4, <2>1, ConsumeType
    <2> QED BY <1>1, <2>2 DEF OnWrote, TypeOK, selectorVars
  <1> QED BY <1>2, <1>3, <1>4

LEMMA ClosedType ==
  ASSUME TypeOK, OnClosed PROVE TypeOK'
  <1>1. Rd \in Rudders /\ Tail(letters) \in Seq(LetterType)
    BY LetterRd DEF OnClosed, Received
  <1>2. CASE Rd \in Ports
    BY <1>1, <1>2 DEF OnClosed, TypeOK, selectorVars
  <1>3. CASE Rd \notin Ports
    <2>1. Rd \in Clients
      BY <1>1, <1>3 DEF Rudders
    <2>2. CASE queue[Rd] # <<>>
      <3>1. ConsumeOldestUnit(Rd, "drain")
        BY <1>3, <2>2 DEF OnClosed
      <3>2. /\ queue' \in [Rudders -> Seq(Unit)]
            /\ done' \in [Units -> Nat]
            /\ pc' = "upcall"
            /\ caller' \in CallType
        BY <2>1, <2>2, <3>1, ConsumeType
      <3> QED BY <1>1, <1>3, <3>2 DEF OnClosed, TypeOK, selectorVars
    <2>3. CASE queue[Rd] = <<>>
      <3>1. Upcall("closed", Rd) \in CallType
        BY <2>1, UpcallType
      <3> QED BY <1>1, <1>3, <2>3, <3>1 DEF OnClosed, TypeOK, selectorVars
    <2> QED BY <2>2, <2>3
  <1> QED BY <1>2, <1>3

LEMMA LetterStepType ==
  ASSUME TypeOK, DropLetter \/ OnError PROVE TypeOK'
  <1>1. letters # <<>> => Rd \in Rudders /\ Tail(letters) \in Seq(LetterType)
    BY LetterRd
  <1>2. CASE DropLetter
    BY <1>1, <1>2 DEF DropLetter, TypeOK, selectorVars
  <1>3. CASE OnError
    <2>1. /\ open' \subseteq Rudders
          /\ registered' \in [Rudders -> SUBSET Ops]
          /\ letters' \in Seq(LetterType)
      BY <1>1, <1>3, ReqCloseType DEF OnError, Received
    <2> QED BY <1>3, <2>1 DEF OnError, TypeOK
  <1> QED BY <1>2, <1>3

LEMMA RequestType ==
  ASSUME TypeOK, Request PROVE TypeOK'
  <1> SUFFICES ASSUME NEW r \in Clients,
                      \/ \E u \in Units : ReqWrite(r, u)
                      \/ ReqRead(r) \/ UpperReqClose(r) \/ ReqConnect(r)
               PROVE TypeOK'
    BY DEF Request
  <1>1. r \in Rudders
    BY DEF Rudders
  <1>2. ASSUME NEW u \in Units, ReqWrite(r, u) PROVE TypeOK'
    <2>1. asked' \subseteq Units
      BY <1>2 DEF ReqWrite, TypeOK
    <2>2. CASE r \in rudders
      <3>1. [id |-> u, rest |-> Size] \in Unit
        BY SpiderAssumption DEF SpiderAssumption, Unit
      <3>2. Append(queue[r], [id |-> u, rest |-> Size]) \in Seq(Unit)
        BY <1>1, <3>1 DEF TypeOK
      <3>3. queue' \in [Rudders -> Seq(Unit)]
        BY <1>1, <1>2, <2>2, <3>2 DEF ReqWrite, TypeOK
      <3>4. operations' \in [Rudders -> SUBSET Ops]
        BY <1>1, <1>2, <2>2, AddOperationType DEF ReqWrite, Ops
      <3> QED BY <1>2, <2>1, <2>2, <3>3, <3>4 DEF ReqWrite, TypeOK
    <2>3. CASE r \notin rudders
      <3> DEFINE once == done[u] + 1
      <3>0. once \in Nat
        BY DEF TypeOK
      <3>1a. done' = [done EXCEPT ![u] = once]
        BY <1>2, <2>3 DEF ReqWrite, AnswerAtOnce
      <3> HIDE DEF once
      <3>1. done' \in [Units -> Nat]
        BY <3>0, <3>1a DEF TypeOK
      <3>2. queue' = queue /\ operations' = operations
        BY <1>2, <2>3 DEF ReqWrite
      <3> QED BY <1>2, <2>1, <3>1, <3>2 DEF ReqWrite, TypeOK
    <2> QED BY <2>2, <2>3
  <1>3. CASE ReqRead(r)
    BY <1>3 DEF ReqRead, AddOperation, TypeOK, Ops
  <1>4. CASE UpperReqClose(r)
    <2>1. /\ open' \subseteq Rudders
          /\ registered' \in [Rudders -> SUBSET Ops]
          /\ letters' \in Seq(LetterType)
      BY <1>1, <1>4, ReqCloseType DEF UpperReqClose, TypeOK
    <2> QED BY <1>4, <2>1 DEF UpperReqClose, TypeOK
  <1>5. CASE ReqConnect(r)
    BY <1>1, <1>5 DEF ReqConnect, AddOperation, TypeOK, Ops
  <1> QED BY <1>2, <1>3, <1>4, <1>5

LEMMA ReturnType ==
  ASSUME TypeOK, Return PROVE TypeOK'
  <1>1. CASE ReturnTimer
    BY <1>1, NoCallType DEF ReturnTimer, TypeOK, selectorVars
  <1>2. CASE ReturnContinue
    BY <1>2, NoCallType DEF ReturnContinue, TypeOK, selectorVars
  <1>3. CASE ReturnClose
    <2>1. caller.rd \in Rudders
      BY <1>3, CallerRd DEF ReturnClose, Rudders
    <2>2. /\ open' \subseteq Rudders
          /\ registered' \in [Rudders -> SUBSET Ops]
          /\ letters' \in Seq(LetterType)
      BY <1>3, <2>1, ReqCloseType DEF ReturnClose, TypeOK
    <2> QED BY <1>3, <2>2, NoCallType DEF ReturnClose, TypeOK
  <1>4. CASE ReturnSuspend
    BY <1>4, NoCallType DEF ReturnSuspend, CancelRead, Die, TypeOK
  <1>5. CASE ReturnWrote
    <2>1. registered' \in [Rudders -> SUBSET Ops]
      <3>1. \/ registered' = registered
            \/ registered' = [registered EXCEPT ![caller.rd] = WriteOff(@)]
        BY <1>5 DEF ReturnWrote, CancelWrite
      <3>2. caller.rd \in Rudders
        BY <1>5, CallerRd DEF ReturnWrote, Returning, Rudders
      <3>3. WriteOff(registered[caller.rd]) \in SUBSET Ops
        BY <3>2, WriteOffType DEF TypeOK
      <3> QED BY <3>1, <3>3 DEF TypeOK
    <2>2. caller' = NoCall /\ pc' \in {"dead", "letters"}
      BY <1>5 DEF ReturnWrote, CancelWrite, Die
    <2> QED BY <1>5, <2>1, <2>2, NoCallType DEF ReturnWrote, TypeOK
  <1>6. CASE ReturnDrain
    <2>1. caller.rd \in Clients
      BY <1>6, CallerRd DEF ReturnDrain, Returning
    <2>2. CASE queue[caller.rd] # <<>>
      <3>1. ConsumeOldestUnit(caller.rd, "drain")
        BY <1>6, <2>2 DEF ReturnDrain
      <3>2. /\ queue' \in [Rudders -> Seq(Unit)]
            /\ done' \in [Units -> Nat]
            /\ pc' = "upcall"
            /\ caller' \in CallType
        BY <2>1, <2>2, <3>1, ConsumeType
      <3> QED BY <1>6, <3>2 DEF ReturnDrain, TypeOK, selectorVars
    <2>3. CASE queue[caller.rd] = <<>>
      <3>1. Upcall("closed", caller.rd) \in CallType
        BY <2>1, UpcallType
      <3> QED BY <1>6, <2>3, <3>1 DEF ReturnDrain, TypeOK, selectorVars
    <2> QED BY <2>2, <2>3
  <1>7. CASE ReturnClosed
    <2>1. caller.rd \in Rudders
      BY <1>7, CallerRd DEF ReturnClosed, Returning, Rudders
    <2> QED BY <1>7, <2>1, NoCallType DEF ReturnClosed, TypeOK, selectorVars
  <1> QED BY <1>1, <1>2, <1>3, <1>4, <1>5, <1>6, <1>7 DEF Return

LEMMA InitType == Init => TypeOK
  <1> SUFFICES ASSUME Init PROVE TypeOK
    OBVIOUS
  <1>1. queue \in [Rudders -> Seq(Unit)] /\ letters \in Seq(LetterType)
    BY FewLetters DEF Init
  <1> QED BY <1>1, NoCallType DEF Init, TypeOK, Rudders

LEMMA NextType == TypeOK /\ [Next]_vars => TypeOK'
  <1> SUFFICES ASSUME TypeOK, [Next]_vars PROVE TypeOK'
    OBVIOUS
  <1>1. CASE Next
    BY <1>1, SelectType, LoopType, HandleType, AcceptType, NotifyType, WroteType,
       ClosedType, LetterStepType, RequestType, ReturnType
       DEF Next, Run, HandleChannel, OnLetter
  <1>2. CASE UNCHANGED vars
    BY <1>2 DEF vars, TypeOK
  <1> QED BY <1>1, <1>2

(* Type correctness of the agent and its multiplexer: queues hold units with *)
(* no more bytes than they were given, letters and upcalls name rudders that *)
(* can receive them, and interest sets stay sets of selector events.         *)
THEOREM TypeCorrect == Spec => []TypeOK
  <1>1. Init => TypeOK
    BY InitType
  <1>2. TypeOK /\ [Next]_vars => TypeOK'
    BY NextType
  <1> QED BY <1>1, <1>2, PTL DEF Spec

-----------------------------------------------------------------------------
(* The inductive invariant under SelectableAreOpen.  A rudder is closed     *)
(* when req_close is called but keeps its state until the ClosedLetter is   *)
(* drained; what ties the two moments together is that the letter stays in  *)
(* the queue, and that the queue is empty whenever the loop is at select.   *)

LetterAt(i, kind) == i \in 1..Len(letters) /\ letters[i].kind = kind

(* Only rudders with a state and an open socket have a key.                 *)
KeysAreOpen == \A r \in Rudders : registered[r] # {} => r \in rudders /\ r \in open

(* A closed rudder that still has its state has its ClosedLetter coming,    *)
(* and a ClosedLetter is about a port or a known client, closed for good.   *)
CloseIsComing ==
  \A r \in rudders : r \notin open => \E i \in 1..Len(letters) : letters[i] = Letter("closed", r)
CloseIsFinal ==
  \A i \in 1..Len(letters) :
    LetterAt(i, "closed") => letters[i].rd \notin open /\ letters[i].rd \in Ports \cup Known

(* An accepted socket is open and not yet known to the multiplexer.         *)
AcceptedAreNew ==
  /\ \A i \in 1..Len(letters) :
       LetterAt(i, "accepted") => origin[letters[i].rd] = "accepted" /\ letters[i].rd \in open
  /\ \A i, j \in 1..Len(letters) :
       LetterAt(i, "accepted") /\ LetterAt(j, "accepted") /\ letters[i].rd = letters[j].rd
         => i = j

(* A rudder passes from unused to known, then to closed, and never back.    *)
Lifecycle ==
  /\ rudders \cap Clients \subseteq Known
  /\ closed \cap Clients \subseteq Known
  /\ closed \cap rudders = {}
  /\ Ports \cap open \subseteq rudders
  /\ caller.kind \in {"drain", "closed"} => caller.rd \in Known \ rudders

(* select runs with no letter pending, and its result is used up before     *)
(* any letter is handled.                                                   *)
Phases ==
  /\ pc = "select" => letters = <<>>
  /\ \A r \in Rudders : selected[r] # {} => pc = "handle" /\ r \in rudders

SelectInv ==
  KeysAreOpen /\ CloseIsComing /\ CloseIsFinal /\ AcceptedAreNew /\ Lifecycle /\ Phases

(* The letter queue after its head is taken, and after letters are added.   *)
LEMMA TailLetters ==
  ASSUME NEW S, NEW q \in Seq(S), q # <<>>
  PROVE  /\ Tail(q) \in Seq(S) /\ Len(q) \in Nat /\ Len(Tail(q)) = Len(q) - 1
         /\ 1 \in 1..Len(q) /\ q[1] = Head(q)
         /\ \A i \in 1..Len(Tail(q)) : i + 1 \in 1..Len(q) /\ Tail(q)[i] = q[i + 1]
         /\ \A i \in 1..Len(q) : i # 1 => i - 1 \in 1..Len(Tail(q)) /\ Tail(q)[i - 1] = q[i]
  OBVIOUS

LEMMA ConcatAt ==
  ASSUME NEW S, NEW a \in Seq(S), NEW b \in Seq(S)
  PROVE  /\ a \o b \in Seq(S) /\ Len(a \o b) = Len(a) + Len(b)
         /\ Len(a) \in Nat /\ Len(b) \in Nat
         /\ \A i \in 1..Len(a) : i \in 1..Len(a \o b) /\ (a \o b)[i] = a[i]
         /\ \A i \in 1..Len(a \o b) : i \notin 1..Len(a) =>
               i - Len(a) \in 1..Len(b) /\ (a \o b)[i] = b[i - Len(a)]
  OBVIOUS

(* Nothing that the letter invariants speak of has changed.                 *)
LEMMA SameLetters ==
  ASSUME SelectInv,
         UNCHANGED <<letters, open, rudders, origin, closed>>
  PROVE  /\ CloseIsComing' /\ CloseIsFinal' /\ AcceptedAreNew'
         /\ caller' = caller \/ caller'.kind \notin {"drain", "closed"} => Lifecycle'
  BY DEF SelectInv, CloseIsComing, CloseIsFinal, AcceptedAreNew, Lifecycle, LetterAt,
         Fresh, Known

(* Letters of other kinds are added.                                        *)
LEMMA MoreLetters ==
  ASSUME SelectInv, TypeOK,
         NEW more \in Seq(LetterType),
         \A i \in 1..Len(more) : more[i].kind \notin {"closed", "accepted"},
         letters' = letters \o more,
         UNCHANGED <<open, rudders, origin>>
  PROVE  CloseIsComing' /\ CloseIsFinal' /\ AcceptedAreNew'
  <1>1. /\ Len(letters') = Len(letters) + Len(more)
        /\ Len(letters) \in Nat /\ Len(more) \in Nat
        /\ \A i \in 1..Len(letters) : i \in 1..Len(letters') /\ letters'[i] = letters[i]
        /\ \A i \in 1..Len(letters') : i \notin 1..Len(letters) =>
              i - Len(letters) \in 1..Len(more) /\ letters'[i] = more[i - Len(letters)]
    BY ConcatAt DEF TypeOK
  <1>2. \A i \in 1..Len(letters') : i \notin 1..Len(letters) =>
              letters'[i].kind \notin {"closed", "accepted"}
    BY <1>1
  <1>3. CloseIsComing'
    BY <1>1 DEF SelectInv, CloseIsComing
  <1>4. CloseIsFinal'
    BY <1>1, <1>2 DEF SelectInv, CloseIsFinal, LetterAt, Known
  <1>5. AcceptedAreNew'
    BY <1>1, <1>2 DEF SelectInv, AcceptedAreNew, LetterAt
  <1> QED BY <1>3, <1>4, <1>5

(* A letter is taken that is not the ClosedLetter of a rudder with a state; *)
(* sockets nothing else speaks of may be closed with it.                    *)
LEMMA FewerLetters ==
  ASSUME SelectInv, TypeOK, letters # <<>>,
         letters' = Tail(letters),
         \/ Head(letters).kind # "closed"
         \/ Rd \notin rudders',
         rudders' \subseteq rudders,
         NEW gone, gone \cap rudders = {}, open' = open \ gone,
         \A i \in 1..Len(letters) : i > 1 /\ LetterAt(i, "accepted") => letters[i].rd \notin gone,
         origin' = origin
  PROVE  CloseIsComing' /\ CloseIsFinal' /\ AcceptedAreNew'
  <1>1. /\ Len(letters) \in Nat /\ Len(letters') = Len(letters) - 1
        /\ letters[1] = Head(letters)
        /\ \A i \in 1..Len(letters') : i + 1 \in 1..Len(letters) /\ letters'[i] = letters[i + 1]
        /\ \A i \in 1..Len(letters) : i # 1 => i - 1 \in 1..Len(letters') /\ letters'[i - 1] = letters[i]
    BY TailLetters DEF TypeOK
  <1>2. ASSUME NEW r \in rudders', r \notin open'
        PROVE  \E i \in 1..Len(letters') : letters'[i] = Letter("closed", r)
    <2>1. PICK i \in 1..Len(letters) : letters[i] = Letter("closed", r)
      BY <1>2 DEF SelectInv, CloseIsComing
    <2>2. i # 1
      BY <1>1, <1>2, <2>1 DEF Letter, Rd
    <2> QED BY <1>1, <2>1, <2>2
  <1>3. CloseIsComing'
    BY <1>2 DEF CloseIsComing
  <1>4. CloseIsFinal'
    BY <1>1 DEF SelectInv, CloseIsFinal, LetterAt, Known
  <1>5. AcceptedAreNew'
    BY <1>1 DEF SelectInv, AcceptedAreNew, LetterAt
  <1> QED BY <1>3, <1>4, <1>5

(* req_close of a rudder that has a state, after k letters were taken; a    *)
(* refused socket may go with it.                                           *)
LEMMA CloseLetters ==
  ASSUME SelectInv, TypeOK,
         NEW k \in {0, 1}, NEW pending \in Seq(LetterType),
         Len(pending) = Len(letters) - k,
         \A i \in 1..Len(pending) : i + k \in 1..Len(letters) /\ pending[i] = letters[i + k],
         \A i \in 1..Len(letters) : i > k => i - k \in 1..Len(pending) /\ pending[i - k] = letters[i],
         k = 1 => letters[1].kind # "closed",
         NEW r \in rudders, NEW gone, gone \cap rudders = {},
         \A i \in 1..Len(letters) : i > k /\ LetterAt(i, "accepted") => letters[i].rd \notin gone,
         open' = open \ (gone \cup {r}),
         letters' = Append(pending, Letter("closed", r)),
         UNCHANGED <<rudders, origin>>
  PROVE  CloseIsComing' /\ CloseIsFinal' /\ AcceptedAreNew'
  <1>1. r \in Rudders /\ r \in Ports \cup Known
    BY DEF TypeOK, SelectInv, Lifecycle, Rudders
  <1>2. Letter("closed", r) \in LetterType
    BY <1>1, LetterIsLetter
  <1>3. /\ Len(letters') = Len(pending) + 1 /\ Len(pending) \in Nat /\ Len(letters) \in Nat
        /\ letters'[Len(letters')] = Letter("closed", r)
        /\ \A i \in 1..Len(pending) : i \in 1..Len(letters') /\ letters'[i] = pending[i]
        /\ \A i \in 1..Len(letters') : i = Len(letters') \/ i \in 1..Len(pending)
    BY <1>2 DEF TypeOK
  <1>4. ASSUME NEW x \in rudders', x \notin open'
        PROVE  \E i \in 1..Len(letters') : letters'[i] = Letter("closed", x)
    <2>1. CASE x = r
      BY <1>3, <2>1
    <2>2. CASE x # r
      <3>1. x \notin open
        BY <1>4, <2>2
      <3>2. PICK i \in 1..Len(letters) : letters[i] = Letter("closed", x)
        BY <1>4, <3>1 DEF SelectInv, CloseIsComing
      <3>3. i > k
        BY <3>2, <1>3 DEF Letter
      <3>4. i - k \in 1..Len(pending) /\ letters'[i - k] = letters[i]
        BY <1>3, <3>3
      <3> QED BY <1>3, <3>2, <3>4
    <2> QED BY <2>1, <2>2
  <1>5. CloseIsComing'
    BY <1>4 DEF CloseIsComing
  <1>6. ASSUME NEW i \in 1..Len(letters'), letters'[i].kind = "closed"
        PROVE  letters'[i].rd \notin open' /\ letters'[i].rd \in Ports \cup Known'
    <2>1. CASE i = Len(letters')
      BY <1>1, <1>3, <2>1 DEF Letter, Known
    <2>2. CASE i \in 1..Len(pending)
      <3>1. /\ i + k \in 1..Len(letters) /\ letters'[i] = letters[i + k]
            /\ LetterAt(i + k, "closed")
        BY <1>3, <1>6, <2>2 DEF LetterAt
      <3>2. letters[i + k].rd \notin open /\ letters[i + k].rd \in Ports \cup Known
        BY <3>1 DEF SelectInv, CloseIsFinal
      <3> QED BY <3>1, <3>2 DEF Known
    <2> QED BY <1>3, <2>1, <2>2
  <1>7. CloseIsFinal'
    BY <1>6 DEF CloseIsFinal, LetterAt
  <1>8. \A i \in 1..Len(letters') : LetterAt(i, "accepted")' =>
           i \in 1..Len(pending) /\ LetterAt(i + k, "accepted") /\ letters'[i] = letters[i + k]
    BY <1>3 DEF LetterAt, Letter
  <1>9. \A i \in 1..Len(letters) : LetterAt(i, "accepted") => letters[i].rd # r
    <2>1. SUFFICES ASSUME NEW i \in 1..Len(letters), LetterAt(i, "accepted"), letters[i].rd = r
                   PROVE FALSE
      OBVIOUS
    <2>2. letters[i] \in LetterType
      BY DEF TypeOK
    <2>3. r \in Clients
      BY <2>1, <2>2 DEF LetterType, LetterAt
    <2> QED BY <2>1, <2>3 DEF SelectInv, AcceptedAreNew, Lifecycle, Known
  <1>10. AcceptedAreNew'
    <2>1. ASSUME NEW i \in 1..Len(letters'), LetterAt(i, "accepted")'
          PROVE  origin'[letters'[i].rd] = "accepted" /\ letters'[i].rd \in open'
      <3>1. /\ i \in 1..Len(pending) /\ LetterAt(i + k, "accepted")
            /\ letters'[i] = letters[i + k]
            /\ i + k \in 1..Len(letters) /\ i + k > k
        BY <1>3, <1>8, <2>1
      <3> QED BY <1>9, <3>1 DEF SelectInv, AcceptedAreNew
    <2>2. ASSUME NEW i \in 1..Len(letters'), NEW j \in 1..Len(letters'),
                 LetterAt(i, "accepted")', LetterAt(j, "accepted")',
                 letters'[i].rd = letters'[j].rd
          PROVE  i = j
      <3>1. /\ LetterAt(i + k, "accepted") /\ letters'[i] = letters[i + k]
            /\ LetterAt(j + k, "accepted") /\ letters'[j] = letters[j + k]
            /\ i + k \in 1..Len(letters) /\ j + k \in 1..Len(letters)
        BY <1>3, <1>8, <2>2
      <3>2. i + k = j + k
        BY <2>2, <3>1 DEF SelectInv, AcceptedAreNew
      <3> QED BY <1>3, <3>2
    <2> QED BY <2>1, <2>2 DEF AcceptedAreNew
  <1> QED BY <1>5, <1>7, <1>10

(* One pass over a client rudder adds only letters of other kinds.          *)
LEMMA ReadWriteLetters ==
  ASSUME TypeOK, NEW r \in Clients, HandleReadWrite(r)
  PROVE  \E more \in Seq(LetterType) :
           /\ letters' = letters \o more
           /\ \A i \in 1..Len(more) : more[i].kind \notin {"closed", "accepted"}
  <1> DEFINE S == {Letter("read", r), Letter("error", r), Letter("wrote", r)}
  <1>1a. S \subseteq LetterType
    BY LetterIsLetter
  <1>1b. \A l \in S : l.kind \notin {"closed", "accepted"}
    BY DEF Letter
  <1>1. S \subseteq LetterType /\ \A l \in S : l.kind \notin {"closed", "accepted"}
    BY <1>1a, <1>1b
  <1>2. \A k \in {"read", "error", "wrote"} : Letter(k, r) \in S
    OBVIOUS
  <1>3. r \in Rudders /\ queue[r] \in Seq(Unit)
    BY DEF TypeOK, Rudders
  <1> HIDE DEF S
  <1>4. ASSUME NEW more \in Seq(S), letters' = letters \o more
        PROVE  \E m \in Seq(LetterType) :
                 /\ letters' = letters \o m
                 /\ \A i \in 1..Len(m) : m[i].kind \notin {"closed", "accepted"}
    <2>1. more \in Seq(LetterType)
      BY <1>1
    <2>2. \A i \in 1..Len(more) : more[i] \in S
      OBVIOUS
    <2> QED BY <1>1, <1>4, <2>1, <2>2
  <1>5. PICK got \in ReadLetters(r) :
          IF "W" \notin selected[r]
          THEN letters' = letters \o got /\ UNCHANGED <<queue, registered>>
          ELSE IF queue[r] = <<>>
          THEN /\ letters' = letters \o got
               /\ registered' = [registered EXCEPT ![r] = WriteOff(@)]
               /\ UNCHANGED queue
          ELSE \E w \in Passes(queue[r]) : \E failed \in SendFailure(queue[r], w) :
               /\ letters' = letters \o got
                               \o [i \in 1..Len(w) |-> Letter("wrote", r)]
                               \o (IF failed THEN <<Letter("error", r)>> ELSE <<>>)
               /\ queue' = [queue EXCEPT ![r] = SentBytes(@, w)]
               /\ UNCHANGED registered
    BY DEF HandleReadWrite
  <1>6. got \in Seq(S)
    BY <1>2, <1>5, FewLetters, Zenon DEF ReadLetters
  <1>7. CASE letters' = letters \o got
    BY <1>4, <1>6, <1>7
  <1>8. ASSUME NEW w \in Passes(queue[r]), NEW failed \in SendFailure(queue[r], w),
               letters' = letters \o got
                               \o [i \in 1..Len(w) |-> Letter("wrote", r)]
                               \o (IF failed THEN <<Letter("error", r)>> ELSE <<>>)
        PROVE  \E more \in Seq(S) : letters' = letters \o more
    <2> DEFINE wrote == [i \in 1..Len(w) |-> Letter("wrote", r)]
               failure == IF failed THEN <<Letter("error", r)>> ELSE <<>>
    <2>1. Len(w) \in Nat
      BY <1>3, SentBytesType
    <2>2. wrote \in Seq(S) /\ failure \in Seq(S)
      BY <1>2, <2>1
    <2>3. letters' = letters \o got \o wrote \o failure
      BY <1>8
    <2> HIDE DEF wrote, failure
    <2>4. got \o wrote \in Seq(S)
      BY <1>6, <2>2, ConcatLetters
    <2>5. (got \o wrote) \o failure \in Seq(S)
      BY <2>2, <2>4, ConcatLetters
    <2>6. letters \in Seq(LetterType)
      BY DEF TypeOK
    <2>7. letters' = letters \o ((got \o wrote) \o failure)
      <3>1. (letters \o got) \o wrote = letters \o (got \o wrote)
        BY <1>1, <1>6, <2>2, <2>6, ConcatAssoc
      <3>2. (letters \o (got \o wrote)) \o failure = letters \o ((got \o wrote) \o failure)
        BY <1>1, <2>2, <2>4, <2>6, ConcatAssoc
      <3> QED BY <2>3, <3>1, <3>2
    <2> QED BY <2>5, <2>7
  <1> QED BY <1>4, <1>5, <1>7, <1>8

(* A new client's AcceptedLetter.                                           *)
LEMMA AcceptLetters ==
  ASSUME TypeOK, SelectInv, NEW p \in Ports, Phases',
         \E c \in Fresh :
           /\ letters' = Append(letters, [kind |-> "accepted", rd |-> c, port |-> p])
           /\ open' = open \cup {c}
           /\ origin' = [origin EXCEPT ![c] = "accepted"],
         UNCHANGED <<rudders, closed, caller, registered>>
  PROVE  SelectInv'
  <1>1. PICK c \in Fresh :
           /\ letters' = Append(letters, [kind |-> "accepted", rd |-> c, port |-> p])
           /\ open' = open \cup {c}
           /\ origin' = [origin EXCEPT ![c] = "accepted"]
    OBVIOUS
  <1>2. c \in Clients /\ origin[c] = "unused" /\ c \notin rudders /\ c \notin Ports
    BY SpiderAssumption DEF Fresh, SelectInv, Lifecycle, Known, SpiderAssumption
  <1>3. [kind |-> "accepted", rd |-> c, port |-> p] \in LetterType
    BY <1>2 DEF LetterType
  <1>4. /\ Len(letters) \in Nat /\ Len(letters') = Len(letters) + 1
        /\ \A i \in 1..Len(letters) : i \in 1..Len(letters') /\ letters'[i] = letters[i]
        /\ letters'[Len(letters')] = [kind |-> "accepted", rd |-> c, port |-> p]
        /\ \A i \in 1..Len(letters') : i = Len(letters') \/ i \in 1..Len(letters)
    BY <1>1, <1>3 DEF TypeOK
  <1>5. CloseIsComing'
    <2>1. ASSUME NEW r \in rudders, r \notin open
          PROVE  \E i \in 1..Len(letters') : letters'[i] = Letter("closed", r)
      BY <1>4, <2>1 DEF SelectInv, CloseIsComing
    <2> QED BY <1>1, <2>1 DEF CloseIsComing
  <1>6. CloseIsFinal'
    BY <1>1, <1>2, <1>4 DEF SelectInv, CloseIsFinal, LetterAt, Known, TypeOK
  <1>7. \A i \in 1..Len(letters) : LetterAt(i, "accepted") =>
           letters[i].rd # c /\ origin[letters[i].rd] = "accepted" /\ letters[i].rd \in open
    BY <1>2 DEF SelectInv, AcceptedAreNew
  <1>8. \A i \in 1..Len(letters) : LetterAt(i, "accepted")' => LetterAt(i, "accepted")
    BY <1>4 DEF LetterAt
  <1>9. AcceptedAreNew'
    <2>1. ASSUME NEW i \in 1..Len(letters'), LetterAt(i, "accepted")'
          PROVE  origin'[letters'[i].rd] = "accepted" /\ letters'[i].rd \in open'
      BY <1>1, <1>2, <1>4, <1>7, <1>8, <2>1 DEF TypeOK
    <2>2. ASSUME NEW i \in 1..Len(letters'), NEW j \in 1..Len(letters'),
                 LetterAt(i, "accepted")', LetterAt(j, "accepted")',
                 letters'[i].rd = letters'[j].rd
          PROVE  i = j
      BY <1>4, <1>7, <1>8, <2>2 DEF SelectInv, AcceptedAreNew
    <2> QED BY <2>1, <2>2 DEF AcceptedAreNew
  <1>10. Lifecycle'
    BY <1>1, <1>2 DEF SelectInv, Lifecycle, Known, TypeOK
  <1>11. KeysAreOpen'
    BY <1>1 DEF SelectInv, KeysAreOpen
  <1> QED BY <1>5, <1>6, <1>9, <1>10, <1>11 DEF SelectInv

LEMMA SelectStep ==
  ASSUME TypeOK, SelectInv, Select PROVE SelectInv'
  <1>1. CloseIsComing' /\ CloseIsFinal' /\ AcceptedAreNew' /\ Lifecycle'
    BY SameLetters DEF Select
  <1>2. \A r \in Rudders : Switched[r] # {} => r \in rudders /\ r \in open
    <2>1. TAKE r \in Rudders
    <2>2. CASE r \in Ports /\ IsBusy # busy
      BY <2>2 DEF Select, SwitchFails, SelectInv, Lifecycle
    <2>3. CASE ~(r \in Ports /\ IsBusy # busy)
      BY <2>3 DEF Switched, SelectInv, KeysAreOpen
    <2> QED BY <2>2, <2>3
  <1>3. KeysAreOpen'
    <2>1. \A r \in Rudders : registered'[r] # {} => Switched[r] # {} \/ r \in rudders \cap open
      BY DEF Select, Registered
    <2> QED BY <1>2, <2>1 DEF KeysAreOpen, Select
  <1>4. Phases'
    BY <1>2 DEF Select, Phases, TypeOK
  <1> QED BY <1>1, <1>3, <1>4 DEF SelectInv

LEMMA LoopStep ==
  ASSUME TypeOK, SelectInv,
         SelectFails \/ StopLoop \/ EndReceive \/ EndLetters \/ ReqShutdown
  PROVE  SelectInv'
  <1>1. /\ UNCHANGED <<letters, open, rudders, origin, closed, registered, selected>>
        /\ caller' = caller \/ caller'.kind \in {"none", "timer"}
    BY DEF SelectFails, StopLoop, EndReceive, EndLetters, ReqShutdown, selectorVars, Die,
           NoCall, Upcall
  <1>2. CloseIsComing' /\ CloseIsFinal' /\ AcceptedAreNew' /\ Lifecycle'
    BY <1>1, SameLetters
  <1>3. KeysAreOpen'
    BY <1>1 DEF SelectInv, KeysAreOpen
  <1>4. Phases'
    BY <1>1 DEF SelectInv, Phases, SelectFails, StopLoop, EndReceive, EndLetters, ReqShutdown, Die
  <1> QED BY <1>2, <1>3, <1>4 DEF SelectInv

LEMMA HandleStep ==
  ASSUME TypeOK, SelectInv, NEW r \in Rudders,
         HandleConnectable(r) \/ HandleAcceptable(r) \/ HandleReadWrite(r)
  PROVE  SelectInv'
  <1>1. Handling(r) /\ pc' = "handle" /\ UNCHANGED <<rudders, closed, caller>>
    BY DEF HandleConnectable, HandleAcceptable, HandleReadWrite, Handling
  <1>2. Phases'
    BY <1>1 DEF Handling, SelectInv, Phases, TypeOK
  <1>3. CASE HandleConnectable(r)
    <2>1. UNCHANGED <<open, origin>>
      BY <1>3 DEF HandleConnectable
    <2>2. PICK failure \in {<<>>, <<Letter("error", r)>>} :
            letters' = letters \o failure \o <<Letter("connected", r)>>
      BY <1>3 DEF HandleConnectable
    <2> DEFINE more == failure \o <<Letter("connected", r)>>
    <2>3. Letter("error", r) \in LetterType /\ Letter("connected", r) \in LetterType
      BY <1>3, LetterIsLetter DEF HandleConnectable, TypeOK
    <2>4. more \in Seq(LetterType) /\ letters' = letters \o more
          /\ \A i \in 1..Len(more) : more[i].kind \notin {"closed", "accepted"}
      <3>1. CASE failure = <<>>
        BY <2>2, <2>3, <3>1 DEF TypeOK, Letter
      <3>2. CASE failure = <<Letter("error", r)>>
        BY <2>2, <2>3, <3>2 DEF TypeOK, Letter
      <3> QED BY <3>1, <3>2
    <2> HIDE DEF more
    <2>5. CloseIsComing' /\ CloseIsFinal' /\ AcceptedAreNew'
      BY <1>1, <2>1, <2>4, MoreLetters
    <2>6. KeysAreOpen'
      BY <1>1, <1>3, <2>1 DEF HandleConnectable, SelectInv, KeysAreOpen, WriteOff, TypeOK
    <2> QED BY <1>1, <1>2, <2>1, <2>5, <2>6 DEF SelectInv, Lifecycle, Known
  <1>4. CASE HandleReadWrite(r)
    <2>1. UNCHANGED <<open, origin>> /\ r \in Clients
      BY <1>4 DEF HandleReadWrite
    <2>2. \E more \in Seq(LetterType) :
             /\ letters' = letters \o more
             /\ \A i \in 1..Len(more) : more[i].kind \notin {"closed", "accepted"}
      BY <1>4, <2>1, ReadWriteLetters
    <2>3. CloseIsComing' /\ CloseIsFinal' /\ AcceptedAreNew'
      BY <1>1, <2>1, <2>2, MoreLetters
    <2>4. registered' = registered \/ registered' = [registered EXCEPT ![r] = WriteOff(@)]
      BY <1>4 DEF HandleReadWrite
    <2>5. KeysAreOpen'
      BY <1>1, <2>1, <2>4 DEF SelectInv, KeysAreOpen, WriteOff, TypeOK
    <2> QED BY <1>1, <1>2, <2>1, <2>3, <2>5 DEF SelectInv, Lifecycle, Known
  <1>5. CASE HandleAcceptable(r)
    <2>1. registered' = registered
      BY <1>5 DEF HandleAcceptable, selectorVars
    <2>2. CASE UNCHANGED <<letters, open, origin>>
      <3>1. CloseIsComing' /\ CloseIsFinal' /\ AcceptedAreNew' /\ Lifecycle'
        BY <1>1, <2>2, SameLetters
      <3>2. KeysAreOpen'
        BY <1>1, <2>1, <2>2 DEF SelectInv, KeysAreOpen
      <3> QED BY <1>2, <3>1, <3>2 DEF SelectInv
    <2>3. CASE \E c \in Fresh :
                 /\ letters' = Append(letters, [kind |-> "accepted", rd |-> c, port |-> r])
                 /\ open' = open \cup {c}
                 /\ origin' = [origin EXCEPT ![c] = "accepted"]
      <3>1. r \in Ports /\ UNCHANGED <<rudders, closed, caller, registered>>
        BY <1>1, <1>5, <2>1 DEF HandleAcceptable
      <3> QED BY <1>2, <2>3, <3>1, AcceptLetters
    <2> QED BY <1>5, <2>2, <2>3 DEF HandleAcceptable
  <1> QED BY <1>3, <1>4, <1>5

(* Outside the receive phase nothing is selected, and nothing becomes so.   *)
LEMMA PhasesStay ==
  ASSUME SelectInv, pc # "handle", pc' \notin {"select", "handle"}, selected' = selected
  PROVE  Phases'
  BY DEF SelectInv, Phases

(* The letter that is about to be handled.                                  *)
LEMMA AcceptedHead ==
  ASSUME TypeOK, SelectInv, letters # <<>>, Head(letters).kind = "accepted"
  PROVE  /\ Rd \in Clients \ Known /\ Rd \in open /\ origin[Rd] = "accepted"
         /\ \A i \in 1..Len(letters) :
              i > 1 /\ LetterAt(i, "accepted") => letters[i].rd # Rd
  <1>1. LetterAt(1, "accepted") /\ letters[1].rd = Rd
    BY TailLetters DEF TypeOK, LetterAt, Rd
  <1>2. origin[Rd] = "accepted" /\ Rd \in open
    BY <1>1 DEF SelectInv, AcceptedAreNew, LetterAt
  <1>3. Rd \in Clients
    BY LetterRd
  <1>4. ASSUME NEW i \in 1..Len(letters), i > 1, LetterAt(i, "accepted"), letters[i].rd = Rd
        PROVE  FALSE
    <2>1. i = 1
      BY <1>1, <1>4 DEF SelectInv, AcceptedAreNew, LetterAt
    <2> QED BY <1>4, <2>1
  <1> QED BY <1>2, <1>3, <1>4 DEF Known

LEMMA ClosedHead ==
  ASSUME TypeOK, SelectInv, letters # <<>>, Head(letters).kind = "closed"
  PROVE  Rd \notin open /\ Rd \in Ports \cup Known
  <1>1. LetterAt(1, "closed") /\ letters[1].rd = Rd
    BY TailLetters DEF TypeOK, LetterAt, Rd
  <1> QED BY <1>1 DEF SelectInv, CloseIsFinal, LetterAt

(* req_close, whether the rudder still has a state or not.                  *)
LEMMA ReqCloseStep ==
  ASSUME TypeOK, SelectInv, NEW r \in Rudders,
         NEW pending, ReqClose(r, pending),
         \/ pending = letters
         \/ letters # <<>> /\ pending = Tail(letters) /\ Head(letters).kind # "closed",
         UNCHANGED <<rudders, origin>>
  PROVE  KeysAreOpen' /\ CloseIsComing' /\ CloseIsFinal' /\ AcceptedAreNew'
  <1>1. KeysAreOpen'
    BY DEF ReqClose, SelectInv, KeysAreOpen, TypeOK
  <1>2. CASE r \notin rudders
    <2>1. letters' = pending /\ UNCHANGED open
      BY <1>2 DEF ReqClose
    <2>2. CASE pending = letters
      <3>1. UNCHANGED <<letters, open, rudders, origin>>
        BY <2>1, <2>2
      <3> QED BY <1>1, <3>1
              DEF SelectInv, CloseIsComing, CloseIsFinal, AcceptedAreNew, LetterAt, Known
    <2>3. CASE letters # <<>> /\ pending = Tail(letters) /\ Head(letters).kind # "closed"
      <3> DEFINE gone == {}
      <3>1. open' = open \ gone /\ gone \cap rudders = {} /\ \A x : x \notin gone
        BY <2>1
      <3>2. rudders' \subseteq rudders
        OBVIOUS
      <3> HIDE DEF gone
      <3> QED BY <1>1, <2>1, <2>3, <3>1, <3>2, FewerLetters
    <2> QED BY <1>1, <2>2, <2>3
  <1>3. CASE r \in rudders
    <2> DEFINE gone == {}
    <2>1. /\ letters' = Append(pending, Letter("closed", r))
          /\ open' = open \ (gone \cup {r}) /\ gone \cap rudders = {} /\ \A x : x \notin gone
      BY <1>3 DEF ReqClose
    <2> HIDE DEF gone
    <2>2. CASE pending = letters
      <3> DEFINE k == 0
      <3>1. /\ pending \in Seq(LetterType) /\ Len(letters) \in Nat
            /\ Len(pending) = Len(letters) - k /\ k \in {0, 1} /\ k # 1
            /\ \A i \in 1..Len(pending) : i + k \in 1..Len(letters) /\ pending[i] = letters[i + k]
            /\ \A i \in 1..Len(letters) : i > k => i - k \in 1..Len(pending) /\ pending[i - k] = letters[i]
        BY <2>2 DEF TypeOK
      <3> HIDE DEF k
      <3>2. CloseIsComing' /\ CloseIsFinal' /\ AcceptedAreNew'
        BY <1>3, <2>1, <3>1, CloseLetters
      <3> QED BY <1>1, <3>2
    <2>3. CASE letters # <<>> /\ pending = Tail(letters) /\ Head(letters).kind # "closed"
      <3>1. /\ pending \in Seq(LetterType) /\ Len(letters) \in Nat
            /\ Len(pending) = Len(letters) - 1
            /\ letters[1].kind # "closed"
            /\ \A i \in 1..Len(pending) : i + 1 \in 1..Len(letters) /\ pending[i] = letters[i + 1]
            /\ \A i \in 1..Len(letters) : i > 1 => i - 1 \in 1..Len(pending) /\ pending[i - 1] = letters[i]
        BY <2>3, TailLetters DEF TypeOK
      <3>2. CloseIsComing' /\ CloseIsFinal' /\ AcceptedAreNew'
        BY <1>3, <2>1, <3>1, CloseLetters
      <3> QED BY <1>1, <3>2
    <2> QED BY <2>2, <2>3
  <1> QED BY <1>1, <1>2, <1>3

LEMMA AcceptStep ==
  ASSUME TypeOK, SelectInv, OnAccepted \/ OnAcceptRefused PROVE SelectInv'
  <1>1. /\ letters # <<>> /\ Head(letters).kind = "accepted" /\ pc = "letters"
        /\ UNCHANGED <<pc, selected, closed, caller>>
    BY DEF OnAccepted, OnAcceptRefused, Received
  <1>2. /\ Rd \in Clients \ Known /\ Rd \in open /\ Rd \in Rudders /\ Rd \notin rudders
        /\ origin[Rd] = "accepted" /\ Head(letters).port \in Ports
        /\ \A i \in 1..Len(letters) : i > 1 /\ LetterAt(i, "accepted") => letters[i].rd # Rd
    BY <1>1, AcceptedHead, LetterRd DEF SelectInv, Lifecycle, Rudders
  <1>3. Phases'
    BY <1>1, PhasesStay
  <1>4. CASE OnAccepted
    <2>1. /\ letters' = Tail(letters) /\ rudders' = rudders \cup {Rd}
          /\ origin' = [origin EXCEPT ![Rd] = "inbound"]
          /\ UNCHANGED <<open, registered>>
      BY <1>4 DEF OnAccepted
    <2>2. Known \subseteq Known' /\ Rd \in Known' /\ \A c \in Clients : c # Rd => origin'[c] = origin[c]
      BY <1>2, <2>1 DEF Known, TypeOK
    <2>3. /\ Len(letters) \in Nat
          /\ \A i \in 1..Len(letters') : i + 1 \in 1..Len(letters) /\ letters'[i] = letters[i + 1]
          /\ \A i \in 1..Len(letters) : i # 1 => i - 1 \in 1..Len(letters') /\ letters'[i - 1] = letters[i]
          /\ letters[1] = Head(letters) /\ Len(letters') \in Nat
      BY <1>1, <2>1, TailLetters DEF TypeOK
    <2>4. CloseIsComing'
      <3>1. ASSUME NEW r \in rudders', r \notin open'
            PROVE  \E i \in 1..Len(letters') : letters'[i] = Letter("closed", r)
        <4>1. PICK i \in 1..Len(letters) : letters[i] = Letter("closed", r)
          BY <1>2, <2>1, <3>1 DEF SelectInv, CloseIsComing
        <4>2. i # 1
          BY <1>1, <2>3, <4>1 DEF Letter
        <4> QED BY <2>3, <4>1, <4>2
      <3> QED BY <3>1 DEF CloseIsComing
    <2>5. CloseIsFinal'
      BY <2>1, <2>2, <2>3 DEF SelectInv, CloseIsFinal, LetterAt
    <2>6. AcceptedAreNew'
      <3>1. ASSUME NEW i \in 1..Len(letters'), LetterAt(i, "accepted")'
            PROVE  /\ i + 1 \in 1..Len(letters) /\ letters'[i] = letters[i + 1]
                   /\ LetterAt(i + 1, "accepted") /\ letters'[i].rd # Rd
                   /\ letters'[i].rd \in Clients
        <4>1. /\ i + 1 \in 1..Len(letters) /\ letters'[i] = letters[i + 1] /\ i + 1 > 1
              /\ LetterAt(i + 1, "accepted")
          BY <2>3, <3>1 DEF LetterAt
        <4>2. letters[i + 1] \in LetterType
          BY <4>1 DEF TypeOK
        <4> QED BY <1>2, <4>1, <4>2 DEF LetterType, LetterAt
      <3>2. ASSUME NEW i \in 1..Len(letters'), LetterAt(i, "accepted")'
            PROVE  origin'[letters'[i].rd] = "accepted" /\ letters'[i].rd \in open'
        BY <2>1, <2>2, <3>1, <3>2 DEF SelectInv, AcceptedAreNew
      <3>3. ASSUME NEW i \in 1..Len(letters'), NEW j \in 1..Len(letters'),
                   LetterAt(i, "accepted")', LetterAt(j, "accepted")',
                   letters'[i].rd = letters'[j].rd
            PROVE  i = j
        <4>1. i + 1 = j + 1
          BY <3>1, <3>3 DEF SelectInv, AcceptedAreNew
        <4> QED BY <2>3, <4>1
      <3> QED BY <3>2, <3>3 DEF AcceptedAreNew
    <2>7. Lifecycle'
      BY <1>1, <1>2, <2>1, <2>2, SpiderAssumption DEF SelectInv, Lifecycle, SpiderAssumption
    <2>8. KeysAreOpen'
      BY <2>1 DEF SelectInv, KeysAreOpen
    <2> QED BY <1>3, <2>4, <2>5, <2>6, <2>7, <2>8 DEF SelectInv
  <1>5. CASE OnAcceptRefused
    <2> DEFINE p == Head(letters).port
               gone == {Rd}
    <2>1. UNCHANGED <<rudders, origin>>
      BY <1>5 DEF OnAcceptRefused
    <2>2. open' \subseteq open
      BY <1>5 DEF OnAcceptRefused
    <2>3. Lifecycle'
      BY <1>1, <2>1, <2>2 DEF SelectInv, Lifecycle, Known
    <2>4. /\ gone \cap rudders = {}
          /\ \A i \in 1..Len(letters) : i > 1 /\ LetterAt(i, "accepted") => letters[i].rd \notin gone
      BY <1>2
    <2>5. CASE p \in rudders
      <3>1. /\ open' = open \ (gone \cup {p}) /\ registered' = [registered EXCEPT ![p] = {}]
            /\ letters' = Append(Tail(letters), Letter("closed", p))
        BY <1>5, <2>5 DEF OnAcceptRefused
      <3>2. KeysAreOpen'
        BY <1>2, <2>1, <3>1 DEF SelectInv, KeysAreOpen, TypeOK
      <3>3. /\ Tail(letters) \in Seq(LetterType) /\ Len(letters) \in Nat
            /\ Len(Tail(letters)) = Len(letters) - 1
            /\ letters[1].kind # "closed"
            /\ \A i \in 1..Len(Tail(letters)) : i + 1 \in 1..Len(letters) /\ Tail(letters)[i] = letters[i + 1]
            /\ \A i \in 1..Len(letters) : i > 1 =>
                  i - 1 \in 1..Len(Tail(letters)) /\ Tail(letters)[i - 1] = letters[i]
        BY <1>1, TailLetters DEF TypeOK
      <3> HIDE DEF gone, p
      <3>4. CloseIsComing' /\ CloseIsFinal' /\ AcceptedAreNew'
        BY <2>1, <2>4, <2>5, <3>1, <3>3, CloseLetters
      <3> QED BY <1>3, <2>3, <3>2, <3>4 DEF SelectInv
    <2>6. CASE p \notin rudders
      <3>1. /\ open' = open \ gone /\ letters' = Tail(letters) /\ registered' = registered
            /\ Head(letters).kind # "closed" /\ rudders' \subseteq rudders
        BY <1>1, <1>5, <2>1, <2>6 DEF OnAcceptRefused
      <3>2. KeysAreOpen'
        BY <1>2, <2>1, <3>1 DEF SelectInv, KeysAreOpen
      <3> HIDE DEF gone
      <3>3. CloseIsComing' /\ CloseIsFinal' /\ AcceptedAreNew'
        BY <1>1, <2>1, <2>4, <3>1, FewerLetters
      <3> QED BY <1>3, <2>3, <3>2, <3>3 DEF SelectInv
    <2> QED BY <2>5, <2>6
  <1> QED BY <1>4, <1>5

(* A letter is taken and nothing is opened or closed.                       *)
LEMMA TakeLetter ==
  ASSUME TypeOK, SelectInv, letters # <<>>, letters' = Tail(letters),
         Head(letters).kind # "closed" \/ Rd \notin rudders',
         rudders' \subseteq rudders, UNCHANGED <<open, origin>>
  PROVE  CloseIsComing' /\ CloseIsFinal' /\ AcceptedAreNew'
  <1> DEFINE gone == {}
  <1>1. open' = open \ gone /\ gone \cap rudders = {} /\ \A x : x \notin gone
    OBVIOUS
  <1> HIDE DEF gone
  <1> QED BY <1>1, FewerLetters

LEMMA LetterStep ==
  ASSUME TypeOK, SelectInv, DropLetter \/ OnConnected \/ OnRead \/ OnWrote
  PROVE  SelectInv'
  <1>1. /\ letters # <<>> /\ letters' = Tail(letters) /\ pc = "letters"
        /\ pc' \in {"letters", "upcall", "dead"}
        /\ UNCHANGED <<open, rudders, origin, closed, registered, selected>>
        /\ caller' = caller \/ caller'.kind \in {"none", "connected", "read", "wrote"}
    BY DEF DropLetter, OnConnected, OnRead, OnNotify, OnWrote, Received, Die, NoCall,
           Upcall, ConsumeOldestUnit, selectorVars
  <1>2. Head(letters).kind # "closed" \/ Rd \notin rudders'
    BY <1>1 DEF DropLetter, OnConnected, OnRead, OnNotify, OnWrote, Received, SelectInv, Lifecycle
  <1>3. rudders' \subseteq rudders
    BY <1>1
  <1>4. CloseIsComing' /\ CloseIsFinal' /\ AcceptedAreNew'
    BY <1>1, <1>2, <1>3, TakeLetter
  <1>5. Lifecycle' /\ KeysAreOpen'
    BY <1>1 DEF SelectInv, Lifecycle, KeysAreOpen, Known
  <1>6. Phases'
    BY <1>1, PhasesStay
  <1> QED BY <1>4, <1>5, <1>6 DEF SelectInv

LEMMA ClosedStep ==
  ASSUME TypeOK, SelectInv, OnClosed PROVE SelectInv'
  <1>1. /\ letters # <<>> /\ letters' = Tail(letters) /\ pc = "letters"
        /\ pc' \in {"letters", "upcall"} /\ rudders' = rudders \ {Rd}
        /\ Head(letters).kind = "closed"
        /\ UNCHANGED <<open, origin, registered, selected>>
    BY DEF OnClosed, Received, ConsumeOldestUnit, selectorVars
  <1>2. Rd \notin open /\ Rd \in Ports \cup Known /\ Rd \in Rudders
    BY <1>1, ClosedHead, LetterRd
  <1>3. Rd \notin rudders' /\ rudders' \subseteq rudders
    BY <1>1
  <1>4. CloseIsComing' /\ CloseIsFinal' /\ AcceptedAreNew'
    BY <1>1, <1>3, TakeLetter
  <1>5. KeysAreOpen'
    BY <1>1, <1>2 DEF SelectInv, KeysAreOpen
  <1>6. /\ closed' \subseteq closed \cup (Ports \cap {Rd})
        /\ \/ caller' = caller
           \/ Rd \notin Ports /\ caller'.rd = Rd
    BY DEF OnClosed, ConsumeOldestUnit, Upcall
  <1>7. Lifecycle'
    BY <1>1, <1>2, <1>6, SpiderAssumption DEF SelectInv, Lifecycle, Known, SpiderAssumption
  <1>8. Phases'
    BY <1>1, PhasesStay
  <1> QED BY <1>4, <1>5, <1>7, <1>8 DEF SelectInv

LEMMA ErrorStep ==
  ASSUME TypeOK, SelectInv, OnError PROVE SelectInv'
  <1>1. /\ letters # <<>> /\ pc = "letters" /\ Head(letters).kind # "closed"
        /\ UNCHANGED <<pc, rudders, origin, closed, caller, selected>>
        /\ ReqClose(Rd, Tail(letters))
    BY DEF OnError, Received
  <1>2. Rd \in Rudders
    BY <1>1, LetterRd
  <1>3. KeysAreOpen' /\ CloseIsComing' /\ CloseIsFinal' /\ AcceptedAreNew'
    BY <1>1, <1>2, ReqCloseStep
  <1>4. Lifecycle'
    BY <1>1 DEF SelectInv, Lifecycle, Known, ReqClose
  <1>5. Phases'
    BY <1>1, PhasesStay
  <1> QED BY <1>3, <1>4, <1>5 DEF SelectInv

LEMMA RequestStep ==
  ASSUME TypeOK, SelectInv, Request PROVE SelectInv'
  <1> SUFFICES ASSUME NEW r \in Clients,
                      \/ \E u \in Units : ReqWrite(r, u)
                      \/ ReqRead(r) \/ UpperReqClose(r) \/ ReqConnect(r)
               PROVE SelectInv'
    BY DEF Request
  <1>1. pc = "upcall" /\ UNCHANGED <<pc, selected, caller, closed>>
    BY DEF ReqWrite, ReqRead, UpperReqClose, ReqConnect, Serving
  <1>2. Phases'
    BY <1>1, PhasesStay
  <1>3. CASE (\E u \in Units : ReqWrite(r, u)) \/ ReqRead(r)
    <2>1. UNCHANGED <<letters, open, rudders, origin, registered>>
      BY <1>3 DEF ReqWrite, ReqRead
    <2>2. CloseIsComing' /\ CloseIsFinal' /\ AcceptedAreNew' /\ Lifecycle'
      BY <1>1, <2>1, SameLetters
    <2>3. KeysAreOpen'
      BY <2>1 DEF SelectInv, KeysAreOpen
    <2> QED BY <1>2, <2>2, <2>3 DEF SelectInv
  <1>4. CASE UpperReqClose(r)
    <2>1. r \in Rudders /\ ReqClose(r, letters) /\ UNCHANGED <<rudders, origin>>
      BY <1>4 DEF UpperReqClose, Rudders
    <2>2. KeysAreOpen' /\ CloseIsComing' /\ CloseIsFinal' /\ AcceptedAreNew'
      BY <2>1, ReqCloseStep
    <2>3. Lifecycle'
      BY <1>1, <2>1 DEF SelectInv, Lifecycle, Known, ReqClose
    <2> QED BY <1>2, <2>2, <2>3 DEF SelectInv
  <1>5. CASE ReqConnect(r)
    <2>1. /\ origin[r] = "unused" /\ origin' = [origin EXCEPT ![r] = "outbound"]
          /\ rudders' = rudders \cup {r} /\ open' = open \cup {r}
          /\ UNCHANGED <<letters, registered>>
      BY <1>5 DEF ReqConnect, Fresh
    <2>2. r \notin Ports /\ r \notin Known /\ r \in Known' /\ Known \subseteq Known'
      BY <2>1, SpiderAssumption DEF Known, TypeOK, SpiderAssumption
    <2>3. CloseIsComing'
      BY <2>1 DEF SelectInv, CloseIsComing
    <2>4. CloseIsFinal'
      BY <2>1, <2>2 DEF SelectInv, CloseIsFinal, LetterAt
    <2>5. \A i \in 1..Len(letters) : LetterAt(i, "accepted") =>
             letters[i].rd # r /\ origin[letters[i].rd] = "accepted" /\ letters[i].rd \in Clients
      <3>1. TAKE i \in 1..Len(letters)
      <3>2. letters[i] \in LetterType
        BY DEF TypeOK
      <3> QED BY <2>1, <3>2 DEF SelectInv, AcceptedAreNew, LetterAt, LetterType
    <2>6. AcceptedAreNew'
      BY <2>1, <2>5 DEF SelectInv, AcceptedAreNew, LetterAt, TypeOK
    <2>7. Lifecycle'
      BY <1>1, <2>1, <2>2 DEF SelectInv, Lifecycle
    <2>8. KeysAreOpen'
      BY <2>1 DEF SelectInv, KeysAreOpen
    <2> QED BY <1>2, <2>3, <2>4, <2>6, <2>7, <2>8 DEF SelectInv
  <1> QED BY <1>3, <1>4, <1>5

LEMMA ReturnStep ==
  ASSUME TypeOK, SelectInv, Return PROVE SelectInv'
  <1>1. /\ pc = "upcall" /\ pc' \in {"upcall", "letters", "dead"}
        /\ UNCHANGED <<rudders, origin, selected>>
    BY DEF Return, ReturnTimer, ReturnContinue, ReturnClose, ReturnSuspend, ReturnWrote,
           ReturnDrain, ReturnClosed, Returning, CancelRead, CancelWrite, Die,
           ConsumeOldestUnit, selectorVars
  <1>2. Phases'
    BY <1>1, PhasesStay
  <1>3. CASE ReturnClose
    <2>1. /\ ReqClose(caller.rd, letters) /\ closed' = closed /\ caller' = NoCall
          /\ caller.rd \in Rudders
      BY <1>3, CallerRd DEF ReturnClose, Rudders
    <2>2. KeysAreOpen' /\ CloseIsComing' /\ CloseIsFinal' /\ AcceptedAreNew'
      BY <1>1, <2>1, ReqCloseStep
    <2>3. Lifecycle'
      BY <1>1, <2>1 DEF SelectInv, Lifecycle, Known, ReqClose, NoCall, Upcall
    <2> QED BY <1>2, <2>2, <2>3 DEF SelectInv
  <1>4. CASE ~ReturnClose
    <2>1. /\ UNCHANGED <<letters, open>>
          /\ \A r \in Rudders : registered'[r] # {} => registered[r] # {}
      BY <1>4 DEF Return, ReturnTimer, ReturnContinue, ReturnSuspend, ReturnWrote,
           ReturnDrain, ReturnClosed, CancelRead, CancelWrite, Die, WriteOff,
           ConsumeOldestUnit, selectorVars, TypeOK
    <2>2. CloseIsComing' /\ CloseIsFinal' /\ AcceptedAreNew'
      BY <1>1, <2>1 DEF SelectInv, CloseIsComing, CloseIsFinal, AcceptedAreNew, LetterAt, Known
    <2>3. KeysAreOpen'
      BY <1>1, <2>1 DEF SelectInv, KeysAreOpen
    <2>4. /\ closed' = closed \/ (caller.kind = "closed" /\ closed' = closed \cup {caller.rd})
          /\ \/ caller' = NoCall
             \/ caller.kind = "drain" /\ caller'.rd = caller.rd
      BY <1>4 DEF Return, ReturnTimer, ReturnContinue, ReturnSuspend, ReturnWrote,
           ReturnDrain, ReturnClosed, Returning, CancelRead, CancelWrite, Die, Upcall,
           ConsumeOldestUnit
    <2>5. Lifecycle'
      BY <1>1, <2>1, <2>4 DEF SelectInv, Lifecycle, Known, NoCall, Upcall
    <2> QED BY <1>2, <2>2, <2>3, <2>5 DEF SelectInv
  <1> QED BY <1>3, <1>4

LEMMA InitSelect == Init => SelectInv
  BY SpiderAssumption
     DEF Init, SelectInv, KeysAreOpen, CloseIsComing, CloseIsFinal, AcceptedAreNew, Lifecycle,
         Phases, LetterAt, Known, NoCall, Upcall, Rudders, SpiderAssumption

LEMMA NextSelect == TypeOK /\ SelectInv /\ [Next]_vars => SelectInv'
  <1> SUFFICES ASSUME TypeOK, SelectInv, [Next]_vars PROVE SelectInv'
    OBVIOUS
  <1>1. CASE Next
    BY <1>1, SelectStep, LoopStep, HandleStep, AcceptStep, LetterStep, ClosedStep,
       ErrorStep, RequestStep, ReturnStep
       DEF Next, Run, HandleChannel, OnLetter
  <1>2. CASE UNCHANGED vars
    BY <1>2 DEF vars, SelectInv, KeysAreOpen, CloseIsComing, CloseIsFinal, AcceptedAreNew,
                Lifecycle, Phases, LetterAt, Known
  <1> QED BY <1>1, <1>2

(* req_close closes a rudder at once and forgets its state only when the    *)
(* ClosedLetter is drained; still, for any number of rudders, ships and     *)
(* letters, no closed rudder has a state or a selector key when the loop is *)
(* back at select, and _handle_channel never misses the state of a key.     *)
THEOREM NoStaleKeys == Spec => []SelectableAreOpen
  <1>1. TypeOK /\ SelectInv => SelectableAreOpen
    <2>1. SUFFICES ASSUME TypeOK, SelectInv PROVE SelectableAreOpen
      OBVIOUS
    <2>2. pc = "select" => rudders \subseteq open
      BY <2>1 DEF SelectInv, Phases, CloseIsComing
    <2> QED BY <2>1, <2>2 DEF SelectInv, Phases, KeysAreOpen, SelectableAreOpen
  <1>2. Init => TypeOK /\ SelectInv
    BY InitType, InitSelect
  <1>3. TypeOK /\ SelectInv /\ [Next]_vars => (TypeOK /\ SelectInv)'
    BY NextType, NextSelect
  <1> QED BY <1>1, <1>2, <1>3, PTL DEF Spec

(* How many letters of q are l.                                             *)
At(q, l) == {i \in DOMAIN q : q[i] = l}
Times(q, l) == Cardinality(At(q, l))
Wrote(r) == Letter("wrote", r)

(* The letters of a queue can be counted.                                  *)
LEMMA AtFinite ==
  ASSUME NEW S, NEW q \in Seq(S), NEW l
  PROVE  IsFiniteSet(At(q, l)) /\ Times(q, l) \in Nat /\ Times(q, l) <= Len(q)
  <1>1. Len(q) \in Nat /\ DOMAIN q = 1..Len(q)
    OBVIOUS
  <1>2. IsFiniteSet(1..Len(q)) /\ Cardinality(1..Len(q)) = Len(q)
    BY <1>1, FS_Interval
  <1>3. At(q, l) \subseteq 1..Len(q)
    BY <1>1 DEF At
  <1>4. IsFiniteSet(At(q, l)) /\ Times(q, l) <= Len(q)
    BY <1>2, <1>3, FS_Subset DEF Times
  <1> QED BY <1>4, FS_CardinalityType DEF Times

(* A count of zero says that there is none.                                *)
LEMMA NoneIsZero ==
  ASSUME NEW S, NEW q \in Seq(S), NEW l
  PROVE  Times(q, l) = 0 <=> \A i \in 1..Len(q) : q[i] # l
  <1>1. DOMAIN q = 1..Len(q)
    OBVIOUS
  <1>2. Times(q, l) = 0 <=> At(q, l) = {}
    BY AtFinite, FS_EmptySet DEF Times
  <1> QED BY <1>1, <1>2 DEF At

(* Letters behind, none of which is l.                                      *)
LEMMA TimesMore ==
  ASSUME NEW S, NEW a \in Seq(S), NEW b \in Seq(S), NEW l,
         \A i \in 1..Len(b) : b[i] # l
  PROVE  Times(a \o b, l) = Times(a, l)
  <1>1. DOMAIN a = 1..Len(a) /\ DOMAIN (a \o b) = 1..Len(a \o b)
    BY ConcatAt
  <1>2. At(a \o b, l) = At(a, l)
    BY <1>1, ConcatAt DEF At
  <1> QED BY <1>2 DEF Times

(* A different letter at the end.                                          *)
LEMMA TimesAppend ==
  ASSUME NEW S, NEW a \in Seq(S), NEW x \in S, NEW l, x # l
  PROVE  Times(Append(a, x), l) = Times(a, l)
  <1>1. /\ Len(Append(a, x)) = Len(a) + 1 /\ Len(a) \in Nat
        /\ DOMAIN a = 1..Len(a) /\ DOMAIN Append(a, x) = 1..Len(a) + 1
        /\ \A i \in 1..Len(a) : Append(a, x)[i] = a[i]
        /\ Append(a, x)[Len(a) + 1] = x
    OBVIOUS
  <1>2. At(Append(a, x), l) = At(a, l)
    BY <1>1 DEF At
  <1> QED BY <1>2 DEF Times

(* The length of an interval.                                              *)
LEMMA Span ==
  ASSUME NEW m \in Nat, NEW n \in Nat
  PROVE  IsFiniteSet(m + 1 .. m + n) /\ Cardinality(m + 1 .. m + n) = n
  <1>1. m + 1 \in Int /\ m + n \in Int
    OBVIOUS
  <1>2. /\ IsFiniteSet(m + 1 .. m + n)
        /\ Cardinality(m + 1 .. m + n) = IF m + 1 > m + n THEN 0 ELSE (m + n) - (m + 1) + 1
    BY <1>1, FS_Interval
  <1> QED BY <1>2

(* Letters behind, when none of those before was l.                         *)
LEMMA TimesNew ==
  ASSUME NEW S, NEW a \in Seq(S), NEW b \in Seq(S), NEW l,
         \A i \in 1..Len(a) : a[i] # l
  PROVE  Times(a \o b, l) <= Len(b)
  <1>1. /\ Len(a) \in Nat /\ Len(b) \in Nat /\ Len(a \o b) = Len(a) + Len(b)
        /\ DOMAIN (a \o b) = 1..Len(a \o b)
        /\ \A i \in 1..Len(a) : (a \o b)[i] = a[i]
    BY ConcatAt
  <1>2. At(a \o b, l) \subseteq Len(a) + 1 .. Len(a) + Len(b)
    BY <1>1 DEF At
  <1>3. /\ IsFiniteSet(Len(a) + 1 .. Len(a) + Len(b))
        /\ Cardinality(Len(a) + 1 .. Len(a) + Len(b)) = Len(b)
    BY <1>1, Span
  <1> QED BY <1>2, <1>3, FS_Subset DEF Times

(* The head goes.                                                           *)
LEMMA TimesTail ==
  ASSUME NEW S, NEW q \in Seq(S), q # <<>>, NEW l
  PROVE  /\ Times(Tail(q), l) \in Nat
         /\ Times(Tail(q), l) <= Times(q, l)
         /\ Head(q) = l => Times(Tail(q), l) <= Times(q, l) - 1
  <1>1. /\ Tail(q) \in Seq(S) /\ Len(q) \in Nat /\ Len(Tail(q)) \in Nat
        /\ DOMAIN q = 1..Len(q) /\ DOMAIN Tail(q) = 1..Len(Tail(q))
        /\ q[1] = Head(q) /\ 1 \in 1..Len(q)
        /\ \A i \in 1..Len(Tail(q)) : i + 1 \in 1..Len(q) /\ Tail(q)[i] = q[i + 1]
    BY TailLetters
  <1> DEFINE up == [i \in At(Tail(q), l) |-> i + 1]
  <1>2. up \in Injection(At(Tail(q), l), At(q, l) \ {1})
    <2>1. \A i \in At(Tail(q), l) : i \in Nat /\ i >= 1 /\ i + 1 \in At(q, l) \ {1}
      BY <1>1 DEF At
    <2> QED BY <2>1 DEF Injection, IsInjective
  <1>3. IsFiniteSet(At(q, l)) /\ Times(q, l) \in Nat
    BY AtFinite
  <1>4. /\ IsFiniteSet(At(q, l) \ {1})
        /\ Cardinality(At(q, l) \ {1}) = IF 1 \in At(q, l) THEN Times(q, l) - 1 ELSE Times(q, l)
    BY <1>3, FS_RemoveElement DEF Times
  <1>5. Times(Tail(q), l) <= Cardinality(At(q, l) \ {1})
    BY <1>2, <1>4, FS_Injection DEF Times
  <1>6. Times(Tail(q), l) \in Nat
    BY <1>1, AtFinite
  <1>7. Head(q) = l => 1 \in At(q, l)
    BY <1>1 DEF At
  <1> QED BY <1>3, <1>4, <1>5, <1>6, <1>7

(* The letters of a write come from its one pass, and the queue covers      *)
(* them; a rudder that is not yet known has none.                           *)
WroteFit == \A r \in rudders : Times(letters, Wrote(r)) <= Len(queue[r])
WroteKnown == \A r \in Clients \ Known : Times(letters, Wrote(r)) = 0
NotYetWrote == \A r \in Rudders : selected[r] # {} => Times(letters, Wrote(r)) = 0

(* A unit stands in one place until its listener is called.                 *)
QueuedOnce ==
  /\ \A r \in Rudders : \A i \in 1..Len(queue[r]) :
       queue[r][i].id \in asked /\ done[queue[r][i].id] = 0
  /\ \A r, s \in Rudders : \A i \in 1..Len(queue[r]), j \in 1..Len(queue[s]) :
       queue[r][i].id = queue[s][j].id => r = s /\ i = j
AnsweredOrQueued ==
  /\ \A u \in asked : \/ done[u] = 1
                      \/ \E r \in Rudders : \E i \in 1..Len(queue[r]) : queue[r][i].id = u
  /\ \A u \in Units \ asked : done[u] = 0

(* Units wait at clients with a state, and at the one that is drained.      *)
Draining(r) == pc = "upcall" /\ caller = Upcall("drain", r)
WaitAtOpen ==
  \A r \in Rudders : queue[r] # <<>> =>
    r \in Clients \ closed /\ (r \in rudders \/ Draining(r))

UnitsInv == WroteFit /\ WroteKnown /\ NotYetWrote /\ QueuedOnce /\ AnsweredOrQueued /\ WaitAtOpen

(* What a WroteLetter is about.                                            *)
LEMMA WroteIsLetter == \A r, l : l = Wrote(r) => l.kind = "wrote" /\ l.rd = r
  BY DEF Wrote, Letter

(* No letter of a write is added.                                           *)
Fewer(now) == \A r \in Rudders : Times(now, Wrote(r)) \in Nat
                               /\ Times(now, Wrote(r)) <= Times(letters, Wrote(r))

(* The letters stay.                                                       *)
LEMMA FewerSame ==
  ASSUME TypeOK PROVE Fewer(letters)
  <1>1. letters \in Seq(LetterType)
    BY DEF TypeOK
  <1>2. \A r \in Rudders : Times(letters, Wrote(r)) \in Nat
    BY <1>1, AtFinite
  <1> QED BY <1>2 DEF Fewer

(* The first letter is taken.                                              *)
LEMMA FewerTail ==
  ASSUME TypeOK, letters # <<>> PROVE Fewer(Tail(letters))
  <1>1. letters \in Seq(LetterType)
    BY DEF TypeOK
  <1>2. \A r \in Rudders : /\ Times(Tail(letters), Wrote(r)) \in Nat
                           /\ Times(Tail(letters), Wrote(r)) <= Times(letters, Wrote(r))
    BY <1>1, TimesTail
  <1> QED BY <1>2 DEF Fewer

(* A letter of another kind is added.                                      *)
LEMMA FewerAppend ==
  ASSUME NEW q \in Seq(LetterType), Fewer(q), NEW x \in LetterType, x.kind # "wrote"
  PROVE  Fewer(Append(q, x))
  <1>1. \A r \in Rudders : Times(Append(q, x), Wrote(r)) = Times(q, Wrote(r))
    <2>1. TAKE r \in Rudders
    <2>2. x # Wrote(r)
      BY WroteIsLetter
    <2> QED BY <2>2, TimesAppend
  <1> QED BY <1>1 DEF Fewer

(* Several of other kinds are added.                                       *)
LEMMA FewerMore ==
  ASSUME TypeOK, NEW more \in Seq(LetterType), \A i \in 1..Len(more) : more[i].kind # "wrote"
  PROVE  Fewer(letters \o more)
  <1>1. letters \in Seq(LetterType)
    BY DEF TypeOK
  <1>2. \A r \in Rudders : Times(letters \o more, Wrote(r)) = Times(letters, Wrote(r))
    <2>1. TAKE r \in Rudders
    <2>2. \A i \in 1..Len(more) : more[i] # Wrote(r)
      BY WroteIsLetter
    <2> QED BY <1>1, <2>2, TimesMore
  <1> QED BY <1>2, FewerSame DEF Fewer

(* req_close adds a ClosedLetter at most.                                  *)
LEMMA FewerClose ==
  ASSUME TypeOK, NEW r \in Rudders, NEW pending \in Seq(LetterType), Fewer(pending),
         ReqClose(r, pending)
  PROVE  Fewer(letters')
  <1>1. Letter("closed", r) \in LetterType /\ Letter("closed", r).kind # "wrote"
    BY LetterIsLetter DEF Letter
  <1>2. letters' = pending \/ letters' = Append(pending, Letter("closed", r))
    BY DEF ReqClose
  <1>3. Fewer(Append(pending, Letter("closed", r)))
    BY <1>1, FewerAppend
  <1> QED BY <1>2, <1>3

(* Only one pass over a client rudder adds such letters.                    *)
LEMMA OthersFewer ==
  ASSUME TypeOK, Next, \A r \in Rudders : ~HandleReadWrite(r)
  PROVE  Fewer(letters')
  <1>1. letters \in Seq(LetterType)
    BY DEF TypeOK
  <1>2. CASE letters' = letters
    BY <1>2, FewerSame
  <1>3. CASE letters # <<>> /\ letters' = Tail(letters)
    BY <1>3, FewerTail
  <1>4. ASSUME NEW r \in Rudders, HandleConnectable(r) PROVE Fewer(letters')
    <2>1. r \in Clients
      BY <1>4 DEF HandleConnectable, TypeOK
    <2>2. PICK failure \in {<<>>, <<Letter("error", r)>>} :
            letters' = letters \o failure \o <<Letter("connected", r)>>
      BY <1>4 DEF HandleConnectable
    <2> DEFINE more == failure \o <<Letter("connected", r)>>
    <2>3. Letter("error", r) \in LetterType /\ Letter("connected", r) \in LetterType
      BY <2>1, LetterIsLetter
    <2>4. more \in Seq(LetterType) /\ letters' = letters \o more
          /\ \A i \in 1..Len(more) : more[i].kind # "wrote"
      <3>1. CASE failure = <<>>
        BY <1>1, <2>2, <2>3, <3>1 DEF Letter
      <3>2. CASE failure = <<Letter("error", r)>>
        BY <1>1, <2>2, <2>3, <3>2 DEF Letter
      <3> QED BY <3>1, <3>2
    <2> HIDE DEF more
    <2> QED BY <2>4, FewerMore
  <1>5. ASSUME NEW p \in Rudders, HandleAcceptable(p), letters' # letters PROVE Fewer(letters')
    <2>1. PICK c \in Fresh : letters' = Append(letters, [kind |-> "accepted", rd |-> c, port |-> p])
      BY <1>5 DEF HandleAcceptable
    <2>2. [kind |-> "accepted", rd |-> c, port |-> p] \in LetterType
      BY <1>5, <2>1 DEF LetterType, HandleAcceptable, Fresh
    <2> QED BY <1>1, <2>1, <2>2, FewerSame, FewerAppend
  <1>6. CASE OnAcceptRefused
    <2> DEFINE p == Head(letters).port
    <2>1. letters # <<>> /\ p \in Rudders /\ Tail(letters) \in Seq(LetterType)
      BY <1>6, LetterRd DEF OnAcceptRefused, Received, Rudders
    <2>2. letters' = Tail(letters) \/ letters' = Append(Tail(letters), Letter("closed", p))
      BY <1>6 DEF OnAcceptRefused
    <2>3. Letter("closed", p) \in LetterType /\ Letter("closed", p).kind # "wrote"
      BY <2>1, LetterIsLetter DEF Letter
    <2> HIDE DEF p
    <2> QED BY <2>1, <2>2, <2>3, FewerTail, FewerAppend
  <1>7. CASE OnError
    <2>1. letters # <<>> /\ Rd \in Rudders /\ ReqClose(Rd, Tail(letters)) /\ Tail(letters) \in Seq(LetterType)
      BY <1>7, LetterRd DEF OnError, Received
    <2> QED BY <2>1, FewerTail, FewerClose
  <1>8. ASSUME NEW r \in Clients, UpperReqClose(r) PROVE Fewer(letters')
    BY <1>1, <1>8, FewerSame, FewerClose DEF UpperReqClose, Rudders
  <1>9. CASE ReturnClose
    <2>1. ReqClose(caller.rd, letters) /\ caller.rd \in Rudders
      BY <1>9, CallerRd DEF ReturnClose, Rudders
    <2> QED BY <1>1, <2>1, FewerSame, FewerClose
  <1>10. CASE OnLetter
    <2>1. CASE DropLetter \/ OnAccepted \/ OnConnected \/ OnRead \/ OnWrote \/ OnClosed
      BY <1>3, <2>1 DEF DropLetter, OnAccepted, OnConnected, OnRead, OnNotify, OnWrote, OnClosed, Received
    <2> QED BY <1>6, <1>7, <1>10, <2>1 DEF OnLetter
  <1>11. CASE Select \/ SelectFails \/ StopLoop \/ EndReceive \/ EndLetters \/ ReqShutdown
    BY <1>2, <1>11 DEF Select, SelectFails, StopLoop, EndReceive, EndLetters, ReqShutdown
  <1>12. CASE HandleChannel
    BY <1>2, <1>4, <1>5, <1>12 DEF HandleChannel
  <1>13. CASE Request
    BY <1>2, <1>8, <1>13 DEF Request, ReqWrite, ReqRead, ReqConnect
  <1>14. CASE Return
    BY <1>2, <1>9, <1>14 DEF Return, ReturnTimer, ReturnContinue, ReturnSuspend, ReturnWrote,
       ReturnDrain, ReturnClosed
  <1> QED BY <1>10, <1>11, <1>12, <1>13, <1>14 DEF Next, Run

(* A count is a number.                                                    *)
LEMMA TimesType ==
  ASSUME TypeOK PROVE \A l : Times(letters, l) \in Nat
  BY AtFinite DEF TypeOK

(* What the counts say stays true when no such letter is added and no      *)
(* queue of a rudder with a state gets shorter.                            *)
LEMMA CountsKeep ==
  ASSUME TypeOK, UnitsInv, Fewer(letters'), Known \subseteq Known',
         rudders' \subseteq rudders \cup (Clients \ Known),
         \A r \in rudders' : Len(queue'[r]) \in Nat /\ Len(queue[r]) <= Len(queue'[r]),
         \A r \in Rudders : selected'[r] # {} => selected[r] # {}
  PROVE  WroteFit' /\ WroteKnown' /\ NotYetWrote'
  <1>1. \A r \in Rudders : /\ Times(letters', Wrote(r)) \in Nat
                           /\ Times(letters', Wrote(r)) <= Times(letters, Wrote(r))
    BY DEF Fewer
  <1>2. \A r \in Rudders : Times(letters, Wrote(r)) \in Nat /\ Len(queue[r]) \in Nat
    BY TimesType DEF TypeOK
  <1>3. rudders' \subseteq Rudders
    BY DEF TypeOK, Rudders
  <1>4. WroteFit'
    <2>1. ASSUME NEW r \in rudders' PROVE Times(letters', Wrote(r)) <= Len(queue'[r])
      <3>1. r \in Rudders /\ (r \in rudders \/ r \in Clients \ Known)
        BY <1>3
      <3>2. Times(letters, Wrote(r)) <= Len(queue[r])
        BY <1>2, <3>1 DEF UnitsInv, WroteFit, WroteKnown
      <3> QED BY <1>1, <1>2, <3>1, <3>2
    <2> QED BY <2>1 DEF WroteFit, Wrote
  <1>5. WroteKnown'
    <2>1. ASSUME NEW r \in Clients \ Known' PROVE Times(letters', Wrote(r)) = 0
      BY <1>1 DEF UnitsInv, WroteKnown, Rudders
    <2> QED BY <2>1 DEF WroteKnown, Wrote
  <1>6. NotYetWrote'
    <2>1. ASSUME NEW r \in Rudders, selected'[r] # {} PROVE Times(letters', Wrote(r)) = 0
      BY <1>1, <2>1 DEF UnitsInv, NotYetWrote
    <2> QED BY <2>1 DEF NotYetWrote, Wrote
  <1> QED BY <1>4, <1>5, <1>6

(* Only these take a unit, queue one or send a part of one.                 *)
Moves == \/ \E r \in Rudders : HandleReadWrite(r)
         \/ OnWrote \/ OnClosed \/ ReturnDrain
         \/ \E r \in Clients, u \in Units : ReqWrite(r, u)

(* What the other steps leave alone.                                       *)
LEMMA OthersKeep ==
  ASSUME TypeOK, SelectInv, Next, ~Moves
  PROVE  /\ UNCHANGED <<queue, done, asked>>
         /\ rudders \subseteq rudders' /\ rudders' \subseteq rudders \cup (Clients \ Known)
         /\ Known \subseteq Known'
         /\ \A r \in Rudders : Draining(r) => Draining(r)'
         /\ closed' = closed \/ (caller.kind = "closed" /\ closed' = closed \cup {caller.rd})
         /\ ~Select => \A r \in Rudders : selected'[r] # {} => selected[r] # {}
  <1>1. CASE Select \/ SelectFails \/ StopLoop \/ EndReceive \/ EndLetters \/ ReqShutdown
    BY <1>1 DEF Select, SelectFails, StopLoop, EndReceive, EndLetters, ReqShutdown, Draining, Known
  <1>2. ASSUME NEW r \in Rudders, HandleConnectable(r) \/ HandleAcceptable(r)
        PROVE  /\ UNCHANGED <<queue, done, asked, rudders, closed>> /\ pc = "handle"
               /\ Known \subseteq Known'
               /\ \A x \in Rudders : selected'[x] # {} => selected[x] # {}
    <2>1. selected' = [selected EXCEPT ![r] = {}] /\ pc = "handle"
      BY <1>2 DEF HandleConnectable, HandleAcceptable, Handling
    <2>2. UNCHANGED <<queue, done, asked, rudders, closed>>
      BY <1>2 DEF HandleConnectable, HandleAcceptable, selectorVars
    <2>3. Known \subseteq Known'
      BY <1>2 DEF HandleConnectable, HandleAcceptable, Known, Fresh, TypeOK
    <2> QED BY <2>1, <2>2, <2>3 DEF TypeOK
  <1>3. CASE HandleChannel
    BY <1>2, <1>3 DEF HandleChannel, Moves, Draining
  <1>4. CASE OnAccepted
    <2>1. Rd \in Clients \ Known /\ pc = "letters"
      BY <1>4, AcceptedHead DEF OnAccepted, Received
    <2>2. /\ rudders' = rudders \cup {Rd} /\ origin' = [origin EXCEPT ![Rd] = "inbound"]
          /\ UNCHANGED <<queue, done, asked, closed, selected>>
      BY <1>4 DEF OnAccepted
    <2>3. Known \subseteq Known'
      BY <2>1, <2>2 DEF Known, TypeOK
    <2> QED BY <2>1, <2>2, <2>3 DEF Draining
  <1>5. CASE OnAcceptRefused \/ OnError \/ DropLetter \/ OnConnected \/ OnRead
    <2>1. UNCHANGED <<queue, done, asked, closed, selected, origin, rudders>> /\ pc = "letters"
      BY <1>5 DEF OnAcceptRefused, OnError, DropLetter, OnConnected, OnRead, OnNotify, Received, selectorVars
    <2> QED BY <2>1 DEF Draining, Known
  <1>6. ASSUME NEW r \in Clients, ReqRead(r) \/ UpperReqClose(r) \/ ReqConnect(r)
        PROVE  /\ UNCHANGED <<queue, done, asked, closed, selected, pc, caller>>
               /\ rudders \subseteq rudders' /\ rudders' \subseteq rudders \cup (Clients \ Known)
               /\ Known \subseteq Known'
    <2>1. UNCHANGED <<queue, done, asked, closed, selected, pc, caller>>
      BY <1>6 DEF ReqRead, UpperReqClose, ReqConnect
    <2>2. CASE ReqConnect(r)
      BY <2>1, <2>2 DEF ReqConnect, Fresh, Known, TypeOK
    <2>3. CASE ReqRead(r) \/ UpperReqClose(r)
      BY <2>3 DEF ReqRead, UpperReqClose, Known
    <2> QED BY <1>6, <2>1, <2>2, <2>3
  <1>7. CASE Request
    BY <1>6, <1>7 DEF Request, Moves, Draining
  <1>8. CASE ReturnTimer \/ ReturnContinue \/ ReturnClose \/ ReturnSuspend \/ ReturnWrote \/ ReturnClosed
    <2>1. /\ UNCHANGED <<queue, done, asked, selected, origin, rudders>>
          /\ closed' = closed \/ (caller.kind = "closed" /\ closed' = closed \cup {caller.rd})
      BY <1>8 DEF ReturnTimer, ReturnContinue, ReturnClose, ReturnSuspend, ReturnWrote, ReturnClosed,
         Returning, selectorVars
    <2>2. caller.kind # "drain"
      BY <1>8 DEF ReturnTimer, ReturnContinue, ReturnClose, ReturnSuspend, ReturnWrote, ReturnClosed, Returning
    <2> QED BY <2>1, <2>2 DEF Draining, Known, Upcall
  <1> QED BY <1>1, <1>3, <1>4, <1>5, <1>7, <1>8 DEF Next, Run, OnLetter, Return, Moves

(* The other steps keep the invariant.                                     *)
LEMMA OthersUnits ==
  ASSUME TypeOK, SelectInv, UnitsInv, Next, ~Moves
  PROVE  UnitsInv'
  <1>1. /\ UNCHANGED <<queue, done, asked>>
        /\ rudders \subseteq rudders' /\ rudders' \subseteq rudders \cup (Clients \ Known)
        /\ Known \subseteq Known'
        /\ \A r \in Rudders : Draining(r) => Draining(r)'
        /\ closed' = closed \/ (caller.kind = "closed" /\ closed' = closed \cup {caller.rd})
        /\ ~Select => \A r \in Rudders : selected'[r] # {} => selected[r] # {}
    BY OthersKeep
  <1>2. Fewer(letters')
    BY OthersFewer DEF Moves
  <1>3. QueuedOnce' /\ AnsweredOrQueued'
    BY <1>1 DEF UnitsInv, QueuedOnce, AnsweredOrQueued
  <1>4. ASSUME NEW r \in Rudders, queue[r] # <<>>
        PROVE  r \in Clients \ closed' /\ (r \in rudders' \/ Draining(r)')
    <2>1. r \in Clients \ closed /\ (r \in rudders \/ Draining(r))
      BY <1>4 DEF UnitsInv, WaitAtOpen
    <2>2. caller.kind = "closed" => r # caller.rd
      BY <2>1 DEF SelectInv, Lifecycle, Draining, Upcall
    <2> QED BY <1>1, <2>1, <2>2
  <1>5. WaitAtOpen'
    BY <1>1, <1>4 DEF WaitAtOpen
  <1>6. \A r \in rudders' : Len(queue'[r]) \in Nat /\ Len(queue[r]) <= Len(queue'[r])
    BY <1>1 DEF TypeOK, Rudders
  <1>7. CASE ~Select
    <2>1. WroteFit' /\ WroteKnown' /\ NotYetWrote'
      BY <1>1, <1>2, <1>6, <1>7, CountsKeep
    <2> QED BY <1>3, <1>5, <2>1 DEF UnitsInv
  <1>8. CASE Select
    <2>1. letters = <<>> /\ letters' = <<>>
      BY <1>8 DEF Select, SelectInv, Phases
    <2>2. \A l : Times(letters', l) = 0
      BY <2>1, FS_EmptySet DEF Times, At
    <2>3. WroteFit' /\ WroteKnown' /\ NotYetWrote'
      BY <1>6, <2>2 DEF WroteFit, WroteKnown, NotYetWrote
    <2> QED BY <1>3, <1>5, <2>3 DEF UnitsInv
  <1> QED BY <1>7, <1>8

(* A unit that is queued, and where.                                        *)
LEMMA HeadUnit ==
  ASSUME TypeOK, NEW r \in Rudders, queue[r] # <<>>
  PROVE  /\ 1 \in 1..Len(queue[r]) /\ Head(queue[r]) = queue[r][1]
         /\ queue[r][1].id \in Units
         /\ Len(queue[r]) \in Nat /\ Len(Tail(queue[r])) = Len(queue[r]) - 1
         /\ \A i \in 1..Len(Tail(queue[r])) : i + 1 \in 1..Len(queue[r]) /\ Tail(queue[r])[i] = queue[r][i + 1]
         /\ \A i \in 1..Len(queue[r]) : i # 1 =>
              i - 1 \in 1..Len(Tail(queue[r])) /\ Tail(queue[r])[i - 1] = queue[r][i]
  <1>1. queue[r] \in Seq(Unit)
    BY DEF TypeOK
  <1>2. queue[r][1] \in Unit
    BY <1>1
  <1>3. queue[r][1].id \in Units
    BY <1>2 DEF Unit
  <1> QED BY <1>1, <1>3, TailLetters

(* The unit at the head is answered and is nowhere else.                    *)
LEMMA Consumed ==
  ASSUME TypeOK, UnitsInv, NEW r \in Rudders, queue[r] # <<>>, NEW kind,
         ConsumeOldestUnit(r, kind), asked' = asked
  PROVE  QueuedOnce' /\ AnsweredOrQueued'
  <1> DEFINE u == queue[r][1].id
  <1>1. /\ queue' = [queue EXCEPT ![r] = Tail(@)]
        /\ done' = [done EXCEPT ![u] = @ + 1] /\ u \in Units /\ u \in asked /\ done[u] = 0
    BY HeadUnit DEF ConsumeOldestUnit, UnitsInv, QueuedOnce
  <1>2. done'[u] = 1 /\ \A v \in Units : v # u => done'[v] = done[v]
    BY <1>1 DEF TypeOK
  <1>3. queue'[r] = Tail(queue[r]) /\ \A s \in Rudders : s # r => queue'[s] = queue[s]
    BY <1>1 DEF TypeOK
  (* Where a unit stands now, it stood before, one place further back.       *)
  <1> DEFINE was(s, i) == IF s = r THEN i + 1 ELSE i
  <1>4. ASSUME NEW s \in Rudders, NEW i \in 1..Len(queue'[s])
        PROVE  /\ was(s, i) \in 1..Len(queue[s]) /\ queue'[s][i] = queue[s][was(s, i)]
               /\ s = r => was(s, i) # 1
    <2>1. CASE s = r
      <3>1. i \in 1..Len(Tail(queue[r])) /\ queue'[s] = Tail(queue[r])
        BY <1>3, <1>4, <2>1
      <3>2. i + 1 \in 1..Len(queue[r]) /\ Tail(queue[r])[i] = queue[r][i + 1] /\ i + 1 # 1
        BY <3>1, HeadUnit
      <3> QED BY <2>1, <3>1, <3>2
    <2>2. CASE s # r
      BY <1>3, <1>4, <2>2
    <2> QED BY <2>1, <2>2
  <1> HIDE DEF was
  <1>5. ASSUME NEW s \in Rudders, NEW i \in 1..Len(queue'[s])
        PROVE  queue'[s][i].id \in asked /\ queue'[s][i].id # u
    <2>1. queue[s][was(s, i)].id \in asked
      BY <1>4 DEF UnitsInv, QueuedOnce
    <2>2. queue[s][was(s, i)].id # u
      BY <1>4, HeadUnit DEF UnitsInv, QueuedOnce
    <2> QED BY <1>4, <2>1, <2>2
  <1>6. ASSUME NEW s \in Rudders, NEW i \in 1..Len(queue'[s])
        PROVE  done'[queue'[s][i].id] = 0
    <2>1. done[queue[s][was(s, i)].id] = 0
      BY <1>4 DEF UnitsInv, QueuedOnce
    <2> QED BY <1>2, <1>4, <1>5, <2>1 DEF TypeOK
  <1>7. ASSUME NEW s \in Rudders, NEW x \in Rudders,
               NEW i \in 1..Len(queue'[s]), NEW j \in 1..Len(queue'[x]),
               queue'[s][i].id = queue'[x][j].id
        PROVE  s = x /\ i = j
    <2>1. /\ was(s, i) \in 1..Len(queue[s]) /\ queue'[s][i] = queue[s][was(s, i)]
          /\ was(x, j) \in 1..Len(queue[x]) /\ queue'[x][j] = queue[x][was(x, j)]
      BY <1>4
    <2>2. queue[s][was(s, i)].id = queue[x][was(x, j)].id
      BY <1>7, <2>1
    <2>3. s = x /\ was(s, i) = was(x, j)
      BY <2>1, <2>2 DEF UnitsInv, QueuedOnce
    <2>4. i \in Nat /\ j \in Nat
      BY <1>3, HeadUnit DEF TypeOK
    <2> QED BY <2>3, <2>4 DEF was
  <1>8. QueuedOnce'
    BY <1>5, <1>6, <1>7 DEF QueuedOnce
  <1>9. ASSUME NEW v \in asked, v # u
        PROVE  done'[v] = 1 \/ \E s \in Rudders : \E i \in 1..Len(queue'[s]) : queue'[s][i].id = v
    <2>1. CASE done[v] = 1
      BY <1>2, <1>9, <2>1 DEF TypeOK
    <2>2. CASE \E s \in Rudders : \E i \in 1..Len(queue[s]) : queue[s][i].id = v
      <3>0. PICK s \in Rudders : \E i \in 1..Len(queue[s]) : queue[s][i].id = v
        BY <2>2
      <3>1. PICK i \in 1..Len(queue[s]) : queue[s][i].id = v
        BY <3>0
      <3>2. CASE s = r
        <4>1. i # 1 /\ i \in 1..Len(queue[r])
          BY <1>9, <3>1, <3>2
        <4>2. i - 1 \in 1..Len(Tail(queue[r])) /\ Tail(queue[r])[i - 1] = queue[r][i]
          BY <4>1, HeadUnit
        <4>3. i - 1 \in 1..Len(queue'[r]) /\ queue'[r][i - 1].id = v
          BY <1>3, <3>1, <3>2, <4>2
        <4> QED BY <4>3
      <3>3. CASE s # r
        BY <1>3, <3>1, <3>3
      <3> QED BY <3>2, <3>3
    <2> QED BY <2>1, <2>2 DEF UnitsInv, AnsweredOrQueued
  <1>10. \A v \in Units \ asked : done'[v] = 0
    BY <1>1, <1>2 DEF UnitsInv, AnsweredOrQueued
  <1>11. AnsweredOrQueued'
    BY <1>2, <1>9, <1>10 DEF AnsweredOrQueued
  <1> QED BY <1>8, <1>11

(* A pass keeps every unit where it is.                                     *)
LEMMA UnitsStay ==
  ASSUME TypeOK, UnitsInv, UNCHANGED <<done, asked>>,
         \A r \in Rudders : Len(queue'[r]) = Len(queue[r]),
         \A r \in Rudders : \A i \in 1..Len(queue[r]) : queue'[r][i].id = queue[r][i].id
  PROVE  QueuedOnce' /\ AnsweredOrQueued'
  <1>1. QueuedOnce'
    BY DEF UnitsInv, QueuedOnce
  <1>2. AnsweredOrQueued'
    BY DEF UnitsInv, AnsweredOrQueued
  <1> QED BY <1>1, <1>2

(* A pass reaches no more units than there are and moves none.             *)
LEMMA SentBytesKeep ==
  ASSUME NEW q \in Seq(Unit), NEW w \in Passes(q)
  PROVE  /\ Len(w) \in Nat /\ Len(w) <= Len(q)
         /\ SentBytes(q, w) \in Seq(Unit) /\ Len(SentBytes(q, w)) = Len(q)
         /\ \A i \in 1..Len(q) : SentBytes(q, w)[i].id = q[i].id
  <1>1. PICK m \in 0..Len(q) : w \in [1..m -> 0..Size]
    BY DEF Passes
  <1>2. Len(w) = m /\ m \in Nat /\ Len(w) <= Len(q)
    BY <1>1
  <1>3. SentBytes(q, w) \in Seq(Unit)
    BY SentBytesType
  <1>4. DOMAIN SentBytes(q, w) = 1..Len(q)
    BY DEF SentBytes
  <1>5. Len(SentBytes(q, w)) = Len(q)
    BY <1>3, <1>4
  <1>6. ASSUME NEW i \in 1..Len(q) PROVE SentBytes(q, w)[i].id = q[i].id
    <2>1. q[i] \in Unit /\ i \in DOMAIN q
      OBVIOUS
    <2> QED BY <2>1 DEF SentBytes, Unit
  <1> QED BY <1>2, <1>3, <1>5, <1>6

(* req_write queues the unit behind the others, or answers it at once.     *)
LEMMA Asked ==
  ASSUME TypeOK, UnitsInv, NEW r \in Clients, NEW u \in Units, ReqWrite(r, u)
  PROVE  /\ QueuedOnce' /\ AnsweredOrQueued'
         /\ \A s \in Rudders : Len(queue'[s]) \in Nat /\ Len(queue[s]) <= Len(queue'[s])
         /\ \A s \in Rudders : queue'[s] # <<>> => queue[s] # <<>> \/ (s = r /\ r \in rudders)
  <1>1. u \notin asked /\ asked' = asked \cup {u} /\ done[u] = 0 /\ r \in Rudders
    BY DEF ReqWrite, UnitsInv, AnsweredOrQueued, Rudders
  <1>2. \A s \in Rudders : \A i \in 1..Len(queue[s]) :
          queue[s][i].id \in asked /\ queue[s][i].id # u /\ done[queue[s][i].id] = 0
    BY <1>1 DEF UnitsInv, QueuedOnce
  <1>3. CASE r \notin rudders
    <2>1. queue' = queue /\ done' = [done EXCEPT ![u] = @ + 1]
      BY <1>3 DEF ReqWrite, AnswerAtOnce
    <2>2. done'[u] = 1 /\ \A v \in Units : v # u => done'[v] = done[v]
      BY <1>1, <2>1 DEF TypeOK
    <2>3. \A v \in asked : v \in Units /\ v # u
      BY <1>1 DEF TypeOK
    <2>4. QueuedOnce'
      BY <1>1, <1>2, <2>1, <2>2, <2>3 DEF UnitsInv, QueuedOnce
    <2>5. AnsweredOrQueued'
      BY <1>1, <2>1, <2>2, <2>3 DEF UnitsInv, AnsweredOrQueued
    <2> QED BY <1>1, <2>1, <2>4, <2>5 DEF TypeOK
  <1>4. CASE r \in rudders
    <2> DEFINE new == [id |-> u, rest |-> Size]
    <2>1. queue' = [queue EXCEPT ![r] = Append(@, new)] /\ done' = done
      BY <1>4 DEF ReqWrite
    <2>2. new \in Unit /\ new.id = u
      BY SpiderAssumption DEF Unit, SpiderAssumption
    <2>3. queue'[r] = Append(queue[r], new) /\ \A s \in Rudders : s # r => queue'[s] = queue[s]
      BY <1>1, <2>1 DEF TypeOK
    <2> HIDE DEF new
    <2>4. /\ Len(queue[r]) \in Nat /\ Len(queue'[r]) = Len(queue[r]) + 1
          /\ queue'[r][Len(queue[r]) + 1] = new
          /\ \A i \in 1..Len(queue[r]) : queue'[r][i] = queue[r][i]
      BY <1>1, <2>2, <2>3 DEF TypeOK
    <2>5. ASSUME NEW s \in Rudders, NEW i \in 1..Len(queue'[s])
          PROVE  \/ i \in 1..Len(queue[s]) /\ queue'[s][i] = queue[s][i]
                 \/ s = r /\ i = Len(queue[r]) + 1 /\ queue'[s][i].id = u
      BY <2>2, <2>3, <2>4
    <2>6. \A s \in Rudders : \A i \in 1..Len(queue'[s]) :
            queue'[s][i].id \in asked' /\ done'[queue'[s][i].id] = 0
      BY <1>1, <1>2, <2>1, <2>5
    <2>7. ASSUME NEW s \in Rudders, NEW x \in Rudders,
                 NEW i \in 1..Len(queue'[s]), NEW j \in 1..Len(queue'[x]),
                 queue'[s][i].id = queue'[x][j].id
          PROVE  s = x /\ i = j
      <3>1. CASE queue'[s][i].id = u
        <4>1. s = r /\ i = Len(queue[r]) + 1
          BY <1>2, <2>5, <3>1
        <4>2. x = r /\ j = Len(queue[r]) + 1
          <5>1. queue'[x][j].id = u
            BY <2>7, <3>1
          <5> HIDE DEF new
          <5> QED BY <1>2, <2>5, <5>1
        <4> QED BY <4>1, <4>2
      <3>2. CASE queue'[s][i].id # u
        <4>1. /\ i \in 1..Len(queue[s]) /\ queue'[s][i] = queue[s][i]
              /\ j \in 1..Len(queue[x]) /\ queue'[x][j] = queue[x][j]
          BY <2>5, <2>7, <3>2
        <4>2. queue[s][i].id = queue[x][j].id
          BY <2>7, <4>1
        <4> QED BY <4>1, <4>2 DEF UnitsInv, QueuedOnce
      <3> QED BY <3>1, <3>2
    <2>8. QueuedOnce'
      BY <2>6, <2>7 DEF QueuedOnce
    <2>9. ASSUME NEW v \in asked
          PROVE  done'[v] = 1 \/ \E s \in Rudders : \E i \in 1..Len(queue'[s]) : queue'[s][i].id = v
      <3>1. CASE done[v] = 1
        BY <2>1, <3>1
      <3>2. CASE \E s \in Rudders : \E i \in 1..Len(queue[s]) : queue[s][i].id = v
        <4>0. PICK s \in Rudders : \E i \in 1..Len(queue[s]) : queue[s][i].id = v
          BY <3>2
        <4>1. PICK i \in 1..Len(queue[s]) : queue[s][i].id = v
          BY <4>0
        <4>2. i \in 1..Len(queue'[s]) /\ queue'[s][i] = queue[s][i]
          BY <2>3, <2>4
        <4> QED BY <4>1, <4>2
      <3> QED BY <3>1, <3>2 DEF UnitsInv, AnsweredOrQueued
    <2>10. \E s \in Rudders : \E i \in 1..Len(queue'[s]) : queue'[s][i].id = u
      <3>1. Len(queue[r]) + 1 \in 1..Len(queue'[r])
        BY <2>4
      <3> QED BY <1>1, <2>2, <2>4, <3>1
    <2>11. AnsweredOrQueued'
      BY <1>1, <2>1, <2>9, <2>10 DEF UnitsInv, AnsweredOrQueued
    <2>12. \A s \in Rudders : Len(queue'[s]) \in Nat /\ Len(queue[s]) <= Len(queue'[s])
      <3>1. TAKE s \in Rudders
      <3>2. Len(queue[s]) \in Nat
        BY DEF TypeOK
      <3>3. CASE s = r
        BY <2>4, <3>3
      <3>4. CASE s # r
        BY <2>3, <3>2, <3>4
      <3> QED BY <3>3, <3>4
    <2> QED BY <1>4, <2>3, <2>8, <2>11, <2>12
  <1> QED BY <1>3, <1>4

(* The n letters of a pass, with others behind them, count for their rudder *)
(* only.                                                                    *)
LEMMA PassLetters ==
  ASSUME NEW before \in Seq(LetterType), NEW r \in Clients, NEW n \in Nat,
         NEW after \in Seq(LetterType), \A i \in 1..Len(after) : after[i].kind # "wrote",
         \A i \in 1..Len(before) : before[i] # Wrote(r),
         NEW pass, pass = [i \in 1..n |-> Letter("wrote", r)]
  PROVE  /\ before \o pass \o after \in Seq(LetterType)
         /\ \A s \in Rudders : s # r => Times(before \o pass \o after, Wrote(s)) = Times(before, Wrote(s))
         /\ Times(before \o pass \o after, Wrote(r)) \in Nat
         /\ Times(before \o pass \o after, Wrote(r)) <= n
  <1>1. Letter("wrote", r) \in LetterType /\ Letter("wrote", r).rd = r
    BY LetterIsLetter DEF Letter
  <1>2. pass \in Seq(LetterType) /\ Len(pass) = n /\ \A i \in 1..Len(pass) : pass[i].rd = r
    BY <1>1
  <1> DEFINE mid == before \o pass
  <1>3. mid \in Seq(LetterType)
    BY <1>2, ConcatLetters
  <1>4. ASSUME NEW s \in Rudders, s # r PROVE Times(mid, Wrote(s)) = Times(before, Wrote(s))
    <2>1. \A i \in 1..Len(pass) : pass[i] # Wrote(s)
      BY <1>2, <1>4, WroteIsLetter
    <2> QED BY <1>2, <2>1, TimesMore
  <1>5. Times(mid, Wrote(r)) <= n
    BY <1>2, TimesNew
  <1> HIDE DEF mid
  <1>6. \A s \in Rudders : Times(mid \o after, Wrote(s)) = Times(mid, Wrote(s))
    <2>1. TAKE s \in Rudders
    <2>2. \A i \in 1..Len(after) : after[i] # Wrote(s)
      BY WroteIsLetter
    <2> QED BY <1>3, <2>2, TimesMore
  <1>7. mid \o after \in Seq(LetterType)
    BY <1>3, ConcatLetters
  <1>8. r \in Rudders /\ Times(mid \o after, Wrote(r)) \in Nat
    BY <1>7, AtFinite DEF Rudders
  <1> QED BY <1>4, <1>5, <1>6, <1>7, <1>8 DEF mid

(* One pass of _on_writable: its letters are the first since select, and    *)
(* they are no more than the units of the queue.                            *)
LEMMA PassUnits ==
  ASSUME TypeOK, SelectInv, UnitsInv, NEW r \in Rudders, HandleReadWrite(r)
  PROVE  UnitsInv'
  <1>1. /\ r \in Clients /\ r \in rudders /\ selected[r] # {} /\ selected' = [selected EXCEPT ![r] = {}]
        /\ UNCHANGED <<rudders, closed, pc, caller, origin, done, asked>>
        /\ queue[r] \in Seq(Unit) /\ letters \in Seq(LetterType)
    BY DEF HandleReadWrite, Handling, TypeOK
  <1>2. Times(letters, Wrote(r)) = 0 /\ \A i \in 1..Len(letters) : letters[i] # Wrote(r)
    <2>1. Times(letters, Wrote(r)) = 0
      BY <1>1 DEF UnitsInv, NotYetWrote
    <2> QED BY <1>1, <2>1, NoneIsZero
  <1>3. \A k \in {"read", "error", "wrote"} : Letter(k, r) \in LetterType /\ Letter(k, r).kind = k
    BY <1>1, LetterIsLetter DEF Letter
  <1>4. PICK got \in ReadLetters(r) :
          IF "W" \notin selected[r]
          THEN letters' = letters \o got /\ UNCHANGED <<queue, registered>>
          ELSE IF queue[r] = <<>>
          THEN /\ letters' = letters \o got
               /\ registered' = [registered EXCEPT ![r] = WriteOff(@)]
               /\ UNCHANGED queue
          ELSE \E w \in Passes(queue[r]) : \E failed \in SendFailure(queue[r], w) :
               /\ letters' = letters \o got
                               \o [i \in 1..Len(w) |-> Letter("wrote", r)]
                               \o (IF failed THEN <<Letter("error", r)>> ELSE <<>>)
               /\ queue' = [queue EXCEPT ![r] = SentBytes(@, w)]
               /\ UNCHANGED registered
    BY DEF HandleReadWrite
  <1>5. got \in Seq(LetterType) /\ \A i \in 1..Len(got) : got[i].kind # "wrote"
    <2>1. got \in {<<>>, <<Letter("read", r)>>, <<Letter("error", r)>>}
      BY <1>4 DEF ReadLetters
    <2>2. CASE got = <<>>
      BY <2>2
    <2>3. CASE got = <<Letter("read", r)>>
      BY <1>3, <2>3
    <2>4. CASE got = <<Letter("error", r)>>
      BY <1>3, <2>4
    <2> QED BY <2>1, <2>2, <2>3, <2>4
  <1>6. /\ letters \o got \in Seq(LetterType)
        /\ \A s \in Rudders : /\ Times(letters \o got, Wrote(s)) \in Nat
                               /\ Times(letters \o got, Wrote(s)) <= Times(letters, Wrote(s))
        /\ \A s \in Rudders : Len(queue[s]) \in Nat
    <2>1. letters \o got \in Seq(LetterType)
      BY <1>1, <1>5, ConcatLetters
    <2>2. Fewer(letters \o got)
      BY <1>5, FewerMore
    <2> QED BY <2>1, <2>2 DEF Fewer, TypeOK
  <1>7. \A i \in 1..Len(letters \o got) : (letters \o got)[i] # Wrote(r)
    <2>1. Times(letters \o got, Wrote(r)) = 0
      BY <1>1, <1>2, <1>6
    <2> QED BY <1>6, <2>1, NoneIsZero
  <1>8. /\ \A s \in Rudders : Len(queue'[s]) = Len(queue[s])
        /\ \A s \in Rudders : \A i \in 1..Len(queue[s]) : queue'[s][i].id = queue[s][i].id
        /\ \A s \in Rudders : s # r => /\ Times(letters', Wrote(s)) \in Nat
                                      /\ Times(letters', Wrote(s)) <= Times(letters, Wrote(s))
        /\ Times(letters', Wrote(r)) <= Len(queue[r])
    <2>1. CASE letters' = letters \o got /\ queue' = queue
      BY <1>1, <1>2, <1>6, <2>1
    <2>2. ASSUME NEW w \in Passes(queue[r]), NEW failed \in SendFailure(queue[r], w),
                 letters' = letters \o got
                                 \o [i \in 1..Len(w) |-> Letter("wrote", r)]
                                 \o (IF failed THEN <<Letter("error", r)>> ELSE <<>>),
                 queue' = [queue EXCEPT ![r] = SentBytes(@, w)]
          PROVE  /\ \A s \in Rudders : Len(queue'[s]) = Len(queue[s])
                 /\ \A s \in Rudders : \A i \in 1..Len(queue[s]) : queue'[s][i].id = queue[s][i].id
                 /\ \A s \in Rudders : s # r => /\ Times(letters', Wrote(s)) \in Nat
                                               /\ Times(letters', Wrote(s)) <= Times(letters, Wrote(s))
                 /\ Times(letters', Wrote(r)) <= Len(queue[r])
      <3> DEFINE after == IF failed THEN <<Letter("error", r)>> ELSE <<>>
                 before == letters \o got
                 pass == [i \in 1..Len(w) |-> Letter("wrote", r)]
      <3>1. after \in Seq(LetterType) /\ \A i \in 1..Len(after) : after[i].kind # "wrote"
        BY <1>3
      <3>2. /\ Len(w) \in Nat /\ Len(w) <= Len(queue[r])
            /\ Len(SentBytes(queue[r], w)) = Len(queue[r])
            /\ \A i \in 1..Len(queue[r]) : SentBytes(queue[r], w)[i].id = queue[r][i].id
        BY <1>1, SentBytesKeep
      <3>3. letters' = before \o pass \o after /\ pass = [i \in 1..Len(w) |-> Letter("wrote", r)]
        BY <2>2
      <3>4. queue'[r] = SentBytes(queue[r], w) /\ \A s \in Rudders : s # r => queue'[s] = queue[s]
        BY <1>1, <2>2 DEF TypeOK
      <3>5. before \in Seq(LetterType) /\ \A i \in 1..Len(before) : before[i] # Wrote(r)
        BY <1>6, <1>7
      <3>6. \A s \in Rudders : /\ Times(before, Wrote(s)) \in Nat
                               /\ Times(before, Wrote(s)) <= Times(letters, Wrote(s))
        BY <1>6
      <3> HIDE DEF after, before, pass
      <3>7. /\ \A s \in Rudders : s # r => Times(letters', Wrote(s)) = Times(before, Wrote(s))
            /\ Times(letters', Wrote(r)) \in Nat /\ Times(letters', Wrote(r)) <= Len(w)
        <4> DEFINE now == before \o pass \o after
                   n == Len(w)
        <4>1. pass = [i \in 1..n |-> Letter("wrote", r)] /\ n \in Nat /\ r \in Clients
          BY <1>1, <3>2, <3>3
        <4> HIDE DEF n
        <4>2. /\ \A s \in Rudders : s # r => Times(before \o pass \o after, Wrote(s)) = Times(before, Wrote(s))
              /\ Times(before \o pass \o after, Wrote(r)) \in Nat
              /\ Times(before \o pass \o after, Wrote(r)) <= n
          BY <3>1, <3>5, <4>1, PassLetters
        <4>3. now = letters'
          BY <3>3
        <4>4. /\ \A s \in Rudders : s # r => Times(now, Wrote(s)) = Times(before, Wrote(s))
              /\ Times(now, Wrote(r)) \in Nat /\ Times(now, Wrote(r)) <= n
          BY <4>2
        <4> QED BY <4>3, <4>4 DEF n
      <3>8. Times(letters', Wrote(r)) <= Len(queue[r])
        BY <1>1, <1>6, <3>2, <3>7
      <3> QED BY <3>2, <3>4, <3>6, <3>7, <3>8
    <2> QED BY <1>4, <2>1, <2>2
  <1>9. QueuedOnce' /\ AnsweredOrQueued'
    BY <1>1, <1>8, UnitsStay
  <1>10. WroteFit'
    <2>1. ASSUME NEW s \in rudders PROVE Times(letters', Wrote(s)) <= Len(queue'[s])
      <3>1. s \in Rudders /\ Len(queue'[s]) = Len(queue[s]) /\ Len(queue[s]) \in Nat
        BY <1>6, <1>8 DEF TypeOK
      <3>2. CASE s = r
        BY <1>8, <3>1, <3>2
      <3>3. CASE s # r
        <4>1. Times(letters, Wrote(s)) <= Len(queue[s]) /\ Times(letters, Wrote(s)) \in Nat
          BY TimesType DEF UnitsInv, WroteFit
        <4> QED BY <1>8, <3>1, <3>3, <4>1
      <3> QED BY <3>2, <3>3
    <2> QED BY <1>1, <2>1 DEF WroteFit, Wrote
  <1>11. WroteKnown'
    <2>1. Known' = Known /\ r \in Known
      BY <1>1 DEF Known, SelectInv, Lifecycle
    <2>2. ASSUME NEW s \in Clients \ Known PROVE Times(letters', Wrote(s)) = 0
      <3>1. s \in Rudders /\ s # r /\ Times(letters, Wrote(s)) = 0
        BY <2>1 DEF UnitsInv, WroteKnown, Rudders
      <3> QED BY <1>8, <3>1
    <2> QED BY <2>1, <2>2 DEF WroteKnown, Wrote
  <1>12. NotYetWrote'
    <2>1. ASSUME NEW s \in Rudders, selected'[s] # {} PROVE Times(letters', Wrote(s)) = 0
      <3>1. s # r /\ selected[s] # {}
        BY <1>1, <2>1 DEF TypeOK
      <3>2. Times(letters, Wrote(s)) = 0
        BY <3>1 DEF UnitsInv, NotYetWrote
      <3> QED BY <1>8, <3>1, <3>2
    <2> QED BY <2>1 DEF NotYetWrote, Wrote
  <1>13. WaitAtOpen'
    <2>1. ASSUME NEW s \in Rudders, queue'[s] # <<>> PROVE queue[s] # <<>>
      <3>1. queue[s] \in Seq(Unit) /\ Len(queue'[s]) = Len(queue[s])
        BY <1>8 DEF TypeOK
      <3>2. queue'[s] \in Seq(Unit)
        BY HandleType DEF TypeOK
      <3> QED BY <2>1, <3>1, <3>2
    <2> QED BY <1>1, <2>1 DEF UnitsInv, WaitAtOpen, Draining
  <1> QED BY <1>9, <1>10, <1>11, <1>12, <1>13 DEF UnitsInv

(* _on_wrote: the letter and, if nothing of it remains, its unit go.        *)
LEMMA WroteUnits ==
  ASSUME TypeOK, SelectInv, UnitsInv, OnWrote PROVE UnitsInv'
  <1>1. /\ letters # <<>> /\ letters' = Tail(letters) /\ Head(letters).kind = "wrote" /\ pc = "letters"
        /\ Rd \notin closed /\ Rd \in Clients /\ Rd \in Rudders
        /\ UNCHANGED <<rudders, closed, selected, origin, asked>>
        /\ Fewer(letters') /\ letters \in Seq(LetterType)
    BY LetterRd, FewerTail DEF OnWrote, Received, Rudders, TypeOK
  <1>2. Known' = Known /\ \A s : ~Draining(s)
    BY <1>1 DEF Known, Draining
  <1>3. CASE UNCHANGED <<queue, done>>
    <2>1. QueuedOnce' /\ AnsweredOrQueued'
      BY <1>1, <1>3 DEF UnitsInv, QueuedOnce, AnsweredOrQueued
    <2>2. \A s \in rudders' : Len(queue'[s]) \in Nat /\ Len(queue[s]) <= Len(queue'[s])
      BY <1>1, <1>3 DEF TypeOK
    <2>3. WroteFit' /\ WroteKnown' /\ NotYetWrote'
      BY <1>1, <1>2, <2>2, CountsKeep
    <2>4. WaitAtOpen'
      BY <1>1, <1>2, <1>3 DEF UnitsInv, WaitAtOpen
    <2> QED BY <2>1, <2>3, <2>4 DEF UnitsInv
  <1>4. CASE queue[Rd] # <<>> /\ ConsumeOldestUnit(Rd, "wrote")
    <2>1. QueuedOnce' /\ AnsweredOrQueued'
      BY <1>1, <1>4, Consumed
    <2>2. queue'[Rd] = Tail(queue[Rd]) /\ \A s \in Rudders : s # Rd => queue'[s] = queue[s]
      BY <1>1, <1>4 DEF ConsumeOldestUnit, TypeOK
    <2>3. Len(queue'[Rd]) = Len(queue[Rd]) - 1 /\ \A s \in Rudders : Len(queue[s]) \in Nat
      BY <1>1, <1>4, <2>2, HeadUnit DEF TypeOK
    <2>4. Head(letters) = Wrote(Rd)
      <3>1. Head(letters) \in LetterType
        BY <1>1, HeadLetter
      <3> QED BY <1>1, <3>1 DEF LetterType, Wrote, Letter, Rd
    <2>5. Rd \in rudders
      BY <1>1, <1>2, <1>4 DEF UnitsInv, WaitAtOpen
    <2>6. Times(letters', Wrote(Rd)) <= Times(letters, Wrote(Rd)) - 1
      BY <1>1, <2>4, TimesTail
    <2>7. WroteFit'
      <3>1. ASSUME NEW s \in rudders PROVE Times(letters', Wrote(s)) <= Len(queue'[s])
        <4>1. /\ s \in Rudders /\ Times(letters, Wrote(s)) <= Len(queue[s])
              /\ Times(letters, Wrote(s)) \in Nat /\ Len(queue[s]) \in Nat
              /\ Times(letters', Wrote(s)) \in Nat
              /\ Times(letters', Wrote(s)) <= Times(letters, Wrote(s))
          BY <1>1, <2>3, TimesType DEF UnitsInv, WroteFit, Fewer, TypeOK
        <4>2. CASE s = Rd
          BY <2>3, <2>6, <4>1, <4>2
        <4>3. CASE s # Rd
          BY <2>2, <4>1, <4>3
        <4> QED BY <4>2, <4>3
      <3> QED BY <1>1, <3>1 DEF WroteFit, Wrote
    <2>8. ASSUME NEW s \in Rudders, Times(letters, Wrote(s)) = 0 PROVE Times(letters', Wrote(s)) = 0
      BY <1>1, <2>8 DEF Fewer
    <2>9. WroteKnown' /\ NotYetWrote'
      BY <1>1, <1>2, <2>8 DEF UnitsInv, WroteKnown, NotYetWrote, Wrote, Rudders
    <2>10. WaitAtOpen'
      <3>1. \A s \in Rudders : queue'[s] # <<>> => queue[s] # <<>>
        BY <1>4, <2>2
      <3> QED BY <1>1, <1>2, <3>1 DEF UnitsInv, WaitAtOpen
    <2> QED BY <2>1, <2>7, <2>9, <2>10 DEF UnitsInv
  <1> QED BY <1>3, <1>4 DEF OnWrote

(* _on_closed: the state leaves the map, and the units follow one by one.   *)
LEMMA ClosedUnits ==
  ASSUME TypeOK, SelectInv, UnitsInv, OnClosed PROVE UnitsInv'
  <1>1. /\ letters # <<>> /\ letters' = Tail(letters) /\ pc = "letters"
        /\ Rd \notin closed /\ Rd \in Rudders /\ rudders' = rudders \ {Rd}
        /\ UNCHANGED <<selected, origin, asked>>
        /\ Fewer(letters')
    BY LetterRd, FewerTail DEF OnClosed, Received
  <1>2. Known' = Known /\ \A s : ~Draining(s)
    BY <1>1 DEF Known, Draining
  <1>3. \A s \in Rudders : queue[s] # <<>> => s \in Clients /\ s \in rudders /\ s \notin closed
    BY <1>2 DEF UnitsInv, WaitAtOpen
  <1>4. /\ QueuedOnce' /\ AnsweredOrQueued' /\ WaitAtOpen'
        /\ \A s \in rudders' : queue'[s] = queue[s]
    <2>1. CASE UNCHANGED <<queue, done>> /\ queue[Rd] = <<>> /\ closed' \subseteq closed \cup {Rd}
      <3>1. QueuedOnce' /\ AnsweredOrQueued'
        BY <1>1, <2>1 DEF UnitsInv, QueuedOnce, AnsweredOrQueued
      <3>2. WaitAtOpen'
        BY <1>1, <1>3, <2>1 DEF WaitAtOpen
      <3> QED BY <2>1, <3>1, <3>2
    <2>2. CASE queue[Rd] # <<>> /\ ConsumeOldestUnit(Rd, "drain") /\ closed' = closed
      <3>1. QueuedOnce' /\ AnsweredOrQueued'
        BY <1>1, <2>2, Consumed
      <3>2. \A s \in Rudders : s # Rd => queue'[s] = queue[s]
        BY <1>1, <2>2 DEF ConsumeOldestUnit, TypeOK
      <3>3. pc' = "upcall" /\ caller' = Upcall("drain", Rd) /\ Rd \in Clients
        BY <1>1, <1>3, <2>2 DEF ConsumeOldestUnit
      <3>4. WaitAtOpen'
        BY <1>1, <1>3, <2>2, <3>2, <3>3 DEF WaitAtOpen, Draining
      <3>5. rudders \subseteq Rudders
        BY DEF TypeOK
      <3> QED BY <1>1, <3>1, <3>2, <3>4, <3>5
    <2>3. CASE Rd \in Ports
      <3>1. queue[Rd] = <<>>
        BY <1>1, <1>3, <2>3, SpiderAssumption DEF SpiderAssumption
      <3> QED BY <2>1, <2>3, <3>1 DEF OnClosed
    <2>4. CASE Rd \notin Ports
      BY <2>1, <2>2, <2>4 DEF OnClosed
    <2> QED BY <2>3, <2>4
  <1>5. \A s \in rudders' : Len(queue'[s]) \in Nat /\ Len(queue[s]) <= Len(queue'[s])
    BY <1>1, <1>4 DEF TypeOK
  <1>6. WroteFit' /\ WroteKnown' /\ NotYetWrote'
    BY <1>1, <1>2, <1>5, CountsKeep
  <1> QED BY <1>4, <1>6 DEF UnitsInv

(* The next unit of a rudder that is being drained, or its end.            *)
LEMMA DrainUnits ==
  ASSUME TypeOK, SelectInv, UnitsInv, ReturnDrain PROVE UnitsInv'
  <1> DEFINE r == caller.rd
  <1>1. /\ r \in Clients /\ r \in Rudders /\ r \notin rudders /\ pc = "upcall"
        /\ UNCHANGED <<letters, rudders, selected, origin, asked, closed>>
        /\ Fewer(letters')
    BY CallerRd, FewerSame DEF ReturnDrain, Returning, Rudders, SelectInv, Lifecycle
  <1>2. Known' = Known
    BY <1>1 DEF Known
  <1>3. \A s \in Rudders : queue[s] # <<>> =>
          s \in Clients /\ s \notin closed /\ (s \in rudders \/ s = r)
    BY DEF UnitsInv, WaitAtOpen, Draining, Upcall
  <1>4. rudders \subseteq Rudders
    BY DEF TypeOK
  <1>5. /\ QueuedOnce' /\ AnsweredOrQueued' /\ WaitAtOpen'
        /\ \A s \in rudders' : queue'[s] = queue[s]
    <2>1. CASE queue[r] = <<>>
      <3>1. UNCHANGED <<queue, done>>
        BY <2>1 DEF ReturnDrain
      <3>2. QueuedOnce' /\ AnsweredOrQueued'
        BY <1>1, <3>1 DEF UnitsInv, QueuedOnce, AnsweredOrQueued
      <3>3. WaitAtOpen'
        BY <1>1, <1>3, <2>1, <3>1 DEF WaitAtOpen
      <3> QED BY <3>1, <3>2, <3>3
    <2>2. CASE queue[r] # <<>>
      <3>0. ConsumeOldestUnit(r, "drain")
        BY <2>2 DEF ReturnDrain
      <3>1. QueuedOnce' /\ AnsweredOrQueued'
        BY <1>1, <2>2, <3>0, Consumed
      <3>2. \A s \in Rudders : s # r => queue'[s] = queue[s]
        BY <1>1, <3>0 DEF ConsumeOldestUnit, TypeOK
      <3>3. pc' = "upcall" /\ caller' = Upcall("drain", r)
        BY <3>0 DEF ConsumeOldestUnit
      <3> HIDE DEF r
      <3>4. WaitAtOpen'
        BY <1>1, <1>3, <2>2, <3>2, <3>3 DEF WaitAtOpen, Draining
      <3> QED BY <1>1, <1>4, <3>1, <3>2, <3>4
    <2> QED BY <2>1, <2>2
  <1>6. \A s \in rudders' : Len(queue'[s]) \in Nat /\ Len(queue[s]) <= Len(queue'[s])
    BY <1>1, <1>4, <1>5 DEF TypeOK
  <1>7. WroteFit' /\ WroteKnown' /\ NotYetWrote'
    BY <1>1, <1>2, <1>6, CountsKeep
  <1> QED BY <1>5, <1>7 DEF UnitsInv

(* req_write.                                                              *)
LEMMA AskedUnits ==
  ASSUME TypeOK, SelectInv, UnitsInv, NEW r \in Clients, NEW u \in Units, ReqWrite(r, u)
  PROVE  UnitsInv'
  <1>1. /\ UNCHANGED <<letters, rudders, selected, origin, closed, pc, caller>>
        /\ Fewer(letters')
    BY FewerSame DEF ReqWrite
  <1>2. /\ QueuedOnce' /\ AnsweredOrQueued'
        /\ \A s \in Rudders : Len(queue'[s]) \in Nat /\ Len(queue[s]) <= Len(queue'[s])
        /\ \A s \in Rudders : queue'[s] # <<>> => queue[s] # <<>> \/ (s = r /\ r \in rudders)
    BY Asked
  <1>3. Known' = Known /\ rudders \subseteq Rudders
    BY <1>1 DEF Known, TypeOK
  <1>4. WroteFit' /\ WroteKnown' /\ NotYetWrote'
    BY <1>1, <1>2, <1>3, CountsKeep
  <1>5. WaitAtOpen'
    BY <1>1, <1>2 DEF UnitsInv, WaitAtOpen, Draining, SelectInv, Lifecycle
  <1> QED BY <1>2, <1>4, <1>5 DEF UnitsInv

(* No unit, no letter.                                                     *)
LEMMA InitUnits == Init => UnitsInv
  <1> SUFFICES ASSUME Init PROVE UnitsInv
    OBVIOUS
  <1>1. \A l : Times(letters, l) = 0
    BY FS_EmptySet DEF Init, Times, At
  <1>2. \A r \in Rudders : queue[r] = <<>> /\ Len(queue[r]) = 0
    BY DEF Init
  <1>3. WroteFit /\ WroteKnown /\ NotYetWrote
    BY <1>1, <1>2 DEF Init, WroteFit, WroteKnown, NotYetWrote, Rudders
  <1>4. QueuedOnce /\ AnsweredOrQueued /\ WaitAtOpen
    BY <1>2 DEF Init, QueuedOnce, AnsweredOrQueued, WaitAtOpen
  <1> QED BY <1>3, <1>4 DEF UnitsInv

(* Every step.                                                             *)
LEMMA NextUnits == TypeOK /\ SelectInv /\ UnitsInv /\ [Next]_vars => UnitsInv'
  <1> SUFFICES ASSUME TypeOK, SelectInv, UnitsInv, [Next]_vars PROVE UnitsInv'
    OBVIOUS
  <1>1. CASE UNCHANGED vars
    BY <1>1 DEF vars, UnitsInv, WroteFit, WroteKnown, NotYetWrote, QueuedOnce, AnsweredOrQueued,
                WaitAtOpen, Draining, Known
  <1>2. CASE Next
    BY <1>2, OthersUnits, PassUnits, WroteUnits, ClosedUnits, DrainUnits, AskedUnits DEF Moves
  <1> QED BY <1>1, <1>2

(* A unit in a queue waits in one place; an answered one in none.           *)
LEMMA WaitingOnce ==
  ASSUME TypeOK, UnitsInv, NEW u \in asked
  PROVE  done[u] + Cardinality(Waiting(u)) = 1
  <1>1. \A at : at \in Waiting(u) <=>
          \E r \in Rudders : \E i \in 1..Len(queue[r]) : queue[r][i].id = u /\ at = <<r, i>>
    <2>1. \A r \in Rudders : DOMAIN queue[r] = 1..Len(queue[r])
      BY DEF TypeOK
    <2> QED BY <2>1 DEF Waiting
  <1>2. CASE \E r \in Rudders : \E i \in 1..Len(queue[r]) : queue[r][i].id = u
    <2>1. PICK r \in Rudders : \E i \in 1..Len(queue[r]) : queue[r][i].id = u
      BY <1>2
    <2>2. PICK i \in 1..Len(queue[r]) : queue[r][i].id = u
      BY <2>1
    <2>3. done[u] = 0
      BY <2>2 DEF UnitsInv, QueuedOnce
    <2>4. \A s \in Rudders : \A j \in 1..Len(queue[s]) : queue[s][j].id = u => s = r /\ j = i
      BY <2>2 DEF UnitsInv, QueuedOnce
    <2>5. Waiting(u) = {<<r, i>>}
      BY <1>1, <2>2, <2>4
    <2>6. Cardinality(Waiting(u)) = 1
      BY <2>5, FS_Singleton
    <2> QED BY <2>3, <2>6
  <1>3. CASE ~\E r \in Rudders : \E i \in 1..Len(queue[r]) : queue[r][i].id = u
    <2>1. done[u] = 1
      BY <1>3 DEF UnitsInv, AnsweredOrQueued
    <2>2. Waiting(u) = {}
      BY <1>1, <1>3
    <2>3. Cardinality(Waiting(u)) = 0
      BY <2>2, FS_EmptySet
    <2> QED BY <2>1, <2>3
  <1> QED BY <1>2, <1>3

(* The invariant is stronger than the property.                            *)
LEMMA UnitsInvImplies ==
  ASSUME TypeOK, SelectInv, UnitsInv PROVE UnitsAnswered
  <1>1. WroteLettersHaveUnits
    BY DEF UnitsInv, WroteFit, WroteLettersHaveUnits, Times, At, Wrote
  <1>2. \A r \in closed : queue[r] = <<>>
    BY DEF UnitsInv, WaitAtOpen, TypeOK
  <1>3. EachUnitAnsweredOnce
    BY <1>2, WaitingOnce DEF EachUnitAnsweredOnce
  <1> QED BY <1>1, <1>3 DEF UnitsAnswered

(* For any number of rudders, units and bytes: a WroteLetter finds a unit   *)
(* to account for, so the "Write queue is empty" Sink of _on_wrote is never *)
(* raised for a rudder with a state; and the listener of each write is      *)
(* called once, unless the unit still waits.                                *)
THEOREM WritesAreAnswered == Spec => []UnitsAnswered
  <1>1. Init => TypeOK /\ SelectInv /\ UnitsInv
    BY InitType, InitSelect, InitUnits
  <1>2. TypeOK /\ SelectInv /\ UnitsInv /\ [Next]_vars => (TypeOK /\ SelectInv /\ UnitsInv)'
    BY NextType, NextSelect, NextUnits
  <1>3. TypeOK /\ SelectInv /\ UnitsInv => UnitsAnswered
    BY UnitsInvImplies
  <1> QED BY <1>1, <1>2, <1>3, PTL DEF Spec

-----------------------------------------------------------------------------
(* The limit on ships.  A client counts from the moment a port is selected: *)
(* it will be accepted, then wait in the letter queue, then have a state.   *)
Inbound == {c \in rudders \cap Clients : origin[c] = "inbound"}
Announced == {c \in Clients : \E i \in 1..Len(letters) : LetterAt(i, "accepted") /\ letters[i].rd = c}
Accepting == {p \in Ports : selected[p] # {}}
Coming == Cardinality(Inbound) + Cardinality(Announced) + Cardinality(Accepting)

ShipsFit ==
  Coming # 0 => Coming + Cardinality(rudders \cap Ports) <= MaxShips + Cardinality(Ports) - 1

(* While the agent is busy no port has a key, and none is about to get one. *)
PortsRest == \A p \in Ports : operations[p] = {} /\ (busy => registered[p] = {})

ShipsInv == ShipsFit /\ PortsRest

(* All that is counted is finite.                                          *)
LEMMA ShipsFinite ==
  ASSUME TypeOK
  PROVE  /\ IsFiniteSet(Inbound) /\ IsFiniteSet(Announced) /\ IsFiniteSet(Accepting)
         /\ IsFiniteSet(rudders \cap Ports) /\ IsFiniteSet(rudders)
         /\ IsFiniteSet(Ports) /\ Cardinality(Ports) \in Nat
         /\ Cardinality(Inbound) \in Nat /\ Cardinality(Announced) \in Nat
         /\ Cardinality(Accepting) \in Nat /\ Cardinality(rudders \cap Ports) \in Nat
  <1>1. IsFiniteSet(Ports) /\ IsFiniteSet(Clients)
    BY SpiderAssumption DEF SpiderAssumption
  <1>2. IsFiniteSet(Rudders)
    BY <1>1, FS_Union DEF Rudders
  <1>3. /\ Inbound \subseteq Clients /\ Announced \subseteq Clients /\ Accepting \subseteq Ports
        /\ rudders \cap Ports \subseteq Ports /\ rudders \subseteq Rudders
    BY DEF Inbound, Announced, Accepting, TypeOK
  <1>4. /\ IsFiniteSet(Inbound) /\ IsFiniteSet(Announced) /\ IsFiniteSet(Accepting)
        /\ IsFiniteSet(rudders \cap Ports) /\ IsFiniteSet(rudders)
    BY <1>1, <1>2, <1>3, FS_Subset
  <1> QED BY <1>1, <1>4, FS_CardinalityType

(* Of what counts nothing is added.                                         *)
LEMMA NoneMore ==
  ASSUME TypeOK, ShipsInv,
         NEW i, NEW a, NEW g, NEW p,
         i \subseteq Inbound, a \subseteq Announced, g \subseteq Accepting,
         p \subseteq rudders \cap Ports,
         Cardinality(i) + Cardinality(a) + Cardinality(g) # 0
  PROVE  Cardinality(i) + Cardinality(a) + Cardinality(g) + Cardinality(p)
           <= MaxShips + Cardinality(Ports) - 1
  <1>1. /\ Cardinality(i) \in Nat /\ Cardinality(i) <= Cardinality(Inbound)
        /\ Cardinality(a) \in Nat /\ Cardinality(a) <= Cardinality(Announced)
        /\ Cardinality(g) \in Nat /\ Cardinality(g) <= Cardinality(Accepting)
        /\ Cardinality(p) \in Nat /\ Cardinality(p) <= Cardinality(rudders \cap Ports)
    BY ShipsFinite, FS_Subset, FS_CardinalityType
  <1>2. Coming # 0 /\ Coming \in Nat
    BY <1>1, ShipsFinite DEF Coming
  <1>3. Coming + Cardinality(rudders \cap Ports) <= MaxShips + Cardinality(Ports) - 1
    BY <1>2 DEF ShipsInv, ShipsFit
  <1>4. MaxShips \in Nat
    BY SpiderAssumption DEF SpiderAssumption
  <1> QED BY <1>1, <1>3, <1>4, ShipsFinite DEF Coming

(* The limit is kept when nothing is added.                                *)
LEMMA ShipsKeep ==
  ASSUME TypeOK, ShipsInv, Inbound' \subseteq Inbound, Announced' \subseteq Announced,
         Accepting' \subseteq Accepting, rudders' \cap Ports \subseteq rudders \cap Ports
  PROVE  ShipsFit'
  BY NoneMore DEF ShipsFit, Coming

(* Who is announced, after letters are added or one is taken.               *)
LEMMA AnnouncedSame ==
  ASSUME letters' = letters PROVE Announced' = Announced
  BY DEF Announced, LetterAt

(* A letter is taken, and a ClosedLetter may be added.                     *)
LEMMA AnnouncedTail ==
  ASSUME TypeOK, letters # <<>>, NEW pending,
         \/ pending = Tail(letters)
         \/ \E r : pending = Append(Tail(letters), Letter("closed", r)),
         letters' = pending
  PROVE  /\ Announced' \subseteq Announced
         /\ \A c \in Announced' : \E i \in 1..Len(letters) :
              i > 1 /\ LetterAt(i, "accepted") /\ letters[i].rd = c
  <1>1. /\ Len(letters) \in Nat
        /\ \A i \in 1..Len(Tail(letters)) : i + 1 \in 1..Len(letters) /\ i + 1 > 1 /\ Tail(letters)[i] = letters[i + 1]
        /\ Len(Tail(letters)) \in Nat
    BY TailLetters DEF TypeOK
  <1>2. ASSUME NEW i \in 1..Len(letters'), letters'[i].kind = "accepted"
        PROVE  i \in 1..Len(Tail(letters)) /\ letters'[i] = Tail(letters)[i]
    <2>1. CASE letters' = Tail(letters)
      BY <1>2, <2>1
    <2>2. CASE \E r : letters' = Append(Tail(letters), Letter("closed", r))
      <3>1. PICK r : letters' = Append(Tail(letters), Letter("closed", r))
        BY <2>2
      <3>2. Letter("closed", r).kind # "accepted"
        BY DEF Letter
      <3> HIDE DEF Letter
      <3>3. /\ Len(letters') = Len(Tail(letters)) + 1
            /\ letters'[Len(Tail(letters)) + 1] = Letter("closed", r)
            /\ \A j \in 1..Len(Tail(letters)) : letters'[j] = Tail(letters)[j]
        BY <1>1, <3>1
      <3> QED BY <1>1, <1>2, <3>2, <3>3
    <2> QED BY <2>1, <2>2
  <1>3. ASSUME NEW c \in Announced'
        PROVE  \E i \in 1..Len(letters) : i > 1 /\ LetterAt(i, "accepted") /\ letters[i].rd = c
    <2>1. PICK i \in 1..Len(letters') : letters'[i].kind = "accepted" /\ letters'[i].rd = c
      BY <1>3 DEF Announced, LetterAt
    <2>2. i + 1 \in 1..Len(letters) /\ i + 1 > 1 /\ letters'[i] = letters[i + 1]
      BY <1>1, <1>2, <2>1
    <2> QED BY <2>1, <2>2 DEF LetterAt
  <1>4. \A c \in Announced' : c \in Clients
    BY DEF Announced
  <1> QED BY <1>3, <1>4 DEF Announced

(* Letters of other kinds announce nobody.                                 *)
LEMMA AnnouncedMore ==
  ASSUME TypeOK, NEW more \in Seq(LetterType), \A i \in 1..Len(more) : more[i].kind # "accepted",
         letters' = letters \o more
  PROVE  Announced' \subseteq Announced
  <1>1. /\ Len(letters) \in Nat
        /\ \A i \in 1..Len(letters) : letters'[i] = letters[i]
        /\ \A i \in 1..Len(letters') : i \notin 1..Len(letters) =>
              i - Len(letters) \in 1..Len(more) /\ letters'[i] = more[i - Len(letters)]
    BY ConcatAt DEF TypeOK
  <1>2. ASSUME NEW i \in 1..Len(letters'), letters'[i].kind = "accepted"
        PROVE  i \in 1..Len(letters) /\ letters'[i] = letters[i]
    BY <1>1, <1>2
  <1> QED BY <1>2 DEF Announced, LetterAt

(* Nor does req_close.                                                     *)
LEMMA AnnouncedClose ==
  ASSUME TypeOK, NEW r \in Rudders, NEW pending, ReqClose(r, pending),
         \/ pending = letters
         \/ letters # <<>> /\ pending = Tail(letters)
  PROVE  Announced' \subseteq Announced
  <1>1. letters' = pending \/ letters' = Append(pending, Letter("closed", r))
    BY DEF ReqClose
  <1>2. CASE pending = letters
    <2>1. Letter("closed", r) \in LetterType /\ Letter("closed", r).kind # "accepted"
      BY LetterIsLetter DEF Letter
    <2>2. CASE letters' = letters
      BY <2>2, AnnouncedSame
    <2>3. CASE letters' = Append(letters, Letter("closed", r))
      <3>1. letters' = letters \o <<Letter("closed", r)>>
        BY <2>1, <2>3 DEF TypeOK
      <3>2. <<Letter("closed", r)>> \in Seq(LetterType)
            /\ \A i \in 1..Len(<<Letter("closed", r)>>) : <<Letter("closed", r)>>[i].kind # "accepted"
        BY <2>1
      <3> QED BY <3>1, <3>2, AnnouncedMore
    <2> QED BY <1>1, <1>2, <2>2, <2>3
  <1>3. CASE letters # <<>> /\ pending = Tail(letters)
    BY <1>1, <1>3, AnnouncedTail
  <1> QED BY <1>2, <1>3

(* The steps that neither select, nor accept, nor bring a new client in.    *)
LEMMA OthersComing ==
  ASSUME TypeOK, SelectInv, Next, ~Select, ~OnAccepted, \A r \in Rudders : ~HandleAcceptable(r)
  PROVE  /\ Inbound' \subseteq Inbound /\ Announced' \subseteq Announced
         /\ Accepting' \subseteq Accepting
         /\ rudders' \cap Ports \subseteq rudders \cap Ports
         /\ busy' = busy
         /\ \A p \in Ports : operations'[p] = operations[p] /\ (registered[p] = {} => registered'[p] = {})
  <1> DEFINE Quiet == /\ \A c \in Clients : c \in rudders' /\ origin'[c] = "inbound" => c \in rudders /\ origin[c] = "inbound"
                      /\ \A r \in Rudders : selected'[r] # {} => selected[r] # {}
                      /\ rudders' \cap Ports \subseteq rudders
                      /\ busy' = busy
                      /\ \A p \in Ports : operations'[p] = operations[p] /\ (registered[p] = {} => registered'[p] = {})
  <1>1. Ports \cap Clients = {} /\ Rudders = Ports \cup Clients
    BY SpiderAssumption DEF SpiderAssumption, Rudders
  <1>2. CASE SelectFails \/ StopLoop \/ EndReceive \/ EndLetters \/ ReqShutdown
    <2>1. Quiet /\ letters' = letters
      BY <1>2 DEF SelectFails, StopLoop, EndReceive, EndLetters, ReqShutdown, selectorVars
    <2> QED BY <2>1, AnnouncedSame DEF Inbound, Accepting, Rudders
  <1>3. ASSUME NEW r \in Rudders, HandleConnectable(r)
        PROVE  Quiet /\ Announced' \subseteq Announced
    <2>1. /\ selected' = [selected EXCEPT ![r] = {}] /\ r \in Clients
          /\ registered' = [registered EXCEPT ![r] = WriteOff(@)]
          /\ UNCHANGED <<origin, rudders, operations, busy>>
      BY <1>3 DEF HandleConnectable, Handling, TypeOK
    <2>2. Quiet
      BY <1>1, <2>1 DEF TypeOK
    <2>3. PICK failure \in {<<>>, <<Letter("error", r)>>} :
            letters' = letters \o failure \o <<Letter("connected", r)>>
      BY <1>3 DEF HandleConnectable
    <2> DEFINE more == failure \o <<Letter("connected", r)>>
    <2>4. Letter("error", r) \in LetterType /\ Letter("connected", r) \in LetterType
      BY <2>1, LetterIsLetter
    <2>5. more \in Seq(LetterType) /\ letters' = letters \o more
          /\ \A i \in 1..Len(more) : more[i].kind # "accepted"
      <3>1. CASE failure = <<>>
        BY <2>3, <2>4, <3>1 DEF TypeOK, Letter
      <3>2. CASE failure = <<Letter("error", r)>>
        BY <2>3, <2>4, <3>2 DEF TypeOK, Letter
      <3> QED BY <3>1, <3>2
    <2> HIDE DEF more, Quiet
    <2> QED BY <2>2, <2>5, AnnouncedMore
  <1>4. ASSUME NEW r \in Rudders, HandleReadWrite(r)
        PROVE  Quiet /\ Announced' \subseteq Announced
    <2>1. /\ selected' = [selected EXCEPT ![r] = {}] /\ r \in Clients
          /\ registered' = registered \/ registered' = [registered EXCEPT ![r] = WriteOff(@)]
          /\ UNCHANGED <<origin, rudders, operations, busy>>
      BY <1>4 DEF HandleReadWrite, Handling
    <2>2. Quiet
      BY <1>1, <2>1 DEF TypeOK
    <2>3. PICK more \in Seq(LetterType) :
            /\ letters' = letters \o more
            /\ \A i \in 1..Len(more) : more[i].kind \notin {"closed", "accepted"}
      BY <1>4, <2>1, ReadWriteLetters
    <2> HIDE DEF Quiet
    <2> QED BY <2>2, <2>3, AnnouncedMore
  <1>5. CASE HandleChannel
    BY <1>3, <1>4, <1>5 DEF HandleChannel, Inbound, Accepting, Rudders
  <1>6. CASE OnAcceptRefused
    <2>1. letters # <<>> /\ Head(letters).port \in Rudders
      BY <1>6, LetterRd DEF OnAcceptRefused, Received, Rudders
    <2>2. Quiet
      BY <1>6, <2>1 DEF OnAcceptRefused, TypeOK, Rudders
    <2>3. \/ letters' = Tail(letters)
          \/ letters' = Append(Tail(letters), Letter("closed", Head(letters).port))
      BY <1>6 DEF OnAcceptRefused
    <2>4. Announced' \subseteq Announced
      BY <2>1, <2>3, AnnouncedTail
    <2> QED BY <2>2, <2>4 DEF Inbound, Accepting, Rudders
  <1>7. CASE DropLetter \/ OnConnected \/ OnRead \/ OnWrote \/ OnClosed
    <2>1. /\ letters # <<>> /\ letters' = Tail(letters) /\ rudders' \subseteq rudders
          /\ UNCHANGED <<origin, selected, busy, operations, registered>>
      BY <1>7 DEF DropLetter, OnConnected, OnRead, OnNotify, OnWrote, OnClosed, Received, selectorVars
    <2>2. Announced' \subseteq Announced
      BY <2>1, AnnouncedTail
    <2> QED BY <2>1, <2>2 DEF Inbound, Accepting
  <1>8. CASE OnError
    <2>1. letters # <<>> /\ Rd \in Rudders /\ ReqClose(Rd, Tail(letters))
      BY <1>8, LetterRd DEF OnError, Received
    <2>2. Announced' \subseteq Announced
      BY <2>1, AnnouncedClose
    <2>3. Quiet
      BY <1>8, <2>1 DEF OnError, ReqClose, TypeOK, Rudders
    <2> QED BY <2>2, <2>3 DEF Inbound, Accepting, Rudders
  <1>9. ASSUME NEW r \in Clients, UpperReqClose(r)
        PROVE  Quiet /\ Announced' \subseteq Announced
    <2>1. r \in Rudders /\ ReqClose(r, letters)
      BY <1>9 DEF UpperReqClose, Rudders
    <2>2. Announced' \subseteq Announced
      BY <2>1, AnnouncedClose
    <2>3. Quiet
      BY <1>9, <2>1 DEF UpperReqClose, ReqClose, TypeOK, Rudders
    <2> QED BY <2>2, <2>3
  <1>10. ASSUME NEW r \in Clients, NEW u \in Units, ReqWrite(r, u)
         PROVE  Quiet /\ Announced' \subseteq Announced
    <2>1. /\ UNCHANGED <<letters, origin, rudders, selected, busy, registered>>
          /\ operations' = operations \/ operations' = [operations EXCEPT ![r] = @ \cup {"W"}]
      BY <1>10 DEF ReqWrite, AddOperation
    <2>2. Quiet
      BY <1>1, <2>1 DEF TypeOK
    <2> QED BY <2>1, <2>2, AnnouncedSame
  <1>11. ASSUME NEW r \in Clients, ReqRead(r) \/ ReqConnect(r)
         PROVE  Quiet /\ Announced' \subseteq Announced
    <2>1. CASE ReqRead(r)
      <3>1. /\ UNCHANGED <<letters, origin, rudders, selected, busy, registered>>
            /\ operations' = [operations EXCEPT ![r] = @ \cup {"R"}]
        BY <2>1 DEF ReqRead, AddOperation
      <3>2. Quiet
        BY <1>1, <3>1 DEF TypeOK
      <3> QED BY <3>1, <3>2, AnnouncedSame
    <2>2. CASE ReqConnect(r)
      <3>1. /\ UNCHANGED <<letters, selected, busy, registered>>
            /\ origin' = [origin EXCEPT ![r] = "outbound"] /\ rudders' = rudders \cup {r}
            /\ operations' = [operations EXCEPT ![r] = @ \cup {"W"}]
        BY <2>2 DEF ReqConnect, AddOperation
      <3>2. Quiet
        BY <1>1, <3>1 DEF TypeOK
      <3> QED BY <3>1, <3>2, AnnouncedSame
    <2> QED BY <1>11, <2>1, <2>2
  <1>12. CASE Request
    BY <1>9, <1>10, <1>11, <1>12 DEF Request, Inbound, Accepting, Rudders
  <1>13. CASE ReturnClose
    <2>1. ReqClose(caller.rd, letters) /\ caller.rd \in Rudders
      BY <1>13, CallerRd DEF ReturnClose, Rudders
    <2>2. Announced' \subseteq Announced
      BY <2>1, AnnouncedClose
    <2>3. Quiet
      BY <1>13, <2>1 DEF ReturnClose, ReqClose, TypeOK, Rudders
    <2> QED BY <2>2, <2>3 DEF Inbound, Accepting, Rudders
  <1>14. CASE ReturnTimer \/ ReturnContinue \/ ReturnSuspend \/ ReturnWrote \/ ReturnDrain \/ ReturnClosed
    <2>1. /\ UNCHANGED <<letters, origin, rudders, selected, busy, operations>>
      BY <1>14 DEF ReturnTimer, ReturnContinue, ReturnSuspend, ReturnWrote, ReturnDrain, ReturnClosed, selectorVars
    <2>2. \A p \in Ports : registered[p] = {} => registered'[p] = {}
      BY <1>14 DEF ReturnTimer, ReturnContinue, ReturnSuspend, ReturnWrote, ReturnDrain, ReturnClosed, selectorVars,
         CancelRead, CancelWrite, WriteOff, Die, TypeOK, Rudders
    <2>3. Announced' \subseteq Announced
      BY <2>1, AnnouncedSame
    <2> QED BY <2>1, <2>2, <2>3 DEF Inbound, Accepting
  <1> QED BY <1>2, <1>5, <1>6, <1>7, <1>8, <1>12, <1>13, <1>14 DEF Next, Run, OnLetter, Return

(* A port is only selected when the agent has just found that it is not     *)
(* busy, with every rudder that has a state counted.                        *)
LEMMA SelectShips ==
  ASSUME TypeOK, SelectInv, ShipsInv, Select PROVE ShipsInv'
  <1>1. /\ letters = <<>> /\ letters' = letters /\ busy' = IsBusy
        /\ UNCHANGED <<origin, rudders>>
        /\ registered' = Registered(Switched)
        /\ \A r \in Rudders : operations'[r] = {}
        /\ \A r \in Rudders : selected'[r] \subseteq Switched[r]
    BY DEF Select, SelectInv, Phases
  <1>2. \A p \in Ports : Switched[p] # {} => ~IsBusy
    BY DEF Switched, ShipsInv, PortsRest, Rudders
  <1>3. PortsRest'
    <2>1. \A p \in Ports : registered'[p] = Switched[p]
      BY <1>1 DEF Registered, ShipsInv, PortsRest, Rudders
    <2> QED BY <1>1, <1>2, <2>1 DEF PortsRest, Rudders
  <1>4. Announced = {} /\ Announced' = {} /\ Inbound' = Inbound
    BY <1>1 DEF Announced, Inbound
  <1>5. CASE IsBusy
    <2>1. Accepting' = {}
      BY <1>1, <1>2, <1>5 DEF Accepting, Rudders
    <2>2. ShipsFit'
      BY <1>1, <1>4, <2>1, ShipsKeep
    <2> QED BY <1>3, <2>2 DEF ShipsInv
  <1>6. CASE ~IsBusy
    <2>1. Cardinality(rudders) < MaxShips /\ Cardinality(rudders) \in Nat
      BY <1>6, ShipsFinite, FS_CardinalityType, SpiderAssumption DEF IsBusy, SpiderAssumption
    <2>2. Cardinality(Inbound) + Cardinality(rudders \cap Ports) <= Cardinality(rudders)
      <3>1. Inbound \cap (rudders \cap Ports) = {} /\ Inbound \cup (rudders \cap Ports) \subseteq rudders
        BY SpiderAssumption DEF Inbound, SpiderAssumption
      <3>2. Cardinality(Inbound \cup (rudders \cap Ports)) = Cardinality(Inbound) + Cardinality(rudders \cap Ports)
        <4>1. Cardinality({}) = 0
          BY FS_EmptySet
        <4>2. Cardinality(Inbound \cup (rudders \cap Ports))
                = Cardinality(Inbound) + Cardinality(rudders \cap Ports) - Cardinality({})
          BY <3>1, ShipsFinite, FS_Union
        <4> QED BY <4>1, <4>2, ShipsFinite
      <3> QED BY <3>1, <3>2, ShipsFinite, FS_Subset
    <2>3. Cardinality(Accepting') <= Cardinality(Ports) /\ Cardinality(Accepting') \in Nat
      <3>1. Accepting' \subseteq Ports
        BY DEF Accepting
      <3> QED BY <3>1, ShipsFinite, FS_Subset, FS_CardinalityType
    <2>4. Cardinality(Announced') = 0
      BY <1>4, FS_EmptySet
    <2>5. /\ Coming' = Cardinality(Inbound) + Cardinality(Announced') + Cardinality(Accepting')
          /\ Cardinality(rudders' \cap Ports) = Cardinality(rudders \cap Ports)
      BY <1>1, <1>4 DEF Coming
    <2>6. MaxShips \in Nat
      BY SpiderAssumption DEF SpiderAssumption
    <2>7. Coming' + Cardinality(rudders' \cap Ports) <= MaxShips + Cardinality(Ports) - 1
      BY <2>1, <2>2, <2>3, <2>4, <2>5, <2>6, ShipsFinite
    <2> QED BY <1>3, <2>7 DEF ShipsInv, ShipsFit
  <1> QED BY <1>5, <1>6

(* One more element.                                                       *)
LEMMA AddOne ==
  ASSUME NEW S, IsFiniteSet(S), NEW x
  PROVE  /\ IsFiniteSet(S \cup {x})
         /\ Cardinality(S \cup {x}) \in Nat /\ Cardinality(S \cup {x}) <= Cardinality(S) + 1
  <1>1. /\ IsFiniteSet(S \cup {x})
        /\ Cardinality(S \cup {x}) = IF x \in S THEN Cardinality(S) ELSE Cardinality(S) + 1
    BY FS_AddElement
  <1>2. Cardinality(S) \in Nat /\ Cardinality(S \cup {x}) \in Nat
    BY <1>1, FS_CardinalityType
  <1> QED BY <1>1, <1>2

(* A port accepts once per select.                                          *)
LEMMA AcceptableShips ==
  ASSUME TypeOK, SelectInv, ShipsInv, NEW p \in Rudders, HandleAcceptable(p) PROVE ShipsInv'
  <1>1. /\ p \in Ports /\ selected[p] # {} /\ selected' = [selected EXCEPT ![p] = {}]
        /\ UNCHANGED <<rudders, busy, operations, registered>>
    BY DEF HandleAcceptable, Handling, selectorVars
  <1>2. PortsRest'
    BY <1>1 DEF ShipsInv, PortsRest
  <1>3. Accepting' = Accepting \ {p} /\ p \in Accepting
    BY <1>1 DEF Accepting, TypeOK, Rudders
  <1>4. Cardinality(Accepting') = Cardinality(Accepting) - 1
    BY <1>3, ShipsFinite, FS_RemoveElement
  <1>5. CASE UNCHANGED <<letters, open, origin>>
    <2>1. Announced' = Announced /\ Inbound' = Inbound
      BY <1>1, <1>5 DEF Announced, Inbound, LetterAt
    <2>2. ShipsFit'
      BY <1>1, <1>3, <2>1, ShipsKeep
    <2> QED BY <1>2, <2>2 DEF ShipsInv
  <1>6. CASE \E c \in Fresh :
               /\ letters' = Append(letters, [kind |-> "accepted", rd |-> c, port |-> p])
               /\ open' = open \cup {c}
               /\ origin' = [origin EXCEPT ![c] = "accepted"]
    <2>1. PICK c \in Fresh :
               /\ letters' = Append(letters, [kind |-> "accepted", rd |-> c, port |-> p])
               /\ origin' = [origin EXCEPT ![c] = "accepted"]
      BY <1>6
    <2>2. c \in Clients /\ origin[c] = "unused"
      BY DEF Fresh
    <2>3. Inbound' \subseteq Inbound
      BY <1>1, <2>1, <2>2 DEF Inbound, TypeOK
    <2>4. Announced' \subseteq Announced \cup {c}
      <3> DEFINE new == [kind |-> "accepted", rd |-> c, port |-> p]
      <3>1. new \in LetterType /\ new.rd = c
        BY <1>1, <2>2 DEF LetterType
      <3> HIDE DEF new
      <3>2. \A i \in 1..Len(letters') : (i \in 1..Len(letters) /\ letters'[i] = letters[i]) \/ letters'[i] = new
        BY <2>1, <3>1 DEF TypeOK, new
      <3> QED BY <3>1, <3>2 DEF Announced, LetterAt
    <2>5. /\ Cardinality(Announced \cup {c}) <= Cardinality(Announced) + 1
          /\ IsFiniteSet(Announced \cup {c}) /\ Cardinality(Announced \cup {c}) \in Nat
      BY ShipsFinite, AddOne
    <2>6. /\ Cardinality(Announced') <= Cardinality(Announced) + 1 /\ Cardinality(Announced') \in Nat
          /\ Cardinality(Inbound') <= Cardinality(Inbound) /\ Cardinality(Inbound') \in Nat
      BY <2>3, <2>4, <2>5, ShipsFinite, FS_Subset, FS_CardinalityType
    <2>7. Coming' \in Nat /\ Coming' <= Coming /\ Coming \in Nat
      <3>1. Coming' = Cardinality(Inbound') + Cardinality(Announced') + Cardinality(Accepting')
        BY DEF Coming
      <3>2. Cardinality(Accepting) # 0
        BY <1>3, ShipsFinite, FS_EmptySet
      <3> QED BY <1>4, <2>6, <3>1, <3>2, ShipsFinite DEF Coming
    <2>8. Coming # 0
      <3>1. Cardinality(Accepting) # 0
        BY <1>3, ShipsFinite, FS_EmptySet
      <3> QED BY <3>1, ShipsFinite DEF Coming
    <2>9. Coming' + Cardinality(rudders' \cap Ports) <= MaxShips + Cardinality(Ports) - 1
      BY <1>1, <2>7, <2>8, ShipsFinite, SpiderAssumption DEF ShipsInv, ShipsFit, SpiderAssumption
    <2> QED BY <1>2, <2>9 DEF ShipsInv, ShipsFit
  <1> QED BY <1>5, <1>6 DEF HandleAcceptable

(* The announced client gets its state.                                     *)
LEMMA AcceptedShips ==
  ASSUME TypeOK, SelectInv, ShipsInv, OnAccepted PROVE ShipsInv'
  <1>1. /\ letters # <<>> /\ letters' = Tail(letters) /\ Head(letters).kind = "accepted"
        /\ rudders' = rudders \cup {Rd} /\ origin' = [origin EXCEPT ![Rd] = "inbound"]
        /\ operations' = [operations EXCEPT ![Rd] = @ \cup {"R"}]
        /\ UNCHANGED <<busy, registered, selected>>
    BY DEF OnAccepted, Received, AddOperation
  <1>2. /\ Rd \in Clients /\ Rd \notin Ports /\ origin[Rd] = "accepted"
        /\ \A i \in 1..Len(letters) : i > 1 /\ LetterAt(i, "accepted") => letters[i].rd # Rd
    BY <1>1, AcceptedHead, SpiderAssumption DEF SpiderAssumption
  <1>3. PortsRest'
    BY <1>1, <1>2 DEF ShipsInv, PortsRest, TypeOK, Rudders
  <1>4. Accepting' = Accepting /\ rudders' \cap Ports = rudders \cap Ports
    BY <1>1, <1>2 DEF Accepting
  <1>5. Rd \in Announced
    <2>1. 1 \in 1..Len(letters) /\ letters[1] = Head(letters)
      BY <1>1, TailLetters DEF TypeOK
    <2> QED BY <1>1, <1>2, <2>1 DEF Announced, LetterAt, Rd
  <1>6. Announced' \subseteq Announced \ {Rd}
    BY <1>1, <1>2, AnnouncedTail
  <1>7. Inbound' \subseteq Inbound \cup {Rd}
    BY <1>1, <1>2 DEF Inbound, TypeOK
  <1>8. /\ Cardinality(Announced') <= Cardinality(Announced) - 1 /\ Cardinality(Announced') \in Nat
        /\ Cardinality(Inbound') <= Cardinality(Inbound) + 1 /\ Cardinality(Inbound') \in Nat
    <2>1. /\ Cardinality(Announced \ {Rd}) = Cardinality(Announced) - 1
          /\ IsFiniteSet(Announced \ {Rd})
      BY <1>5, ShipsFinite, FS_RemoveElement
    <2>2. /\ Cardinality(Inbound \cup {Rd}) <= Cardinality(Inbound) + 1
          /\ IsFiniteSet(Inbound \cup {Rd}) /\ Cardinality(Inbound \cup {Rd}) \in Nat
      BY ShipsFinite, AddOne
    <2> QED BY <1>6, <1>7, <2>1, <2>2, ShipsFinite, FS_Subset, FS_CardinalityType
  <1>9. Coming # 0 /\ Coming \in Nat
    <2>1. Cardinality(Announced) # 0
      BY <1>5, ShipsFinite, FS_EmptySet
    <2> QED BY <2>1, ShipsFinite DEF Coming
  <1>10. Coming' \in Nat /\ Coming' <= Coming
    <2>1. Coming' = Cardinality(Inbound') + Cardinality(Announced') + Cardinality(Accepting)
      BY <1>4 DEF Coming
    <2> QED BY <1>8, <2>1, ShipsFinite DEF Coming
  <1>11. Coming' + Cardinality(rudders' \cap Ports) <= MaxShips + Cardinality(Ports) - 1
    <2>1. Coming + Cardinality(rudders \cap Ports) <= MaxShips + Cardinality(Ports) - 1
      BY <1>9 DEF ShipsInv, ShipsFit
    <2>2. MaxShips \in Nat /\ Cardinality(Ports) \in Nat /\ Cardinality(rudders \cap Ports) \in Nat
      BY ShipsFinite, SpiderAssumption DEF SpiderAssumption
    <2>3. Cardinality(rudders' \cap Ports) = Cardinality(rudders \cap Ports)
      BY <1>4
    <2> QED BY <1>9, <1>10, <2>1, <2>2, <2>3
  <1> QED BY <1>3, <1>11 DEF ShipsInv, ShipsFit

(* Nobody has come.                                                        *)
LEMMA InitShips == Init => ShipsInv
  <1> SUFFICES ASSUME Init PROVE ShipsInv
    OBVIOUS
  <1>1. Inbound = {} /\ Announced = {} /\ Accepting = {}
    BY SpiderAssumption DEF Init, Inbound, Announced, Accepting, Rudders, SpiderAssumption
  <1>2. Coming = 0
    BY <1>1, FS_EmptySet DEF Coming
  <1>3. PortsRest
    BY DEF Init, PortsRest, Rudders
  <1> QED BY <1>2, <1>3 DEF ShipsInv, ShipsFit

(* Every step.                                                             *)
LEMMA NextShips == TypeOK /\ SelectInv /\ ShipsInv /\ [Next]_vars => ShipsInv'
  <1> SUFFICES ASSUME TypeOK, SelectInv, ShipsInv, [Next]_vars PROVE ShipsInv'
    OBVIOUS
  <1>1. CASE UNCHANGED vars
    BY <1>1 DEF vars, ShipsInv, ShipsFit, PortsRest, Coming, Inbound, Announced, Accepting, LetterAt
  <1>2. CASE Select \/ OnAccepted \/ \E r \in Rudders : HandleAcceptable(r)
    BY <1>2, SelectShips, AcceptedShips, AcceptableShips
  <1>3. CASE Next /\ ~Select /\ ~OnAccepted /\ ~\E r \in Rudders : HandleAcceptable(r)
    <2>1. /\ Inbound' \subseteq Inbound /\ Announced' \subseteq Announced
          /\ Accepting' \subseteq Accepting
          /\ rudders' \cap Ports \subseteq rudders \cap Ports
          /\ busy' = busy
          /\ \A p \in Ports : operations'[p] = operations[p] /\ (registered[p] = {} => registered'[p] = {})
      BY <1>3, OthersComing
    <2>2. ShipsFit'
      BY <2>1, ShipsKeep
    <2>3. PortsRest'
      BY <2>1 DEF ShipsInv, PortsRest
    <2> QED BY <2>2, <2>3 DEF ShipsInv
  <1> QED BY <1>1, <1>2, <1>3

(* For any number of ports and connections: is_busy is looked at before     *)
(* select only, and every listening socket may accept after that, yet the   *)
(* connections that were accepted pass max_ships by no more than one for    *)
(* each further port, whatever the warp side connects meanwhile.            *)
THEOREM ShipsAreLimited == Spec => []InboundWithinMaxShips
  <1>1. Init => TypeOK /\ SelectInv /\ ShipsInv
    BY InitType, InitSelect, InitShips
  <1>2. TypeOK /\ SelectInv /\ ShipsInv /\ [Next]_vars => (TypeOK /\ SelectInv /\ ShipsInv)'
    BY NextType, NextSelect, NextShips
  <1>3. TypeOK /\ SelectInv /\ ShipsInv => InboundWithinMaxShips
    <2> SUFFICES ASSUME TypeOK, SelectInv, ShipsInv, Inbound # {}
                 PROVE  Cardinality(Inbound) + Cardinality(rudders \cap Ports)
                          <= MaxShips + Cardinality(Ports) - 1
      BY DEF InboundWithinMaxShips, Inbound
    <2>1. Cardinality(Inbound) # 0
      BY ShipsFinite, FS_EmptySet
    <2>2. Coming # 0 /\ Coming + Cardinality(rudders \cap Ports) <= MaxShips + Cardinality(Ports) - 1
      BY <2>1, ShipsFinite DEF Coming, ShipsInv, ShipsFit
    <2> QED BY <2>2, ShipsFinite, SpiderAssumption DEF Coming, SpiderAssumption
  <1> QED BY <1>1, <1>2, <1>3, PTL DEF Spec
=============================================================================
