---- MODULE WarpProofs ----
(* Proofs about the proxy's side (Warp): its store of connections stays in *)
(* order and is a pool (ShipPool), every client has its own answer, the    *)
(* agent ends only for the reasons that are named, and nobody waits for    *)
(* ever but on a backend that took a header for a body - for every number  *)
(* of requests, connections and faults.                                    *)
EXTENDS Warp, FiniteSetTheorems, SequenceTheorems, TLAPS

-----------------------------------------------------------------------------
(* What the lists are and how the steps are typed.                         *)

(* What a queue holds after an element has been appended.                  *)
LEMMA AppendToSet ==
  ASSUME NEW S, NEW q \in Seq(S), NEW x \in S
  PROVE  ToSet(Append(q, x)) = ToSet(q) \cup {x}
  <1> DEFINE n == Len(q)
  <1>1. /\ n \in Nat /\ DOMAIN q = 1 .. n /\ DOMAIN Append(q, x) = 1 .. n + 1
        /\ \A i \in 1 .. n : Append(q, x)[i] = q[i]
        /\ Append(q, x)[n + 1] = x
    BY AppendProperties, LenProperties
  <1>2. \A i \in 1 .. n + 1 : i \in 1 .. n \/ i = n + 1
    BY <1>1
  <1>3. 1 .. n \subseteq 1 .. n + 1 /\ n + 1 \in 1 .. n + 1
    BY <1>1
  <1> HIDE DEF n
  <1> QED BY <1>1, <1>2, <1>3 DEF ToSet

(* A list without repetitions stays one when a new element is appended.    *)
LEMMA AppendInjectiveSeq ==
  ASSUME NEW S, NEW q \in Seq(S), IsInjective(q), NEW x \in S, x \notin ToSet(q)
  PROVE  IsInjective(Append(q, x))
  <1> DEFINE n == Len(q)
  <1>1. /\ n \in Nat /\ DOMAIN q = 1 .. n /\ DOMAIN Append(q, x) = 1 .. n + 1
        /\ \A i \in 1 .. n : Append(q, x)[i] = q[i]
        /\ Append(q, x)[n + 1] = x
    BY AppendProperties, LenProperties
  <1>2. \A i \in 1 .. n + 1 : i \in 1 .. n \/ i = n + 1
    BY <1>1
  <1> HIDE DEF n
  <1> QED BY <1>1, <1>2 DEF ToSet, IsInjective

(* Taking the element at a place out of a list without repetitions: the    *)
(* rest has none either, and holds everything else.                        *)
LEMMA RemoveAtSet ==
  ASSUME NEW S, NEW q \in Seq(S), IsInjective(q), NEW i \in DOMAIN q
  PROVE  /\ RemoveAt(q, i) \in Seq(S) /\ IsInjective(RemoveAt(q, i))
         /\ ToSet(RemoveAt(q, i)) = ToSet(q) \ {q[i]}
  <1> DEFINE n == Len(q)
             p == RemoveAt(q, i)
  <1>1. n \in Nat /\ DOMAIN q = 1 .. n /\ i \in 1 .. n /\ \A j \in 1 .. n : q[j] \in S
    BY LenProperties
  <1>2. /\ SubSeq(q, 1, i - 1) \in Seq(S) /\ Len(SubSeq(q, 1, i - 1)) = i - 1
        /\ \A j \in 1 .. i - 1 : SubSeq(q, 1, i - 1)[j] = q[j]
    BY <1>1, SubSeqProperties
  <1>3. /\ SubSeq(q, i + 1, n) \in Seq(S) /\ Len(SubSeq(q, i + 1, n)) = n - i
        /\ \A j \in 1 .. n - i : SubSeq(q, i + 1, n)[j] = q[i + j]
    BY <1>1, SubSeqProperties
  <1>4. /\ p \in Seq(S) /\ Len(p) = n - 1
        /\ \A j \in 1 .. n - 1 : p[j] = IF j < i THEN q[j] ELSE q[j + 1]
    <2>1. p = SubSeq(q, 1, i - 1) \o SubSeq(q, i + 1, n)
      BY DEF RemoveAt
    <2>2. /\ p \in Seq(S) /\ Len(p) = (i - 1) + (n - i)
          /\ \A j \in 1 .. (i - 1) + (n - i) :
               p[j] = IF j <= i - 1 THEN SubSeq(q, 1, i - 1)[j]
                      ELSE SubSeq(q, i + 1, n)[j - (i - 1)]
      <3>1. PICK a \in Seq(S) : a = SubSeq(q, 1, i - 1)
        BY <1>2
      <3>2. PICK b \in Seq(S) : b = SubSeq(q, i + 1, n)
        BY <1>3
      <3>3. p = a \o b /\ Len(a) = i - 1 /\ Len(b) = n - i
        BY <1>2, <1>3, <2>1, <3>1, <3>2
      <3>4. /\ a \o b \in Seq(S) /\ Len(a \o b) = Len(a) + Len(b)
            /\ \A j \in 1 .. Len(a) + Len(b) :
                 (a \o b)[j] = IF j <= Len(a) THEN a[j] ELSE b[j - Len(a)]
        BY ConcatProperties
      <3> HIDE DEF n, p
      <3> QED BY <3>1, <3>2, <3>3, <3>4
    <2>3. i \in Int /\ n \in Int /\ 1 <= i /\ i <= n /\ (i - 1) + (n - i) = n - 1
      BY <1>1
    <2>4. ASSUME NEW j \in 1 .. n - 1
          PROVE  p[j] = IF j < i THEN q[j] ELSE q[j + 1]
      <3>1. CASE j < i
        <4>1. j \in 1 .. i - 1 /\ j <= i - 1 /\ j \in 1 .. (i - 1) + (n - i)
          BY <2>3, <3>1
        <4> HIDE DEF p, n
        <4>2. p[j] = SubSeq(q, 1, i - 1)[j] /\ SubSeq(q, 1, i - 1)[j] = q[j]
          BY <1>2, <2>2, <4>1
        <4> QED BY <3>1, <4>2
      <3>2. CASE ~(j < i)
        <4>1. j - (i - 1) \in 1 .. n - i /\ i + (j - (i - 1)) = j + 1 /\ ~(j <= i - 1)
          BY <2>3, <3>2
        <4> HIDE DEF p, n
        <4>2. p[j] = SubSeq(q, i + 1, n)[j - (i - 1)]
          BY <2>2, <2>3, <4>1
        <4>3. SubSeq(q, i + 1, n)[j - (i - 1)] = q[j + 1]
          BY <1>3, <4>1
        <4> QED BY <3>2, <4>1, <4>2, <4>3
      <3> QED BY <3>1, <3>2
    <2> QED BY <2>2, <2>3, <2>4
  <1>5. DOMAIN p = 1 .. n - 1
    BY <1>1, <1>4, LenProperties
  <1>6. ToSet(p) = ToSet(q) \ {q[i]}
    <2>1. ASSUME NEW x \in ToSet(p)
          PROVE  x \in ToSet(q) \ {q[i]}
      <3>1. PICK j \in 1 .. n - 1 : x = p[j]
        BY <1>5, <2>1 DEF ToSet
      <3>2. PICK k \in 1 .. n : x = q[k] /\ k # i
        BY <1>1, <1>4, <3>1
      <3> QED BY <1>1, <3>2 DEF ToSet, IsInjective
    <2>2. ASSUME NEW x \in ToSet(q) \ {q[i]}
          PROVE  x \in ToSet(p)
      <3>1. PICK j \in 1 .. n : x = q[j] /\ j # i
        BY <1>1 DEF ToSet
      <3>2. IF j < i THEN j \in 1 .. n - 1 /\ p[j] = x ELSE j - 1 \in 1 .. n - 1 /\ p[j - 1] = x
        BY <1>1, <1>4, <3>1
      <3> QED BY <1>5, <3>2 DEF ToSet
    <2> QED BY <2>1, <2>2
  <1>7. IsInjective(p)
    BY <1>1, <1>4, <1>5 DEF IsInjective
  <1> QED BY <1>4, <1>6, <1>7

(* The same by value: a list drops what is no longer its own, and dropping *)
(* what is not in the list changes nothing.                                *)
LEMMA RemoveFirstSet ==
  ASSUME NEW S, NEW q \in Seq(S), IsInjective(q), NEW x
  PROVE  /\ RemoveFirst(q, x) \in Seq(S) /\ IsInjective(RemoveFirst(q, x))
         /\ ToSet(RemoveFirst(q, x)) = ToSet(q) \ {x}
  <1>1. CASE \E i \in 1 .. Len(q) : q[i] = x
    <2>1. PICK i \in 1 .. Len(q) : q[i] = x
      BY <1>1
    <2>2. {j \in 1 .. Len(q) : q[j] = x} = {i}
      BY <2>1, LenProperties DEF IsInjective
    <2>3. Min({i}) = i
      BY DEF Min
    <2>4. RemoveFirst(q, x) = RemoveAt(q, i)
      BY <1>1, <2>2, <2>3 DEF RemoveFirst, SelectInSeq
    <2> QED BY <2>1, <2>4, RemoveAtSet, LenProperties
  <1>2. CASE ~\E i \in 1 .. Len(q) : q[i] = x
    BY <1>2, LenProperties DEF RemoveFirst, ToSet
  <1> QED BY <1>1, <1>2

(* A list without repetitions has as many places as elements.              *)
LEMMA InjectiveCount ==
  ASSUME NEW S, NEW q \in Seq(S), IsInjective(q)
  PROVE  IsFiniteSet(ToSet(q)) /\ Cardinality(ToSet(q)) = Len(q)
  <1>1. Len(q) \in Nat /\ DOMAIN q = 1 .. Len(q)
    BY LenProperties
  <1>2. q \in Bijection(1 .. Len(q), ToSet(q))
    BY <1>1, LenProperties DEF Bijection, Injection, Surjection, IsInjective, ToSet
  <1>3. IsFiniteSet(1 .. Len(q)) /\ Cardinality(1 .. Len(q)) = Len(q)
    BY <1>1, FS_Interval
  <1> QED BY <1>2, <1>3, FS_Bijection DEF ExistsBijection

(* None stands for no connection and for no request.                       *)
LEMMA NoneIsNoShip == None \notin Ships /\ None \notin Requests
  BY WarpAssumption DEF None, Ships, Requests

(* The initial state is well typed.                                        *)
LEMMA TypeInit == Init => TypeOK
  <1> SUFFICES ASSUME Init PROVE TypeOK
    OBVIOUS
  <1>1. NewRequest \in RequestType
    BY DEF NewRequest, RequestType
  <1>2. NewShip \in ShipType
    BY EmptySeq DEF NewShip, ShipType
  <1>3. keep \in Seq(Ships) /\ IsInjective(keep)
    BY EmptySeq DEF Init, IsInjective
  <1>4. agent \in {"up", "stray", "consumed", "resume", "id"} /\ method \in [Requests -> {"get", "head", "post"}]
    BY DEF Init
  <1>5. req \in [Requests -> RequestType] /\ ship \in [Ships -> ShipType]
    BY <1>1, <1>2 DEF Init
  <1>6. busy \subseteq Ships /\ strayed \in BOOLEAN
    BY DEF Init
  <1>7. faults \in 0 .. MaxFaults
    BY WarpAssumption, SMT DEF Init
  <1> QED BY <1>3, <1>4, <1>5, <1>6, <1>7 DEF TypeOK

(* What the end of a tour leaves of its record.                            *)
LEMMA EndOf ==
  ASSUME NEW q \in RequestType
  PROVE  /\ End(q) \in RequestType /\ End(q).phase \in {"ended", "returned"}
         /\ q.client \/ q.phase = "ended" => End(q).phase = "ended"
         /\ End(q).via = q.via /\ End(q).client = q.client /\ End(q).sent = q.sent
         /\ End(q).full = q.full /\ End(q).headed = q.headed /\ End(q).answer = q.answer
  BY DEF End, RequestType

(* What an error answer leaves of it: who has had an end keeps it.         *)
LEMMA FailedOf ==
  ASSUME TypeOK, NEW r \in Requests
  PROVE  /\ Failed(r) \in RequestType /\ Failed(r).phase # "arrived"
         /\ req[r].phase # "arrived" => Failed(r) = req[r]
         /\ req[r].phase = "arrived" => Failed(r).phase \in {"ended", "returned"}
         /\ Failed(r).via = req[r].via
  <1>1. req[r] \in RequestType
    BY DEF TypeOK
  <1>2. End(req[r]) \in RequestType /\ End(req[r]).phase \in {"ended", "returned"}
        /\ End(req[r]).via = req[r].via
    BY <1>1, EndOf
  <1>3. CASE req[r].phase # "arrived"
    BY <1>1, <1>3 DEF Failed
  <1>4. CASE req[r].phase = "arrived"
    <2>1. PICK a \in {End(req[r]).answer, "error", "bare"} : Failed(r) = [End(req[r]) EXCEPT !.answer = a]
      BY <1>4 DEF Failed
    <2> QED BY <1>2, <1>4, <2>1 DEF RequestType
  <1> QED BY <1>3, <1>4

(* The header of an answer changes neither where a request is nor by whom  *)
(* it is served.                                                           *)
LEMMA HeadedOf ==
  ASSUME TypeOK, NEW r \in Requests, NEW item \in Item
  PROVE  /\ Headed(r, item) \in RequestType
         /\ Headed(r, item).phase = req[r].phase /\ Headed(r, item).via = req[r].via
         /\ Headed(r, item).client = req[r].client
  BY DEF Headed, TypeOK, RequestType

(* Nor does a part of its content.                                         *)
LEMMA PostedOf ==
  ASSUME TypeOK, NEW r \in Requests, NEW full \in BOOLEAN
  PROVE  LET q == [Posted(r) EXCEPT !.full = full]
         IN  q \in RequestType /\ q.phase = req[r].phase /\ q.via = req[r].via
             /\ q.client = req[r].client
  <1>1. PICK p \in RequestType : p = req[r]
    BY DEF TypeOK
  <1>2. PICK a \in {p.answer, "mixed"} : Posted(r) = [p EXCEPT !.answer = a]
    BY <1>1 DEF Posted
  <1>3. PICK q : q = [Posted(r) EXCEPT !.full = full]
    OBVIOUS
  <1>4. q = [p EXCEPT !.answer = a, !.full = full]
    BY <1>2, <1>3 DEF RequestType
  <1>5. q \in RequestType /\ q.phase = p.phase /\ q.via = p.via /\ q.client = p.client
    BY <1>4 DEF RequestType
  <1> QED BY <1>1, <1>3, <1>5

(* How a step stands to the counters of faults: an own step of the proxy   *)
(* counts none.                                                            *)
Steps == Runs \/ Fault(TRUE) \/ Fault(FALSE)

(* What every step leaves well typed: the counters of faults.              *)
LEMMA StepCounts ==
  ASSUME TypeOK, Steps
  PROVE  faults' \in 0 .. MaxFaults /\ strayed' \in BOOLEAN
  <1>1. faults \in 0 .. MaxFaults /\ strayed \in BOOLEAN /\ MaxFaults \in Nat
    BY WarpAssumption DEF TypeOK
  <1>2. CASE Runs
    BY <1>1, <1>2 DEF Runs
  <1>3. ASSUME NEW stray \in BOOLEAN, Fault(stray)
        PROVE  faults' \in 0 .. MaxFaults /\ strayed' \in BOOLEAN
    <2>1. faults' \in 0 .. MaxFaults
      BY <1>1, <1>3 DEF Fault
    <2>2. strayed' \in BOOLEAN
      BY <1>3 DEF Fault
    <2> QED BY <2>1, <2>2
  <1> QED BY <1>2, <1>3 DEF Steps

(* A step that goes on is well typed when its four variables are.          *)
LEMMA TypeFrom ==
  ASSUME TypeOK, Steps, UNCHANGED <<agent, method>>,
         req' \in [Requests -> RequestType], ship' \in [Ships -> ShipType],
         keep' \in Seq(Ships), IsInjective(keep'), busy' \subseteq Ships
  PROVE  TypeOK'
  BY StepCounts DEF TypeOK

(* A step that ends the agent changes nothing else.                        *)
LEMMA TypeDies ==
  ASSUME TypeOK, Steps, NEW why \in {"stray", "consumed", "resume", "id"}, Dies(why)
  PROVE  TypeOK'
  BY StepCounts DEF TypeOK, Dies

(* A step that leaves the lists alone and changes ships or requests.       *)
LEMMA TypeAside ==
  ASSUME TypeOK, Steps, UNCHANGED <<agent, method, keep, busy>>,
         req' \in [Requests -> RequestType], ship' \in [Ships -> ShipType]
  PROVE  TypeOK'
  <1>1. keep' \in Seq(Ships) /\ IsInjective(keep') /\ busy' \subseteq Ships
    BY DEF TypeOK
  <1> QED BY <1>1, TypeFrom

(* A connection that is closed as it is keeps what it knows.               *)
LEMMA GoneOf ==
  ASSUME TypeOK, NEW s \in Ships
  PROVE  /\ Gone(s) \in ShipType /\ Gone(s).conn = "closing"
         /\ Gone(s).serves = ship[s].serves /\ Gone(s).state = ship[s].state
  <1>1. ship[s] \in ShipType
    BY DEF TypeOK
  <1>2. ship[s].armed \ {"write"} \in SUBSET {"read", "write"}
    BY <1>1 DEF ShipType
  <1> QED BY <1>1, <1>2 DEF Gone, ShipType

(* A request starts on a connection.                                       *)
LEMMA StartType ==
  ASSUME TypeOK, Steps, UNCHANGED <<agent, method>>, NEW r \in Requests, NEW s \in Ships,
         NEW rest \in Seq(Ships), IsInjective(rest), Start(r, s, rest)
  PROVE  TypeOK'
  <1> DEFINE unit == [kind |-> IF method[r] = "post" THEN "header" ELSE "whole", of |-> r]
             sh == ship[s]
             next == [sh EXCEPT !.serves = r, !.units = Append(@, unit),
                       !.conn = IF sh.conn = "none" THEN "connecting" ELSE @,
                       !.armed = IF sh.conn = "none" THEN {} ELSE @ \cup {"write"}]
  <1>1. unit \in Unit
    BY DEF Unit
  <1>2. sh \in ShipType /\ sh.units \in Seq(Unit) /\ sh.armed \in SUBSET {"read", "write"}
    BY DEF TypeOK, ShipType
  <1>3. Append(sh.units, unit) \in Seq(Unit)
    BY <1>1, <1>2, AppendProperties
  <1> HIDE DEF unit
  <1>4. next \in ShipType
    BY <1>2, <1>3 DEF ShipType
  <1>5. ship' = [ship EXCEPT ![s] = next]
    BY DEF Start, unit
  <1> HIDE DEF next
  <1>6. ship' \in [Ships -> ShipType]
    BY <1>4, <1>5 DEF TypeOK
  <1>7. [req[r] EXCEPT !.phase = "arrived", !.via = s] \in RequestType
    BY DEF TypeOK, RequestType
  <1>8. req' = [req EXCEPT ![r] = [req[r] EXCEPT !.phase = "arrived", !.via = s]]
    BY DEF Start, TypeOK
  <1>9. req' \in [Requests -> RequestType]
    BY <1>7, <1>8 DEF TypeOK
  <1>10. keep' = rest /\ busy' \subseteq Ships
    BY DEF Start, TypeOK
  <1> QED BY <1>6, <1>9, <1>10, TypeFrom

(* Step by step: a request comes.                                          *)
LEMMA ArriveType == ASSUME TypeOK, NEW r \in Requests, Arrive(r) PROVE TypeOK'
  <1>1. Steps /\ UNCHANGED <<agent, method>>
    BY DEF Arrive, Steps
  <1>2. CASE /\ req' = [req EXCEPT ![r].phase = "ended", ![r].answer = "error"]
             /\ UNCHANGED <<ship, keep, busy>>
    <2>1. [req[r] EXCEPT !.phase = "ended", !.answer = "error"] \in RequestType
      BY DEF TypeOK, RequestType
    <2>2. req' = [req EXCEPT ![r] = [req[r] EXCEPT !.phase = "ended", !.answer = "error"]]
      BY <1>2 DEF TypeOK
    <2>3. req' \in [Requests -> RequestType] /\ ship' \in [Ships -> ShipType]
      BY <1>2, <2>1, <2>2 DEF TypeOK
    <2> QED BY <1>1, <1>2, <2>3, TypeAside
  <1>3. ASSUME NEW i \in Usable, Start(r, keep[i], RemoveAt(keep, i))
        PROVE  TypeOK'
    <2>1. i \in DOMAIN keep /\ keep \in Seq(Ships) /\ IsInjective(keep) /\ keep[i] \in Ships
      BY ElementOfSeq, LenProperties DEF Usable, TypeOK
    <2>2. RemoveAt(keep, i) \in Seq(Ships) /\ IsInjective(RemoveAt(keep, i))
      BY <2>1, RemoveAtSet
    <2> QED BY <1>1, <1>3, <2>1, <2>2, StartType
  <1>4. ASSUME NEW s \in Ships, Start(r, s, keep)
        PROVE  TypeOK'
    BY <1>1, <1>4, StartType DEF TypeOK
  <1> QED BY <1>2, <1>3, <1>4 DEF Arrive

(* The fields of a connection which the steps below replace.               *)
LEMMA ShipUpdates ==
  ASSUME NEW sh \in ShipType, NEW c \in {"none", "connecting", "up", "closing", "closed"},
         NEW a \in SUBSET {"read", "write"}, NEW u \in Seq(Unit), NEW i \in Seq(Item)
  PROVE  /\ [sh EXCEPT !.conn = c, !.armed = a] \in ShipType
         /\ [sh EXCEPT !.units = u, !.armed = a] \in ShipType
         /\ [sh EXCEPT !.armed = a] \in ShipType
         /\ [sh EXCEPT !.inbox = i] \in ShipType
         /\ \A p : [sh EXCEPT !.owes = FALSE, !.inbox = i, !.gone = (p = "eof")] \in ShipType
         /\ [sh EXCEPT !.inbox = i, !.gone = TRUE] \in ShipType
  <1>1. [sh EXCEPT !.conn = c, !.armed = a] \in ShipType /\ [sh EXCEPT !.armed = a] \in ShipType
    BY DEF ShipType
  <1>2. [sh EXCEPT !.units = u, !.armed = a] \in ShipType /\ [sh EXCEPT !.inbox = i] \in ShipType
    BY DEF ShipType
  <1>3. \A p : [sh EXCEPT !.owes = FALSE, !.inbox = i, !.gone = (p = "eof")] \in ShipType
    BY DEF ShipType
  <1>4. [sh EXCEPT !.inbox = i, !.gone = TRUE] \in ShipType
    BY DEF ShipType
  <1> QED BY <1>1, <1>2, <1>3, <1>4

(* A connection is made or fails.                                          *)
LEMMA ConnectType ==
  ASSUME TypeOK, NEW s \in Ships, Connected(s) \/ ConnectFails(s)
  PROVE  TypeOK'
  <1>1. CASE Connected(s)
    <2>1. Steps
      BY <1>1 DEF Connected, Steps
    <2>2. CASE Dies("id")
      BY <2>1, <2>2, TypeDies
    <2>3. CASE /\ ship' = [ship EXCEPT ![s].conn = "up", ![s].armed = {"write"}]
               /\ UNCHANGED <<agent, method, req, keep, busy>>
      <3>1. [ship[s] EXCEPT !.conn = "up", !.armed = {"write"}] \in ShipType
        <4>1. ship[s] \in ShipType /\ ship[s].units \in Seq(Unit) /\ ship[s].inbox \in Seq(Item)
          BY DEF TypeOK, ShipType
        <4> QED BY <4>1, ShipUpdates
      <3>2. ship' = [ship EXCEPT ![s] = [ship[s] EXCEPT !.conn = "up", !.armed = {"write"}]]
        BY <2>3 DEF TypeOK
      <3>3. ship' \in [Ships -> ShipType] /\ req' \in [Requests -> RequestType]
        BY <2>3, <3>1, <3>2 DEF TypeOK
      <3> QED BY <2>1, <2>3, <3>3, TypeAside, Zenon
    <2> QED BY <1>1, <2>2, <2>3 DEF Connected
  <1>2. CASE ConnectFails(s)
    BY <1>2, GoneOf, TypeAside DEF ConnectFails, Steps, TypeOK
  <1> QED BY <1>1, <1>2

(* A part of the body comes.                                               *)
LEMMA BodyType == ASSUME TypeOK, NEW r \in Requests, req[r].via \in Ships, Body(r) PROVE TypeOK'
  <1> DEFINE s == req[r].via
             u == [kind |-> "body", of |-> r]
  <1>1. Steps
    BY DEF Body, Steps
  <1>2. CASE Dies("id")
    BY <1>1, <1>2, TypeDies
  <1>3. CASE ~Dies("id")
    <2>1. /\ req' = [req EXCEPT ![r].sent = TRUE]
          /\ ship' = [ship EXCEPT ![s].units = Append(@, u),
                                  ![s].armed = IF ship[s].conn = "up" THEN @ \cup {"write"} ELSE @]
          /\ UNCHANGED <<agent, method, keep, busy>>
      BY <1>3 DEF Body
    <2>2. u \in Unit /\ ship[s].units \in Seq(Unit)
      BY DEF Unit, TypeOK, ShipType
    <2>3. Append(ship[s].units, u) \in Seq(Unit)
      BY <2>2, AppendProperties
    <2>4. PICK a \in SUBSET {"read", "write"} :
            ship' = [ship EXCEPT ![s] = [ship[s] EXCEPT !.units = Append(@, u), !.armed = a]]
      <3>1. ship[s].armed \cup {"write"} \in SUBSET {"read", "write"} /\ ship[s].armed \in SUBSET {"read", "write"}
        BY DEF TypeOK, ShipType
      <3> HIDE DEF u, s
      <3> QED BY <2>1, <3>1 DEF TypeOK
    <2> HIDE DEF u
    <2>5. [ship[s] EXCEPT !.units = Append(@, u), !.armed = a] \in ShipType
      <3>1. ship[s] \in ShipType /\ ship[s].inbox \in Seq(Item)
        BY DEF TypeOK, ShipType
      <3> QED BY <2>3, <3>1, ShipUpdates
    <2>6. ship' \in [Ships -> ShipType]
      BY <2>4, <2>5 DEF TypeOK
    <2>7. req' \in [Requests -> RequestType]
      <3>1. [req[r] EXCEPT !.sent = TRUE] \in RequestType
        <4>1. req[r] \in RequestType
          BY DEF TypeOK
        <4> QED BY <4>1 DEF RequestType
      <3>2. req' = [req EXCEPT ![r] = [req[r] EXCEPT !.sent = TRUE]]
        BY <2>1 DEF TypeOK
      <3> QED BY <3>1, <3>2 DEF TypeOK
    <2> QED BY <1>1, <2>1, <2>6, <2>7, TypeAside
  <1> QED BY <1>2, <1>3

(* The body is too long.                                                   *)
LEMMA TooLongType == ASSUME TypeOK, NEW r \in Requests, req[r].via \in Ships, TooLong(r) PROVE TypeOK'
  <1>1. Steps
    BY DEF TooLong, Steps
  <1>2. CASE Dies("id")
    BY <1>1, <1>2, TypeDies
  <1>3. CASE ~Dies("id")
    <2>1. /\ ship' = [ship EXCEPT ![req[r].via] = Gone(req[r].via)]
          /\ req' = [req EXCEPT ![r].phase = "ended", ![r].headed = TRUE,
                       ![r].answer = IF req[r].headed THEN @ ELSE "error"]
          /\ UNCHANGED <<agent, method, keep, busy>>
      BY <1>3 DEF TooLong
    <2>2. ship' \in [Ships -> ShipType]
      BY <2>1, GoneOf DEF TypeOK
    <2>3. PICK a \in {req[r].answer, "error"} : req' = [req EXCEPT ![r] =
            [req[r] EXCEPT !.phase = "ended", !.headed = TRUE, !.answer = a]]
      BY <2>1 DEF TypeOK
    <2>4. [req[r] EXCEPT !.phase = "ended", !.headed = TRUE, !.answer = a] \in RequestType
      BY DEF TypeOK, RequestType
    <2>5. req' \in [Requests -> RequestType]
      BY <2>3, <2>4 DEF TypeOK
    <2> QED BY <1>1, <2>1, <2>2, <2>5, TypeAside
  <1> QED BY <1>2, <1>3

(* Resuming a read changes what is selected for and nothing else.          *)
LEMMA ResumeReadOf ==
  ASSUME NEW r \in Requests, NEW sh \in ShipType
  PROVE  /\ ResumeRead(r, sh) \in ShipType
         /\ ResumeRead(r, sh).conn = sh.conn /\ ResumeRead(r, sh).serves = sh.serves
         /\ ResumeRead(r, sh).state = sh.state /\ ResumeRead(r, sh).units = sh.units
  <1>1. sh.armed \cup {"read"} \in SUBSET {"read", "write"}
    BY DEF ShipType
  <1> QED BY <1>1 DEF ResumeRead, ShipType

(* The client reads, or the tour is returned.                              *)
LEMMA ClientType ==
  ASSUME TypeOK, NEW r \in Requests, ClientReads(r) \/ ReturnTour(r)
  PROVE  TypeOK'
  <1>1. Steps
    BY DEF ClientReads, ReturnTour, Steps
  <1>2. CASE Dies("resume")
    BY <1>1, <1>2, TypeDies
  <1>3. CASE ClientReads(r) /\ ~Dies("resume")
    <2>1. /\ req' = [req EXCEPT ![r].full = FALSE]
          /\ ship' = [ship EXCEPT ![req[r].via] = ResumeRead(r, @)]
          /\ UNCHANGED <<agent, method, keep, busy>>
      BY <1>3 DEF ClientReads
    <2>2. \A t \in Ships : ResumeRead(r, ship[t]) \in ShipType
      BY ResumeReadOf DEF TypeOK
    <2>3. ship' \in [Ships -> ShipType]
      BY <2>1, <2>2 DEF TypeOK
    <2>4. req' \in [Requests -> RequestType]
      <3>1. [req[r] EXCEPT !.full = FALSE] \in RequestType
        BY DEF TypeOK, RequestType
      <3>2. req' = [req EXCEPT ![r] = [req[r] EXCEPT !.full = FALSE]]
        BY <2>1 DEF TypeOK
      <3> QED BY <3>1, <3>2 DEF TypeOK
    <2> QED BY <1>1, <2>1, <2>3, <2>4, TypeAside
  <1>4. CASE ReturnTour(r)
    <2>1. req' \in [Requests -> RequestType]
      <3>1. [req[r] EXCEPT !.phase = "returned"] \in RequestType
        BY DEF TypeOK, RequestType
      <3>2. req' = [req EXCEPT ![r] = [req[r] EXCEPT !.phase = "returned"]]
        BY <1>4 DEF ReturnTour, TypeOK
      <3> QED BY <3>1, <3>2 DEF TypeOK
    <2> QED BY <1>1, <1>4, <2>1, TypeAside DEF ReturnTour, TypeOK
  <1> QED BY <1>2, <1>3, <1>4

(* The client leaves.                                                      *)
LEMMA DisconnectType == ASSUME TypeOK, NEW r \in Requests, Disconnect(r) PROVE TypeOK'
  <1> DEFINE s == req[r].via
             left == [req[r] EXCEPT !.client = FALSE, !.full = FALSE]
             q == IF left.phase = "ended" THEN End(left) ELSE left
  <1>1. Steps
    BY DEF Disconnect, Steps
  <1>2. CASE Dies("resume")
    BY <1>1, <1>2, TypeDies
  <1>3. CASE ~Dies("resume")
    <2>1. /\ req' = [req EXCEPT ![r] = q]
          /\ ship' = IF s = None THEN ship
                     ELSE [ship EXCEPT ![s] =
                             IF req[r].phase = "arrived" /\ method[r] = "post"
                             THEN Gone(s) ELSE ResumeRead(r, @)]
          /\ UNCHANGED <<agent, method, keep, busy>>
      BY <1>3 DEF Disconnect
    <2>2. left \in RequestType
      BY DEF TypeOK, RequestType
    <2>3. q \in RequestType
      BY <2>2, EndOf
    <2>4. req' \in [Requests -> RequestType]
      BY <2>1, <2>3 DEF TypeOK
    <2>5. \A t \in Ships : ResumeRead(r, ship[t]) \in ShipType /\ Gone(t) \in ShipType
      BY ResumeReadOf, GoneOf DEF TypeOK
    <2>6. ship' \in [Ships -> ShipType]
      BY <2>1, <2>5 DEF TypeOK
    <2> QED BY <1>1, <2>1, <2>4, <2>6, TypeAside
  <1> QED BY <1>2, <1>3

(* What a unit that arrives at the backend changes there.                  *)
LEMMA TakeOf ==
  ASSUME NEW sh \in ShipType, NEW u \in Unit
  PROVE  /\ Take(sh, u) \in ShipType
         /\ Take(sh, u).conn = sh.conn /\ Take(sh, u).serves = sh.serves
         /\ Take(sh, u).state = sh.state /\ Take(sh, u).units = sh.units
         /\ Take(sh, u).inbox = sh.inbox /\ Take(sh, u).armed = sh.armed
  <1>1. u.of \in Requests
    BY DEF Unit
  <1>2. CASE u.kind # "body" /\ sh.whole
    <2>1. (u.kind = "whole") \in BOOLEAN
      OBVIOUS
    <2> QED BY <1>1, <1>2, <2>1 DEF Take, ShipType
  <1>3. CASE ~(u.kind # "body" /\ sh.whole)
    BY <1>3 DEF Take, ShipType
  <1> QED BY <1>2, <1>3

(* A unit is written.                                                      *)
LEMMA WriteType == ASSUME TypeOK, NEW s \in Ships, Write(s) PROVE TypeOK'
  <1> DEFINE u == Head(ship[s].units)
             ops == IF u.kind # "header" THEN ship[s].armed \cup {"read"} ELSE ship[s].armed
             rest == Tail(ship[s].units)
             left == IF rest = <<>> THEN ops \ {"write"} ELSE ops
  <1>1. Steps
    BY DEF Write, Steps
  <1>2. CASE Dies("consumed")
    BY <1>1, <1>2, TypeDies
  <1>3. CASE ~Dies("consumed")
    <2>1. /\ ship' = [ship EXCEPT ![s] = [Take(@, u) EXCEPT !.units = rest, !.armed = left]]
          /\ UNCHANGED <<agent, method, req, keep, busy>>
      BY <1>3 DEF Write
    <2>2. ship[s] \in ShipType /\ ship[s].units \in Seq(Unit) /\ ship[s].units # <<>>
          /\ ship[s].armed \subseteq {"read", "write"}
      BY DEF Write, TypeOK, ShipType
    <2>3. u \in Unit /\ rest \in Seq(Unit)
      BY <2>2, HeadTailProperties
    <2>4. left \in SUBSET {"read", "write"}
      BY <2>2
    <2>5. Take(ship[s], u) \in ShipType
      BY <2>2, <2>3, TakeOf
    <2> HIDE DEF u, rest, left
    <2>6. [Take(ship[s], u) EXCEPT !.units = rest, !.armed = left] \in ShipType
      BY <2>3, <2>4, <2>5 DEF ShipType
    <2>7. ship' \in [Ships -> ShipType] /\ req' \in [Requests -> RequestType]
      BY <2>1, <2>6 DEF TypeOK
    <2> QED BY <1>1, <2>1, <2>7, TypeAside
  <1> QED BY <1>2, <1>3

(* Sequences of up to three elements, which is as long as the answers are. *)
LEMMA SmallSeqs ==
  ASSUME NEW S, NEW x \in S, NEW y \in S, NEW z \in S
  PROVE  <<x>> \in Seq(S) /\ <<x, y>> \in Seq(S) /\ <<x, y, z>> \in Seq(S)
  OBVIOUS

(* What a backend says is a sequence of items.                             *)
LEMMA SaysOf ==
  ASSUME TypeOK, NEW s \in Ships, NEW r \in Requests \cup {None},
         NEW kinds \in Seq({"empty", "head", "data", "last", "over", "eof"})
  PROVE  Says(s, kinds, r) \in Seq(Item)
  <1> DEFINE said == [i \in DOMAIN kinds |-> [kind |-> kinds[i], to |-> r]]
  <1>1. Len(kinds) \in Nat /\ DOMAIN kinds = 1 .. Len(kinds)
        /\ \A i \in DOMAIN kinds : kinds[i] \in {"empty", "head", "data", "last", "over", "eof"}
    BY LenProperties, ElementOfSeq
  <1>2. \A i \in DOMAIN kinds : [kind |-> kinds[i], to |-> r] \in Item
    BY <1>1 DEF Item
  <1>3. said \in [1 .. Len(kinds) -> Item]
    BY <1>1, <1>2
  <1>4. said \in Seq(Item)
    BY <1>1, <1>3, SeqDef
  <1>5. ship[s].inbox \in Seq(Item)
    BY DEF TypeOK, ShipType
  <1> HIDE DEF said
  <1>6. ship[s].inbox \o said \in Seq(Item)
    BY <1>4, <1>5, ConcatProperties
  <1> QED BY <1>6 DEF Says, said

(* The kinds of items an answer is made of.                                *)
Kinds == {"empty", "head", "data", "last", "over", "eof"}

(* Each of its answers is a sequence of kinds.                             *)
LEMMA AnswersOf ==
  ASSUME NEW r, NEW a \in Answers(r)
  PROVE  a \in Seq(Kinds) /\ (Last(a) = "eof") \in BOOLEAN
  <1>1. \/ a = <<"head">> \/ a = <<"empty">> \/ a = <<"head", "data", "last">>
        \/ a = <<"head", "over">> \/ a = <<"head", "data", "eof">>
    BY DEF Answers
  <1>2. a \in Seq(Kinds)
    BY <1>1, SmallSeqs DEF Kinds
  <1>3. (Last(a) = "eof") \in BOOLEAN
    OBVIOUS
  <1> QED BY <1>2, <1>3

(* The backend answers, closes or says what nobody asked for.              *)
LEMMA BackendType ==
  ASSUME TypeOK, NEW s \in Ships, UpAnswers(s) \/ UpCloses(s) \/ UpStray(s)
  PROVE  TypeOK'
  <1>1. Steps
    BY DEF UpAnswers, UpCloses, UpStray, Steps
  <1>2. UNCHANGED <<agent, method, req, keep, busy>>
    BY DEF UpAnswers, UpCloses, UpStray
  <1>3. ship[s] \in ShipType /\ ship[s].heard \in Requests \cup {None}
        /\ ship[s].armed \in SUBSET {"read", "write"} /\ ship[s].conn \in {"none", "connecting", "up", "closing", "closed"}
        /\ ship[s].units \in Seq(Unit)
    BY DEF TypeOK, ShipType
  <1>4. PICK sh \in ShipType : ship' = [ship EXCEPT ![s] = sh]
    <2>1. CASE UpAnswers(s)
      <3>1. PICK a \in Answers(ship[s].heard) :
              ship' = [ship EXCEPT ![s].owes = FALSE, ![s].inbox = Says(s, a, ship[s].heard),
                                   ![s].gone = Last(a) = "eof"]
        BY <2>1 DEF UpAnswers
      <3>2. a \in Seq(Kinds) /\ (Last(a) = "eof") \in BOOLEAN
        BY AnswersOf
      <3>3. Says(s, a, ship[s].heard) \in Seq(Item)
        BY <1>3, <3>2, SaysOf DEF Kinds
      <3>4. [ship[s] EXCEPT !.owes = FALSE, !.inbox = Says(s, a, ship[s].heard),
                            !.gone = Last(a) = "eof"] \in ShipType
        <4>1. PICK p : p = Last(a)
          OBVIOUS
        <4>2. PICK i \in Seq(Item) : i = Says(s, a, ship[s].heard)
          BY <3>3, Zenon
        <4>3. [ship[s] EXCEPT !.owes = FALSE, !.inbox = i, !.gone = (p = "eof")] \in ShipType
          BY <1>3, ShipUpdates
        <4> QED BY <4>1, <4>2, <4>3
      <3>5. ship' = [ship EXCEPT ![s] = [ship[s] EXCEPT !.owes = FALSE,
                       !.inbox = Says(s, a, ship[s].heard), !.gone = Last(a) = "eof"]]
        BY <3>1 DEF TypeOK
      <3> QED BY <3>4, <3>5
    <2>2. CASE UpCloses(s)
      <3>1. ship' = [ship EXCEPT ![s] = [ship[s] EXCEPT !.inbox = Says(s, <<"eof">>, None), !.gone = TRUE]]
        BY <2>2 DEF UpCloses, TypeOK
      <3>2. Says(s, <<"eof">>, None) \in Seq(Item)
        BY SaysOf, SmallSeqs
      <3> QED BY <1>3, <3>1, <3>2, ShipUpdates
    <2>3. CASE UpStray(s)
      <3>1. ship' = [ship EXCEPT ![s] = [ship[s] EXCEPT !.inbox = Says(s, <<"empty">>, None)]]
        BY <2>3 DEF UpStray, TypeOK
      <3>2. Says(s, <<"empty">>, None) \in Seq(Item)
        BY SaysOf, SmallSeqs
      <3> QED BY <1>3, <3>1, <3>2, ShipUpdates
    <2> QED BY <2>1, <2>2, <2>3
  <1>5. ship' \in [Ships -> ShipType] /\ req' \in [Requests -> RequestType]
    BY <1>2, <1>4 DEF TypeOK
  <1> QED BY <1>1, <1>2, <1>5, TypeAside

(* What reading does: the connection is dropped with the answer of whom it *)
(* serves, or kept, or goes on.                                            *)
GoesOn(s, sh, r, q) ==
  /\ req' = [req EXCEPT ![r] = q] /\ ship' = [ship EXCEPT ![s] = sh]
  /\ UNCHANGED <<keep, busy>>

(* What a read comes to.                                                   *)
Outcome(s, sh, r, q) ==
  /\ q \in RequestType /\ q.via = req[r].via
  /\ \/ /\ q.phase \in {"ended", "returned"} \/ (q = req[r] /\ q.phase # "arrived")
        /\ DropShip(s, sh, r, q)
     \/ KeepShip(s, sh, r, q)
     \/ /\ q.phase = req[r].phase
        /\ \E x \in ShipType : x.conn = sh.conn /\ x.serves = r /\ GoesOn(s, x, r, q)

(* What a read comes to: the connection is dropped, or kept, or goes on,   *)
(* with the record its request then has.                                   *)
LEMMA ReadShapes ==
  ASSUME TypeOK, NEW s \in Ships, Read(s), ~Dies("stray"), ~Dies("id"),
         NEW r, r = ship[s].serves,
         NEW sh, sh = [ship[s] EXCEPT !.inbox = Tail(@)]
  PROVE  /\ UNCHANGED <<agent, method>> /\ ship[s].conn \in {"up", "closing"}
         /\ sh \in ShipType
         /\ \/ r = None /\ DropShip(s, sh, r, NewRequest)
            \/ /\ r \in Requests /\ req[r].phase # "returned"
               /\ \E q : Outcome(s, sh, r, q)
  <1> DEFINE item == Head(ship[s].inbox)
  <1>1. ship[s] \in ShipType /\ ship[s].inbox \in Seq(Item) /\ ship[s].inbox # <<>>
        /\ r \in Requests \cup {None}
    BY DEF Read, TypeOK, ShipType
  <1>2. item \in Item /\ Tail(ship[s].inbox) \in Seq(Item)
    BY <1>1, HeadTailProperties
  <1>3. sh \in ShipType /\ sh.conn = ship[s].conn /\ sh.serves = r
    BY <1>1, <1>2 DEF ShipType
  <1>4. /\ UNCHANGED <<agent, method>> /\ ship[s].conn \in {"up", "closing"}
        /\ Handle(s, sh, item, r)
        /\ r = None => item.kind = "eof"
        /\ r # None => req[r].phase # "returned"
    BY DEF Read
  <1> HIDE DEF item
  <1>5. CASE r = None
    <2>1. DropShip(s, sh, r, NewRequest)
      BY <1>4, <1>5 DEF Handle
    <2> QED BY <1>3, <1>4, <1>5, <2>1
  <1>6. CASE r \in Requests
    <2>1. req[r] \in RequestType
      BY <1>6 DEF TypeOK
    <2>2. End(req[r]) \in RequestType /\ End(req[r]).via = req[r].via /\ End(req[r]).phase \in {"ended", "returned"}
      BY <2>1, EndOf
    <2>3. CASE item.kind = "eof"
      <3>1. PICK q : /\ DropShip(s, sh, r, q)
                     /\ \/ q = End(req[r])
                        \/ \E a \in {"error", req[r].answer} : q = [End(req[r]) EXCEPT !.answer = a]
        <4>1. CASE req[r].headed
          BY <1>4, <1>6, <2>3, <4>1, NoneIsNoShip DEF Handle
        <4>2. CASE ~req[r].headed
          <5>1. DropShip(s, sh, r, [End(req[r]) EXCEPT !.answer = IF req[r].client THEN "error" ELSE @])
            BY <1>4, <1>6, <2>3, <4>2, NoneIsNoShip DEF Handle
          <5>2. End(req[r]).answer = req[r].answer
            BY <2>1, EndOf
          <5> QED BY <5>1, <5>2
        <4> QED BY <4>1, <4>2
      <3>2. req[r].answer \in {"none", "own", "stray", "error", "bare", "mixed"}
        BY <2>1 DEF RequestType
      <3>3. q \in RequestType /\ q.via = req[r].via /\ q.phase \in {"ended", "returned"}
        BY <2>2, <3>1, <3>2 DEF RequestType
      <3>4. Outcome(s, sh, r, q)
        BY <3>1, <3>3 DEF Outcome
      <3> QED BY <1>3, <1>4, <1>6, NoneIsNoShip, <3>4
    <2>4. CASE item.kind # "eof" /\ sh.state = "header"
      <3>1. Headed(r, item) \in RequestType /\ Headed(r, item).phase = req[r].phase
            /\ Headed(r, item).via = req[r].via
        BY <1>2, <1>6, HeadedOf
      <3>2. CASE item.kind = "empty"
        <4>1. KeepShip(s, sh, r, Headed(r, item))
          BY <1>4, <2>4, <3>2 DEF Handle
        <4>2. Outcome(s, sh, r, Headed(r, item))
          BY <3>1, <4>1 DEF Outcome
        <4> QED BY <1>3, <1>4, <1>6, NoneIsNoShip, <4>2
      <3>3. CASE item.kind # "empty"
        <4>1. GoesOn(s, Answering(sh), r, Headed(r, item))
          BY <1>4, <2>4, <3>3 DEF Handle, GoesOn
        <4>2. Answering(sh) \in ShipType /\ Answering(sh).conn = sh.conn /\ Answering(sh).serves = r
          BY <1>3 DEF Answering, ShipType
        <4>3. Outcome(s, sh, r, Headed(r, item))
          BY <3>1, <4>1, <4>2 DEF Outcome
        <4> QED BY <1>3, <1>4, <1>6, NoneIsNoShip, <4>3
      <3> QED BY <3>2, <3>3
    <2>5. CASE item.kind # "eof" /\ sh.state # "header"
      <3>1. CASE item.kind = "last"
        <4>1. PICK full \in {FALSE, req[r].client} : KeepShip(s, sh, r, [Posted(r) EXCEPT !.full = full])
          BY <1>4, <2>5, <3>1 DEF Handle
        <4>2. full \in BOOLEAN
          BY <2>1 DEF RequestType
        <4>3. [Posted(r) EXCEPT !.full = full] \in RequestType
              /\ [Posted(r) EXCEPT !.full = full].via = req[r].via
          BY <1>6, <4>2, PostedOf
        <4>4. Outcome(s, sh, r, [Posted(r) EXCEPT !.full = full])
          BY <4>1, <4>3 DEF Outcome
        <4> QED BY <1>3, <1>4, <1>6, NoneIsNoShip, <4>4
      <3>2. CASE item.kind = "over"
        <4>1. DropShip(s, sh, r, Failed(r))
          BY <1>4, <2>5, <3>2 DEF Handle
        <4>2. Failed(r) \in RequestType /\ Failed(r).via = req[r].via
              /\ (Failed(r).phase \in {"ended", "returned"} \/ (Failed(r) = req[r] /\ Failed(r).phase # "arrived"))
          BY <1>6, FailedOf
        <4>3. Outcome(s, sh, r, Failed(r))
          BY <4>1, <4>2 DEF Outcome
        <4> QED BY <1>3, <1>4, <1>6, NoneIsNoShip, <4>3
      <3>3. CASE item.kind \notin {"last", "over"}
        <4>1. PICK full \in {FALSE, req[r].client} :
                GoesOn(s, IF full THEN [sh EXCEPT !.armed = {}] ELSE sh, r, [Posted(r) EXCEPT !.full = full])
          BY <1>4, <2>5, <3>3 DEF Handle, GoesOn
        <4>2. full \in BOOLEAN
          BY <2>1 DEF RequestType
        <4>3. [Posted(r) EXCEPT !.full = full] \in RequestType
              /\ [Posted(r) EXCEPT !.full = full].via = req[r].via
              /\ [Posted(r) EXCEPT !.full = full].phase = req[r].phase
          BY <1>6, <4>2, PostedOf
        <4>4. PICK x : x = IF full THEN [sh EXCEPT !.armed = {}] ELSE sh
          OBVIOUS
        <4>5. x \in ShipType /\ x.conn = sh.conn /\ x.serves = r
          BY <1>3, <4>4 DEF ShipType
        <4>6. Outcome(s, sh, r, [Posted(r) EXCEPT !.full = full])
          BY <4>1, <4>3, <4>4, <4>5 DEF Outcome
        <4> QED BY <1>3, <1>4, <1>6, NoneIsNoShip, <4>6
      <3> QED BY <3>1, <3>2, <3>3
    <2> QED BY <2>3, <2>4, <2>5
  <1> QED BY <1>1, <1>5, <1>6

(* A dropped connection is closing and serves nobody.                      *)
LEMMA DroppedOf ==
  ASSUME NEW sh \in ShipType
  PROVE  [sh EXCEPT !.conn = "closing", !.armed = {}, !.serves = None] \in ShipType
  BY DEF ShipType

(* The connection is dropped.                                              *)
LEMMA DropType ==
  ASSUME TypeOK, Steps, UNCHANGED <<agent, method>>, NEW s \in Ships, NEW sh \in ShipType,
         NEW r \in Requests \cup {None}, NEW q, r # None => q \in RequestType,
         DropShip(s, sh, r, q)
  PROVE  TypeOK'
  <1>1. [sh EXCEPT !.conn = "closing", !.armed = {}, !.serves = None] \in ShipType
    BY DroppedOf
  <1>2. ship' = [ship EXCEPT ![s] = [sh EXCEPT !.conn = "closing", !.armed = {}, !.serves = None]]
        /\ req' = (IF r = None THEN req ELSE [req EXCEPT ![r] = q])
        /\ UNCHANGED <<keep, busy>>
    BY DEF DropShip
  <1>3. ship' \in [Ships -> ShipType]
    BY <1>1, <1>2 DEF TypeOK
  <1>4. req' \in [Requests -> RequestType]
    BY <1>2 DEF TypeOK
  <1> QED BY <1>2, <1>3, <1>4, TypeAside

(* A kept one is open and serves nobody.                                   *)
LEMMA KeptOf ==
  ASSUME NEW sh \in ShipType
  PROVE  /\ Kept(sh) \in ShipType /\ Kept(sh).conn = sh.conn /\ Kept(sh).serves = None
         /\ Kept(sh).state = "header"
  BY DEF Kept, ShipType

(* A connection that serves somebody is not kept, so that it can be.       *)
LEMMA KeepType ==
  ASSUME TypeOK, Steps, UNCHANGED <<agent, method>>, NEW s \in Ships, s \notin ToSet(keep),
         NEW sh \in ShipType, NEW r \in Requests, NEW q \in RequestType, KeepShip(s, sh, r, q)
  PROVE  TypeOK'
  <1>1. ship' = [ship EXCEPT ![s] = Kept(sh)] /\ req' = [req EXCEPT ![r] = End(q)]
        /\ keep' = Append(keep, s) /\ busy' = busy \ {s}
    BY DEF KeepShip
  <1>2. ship' \in [Ships -> ShipType]
    BY <1>1, KeptOf DEF TypeOK
  <1>3. req' \in [Requests -> RequestType]
    BY <1>1, EndOf DEF TypeOK
  <1>4. keep \in Seq(Ships) /\ IsInjective(keep) /\ busy \subseteq Ships
    BY DEF TypeOK
  <1>5. keep' \in Seq(Ships) /\ IsInjective(keep')
    BY <1>1, <1>4, AppendProperties, AppendInjectiveSeq
  <1>6. busy' \subseteq Ships
    BY <1>1, <1>4
  <1> QED BY <1>2, <1>3, <1>5, <1>6, TypeFrom

(* An item is read.                                                        *)
LEMMA ReadType ==
  ASSUME TypeOK, NEW s \in Ships, Read(s), ship[s].serves # None => s \notin ToSet(keep)
  PROVE  TypeOK'
  <1>1. Steps
    BY DEF Read, Steps
  <1>2. CASE Dies("stray") \/ Dies("id")
    BY <1>1, <1>2, TypeDies
  <1>3. CASE ~Dies("stray") /\ ~Dies("id")
    <2>1. PICK r : r = ship[s].serves
      OBVIOUS
    <2>2. PICK sh : sh = [ship[s] EXCEPT !.inbox = Tail(@)]
      OBVIOUS
    <2>3. /\ UNCHANGED <<agent, method>> /\ sh \in ShipType
          /\ \/ r = None /\ DropShip(s, sh, r, NewRequest)
             \/ r \in Requests /\ \E q : Outcome(s, sh, r, q)
      BY <1>3, <2>1, <2>2, ReadShapes
    <2>4. CASE r = None /\ DropShip(s, sh, r, NewRequest)
      BY <1>1, <2>3, <2>4, DropType
    <2>5. ASSUME r \in Requests, NEW q, Outcome(s, sh, r, q)
          PROVE  TypeOK'
      <3>1. q \in RequestType
        BY <2>5 DEF Outcome
      <3>2. CASE DropShip(s, sh, r, q)
        BY <1>1, <2>3, <2>5, <3>1, <3>2, DropType
      <3>3. CASE KeepShip(s, sh, r, q)
        BY <1>1, <2>1, <2>3, <2>5, <3>1, <3>3, KeepType, NoneIsNoShip
      <3>4. ASSUME NEW x \in ShipType, GoesOn(s, x, r, q)
            PROVE  TypeOK'
        <4>1. ship' \in [Ships -> ShipType] /\ req' \in [Requests -> RequestType]
          BY <2>5, <3>1, <3>4 DEF GoesOn, TypeOK
        <4> QED BY <1>1, <2>3, <3>4, <4>1, TypeAside DEF GoesOn
      <3> QED BY <2>5, <3>2, <3>3, <3>4 DEF Outcome
    <2> QED BY <2>3, <2>4, <2>5
  <1> QED BY <1>2, <1>3

(* The connection times out.                                               *)
LEMMA TimesOutType == ASSUME TypeOK, NEW s \in Ships, TimesOut(s) PROVE TypeOK'
  <1>1. Steps /\ UNCHANGED <<agent, method>>
    BY DEF TimesOut, Steps
  <1>2. PICK r : r = ship[s].serves
    OBVIOUS
  <1>3. DropShip(s, ship[s], r, IF r = None THEN NewRequest ELSE Failed(r))
    BY <1>2 DEF TimesOut
  <1>4. r \in Requests \cup {None} /\ ship[s] \in ShipType
    BY <1>2 DEF TypeOK, ShipType
  <1>5. r # None => (IF r = None THEN NewRequest ELSE Failed(r)) \in RequestType
    BY <1>4, FailedOf
  <1> QED BY <1>1, <1>3, <1>4, <1>5, DropType

(* The connection is closed.                                               *)
LEMMA ClosedType == ASSUME TypeOK, NEW s \in Ships, Closed(s) PROVE TypeOK'
  <1>1. Steps
    BY DEF Closed, Steps
  <1>2. CASE Dies("consumed") \/ Dies("id")
    BY <1>1, <1>2, TypeDies
  <1>3. CASE ~Dies("consumed") /\ ~Dies("id")
    <2>1. PICK r : r = ship[s].serves
      OBVIOUS
    <2>2. /\ ship' = [ship EXCEPT ![s] = [NewShip EXCEPT !.conn = "closed"]]
          /\ req' = (IF r = None THEN req ELSE [req EXCEPT ![r] = Failed(r)])
          /\ keep' = RemoveFirst(keep, s) /\ busy' = busy \ {s}
          /\ UNCHANGED <<agent, method>>
      BY <1>3, <2>1 DEF Closed, OutOfLists
    <2>3. r \in Requests \cup {None}
      BY <2>1 DEF TypeOK, ShipType
    <2>4. [NewShip EXCEPT !.conn = "closed"] \in ShipType
      BY EmptySeq DEF NewShip, ShipType
    <2>5. ship' \in [Ships -> ShipType]
      BY <2>2, <2>4 DEF TypeOK
    <2>6. req' \in [Requests -> RequestType]
      BY <2>2, <2>3, FailedOf DEF TypeOK
    <2>7. keep' \in Seq(Ships) /\ IsInjective(keep') /\ busy' \subseteq Ships
      BY <2>2, RemoveFirstSet DEF TypeOK
    <2> QED BY <1>1, <2>2, <2>5, <2>6, <2>7, TypeFrom
  <1> QED BY <1>2, <1>3

(* Every step is well typed, provided two facts of the store: who is       *)
(* forwarded has a connection, and who serves is not on the keep list.     *)
LEMMA TypeStep ==
  ASSUME TypeOK, [Next]_vars,
         \A r \in Requests : req[r].phase = "arrived" => req[r].via \in Ships,
         \A s \in Ships : ship[s].serves # None => s \notin ToSet(keep)
  PROVE  TypeOK'
  <1>1. CASE UNCHANGED vars
    BY <1>1 DEF vars, faultVars, TypeOK
  <1>2. ASSUME NEW r \in Requests,
               Body(r) \/ ClientReads(r) \/ ReturnTour(r) \/ Arrive(r) \/ TooLong(r) \/ Disconnect(r)
        PROVE  TypeOK'
    <2>1. CASE Body(r)
      BY <2>1, BodyType DEF Body
    <2>2. CASE TooLong(r)
      BY <2>2, TooLongType DEF TooLong
    <2> QED BY <1>2, <2>1, <2>2, ClientType, ArriveType, DisconnectType
  <1>3. ASSUME NEW s \in Ships,
               \/ Connected(s) \/ Write(s) \/ UpAnswers(s) \/ Read(s) \/ TimesOut(s) \/ Closed(s)
               \/ ConnectFails(s) \/ UpCloses(s) \/ UpStray(s)
        PROVE  TypeOK'
    BY <1>3, ConnectType, WriteType, BackendType, ReadType, TimesOutType, ClosedType
  <1> QED BY <1>1, <1>2, <1>3 DEF Next, Internal, External

-----------------------------------------------------------------------------
(* The store of connections: its inductive invariant, and StoreKept.       *)

(* Whoever a connection serves was forwarded on it; the connection is      *)
(* busy, and it is being closed when the request has its end already.      *)
Served ==
  \A s \in Ships : ship[s].serves # None =>
    /\ s \in busy
    /\ req[ship[s].serves].via = s
    /\ \/ req[ship[s].serves].phase = "arrived"
       \/ req[ship[s].serves].phase = "ended" /\ ship[s].conn = "closing"

(* A kept connection is up or being closed, a busy one serves somebody or  *)
(* is being closed, one that was never used is new.                        *)
Listings ==
  /\ \A s \in ToSet(keep) : ship[s].conn \in {"up", "closing"}
  /\ \A s \in busy : ship[s].conn # "closing" => ship[s].serves # None
  /\ \A s \in Ships : ship[s].conn = "none" => ship[s] = NewShip

(* A request that is forwarded has a connection.                           *)
Forwarded == \A r \in Requests : req[r].phase = "arrived" => req[r].via \in Ships

(* The inductive invariant of the store.  StoreKept alone is not           *)
(* inductive: what a step does to a connection depends on whom it serves,  *)
(* where it is listed and which request is forwarded to it.                *)
StoreInv == StoreKept /\ Served /\ Listings /\ Forwarded

(* And the store is in order.                                              *)
LEMMA StoreInit == Init => StoreInv
  <1> SUFFICES ASSUME Init PROVE StoreInv
    OBVIOUS
  <1>1. TypeOK
    BY TypeInit
  <1>2. ToSet(keep) = {} /\ busy = {} /\ Listed = {}
    BY DEF Init, ToSet, Listed
  <1>3. \A s \in Ships : ship[s] = NewShip
    BY DEF Init
  <1>4. \A r \in Requests : req[r] = NewRequest
    BY DEF Init
  <1>5. StoreConsistent
    <2>1. {s \in Ships : ship[s].conn \notin {"none", "closed"}} = {}
      BY <1>3 DEF NewShip
    <2>2. \A s, t \in Ships : ship[s].serves = None
      BY <1>3 DEF NewShip
    <2>3. MaxShips > 0 => Cardinality(Listed) <= MaxShips
      BY <1>2, FS_EmptySet, WarpAssumption
    <2> QED BY <1>2, <2>1, <2>2, <2>3 DEF StoreConsistent
  <1>6. TourHasShip /\ Forwarded
    BY <1>4 DEF TourHasShip, Forwarded, NewRequest
  <1>7. Served /\ Listings
    <2>1. \A s \in Ships : ship[s].serves = None
      BY <1>3 DEF NewShip
    <2> QED BY <1>2, <1>3, <2>1 DEF Served, Listings
  <1> QED BY <1>1, <1>5, <1>6, <1>7 DEF StoreInv, StoreKept

(* The ships are finitely many.                                            *)
LEMMA ShipsAreFinite == IsFiniteSet(Ships)
  BY FS_Interval, WarpAssumption DEF Ships, Requests

(* The lists do not outgrow the limit when nothing is added to them.       *)
LEMMA FewerListed ==
  ASSUME TypeOK, StoreConsistent, Listed' \subseteq Listed
  PROVE  MaxShips > 0 => Cardinality(Listed') <= MaxShips
  <1>1. IsFiniteSet(Ships)
    BY FS_Interval, WarpAssumption DEF Ships, Requests
  <1>2. Listed \subseteq Ships
    BY DEF StoreConsistent
  <1>3. IsFiniteSet(Listed)
    BY <1>1, <1>2, FS_Subset
  <1>4. IsFiniteSet(Listed') /\ Cardinality(Listed') <= Cardinality(Listed)
    BY <1>3, FS_Subset
  <1>5. Cardinality(Listed) \in Nat /\ Cardinality(Listed') \in Nat
    BY <1>3, <1>4, FS_CardinalityType
  <1> QED BY <1>4, <1>5, WarpAssumption DEF StoreConsistent

(* Steps that leave the lists alone, and close at the most one connection, *)
(* which serves somebody: whom they end is served by the one they close.   *)
Mild ==
  /\ UNCHANGED <<keep, busy>>
  /\ \E s : \A t \in Ships : t # s => ship'[t] = ship[t]
  /\ \A s \in Ships :
       /\ ship'[s].serves = ship[s].serves
       /\ \/ ship'[s] = ship[s]
          \/ ship[s].conn \in {"up", "closing"} /\ ship'[s].conn = ship[s].conn
          \/ ship[s].conn = "connecting" /\ ship'[s].conn = "connecting"
          \/ ship[s].conn = "connecting" /\ ship'[s].conn \in {"up", "closing"}
          \/ ship[s].conn = "up" /\ ship'[s].conn = "closing" /\ ship[s].serves # None
  /\ \A r \in Requests :
       /\ req'[r].via = req[r].via
       /\ \/ req'[r].phase = req[r].phase
          \/ /\ req[r].phase = "arrived" /\ req'[r].phase = "ended"
             /\ ship'[req[r].via].conn = "closing"
          \/ /\ req[r].phase = "ended" /\ req'[r].phase = "returned"
             /\ \A s \in Ships : ship[s].serves # r

(* A mild step keeps the invariant of the store.                           *)
LEMMA MildStep ==
  ASSUME StoreInv, TypeOK', Mild
  PROVE  StoreInv'
  <1>1. \A s \in Ships : ship[s] \in ShipType /\ ship'[s] \in ShipType
    BY DEF StoreInv, StoreKept, TypeOK
  <1>2. \A s \in Ships : ship[s].serves \in Requests \cup {None}
    BY <1>1 DEF ShipType
  <1>3. \A s \in Ships : ship'[s].conn \in {"none", "closed"} <=> ship[s].conn \in {"none", "closed"}
    BY DEF Mild
  <1>4. Listed' = Listed
    BY DEF Listed, Mild
  <1>5. StoreConsistent'
    <2>1. Listed' = {s \in Ships : ship'[s].conn \notin {"none", "closed"}}
      BY <1>3, <1>4 DEF StoreInv, StoreKept, StoreConsistent
    <2>2. \A s \in ToSet(keep') : s \notin busy' /\ ship'[s].serves = None
      <3>1. keep' = keep /\ busy' = busy /\ ToSet(keep) \subseteq Ships
        BY DEF Mild, StoreInv, StoreKept, StoreConsistent, Listed
      <3> QED BY <3>1 DEF Mild, StoreInv, StoreKept, StoreConsistent
    <2>3. \A s, t \in Ships : ship'[s].serves = ship'[t].serves => s = t \/ ship'[s].serves = None
      BY DEF Mild, StoreInv, StoreKept, StoreConsistent
    <2>4. MaxShips > 0 => Cardinality(Listed') <= MaxShips
      BY <1>4, FewerListed DEF StoreInv, StoreKept
    <2> QED BY <2>1, <2>2, <2>3, <2>4 DEF StoreConsistent
  <1>6. TourHasShip'
    <2> SUFFICES ASSUME NEW r \in Requests, req'[r].phase = "arrived"
                 PROVE  ship'[req'[r].via].conn # "closed" /\ ship'[req'[r].via].serves = r
      BY DEF TourHasShip
    <2>1. req[r].phase = "arrived" /\ req'[r].via = req[r].via /\ req[r].via \in Ships
      BY DEF Mild, StoreInv, Forwarded
    <2>2. ship[req[r].via].conn # "closed" /\ ship[req[r].via].serves = r
      BY <2>1 DEF StoreInv, StoreKept, TourHasShip
    <2> QED BY <2>1, <2>2 DEF Mild
  <1>7. Forwarded'
    BY DEF Forwarded, Mild, StoreInv
  <1>8. Served'
    <2> SUFFICES ASSUME NEW s \in Ships, ship'[s].serves # None
                 PROVE  /\ s \in busy'
                        /\ req'[ship'[s].serves].via = s
                        /\ \/ req'[ship'[s].serves].phase = "arrived"
                           \/ req'[ship'[s].serves].phase = "ended" /\ ship'[s].conn = "closing"
      BY DEF Served
    <2>1. PICK r \in Requests : r = ship[s].serves
      BY <1>2 DEF Mild
    <2>2. ship'[s].serves = r /\ s \in busy' /\ req[r].via = s /\ req'[r].via = s
          /\ (req[r].phase = "arrived" \/ (req[r].phase = "ended" /\ ship[s].conn = "closing"))
      <3>1. s \in busy /\ req[r].via = s
            /\ (req[r].phase = "arrived" \/ (req[r].phase = "ended" /\ ship[s].conn = "closing"))
        <4>1. ship[s].serves = r /\ r # None
          BY <2>1, NoneIsNoShip
        <4>2. /\ s \in busy /\ req[ship[s].serves].via = s
              /\ \/ req[ship[s].serves].phase = "arrived"
                 \/ req[ship[s].serves].phase = "ended" /\ ship[s].conn = "closing"
          BY <4>1 DEF StoreInv, Served
        <4> QED BY <4>1, <4>2
      <3>2. busy' = busy /\ ship'[s].serves = ship[s].serves /\ req'[r].via = req[r].via
        BY <2>1 DEF Mild
      <3> QED BY <2>1, <3>1, <3>2
    <2>3. ship[s].conn = "closing" => ship'[s].conn = "closing"
      BY DEF Mild
    <2>4. CASE req'[r].phase = req[r].phase
      BY <2>2, <2>3, <2>4
    <2>5. CASE req'[r].phase # req[r].phase
      BY <2>1, <2>2, <2>5 DEF Mild
    <2> QED BY <2>4, <2>5
  <1>9. Listings'
    <2>1. keep' = keep /\ busy' = busy /\ ToSet(keep) \subseteq Ships /\ busy \subseteq Ships
      BY DEF Mild, StoreInv, StoreKept, StoreConsistent, Listed
    <2>2. \A s \in ToSet(keep') : ship'[s].conn \in {"up", "closing"}
      BY <2>1 DEF Mild, StoreInv, Listings
    <2>3. \A s \in busy' : ship'[s].conn # "closing" => ship'[s].serves # None
      BY <2>1 DEF Mild, StoreInv, Listings
    <2>4. \A s \in Ships : ship'[s].conn = "none" => ship'[s] = NewShip
      BY <1>1 DEF Mild, StoreInv, Listings
    <2> QED BY <2>2, <2>3, <2>4 DEF Listings
  <1> QED BY <1>5, <1>6, <1>7, <1>8, <1>9 DEF StoreInv, StoreKept

(* A request that comes is given a connection: a kept one or a new one.    *)
LEMMA StartStore ==
  ASSUME StoreInv, TypeOK', NEW r \in Requests, req[r].phase = "new", NEW s \in Ships,
         ship[s].serves = None, NEW rest, ToSet(rest) = ToSet(keep) \ {s},
         \/ s \in ToSet(keep) /\ ship[s].conn = "up"
         \/ /\ ship[s].conn = "none"
            /\ MaxShips > 0 => Len(keep) + Cardinality(busy) < MaxShips,
         Start(r, s, rest)
  PROVE  StoreInv'
  <1>1. /\ keep' = rest /\ busy' = busy \cup {s}
        /\ ship' \in [Ships -> ShipType] /\ req' \in [Requests -> RequestType]
        /\ ship \in [Ships -> ShipType] /\ req \in [Requests -> RequestType]
    BY DEF Start, StoreInv, StoreKept, TypeOK
  <1>2. /\ ship'[s].serves = r /\ ship'[s].conn \in {"connecting", "up"}
        /\ \A t \in Ships : t # s => ship'[t] = ship[t]
    BY <1>1 DEF Start, ShipType
  <1>3. /\ req'[r].phase = "arrived" /\ req'[r].via = s
        /\ \A q \in Requests : q # r => req'[q] = req[q]
    BY <1>1 DEF Start, RequestType
  <1>4. \A t \in Ships : ship[t].serves # r
    <2>1. r # None
      BY NoneIsNoShip
    <2> QED BY <2>1 DEF StoreInv, Served
  <1>5. ToSet(keep) \subseteq Ships /\ busy \subseteq Ships
    BY DEF StoreInv, StoreKept, StoreConsistent, Listed
  <1>6. Listed' = Listed \cup {s}
    BY <1>1 DEF Listed
  <1>7. StoreConsistent'
    <2>1. Listed' = {t \in Ships : ship'[t].conn \notin {"none", "closed"}}
      BY <1>2, <1>6 DEF StoreInv, StoreKept, StoreConsistent
    <2>2. \A t \in ToSet(keep') : t \notin busy' /\ ship'[t].serves = None
      BY <1>1, <1>2, <1>5 DEF StoreInv, StoreKept, StoreConsistent
    <2>3. \A t, u \in Ships : ship'[t].serves = ship'[u].serves => t = u \/ ship'[t].serves = None
      BY <1>2, <1>4 DEF StoreInv, StoreKept, StoreConsistent
    <2>4. MaxShips > 0 => Cardinality(Listed') <= MaxShips
      <3>1. CASE s \in Listed
        BY <1>6, <3>1, FewerListed DEF StoreInv, StoreKept
      <3>2. CASE s \notin Listed
        <4>1. MaxShips > 0 => Len(keep) + Cardinality(busy) < MaxShips
          BY <3>2 DEF Listed
        <4>2. IsFiniteSet(Ships)
          BY ShipsAreFinite
        <4>3. IsFiniteSet(busy) /\ IsFiniteSet(ToSet(keep))
          BY <1>5, <4>2, FS_Subset
        <4>4. Cardinality(ToSet(keep)) = Len(keep)
          BY InjectiveCount DEF StoreInv, StoreKept, TypeOK
        <4>5. Cardinality(busy) \in Nat /\ Cardinality(ToSet(keep)) \in Nat
              /\ Cardinality(ToSet(keep) \cap busy) \in Nat
          BY <4>3, FS_CardinalityType, FS_Intersection
        <4>6. IsFiniteSet(Listed) /\ Cardinality(Listed) <= Len(keep) + Cardinality(busy)
              /\ Cardinality(Listed) \in Nat
          BY <4>3, <4>4, <4>5, FS_Union, FS_CardinalityType DEF Listed
        <4>7. Cardinality(Listed') = Cardinality(Listed) + 1
          BY <1>6, <3>2, <4>6, FS_AddElement
        <4> QED BY <4>1, <4>4, <4>5, <4>6, <4>7, WarpAssumption
      <3> QED BY <3>1, <3>2
    <2> QED BY <2>1, <2>2, <2>3, <2>4 DEF StoreConsistent
  <1>8. TourHasShip' /\ Forwarded'
    <2> SUFFICES ASSUME NEW q \in Requests, req'[q].phase = "arrived"
                 PROVE  /\ ship'[req'[q].via].conn # "closed" /\ ship'[req'[q].via].serves = q
                        /\ req'[q].via \in Ships
      BY DEF TourHasShip, Forwarded
    <2>1. CASE q = r
      BY <1>2, <1>3, <2>1
    <2>2. CASE q # r
      <3>1. req'[q] = req[q] /\ req[q].phase = "arrived"
        BY <1>3, <2>2
      <3>2. req[q].via \in Ships /\ ship[req[q].via].conn # "closed" /\ ship[req[q].via].serves = q
        BY <3>1 DEF StoreInv, StoreKept, TourHasShip, Forwarded
      <3>3. req[q].via # s
        BY <3>2, NoneIsNoShip
      <3> QED BY <1>2, <3>1, <3>2, <3>3
    <2> QED BY <2>1, <2>2
  <1>9. Served'
    <2> SUFFICES ASSUME NEW t \in Ships, ship'[t].serves # None
                 PROVE  /\ t \in busy'
                        /\ req'[ship'[t].serves].via = t
                        /\ \/ req'[ship'[t].serves].phase = "arrived"
                           \/ req'[ship'[t].serves].phase = "ended" /\ ship'[t].conn = "closing"
      BY DEF Served
    <2>1. CASE t = s
      BY <1>1, <1>2, <1>3, <2>1
    <2>2. CASE t # s
      <3>1. ship'[t] = ship[t] /\ ship[t].serves \in Requests /\ ship[t].serves # r
        BY <1>1, <1>2, <1>4, <2>2 DEF ShipType
      <3>2. req'[ship[t].serves] = req[ship[t].serves]
        BY <1>3, <3>1
      <3> QED BY <1>1, <3>1, <3>2 DEF StoreInv, Served
    <2> QED BY <2>1, <2>2
  <1>10. Listings'
    BY <1>1, <1>2, <1>5, NoneIsNoShip DEF StoreInv, Listings
  <1> QED BY <1>7, <1>8, <1>9, <1>10 DEF StoreInv, StoreKept

(* A connection stops to serve: it is dropped, kept or closed, and the     *)
(* request it served has its end.                                          *)
Parted(s, r) ==
  /\ r = ship[s].serves /\ ship'[s].serves = None
  /\ ship[s].conn \in {"connecting", "up", "closing"}
  /\ \A t \in Ships : t # s => ship'[t] = ship[t]
  /\ \A q \in Requests : q # r => req'[q] = req[q]
  /\ r # None => req'[r].phase # "arrived"

(* A connection is parted from its request: what every such step keeps.    *)
LEMMA PartedStore ==
  ASSUME StoreInv, TypeOK', NEW s \in Ships, NEW r \in Requests \cup {None}, Parted(s, r),
         busy' \subseteq busy, \A t \in busy : t # s => t \in busy',
         Listed' = {t \in Ships : ship'[t].conn \notin {"none", "closed"}},
         Listed' \subseteq Listed,
         \A t \in ToSet(keep') : t \notin busy' /\ (t = s \/ t \in ToSet(keep))
  PROVE  /\ StoreConsistent' /\ TourHasShip' /\ Forwarded' /\ Served'
  <1>1. \A t \in Ships : ship[t].serves \in Requests \cup {None}
    BY DEF StoreInv, StoreKept, TypeOK, ShipType
  <1>2. ToSet(keep) \subseteq Ships
    BY DEF StoreInv, StoreKept, StoreConsistent, Listed
  <1>3. \A t \in ToSet(keep') : t \notin busy' /\ ship'[t].serves = None
    BY <1>2 DEF Parted, StoreInv, StoreKept, StoreConsistent
  <1>4. \A t, u \in Ships : ship'[t].serves = ship'[u].serves => t = u \/ ship'[t].serves = None
    BY DEF Parted, StoreInv, StoreKept, StoreConsistent
  <1>5. StoreConsistent'
    <2>1. MaxShips > 0 => Cardinality(Listed') <= MaxShips
      BY FewerListed DEF StoreInv, StoreKept
    <2> QED BY <1>3, <1>4, <2>1 DEF StoreConsistent
  <1>6. TourHasShip' /\ Forwarded'
    <2> SUFFICES ASSUME NEW q \in Requests, req'[q].phase = "arrived"
                 PROVE  /\ ship'[req'[q].via].conn # "closed" /\ ship'[req'[q].via].serves = q
                        /\ req'[q].via \in Ships
      BY DEF TourHasShip, Forwarded
    <2>1. q # r /\ req'[q] = req[q]
      BY NoneIsNoShip DEF Parted
    <2>2. req[q].via \in Ships /\ ship[req[q].via].conn # "closed" /\ ship[req[q].via].serves = q
      BY <2>1 DEF StoreInv, StoreKept, TourHasShip, Forwarded
    <2>3. req[q].via # s
      BY <2>1, <2>2 DEF Parted
    <2> QED BY <2>1, <2>2, <2>3 DEF Parted
  <1>7. Served'
    <2> SUFFICES ASSUME NEW t \in Ships, ship'[t].serves # None
                 PROVE  /\ t \in busy'
                        /\ req'[ship'[t].serves].via = t
                        /\ \/ req'[ship'[t].serves].phase = "arrived"
                           \/ req'[ship'[t].serves].phase = "ended" /\ ship'[t].conn = "closing"
      BY DEF Served
    <2>1. t # s /\ ship'[t] = ship[t] /\ ship[t].serves # None
      BY DEF Parted
    <2>2. ship[t].serves # r /\ ship[t].serves \in Requests
      BY <1>1, <2>1 DEF Parted, StoreInv, StoreKept, StoreConsistent
    <2>3. req'[ship[t].serves] = req[ship[t].serves]
      BY <2>2 DEF Parted
    <2>4. /\ t \in busy /\ req[ship[t].serves].via = t
          /\ \/ req[ship[t].serves].phase = "arrived"
             \/ req[ship[t].serves].phase = "ended" /\ ship[t].conn = "closing"
      BY <2>1 DEF StoreInv, Served
    <2> QED BY <2>1, <2>3, <2>4
  <1> QED BY <1>5, <1>6, <1>7

(* The connection is dropped: WarpShip.end_ship and a close.               *)
LEMMA DropStore ==
  ASSUME StoreInv, TypeOK', NEW s \in Ships, NEW sh \in ShipType, NEW r, r = ship[s].serves,
         ship[s].conn \in {"connecting", "up", "closing"},
         NEW q, r # None => q.phase # "arrived", DropShip(s, sh, r, q)
  PROVE  StoreInv'
  <1>1. /\ ship \in [Ships -> ShipType] /\ req \in [Requests -> RequestType]
        /\ r \in Requests \cup {None}
    BY DEF StoreInv, StoreKept, TypeOK, ShipType
  <1>2. /\ ship'[s].conn = "closing" /\ ship'[s].serves = None
        /\ \A t \in Ships : t # s => ship'[t] = ship[t]
        /\ UNCHANGED <<keep, busy>>
    BY <1>1 DEF DropShip, ShipType
  <1>3. Parted(s, r)
    BY <1>1, <1>2 DEF Parted, DropShip
  <1>4. Listed' = Listed /\ ToSet(keep') = ToSet(keep) /\ busy' = busy
    BY <1>2 DEF Listed
  <1>5. Listed' = {t \in Ships : ship'[t].conn \notin {"none", "closed"}}
    BY <1>2, <1>4 DEF StoreInv, StoreKept, StoreConsistent
  <1>6. \A t \in ToSet(keep') : t \notin busy' /\ (t = s \/ t \in ToSet(keep))
    BY <1>4 DEF StoreInv, StoreKept, StoreConsistent
  <1>7. StoreConsistent' /\ TourHasShip' /\ Forwarded' /\ Served'
    BY <1>1, <1>3, <1>4, <1>5, <1>6, PartedStore
  <1>8. Listings'
    <2>1. ToSet(keep) \subseteq Ships /\ busy \subseteq Ships
      BY DEF StoreInv, StoreKept, StoreConsistent, Listed
    <2> QED BY <1>2, <1>4, <2>1 DEF StoreInv, Listings
  <1> QED BY <1>7, <1>8 DEF StoreInv, StoreKept

(* The connection is kept: WarpShipStore.keep.                             *)
LEMMA KeepStore ==
  ASSUME StoreInv, TypeOK', NEW s \in Ships, NEW sh \in ShipType, NEW r \in Requests,
         r = ship[s].serves, ship[s].conn \in {"up", "closing"}, sh.conn = ship[s].conn,
         NEW q \in RequestType, KeepShip(s, sh, r, q)
  PROVE  StoreInv'
  <1>1. ship \in [Ships -> ShipType] /\ req \in [Requests -> RequestType] /\ keep \in Seq(Ships)
    BY DEF StoreInv, StoreKept, TypeOK
  <1>2. /\ ship'[s].conn = ship[s].conn /\ ship'[s].serves = None
        /\ \A t \in Ships : t # s => ship'[t] = ship[t]
        /\ keep' = Append(keep, s) /\ busy' = busy \ {s}
    BY <1>1, KeptOf DEF KeepShip
  <1>3. Parted(s, r)
    <2>1. req'[r].phase # "arrived" /\ \A p \in Requests : p # r => req'[p] = req[p]
      BY <1>1, EndOf DEF KeepShip
    <2> QED BY <1>2, <2>1 DEF Parted
  <1>4. ToSet(keep') = ToSet(keep) \cup {s}
    BY <1>1, <1>2, AppendToSet
  <1>5. s \in busy /\ ToSet(keep) \subseteq Ships /\ busy \subseteq Ships
    BY NoneIsNoShip DEF StoreInv, StoreKept, StoreConsistent, Listed, Served
  <1>6. Listed' = Listed
    BY <1>2, <1>4, <1>5 DEF Listed
  <1>7. Listed' = {t \in Ships : ship'[t].conn \notin {"none", "closed"}}
    BY <1>2, <1>6 DEF StoreInv, StoreKept, StoreConsistent
  <1>8. \A t \in ToSet(keep') : t \notin busy' /\ (t = s \/ t \in ToSet(keep))
    BY <1>2, <1>4 DEF StoreInv, StoreKept, StoreConsistent
  <1>9. StoreConsistent' /\ TourHasShip' /\ Forwarded' /\ Served'
    BY <1>2, <1>3, <1>6, <1>7, <1>8, PartedStore
  <1>10. Listings'
    BY <1>2, <1>4, <1>5 DEF StoreInv, Listings
  <1> QED BY <1>9, <1>10 DEF StoreInv, StoreKept

(* A closed connection leaves both lists, and whom it served is told.      *)
LEMMA ClosedStore ==
  ASSUME StoreInv, TypeOK', NEW s \in Ships, Closed(s), ~Dies("consumed"), ~Dies("id")
  PROVE  StoreInv'
  <1>1. PICK r : r = ship[s].serves
    OBVIOUS
  <1>2. /\ ship \in [Ships -> ShipType] /\ req \in [Requests -> RequestType] /\ keep \in Seq(Ships)
        /\ IsInjective(keep) /\ r \in Requests \cup {None}
    BY <1>1 DEF StoreInv, StoreKept, TypeOK, ShipType
  <1>3. /\ ship[s].conn = "closing" /\ ship' = [ship EXCEPT ![s] = [NewShip EXCEPT !.conn = "closed"]]
        /\ req' = (IF r = None THEN req ELSE [req EXCEPT ![r] = Failed(r)])
        /\ keep' = RemoveFirst(keep, s) /\ busy' = busy \ {s}
    BY <1>1 DEF Closed, OutOfLists
  <1>4. /\ ship'[s].conn = "closed" /\ ship'[s].serves = None
        /\ \A t \in Ships : t # s => ship'[t] = ship[t]
    BY <1>2, <1>3 DEF NewShip
  <1>5. Parted(s, r)
    BY <1>1, <1>2, <1>3, <1>4, FailedOf DEF Parted, StoreInv, StoreKept
  <1>6. ToSet(keep') = ToSet(keep) \ {s}
    BY <1>2, <1>3, RemoveFirstSet
  <1>7. Listed' = Listed \ {s}
    BY <1>3, <1>6 DEF Listed
  <1>8. Listed' = {t \in Ships : ship'[t].conn \notin {"none", "closed"}}
    BY <1>4, <1>7 DEF StoreInv, StoreKept, StoreConsistent
  <1>9. \A t \in ToSet(keep') : t \notin busy' /\ (t = s \/ t \in ToSet(keep))
    BY <1>3, <1>6 DEF StoreInv, StoreKept, StoreConsistent
  <1>10. StoreConsistent' /\ TourHasShip' /\ Forwarded' /\ Served'
    BY <1>2, <1>3, <1>5, <1>7, <1>8, <1>9, PartedStore
  <1>11. Listings'
    <2>1. ToSet(keep) \subseteq Ships /\ busy \subseteq Ships
      BY DEF StoreInv, StoreKept, StoreConsistent, Listed
    <2> QED BY <1>3, <1>4, <1>6, <2>1 DEF StoreInv, Listings
  <1> QED BY <1>10, <1>11 DEF StoreInv, StoreKept

(* A connection is made or fails: mild.                                    *)
LEMMA ConnectMild ==
  ASSUME StoreInv, NEW s \in Ships, (Connected(s) /\ ~Dies("id")) \/ ConnectFails(s)
  PROVE  Mild
  <1>1. UNCHANGED <<keep, busy, req>> /\ ship[s].conn = "connecting"
    BY DEF Connected, ConnectFails
  <1>2. ship \in [Ships -> ShipType] /\ ship[s] \in ShipType /\ TypeOK
    BY DEF StoreInv, StoreKept, TypeOK
  <1>3. PICK sh : ship' = [ship EXCEPT ![s] = sh] /\ sh.serves = ship[s].serves /\ sh.conn \in {"up", "closing"}
    <2>1. CASE Connected(s) /\ ~Dies("id")
      <3>1. ship' = [ship EXCEPT ![s] = [ship[s] EXCEPT !.conn = "up", !.armed = {"write"}]]
        BY <1>2, <2>1 DEF Connected
      <3>2. [ship[s] EXCEPT !.conn = "up", !.armed = {"write"}].conn = "up"
            /\ [ship[s] EXCEPT !.conn = "up", !.armed = {"write"}].serves = ship[s].serves
        BY <1>2 DEF ShipType
      <3> QED BY <3>1, <3>2
    <2>2. CASE ConnectFails(s)
      BY <1>2, <2>2, GoneOf DEF ConnectFails
    <2> QED BY <2>1, <2>2
  <1>4. \A r \in Requests : req'[r] = req[r]
    BY <1>1
  <1>5. \A t \in Ships : t # s => ship'[t] = ship[t]
    BY <1>2, <1>3
  <1>6. ship'[s] = sh
    BY <1>2, <1>3
  <1> QED BY <1>1, <1>3, <1>4, <1>5, <1>6 DEF Mild

(* A unit is written: mild.                                                *)
LEMMA WriteMild ==
  ASSUME StoreInv, NEW s \in Ships, Write(s), ~Dies("consumed")
  PROVE  Mild
  <1>1. /\ ship[s].conn = "up" /\ UNCHANGED <<req, keep, busy>>
        /\ \E rest, left : ship' = [ship EXCEPT ![s] = [Take(@, Head(ship[s].units)) EXCEPT !.units = rest, !.armed = left]]
    BY DEF Write
  <1>2. ship \in [Ships -> ShipType] /\ ship[s] \in ShipType
        /\ ship[s].units \in Seq(Unit) /\ ship[s].units # <<>>
    BY DEF Write, StoreInv, StoreKept, TypeOK, ShipType
  <1>3. Head(ship[s].units) \in Unit
    BY <1>2, HeadTailProperties
  <1>4. PICK tk \in ShipType : /\ tk = Take(ship[s], Head(ship[s].units))
                               /\ tk.conn = "up" /\ tk.serves = ship[s].serves
    BY <1>1, <1>2, <1>3, TakeOf
  <1>5. PICK rest, left : ship' = [ship EXCEPT ![s] = [tk EXCEPT !.units = rest, !.armed = left]]
    BY <1>1, <1>2, <1>4
  <1>6. [tk EXCEPT !.units = rest, !.armed = left].conn = "up"
        /\ [tk EXCEPT !.units = rest, !.armed = left].serves = ship[s].serves
    BY <1>4 DEF ShipType
  <1>7. \A t \in Ships : t # s => ship'[t] = ship[t]
    BY <1>2, <1>5
  <1>8. ship'[s].conn = "up" /\ ship'[s].serves = ship[s].serves
    BY <1>2, <1>5, <1>6
  <1> QED BY <1>1, <1>7, <1>8 DEF Mild

(* The backend speaks or closes: mild.                                     *)
LEMMA BackendMild ==
  ASSUME StoreInv, NEW s \in Ships, UpAnswers(s) \/ UpCloses(s) \/ UpStray(s)
  PROVE  Mild
  <1>1. ship[s].conn = "up" /\ UNCHANGED <<req, keep, busy>>
    BY DEF UpAnswers, UpCloses, UpStray
  <1>2. ship \in [Ships -> ShipType] /\ ship[s] \in ShipType
    BY DEF StoreInv, StoreKept, TypeOK
  <1>3. /\ ship'[s].conn = ship[s].conn /\ ship'[s].serves = ship[s].serves
        /\ \A t \in Ships : t # s => ship'[t] = ship[t]
    <2>1. CASE UpAnswers(s)
      <3>1. PICK i, g : ship' = [ship EXCEPT ![s].owes = FALSE, ![s].inbox = i, ![s].gone = g]
        BY <2>1 DEF UpAnswers
      <3> QED BY <1>2, <3>1 DEF ShipType
    <2>2. CASE UpCloses(s)
      <3>1. PICK i : ship' = [ship EXCEPT ![s].inbox = i, ![s].gone = TRUE]
        BY <2>2 DEF UpCloses
      <3> QED BY <1>2, <3>1 DEF ShipType
    <2>3. CASE UpStray(s)
      <3>1. PICK i : ship' = [ship EXCEPT ![s].inbox = i]
        BY <2>3 DEF UpStray
      <3> QED BY <1>2, <3>1 DEF ShipType
    <2> QED BY <2>1, <2>2, <2>3
  <1> QED BY <1>1, <1>3 DEF Mild

(* A part of a body comes: mild.                                           *)
LEMMA BodyMild ==
  ASSUME StoreInv, NEW r \in Requests, Body(r), ~Dies("id")
  PROVE  Mild
  <1>1. PICK s \in Ships : s = req[r].via /\ ship[s].serves = r
    BY DEF Body, StoreInv, StoreKept, TourHasShip, Forwarded
  <1>2. /\ req' = [req EXCEPT ![r].sent = TRUE] /\ UNCHANGED <<keep, busy>>
        /\ \E u, a : ship' = [ship EXCEPT ![s].units = u, ![s].armed = a]
    <2>1. /\ req' = [req EXCEPT ![r].sent = TRUE] /\ UNCHANGED <<keep, busy>>
          /\ ship' = [ship EXCEPT
                        ![s].units = Append(@, [kind |-> "body", of |-> r]),
                        ![s].armed = IF ship[s].conn = "up" THEN @ \cup {"write"} ELSE @]
      BY <1>1 DEF Body
    <2> QED BY <2>1
  <1>3. ship \in [Ships -> ShipType] /\ ship[s] \in ShipType /\ req \in [Requests -> RequestType]
    BY DEF StoreInv, StoreKept, TypeOK
  <1>4. ship[s].conn \in {"connecting", "up", "closing"}
    BY <1>1, <1>3, NoneIsNoShip DEF StoreInv, Served, StoreKept, StoreConsistent, Listed, ShipType
  <1>5. ship'[s].conn = ship[s].conn /\ ship'[s].serves = ship[s].serves
    BY <1>2, <1>3 DEF ShipType
  <1>6. \A t \in Ships : t # s => ship'[t] = ship[t]
    BY <1>2, <1>3
  <1>7. \A t \in Requests : req'[t].via = req[t].via /\ req'[t].phase = req[t].phase
    BY <1>2, <1>3 DEF RequestType
  <1> QED BY <1>2, <1>4, <1>5, <1>6, <1>7 DEF Mild

(* The connection of a request that is forwarded and not answered.         *)
LEMMA ItsShip ==
  ASSUME StoreInv, NEW r \in Requests, req[r].phase = "arrived"
  PROVE  /\ req[r].via \in Ships /\ ship[req[r].via].serves = r
         /\ ship[req[r].via].conn \in {"connecting", "up", "closing"}
  <1>1. req[r].via \in Ships /\ ship[req[r].via].serves = r
    BY DEF StoreInv, StoreKept, TourHasShip, Forwarded
  <1>2. ship[req[r].via] \in ShipType /\ req[r].via \in busy
    BY <1>1, NoneIsNoShip DEF StoreInv, Served, StoreKept, TypeOK
  <1> QED BY <1>1, <1>2 DEF StoreInv, StoreKept, StoreConsistent, Listed, ShipType

(* A body is too long: mild, the connection is closed with its request on  *)
(* it.                                                                     *)
LEMMA TooLongMild ==
  ASSUME StoreInv, NEW r \in Requests, TooLong(r), ~Dies("id")
  PROVE  Mild
  <1>1. PICK s \in Ships : s = req[r].via /\ ship[s].serves = r
                           /\ ship[s].conn \in {"connecting", "up", "closing"}
    BY ItsShip DEF TooLong
  <1>2. TypeOK /\ ship \in [Ships -> ShipType] /\ req \in [Requests -> RequestType]
    BY DEF StoreInv, StoreKept, TypeOK
  <1>3. /\ ship' = [ship EXCEPT ![s] = Gone(s)] /\ UNCHANGED <<keep, busy>>
        /\ req[r].phase = "arrived"
        /\ \E a : req' = [req EXCEPT ![r].phase = "ended", ![r].headed = TRUE, ![r].answer = a]
    BY <1>1 DEF TooLong
  <1>4. /\ ship'[s].conn = "closing" /\ ship'[s].serves = ship[s].serves
        /\ \A t \in Ships : t # s => ship'[t] = ship[t]
    BY <1>2, <1>3, GoneOf
  <1>5. /\ req'[r].phase = "ended" /\ req'[r].via = req[r].via
        /\ \A t \in Requests : t # r => req'[t] = req[t]
    BY <1>2, <1>3 DEF RequestType
  <1>6. r # None
    BY NoneIsNoShip
  <1> QED BY <1>1, <1>3, <1>4, <1>5, <1>6 DEF Mild

(* A step of one request that at most resumes a connection is mild.        *)
LEMMA ResumedMild ==
  ASSUME StoreInv, NEW r \in Requests, NEW s, NEW q,
         UNCHANGED <<keep, busy>>, req' = [req EXCEPT ![r] = q],
         q.via = req[r].via, q.phase = req[r].phase,
         \/ ship' = ship \/ ship' = [ship EXCEPT ![s] = ResumeRead(r, @)]
  PROVE  Mild
  <1>1. ship \in [Ships -> ShipType] /\ req \in [Requests -> RequestType]
    BY DEF StoreInv, StoreKept, TypeOK
  <1>2. \A t \in Requests : req'[t].via = req[t].via /\ req'[t].phase = req[t].phase
    BY <1>1
  <1>3. \A t \in Ships : ship'[t] = ship[t] \/ ship'[t] = ResumeRead(r, ship[t])
    BY <1>1
  <1>4. \A t \in Ships : /\ ship'[t].serves = ship[t].serves
                         /\ ship'[t] = ship[t] \/ (ship[t].conn = "up" /\ ship'[t].conn = "up")
    <2> SUFFICES ASSUME NEW t \in Ships
                 PROVE  /\ ship'[t].serves = ship[t].serves
                        /\ ship'[t] = ship[t] \/ (ship[t].conn = "up" /\ ship'[t].conn = "up")
      OBVIOUS
    <2>1. ship[t] \in ShipType
      BY <1>1
    <2>2. /\ ResumeRead(r, ship[t]).conn = ship[t].conn
          /\ ResumeRead(r, ship[t]).serves = ship[t].serves
      BY <2>1, ResumeReadOf
    <2>3. ship[t].conn # "up" => ResumeRead(r, ship[t]) = ship[t]
      BY DEF ResumeRead
    <2> QED BY <1>3, <2>2, <2>3
  <1>5. \E t : \A u \in Ships : u # t => ship'[u] = ship[u]
    BY <1>1
  <1> QED BY <1>2, <1>4, <1>5 DEF Mild

(* What the client does and the end of the tour are mild.                  *)
LEMMA ClientMild ==
  ASSUME StoreInv, NEW r \in Requests,
         \/ ClientReads(r) /\ ~Dies("resume")
         \/ ReturnTour(r)
         \/ Disconnect(r) /\ ~Dies("resume")
  PROVE  Mild
  <1>1. TypeOK /\ ship \in [Ships -> ShipType] /\ req \in [Requests -> RequestType]
        /\ req[r] \in RequestType
    BY DEF StoreInv, StoreKept, TypeOK
  <1>2. CASE ClientReads(r) /\ ~Dies("resume")
    <2>1. /\ req' = [req EXCEPT ![r] = [req[r] EXCEPT !.full = FALSE]]
          /\ ship' = [ship EXCEPT ![req[r].via] = ResumeRead(r, @)]
          /\ UNCHANGED <<keep, busy>>
      BY <1>1, <1>2 DEF ClientReads
    <2>2. [req[r] EXCEPT !.full = FALSE].via = req[r].via
          /\ [req[r] EXCEPT !.full = FALSE].phase = req[r].phase
      BY <1>1 DEF RequestType
    <2> QED BY <2>1, <2>2, ResumedMild
  <1>3. CASE ReturnTour(r)
    <2>1. /\ req' = [req EXCEPT ![r].phase = "returned"] /\ UNCHANGED <<ship, keep, busy>>
          /\ req[r].phase = "ended" /\ Released(r)
      BY <1>3 DEF ReturnTour
    <2>2. r # None /\ \A s \in Ships : ship[s].serves = r => ship[s].conn = "closing"
      BY <2>1, NoneIsNoShip DEF StoreInv, Served
    <2>3. \A s \in Ships : ship[s].serves # r
      BY <2>1, <2>2 DEF Released
    <2>4. /\ req'[r].phase = "returned" /\ req'[r].via = req[r].via
          /\ \A t \in Requests : t # r => req'[t] = req[t]
      BY <1>1, <2>1 DEF RequestType
    <2> QED BY <2>1, <2>3, <2>4 DEF Mild
  <1>4. CASE Disconnect(r) /\ ~Dies("resume")
    <2>1. PICK left : left = [req[r] EXCEPT !.client = FALSE, !.full = FALSE]
      OBVIOUS
    <2>2. PICK q : q = IF left.phase = "ended" THEN End(left) ELSE left
      OBVIOUS
    <2>3. PICK s : s = req[r].via
      OBVIOUS
    <2>4. /\ req' = [req EXCEPT ![r] = q] /\ UNCHANGED <<keep, busy>>
          /\ ship' = IF s = None THEN ship
                     ELSE [ship EXCEPT ![s] =
                             IF req[r].phase = "arrived" /\ method[r] = "post"
                             THEN Gone(s) ELSE ResumeRead(r, @)]
      BY <1>4, <2>1, <2>2, <2>3 DEF Disconnect
    <2>5. left \in RequestType /\ left.via = req[r].via /\ left.phase = req[r].phase
      BY <1>1, <2>1 DEF RequestType
    <2>6. q.via = req[r].via /\ q.phase = req[r].phase
      BY <2>2, <2>5, EndOf
    <2>7. CASE s # None /\ req[r].phase = "arrived" /\ method[r] = "post"
      <3>1. s \in Ships /\ ship[s].conn \in {"connecting", "up", "closing"} /\ ship[s].serves # None
        BY <2>3, <2>7, ItsShip, NoneIsNoShip
      <3>2. ship' = [ship EXCEPT ![s] = Gone(s)]
        BY <2>4, <2>7
      <3>3. /\ ship'[s].conn = "closing" /\ ship'[s].serves = ship[s].serves
            /\ \A t \in Ships : t # s => ship'[t] = ship[t]
        BY <1>1, <3>1, <3>2, GoneOf
      <3>4. \A t \in Requests : req'[t].via = req[t].via /\ req'[t].phase = req[t].phase
        BY <1>1, <2>4, <2>6
      <3> QED BY <2>4, <3>1, <3>3, <3>4 DEF Mild
    <2>8. CASE ~(s # None /\ req[r].phase = "arrived" /\ method[r] = "post")
      <3>1. ship' = ship \/ ship' = [ship EXCEPT ![s] = ResumeRead(r, @)]
        BY <2>4, <2>8
      <3> QED BY <2>4, <2>6, <3>1, ResumedMild
    <2> QED BY <2>7, <2>8
  <1> QED BY <1>2, <1>3, <1>4

(* So is a read that neither ends the request nor the connection.          *)
LEMMA GoesOnMild ==
  ASSUME StoreInv, NEW s \in Ships, NEW r \in Requests, NEW x, NEW q,
         ship[s].conn \in {"up", "closing"}, x.conn = ship[s].conn, x.serves = ship[s].serves,
         q.via = req[r].via, q.phase = req[r].phase, GoesOn(s, x, r, q)
  PROVE  Mild
  <1>1. ship \in [Ships -> ShipType] /\ req \in [Requests -> RequestType]
    BY DEF StoreInv, StoreKept, TypeOK
  <1>2. /\ ship'[s] = x /\ \A t \in Ships : t # s => ship'[t] = ship[t]
        /\ req'[r] = q /\ \A t \in Requests : t # r => req'[t] = req[t]
        /\ UNCHANGED <<keep, busy>>
    BY <1>1 DEF GoesOn
  <1> QED BY <1>2 DEF Mild

(* So is a step that leaves requests, ships and lists alone.               *)
LEMMA StutterMild ==
  ASSUME StoreInv, UNCHANGED <<req, ship, keep, busy>>
  PROVE  Mild
  BY DEF Mild

(* A request comes.                                                        *)
LEMMA ArriveStore == ASSUME StoreInv, TypeOK', NEW r \in Requests, Arrive(r) PROVE StoreInv'
  <1>1. req[r].phase = "new"
    BY DEF Arrive
  <1>2. TypeOK /\ keep \in Seq(Ships) /\ IsInjective(keep) /\ ship \in [Ships -> ShipType]
        /\ req \in [Requests -> RequestType]
    BY DEF StoreInv, StoreKept, TypeOK
  <1>3. CASE /\ req' = [req EXCEPT ![r].phase = "ended", ![r].answer = "error"]
             /\ UNCHANGED <<ship, keep, busy>>
    <2>1. /\ req'[r].phase = "ended" /\ req'[r].via = req[r].via
          /\ \A q \in Requests : q # r => req'[q] = req[q]
      BY <1>2, <1>3 DEF RequestType
    <2>2. Listed' = Listed
      BY <1>3 DEF Listed
    <2>3. StoreConsistent'
      BY <1>3, <2>2 DEF StoreInv, StoreKept, StoreConsistent
    <2>4. TourHasShip' /\ Forwarded'
      <3> SUFFICES ASSUME NEW q \in Requests, req'[q].phase = "arrived"
                   PROVE  /\ ship'[req'[q].via].conn # "closed" /\ ship'[req'[q].via].serves = q
                          /\ req'[q].via \in Ships
        BY DEF TourHasShip, Forwarded
      <3>1. req'[q] = req[q]
        BY <2>1
      <3> QED BY <1>3, <3>1 DEF StoreInv, StoreKept, TourHasShip, Forwarded
    <2>5. Served'
      <3> SUFFICES ASSUME NEW s \in Ships, ship'[s].serves # None
                   PROVE  /\ s \in busy'
                          /\ req'[ship'[s].serves].via = s
                          /\ \/ req'[ship'[s].serves].phase = "arrived"
                             \/ req'[ship'[s].serves].phase = "ended" /\ ship'[s].conn = "closing"
        BY DEF Served
      <3>1. ship' = ship /\ ship[s].serves \in Requests /\ busy' = busy
        BY <1>2, <1>3 DEF ShipType
      <3>2. /\ s \in busy /\ req[ship[s].serves].via = s
            /\ \/ req[ship[s].serves].phase = "arrived"
               \/ req[ship[s].serves].phase = "ended" /\ ship[s].conn = "closing"
        BY <3>1, NoneIsNoShip DEF StoreInv, Served
      <3>3. req'[ship[s].serves] = req[ship[s].serves]
        BY <1>1, <2>1, <3>1, <3>2
      <3> QED BY <3>1, <3>2, <3>3
    <2>6. Listings'
      BY <1>3 DEF StoreInv, Listings
    <2> QED BY <2>3, <2>4, <2>5, <2>6 DEF StoreInv, StoreKept
  <1>4. ASSUME NEW i \in Usable, Start(r, keep[i], RemoveAt(keep, i)) 
        PROVE  StoreInv'
    <2>1. i \in DOMAIN keep /\ keep[i] \in Ships /\ keep[i] \in ToSet(keep) /\ ship[keep[i]].conn = "up"
      BY <1>2, ElementOfSeq, LenProperties DEF Usable, ToSet
    <2>2. ship[keep[i]].serves = None
      BY <2>1 DEF StoreInv, StoreKept, StoreConsistent
    <2>3. ToSet(RemoveAt(keep, i)) = ToSet(keep) \ {keep[i]}
      BY <1>2, <2>1, RemoveAtSet
    <2> QED BY <1>1, <1>4, <2>1, <2>2, <2>3, StartStore
  <1>5. ASSUME NEW s \in Ships, Unused(s), Start(r, s, keep), ~Refused
        PROVE  StoreInv'
    <2>1. ship[s].conn = "none" /\ ship[s].serves = None
      BY <1>5 DEF Unused, StoreInv, Listings, NewShip
    <2>2. s \notin ToSet(keep)
      BY <2>1 DEF StoreInv, Listings
    <2>3. ToSet(keep) = ToSet(keep) \ {s}
      BY <2>2
    <2>4. MaxShips > 0 => Len(keep) + Cardinality(busy) < MaxShips
      <3>1. busy \subseteq Ships
        BY <1>2 DEF TypeOK
      <3>2. Cardinality(busy) \in Nat /\ Len(keep) \in Nat
        BY <1>2, <3>1, ShipsAreFinite, FS_Subset, FS_CardinalityType, LenProperties
      <3> QED BY <1>5, <3>2, WarpAssumption DEF Refused
    <2> QED BY <1>1, <1>5, <2>1, <2>3, <2>4, StartStore
  <1> QED BY <1>3, <1>4, <1>5 DEF Arrive

(* An item is read.                                                        *)
LEMMA ReadStore == ASSUME StoreInv, TypeOK', NEW s \in Ships, Read(s) PROVE StoreInv'
  <1>1. CASE Dies("stray") \/ Dies("id")
    BY <1>1, StutterMild, MildStep DEF Dies
  <1>2. CASE ~Dies("stray") /\ ~Dies("id")
    <2>1. PICK r : r = ship[s].serves
      OBVIOUS
    <2>2. PICK sh : sh = [ship[s] EXCEPT !.inbox = Tail(@)]
      OBVIOUS
    <2>3. TypeOK /\ ship[s] \in ShipType
      BY DEF StoreInv, StoreKept, TypeOK
    <2>4. /\ sh \in ShipType /\ ship[s].conn \in {"up", "closing"}
          /\ \/ r = None /\ DropShip(s, sh, r, NewRequest)
             \/ r \in Requests /\ \E q : Outcome(s, sh, r, q)
      BY <1>2, <2>1, <2>2, <2>3, ReadShapes
    <2>5. sh.conn = ship[s].conn /\ sh.serves = r
      BY <2>1, <2>2, <2>3 DEF ShipType
    <2>6. CASE r = None /\ DropShip(s, sh, r, NewRequest)
      BY <2>1, <2>4, <2>6, DropStore
    <2>7. ASSUME r \in Requests, NEW q, Outcome(s, sh, r, q)
          PROVE  StoreInv'
      <3>1. q \in RequestType
        BY <2>7 DEF Outcome
      <3>2. CASE /\ q.phase \in {"ended", "returned"} \/ (q = req[r] /\ q.phase # "arrived")
                 /\ DropShip(s, sh, r, q)
        BY <2>1, <2>4, <3>2, DropStore
      <3>3. CASE KeepShip(s, sh, r, q)
        BY <2>1, <2>4, <2>5, <2>7, <3>1, <3>3, KeepStore
      <3>4. ASSUME q.phase = req[r].phase, NEW x \in ShipType, x.conn = sh.conn, x.serves = r,
                   GoesOn(s, x, r, q)
            PROVE  StoreInv'
        <4>1. q.via = req[r].via
          BY <2>7 DEF Outcome
        <4>2. Mild
          BY <2>1, <2>4, <2>5, <2>7, <3>4, <4>1, GoesOnMild
        <4> QED BY <4>2, MildStep
      <3> QED BY <2>7, <3>2, <3>3, <3>4 DEF Outcome
    <2> QED BY <2>4, <2>6, <2>7
  <1> QED BY <1>1, <1>2

(* A connection times out.                                                 *)
LEMMA TimesOutStore == ASSUME StoreInv, TypeOK', NEW s \in Ships, TimesOut(s) PROVE StoreInv'
  <1>1. PICK r : r = ship[s].serves
    OBVIOUS
  <1>2. /\ DropShip(s, ship[s], r, IF r = None THEN NewRequest ELSE Failed(r))
        /\ ship[s].conn \in {"connecting", "up"}
    BY <1>1 DEF TimesOut
  <1>3. TypeOK /\ r \in Requests \cup {None} /\ ship[s] \in ShipType
    BY <1>1 DEF StoreInv, StoreKept, TypeOK, ShipType
  <1>4. r # None => (IF r = None THEN NewRequest ELSE Failed(r)).phase # "arrived"
    BY <1>3, FailedOf
  <1> QED BY <1>1, <1>2, <1>3, <1>4, DropStore

(* Every step keeps the invariant of the store.                            *)
LEMMA StoreStep ==
  ASSUME StoreInv, [Next]_vars
  PROVE  StoreInv'
  <1>1. TypeOK'
    BY TypeStep, NoneIsNoShip DEF StoreInv, StoreKept, StoreConsistent, Forwarded
  <1>2. CASE UNCHANGED vars
    BY <1>1, <1>2, StutterMild, MildStep DEF vars
  <1>3. ASSUME NEW r \in Requests,
               Body(r) \/ ClientReads(r) \/ ReturnTour(r) \/ Arrive(r) \/ TooLong(r) \/ Disconnect(r)
        PROVE  StoreInv'
    <2>1. CASE Dies("id") \/ Dies("resume")
      BY <1>1, <2>1, StutterMild, MildStep DEF Dies
    <2>2. CASE Arrive(r)
      BY <1>1, <2>2, ArriveStore
    <2> QED BY <1>1, <1>3, <2>1, <2>2, BodyMild, TooLongMild, ClientMild, MildStep
  <1>4. ASSUME NEW s \in Ships,
               \/ Connected(s) \/ Write(s) \/ UpAnswers(s) \/ Read(s) \/ TimesOut(s) \/ Closed(s)
               \/ ConnectFails(s) \/ UpCloses(s) \/ UpStray(s)
        PROVE  StoreInv'
    <2>1. CASE Dies("id") \/ Dies("consumed")
      BY <1>1, <2>1, StutterMild, MildStep DEF Dies
    <2>2. CASE Read(s) \/ TimesOut(s) \/ (Closed(s) /\ ~Dies("id") /\ ~Dies("consumed"))
      BY <1>1, <2>2, ReadStore, TimesOutStore, ClosedStore
    <2> QED BY <1>1, <1>4, <2>1, <2>2, ConnectMild, WriteMild, BackendMild, MildStep
  <1> QED BY <1>2, <1>3, <1>4 DEF Next, Internal, External

(* For any number of clients, connections and backends, and any bound on   *)
(* faults: the two lists of WarpShipStore and the connections agree, the   *)
(* limit is kept, a connection serves at most the one request that is on   *)
(* it, a request that is forwarded has its connection (StoreKept, with the *)
(* type invariant among its parts).  StoreInv is inductive and implies it. *)
THEOREM StoreStaysKept == Spec => []StoreKept
  <1>1. Init => StoreInv
    BY StoreInit
  <1>2. StoreInv /\ [Next]_vars => StoreInv'
    BY StoreStep
  <1>3. StoreInv => StoreKept
    BY DEF StoreInv
  <1> QED BY <1>1, <1>2, <1>3, PTL DEF Spec

-----------------------------------------------------------------------------
(* The store is a pool: the refinement of ShipPool.                        *)

(* A request has the one connection that serves it and is not being        *)
(* closed.                                                                 *)
LEMMA LentOf ==
  ASSUME StoreInv, NEW r \in Requests
  PROVE  /\ \A s \in Ships : ship[s].serves = r /\ ship[s].conn # "closing" => LentTo[r] = s
         /\ LentTo[r] # None => LentTo[r] \in InUse(r)
         /\ LentTo[r] = None => InUse(r) = {}
  <1>1. LentTo[r] = IF InUse(r) = {} THEN None ELSE CHOOSE s \in InUse(r) : TRUE
    BY DEF LentTo
  <1>2. \A s, t \in Ships : s \in InUse(r) /\ t \in InUse(r) => s = t
    BY NoneIsNoShip DEF InUse, StoreInv, StoreKept, StoreConsistent
  <1>3. ASSUME NEW s \in InUse(r)
        PROVE  LentTo[r] = s
    <2>1. s \in Ships /\ \A t \in InUse(r) : t = s
      BY <1>2 DEF InUse
    <2>2. InUse(r) = {s}
      BY <2>1
    <2> QED BY <1>1, <2>2
  <1>4. InUse(r) # {} => LentTo[r] \in InUse(r) /\ LentTo[r] # None
    BY <1>3, NoneIsNoShip DEF InUse
  <1> QED BY <1>1, <1>3, <1>4 DEF InUse

(* The same of the next state.                                             *)
LEMMA LentNext ==
  ASSUME StoreInv', NEW r \in Requests, NEW s \in Ships, ship'[s].serves = r, ship'[s].conn # "closing"
  PROVE  LentTo'[r] = s
  <1>1. LentTo'[r] = IF InUse(r)' = {} THEN None ELSE CHOOSE t \in InUse(r)' : TRUE
    BY DEF LentTo
  <1>2. \A t \in Ships : t \in InUse(r)' => t = s
    BY NoneIsNoShip DEF InUse, StoreInv, StoreKept, StoreConsistent
  <1>3. InUse(r)' = {s}
    BY <1>2 DEF InUse
  <1> QED BY <1>1, <1>3

(* A request which no connection serves, but for closing ones, has none.   *)
LEMMA NoneLentNext ==
  ASSUME NEW r \in Requests, \A s \in Ships : ~(ship'[s].serves = r /\ ship'[s].conn # "closing")
  PROVE  LentTo'[r] = None
  BY DEF LentTo, InUse

(* A request has the same connection when the same ones serve it.          *)
LEMMA SameLent ==
  ASSUME NEW r \in Requests,
         \A s \in Ships : (ship'[s].serves = r /\ ship'[s].conn # "closing")
                            <=> (ship[s].serves = r /\ ship[s].conn # "closing")
  PROVE  LentTo'[r] = LentTo[r]
  <1>1. InUse(r)' = InUse(r)
    BY DEF InUse
  <1> QED BY <1>1 DEF LentTo

(* The refinement mapping gives every request its connection.              *)
LEMMA LentIsFunction ==
  /\ DOMAIN LentTo = Requests /\ LentTo = [r \in Requests |-> LentTo[r]]
  /\ DOMAIN LentTo' = Requests /\ LentTo' = [r \in Requests |-> LentTo'[r]]
  BY DEF LentTo

(* The connections of the pool are those in the store's lists.             *)
LEMMA PoolIsListed == ASSUME StoreInv PROVE Pool!Pool = Listed
  <1>1. /\ ToSet(keep) \subseteq Ships /\ busy \subseteq Ships
        /\ Listed = {s \in Ships : ship[s].conn \notin {"none", "closed"}}
    BY DEF StoreInv, StoreKept, StoreConsistent, Listed
  <1>2. Pool!Pool = Idle \cup ({LentTo[r] : r \in Requests} \ {None}) \cup Leaving
    BY DEF Pool!Pool, Pool!Lent
  <1>3. ASSUME NEW s \in Listed
        PROVE  s \in Pool!Pool
    <2>1. CASE ship[s].conn = "closing"
      BY <1>1, <1>2, <2>1 DEF Leaving
    <2>2. CASE ship[s].conn # "closing" /\ s \in ToSet(keep)
      BY <1>2, <2>2 DEF Idle, StoreInv, Listings
    <2>3. CASE ship[s].conn # "closing" /\ s \in busy
      <3>1. ship[s].serves \in Requests
        BY <1>1, <2>3 DEF StoreInv, Listings, StoreKept, TypeOK, ShipType
      <3>2. LentTo[ship[s].serves] = s
        BY <1>1, <2>3, <3>1, LentOf
      <3> QED BY <1>1, <1>2, <2>3, <3>1, <3>2, NoneIsNoShip
    <2> QED BY <2>1, <2>2, <2>3 DEF Listed
  <1>4. ASSUME NEW s \in Pool!Pool
        PROVE  s \in Listed
    <2>1. CASE s \in Idle
      BY <2>1 DEF Idle, Listed
    <2>2. CASE s \in Leaving
      BY <1>1, <2>2 DEF Leaving
    <2>3. CASE s \in {LentTo[r] : r \in Requests} \ {None}
      <3>1. PICK r \in Requests : s = LentTo[r] /\ s # None
        BY <2>3
      <3>2. s \in Ships /\ ship[s].serves = r /\ r # None
        BY <3>1, LentOf, NoneIsNoShip DEF InUse
      <3> QED BY <3>2 DEF StoreInv, Served, Listed
    <2> QED BY <1>2, <1>4, <2>1, <2>2, <2>3
  <1> QED BY <1>3, <1>4

(* WarpShipStore.rent refuses when the pool is at its limit.               *)
LEMMA RefusedIsLimited == ASSUME StoreInv PROVE Refused <=> Pool!Limited
  <1>1. busy \subseteq Ships /\ ToSet(keep) \subseteq Ships /\ ToSet(keep) \cap busy = {}
    BY DEF StoreInv, StoreKept, StoreConsistent, Listed
  <1>2. IsFiniteSet(busy) /\ IsFiniteSet(ToSet(keep)) /\ Cardinality(busy) \in Nat
    BY <1>1, ShipsAreFinite, FS_Subset, FS_CardinalityType
  <1>3. Cardinality(ToSet(keep)) = Len(keep) /\ Len(keep) \in Nat
    BY InjectiveCount, LenProperties DEF StoreInv, StoreKept, TypeOK
  <1>4. Cardinality(Listed) = Len(keep) + Cardinality(busy)
    <2>1. Cardinality(ToSet(keep) \cap busy) = 0
      BY <1>1, FS_EmptySet
    <2>2. Cardinality(ToSet(keep) \cup busy)
            = Cardinality(ToSet(keep)) + Cardinality(busy) - Cardinality(ToSet(keep) \cap busy)
      BY <1>2, FS_Union
    <2> QED BY <1>2, <1>3, <2>1, <2>2 DEF Listed
  <1>5. Pool!Limited <=> 0 < MaxShips /\ MaxShips <= Cardinality(Listed)
    <2>1. Pool!Cardinality(Listed) = Cardinality(Listed)
      BY DEF Pool!Cardinality, Cardinality
    <2> QED BY <2>1, PoolIsListed DEF Pool!Limited
  <1> QED BY <1>3, <1>2, <1>4, <1>5, WarpAssumption DEF Refused

(* At the start nothing is lent, idle or leaving.                          *)
LEMMA InitialPool == Init => Pool!Init
  <1> SUFFICES ASSUME Init PROVE Pool!Init
    OBVIOUS
  <1>1. Asked = {}
    BY DEF Init, Asked, NewRequest
  <1>2. Idle = {}
    BY DEF Init, Idle, ToSet
  <1>3. \A s \in Ships : ship[s].conn = "none" /\ ship[s].serves = None
    BY DEF Init, NewShip
  <1>4. Leaving = {}
    BY <1>3 DEF Leaving
  <1>5. LentTo = [r \in Requests |-> None]
    <2>1. \A r \in Requests : InUse(r) = {}
      BY <1>3, NoneIsNoShip DEF InUse
    <2> QED BY <2>1 DEF LentTo
  <1> QED BY <1>1, <1>2, <1>4, <1>5 DEF Pool!Init

(* What the pool is made of after a step.                                  *)
LEMMA PoolSame ==
  ASSUME Asked' = Asked, Idle' = Idle, Leaving' = Leaving,
         \A r \in Requests : LentTo'[r] = LentTo[r]
  PROVE  UNCHANGED Pool!vars
  <1>1. LentTo' = LentTo
    BY LentIsFunction
  <1> QED BY <1>1 DEF Pool!vars

(* Nobody has asked who had not.                                           *)
LEMMA AskedSame ==
  ASSUME \A r \in Requests : req'[r].phase = "new" <=> req[r].phase = "new"
  PROVE  Asked' = Asked
  BY DEF Asked

(* A connection that serves a request leaves: the request has it no more.  *)
LEMMA Leaves ==
  ASSUME StoreInv, NEW s \in Ships, NEW r \in Requests, r = ship[s].serves,
         ship[s].conn # "closing", ship'[s].conn = "closing", keep' = keep,
         \A t \in Ships : t # s => ship'[t] = ship[t],
         \A q \in Requests : req'[q].phase = "new" <=> req[q].phase = "new"
  PROVE  Pool!Leave(r)
  <1>1. r # None /\ s # None /\ ship[s].serves = r
    BY NoneIsNoShip
  <1>2. LentTo[r] = s
    BY <1>1, LentOf
  <1>3. LentTo' = [LentTo EXCEPT ![r] = None]
    <2>1. \A t \in Ships : ship[t].serves = r => t = s
      BY <1>1 DEF StoreInv, StoreKept, StoreConsistent
    <2>2. \A t \in Ships : ~(ship'[t].serves = r /\ ship'[t].conn # "closing")
      BY <2>1
    <2>3. LentTo'[r] = None
      BY <2>2, NoneLentNext
    <2>4. \A q \in Requests : q # r => LentTo'[q] = LentTo[q]
      BY <1>1, SameLent
    <2>5. \A q \in Requests : LentTo'[q] = [LentTo EXCEPT ![r] = None][q]
      BY <2>3, <2>4, LentIsFunction
    <2> QED BY <2>5, LentIsFunction
  <1>4. Leaving' = Leaving \cup {s}
    BY DEF Leaving
  <1>5. Idle' = Idle
    <2>1. s \notin ToSet(keep) /\ ToSet(keep) \subseteq Ships
      BY <1>1 DEF StoreInv, StoreKept, StoreConsistent, Listed
    <2> QED BY <2>1 DEF Idle
  <1>6. Asked' = Asked
    BY AskedSame
  <1> QED BY <1>1, <1>2, <1>3, <1>4, <1>5, <1>6 DEF Pool!Leave

(* An idle connection expires.                                             *)
LEMMA Expires ==
  ASSUME StoreInv, NEW s \in Ships, ship[s].serves = None, ship[s].conn \in {"connecting", "up"},
         ship'[s].conn = "closing", keep' = keep,
         \A t \in Ships : t # s => ship'[t] = ship[t], req' = req
  PROVE  Pool!Expire(s)
  <1>1. s \in Listed /\ s \notin busy
    BY DEF StoreInv, StoreKept, StoreConsistent, Listings
  <1>2. s \in Idle
    BY <1>1 DEF Listed, StoreInv, Listings, Idle
  <1>3. ToSet(keep) \subseteq Ships
    BY DEF StoreInv, StoreKept, StoreConsistent, Listed
  <1>4. Idle' = Idle \ {s} /\ Leaving' = Leaving \cup {s}
    BY <1>3 DEF Idle, Leaving
  <1>5. \A q \in Requests : LentTo'[q] = LentTo[q]
    BY NoneIsNoShip, SameLent
  <1>6. LentTo' = LentTo /\ Asked' = Asked
    BY <1>5, LentIsFunction DEF Asked
  <1> QED BY <1>2, <1>4, <1>6 DEF Pool!Expire

(* A mild step is a step of the pool or none: the only thing it can do is  *)
(* close a connection that serves somebody.                                *)
LEMMA MildPool ==
  ASSUME StoreInv, StoreInv', Mild
  PROVE  UNCHANGED Pool!vars \/ \E r \in Requests : Pool!Leave(r)
  <1>1. \A r \in Requests : req'[r].phase = "new" <=> req[r].phase = "new"
    BY DEF Mild
  <1>2. keep' = keep /\ ToSet(keep) \subseteq Ships
    BY DEF Mild, StoreInv, StoreKept, StoreConsistent, Listed
  <1>3. CASE \A s \in Ships : ship'[s].conn = "closing" => ship[s].conn = "closing"
    <2>1. \A s \in Ships : ship'[s].conn = "closing" <=> ship[s].conn = "closing"
      BY <1>3 DEF Mild
    <2>2. Leaving' = Leaving
      BY <2>1 DEF Leaving
    <2>3. Idle' = Idle
      BY <1>2, <2>1 DEF Idle, StoreInv, Listings
    <2>4. \A r \in Requests : LentTo'[r] = LentTo[r]
      BY <2>1, SameLent DEF Mild
    <2> QED BY <1>1, <2>2, <2>3, <2>4, AskedSame, PoolSame
  <1>4. ASSUME NEW s \in Ships, ship'[s].conn = "closing", ship[s].conn # "closing"
        PROVE  \E r \in Requests : Pool!Leave(r)
    <2>1. \A t \in Ships : t # s => ship'[t] = ship[t]
      BY <1>4 DEF Mild
    <2>2. ship[s].serves # None
      <3>1. CASE ship[s].conn = "connecting"
        BY <3>1 DEF StoreInv, StoreKept, StoreConsistent, Listed, Listings
      <3> QED BY <1>4, <3>1 DEF Mild
    <2>3. PICK r \in Requests : r = ship[s].serves
      BY <2>2 DEF StoreInv, StoreKept, TypeOK, ShipType
    <2>4. Pool!Leave(r)
      BY <1>1, <1>2, <1>4, <2>1, <2>3, Leaves
    <2> QED BY <2>4
  <1> QED BY <1>3, <1>4

(* What a step of the store may be to the pool.                            *)
PoolMove == \/ UNCHANGED Pool!vars
            \/ \E r \in Requests : Pool!Refuse(r) \/ Pool!GiveBack(r) \/ Pool!Leave(r)
            \/ \E r \in Requests, s \in Ships : Pool!Lend(r, s)
            \/ \E s \in Ships : Pool!Expire(s) \/ Pool!Discard(s)

(* Whom a connection serves has been forwarded.                            *)
LEMMA NotNew ==
  ASSUME StoreInv, NEW s \in Ships, ship[s].serves # None
  PROVE  /\ ship[s].serves \in Requests /\ req[ship[s].serves].phase # "new"
         /\ s \in busy /\ s \notin ToSet(keep)
  <1>1. ship[s].serves \in Requests
    BY DEF StoreInv, StoreKept, TypeOK, ShipType
  <1>2. s \in busy /\ req[ship[s].serves].phase \in {"arrived", "ended"}
    BY DEF StoreInv, Served
  <1> QED BY <1>1, <1>2 DEF StoreInv, StoreKept, StoreConsistent

(* A connection that is being closed anyway is no longer the pool's.       *)
LEMMA PartsOut ==
  ASSUME StoreInv, NEW s \in Ships, NEW r, r = ship[s].serves,
         ship[s].conn = "closing", ship'[s].conn = "closing",
         \A t \in Ships : t # s => ship'[t] = ship[t],
         \A t \in Ships : t # s => (t \in ToSet(keep') <=> t \in ToSet(keep)),
         ToSet(keep') \subseteq Ships,
         \A q \in Requests : req'[q].phase = "new" <=> req[q].phase = "new"
  PROVE  UNCHANGED Pool!vars
  <1>1. ToSet(keep) \subseteq Ships
    BY DEF StoreInv, StoreKept, StoreConsistent, Listed
  <1>2. Idle' = Idle
    BY <1>1 DEF Idle
  <1>3. Leaving' = Leaving
    BY DEF Leaving
  <1>4. \A q \in Requests : LentTo'[q] = LentTo[q]
    BY SameLent
  <1> QED BY <1>2, <1>3, <1>4, AskedSame, PoolSame

(* A dropped connection leaves the pool or has left it.                    *)
LEMMA DropPool ==
  ASSUME StoreInv, NEW s \in Ships, NEW sh \in ShipType, NEW r, r = ship[s].serves,
         ship[s].conn \in {"connecting", "up", "closing"},
         NEW q, r # None => q.phase # "new", DropShip(s, sh, r, q)
  PROVE  PoolMove
  <1>1. /\ ship \in [Ships -> ShipType] /\ req \in [Requests -> RequestType]
        /\ r \in Requests \cup {None}
    BY DEF StoreInv, StoreKept, TypeOK, ShipType
  <1>2. /\ ship'[s].conn = "closing" /\ keep' = keep
        /\ \A t \in Ships : t # s => ship'[t] = ship[t]
    BY <1>1 DEF DropShip, ShipType
  <1>3. ToSet(keep) \subseteq Ships
    BY DEF StoreInv, StoreKept, StoreConsistent, Listed
  <1>4. \A p \in Requests : req'[p].phase = "new" <=> req[p].phase = "new"
    <2>1. CASE r = None
      BY <2>1 DEF DropShip
    <2>2. CASE r # None
      BY <1>1, <2>2, NotNew DEF DropShip
    <2> QED BY <2>1, <2>2
  <1>5. CASE ship[s].conn = "closing"
    BY <1>2, <1>3, <1>4, <1>5, PartsOut DEF PoolMove
  <1>6. CASE ship[s].conn # "closing" /\ r = None
    <2>1. req' = req
      BY <1>6 DEF DropShip
    <2> QED BY <1>2, <1>6, <2>1, Expires DEF PoolMove
  <1>7. CASE ship[s].conn # "closing" /\ r # None
    BY <1>1, <1>2, <1>4, <1>7, Leaves DEF PoolMove
  <1> QED BY <1>5, <1>6, <1>7

(* A kept connection is given back to the pool, unless it is being closed. *)
LEMMA KeepPool ==
  ASSUME StoreInv, NEW s \in Ships, NEW sh \in ShipType, NEW r \in Requests,
         r = ship[s].serves, ship[s].conn \in {"up", "closing"}, sh.conn = ship[s].conn,
         NEW q \in RequestType, KeepShip(s, sh, r, q)
  PROVE  PoolMove
  <1>1. ship \in [Ships -> ShipType] /\ req \in [Requests -> RequestType] /\ keep \in Seq(Ships)
    BY DEF StoreInv, StoreKept, TypeOK
  <1>2. /\ ship'[s].conn = ship[s].conn /\ ship'[s].serves = None
        /\ \A t \in Ships : t # s => ship'[t] = ship[t]
        /\ keep' = Append(keep, s)
    BY <1>1, KeptOf DEF KeepShip
  <1>3. ToSet(keep') = ToSet(keep) \cup {s}
    BY <1>1, <1>2, AppendToSet
  <1>4. ToSet(keep) \subseteq Ships
    BY DEF StoreInv, StoreKept, StoreConsistent, Listed
  <1>5. r # None /\ ship[s].serves = r /\ s # None
    BY NoneIsNoShip
  <1>6. \A p \in Requests : req'[p].phase = "new" <=> req[p].phase = "new"
    BY <1>1, <1>5, NotNew, EndOf DEF KeepShip
  <1>7. CASE ship[s].conn = "closing"
    BY <1>2, <1>3, <1>4, <1>6, <1>7, PartsOut DEF PoolMove
  <1>8. CASE ship[s].conn = "up"
    <2>1. LentTo[r] = s
      BY <1>5, <1>8, LentOf
    <2>2. LentTo' = [LentTo EXCEPT ![r] = None]
      <3>1. \A t \in Ships : ship[t].serves = r => t = s
        BY <1>5 DEF StoreInv, StoreKept, StoreConsistent
      <3>2. \A t \in Ships : ~(ship'[t].serves = r /\ ship'[t].conn # "closing")
        BY <1>2, <1>5, <3>1
      <3>3. LentTo'[r] = None
        BY <3>2, NoneLentNext
      <3>4. \A p \in Requests : p # r => LentTo'[p] = LentTo[p]
        BY <1>2, <1>5, NoneIsNoShip, SameLent
      <3>5. \A p \in Requests : LentTo'[p] = [LentTo EXCEPT ![r] = None][p]
        BY <3>3, <3>4, LentIsFunction
      <3> QED BY <3>5, LentIsFunction
    <2>3. Idle' = Idle \cup {s}
      BY <1>2, <1>3, <1>4, <1>8 DEF Idle
    <2>4. Leaving' = Leaving /\ Asked' = Asked
      BY <1>2, <1>6, AskedSame DEF Leaving
    <2>5. Pool!GiveBack(r)
      BY <1>5, <2>1, <2>2, <2>3, <2>4 DEF Pool!GiveBack
    <2> QED BY <2>5 DEF PoolMove
  <1> QED BY <1>7, <1>8

(* What is closed has left, or was idle, or was lent.                      *)
LEMMA ClosedPool ==
  ASSUME StoreInv, NEW s \in Ships, Closed(s), ~Dies("consumed"), ~Dies("id")
  PROVE  PoolMove
  <1>1. PICK r : r = ship[s].serves
    OBVIOUS
  <1>2. /\ ship \in [Ships -> ShipType] /\ req \in [Requests -> RequestType] /\ keep \in Seq(Ships)
        /\ IsInjective(keep) /\ r \in Requests \cup {None} /\ TypeOK
    BY <1>1 DEF StoreInv, StoreKept, TypeOK, ShipType
  <1>3. /\ ship[s].conn = "closing" /\ ship' = [ship EXCEPT ![s] = [NewShip EXCEPT !.conn = "closed"]]
        /\ req' = (IF r = None THEN req ELSE [req EXCEPT ![r] = Failed(r)])
        /\ keep' = RemoveFirst(keep, s)
    BY <1>1 DEF Closed, OutOfLists
  <1>4. /\ ship'[s].conn = "closed" /\ ship'[s].serves = None
        /\ \A t \in Ships : t # s => ship'[t] = ship[t]
    BY <1>2, <1>3 DEF NewShip
  <1>5. ToSet(keep') = ToSet(keep) \ {s} /\ ToSet(keep) \subseteq Ships
    BY <1>2, <1>3, RemoveFirstSet DEF StoreInv, StoreKept, StoreConsistent, Listed
  <1>6. Idle' = Idle
    BY <1>3, <1>4, <1>5 DEF Idle
  <1>7. Leaving' = Leaving \ {s} /\ s \in Leaving
    BY <1>3, <1>4 DEF Leaving
  <1>8. Asked' = Asked
    <2>1. r # None => req[r].phase # "new"
      BY <1>1, NotNew
    <2>2. r # None => Failed(r).phase # "new"
      <3>1. r # None => /\ req[r].phase # "arrived" => Failed(r) = req[r]
                        /\ req[r].phase = "arrived" => Failed(r).phase \in {"ended", "returned"}
        BY <1>2, FailedOf
      <3> QED BY <2>1, <3>1
    <2> QED BY <1>2, <1>3, <2>1, <2>2, AskedSame
  <1>9. LentTo' = LentTo
    <2>1. \A q \in Requests : LentTo'[q] = LentTo[q]
      BY <1>3, <1>4, NoneIsNoShip, SameLent
    <2> QED BY <2>1, LentIsFunction
  <1>10. Pool!Discard(s)
    BY <1>6, <1>7, <1>8, <1>9 DEF Pool!Discard
  <1> QED BY <1>10 DEF PoolMove

(* The connection a request starts on is lent to it: it was idle, or it is *)
(* new and the pool is not at its limit.                                   *)
LEMMA StartPool ==
  ASSUME StoreInv, StoreInv', NEW r \in Requests, req[r].phase = "new", NEW s \in Ships,
         ship[s].serves = None, NEW rest, ToSet(rest) = ToSet(keep) \ {s}, ~Refused,
         IF Idle = {} THEN ship[s].conn = "none" ELSE s \in Idle,
         Start(r, s, rest)
  PROVE  Pool!Lend(r, s)
  <1>1. /\ keep' = rest
        /\ ship \in [Ships -> ShipType] /\ req \in [Requests -> RequestType]
    BY DEF Start, StoreInv, StoreKept, TypeOK
  <1>2. /\ ship'[s].serves = r /\ ship'[s].conn \in {"connecting", "up"}
        /\ \A t \in Ships : t # s => ship'[t] = ship[t]
    BY <1>1 DEF Start, ShipType, Idle
  <1>3. /\ req'[r].phase = "arrived"
        /\ \A q \in Requests : q # r => req'[q] = req[q]
    BY <1>1 DEF Start, RequestType
  <1>4. ToSet(keep) \subseteq Ships /\ s # None /\ r # None
    BY NoneIsNoShip DEF StoreInv, StoreKept, StoreConsistent, Listed
  <1>5. r \notin Asked /\ Asked' = Asked \cup {r}
    BY <1>3 DEF Asked
  <1>6. ~Pool!Limited
    BY RefusedIsLimited
  <1>7. IF Idle = {} THEN s \notin Pool!Pool ELSE s \in Idle
    BY PoolIsListed DEF StoreInv, StoreKept, StoreConsistent
  <1>8. Idle' = Idle \ {s}
    BY <1>1, <1>2, <1>4 DEF Idle
  <1>9. Leaving' = Leaving
    BY <1>2, <1>7 DEF Leaving, Idle
  <1>10. LentTo' = [LentTo EXCEPT ![r] = s]
    <2>1. LentTo'[r] = s
      BY <1>2, LentNext
    <2>2. \A q \in Requests : q # r => LentTo'[q] = LentTo[q]
      BY <1>2, NoneIsNoShip, SameLent
    <2>3. \A q \in Requests : LentTo'[q] = [LentTo EXCEPT ![r] = s][q]
      BY <2>1, <2>2, LentIsFunction
    <2> QED BY <2>3, LentIsFunction
  <1> QED BY <1>5, <1>6, <1>7, <1>8, <1>9, <1>10 DEF Pool!Lend

(* A request that comes is lent a connection or refused.                   *)
LEMMA ArrivePool == ASSUME StoreInv, StoreInv', NEW r \in Requests, Arrive(r) PROVE PoolMove
  <1>1. req[r].phase = "new"
    BY DEF Arrive
  <1>2. TypeOK /\ keep \in Seq(Ships) /\ IsInjective(keep) /\ ship \in [Ships -> ShipType]
        /\ req \in [Requests -> RequestType]
    BY DEF StoreInv, StoreKept, TypeOK
  <1>3. CASE /\ Refused
             /\ req' = [req EXCEPT ![r].phase = "ended", ![r].answer = "error"]
             /\ UNCHANGED <<ship, keep, busy>>
    <2>1. /\ req'[r].phase = "ended"
          /\ \A q \in Requests : q # r => req'[q] = req[q]
      BY <1>2, <1>3 DEF RequestType
    <2>2. r \notin Asked /\ Asked' = Asked \cup {r}
      BY <1>1, <2>1 DEF Asked
    <2>3. Idle' = Idle /\ Leaving' = Leaving
      BY <1>3 DEF Idle, Leaving
    <2>4. \A q \in Requests : LentTo'[q] = LentTo[q]
      BY <1>3, SameLent
    <2>5. LentTo' = LentTo
      BY <2>4, LentIsFunction
    <2>6. Pool!Limited
      BY <1>3, RefusedIsLimited
    <2>7. Pool!Refuse(r)
      BY <2>2, <2>3, <2>5, <2>6 DEF Pool!Refuse
    <2> QED BY <2>7 DEF PoolMove
  <1>4. ASSUME NEW i \in Usable, Start(r, keep[i], RemoveAt(keep, i)), ~Refused
        PROVE  PoolMove
    <2>1. i \in DOMAIN keep /\ keep[i] \in Ships /\ keep[i] \in ToSet(keep) /\ ship[keep[i]].conn = "up"
      BY <1>2, ElementOfSeq, LenProperties DEF Usable, ToSet
    <2>2. ship[keep[i]].serves = None
      BY <2>1 DEF StoreInv, StoreKept, StoreConsistent
    <2>3. ToSet(RemoveAt(keep, i)) = ToSet(keep) \ {keep[i]}
      BY <1>2, <2>1, RemoveAtSet
    <2>4. keep[i] \in Idle
      BY <2>1 DEF Idle
    <2>5. IF Idle = {} THEN ship[keep[i]].conn = "none" ELSE keep[i] \in Idle
      BY <2>4
    <2>6. Pool!Lend(r, keep[i])
      BY <1>1, <1>4, <2>1, <2>2, <2>3, <2>5, StartPool
    <2> QED BY <2>1, <2>6 DEF PoolMove
  <1>5. ASSUME NEW s \in Ships, Unused(s), Start(r, s, keep), ~Refused, Usable = {}
        PROVE  PoolMove
    <2>1. ship[s].conn = "none" /\ ship[s].serves = None
      BY <1>5 DEF Unused, StoreInv, Listings, NewShip
    <2>2. s \notin ToSet(keep)
      BY <2>1 DEF StoreInv, Listings
    <2>3. ToSet(keep) = ToSet(keep) \ {s}
      BY <2>2
    <2>4. Idle = {}
      <3>1. \A i \in DOMAIN keep : ship[keep[i]].conn # "up"
        BY <1>5 DEF Usable
      <3> QED BY <3>1 DEF Idle, ToSet
    <2>5. Pool!Lend(r, s)
      BY <1>1, <1>5, <2>1, <2>3, <2>4, StartPool
    <2> QED BY <2>5 DEF PoolMove
  <1> QED BY <1>3, <1>4, <1>5 DEF Arrive

(* A read drops the connection, gives it back or goes on.                  *)
LEMMA ReadPool == ASSUME StoreInv, StoreInv', NEW s \in Ships, Read(s) PROVE PoolMove
  <1>1. CASE Dies("stray") \/ Dies("id")
    BY <1>1, StutterMild, MildPool DEF Dies, PoolMove
  <1>2. CASE ~Dies("stray") /\ ~Dies("id")
    <2>1. PICK r : r = ship[s].serves
      OBVIOUS
    <2>2. PICK sh : sh = [ship[s] EXCEPT !.inbox = Tail(@)]
      OBVIOUS
    <2>3. TypeOK /\ ship[s] \in ShipType
      BY DEF StoreInv, StoreKept, TypeOK
    <2>4. /\ sh \in ShipType /\ ship[s].conn \in {"up", "closing"}
          /\ \/ r = None /\ DropShip(s, sh, r, NewRequest)
             \/ r \in Requests /\ \E q : Outcome(s, sh, r, q)
      BY <1>2, <2>1, <2>2, <2>3, ReadShapes
    <2>5. sh.conn = ship[s].conn /\ sh.serves = r
      BY <2>1, <2>2, <2>3 DEF ShipType
    <2>6. CASE r = None /\ DropShip(s, sh, r, NewRequest)
      BY <2>1, <2>4, <2>6, DropPool
    <2>7. ASSUME r \in Requests, NEW q, Outcome(s, sh, r, q)
          PROVE  PoolMove
      <3>1. q \in RequestType /\ req[r].phase # "new"
        BY <2>1, <2>7, NotNew, NoneIsNoShip DEF Outcome
      <3>2. CASE /\ q.phase \in {"ended", "returned"} \/ (q = req[r] /\ q.phase # "arrived")
                 /\ DropShip(s, sh, r, q)
        BY <2>1, <2>4, <3>1, <3>2, DropPool
      <3>3. CASE KeepShip(s, sh, r, q)
        BY <2>1, <2>4, <2>5, <2>7, <3>1, <3>3, KeepPool
      <3>4. ASSUME q.phase = req[r].phase, NEW x \in ShipType, x.conn = sh.conn, x.serves = r,
                   GoesOn(s, x, r, q)
            PROVE  PoolMove
        <4>1. q.via = req[r].via
          BY <2>7 DEF Outcome
        <4>2. Mild
          BY <2>1, <2>4, <2>5, <2>7, <3>4, <4>1, GoesOnMild
        <4> QED BY <4>2, MildPool DEF PoolMove
      <3> QED BY <2>7, <3>2, <3>3, <3>4 DEF Outcome
    <2> QED BY <2>4, <2>6, <2>7
  <1> QED BY <1>1, <1>2

(* A connection that times out expires, or leaves whom it serves.          *)
LEMMA TimesOutPool == ASSUME StoreInv, NEW s \in Ships, TimesOut(s) PROVE PoolMove
  <1>1. PICK r : r = ship[s].serves
    OBVIOUS
  <1>2. /\ DropShip(s, ship[s], r, IF r = None THEN NewRequest ELSE Failed(r))
        /\ ship[s].conn \in {"connecting", "up"}
    BY <1>1 DEF TimesOut
  <1>3. TypeOK /\ r \in Requests \cup {None} /\ ship[s] \in ShipType
    BY <1>1 DEF StoreInv, StoreKept, TypeOK, ShipType
  <1>4. r # None => (IF r = None THEN NewRequest ELSE Failed(r)).phase # "new"
    <2>1. r # None => /\ req[r].phase # "arrived" => Failed(r) = req[r]
                      /\ req[r].phase = "arrived" => Failed(r).phase \in {"ended", "returned"}
      BY <1>3, FailedOf
    <2>2. r # None => req[r].phase # "new"
      BY <1>1, NotNew
    <2> QED BY <2>1, <2>2
  <1> QED BY <1>1, <1>2, <1>3, <1>4, DropPool

(* Every step of the store is a step of the pool, or none.                 *)
LEMMA PoolStep == ASSUME StoreInv, StoreInv', [Next]_vars PROVE [Pool!Next]_(Pool!vars)
  <1>1. CASE UNCHANGED vars
    BY <1>1, StutterMild, MildPool DEF vars, PoolMove, Pool!Next
  <1>2. ASSUME NEW r \in Requests,
               Body(r) \/ ClientReads(r) \/ ReturnTour(r) \/ Arrive(r) \/ TooLong(r) \/ Disconnect(r)
        PROVE  PoolMove
    <2>1. CASE Dies("id") \/ Dies("resume")
      BY <2>1, StutterMild, MildPool DEF Dies, PoolMove
    <2>2. CASE Arrive(r)
      BY <2>2, ArrivePool
    <2> QED BY <1>2, <2>1, <2>2, BodyMild, TooLongMild, ClientMild, MildPool DEF PoolMove
  <1>3. ASSUME NEW s \in Ships,
               \/ Connected(s) \/ Write(s) \/ UpAnswers(s) \/ Read(s) \/ TimesOut(s) \/ Closed(s)
               \/ ConnectFails(s) \/ UpCloses(s) \/ UpStray(s)
        PROVE  PoolMove
    <2>1. CASE Dies("id") \/ Dies("consumed")
      BY <2>1, StutterMild, MildPool DEF Dies, PoolMove
    <2>2. CASE Read(s) \/ TimesOut(s) \/ (Closed(s) /\ ~Dies("id") /\ ~Dies("consumed"))
      BY <2>2, ReadPool, TimesOutPool, ClosedPool
    <2> QED BY <1>3, <2>1, <2>2, ConnectMild, WriteMild, BackendMild, MildPool DEF PoolMove
  <1>4. CASE Next
    <2>1. PoolMove
      BY <1>2, <1>3, <1>4 DEF Next, Internal, External
    <2> QED BY <2>1 DEF PoolMove, Pool!Next
  <1> QED BY <1>1, <1>4

(* The store, the connections and the requests implement ShipPool, the     *)
(* abstract pool: rent, keep, onShipClosed and the timeouts of a warp      *)
(* connection are Lend, GiveBack, Leave and Expire of the pool, or nothing *)
(* to it, whatever the bounds are.                                         *)
THEOREM StoreIsAPool == Spec => ImplementsPool
  <1>1. Init => StoreInv
    BY StoreInit
  <1>2. StoreInv /\ [Next]_vars => StoreInv'
    BY StoreStep
  <1>3. Init => Pool!Init
    BY InitialPool
  <1>4. StoreInv /\ StoreInv' /\ [Next]_vars => [Pool!Next]_(Pool!vars)
    BY PoolStep
  <1> QED BY <1>1, <1>2, <1>3, <1>4, PTL DEF Spec, ImplementsPool, Pool!Spec

-----------------------------------------------------------------------------
(* What every implementation of ShipPool inherits from it: a connection is *)
(* in one place at a time, has one owner at most, and there are never more *)
(* of them than the limit.                                                 *)

(* The pool is well typed.                                                 *)
PoolTyped ==
  /\ Asked \subseteq Requests
  /\ Idle \subseteq Ships /\ Leaving \subseteq Ships
  /\ LentTo \in [Requests -> Ships \cup {None}]

(* Who has a connection has asked for it.                                  *)
OnlyAsked == \A r \in Requests : LentTo[r] # None => r \in Asked

(* A connection is idle, or lent, or being closed (WarpShipStore's lists). *)
OnePlace == Idle \cap Leaving = {} /\ Pool!Lent \cap (Idle \cup Leaving) = {}

(* It is lent to one request at a time (WarpShipStore.rent).               *)
OneOwner == \A q, r \in Requests : LentTo[q] = LentTo[r] /\ LentTo[q] # None => q = r

(* There are no more connections than the limit, 0 for none, allows        *)
(* (rent's test of max_ships).                                             *)
WithinLimit == IsFiniteSet(Pool!Pool) /\ (0 < MaxShips => Cardinality(Pool!Pool) <= MaxShips)

(* All that the pool promises.                                             *)
PoolInv == PoolTyped /\ OnlyAsked /\ OnePlace /\ OneOwner /\ WithinLimit

(* An empty pool keeps its promises.                                       *)
LEMMA PoolInvInit ==
  ASSUME Pool!Init
  PROVE  PoolInv
  <1>1. Pool!Lent = {} /\ Pool!Pool = {}
    BY DEF Pool!Init, Pool!Lent, Pool!Pool
  <1>2. IsFiniteSet(Pool!Pool) /\ Cardinality(Pool!Pool) = 0
    BY <1>1, FS_EmptySet
  <1>3. WithinLimit
    BY <1>2, WarpAssumption DEF WithinLimit
  <1> QED BY <1>1, <1>3 DEF Pool!Init, PoolInv, PoolTyped, OnlyAsked, OnePlace, OneOwner

(* Fewer connections are within the limit if more are.                     *)
LEMMA FewerAreWithin ==
  ASSUME WithinLimit, Pool!Pool' \subseteq Pool!Pool
  PROVE  WithinLimit'
  <1>1. IsFiniteSet(Pool!Pool') /\ Cardinality(Pool!Pool') <= Cardinality(Pool!Pool)
    BY FS_Subset DEF WithinLimit
  <1>2. Cardinality(Pool!Pool) \in Nat /\ Cardinality(Pool!Pool') \in Nat
    BY <1>1, FS_CardinalityType DEF WithinLimit
  <1> QED BY <1>1, <1>2, WarpAssumption DEF WithinLimit

(* Nobody is lent anything when the pool is at its limit.                  *)
LEMMA RefuseInv ==
  ASSUME PoolInv, NEW r \in Requests, Pool!Refuse(r)
  PROVE  PoolInv'
  <1>1. Pool!Pool' = Pool!Pool /\ Pool!Lent' = Pool!Lent
    BY DEF Pool!Refuse, Pool!Pool, Pool!Lent
  <1>2. WithinLimit'
    BY <1>1, FewerAreWithin DEF PoolInv
  <1> QED BY <1>1, <1>2 DEF PoolInv, PoolTyped, OnlyAsked, OnePlace, OneOwner, Pool!Refuse

(* A connection is lent: the idle one, or a new one below the limit.       *)
LEMMA LendInv ==
  ASSUME PoolInv, NEW r \in Requests, NEW s \in Ships, Pool!Lend(r, s)
  PROVE  PoolInv'
  <1>1. LentTo[r] = None /\ LentTo' = [LentTo EXCEPT ![r] = s] /\ LentTo \in [Requests -> Ships \cup {None}]
    BY DEF Pool!Lend, PoolInv, OnlyAsked, PoolTyped
  <1>2. Idle' = Idle \ {s} /\ Leaving' = Leaving /\ s \notin Pool!Lent /\ s \notin Leaving
    BY DEF Pool!Lend, PoolInv, OnePlace, Pool!Pool
  <1>3. Pool!Lent' \subseteq Pool!Lent \cup {s}
    BY <1>1 DEF Pool!Lent
  <1>4. PoolTyped' /\ OnlyAsked'
    BY <1>1, <1>2 DEF Pool!Lend, PoolInv, PoolTyped, OnlyAsked
  <1>5. OnePlace'
    BY <1>2, <1>3 DEF PoolInv, OnePlace
  <1>6. OneOwner'
    <2>1. \A q \in Requests : LentTo[q] # None => LentTo[q] # s
      BY <1>2 DEF Pool!Lent
    <2> QED BY <1>1, <2>1 DEF PoolInv, OneOwner
  <1>7. WithinLimit'
    <2>1. CASE s \in Pool!Pool
      BY <2>1, <1>2, <1>3, FewerAreWithin DEF PoolInv, Pool!Pool
    <2>2. CASE s \notin Pool!Pool
      <3>1. IsFiniteSet(Pool!Pool) /\ Cardinality(Pool!Pool) \in Nat
        BY FS_CardinalityType DEF PoolInv, WithinLimit
      <3>2. IsFiniteSet(Pool!Pool \cup {s}) /\ Cardinality(Pool!Pool \cup {s}) = Cardinality(Pool!Pool) + 1
        BY <2>2, <3>1, FS_AddElement
      <3>3. Pool!Pool' \subseteq Pool!Pool \cup {s}
        BY <1>2, <1>3 DEF Pool!Pool
      <3>4. IsFiniteSet(Pool!Pool') /\ Cardinality(Pool!Pool') \in Nat /\ Cardinality(Pool!Pool') <= Cardinality(Pool!Pool) + 1
        BY <3>2, <3>3, FS_Subset, FS_CardinalityType
      <3>5. 0 < MaxShips => Cardinality(Pool!Pool) < MaxShips
        <4>1. Pool!Cardinality(Pool!Pool) = Cardinality(Pool!Pool)
          BY DEF Pool!Cardinality, Cardinality
        <4> QED BY <3>1, <4>1, WarpAssumption DEF Pool!Lend, Pool!Limited
      <3>6. 0 < MaxShips => Cardinality(Pool!Pool') <= MaxShips
        BY <3>1, <3>4, <3>5, WarpAssumption
      <3> QED BY <3>4, <3>6 DEF WithinLimit
    <2> QED BY <2>1, <2>2
  <1> QED BY <1>4, <1>5, <1>6, <1>7 DEF PoolInv

(* A connection comes back from its request.                               *)
LEMMA ReturnInv ==
  ASSUME PoolInv, NEW r \in Requests, Pool!GiveBack(r) \/ Pool!Leave(r)
  PROVE  PoolInv'
  <1>1. LentTo[r] # None /\ LentTo' = [LentTo EXCEPT ![r] = None] /\ Asked' = Asked
        /\ LentTo \in [Requests -> Ships \cup {None}] /\ LentTo[r] \in Ships
    BY DEF Pool!GiveBack, Pool!Leave, PoolInv, PoolTyped
  <1>2. /\ LentTo[r] \in Pool!Lent /\ LentTo[r] \notin Idle \cup Leaving
        /\ Pool!Lent' = Pool!Lent \ {LentTo[r]}
    BY <1>1 DEF Pool!Lent, PoolInv, OnePlace, OneOwner
  <1>3. \/ Idle' = Idle \cup {LentTo[r]} /\ Leaving' = Leaving
        \/ Idle' = Idle /\ Leaving' = Leaving \cup {LentTo[r]}
    BY DEF Pool!GiveBack, Pool!Leave
  <1>4. PoolTyped' /\ OnlyAsked'
    BY <1>1, <1>3 DEF PoolInv, PoolTyped, OnlyAsked
  <1>5. OnePlace'
    BY <1>2, <1>3 DEF PoolInv, OnePlace
  <1>6. OneOwner'
    BY <1>1 DEF PoolInv, OneOwner
  <1>7. WithinLimit'
    BY <1>2, <1>3, FewerAreWithin DEF PoolInv, Pool!Pool
  <1> QED BY <1>4, <1>5, <1>6, <1>7 DEF PoolInv

(* An idle connection is closed, a closed one forgotten.                   *)
LEMMA CloseInv ==
  ASSUME PoolInv, NEW s \in Ships, Pool!Expire(s) \/ Pool!Discard(s)
  PROVE  PoolInv'
  <1>1. Pool!Lent' = Pool!Lent /\ UNCHANGED <<Asked, LentTo>>
    BY DEF Pool!Expire, Pool!Discard, Pool!Lent
  <1>2. PoolTyped' /\ OnlyAsked' /\ OneOwner'
    BY <1>1 DEF Pool!Expire, Pool!Discard, PoolInv, PoolTyped, OnlyAsked, OneOwner
  <1>3. OnePlace'
    BY <1>1 DEF Pool!Expire, Pool!Discard, PoolInv, OnePlace
  <1>4. WithinLimit'
    BY <1>1, FewerAreWithin DEF Pool!Expire, Pool!Discard, PoolInv, Pool!Pool
  <1> QED BY <1>2, <1>3, <1>4 DEF PoolInv

(* Every step of the pool keeps them.                                      *)
LEMMA PoolInvStep ==
  ASSUME PoolInv, [Pool!Next]_(Pool!vars)
  PROVE  PoolInv'
  <1>1. CASE UNCHANGED Pool!vars
    <2>1. Pool!Pool' = Pool!Pool /\ Pool!Lent' = Pool!Lent
      BY <1>1 DEF Pool!vars, Pool!Pool, Pool!Lent
    <2>2. WithinLimit'
      BY <2>1, FewerAreWithin DEF PoolInv
    <2> QED BY <1>1, <2>1, <2>2 DEF Pool!vars, PoolInv, PoolTyped, OnlyAsked, OnePlace, OneOwner
  <1>2. CASE Pool!Next
    BY <1>2, RefuseInv, LendInv, ReturnInv, CloseInv DEF Pool!Next
  <1> QED BY <1>1, <1>2

(* What the pool promises of its own steps alone.                          *)
LEMMA PoolKeepsPromises == Pool!Spec => []PoolInv
  <1>1. Pool!Init => PoolInv
    BY PoolInvInit
  <1>2. PoolInv /\ [Pool!Next]_(Pool!vars) => PoolInv'
    BY PoolInvStep
  <1> QED BY <1>1, <1>2, PTL DEF Pool!Spec

(* Whatever the requests do, and for every limit: a connection of the      *)
(* proxy's store is in one place, has one owner, and there are no more of  *)
(* them than allowed (WarpShipStore, ObjectStore.rent). The store has this *)
(* from the pool it implements.                                            *)
THEOREM PoolPromises == Spec => []PoolInv
  <1> QED BY StoreIsAPool, PoolKeepsPromises, PTL DEF ImplementsPool

-----------------------------------------------------------------------------
(* Who talks with whom: what is posted on a connection, heard by the       *)
(* backend, and said by it.                                                *)

(* The connection may still be read: it is open, or was closed while its   *)
(* last read is under way.                                                 *)
Open(sh) == sh.conn \in {"connecting", "up"} \/ (sh.conn = "closing" /\ "read" \in sh.armed)

(* Nothing of an answer waits to be read.                                  *)
Silent(sh) == \A i \in DOMAIN sh.inbox : sh.inbox[i].kind = "eof"
(* A unit that starts a request.                                           *)
IsHeader(u) == u.kind # "body"

(* Connection and backend talk in turns: the backend owes an answer to the *)
(* request the connection serves, before it has sent any of it; what it    *)
(* has sent is for that request and ends once; at most one header waits to *)
(* be written, that of the request served, while nothing is owed or being  *)
(* read.                                                                   *)
Talk(sh) ==
  /\ sh.owes => sh.heard = sh.serves /\ sh.serves # None /\ Silent(sh)
  /\ \A i \in DOMAIN sh.inbox : sh.inbox[i].kind # "eof" =>
       sh.inbox[i].to = sh.serves /\ sh.serves # None
  /\ \A i, j \in DOMAIN sh.inbox :
       i < j /\ sh.inbox[i].kind \in {"empty", "last"} => sh.inbox[j].kind = "eof"
  /\ \A i \in DOMAIN sh.units : IsHeader(sh.units[i]) =>
       /\ sh.units[i].of = sh.serves /\ ~sh.owes /\ Silent(sh)
       /\ \A j \in DOMAIN sh.units : IsHeader(sh.units[j]) => i = j

(* As long as no backend strays, every connection that is still read talks *)
(* in turns.                                                               *)
Conversation == ~strayed => \A s \in Ships : Open(ship[s]) => Talk(ship[s])

(* A part of the body of r waits to be written.                            *)
Pending(s, r) == [kind |-> "body", of |-> r] \in ToSet(ship[s].units)
(* The parts of bodies that wait are of requests of this connection, which *)
(* may have had their end.                                                 *)
BodyUnits == \A s \in Ships, r \in Requests :
               Pending(s, r) => req[r].via = s /\ req[r].phase # "new"

(* The record of a request: who has an end and stays has an answer; the    *)
(* answers that are not plain - without a header, or behind an error - are *)
(* of requests with a body; who waits for the consumer is still there.     *)
Sound(r, q) ==
  /\ q.answer = "bare" => method[r] = "post"
  /\ q.answer = "mixed" => method[r] = "post" /\ ~q.sent /\ q.phase \in {"ended", "returned"}
  /\ q.client /\ q.phase \in {"ended", "returned"} => q.answer # "none"
  /\ q.headed /\ q.client => q.answer # "none"
  /\ q.full => q.client /\ q.phase \in {"arrived", "ended"}
  /\ q.phase = "new" => q = NewRequest

(* All records are sound, only a backend that strayed has a request        *)
(* answered amiss, a request that ended and is still served was answered   *)
(* early, and a connection whose answer has begun has shown it to its      *)
(* request.                                                                *)
Endings ==
  /\ \A r \in Requests : Sound(r, req[r])
  /\ \A r \in Requests : req[r].answer = "stray" => strayed
  /\ \A s \in Ships : ship[s].serves # None /\ req[ship[s].serves].phase = "ended" =>
        method[ship[s].serves] = "post" /\ ~req[ship[s].serves].sent
  /\ \A s \in Ships : ship[s].state = "content" /\ ship[s].serves # None => req[ship[s].serves].headed
  /\ \A s \in ToSet(keep) : ship[s].state = "header"

(* Two states of a connection in which the same has been said.             *)
SameTalk(x, y) ==
  /\ y.owes = x.owes /\ y.heard = x.heard /\ y.serves = x.serves
  /\ y.inbox = x.inbox /\ y.units = x.units

(* On a new connection nothing has been said.                              *)
LEMMA TalkNew == Talk(NewShip)
  <1>1. NewShip.inbox = <<>> /\ NewShip.units = <<>> /\ NewShip.owes = FALSE
    BY DEF NewShip
  <1>2. DOMAIN NewShip.inbox = {} /\ DOMAIN NewShip.units = {}
    BY <1>1
  <1> QED BY <1>1, <1>2 DEF Talk

(* What a connection and its backend have said depends on five fields.     *)
LEMMA TalkSame == ASSUME NEW x, NEW y, Talk(x), SameTalk(x, y) PROVE Talk(y)
  BY DEF Talk, SameTalk, Silent

(* The places of a queue with one more element.                            *)
LEMMA AppendAt ==
  ASSUME NEW S, NEW q \in Seq(S), NEW u \in S
  PROVE  /\ Len(q) \in Nat /\ DOMAIN q = 1 .. Len(q)
         /\ DOMAIN Append(q, u) = 1 .. Len(q) + 1
         /\ \A i \in 1 .. Len(q) : Append(q, u)[i] = q[i]
         /\ Append(q, u)[Len(q) + 1] = u
  BY AppendProperties, LenProperties

(* A request is posted on a connection that serves nobody.                 *)
LEMMA TalkStart ==
  ASSUME NEW x \in ShipType, NEW y, Talk(x), x.serves = None, NEW u \in Unit, u.kind # "body",
         u.of = y.serves, y.serves # None, y.units = Append(x.units, u),
         y.inbox = x.inbox, y.owes = x.owes, y.heard = x.heard
  PROVE  Talk(y)
  <1>1. x.units \in Seq(Unit) /\ x.inbox \in Seq(Item)
    BY DEF ShipType
  <1>2. ~x.owes /\ Silent(x)
    BY DEF Talk, Silent
  <1>3. \A i \in DOMAIN x.units : ~IsHeader(x.units[i])
    <2> SUFFICES ASSUME NEW i \in DOMAIN x.units, IsHeader(x.units[i])
                 PROVE  FALSE
      OBVIOUS
    <2>1. x.units[i] \in Unit
      BY <1>1, ElementOfSeq, LenProperties
    <2>2. x.units[i].of \in Requests
      BY <2>1 DEF Unit
    <2> QED BY <2>2, NoneIsNoShip DEF Talk
  <1>4. \A i \in DOMAIN y.units : IsHeader(y.units[i]) => i = Len(x.units) + 1 /\ y.units[i] = u
    BY <1>1, <1>3, AppendAt
  <1>5. ~y.owes /\ Silent(y)
    BY <1>2 DEF Silent
  <1> QED BY <1>4, <1>5 DEF Talk, Silent

(* A part of a body is posted.                                             *)
LEMMA TalkBody ==
  ASSUME NEW x \in ShipType, NEW y, Talk(x), NEW u \in Unit, u.kind = "body",
         y.serves = x.serves, y.units = Append(x.units, u),
         y.inbox = x.inbox, y.owes = x.owes, y.heard = x.heard
  PROVE  Talk(y)
  <1>1. x.units \in Seq(Unit)
    BY DEF ShipType
  <1>2. \A i \in DOMAIN y.units : IsHeader(y.units[i]) => i \in DOMAIN x.units /\ y.units[i] = x.units[i]
    BY <1>1, AppendAt DEF IsHeader
  <1>3. Silent(x) => Silent(y)
    BY DEF Silent
  <1> QED BY <1>2, <1>3 DEF Talk

(* The places of a queue with one element less.                            *)
LEMMA TailAt ==
  ASSUME NEW S, NEW q \in Seq(S), q # <<>>
  PROVE  /\ Len(q) \in Nat /\ 1 \in DOMAIN q /\ Head(q) = q[1] /\ Tail(q) \in Seq(S)
         /\ DOMAIN Tail(q) = 1 .. Len(q) - 1
         /\ \A i \in DOMAIN Tail(q) : i + 1 \in DOMAIN q /\ Tail(q)[i] = q[i + 1] /\ i \in Nat
  BY HeadTailProperties, LenProperties, EmptySeq

(* One unit is written; what is left holds a header only if it was none.   *)
LEMMA TalkTake ==
  ASSUME NEW x \in ShipType, NEW y, Talk(x), x.units # <<>>,
         NEW t, t = Take(x, Head(x.units)),
         y.serves = t.serves, y.units = Tail(x.units),
         y.inbox = t.inbox, y.owes = t.owes, y.heard = t.heard
  PROVE  Talk(y)
  <1> DEFINE u == Head(x.units)
  <1>1. x.units \in Seq(Unit)
    BY DEF ShipType
  <1>2. /\ 1 \in DOMAIN x.units /\ u = x.units[1] /\ u \in Unit
        /\ \A i \in DOMAIN y.units : /\ i + 1 \in DOMAIN x.units /\ y.units[i] = x.units[i + 1]
                                     /\ i + 1 # 1
    <2>1. DOMAIN Tail(x.units) = 1 .. Len(x.units) - 1
      BY <1>1, TailAt
    <2>2. u \in Unit
      BY <1>1, HeadTailProperties
    <2>3. \A i \in DOMAIN y.units : i + 1 # 1
      BY <1>1, <2>1, TailAt
    <2> QED BY <1>1, <2>2, <2>3, TailAt
  <1>3. t.serves = x.serves /\ t.inbox = x.inbox
    BY <1>2, TakeOf
  <1>4. IsHeader(u) => \A i \in DOMAIN y.units : ~IsHeader(y.units[i])
    BY <1>2 DEF Talk
  <1>5. \/ ~IsHeader(u) /\ t.owes = x.owes /\ t.heard = x.heard
        \/ IsHeader(u) /\ t.owes = TRUE /\ t.heard = u.of
        \/ IsHeader(u) /\ t.owes = x.owes /\ t.heard = x.heard
    BY <1>2 DEF Take, IsHeader, ShipType
  <1>6. Silent(x) => Silent(y)
    BY <1>3 DEF Silent
  <1>7. IsHeader(u) => u.of = x.serves /\ Silent(x) /\ u.of # None
    BY <1>2, NoneIsNoShip DEF Talk, Unit
  <1>8. y.owes => y.heard = y.serves /\ y.serves # None /\ Silent(y)
    BY <1>3, <1>5, <1>6, <1>7 DEF Talk
  <1>9. \A i \in DOMAIN y.units : IsHeader(y.units[i]) =>
          /\ y.units[i].of = y.serves /\ ~y.owes /\ Silent(y)
          /\ \A j \in DOMAIN y.units : IsHeader(y.units[j]) => i = j
    <2> SUFFICES ASSUME NEW i \in DOMAIN y.units, IsHeader(y.units[i])
                 PROVE  /\ y.units[i].of = y.serves /\ ~y.owes /\ Silent(y)
                        /\ \A j \in DOMAIN y.units : IsHeader(y.units[j]) => i = j
      OBVIOUS
    <2>1. ~IsHeader(u) /\ y.owes = x.owes
      BY <1>4, <1>5
    <2>2. i + 1 \in DOMAIN x.units /\ IsHeader(x.units[i + 1]) /\ y.units[i] = x.units[i + 1]
      BY <1>2
    <2>3. x.units[i + 1].of = x.serves /\ ~x.owes /\ Silent(x)
      BY <2>2 DEF Talk
    <2>4. \A j \in DOMAIN y.units : IsHeader(y.units[j]) => i + 1 = j + 1
      BY <1>2, <2>2 DEF Talk
    <2>5. \A j \in DOMAIN y.units : j \in Int
      BY <1>1, TailAt
    <2> QED BY <1>3, <1>6, <2>1, <2>2, <2>3, <2>4, <2>5
  <1>10. \A i, j \in DOMAIN y.inbox :
           i < j /\ y.inbox[i].kind \in {"empty", "last"} => y.inbox[j].kind = "eof"
    BY <1>3 DEF Talk
  <1>11. \A i \in DOMAIN y.inbox : y.inbox[i].kind # "eof" =>
           y.inbox[i].to = y.serves /\ y.serves # None
    BY <1>3 DEF Talk
  <1> QED BY <1>8, <1>9, <1>10, <1>11 DEF Talk

(* The places of two queues one after the other.                           *)
LEMMA ConcatAt ==
  ASSUME NEW S, NEW p \in Seq(S), NEW q \in Seq(S)
  PROVE  /\ Len(p) \in Nat /\ Len(q) \in Nat /\ DOMAIN p = 1 .. Len(p) /\ DOMAIN q = 1 .. Len(q)
         /\ DOMAIN (p \o q) = 1 .. Len(p) + Len(q)
         /\ \A i \in 1 .. Len(p) : (p \o q)[i] = p[i]
         /\ \A i \in Len(p) + 1 .. Len(p) + Len(q) :
              i - Len(p) \in 1 .. Len(q) /\ (p \o q)[i] = q[i - Len(p)]
  BY ConcatProperties, LenProperties

(* Nothing follows the end of an answer in it.                             *)
LEMMA AnswerEndsLast ==
  ASSUME NEW r, NEW a \in Answers(r)
  PROVE  \A i, j \in DOMAIN a : i < j => a[i] \notin {"empty", "last"}
  <1>1. \/ a = <<"head">> \/ a = <<"empty">> \/ a = <<"head", "data", "last">>
        \/ a = <<"head", "over">> \/ a = <<"head", "data", "eof">>
    BY DEF Answers
  <1> QED BY <1>1

(* The backend answers: at most its last item is the end of an answer.     *)
LEMMA TalkSays ==
  ASSUME TypeOK, NEW s \in Ships, NEW r \in Requests \cup {None},
         NEW kinds \in Seq(Kinds), Talk(ship[s]),
         \/ kinds = <<"eof">>
         \/ /\ ship[s].owes /\ r = ship[s].heard
            /\ \A i, j \in DOMAIN kinds : i < j => kinds[i] \notin {"empty", "last"},
         NEW y, y.serves = ship[s].serves, y.units = ship[s].units, y.heard = ship[s].heard,
         y.inbox = Says(s, kinds, r),
         y.owes = IF kinds = <<"eof">> THEN ship[s].owes ELSE FALSE
  PROVE  Talk(y)
  <1> DEFINE said == [i \in DOMAIN kinds |-> [kind |-> kinds[i], to |-> r]]
             x == ship[s]
             n == Len(x.inbox)
  <1>1. x \in ShipType /\ x.inbox \in Seq(Item)
    BY DEF TypeOK, ShipType
  <1>2. said \in Seq(Item) /\ DOMAIN said = DOMAIN kinds
    <2>1. Len(kinds) \in Nat /\ DOMAIN kinds = 1 .. Len(kinds) /\ \A i \in DOMAIN kinds : kinds[i] \in Kinds
      BY LenProperties, ElementOfSeq
    <2>2. \A i \in DOMAIN kinds : [kind |-> kinds[i], to |-> r] \in Item
      BY <2>1 DEF Kinds, Item
    <2> QED BY <2>1, <2>2
  <1>3. y.inbox = x.inbox \o said
    BY DEF Says
  <1>4. /\ n \in Nat /\ DOMAIN x.inbox = 1 .. n
        /\ \A i \in DOMAIN x.inbox : y.inbox[i] = x.inbox[i]
        /\ \A i \in DOMAIN y.inbox :
             \/ i \in DOMAIN x.inbox
             \/ i > n /\ i - n \in DOMAIN kinds /\ y.inbox[i] = said[i - n]
        /\ \A i \in DOMAIN y.inbox : i \in Int
    BY <1>1, <1>2, <1>3, ConcatAt
  <1> HIDE DEF x, n
  <1>5. \A i \in DOMAIN kinds : said[i].kind = kinds[i] /\ said[i].to = r
    OBVIOUS
  <1> HIDE DEF said
  <1>6. CASE kinds = <<"eof">>
    <2>1. \A i \in DOMAIN kinds : kinds[i] = "eof"
      BY <1>6
    <2>2. \A i \in DOMAIN y.inbox :
            \/ i \in DOMAIN x.inbox /\ y.inbox[i] = x.inbox[i]
            \/ i > n /\ y.inbox[i].kind = "eof"
      BY <1>4, <1>5, <2>1
    <2>3. Silent(x) => Silent(y)
      BY <2>2 DEF Silent
    <2>4. \A i, j \in DOMAIN y.inbox :
            i < j /\ y.inbox[i].kind \in {"empty", "last"} => y.inbox[j].kind = "eof"
      BY <1>4, <2>2 DEF Talk, x
    <2>5. \A i \in DOMAIN y.inbox : y.inbox[i].kind # "eof" =>
            y.inbox[i].to = y.serves /\ y.serves # None
      BY <2>2 DEF Talk, x
    <2>6. y.owes = x.owes
      BY <1>6 DEF x
    <2> QED BY <2>3, <2>4, <2>5, <2>6 DEF Talk, x
  <1>7. CASE kinds # <<"eof">>
    <2>1. /\ x.owes /\ r = x.heard /\ ~y.owes
          /\ \A i, j \in DOMAIN kinds : i < j => kinds[i] \notin {"empty", "last"}
      BY <1>7 DEF x
    <2>2. x.heard = x.serves /\ x.serves # None /\ \A i \in DOMAIN x.inbox : x.inbox[i].kind = "eof"
      BY <2>1 DEF Talk, Silent, x
    <2>3. \A i \in DOMAIN y.inbox :
            \/ i \in DOMAIN x.inbox /\ y.inbox[i].kind = "eof"
            \/ i > n /\ i - n \in DOMAIN kinds /\ y.inbox[i].kind = kinds[i - n] /\ y.inbox[i].to = x.serves
      BY <1>4, <1>5, <2>1, <2>2
    <2>4. \A i, j \in DOMAIN y.inbox :
            i < j /\ y.inbox[i].kind \in {"empty", "last"} => y.inbox[j].kind = "eof"
      <3> SUFFICES ASSUME NEW i \in DOMAIN y.inbox, NEW j \in DOMAIN y.inbox,
                          i < j, y.inbox[i].kind \in {"empty", "last"}
                   PROVE  FALSE
        OBVIOUS
      <3>1. i > n /\ i - n \in DOMAIN kinds /\ y.inbox[i].kind = kinds[i - n]
        BY <2>3
      <3>2. i \in Int /\ j \in Int /\ n \in Nat /\ j > n /\ j \notin DOMAIN x.inbox
        BY <1>4, <3>1
      <3>3. j - n \in DOMAIN kinds /\ i - n < j - n
        BY <2>3, <3>2
      <3> QED BY <2>1, <3>1, <3>3
    <2>5. \A i \in DOMAIN y.inbox : y.inbox[i].kind # "eof" =>
            y.inbox[i].to = y.serves /\ y.serves # None
      BY <2>2, <2>3 DEF x
    <2>6. \A i \in DOMAIN y.units : ~IsHeader(y.units[i])
      BY <2>1 DEF Talk, x
    <2> QED BY <2>1, <2>4, <2>5, <2>6 DEF Talk
  <1> QED BY <1>6, <1>7

(* What has been read first is taken off.                                  *)
LEMMA TalkTail ==
  ASSUME NEW x \in ShipType, NEW y, Talk(x), x.inbox # <<>>, y.inbox = Tail(x.inbox),
         y.serves = x.serves, y.units = x.units, y.heard = x.heard, y.owes = x.owes
  PROVE  Talk(y)
  <1>1. x.inbox \in Seq(Item)
    BY DEF ShipType
  <1>2. \A i \in DOMAIN y.inbox : i + 1 \in DOMAIN x.inbox /\ y.inbox[i] = x.inbox[i + 1] /\ i \in Nat
    BY <1>1, TailAt
  <1>3. Silent(x) => Silent(y)
    BY <1>2 DEF Silent
  <1>4. \A i, j \in DOMAIN y.inbox :
          i < j /\ y.inbox[i].kind \in {"empty", "last"} => y.inbox[j].kind = "eof"
    <2> SUFFICES ASSUME NEW i \in DOMAIN y.inbox, NEW j \in DOMAIN y.inbox,
                        i < j, y.inbox[i].kind \in {"empty", "last"}
                 PROVE  y.inbox[j].kind = "eof"
      OBVIOUS
    <2>1. i + 1 < j + 1 /\ i + 1 \in DOMAIN x.inbox /\ j + 1 \in DOMAIN x.inbox
      BY <1>2
    <2> QED BY <1>2, <2>1 DEF Talk
  <1> QED BY <1>2, <1>3, <1>4 DEF Talk

(* The end of an answer has been read: nothing but a close can follow.     *)
LEMMA TalkKept ==
  ASSUME NEW x \in ShipType, NEW y, Talk(x), x.inbox # <<>>,
         Head(x.inbox).kind \in {"empty", "last"}, y.inbox = Tail(x.inbox),
         y.units = x.units, y.owes = x.owes
  PROVE  Talk(y)
  <1>1. x.inbox \in Seq(Item)
    BY DEF ShipType
  <1>2. \A i \in DOMAIN y.inbox : i + 1 \in DOMAIN x.inbox /\ y.inbox[i] = x.inbox[i + 1] /\ i \in Nat
    BY <1>1, TailAt
  <1>3. 1 \in DOMAIN x.inbox /\ x.inbox[1].kind \in {"empty", "last"}
    BY <1>1, TailAt
  <1>4. \A i \in DOMAIN y.inbox : y.inbox[i].kind = "eof"
    <2> SUFFICES ASSUME NEW i \in DOMAIN y.inbox
                 PROVE  y.inbox[i].kind = "eof"
      OBVIOUS
    <2>1. i + 1 \in DOMAIN x.inbox /\ y.inbox[i] = x.inbox[i + 1] /\ i + 1 \in Nat /\ i + 1 > 0
      BY <1>2
    <2>2. DOMAIN Tail(x.inbox) = 1 .. Len(x.inbox) - 1 /\ Len(x.inbox) \in Nat
      BY <1>1, TailAt
    <2>3. 1 < i + 1
      BY <2>2
    <2> QED BY <1>3, <2>1, <2>3 DEF Talk
  <1>5. ~Silent(x)
    BY <1>3 DEF Silent
  <1>6. ~x.owes /\ \A i \in DOMAIN x.units : ~IsHeader(x.units[i])
    BY <1>5 DEF Talk
  <1> QED BY <1>4, <1>6 DEF Talk

(* A step of one connection keeps the conversation when that one does.     *)
LEMMA OneTalks ==
  ASSUME Conversation, strayed => strayed', NEW s,
         \A t \in Ships : t # s => ship'[t] = ship[t],
         s \in Ships /\ ~strayed' /\ Open(ship'[s]) => Talk(ship'[s])
  PROVE  Conversation'
  BY DEF Conversation

(* A connection that is closed as it is has said what it had.              *)
LEMMA GoneTalks ==
  ASSUME TypeOK, NEW s \in Ships, ship[s].conn \in {"connecting", "up", "closing"}
  PROVE  SameTalk(ship[s], Gone(s)) /\ (Open(Gone(s)) => Open(ship[s]))
  <1>1. ship[s] \in ShipType
    BY DEF TypeOK
  <1> QED BY <1>1 DEF Gone, SameTalk, Open, ShipType

(* So has one that resumes to read.                                        *)
LEMMA ResumedTalks ==
  ASSUME NEW r \in Requests, NEW sh \in ShipType
  PROVE  SameTalk(sh, ResumeRead(r, sh)) /\ (Open(ResumeRead(r, sh)) => Open(sh))
  BY DEF ResumeRead, SameTalk, Open, ShipType

(* A request comes: its header is the first thing that is posted on a      *)
(* connection that is new or has had its answer.                           *)
LEMMA ArriveTalks == ASSUME StoreInv, Conversation, NEW r \in Requests, Arrive(r) PROVE Conversation'
  <1>1. TypeOK /\ keep \in Seq(Ships) /\ ship \in [Ships -> ShipType] /\ strayed' = strayed
    BY DEF Arrive, Runs, StoreInv, StoreKept, TypeOK
  <1>2. ASSUME NEW s \in Ships, NEW rest, Start(r, s, rest), ship[s].serves = None,
               \/ ship[s].conn = "up"
               \/ ship[s] = NewShip
        PROVE  Conversation'
    <2>1. PICK u : u = [kind |-> IF method[r] = "post" THEN "header" ELSE "whole", of |-> r]
      OBVIOUS
    <2>2. u \in Unit /\ u.kind # "body" /\ u.of = r
      BY <2>1 DEF Unit
    <2>3. ship[s] \in ShipType
      BY <1>1
    <2>4. /\ ship'[s].serves = r /\ ship'[s].units = Append(ship[s].units, u)
          /\ ship'[s].inbox = ship[s].inbox /\ ship'[s].owes = ship[s].owes
          /\ ship'[s].heard = ship[s].heard
          /\ \A t \in Ships : t # s => ship'[t] = ship[t]
      BY <1>1, <1>2, <2>1, <2>3 DEF Start, ShipType
    <2>5. ~strayed => Talk(ship[s])
      BY <1>2, TalkNew DEF Conversation, Open
    <2>6. Talk(ship[s]) => Talk(ship'[s])
      BY <1>2, <2>2, <2>3, <2>4, TalkStart, NoneIsNoShip
    <2> QED BY <1>1, <2>4, <2>5, <2>6, OneTalks
  <1>3. CASE UNCHANGED ship
    BY <1>1, <1>3 DEF Conversation
  <1>4. ASSUME NEW i \in Usable, Start(r, keep[i], RemoveAt(keep, i))
        PROVE  Conversation'
    <2>1. i \in DOMAIN keep /\ keep[i] \in Ships /\ keep[i] \in ToSet(keep) /\ ship[keep[i]].conn = "up"
      BY <1>1, ElementOfSeq, LenProperties DEF Usable, ToSet
    <2>2. ship[keep[i]].serves = None
      BY <2>1 DEF StoreInv, StoreKept, StoreConsistent
    <2> QED BY <1>2, <1>4, <2>1, <2>2
  <1>5. ASSUME NEW s \in Ships, Unused(s), Start(r, s, keep)
        PROVE  Conversation'
    <2>1. ship[s] = NewShip
      BY <1>5 DEF Unused, StoreInv, Listings
    <2>2. ship[s].serves = None
      BY <2>1 DEF NewShip
    <2> QED BY <1>2, <1>5, <2>1, <2>2
  <1> QED BY <1>3, <1>4, <1>5 DEF Arrive

(* A connection is made or fails.                                          *)
LEMMA ConnectTalks ==
  ASSUME StoreInv, Conversation, NEW s \in Ships, (Connected(s) /\ ~Dies("id")) \/ ConnectFails(s)
  PROVE  Conversation'
  <1>1. TypeOK /\ ship \in [Ships -> ShipType] /\ ship[s] \in ShipType
    BY DEF StoreInv, StoreKept, TypeOK
  <1>2. ship[s].conn = "connecting" /\ (strayed => strayed')
    <2>1. CASE Connected(s)
      BY <2>1 DEF Connected, Runs
    <2>2. CASE ConnectFails(s)
      BY <2>2 DEF ConnectFails, Fault
    <2> QED BY <2>1, <2>2
  <1>3. /\ SameTalk(ship[s], ship'[s])
        /\ \A t \in Ships : t # s => ship'[t] = ship[t]
    <2>1. CASE Connected(s) /\ ~Dies("id")
      <3>1. ship' = [ship EXCEPT ![s] = [ship[s] EXCEPT !.conn = "up", !.armed = {"write"}]]
        BY <1>1, <2>1 DEF Connected
      <3> QED BY <1>1, <3>1 DEF SameTalk, ShipType
    <2>2. CASE ConnectFails(s)
      BY <1>1, <1>2, <2>2, GoneTalks DEF ConnectFails
    <2> QED BY <2>1, <2>2
  <1>4. ~strayed => Talk(ship[s])
    BY <1>2 DEF Conversation, Open
  <1> QED BY <1>2, <1>3, <1>4, TalkSame, OneTalks

(* A part of a body comes.                                                 *)
LEMMA BodyTalks ==
  ASSUME StoreInv, Conversation, NEW r \in Requests, Body(r), ~Dies("id")
  PROVE  Conversation'
  <1>1. PICK s \in Ships : s = req[r].via /\ ship[s].conn \in {"connecting", "up", "closing"}
    BY ItsShip DEF Body
  <1>2. ship \in [Ships -> ShipType] /\ ship[s] \in ShipType /\ strayed' = strayed
    BY DEF StoreInv, StoreKept, TypeOK, Body, Runs
  <1>3. PICK u : u = [kind |-> "body", of |-> r]
    OBVIOUS
  <1> u \in Unit /\ u.kind = "body"
    BY <1>3 DEF Unit
  <1>4. PICK a : ship' = [ship EXCEPT ![s].units = Append(@, u), ![s].armed = a]
                 /\ (ship[s].conn = "closing" => a = ship[s].armed)
    BY <1>1, <1>2, <1>3 DEF Body
  <1>5. /\ ship'[s].serves = ship[s].serves /\ ship'[s].units = Append(ship[s].units, u)
        /\ ship'[s].inbox = ship[s].inbox /\ ship'[s].owes = ship[s].owes
        /\ ship'[s].heard = ship[s].heard /\ ship'[s].conn = ship[s].conn
        /\ ship[s].conn = "closing" => ship'[s].armed = ship[s].armed
        /\ \A t \in Ships : t # s => ship'[t] = ship[t]
    BY <1>2, <1>4 DEF ShipType
  <1>6. Open(ship'[s]) => Open(ship[s])
    BY <1>1, <1>5 DEF Open
  <1>7. Talk(ship[s]) => Talk(ship'[s])
    BY <1>2, <1>3, <1>5, TalkBody
  <1> QED BY <1>2, <1>5, <1>6, <1>7, OneTalks DEF Conversation

(* What the client does says nothing to a backend.                         *)
LEMMA ClientTalks ==
  ASSUME StoreInv, Conversation, NEW r \in Requests,
         \/ TooLong(r) /\ ~Dies("id")
         \/ ClientReads(r) /\ ~Dies("resume")
         \/ ReturnTour(r)
         \/ Disconnect(r) /\ ~Dies("resume")
  PROVE  Conversation'
  <1>1. TypeOK /\ ship \in [Ships -> ShipType] /\ (strayed' <=> strayed)
    BY DEF StoreInv, StoreKept, TypeOK, TooLong, ClientReads, ReturnTour, Disconnect, Fault, Runs
  <1>2. PICK s : s = req[r].via
    OBVIOUS
  <1>3. \/ ship' = ship
        \/ ship' = [ship EXCEPT ![s] = ResumeRead(r, @)]
        \/ req[r].phase = "arrived" /\ ship' = [ship EXCEPT ![s] = Gone(s)]
    <2>1. CASE TooLong(r) /\ ~Dies("id")
      BY <1>2, <2>1 DEF TooLong
    <2>2. CASE ClientReads(r) /\ ~Dies("resume")
      BY <1>2, <2>2 DEF ClientReads
    <2>3. CASE ReturnTour(r)
      BY <2>3 DEF ReturnTour
    <2>4. CASE Disconnect(r) /\ ~Dies("resume")
      <3>1. ship' = IF s = None THEN ship
                    ELSE [ship EXCEPT ![s] =
                            IF req[r].phase = "arrived" /\ method[r] = "post"
                            THEN Gone(s) ELSE ResumeRead(r, @)]
        BY <1>2, <2>4 DEF Disconnect
      <3> QED BY <3>1
    <2> QED BY <2>1, <2>2, <2>3, <2>4
  <1>4. CASE ship' = ship
    BY <1>1, <1>4 DEF Conversation
  <1>5. CASE ship' = [ship EXCEPT ![s] = ResumeRead(r, @)]
    <2>1. /\ \A t \in Ships : t # s => ship'[t] = ship[t]
          /\ s \in Ships => ship'[s] = ResumeRead(r, ship[s])
      BY <1>1, <1>5
    <2>2. s \in Ships => SameTalk(ship[s], ship'[s]) /\ (Open(ship'[s]) => Open(ship[s]))
      BY <1>1, <2>1, ResumedTalks
    <2> QED BY <1>1, <2>1, <2>2, TalkSame, OneTalks DEF Conversation
  <1>6. CASE req[r].phase = "arrived" /\ ship' = [ship EXCEPT ![s] = Gone(s)]
    <2>1. s \in Ships /\ ship[s].conn \in {"connecting", "up", "closing"}
      BY <1>2, <1>6, ItsShip
    <2>2. ship'[s] = Gone(s) /\ \A t \in Ships : t # s => ship'[t] = ship[t]
      BY <1>1, <1>6, <2>1
    <2>3. SameTalk(ship[s], ship'[s]) /\ (Open(ship'[s]) => Open(ship[s]))
      BY <1>1, <2>1, <2>2, GoneTalks
    <2> QED BY <1>1, <2>2, <2>3, TalkSame, OneTalks DEF Conversation
  <1> QED BY <1>3, <1>4, <1>5, <1>6

(* A unit is written.                                                      *)
LEMMA WriteTalks ==
  ASSUME StoreInv, Conversation, NEW s \in Ships, Write(s), ~Dies("consumed")
  PROVE  Conversation'
  <1>1. /\ ship[s].conn = "up" /\ ship[s].units # <<>> /\ strayed' = strayed
        /\ \E left : ship' = [ship EXCEPT ![s] = [Take(@, Head(ship[s].units))
                                EXCEPT !.units = Tail(ship[s].units), !.armed = left]]
    BY DEF Write, Runs
  <1>2. ship \in [Ships -> ShipType] /\ ship[s] \in ShipType /\ ship[s].units \in Seq(Unit)
    BY DEF StoreInv, StoreKept, TypeOK, ShipType
  <1>3. PICK t : t = Take(ship[s], Head(ship[s].units))
    OBVIOUS
  <1>4. t \in ShipType
    BY <1>1, <1>2, <1>3, TakeOf, HeadTailProperties
  <1>5. PICK left : ship' = [ship EXCEPT ![s] = [t EXCEPT !.units = Tail(ship[s].units), !.armed = left]]
    BY <1>1, <1>2, <1>3
  <1>6. /\ ship'[s].serves = t.serves /\ ship'[s].units = Tail(ship[s].units)
        /\ ship'[s].inbox = t.inbox /\ ship'[s].owes = t.owes /\ ship'[s].heard = t.heard
        /\ \A q \in Ships : q # s => ship'[q] = ship[q]
    BY <1>2, <1>4, <1>5 DEF ShipType
  <1>7. Talk(ship[s]) => Talk(ship'[s])
    BY <1>1, <1>2, <1>3, <1>6, TalkTake
  <1>8. ~strayed => Talk(ship[s])
    BY <1>1 DEF Conversation, Open
  <1> QED BY <1>1, <1>6, <1>7, <1>8, OneTalks

(* The two shortest things a backend says.                                 *)
LEMMA KindsOf == <<"eof">> \in Seq(Kinds) /\ <<"empty">> \in Seq(Kinds)
  BY SmallSeqs DEF Kinds

(* The backend answers whom it has heard, and nobody twice, unless it      *)
(* strays.                                                                 *)
LEMMA UpTalks ==
  ASSUME StoreInv, Conversation, NEW s \in Ships, UpAnswers(s) \/ UpCloses(s) \/ UpStray(s)
  PROVE  Conversation'
  <1>1. /\ TypeOK /\ ship \in [Ships -> ShipType] /\ ship[s] \in ShipType
        /\ ship[s].heard \in Requests \cup {None}
    BY DEF StoreInv, StoreKept, TypeOK, ShipType
  <1>2. ship[s].conn = "up" /\ (~strayed => Talk(ship[s]))
    <2>1. ship[s].conn = "up"
      BY DEF UpAnswers, UpCloses, UpStray
    <2> QED BY <2>1 DEF Conversation, Open
  <1>3. CASE UpAnswers(s)
    <2>1. PICK a \in Answers(ship[s].heard) :
             ship' = [ship EXCEPT ![s].owes = FALSE, ![s].inbox = Says(s, a, ship[s].heard),
                                  ![s].gone = Last(a) = "eof"]
      BY <1>3 DEF UpAnswers
    <2>2. /\ ship'[s].serves = ship[s].serves /\ ship'[s].units = ship[s].units
          /\ ship'[s].heard = ship[s].heard /\ ship'[s].inbox = Says(s, a, ship[s].heard)
          /\ ship'[s].owes = FALSE
          /\ \A t \in Ships : t # s => ship'[t] = ship[t]
      BY <1>1, <2>1 DEF ShipType
    <2>3. a \in Seq(Kinds) /\ a # <<"eof">>
      <3>1. \/ a = <<"head">> \/ a = <<"empty">> \/ a = <<"head", "data", "last">>
            \/ a = <<"head", "over">> \/ a = <<"head", "data", "eof">>
        BY DEF Answers
      <3> QED BY <3>1, AnswersOf
    <2>4. \A i, j \in DOMAIN a : i < j => a[i] \notin {"empty", "last"}
      BY AnswerEndsLast
    <2>5. strayed' = strayed /\ ship[s].owes
      BY <1>3 DEF UpAnswers, Runs
    <2>6. Talk(ship[s]) => Talk(ship'[s])
      BY <1>1, <2>2, <2>3, <2>4, <2>5, TalkSays
    <2> QED BY <1>2, <2>2, <2>5, <2>6, OneTalks
  <1>4. CASE UpCloses(s)
    <2>1. ship' = [ship EXCEPT ![s].inbox = Says(s, <<"eof">>, None), ![s].gone = TRUE]
      BY <1>4 DEF UpCloses
    <2>2. /\ ship'[s].serves = ship[s].serves /\ ship'[s].units = ship[s].units
          /\ ship'[s].heard = ship[s].heard /\ ship'[s].inbox = Says(s, <<"eof">>, None)
          /\ ship'[s].owes = ship[s].owes
          /\ \A t \in Ships : t # s => ship'[t] = ship[t]
      BY <1>1, <2>1 DEF ShipType
    <2>3. Talk(ship[s]) => Talk(ship'[s])
      BY <1>1, <2>2, KindsOf, TalkSays
    <2>4. strayed => strayed'
      BY <1>4 DEF UpCloses, Fault
    <2> QED BY <1>2, <2>2, <2>3, <2>4, OneTalks
  <1>5. CASE UpStray(s)
    <2>1. strayed'
      BY <1>5 DEF UpStray, Fault
    <2> QED BY <2>1 DEF Conversation
  <1> QED BY <1>3, <1>4, <1>5

(* What reading does to whom the connection serves, case by case.          *)
EofAnswer(r) ==
  IF req[r].headed THEN End(req[r])
  ELSE [End(req[r]) EXCEPT !.answer = IF req[r].client THEN "error" ELSE @]
(* The record of a request after a part of the content.                    *)
Fed(r, full) == [Posted(r) EXCEPT !.full = full]
(* What a read does to whom the connection serves, case by case.           *)
ReadCase(s, sh, r, item) ==
  \/ DropShip(s, sh, r, EofAnswer(r)) \/ DropShip(s, sh, r, Failed(r))
  \/ item.kind = "empty" /\ KeepShip(s, sh, r, Headed(r, item))
  \/ item.kind # "eof" /\ GoesOn(s, Answering(sh), r, Headed(r, item))
  \/ /\ sh.state = "content" /\ item.kind # "eof"
     /\ \E full \in {FALSE, req[r].client} :
          \/ item.kind = "last" /\ KeepShip(s, sh, r, Fed(r, full))
          \/ GoesOn(s, IF full THEN [sh EXCEPT !.armed = {}] ELSE sh, r, Fed(r, full))

(* What a read comes to, told apart by the state of the answer and the     *)
(* item.                                                                   *)
LEMMA ReadCases ==
  ASSUME TypeOK, NEW s \in Ships, Read(s), ~Dies("stray"), ~Dies("id"),
         NEW r \in Requests, r = ship[s].serves,
         NEW sh, sh = [ship[s] EXCEPT !.inbox = Tail(@)],
         NEW item, item = Head(ship[s].inbox)
  PROVE  ReadCase(s, sh, r, item)
  <1>1. ship[s] \in ShipType /\ ship[s].inbox \in Seq(Item) /\ ship[s].inbox # <<>>
    BY DEF Read, TypeOK, ShipType
  <1>2. sh.state \in {"header", "content"}
    BY <1>1 DEF ShipType
  <1>3. Handle(s, sh, item, r) /\ r # None
    BY NoneIsNoShip DEF Read
  <1>4. CASE item.kind = "eof"
    BY <1>3, <1>4 DEF Handle, ReadCase, EofAnswer
  <1>5. CASE item.kind # "eof" /\ sh.state = "header"
    BY <1>3, <1>5 DEF Handle, ReadCase, GoesOn
  <1>6. CASE item.kind # "eof" /\ sh.state = "content"
    <2>1. CASE item.kind = "last"
      BY <1>3, <1>6, <2>1 DEF Handle, ReadCase, Fed
    <2>2. CASE item.kind = "over"
      BY <1>3, <1>6, <2>2 DEF Handle, ReadCase
    <2>3. CASE item.kind \notin {"last", "over"}
      BY <1>3, <1>6, <2>3 DEF Handle, ReadCase, Fed, GoesOn
    <2> QED BY <2>1, <2>2, <2>3
  <1> QED BY <1>2, <1>4, <1>5, <1>6

(* A dropped connection is not read any more.                              *)
LEMMA DropTalks ==
  ASSUME TypeOK, Conversation, strayed => strayed', NEW s \in Ships, NEW sh \in ShipType,
         NEW r, NEW q, DropShip(s, sh, r, q)
  PROVE  Conversation'
  <1>1. /\ ship'[s].conn = "closing" /\ ship'[s].armed = {}
        /\ \A t \in Ships : t # s => ship'[t] = ship[t]
    BY DEF DropShip, TypeOK, ShipType
  <1>2. ~Open(ship'[s])
    BY <1>1 DEF Open
  <1> QED BY <1>1, <1>2, OneTalks

(* A read takes one item, and only the end of an answer lets a connection  *)
(* be kept.                                                                *)
LEMMA ReadTalks ==
  ASSUME StoreInv, Conversation, NEW s \in Ships, Read(s), ~Dies("stray"), ~Dies("id")
  PROVE  Conversation'
  <1>1. TypeOK /\ ship \in [Ships -> ShipType] /\ ship[s] \in ShipType
        /\ ship[s].serves \in Requests \cup {None}
    BY DEF StoreInv, StoreKept, TypeOK, ShipType
  <1>2. ship[s].inbox # <<>> /\ strayed' = strayed /\ Open(ship[s])
    BY DEF Read, Runs, Open
  <1>3. ~strayed => Talk(ship[s])
    BY <1>2 DEF Conversation
  <1>4. PICK r : r = ship[s].serves
    OBVIOUS
  <1>5. PICK sh : sh = [ship[s] EXCEPT !.inbox = Tail(@)]
    OBVIOUS
  <1>6. PICK item : item = Head(ship[s].inbox)
    OBVIOUS
  <1>7. sh \in ShipType
    BY <1>1, <1>2, <1>4, <1>5, ReadShapes
  <1>8. CASE r = None
    <2>1. DropShip(s, sh, r, NewRequest)
      BY <1>1, <1>4, <1>5, <1>8, NoneIsNoShip, ReadShapes
    <2> QED BY <1>1, <1>2, <1>7, <2>1, DropTalks
  <1>9. CASE r # None
    <2>1. r \in Requests
      BY <1>1, <1>4, <1>9
    <2>2. ReadCase(s, sh, r, item)
      BY <1>1, <1>4, <1>5, <1>6, <2>1, ReadCases
    <2>3. ASSUME NEW q, KeepShip(s, sh, r, q), item.kind \in {"empty", "last"}
          PROVE  Conversation'
      <3>1. /\ ship'[s].inbox = Tail(ship[s].inbox) /\ ship'[s].units = ship[s].units
            /\ ship'[s].owes = ship[s].owes
            /\ \A t \in Ships : t # s => ship'[t] = ship[t]
        BY <1>1, <1>5, <2>3 DEF KeepShip, Kept, ShipType
      <3>2. Talk(ship[s]) => Talk(ship'[s])
        BY <1>1, <1>2, <1>6, <2>3, <3>1, TalkKept
      <3> QED BY <1>2, <1>3, <3>1, <3>2, OneTalks
    <2>4. ASSUME NEW x, NEW q, GoesOn(s, x, r, q),
                 \/ x = Answering(sh) \/ x = sh \/ x = [sh EXCEPT !.armed = {}]
          PROVE  Conversation'
      <3>1. /\ x.serves = ship[s].serves /\ x.units = ship[s].units
            /\ x.inbox = Tail(ship[s].inbox) /\ x.owes = ship[s].owes /\ x.heard = ship[s].heard
        BY <1>1, <1>5, <2>4 DEF Answering, ShipType
      <3>2. ship'[s] = x /\ \A t \in Ships : t # s => ship'[t] = ship[t]
        BY <1>1, <2>4 DEF GoesOn
      <3>3. Talk(ship[s]) => Talk(ship'[s])
        BY <1>1, <1>2, <3>1, <3>2, TalkTail
      <3> QED BY <1>2, <1>3, <3>2, <3>3, OneTalks
    <2>5. CASE DropShip(s, sh, r, EofAnswer(r)) \/ DropShip(s, sh, r, Failed(r))
      BY <1>1, <1>2, <1>7, <2>5, DropTalks
    <2>6. CASE item.kind = "empty" /\ KeepShip(s, sh, r, Headed(r, item))
      BY <2>3, <2>6
    <2>7. CASE GoesOn(s, Answering(sh), r, Headed(r, item))
      BY <2>4, <2>7
    <2>8. ASSUME NEW full, item.kind = "last", KeepShip(s, sh, r, Fed(r, full))
          PROVE  Conversation'
      BY <2>3, <2>8
    <2>9. ASSUME NEW full, GoesOn(s, IF full THEN [sh EXCEPT !.armed = {}] ELSE sh, r, Fed(r, full))
          PROVE  Conversation'
      <3>1. PICK x : x = IF full THEN [sh EXCEPT !.armed = {}] ELSE sh
        OBVIOUS
      <3>2. x = sh \/ x = [sh EXCEPT !.armed = {}]
        BY <3>1
      <3>3. GoesOn(s, x, r, Fed(r, full))
        BY <2>9, <3>1
      <3> QED BY <2>4, <3>2, <3>3
    <2> QED BY <2>2, <2>5, <2>6, <2>7, <2>8, <2>9 DEF ReadCase
  <1> QED BY <1>8, <1>9

(* What times out or is closed is not read any more.                       *)
LEMMA PartTalks ==
  ASSUME StoreInv, Conversation, NEW s \in Ships,
         TimesOut(s) \/ (Closed(s) /\ ~Dies("consumed") /\ ~Dies("id"))
  PROVE  Conversation'
  <1>1. TypeOK /\ ship \in [Ships -> ShipType] /\ ship[s] \in ShipType
    BY DEF StoreInv, StoreKept, TypeOK
  <1>2. CASE TimesOut(s)
    <2>1. PICK r, q : DropShip(s, ship[s], r, q)
      BY <1>2 DEF TimesOut
    <2>2. strayed' = strayed
      BY <1>2 DEF TimesOut, Runs
    <2> QED BY <1>1, <2>1, <2>2, DropTalks
  <1>3. CASE Closed(s) /\ ~Dies("consumed") /\ ~Dies("id")
    <2>1. ship' = [ship EXCEPT ![s] = [NewShip EXCEPT !.conn = "closed"]] /\ strayed' = strayed
      BY <1>3 DEF Closed, Runs
    <2>2. ship'[s].conn = "closed" /\ \A t \in Ships : t # s => ship'[t] = ship[t]
      BY <1>1, <2>1 DEF NewShip
    <2>3. ~Open(ship'[s])
      BY <2>2 DEF Open
    <2> QED BY <2>1, <2>2, <2>3, OneTalks
  <1> QED BY <1>2, <1>3

-----------------------------------------------------------------------------
(* The answers: what a request has had when it has its end.                *)

(* The method of a request never changes, and a backend that has once      *)
(* strayed has strayed.                                                    *)
LEMMA FrameStep == ASSUME TypeOK, [Next]_vars PROVE method' = method /\ (strayed => strayed')
  <1>1. CASE UNCHANGED vars
    BY <1>1 DEF vars, faultVars
  <1>2. ASSUME NEW r \in Requests,
               Body(r) \/ ClientReads(r) \/ ReturnTour(r) \/ Arrive(r) \/ TooLong(r) \/ Disconnect(r)
        PROVE  method' = method /\ (strayed => strayed')
    <2>1. strayed => strayed'
      BY <1>2 DEF Body, ClientReads, ReturnTour, Arrive, TooLong, Disconnect, Runs, Fault
    <2>2. method' = method
      BY <1>2 DEF Body, ClientReads, ReturnTour, Arrive, TooLong, Disconnect, Dies
    <2> QED BY <2>1, <2>2, Zenon
  <1>3. ASSUME NEW s \in Ships,
               \/ Connected(s) \/ Write(s) \/ UpAnswers(s) \/ Read(s) \/ TimesOut(s) \/ Closed(s)
               \/ ConnectFails(s) \/ UpCloses(s) \/ UpStray(s)
        PROVE  method' = method /\ (strayed => strayed')
    <2>1. strayed => strayed'
      BY <1>3 DEF Connected, Write, UpAnswers, Read, TimesOut, Closed, ConnectFails, UpCloses, UpStray, Runs, Fault
    <2>2. method' = method
      BY <1>3 DEF Connected, Write, UpAnswers, Read, TimesOut, Closed, ConnectFails, UpCloses, UpStray, Dies
    <2> QED BY <2>1, <2>2
  <1> QED BY <1>1, <1>2, <1>3 DEF Next, Internal, External

(* A unit of a body is posted only on the connection of its request.       *)
UnitMove(s) ==
  \/ ship'[s].units = ship[s].units \/ ship'[s].units = <<>>
  \/ ship[s].units # <<>> /\ ship'[s].units = Tail(ship[s].units)
  \/ \E u \in Unit : /\ ship'[s].units = Append(ship[s].units, u)
                     /\ u.kind = "body" => req'[u.of].via = s /\ req'[u.of].phase # "new"

(* The parts of bodies stay where their requests are when only their own   *)
(* connections get more.                                                   *)
LEMMA UnitsFrom ==
  ASSUME TypeOK, BodyUnits, \A s \in Ships : UnitMove(s),
         \A r \in Requests : req[r].phase # "new" => req'[r].via = req[r].via /\ req'[r].phase # "new"
  PROVE  BodyUnits'
  <1> SUFFICES ASSUME NEW s \in Ships, NEW r \in Requests, 
                      [kind |-> "body", of |-> r] \in ToSet(ship'[s].units)
               PROVE  req'[r].via = s /\ req'[r].phase # "new"
    BY DEF BodyUnits, Pending
  <1>1. ship[s].units \in Seq(Unit)
    BY DEF TypeOK, ShipType
  <1>2. PICK u : u = [kind |-> "body", of |-> r]
    OBVIOUS
  <1>3. u.kind = "body" /\ u.of = r
    BY <1>2
  <1>4. CASE u \in ToSet(ship[s].units)
    BY <1>2, <1>4 DEF BodyUnits, Pending
  <1>5. CASE u \notin ToSet(ship[s].units)
    <2>1. ship'[s].units # <<>>
      BY <1>2, <1>5 DEF ToSet
    <2>2. ~(ship[s].units # <<>> /\ ship'[s].units = Tail(ship[s].units))
      <3> SUFFICES ASSUME ship[s].units # <<>>
                   PROVE  ToSet(Tail(ship[s].units)) \subseteq ToSet(ship[s].units)
        BY <1>2, <1>5
      <3> QED BY <1>1, TailAt DEF ToSet
    <2>3. ship'[s].units # ship[s].units
      BY <1>2, <1>5
    <2>4. PICK w \in Unit : /\ ship'[s].units = Append(ship[s].units, w)
                            /\ w.kind = "body" => req'[w.of].via = s /\ req'[w.of].phase # "new"
      BY <2>1, <2>2, <2>3 DEF UnitMove
    <2>5. w = u
      BY <1>1, <1>2, <1>5, <2>4, AppendToSet
    <2> QED BY <1>3, <2>4, <2>5
  <1> QED BY <1>4, <1>5

(* A request is on the connection it came to as long as it is known.       *)
LEMMA ViaStays ==
  ASSUME StoreInv, [Next]_vars
  PROVE  \A r \in Requests : req[r].phase # "new" => req'[r].via = req[r].via /\ req'[r].phase # "new"
  <1> DEFINE Stays == \A r \in Requests :
               req[r].phase # "new" => req'[r].via = req[r].via /\ req'[r].phase # "new"
  <1>0. TypeOK /\ req \in [Requests -> RequestType]
    BY DEF StoreInv, StoreKept, TypeOK
  <1>1. CASE req' = req
    BY <1>1
  <1>2. CASE Mild
    BY <1>2 DEF Mild
  <1>3. ASSUME NEW r \in Requests, Arrive(r) PROVE Stays
    <2>1. req[r].phase = "new"
      BY <1>3 DEF Arrive
    <2>2. \A q \in Requests : q # r => req'[q] = req[q]
      BY <1>0, <1>3 DEF Arrive, Start
    <2> QED BY <2>1, <2>2
  <1>4. ASSUME NEW s \in Ships, NEW sh, NEW r, r = ship[s].serves, NEW q,
               r # None => q.via = req[r].via /\ q.phase # "new",
               DropShip(s, sh, r, q)
        PROVE  Stays
    BY <1>0, <1>4 DEF DropShip
  <1>5. ASSUME NEW s \in Ships, NEW sh, NEW r \in Requests, NEW q \in RequestType,
               q.via = req[r].via, KeepShip(s, sh, r, q)
        PROVE  Stays
    <2>1. req' = [req EXCEPT ![r] = End(q)]
      BY <1>5 DEF KeepShip
    <2> QED BY <1>0, <1>5, <2>1, EndOf
  <1>6. ASSUME NEW s \in Ships, NEW r, r = ship[s].serves, r # None
        PROVE  r \in Requests /\ Failed(r).via = req[r].via /\ Failed(r).phase # "new"
    <2>1. r \in Requests /\ req[r].phase # "new"
      BY <1>6, NotNew
    <2>2. /\ Failed(r).via = req[r].via
          /\ req[r].phase # "arrived" => Failed(r) = req[r]
          /\ req[r].phase = "arrived" => Failed(r).phase \in {"ended", "returned"}
      BY <1>0, <2>1, FailedOf
    <2> QED BY <2>1, <2>2
  <1>7. ASSUME NEW s \in Ships, Read(s) PROVE Stays
    <2>1. CASE Dies("stray") \/ Dies("id")
      BY <1>1, <2>1 DEF Dies
    <2>2. CASE ~Dies("stray") /\ ~Dies("id")
      <3>1. PICK r : r = ship[s].serves
        OBVIOUS
      <3>2. PICK sh : sh = [ship[s] EXCEPT !.inbox = Tail(@)]
        OBVIOUS
      <3>3. \/ r = None /\ DropShip(s, sh, r, NewRequest)
            \/ r \in Requests /\ \E q : Outcome(s, sh, r, q)
        BY <1>0, <1>7, <2>2, <3>1, <3>2, ReadShapes
      <3>4. CASE r = None /\ DropShip(s, sh, r, NewRequest)
        BY <1>4, <3>1, <3>4
      <3>5. ASSUME r \in Requests, NEW q, Outcome(s, sh, r, q)
            PROVE  Stays
        <4>1. q \in RequestType /\ q.via = req[r].via /\ req[r].phase # "new"
          BY <3>1, <3>5, NotNew, NoneIsNoShip DEF Outcome
        <4>2. CASE /\ q.phase \in {"ended", "returned"} \/ (q = req[r] /\ q.phase # "arrived")
                   /\ DropShip(s, sh, r, q)
          BY <1>4, <3>1, <4>1, <4>2
        <4>3. CASE KeepShip(s, sh, r, q)
          BY <1>5, <3>5, <4>1, <4>3
        <4>4. CASE q.phase = req[r].phase /\ \E x : GoesOn(s, x, r, q)
          BY <1>0, <4>1, <4>4 DEF GoesOn
        <4> QED BY <3>5, <4>2, <4>3, <4>4 DEF Outcome
      <3> QED BY <3>3, <3>4, <3>5
    <2> QED BY <2>1, <2>2
  <1>8. ASSUME NEW s \in Ships, TimesOut(s) PROVE Stays
    <2>1. PICK r : r = ship[s].serves
      OBVIOUS
    <2>2. DropShip(s, ship[s], r, IF r = None THEN NewRequest ELSE Failed(r))
      BY <1>8, <2>1 DEF TimesOut
    <2>3. r # None => /\ (IF r = None THEN NewRequest ELSE Failed(r)).via = req[r].via
                      /\ (IF r = None THEN NewRequest ELSE Failed(r)).phase # "new"
      BY <1>6, <2>1
    <2> QED BY <1>4, <2>1, <2>2, <2>3
  <1>9. ASSUME NEW s \in Ships, Closed(s), ~Dies("consumed"), ~Dies("id") PROVE Stays
    <2>1. PICK r : r = ship[s].serves
      OBVIOUS
    <2>2. req' = (IF r = None THEN req ELSE [req EXCEPT ![r] = Failed(r)])
      BY <1>9, <2>1 DEF Closed
    <2>3. r # None => Failed(r).via = req[r].via /\ Failed(r).phase # "new"
      BY <1>6, <2>1
    <2> QED BY <1>0, <2>2, <2>3
  <1>10. CASE UNCHANGED vars
    BY <1>1, <1>10 DEF vars
  <1>11. ASSUME NEW r \in Requests,
                Body(r) \/ ClientReads(r) \/ ReturnTour(r) \/ Arrive(r) \/ TooLong(r) \/ Disconnect(r)
         PROVE  Stays
    <2>1. CASE Dies("id") \/ Dies("resume")
      BY <1>1, <2>1 DEF Dies
    <2>2. CASE Arrive(r)
      BY <1>3, <2>2
    <2>3. CASE ~Dies("id") /\ ~Dies("resume") /\ ~Arrive(r)
      <3>1. Mild
        BY <1>11, <2>3, BodyMild, TooLongMild, ClientMild
      <3> QED BY <1>2, <3>1
    <2> QED BY <2>1, <2>2, <2>3
  <1>12. ASSUME NEW s \in Ships,
                \/ Connected(s) \/ Write(s) \/ UpAnswers(s) \/ Read(s) \/ TimesOut(s) \/ Closed(s)
                \/ ConnectFails(s) \/ UpCloses(s) \/ UpStray(s)
         PROVE  Stays
    <2>1. CASE Dies("id") \/ Dies("consumed")
      BY <1>1, <2>1 DEF Dies
    <2>2. CASE Read(s) \/ TimesOut(s) \/ (Closed(s) /\ ~Dies("id") /\ ~Dies("consumed"))
      BY <1>7, <1>8, <1>9, <2>2
    <2>3. CASE /\ ~Dies("id") /\ ~Dies("consumed")
               /\ \/ Connected(s) \/ Write(s) \/ UpAnswers(s)
                  \/ ConnectFails(s) \/ UpCloses(s) \/ UpStray(s)
      <3>1. Mild
        BY <2>3, ConnectMild, WriteMild, BackendMild
      <3> QED BY <1>2, <3>1
    <2> QED BY <1>12, <2>1, <2>2, <2>3
  <1> QED BY <1>10, <1>11, <1>12 DEF Next, Internal, External

(* What the steps between a request's start and its end do to a ship.      *)
Steady == \A s \in Ships : ship'[s].state = ship[s].state /\ UnitMove(s)

(* A step of one connection is steady when that one is.                    *)
LEMMA SteadyOne ==
  ASSUME NEW s, \A t \in Ships : t # s => ship'[t] = ship[t],
         s \in Ships => ship'[s].state = ship[s].state /\ UnitMove(s)
  PROVE  Steady
  BY DEF Steady, UnitMove

(* The steps of the connection and of the backend are.                     *)
LEMMA ShipsSteady ==
  ASSUME StoreInv, NEW s \in Ships,
         \/ Connected(s) /\ ~Dies("id")
         \/ ConnectFails(s)
         \/ Write(s) /\ ~Dies("consumed")
         \/ UpAnswers(s) \/ UpCloses(s) \/ UpStray(s)
  PROVE  Steady /\ req' = req /\ keep' = keep
  <1>1. TypeOK /\ ship \in [Ships -> ShipType] /\ ship[s] \in ShipType /\ ship[s].units \in Seq(Unit)
    BY DEF StoreInv, StoreKept, TypeOK, ShipType
  <1>2. req' = req /\ keep' = keep
    BY DEF Connected, ConnectFails, Write, UpAnswers, UpCloses, UpStray
  <1>3. CASE Connected(s) /\ ~Dies("id")
    <2>1. ship' = [ship EXCEPT ![s] = [ship[s] EXCEPT !.conn = "up", !.armed = {"write"}]]
      BY <1>1, <1>3 DEF Connected
    <2> QED BY <1>1, <1>2, <2>1, SteadyOne DEF ShipType, UnitMove
  <1>4. CASE ConnectFails(s)
    <2>1. ship' = [ship EXCEPT ![s] = Gone(s)]
      BY <1>4 DEF ConnectFails
    <2>2. Gone(s).state = ship[s].state /\ Gone(s).units = ship[s].units
      BY <1>1 DEF Gone, ShipType
    <2> QED BY <1>1, <1>2, <2>1, <2>2, SteadyOne DEF UnitMove
  <1>5. CASE Write(s) /\ ~Dies("consumed")
    <2>1. /\ ship[s].units # <<>>
          /\ \E left : ship' = [ship EXCEPT ![s] = [Take(@, Head(ship[s].units))
                                EXCEPT !.units = Tail(ship[s].units), !.armed = left]]
      BY <1>5 DEF Write
    <2>2. PICK t : t = Take(ship[s], Head(ship[s].units))
      OBVIOUS
    <2>3. t \in ShipType /\ t.state = ship[s].state
      BY <1>1, <2>1, <2>2, TakeOf, HeadTailProperties
    <2>4. PICK left : ship' = [ship EXCEPT ![s] = [t EXCEPT !.units = Tail(ship[s].units), !.armed = left]]
      BY <1>1, <2>1, <2>2
    <2>5. /\ ship'[s].state = ship[s].state /\ ship'[s].units = Tail(ship[s].units)
          /\ \A q \in Ships : q # s => ship'[q] = ship[q]
      BY <1>1, <2>3, <2>4 DEF ShipType
    <2> QED BY <1>2, <2>1, <2>5, SteadyOne, Zenon DEF UnitMove
  <1>6. CASE UpAnswers(s) \/ UpCloses(s) \/ UpStray(s)
    <2>1. \/ \E i, g : ship' = [ship EXCEPT ![s].owes = FALSE, ![s].inbox = i, ![s].gone = g]
          \/ \E i : ship' = [ship EXCEPT ![s].inbox = i, ![s].gone = TRUE]
          \/ \E i : ship' = [ship EXCEPT ![s].inbox = i]
      BY <1>6 DEF UpAnswers, UpCloses, UpStray
    <2>2. /\ ship'[s].state = ship[s].state /\ ship'[s].units = ship[s].units
          /\ \A q \in Ships : q # s => ship'[q] = ship[q]
      <3>1. ASSUME NEW i, NEW g, ship' = [ship EXCEPT ![s].owes = FALSE, ![s].inbox = i, ![s].gone = g]
            PROVE  <2>2!:
        BY <1>1, <3>1 DEF ShipType
      <3>2. ASSUME NEW i, ship' = [ship EXCEPT ![s].inbox = i, ![s].gone = TRUE]
            PROVE  <2>2!:
        BY <1>1, <3>2 DEF ShipType
      <3>3. ASSUME NEW i, ship' = [ship EXCEPT ![s].inbox = i]
            PROVE  <2>2!:
        BY <1>1, <3>3 DEF ShipType
      <3> QED BY <2>1, <3>1, <3>2, <3>3
    <2> QED BY <1>2, <2>2, SteadyOne DEF UnitMove
  <1> QED BY <1>3, <1>4, <1>5, <1>6

(* How a request's record may change without an answer that has been read. *)
Turn(r, q) ==
  /\ Sound(r, q) /\ (q.answer = "stray" => req[r].answer = "stray")
  /\ req[r].headed => q.headed
  /\ q.phase = "ended" => \/ req[r].phase = "ended" /\ q.sent = req[r].sent
                          \/ method[r] = "post" /\ ~q.sent

(* So are those of the request, and how they may change its record.        *)
LEMMA RequestsSteady ==
  ASSUME StoreInv, Endings, NEW r \in Requests,
         \/ Body(r) /\ ~Dies("id")
         \/ TooLong(r) /\ ~Dies("id")
         \/ ClientReads(r) /\ ~Dies("resume")
         \/ ReturnTour(r)
         \/ Disconnect(r) /\ ~Dies("resume")
  PROVE  Steady /\ keep' = keep /\ \E q : req' = [req EXCEPT ![r] = q] /\ Turn(r, q)
  <1>1. TypeOK /\ ship \in [Ships -> ShipType] /\ req \in [Requests -> RequestType] /\ req[r] \in RequestType
    BY DEF StoreInv, StoreKept, TypeOK
  <1>2. Sound(r, req[r])
    BY DEF Endings
  <1>3. PICK s : s = req[r].via
    OBVIOUS
  <1>4. ASSUME ship' = [ship EXCEPT ![s] = Gone(s)]
        PROVE  Steady
    <2>1. s \in Ships => Gone(s).state = ship[s].state /\ Gone(s).units = ship[s].units
      BY <1>1 DEF Gone, ShipType
    <2>2. /\ \A t \in Ships : t # s => ship'[t] = ship[t]
          /\ s \in Ships => ship'[s] = Gone(s)
      BY <1>1, <1>4
    <2> QED BY <2>1, <2>2, SteadyOne DEF UnitMove
  <1>5. ASSUME ship' = [ship EXCEPT ![s] = ResumeRead(r, @)]
        PROVE  Steady
    <2>1. /\ \A t \in Ships : t # s => ship'[t] = ship[t]
          /\ s \in Ships => ship'[s] = ResumeRead(r, ship[s])
      BY <1>1, <1>5
    <2>2. s \in Ships => ship'[s].state = ship[s].state /\ ship'[s].units = ship[s].units
      BY <1>1, <2>1, ResumeReadOf
    <2> QED BY <2>1, <2>2, SteadyOne DEF UnitMove
  <1>6. CASE Body(r) /\ ~Dies("id")
    <2>1. s \in Ships /\ req[r].phase = "arrived"
      BY <1>3, <1>6, ItsShip DEF Body
    <2>2. PICK u : u = [kind |-> "body", of |-> r]
      OBVIOUS
    <2>3. u \in Unit /\ u.of = r
      BY <2>2 DEF Unit
    <2>4. PICK a : /\ ship' = [ship EXCEPT ![s].units = Append(@, u), ![s].armed = a]
                   /\ req' = [req EXCEPT ![r].sent = TRUE] /\ keep' = keep
      BY <1>1, <1>3, <1>6, <2>2 DEF Body
    <2>5. /\ ship'[s].state = ship[s].state /\ ship'[s].units = Append(ship[s].units, u)
          /\ \A t \in Ships : t # s => ship'[t] = ship[t]
      BY <1>1, <2>1, <2>4 DEF ShipType
    <2>6. req'[r].via = s /\ req'[r].phase = "arrived"
      BY <1>1, <1>3, <2>1, <2>4 DEF RequestType
    <2>7. Steady
      BY <2>3, <2>5, <2>6, SteadyOne DEF UnitMove
    <2>8. PICK q : q = [req[r] EXCEPT !.sent = TRUE]
      OBVIOUS
    <2>9. Turn(r, q)
      BY <1>1, <1>2, <2>1, <2>8 DEF Turn, Sound, RequestType
    <2>10. req' = [req EXCEPT ![r] = q]
      BY <2>4, <2>8
    <2> QED BY <2>4, <2>7, <2>9, <2>10
  <1>7. CASE TooLong(r) /\ ~Dies("id")
    <2>1. PICK q : q = [req[r] EXCEPT !.phase = "ended", !.headed = TRUE,
                          !.answer = IF req[r].headed THEN @ ELSE "error"]
      OBVIOUS
    <2>2. /\ ship' = [ship EXCEPT ![s] = Gone(s)] /\ req' = [req EXCEPT ![r] = q] /\ keep' = keep
          /\ method[r] = "post" /\ req[r].phase = "arrived" /\ ~req[r].sent
      BY <1>3, <1>7, <2>1 DEF TooLong
    <2>3. Turn(r, q)
      BY <1>1, <1>2, <2>1, <2>2 DEF Turn, Sound, RequestType
    <2> QED BY <1>4, <2>2, <2>3
  <1>8. CASE ClientReads(r) /\ ~Dies("resume")
    <2>1. PICK q : q = [req[r] EXCEPT !.full = FALSE]
      OBVIOUS
    <2>2. /\ ship' = [ship EXCEPT ![s] = ResumeRead(r, @)] /\ req' = [req EXCEPT ![r] = q] /\ keep' = keep
          /\ req[r].full
      BY <1>3, <1>8, <2>1 DEF ClientReads
    <2>3. Turn(r, q)
      BY <1>1, <1>2, <2>1, <2>2 DEF Turn, Sound, RequestType
    <2> QED BY <1>5, <2>2, <2>3
  <1>9. CASE ReturnTour(r)
    <2>1. PICK q : q = [req[r] EXCEPT !.phase = "returned"]
      OBVIOUS
    <2>2. /\ req' = [req EXCEPT ![r] = q] /\ UNCHANGED <<ship, keep>>
          /\ req[r].phase = "ended" /\ ~req[r].full
      BY <1>9, <2>1 DEF ReturnTour
    <2>3. Turn(r, q)
      BY <1>1, <1>2, <2>1, <2>2 DEF Turn, Sound, RequestType
    <2>4. Steady
      BY <2>2 DEF Steady, UnitMove
    <2> QED BY <2>2, <2>3, <2>4
  <1>10. CASE Disconnect(r) /\ ~Dies("resume")
    <2>1. PICK left : left = [req[r] EXCEPT !.client = FALSE, !.full = FALSE]
      OBVIOUS
    <2>2. PICK q : q = IF left.phase = "ended" THEN End(left) ELSE left
      OBVIOUS
    <2>3. /\ req' = [req EXCEPT ![r] = q] /\ keep' = keep /\ req[r].phase \in {"arrived", "ended"}
          /\ ship' = IF s = None THEN ship
                     ELSE [ship EXCEPT ![s] =
                             IF req[r].phase = "arrived" /\ method[r] = "post"
                             THEN Gone(s) ELSE ResumeRead(r, @)]
      BY <1>3, <1>10, <2>1, <2>2 DEF Disconnect
    <2>4. left \in RequestType /\ left.phase = req[r].phase /\ left.answer = req[r].answer
          /\ left.headed = req[r].headed /\ left.sent = req[r].sent /\ left.client = FALSE /\ left.full = FALSE
      BY <1>1, <2>1 DEF RequestType
    <2>5. /\ q.answer = req[r].answer /\ q.headed = req[r].headed /\ q.sent = req[r].sent
          /\ q.client = FALSE /\ q.full = FALSE
          /\ q.phase = req[r].phase \/ (req[r].phase = "ended" /\ q.phase \in {"ended", "returned"})
      BY <2>2, <2>4, EndOf
    <2>6. Turn(r, q)
      BY <1>1, <1>2, <2>3, <2>5 DEF Turn, Sound, RequestType
    <2>7. ship' = ship => Steady
      BY DEF Steady, UnitMove
    <2>8. Steady
      BY <1>4, <1>5, <2>3, <2>7
    <2> QED BY <2>3, <2>6, <2>8
  <1> QED BY <1>6, <1>7, <1>8, <1>9, <1>10

(* A steady step leaves the endings sound, whether or not a request has    *)
(* changed.                                                                *)
LEMMA SteadyEndings ==
  ASSUME StoreInv, TypeOK', Endings, Mild, Steady, method' = method, strayed => strayed',
         \/ req' = req
         \/ \E r \in Requests : \E q : req' = [req EXCEPT ![r] = q] /\ Turn(r, q)
  PROVE  Endings'
  <1>1. /\ req \in [Requests -> RequestType] /\ keep' = keep /\ ToSet(keep) \subseteq Ships
        /\ \A s \in Ships : /\ ship'[s].serves = ship[s].serves /\ ship'[s].state = ship[s].state
                             /\ ship[s].serves \in Requests \cup {None}
    BY DEF StoreInv, StoreKept, StoreConsistent, Listed, TypeOK, ShipType, Mild, Steady
  <1>2. \A r \in Requests : req'[r] = req[r] \/ Turn(r, req'[r])
    BY <1>1
  <1>3. \A r \in Requests : Sound(r, req'[r])
    BY <1>2 DEF Turn, Endings
  <1>4. \A r \in Requests : Sound(r, req[r])'
    BY <1>3 DEF Sound
  <1>5. \A r \in Requests : req'[r].answer = "stray" => strayed'
    BY <1>2 DEF Turn, Endings
  <1>6. ASSUME NEW s \in Ships, ship'[s].serves # None
        PROVE  /\ req'[ship'[s].serves].phase = "ended" =>
                    method'[ship'[s].serves] = "post" /\ ~req'[ship'[s].serves].sent
               /\ ship'[s].state = "content" => req'[ship'[s].serves].headed
    <2>1. PICK r \in Requests : r = ship[s].serves /\ r = ship'[s].serves /\ r # None
      BY <1>1, <1>6
    <2>2. /\ req[ship[s].serves].phase = "ended" =>
                method[ship[s].serves] = "post" /\ ~req[ship[s].serves].sent
          /\ ship[s].state = "content" => req[ship[s].serves].headed
      BY <2>1 DEF Endings
    <2>3. /\ req[r].phase = "ended" => method[r] = "post" /\ ~req[r].sent
          /\ ship[s].state = "content" => req[r].headed
      BY <2>1, <2>2
    <2>4. /\ req'[r].phase = "ended" => method[r] = "post" /\ ~req'[r].sent
          /\ ship[s].state = "content" => req'[r].headed
      BY <1>2, <2>3 DEF Turn
    <2> QED BY <1>1, <2>1, <2>4
  <1>7. \A s \in ToSet(keep') : ship'[s].state = "header"
    BY <1>1 DEF Endings
  <1> QED BY <1>4, <1>5, <1>6, <1>7 DEF Endings

(* Whom a connection serves waits for the end, or had it by a refused body. *)
Waits(r) ==
  \/ req[r].phase = "arrived"
  \/ req[r].phase = "ended" /\ method[r] = "post" /\ ~req[r].sent

(* Whom a connection serves waits for it.                                  *)
LEMMA WhoWaits ==
  ASSUME StoreInv, Endings, NEW s \in Ships, NEW r, r = ship[s].serves, r # None
  PROVE  /\ r \in Requests /\ Waits(r) /\ Sound(r, req[r]) /\ req[r] \in RequestType
         /\ ship[s].state = "content" => req[r].headed
         /\ req[r].answer = "stray" => strayed
  <1>1. r \in Requests /\ req[r].phase \in {"arrived", "ended"}
    <2>1. /\ ship[s].serves \in Requests
          /\ req[ship[s].serves].phase = "arrived" \/ req[ship[s].serves].phase = "ended"
      BY NotNew DEF StoreInv, Served
    <2> QED BY <2>1
  <1>2. /\ req[ship[s].serves].phase = "ended" =>
             method[ship[s].serves] = "post" /\ ~req[ship[s].serves].sent
        /\ ship[s].state = "content" => req[ship[s].serves].headed
    BY DEF Endings
  <1>3. Sound(r, req[r]) /\ (req[r].answer = "stray" => strayed)
    BY <1>1 DEF Endings
  <1>4. req[r] \in RequestType
    BY <1>1 DEF StoreInv, StoreKept, TypeOK
  <1> QED BY <1>1, <1>2, <1>3, <1>4 DEF Waits

(* An end leaves a sound record sound, if the client has had an answer.    *)
LEMMA SoundEnd ==
  ASSUME NEW r \in Requests, NEW q \in RequestType, Sound(r, q), q.phase \in {"arrived", "ended"},
         q.client => q.answer # "none"
  PROVE  Sound(r, End(q)) /\ End(q).answer = q.answer
  <1>1. /\ End(q).phase \in {"ended", "returned"}
        /\ q.client \/ q.phase = "ended" => End(q).phase = "ended"
        /\ End(q).client = q.client /\ End(q).sent = q.sent
        /\ End(q).full = q.full /\ End(q).headed = q.headed /\ End(q).answer = q.answer
    BY EndOf
  <1> QED BY <1>1 DEF Sound, RequestType

(* So does an error answer.                                                *)
LEMMA SoundFailed ==
  ASSUME TypeOK, NEW r \in Requests, Sound(r, req[r])
  PROVE  Sound(r, Failed(r)) /\ (Failed(r).answer = "stray" => req[r].answer = "stray")
  <1>1. req[r] \in RequestType
    BY DEF TypeOK
  <1>2. CASE req[r].phase # "arrived"
    BY <1>2 DEF Failed
  <1>3. CASE req[r].phase = "arrived"
    <2>1. PICK e : e = End(req[r])
      OBVIOUS
    <2>2. /\ e \in RequestType /\ e.phase \in {"ended", "returned"}
          /\ req[r].client => e.phase = "ended"
          /\ e.client = req[r].client /\ e.sent = req[r].sent
          /\ e.full = req[r].full /\ e.headed = req[r].headed /\ e.answer = req[r].answer
      BY <1>1, <2>1, EndOf
    <2>3. PICK a : a = IF req[r].headed \/ ~req[r].client THEN req[r].answer
                       ELSE IF Running(r) THEN "error" ELSE "bare"
      OBVIOUS
    <2>4. Failed(r) = [e EXCEPT !.answer = a]
      BY <1>3, <2>1, <2>2, <2>3 DEF Failed
    <2>5. /\ Failed(r).answer = a /\ Failed(r).phase = e.phase /\ Failed(r).client = e.client
          /\ Failed(r).sent = e.sent /\ Failed(r).full = e.full /\ Failed(r).headed = e.headed
      BY <2>2, <2>4 DEF RequestType
    <2>6. a = "bare" => method[r] = "post" \/ a = req[r].answer
      BY <1>3, <2>3 DEF Running
    <2>7. a \in {"error", "bare"} \/ (a = req[r].answer /\ (req[r].headed \/ ~req[r].client))
      BY <2>3
    <2> QED BY <1>1, <1>3, <2>2, <2>5, <2>6, <2>7 DEF Sound
  <1> QED BY <1>2, <1>3

(* So does the end of the stream.                                          *)
LEMMA SoundEof ==
  ASSUME TypeOK, NEW r \in Requests, Sound(r, req[r]), req[r].phase \in {"arrived", "ended"}
  PROVE  /\ Sound(r, EofAnswer(r)) /\ (EofAnswer(r).answer = "stray" => req[r].answer = "stray")
         /\ EofAnswer(r).phase \in {"ended", "returned"}
  <1>1. req[r] \in RequestType
    BY DEF TypeOK
  <1>2. PICK e : e = End(req[r])
    OBVIOUS
  <1>3. /\ e \in RequestType /\ e.phase \in {"ended", "returned"}
        /\ req[r].client \/ req[r].phase = "ended" => e.phase = "ended"
        /\ e.client = req[r].client /\ e.sent = req[r].sent
        /\ e.full = req[r].full /\ e.headed = req[r].headed /\ e.answer = req[r].answer
    BY <1>1, <1>2, EndOf
  <1>4. CASE req[r].headed
    BY <1>1, <1>2, <1>3, <1>4 DEF EofAnswer, Sound
  <1>5. CASE ~req[r].headed
    <2>1. PICK a : a = IF req[r].client THEN "error" ELSE req[r].answer
      OBVIOUS
    <2>2. EofAnswer(r) = [e EXCEPT !.answer = a]
      BY <1>2, <1>3, <1>5, <2>1 DEF EofAnswer
    <2>3. /\ EofAnswer(r).answer = a /\ EofAnswer(r).phase = e.phase /\ EofAnswer(r).client = e.client
          /\ EofAnswer(r).sent = e.sent /\ EofAnswer(r).full = e.full /\ EofAnswer(r).headed = e.headed
      BY <1>3, <2>2 DEF RequestType
    <2> QED BY <1>1, <1>3, <2>1, <2>3 DEF Sound
  <1> QED BY <1>4, <1>5

(* So does a header; and a stray answer is one that was sent to another.   *)
LEMMA SoundHeaded ==
  ASSUME TypeOK, NEW r \in Requests, Sound(r, req[r]), req[r].phase \in {"arrived", "ended"},
         NEW item \in Item, NEW q, q = Headed(r, item)
  PROVE  /\ q \in RequestType /\ Sound(r, q) /\ q.headed /\ q.sent = req[r].sent
         /\ q.phase = req[r].phase /\ (q.client => q.answer # "none")
         /\ q.answer = "stray" => req[r].answer = "stray" \/ item.to # r
  <1>1. req[r] \in RequestType
    BY DEF TypeOK
  <1>2. PICK a : a = IF req[r].headed \/ ~req[r].client THEN req[r].answer
                     ELSE IF item.to = r THEN "own" ELSE "stray"
    OBVIOUS
  <1>3. q = [req[r] EXCEPT !.headed = TRUE, !.answer = a]
    BY <1>2 DEF Headed
  <1>4. q \in RequestType
    BY HeadedOf
  <1>5. /\ q.answer = a /\ q.headed = TRUE /\ q.phase = req[r].phase /\ q.client = req[r].client
        /\ q.sent = req[r].sent /\ q.full = req[r].full
    BY <1>1, <1>3 DEF RequestType
  <1>6. \/ a \in {"own", "stray"} /\ (a = "stray" => item.to # r)
        \/ a = req[r].answer /\ (req[r].headed \/ ~req[r].client)
    BY <1>2
  <1> QED BY <1>1, <1>4, <1>5, <1>6 DEF Sound

(* So does a part of the content.                                          *)
LEMMA SoundFed ==
  ASSUME TypeOK, NEW r \in Requests, Sound(r, req[r]), Waits(r), req[r].headed,
         NEW full \in {FALSE, req[r].client}, NEW q, q = Fed(r, full)
  PROVE  /\ q \in RequestType /\ Sound(r, q) /\ q.headed /\ q.sent = req[r].sent
         /\ q.phase = req[r].phase /\ (q.client => q.answer # "none")
         /\ q.answer = "stray" => req[r].answer = "stray"
  <1>1. req[r] \in RequestType /\ full \in BOOLEAN
    BY DEF TypeOK, RequestType
  <1>2. PICK a : a = IF req[r].phase = "ended" /\ req[r].answer = "error" THEN "mixed" ELSE req[r].answer
    OBVIOUS
  <1>3. q = [req[r] EXCEPT !.answer = a, !.full = full]
    BY <1>1, <1>2 DEF Fed, Posted, RequestType
  <1>4. q \in RequestType
    BY <1>1, PostedOf DEF Fed
  <1>5. /\ q.answer = a /\ q.headed = req[r].headed /\ q.phase = req[r].phase /\ q.client = req[r].client
        /\ q.sent = req[r].sent /\ q.full = full
    BY <1>1, <1>3 DEF RequestType
  <1> QED BY <1>1, <1>2, <1>4, <1>5 DEF Sound, Waits

(* The endings after a connection has stopped to serve.                    *)
LEMMA PartedEndings ==
  ASSUME StoreInv, Endings, method' = method, strayed => strayed', NEW s \in Ships,
         NEW r, Parted(s, r),
         r # None => Sound(r, req'[r]) /\ (req'[r].answer = "stray" => strayed'),
         \A t \in ToSet(keep') : t \in Ships /\ (t = s \/ t \in ToSet(keep)),
         s \in ToSet(keep') => ship'[s].state = "header"
  PROVE  Endings'
  <1>1. \A q \in Requests : q # r => req'[q] = req[q]
    BY DEF Parted
  <1>2. \A q \in Requests : Sound(q, req'[q]) /\ (req'[q].answer = "stray" => strayed')
    BY <1>1, NoneIsNoShip DEF Endings
  <1>3. \A q \in Requests : Sound(q, req[q])'
    BY <1>2 DEF Sound
  <1>4. ASSUME NEW t \in Ships, ship'[t].serves # None
        PROVE  /\ req'[ship'[t].serves].phase = "ended" =>
                    method'[ship'[t].serves] = "post" /\ ~req'[ship'[t].serves].sent
               /\ ship'[t].state = "content" => req'[ship'[t].serves].headed
    <2>1. t # s /\ ship'[t] = ship[t]
      BY <1>4 DEF Parted
    <2>2. ship[t].serves # r /\ ship[t].serves \in Requests
      BY <1>4, <2>1 DEF Parted, StoreInv, StoreKept, StoreConsistent, TypeOK, ShipType
    <2>3. req'[ship[t].serves] = req[ship[t].serves]
      BY <1>1, <2>2
    <2>4. /\ req[ship[t].serves].phase = "ended" =>
                method[ship[t].serves] = "post" /\ ~req[ship[t].serves].sent
          /\ ship[t].state = "content" => req[ship[t].serves].headed
      BY <1>4, <2>1 DEF Endings
    <2> QED BY <2>1, <2>3, <2>4
  <1>5. \A t \in ToSet(keep') : ship'[t].state = "header"
    BY DEF Parted, Endings
  <1> QED BY <1>2, <1>3, <1>4, <1>5 DEF Endings

(* The connection is dropped.                                              *)
LEMMA DropEndings ==
  ASSUME StoreInv, Endings, method' = method, strayed => strayed', NEW s \in Ships,
         NEW sh \in ShipType, sh.state = ship[s].state, NEW r, r = ship[s].serves,
         ship[s].conn \in {"connecting", "up", "closing"},
         NEW q, DropShip(s, sh, r, q), r # None => q.phase # "arrived",
         r # None => Sound(r, q) /\ (q.answer = "stray" => strayed')
  PROVE  Endings'
  <1>1. /\ ship \in [Ships -> ShipType] /\ req \in [Requests -> RequestType]
        /\ r \in Requests \cup {None} /\ ToSet(keep) \subseteq Ships
    BY DEF StoreInv, StoreKept, StoreConsistent, Listed, TypeOK, ShipType
  <1>2. /\ ship'[s].serves = None /\ ship'[s].state = ship[s].state /\ keep' = keep
        /\ \A t \in Ships : t # s => ship'[t] = ship[t]
    BY <1>1 DEF DropShip, ShipType
  <1>3. r # None => req'[r] = q /\ \A p \in Requests : p # r => req'[p] = req[p]
    BY <1>1 DEF DropShip
  <1>4. r = None => req' = req
    BY DEF DropShip
  <1>5. Parted(s, r)
    BY <1>2, <1>3, <1>4 DEF Parted
  <1>6. s \in ToSet(keep') => ship'[s].state = "header"
    BY <1>2 DEF Endings
  <1> QED BY <1>1, <1>2, <1>3, <1>5, <1>6, PartedEndings

(* The connection is kept.                                                 *)
LEMMA KeepEndings ==
  ASSUME StoreInv, Endings, method' = method, strayed => strayed', NEW s \in Ships,
         NEW sh \in ShipType, NEW r \in Requests, r = ship[s].serves,
         ship[s].conn \in {"connecting", "up", "closing"},
         NEW q \in RequestType, KeepShip(s, sh, r, q),
         Sound(r, q), q.phase \in {"arrived", "ended"}, q.client => q.answer # "none",
         q.answer = "stray" => strayed'
  PROVE  Endings'
  <1>1. /\ ship \in [Ships -> ShipType] /\ req \in [Requests -> RequestType] /\ keep \in Seq(Ships)
        /\ ToSet(keep) \subseteq Ships
    BY DEF StoreInv, StoreKept, StoreConsistent, Listed, TypeOK
  <1>2. /\ ship'[s].serves = None /\ ship'[s].state = "header"
        /\ \A t \in Ships : t # s => ship'[t] = ship[t]
        /\ keep' = Append(keep, s)
        /\ req'[r] = End(q) /\ \A p \in Requests : p # r => req'[p] = req[p]
    BY <1>1, KeptOf DEF KeepShip
  <1>3. End(q).phase # "arrived" /\ Sound(r, End(q)) /\ End(q).answer = q.answer
    BY SoundEnd, EndOf
  <1>4. Parted(s, r)
    BY <1>2, <1>3 DEF Parted
  <1>5. ToSet(keep') = ToSet(keep) \cup {s}
    BY <1>1, <1>2, AppendToSet
  <1> QED BY <1>1, <1>2, <1>3, <1>4, <1>5, PartedEndings

(* The connection goes on.                                                 *)
LEMMA GoesOnEndings ==
  ASSUME StoreInv, Endings, method' = method, strayed => strayed', NEW s \in Ships,
         NEW r \in Requests, r = ship[s].serves, NEW x, NEW q, GoesOn(s, x, r, q),
         x.serves = r, x.state = "content" => q.headed, Sound(r, q),
         q.answer = "stray" => strayed', q.phase = req[r].phase, q.sent = req[r].sent
  PROVE  Endings'
  <1>1. /\ ship \in [Ships -> ShipType] /\ req \in [Requests -> RequestType]
        /\ ToSet(keep) \subseteq Ships /\ ship[s].serves = r /\ r # None
    BY NoneIsNoShip DEF StoreInv, StoreKept, StoreConsistent, Listed, TypeOK
  <1>2. /\ ship'[s] = x /\ \A t \in Ships : t # s => ship'[t] = ship[t]
        /\ req'[r] = q /\ \A p \in Requests : p # r => req'[p] = req[p]
        /\ keep' = keep
    BY <1>1 DEF GoesOn
  <1>3. \A p \in Requests : Sound(p, req'[p]) /\ (req'[p].answer = "stray" => strayed')
    BY <1>2 DEF Endings
  <1>4. \A p \in Requests : Sound(p, req[p])'
    BY <1>3 DEF Sound
  <1>5. Waits(r) /\ s \notin ToSet(keep)
    BY <1>1, WhoWaits, NotNew
  <1>6. ASSUME NEW t \in Ships, ship'[t].serves # None
        PROVE  /\ req'[ship'[t].serves].phase = "ended" =>
                    method'[ship'[t].serves] = "post" /\ ~req'[ship'[t].serves].sent
               /\ ship'[t].state = "content" => req'[ship'[t].serves].headed
    <2>1. CASE t = s
      BY <1>2, <1>5, <2>1 DEF Waits
    <2>2. CASE t # s
      <3>1. ship'[t] = ship[t] /\ ship[t].serves # r /\ ship[t].serves \in Requests
        BY <1>1, <1>2, <1>6, <2>2 DEF StoreInv, StoreKept, StoreConsistent, TypeOK, ShipType
      <3>2. req'[ship[t].serves] = req[ship[t].serves]
        BY <1>2, <3>1
      <3>3. /\ req[ship[t].serves].phase = "ended" =>
                  method[ship[t].serves] = "post" /\ ~req[ship[t].serves].sent
            /\ ship[t].state = "content" => req[ship[t].serves].headed
        BY <1>6, <3>1 DEF Endings
      <3> QED BY <3>1, <3>2, <3>3
    <2> QED BY <2>1, <2>2
  <1>7. \A t \in ToSet(keep') : ship'[t].state = "header"
    BY <1>1, <1>2, <1>5 DEF Endings
  <1> QED BY <1>3, <1>4, <1>6, <1>7 DEF Endings

(* A request has come: it is refused, or forwarded on the connection s.    *)
Came(r, q, s) ==
  /\ q.answer \in {"none", "error"} /\ Sound(r, q)
  /\ req'[r] = q /\ \A p \in Requests : p # r => req'[p] = req[p]
  /\ \A t \in Ships : t # s => ship'[t] = ship[t]
  /\ s \in Ships => \/ ship'[s] = ship[s]
                    \/ ship'[s].serves = r /\ q.phase = "arrived" /\ ship'[s].state = "header"
  /\ ToSet(keep') \subseteq ToSet(keep)

(* A request that comes: what it leaves of the endings and of the units.   *)
LEMMA ArriveEndings ==
  ASSUME StoreInv, Endings, method' = method, strayed => strayed', NEW r \in Requests, Arrive(r)
  PROVE  Endings' /\ \A s \in Ships : UnitMove(s)
  <1>1. /\ TypeOK /\ ship \in [Ships -> ShipType] /\ req \in [Requests -> RequestType]
        /\ keep \in Seq(Ships) /\ IsInjective(keep) /\ ToSet(keep) \subseteq Ships
    BY DEF StoreInv, StoreKept, StoreConsistent, Listed, TypeOK
  <1>2. req[r].phase = "new" /\ req[r] = NewRequest /\ req[r] \in RequestType
    BY <1>1 DEF Arrive, Endings, Sound
  <1>3. \A t \in Ships : ship[t].serves # r
    BY <1>2, NotNew, NoneIsNoShip
  <1>4. ASSUME NEW q, NEW s, Came(r, q, s)
        PROVE  Endings'
    <2>1. \A p \in Requests : Sound(p, req'[p]) /\ (req'[p].answer = "stray" => strayed')
      BY <1>4 DEF Came, Endings
    <2>2. \A p \in Requests : Sound(p, req[p])'
      BY <2>1 DEF Sound
    <2>3. ASSUME NEW t \in Ships, ship'[t].serves # None
          PROVE  /\ req'[ship'[t].serves].phase = "ended" =>
                      method'[ship'[t].serves] = "post" /\ ~req'[ship'[t].serves].sent
                 /\ ship'[t].state = "content" => req'[ship'[t].serves].headed
      <3>1. CASE ship'[t] = ship[t]
        <4>1. ship[t].serves \in Requests /\ ship[t].serves # r
          BY <1>1, <1>3, <2>3, <3>1 DEF ShipType
        <4>2. req'[ship[t].serves] = req[ship[t].serves]
          BY <1>4, <4>1 DEF Came
        <4>3. /\ req[ship[t].serves].phase = "ended" =>
                    method[ship[t].serves] = "post" /\ ~req[ship[t].serves].sent
              /\ ship[t].state = "content" => req[ship[t].serves].headed
          BY <2>3, <3>1 DEF Endings
        <4> QED BY <3>1, <4>2, <4>3
      <3>2. CASE ship'[t] # ship[t]
        <4>1. ship'[t].serves = r /\ q.phase = "arrived" /\ ship'[t].state = "header"
          BY <1>4, <3>2 DEF Came
        <4> QED BY <1>4, <4>1 DEF Came
      <3> QED BY <3>1, <3>2
    <2>4. \A t \in ToSet(keep') : ship'[t].state = "header"
      BY <1>1, <1>4 DEF Came, Endings
    <2> QED BY <2>1, <2>2, <2>3, <2>4 DEF Endings
  <1>5. CASE /\ req' = [req EXCEPT ![r].phase = "ended", ![r].answer = "error"]
             /\ UNCHANGED <<ship, keep, busy>>
    <2>1. PICK q : q = [NewRequest EXCEPT !.phase = "ended", !.answer = "error"]
      OBVIOUS
    <2>2. Sound(r, q) /\ q.answer = "error"
      BY <2>1 DEF Sound, NewRequest
    <2>3. req'[r] = q /\ \A p \in Requests : p # r => req'[p] = req[p]
      BY <1>1, <1>2, <1>5, <2>1
    <2>4. Came(r, q, r)
      BY <1>5, <2>2, <2>3 DEF Came
    <2>5. \A s \in Ships : UnitMove(s)
      BY <1>5 DEF UnitMove
    <2> QED BY <1>4, <2>4, <2>5
  <1>6. ASSUME NEW s \in Ships, NEW rest, Start(r, s, rest), ship[s].state = "header",
               ToSet(rest) \subseteq ToSet(keep)
        PROVE  Endings' /\ \A t \in Ships : UnitMove(t)
    <2>1. PICK u : u = [kind |-> IF method[r] = "post" THEN "header" ELSE "whole", of |-> r]
      OBVIOUS
    <2>2. u \in Unit /\ u.kind # "body"
      BY <2>1 DEF Unit
    <2>3. ship[s] \in ShipType
      BY <1>1
    <2>4. /\ ship'[s].serves = r /\ ship'[s].units = Append(ship[s].units, u)
          /\ ship'[s].state = "header"
          /\ \A t \in Ships : t # s => ship'[t] = ship[t]
      BY <1>1, <1>6, <2>1, <2>3 DEF Start, ShipType
    <2>5. PICK q : q = [NewRequest EXCEPT !.phase = "arrived", !.via = s]
      OBVIOUS
    <2>6. req' = [req EXCEPT ![r].phase = "arrived", ![r].via = s] /\ keep' = rest
      BY <1>6 DEF Start
    <2>7. req'[r] = q /\ \A p \in Requests : p # r => req'[p] = req[p]
      BY <1>1, <1>2, <2>5, <2>6
    <2>8. Sound(r, q) /\ q.answer = "none" /\ q.phase = "arrived"
      BY <2>5 DEF Sound, NewRequest
    <2>9. Came(r, q, s)
      BY <1>6, <2>4, <2>6, <2>7, <2>8 DEF Came
    <2>10. \A t \in Ships : UnitMove(t)
      BY <2>2, <2>4 DEF UnitMove
    <2> QED BY <1>4, <2>9, <2>10
  <1>7. ASSUME NEW i \in Usable, Start(r, keep[i], RemoveAt(keep, i))
        PROVE  Endings' /\ \A t \in Ships : UnitMove(t)
    <2>1. i \in DOMAIN keep /\ keep[i] \in Ships /\ keep[i] \in ToSet(keep)
      BY <1>1, ElementOfSeq, LenProperties DEF Usable, ToSet
    <2>2. ship[keep[i]].state = "header"
      BY <2>1 DEF Endings
    <2>3. ToSet(RemoveAt(keep, i)) \subseteq ToSet(keep)
      BY <1>1, <2>1, RemoveAtSet
    <2> QED BY <1>6, <1>7, <2>1, <2>2, <2>3
  <1>8. ASSUME NEW s \in Ships, Unused(s), Start(r, s, keep)
        PROVE  Endings' /\ \A t \in Ships : UnitMove(t)
    <2>1. ship[s] = NewShip
      BY <1>8 DEF Unused, StoreInv, Listings
    <2>2. ship[s].state = "header"
      BY <2>1 DEF NewShip
    <2> QED BY <1>6, <1>8, <2>2
  <1> QED BY <1>5, <1>7, <1>8 DEF Arrive

(* A dropped connection gets no more units.                                *)
LEMMA DropUnits ==
  ASSUME TypeOK, NEW s \in Ships, NEW sh \in ShipType, sh.units = ship[s].units,
         NEW r, NEW q, DropShip(s, sh, r, q)
  PROVE  \A t \in Ships : UnitMove(t)
  <1>1. /\ ship'[s].units = ship[s].units
        /\ \A t \in Ships : t # s => ship'[t] = ship[t]
    BY DEF DropShip, TypeOK, ShipType
  <1> QED BY <1>1 DEF UnitMove

(* What has been read is of the request the connection serves, unless a    *)
(* backend has strayed; the record stays sound.                            *)
LEMMA ReadEndings ==
  ASSUME StoreInv, Endings, Conversation, method' = method, strayed => strayed',
         NEW s \in Ships, Read(s), ~Dies("stray"), ~Dies("id")
  PROVE  Endings' /\ \A t \in Ships : UnitMove(t)
  <1>1. /\ TypeOK /\ ship \in [Ships -> ShipType] /\ ship[s] \in ShipType
        /\ ship[s].serves \in Requests \cup {None} /\ ship[s].inbox \in Seq(Item)
        /\ req \in [Requests -> RequestType]
    BY DEF StoreInv, StoreKept, TypeOK, ShipType
  <1>2. ship[s].inbox # <<>> /\ Open(ship[s]) /\ ship[s].conn \in {"up", "closing"}
    BY DEF Read, Open
  <1>3. PICK r : r = ship[s].serves
    OBVIOUS
  <1>4. PICK sh : sh = [ship[s] EXCEPT !.inbox = Tail(@)]
    OBVIOUS
  <1>5. PICK item : item = Head(ship[s].inbox)
    OBVIOUS
  <1>6. sh \in ShipType /\ item \in Item
    BY <1>1, <1>2, <1>3, <1>4, <1>5, ReadShapes, HeadTailProperties
  <1>7. sh.state = ship[s].state /\ sh.units = ship[s].units /\ sh.serves = r
    BY <1>1, <1>3, <1>4 DEF ShipType
  <1>8. CASE r = None
    <2>1. DropShip(s, sh, r, NewRequest)
      BY <1>1, <1>3, <1>4, <1>8, NoneIsNoShip, ReadShapes
    <2>2. Endings'
      BY <1>2, <1>3, <1>6, <1>7, <1>8, <2>1, DropEndings
    <2> QED BY <1>1, <1>6, <1>7, <2>1, <2>2, DropUnits
  <1>9. CASE r # None
    <2>1. r \in Requests
      BY <1>1, <1>3, <1>9
    <2>2. /\ Waits(r) /\ Sound(r, req[r]) /\ req[r] \in RequestType
          /\ ship[s].state = "content" => req[r].headed
          /\ req[r].answer = "stray" => strayed
          /\ req[r].phase \in {"arrived", "ended"}
      <3>1. Waits(r) /\ Sound(r, req[r]) /\ req[r] \in RequestType
            /\ (ship[s].state = "content" => req[r].headed)
            /\ (req[r].answer = "stray" => strayed)
        BY <1>3, <1>9, WhoWaits
      <3> QED BY <3>1 DEF Waits
    <2>3. item.kind # "eof" => item.to = r \/ strayed
      <3>1. ~strayed => Talk(ship[s])
        BY <1>2 DEF Conversation
      <3>2. 1 \in DOMAIN ship[s].inbox /\ item = ship[s].inbox[1]
        BY <1>1, <1>2, <1>5, TailAt
      <3> QED BY <1>3, <3>1, <3>2 DEF Talk
    <2>4. ReadCase(s, sh, r, item)
      BY <1>1, <1>3, <1>4, <1>5, <2>1, ReadCases
    <2>5. PICK h : h = Headed(r, item)
      OBVIOUS
    <2>6. /\ h \in RequestType /\ Sound(r, h) /\ h.headed /\ h.sent = req[r].sent
          /\ h.phase = req[r].phase /\ (h.client => h.answer # "none")
          /\ item.kind # "eof" /\ h.answer = "stray" => strayed'
      <3>1. /\ h \in RequestType /\ Sound(r, h) /\ h.headed /\ h.sent = req[r].sent
            /\ h.phase = req[r].phase /\ (h.client => h.answer # "none")
            /\ h.answer = "stray" => req[r].answer = "stray" \/ item.to # r
        BY <1>1, <1>6, <2>1, <2>2, <2>5, SoundHeaded
      <3> QED BY <2>2, <2>3, <3>1
    <2>7. CASE DropShip(s, sh, r, EofAnswer(r))
      <3>1. /\ Sound(r, EofAnswer(r)) /\ (EofAnswer(r).answer = "stray" => strayed')
            /\ EofAnswer(r).phase # "arrived"
        BY <1>1, <2>1, <2>2, SoundEof
      <3>2. Endings'
        BY <1>2, <1>3, <1>6, <1>7, <2>7, <3>1, DropEndings
      <3> QED BY <1>1, <1>6, <1>7, <2>7, <3>2, DropUnits
    <2>8. CASE DropShip(s, sh, r, Failed(r))
      <3>1. /\ Sound(r, Failed(r)) /\ (Failed(r).answer = "stray" => strayed')
            /\ Failed(r).phase # "arrived"
        BY <1>1, <2>1, <2>2, SoundFailed, FailedOf
      <3>2. Endings'
        BY <1>2, <1>3, <1>6, <1>7, <2>8, <3>1, DropEndings
      <3> QED BY <1>1, <1>6, <1>7, <2>8, <3>2, DropUnits
    <2>9. ASSUME NEW q, KeepShip(s, sh, r, q)
          PROVE  \A t \in Ships : UnitMove(t)
      <3>1. /\ ship'[s].units = ship[s].units
            /\ \A t \in Ships : t # s => ship'[t] = ship[t]
        BY <1>1, <1>6, <1>7, <2>9 DEF KeepShip, Kept, ShipType
      <3> QED BY <3>1 DEF UnitMove
    <2>10. ASSUME NEW x, NEW q, GoesOn(s, x, r, q), x.units = ship[s].units
           PROVE  \A t \in Ships : UnitMove(t)
      <3>1. /\ ship'[s].units = ship[s].units
            /\ \A t \in Ships : t # s => ship'[t] = ship[t]
        BY <1>1, <2>10 DEF GoesOn
      <3> QED BY <3>1 DEF UnitMove
    <2>11. CASE item.kind = "empty" /\ KeepShip(s, sh, r, h)
      <3>1. Endings'
        BY <1>2, <1>3, <1>6, <2>1, <2>2, <2>6, <2>11, KeepEndings
      <3> QED BY <2>9, <2>11, <3>1
    <2>12. CASE item.kind # "eof" /\ GoesOn(s, Answering(sh), r, h)
      <3>1. Answering(sh).serves = r /\ Answering(sh).units = ship[s].units
        BY <1>6, <1>7 DEF Answering, ShipType
      <3>2. Endings'
        BY <1>3, <2>1, <2>6, <2>12, <3>1, GoesOnEndings
      <3> QED BY <2>10, <2>12, <3>1, <3>2
    <2>13. ASSUME sh.state = "content", NEW full \in {FALSE, req[r].client}, NEW q, q = Fed(r, full)
           PROVE  /\ q \in RequestType /\ Sound(r, q) /\ q.headed /\ q.sent = req[r].sent
                  /\ q.phase = req[r].phase /\ (q.client => q.answer # "none")
                  /\ q.answer = "stray" => strayed'
      BY <1>1, <1>7, <2>1, <2>2, <2>13, SoundFed
    <2>14. ASSUME sh.state = "content", NEW full \in {FALSE, req[r].client},
                  KeepShip(s, sh, r, Fed(r, full))
           PROVE  Endings' /\ \A t \in Ships : UnitMove(t)
      <3>1. PICK q : q = Fed(r, full)
        OBVIOUS
      <3>2. Endings'
        BY <1>2, <1>3, <1>6, <2>1, <2>2, <2>13, <2>14, <3>1, KeepEndings
      <3> QED BY <2>9, <2>14, <3>2
    <2>15. ASSUME sh.state = "content", NEW full \in {FALSE, req[r].client},
                  GoesOn(s, IF full THEN [sh EXCEPT !.armed = {}] ELSE sh, r, Fed(r, full))
           PROVE  Endings' /\ \A t \in Ships : UnitMove(t)
      <3>1. PICK q : q = Fed(r, full)
        OBVIOUS
      <3>2. PICK x : x = IF full THEN [sh EXCEPT !.armed = {}] ELSE sh
        OBVIOUS
      <3>3. x.serves = r /\ x.units = ship[s].units
        BY <1>6, <1>7, <3>2 DEF ShipType
      <3>4. GoesOn(s, x, r, q)
        BY <2>15, <3>1, <3>2
      <3>5. Endings'
        BY <1>3, <2>1, <2>13, <2>15, <3>1, <3>3, <3>4, GoesOnEndings
      <3> QED BY <2>10, <3>3, <3>4, <3>5
    <2> QED BY <2>4, <2>5, <2>7, <2>8, <2>11, <2>12, <2>14, <2>15 DEF ReadCase
  <1> QED BY <1>8, <1>9

(* What times out or is closed leaves a sound record.                      *)
LEMMA PartEndings ==
  ASSUME StoreInv, Endings, method' = method, strayed => strayed', NEW s \in Ships,
         TimesOut(s) \/ (Closed(s) /\ ~Dies("consumed") /\ ~Dies("id"))
  PROVE  Endings' /\ \A t \in Ships : UnitMove(t)
  <1>1. /\ TypeOK /\ ship \in [Ships -> ShipType] /\ ship[s] \in ShipType
        /\ req \in [Requests -> RequestType] /\ keep \in Seq(Ships) /\ IsInjective(keep)
        /\ ToSet(keep) \subseteq Ships
    BY DEF StoreInv, StoreKept, StoreConsistent, Listed, TypeOK
  <1>2. PICK r : r = ship[s].serves
    OBVIOUS
  <1>3. r # None => /\ r \in Requests /\ Sound(r, Failed(r))
                    /\ Failed(r).answer = "stray" => strayed'
                    /\ Failed(r).phase # "arrived"
    BY <1>1, <1>2, WhoWaits, SoundFailed, FailedOf
  <1>4. CASE TimesOut(s)
    <2>1. PICK q : q = IF r = None THEN NewRequest ELSE Failed(r)
      OBVIOUS
    <2>2. DropShip(s, ship[s], r, q) /\ ship[s].conn \in {"connecting", "up"}
      BY <1>2, <1>4, <2>1 DEF TimesOut
    <2>3. Endings'
      BY <1>1, <1>2, <1>3, <2>1, <2>2, DropEndings
    <2> QED BY <1>1, <2>2, <2>3, DropUnits
  <1>5. CASE Closed(s) /\ ~Dies("consumed") /\ ~Dies("id")
    <2>1. /\ ship[s].conn = "closing" /\ ship' = [ship EXCEPT ![s] = [NewShip EXCEPT !.conn = "closed"]]
          /\ req' = (IF r = None THEN req ELSE [req EXCEPT ![r] = Failed(r)])
          /\ keep' = RemoveFirst(keep, s)
      BY <1>2, <1>5 DEF Closed, OutOfLists
    <2>2. /\ ship'[s].serves = None /\ ship'[s].units = <<>> /\ ship'[s].state = "header"
          /\ \A t \in Ships : t # s => ship'[t] = ship[t]
      BY <1>1, <2>1 DEF NewShip
    <2>3. ToSet(keep') = ToSet(keep) \ {s}
      BY <1>1, <2>1, RemoveFirstSet
    <2>4. /\ r # None => req'[r] = Failed(r)
          /\ \A q \in Requests : q # r => req'[q] = req[q]
      BY <1>1, <1>3, <2>1
    <2>5. Parted(s, r)
      BY <1>2, <1>3, <2>1, <2>2, <2>4 DEF Parted
    <2>6. Endings'
      BY <1>1, <1>2, <1>3, <2>2, <2>3, <2>4, <2>5, PartedEndings
    <2> QED BY <2>2, <2>6 DEF UnitMove
  <1> QED BY <1>4, <1>5

-----------------------------------------------------------------------------
(* The invariant of the answers, AnswersMatch and DeathsExplained.         *)

(* The inductive invariant of the answers.                                 *)
EndInv == StoreInv /\ Conversation /\ BodyUnits /\ Endings

(* The invariant of the answers holds at the start.                        *)
LEMMA EndInit == Init => EndInv
  <1> SUFFICES ASSUME Init PROVE EndInv
    OBVIOUS
  <1>1. StoreInv
    BY StoreInit
  <1>2. /\ \A s \in Ships : ship[s] = NewShip
        /\ \A r \in Requests : req[r] = NewRequest
        /\ keep = <<>>
    BY DEF Init
  <1>3. Conversation
    BY <1>2, TalkNew DEF Conversation
  <1>4. BodyUnits
    <2>1. \A s \in Ships : ToSet(ship[s].units) = {}
      BY <1>2 DEF NewShip, ToSet
    <2> QED BY <2>1 DEF BodyUnits, Pending
  <1>5. Endings
    <2>1. \A r \in Requests : Sound(r, NewRequest) /\ NewRequest.answer = "none"
      <3>1. /\ NewRequest.answer = "none" /\ NewRequest.client = TRUE /\ NewRequest.headed = FALSE
            /\ NewRequest.full = FALSE /\ NewRequest.phase = "new" /\ NewRequest.via = None
            /\ NewRequest.sent = FALSE
        BY DEF NewRequest
      <3> QED BY <3>1 DEF Sound
    <2>4. \A r \in Requests : Sound(r, req[r]) /\ req[r].answer = "none"
      BY <1>2, <2>1
    <2>2. \A s \in Ships : ship[s].serves = None
      BY <1>2 DEF NewShip
    <2>3. ToSet(keep) = {}
      BY <1>2 DEF ToSet
    <2> QED BY <2>4, <2>2, <2>3 DEF Endings
  <1> QED BY <1>1, <1>3, <1>4, <1>5 DEF EndInv

(* Every step keeps it: the store as before, then the conversation, the    *)
(* units and the endings, for the steps that move no list and for those    *)
(* that do.                                                                *)
LEMMA EndStep == ASSUME EndInv, [Next]_vars PROVE EndInv'
  <1>1. StoreInv' /\ TypeOK' /\ method' = method /\ (strayed => strayed')
    <2>1. StoreInv'
      BY StoreStep DEF EndInv
    <2> QED BY <2>1, FrameStep DEF EndInv, StoreInv, StoreKept
  <1>2. \A r \in Requests : req[r].phase # "new" => req'[r].via = req[r].via /\ req'[r].phase # "new"
    BY ViaStays DEF EndInv
  <1>3. ASSUME Conversation', Endings', \A s \in Ships : UnitMove(s)
        PROVE  EndInv'
    <2>1. BodyUnits'
      BY <1>2, <1>3, UnitsFrom DEF EndInv, StoreInv, StoreKept
    <2> QED BY <1>1, <1>3, <2>1 DEF EndInv
  <1>4. CASE UNCHANGED <<req, ship, keep>>
    <2>1. Conversation'
      BY <1>1, <1>4 DEF EndInv, Conversation
    <2>2. Steady
      BY <1>4 DEF Steady, UnitMove
    <2>3. Endings'
      <3>1. \A r \in Requests : Sound(r, req[r])'
        BY <1>1, <1>4 DEF EndInv, Endings, Sound
      <3> QED BY <1>1, <1>4, <3>1 DEF EndInv, Endings
    <2> QED BY <1>3, <2>1, <2>2, <2>3 DEF Steady
  <1>5. CASE UNCHANGED vars
    BY <1>4, <1>5 DEF vars
  <1>6. ASSUME NEW r \in Requests,
               Body(r) \/ ClientReads(r) \/ ReturnTour(r) \/ Arrive(r) \/ TooLong(r) \/ Disconnect(r)
        PROVE  EndInv'
    <2>1. CASE Dies("id") \/ Dies("resume")
      BY <1>4, <2>1 DEF Dies
    <2>2. CASE Arrive(r)
      BY <1>1, <1>3, <2>2, ArriveTalks, ArriveEndings DEF EndInv
    <2>3. CASE ~Dies("id") /\ ~Dies("resume") /\ ~Arrive(r)
      <3>1. Mild
        BY <1>6, <2>3, BodyMild, TooLongMild, ClientMild DEF EndInv
      <3>2. Steady /\ \E q : req' = [req EXCEPT ![r] = q] /\ Turn(r, q)
        BY <1>6, <2>3, RequestsSteady DEF EndInv
      <3>3. Endings'
        BY <1>1, <3>1, <3>2, SteadyEndings DEF EndInv
      <3>4. Conversation'
        BY <1>6, <2>3, BodyTalks, ClientTalks DEF EndInv
      <3> QED BY <1>3, <3>2, <3>3, <3>4 DEF Steady
    <2> QED BY <2>1, <2>2, <2>3
  <1>7. ASSUME NEW s \in Ships,
               \/ Connected(s) \/ Write(s) \/ UpAnswers(s) \/ Read(s) \/ TimesOut(s) \/ Closed(s)
               \/ ConnectFails(s) \/ UpCloses(s) \/ UpStray(s)
        PROVE  EndInv'
    <2>1. CASE Dies("id") \/ Dies("consumed") \/ Dies("stray")
      BY <1>4, <2>1 DEF Dies
    <2>2. CASE Read(s) /\ ~Dies("stray") /\ ~Dies("id")
      BY <1>1, <1>3, <2>2, ReadTalks, ReadEndings DEF EndInv
    <2>3. CASE TimesOut(s) \/ (Closed(s) /\ ~Dies("consumed") /\ ~Dies("id"))
      BY <1>1, <1>3, <2>3, PartTalks, PartEndings DEF EndInv
    <2>4. CASE /\ ~Dies("id") /\ ~Dies("consumed")
               /\ \/ Connected(s) \/ Write(s) \/ UpAnswers(s)
                  \/ ConnectFails(s) \/ UpCloses(s) \/ UpStray(s)
      <3>1. Mild
        BY <2>4, ConnectMild, WriteMild, BackendMild DEF EndInv
      <3>2. Steady /\ req' = req
        BY <2>4, ShipsSteady DEF EndInv
      <3>3. Endings'
        BY <1>1, <3>1, <3>2, SteadyEndings DEF EndInv
      <3>4. Conversation'
        BY <2>4, ConnectTalks, WriteTalks, UpTalks DEF EndInv
      <3> QED BY <1>3, <3>2, <3>3, <3>4 DEF Steady
    <2> QED BY <1>7, <2>1, <2>2, <2>3, <2>4
  <1> QED BY <1>5, <1>6, <1>7 DEF Next, Internal, External

(* It says of every answer what AnswersMatch does.                         *)
LEMMA EndsMatch == ASSUME EndInv PROVE AnswersMatch
  <1>1. \A r \in Requests : Sound(r, req[r]) /\ (req[r].answer = "stray" => strayed)
    BY DEF EndInv, Endings
  <1> QED BY <1>1 DEF AnswersMatch, Sound

(* Every request of a client that stays has its own answer when it has its *)
(* end, and no other one unless a backend has strayed: the handlers hand   *)
(* what they read to the tour the connection serves, whomever it was sent  *)
(* to, and only the order in which connections are dropped, kept and       *)
(* rented again makes it the right one (AnswersMatch).                     *)
THEOREM AnswersStayMatched == Spec => []AnswersMatch
  <1> QED BY EndInit, EndStep, EndsMatch, PTL DEF Spec

(* No step ends the agent by a wrong ship id: a handler is never called on *)
(* a connection for a request that is not its own.                         *)
LEMMA NeverById ==
  ASSUME StoreInv, Next, agent' = "id"
  PROVE  FALSE
  <1>1. \A s \in Ships : ship[s].serves # None => req[ship[s].serves].phase # "returned"
    BY DEF StoreInv, Served
  <1>2. \A r \in Requests : req[r].phase = "arrived" => ship[req[r].via].conn # "closed"
    BY DEF StoreInv, StoreKept, TourHasShip
  <1>3. ASSUME NEW r \in Requests,
               Body(r) \/ ClientReads(r) \/ ReturnTour(r) \/ Arrive(r) \/ TooLong(r) \/ Disconnect(r)
        PROVE  FALSE
    <2>1. CASE Body(r) \/ TooLong(r)
      BY <1>2, <2>1 DEF Body, TooLong, Runs, Fault, Alive
    <2>2. CASE ClientReads(r) \/ ReturnTour(r) \/ Arrive(r) \/ Disconnect(r)
      BY <2>2 DEF ClientReads, ReturnTour, Arrive, Disconnect, Runs, Fault, Alive, Dies
    <2> QED BY <1>3, <2>1, <2>2
  <1>4. ASSUME NEW s \in Ships,
               \/ Connected(s) \/ Write(s) \/ UpAnswers(s) \/ Read(s) \/ TimesOut(s) \/ Closed(s)
               \/ ConnectFails(s) \/ UpCloses(s) \/ UpStray(s)
        PROVE  FALSE
    <2>1. CASE Connected(s) \/ Read(s) \/ Closed(s)
      BY <1>1, <2>1 DEF Connected, Read, Closed, Runs, Alive, Dies
    <2>2. CASE Write(s) \/ UpAnswers(s) \/ TimesOut(s) \/ ConnectFails(s) \/ UpCloses(s) \/ UpStray(s)
      BY <2>2 DEF Write, UpAnswers, TimesOut, ConnectFails, UpCloses, UpStray, Runs, Fault, Alive, Dies
    <2> QED BY <1>4, <2>1, <2>2
  <1> QED BY <1>3, <1>4 DEF Next, Internal, External

(* A step that ends the agent does it for one of the reasons               *)
(* DeathsExplained names: a stray answer, a connection whose protocol      *)
(* state is consumed, a read resumed on a closed connection.               *)
LEMMA DeathsStep == ASSUME EndInv, DeathsExplained, [Next]_vars PROVE DeathsExplained'
  <1>1. CASE agent' = "up"
    BY <1>1 DEF DeathsExplained
  <1>2. CASE UNCHANGED vars
    <2>1. \A s \in Ships : ToSet(ship'[s].units) = ToSet(ship[s].units)
      BY <1>2 DEF vars
    <2> QED BY <1>2, <2>1 DEF vars, faultVars, DeathsExplained
  <1>3. TypeOK /\ StoreInv /\ Endings /\ Conversation /\ BodyUnits
    BY DEF EndInv, StoreInv, StoreKept
  <1>4. ASSUME NEW r \in Requests, ClientReads(r) \/ Disconnect(r), Dies("resume")
        PROVE  DeathsExplained'
    <2>1. StaleResume(r) /\ agent = "up"
      BY <1>4 DEF ClientReads, Disconnect, Runs, Fault, Alive, Dies
    <2>2. req[r].full /\ ship[req[r].via].conn = "closed"
      BY <2>1 DEF StaleResume, Resumes
    <2>3. req[r].phase \in {"arrived", "ended"}
      BY <1>3, <2>2 DEF Endings, Sound
    <2>4. req[r].phase = "ended"
      BY <1>3, <2>2, <2>3, ItsShip
    <2> QED BY <1>4, <2>2, <2>4 DEF Dies, DeathsExplained
  <1>5. ASSUME NEW s \in Ships, NEW u \in ToSet(ship[s].units), u.kind = "body",
               req[u.of].phase = "returned", Dies("consumed")
        PROVE  DeathsExplained'
    <2>1. u \in Unit
      BY <1>3 DEF TypeOK, ShipType, ToSet
    <2>2. u = [kind |-> "body", of |-> u.of] /\ u.of \in Requests
      BY <1>5, <2>1 DEF Unit
    <2>3. req[u.of].via = s
      BY <1>3, <2>2 DEF BodyUnits, Pending
    <2>4. [kind |-> "body", of |-> u.of] \in ToSet(ship'[s].units) /\ req' = req /\ agent' = "consumed"
      BY <1>5, <2>2 DEF Dies
    <2> QED BY <1>5, <2>2, <2>3, <2>4 DEF DeathsExplained
  <1>6. ASSUME NEW s \in Ships, Write(s), Dies("consumed")
        PROVE  DeathsExplained'
    <2>1. PICK u : u = Head(ship[s].units)
      OBVIOUS
    <2>2. /\ ship[s].units # <<>> /\ agent = "up"
          /\ u.kind = "body" /\ req[u.of].phase = "returned"
      BY <1>6, <2>1 DEF Write, Runs, Alive, Dies
    <2>3. ship[s].units \in Seq(Unit)
      BY <1>3 DEF TypeOK, ShipType
    <2>4. u \in ToSet(ship[s].units)
      BY <2>1, <2>2, <2>3, TailAt DEF ToSet
    <2> QED BY <1>5, <1>6, <2>2, <2>4
  <1>7. ASSUME NEW s \in Ships, Closed(s), Dies("consumed")
        PROVE  DeathsExplained'
    <2>1. Stale(s)
      BY <1>7 DEF Closed, Runs, Alive, Dies
    <2>2. PICK i \in DOMAIN ship[s].units :
            ship[s].units[i].kind = "body" /\ req[ship[s].units[i].of].phase = "returned"
      BY <2>1 DEF Stale
    <2>3. ship[s].units[i] \in ToSet(ship[s].units)
      BY <2>2 DEF ToSet
    <2> QED BY <1>5, <1>7, <2>2, <2>3
  <1>8. ASSUME NEW s \in Ships, Read(s), Dies("stray")
        PROVE  DeathsExplained'
    <2>1. /\ ship[s].serves = None /\ Head(ship[s].inbox).kind # "eof"
          /\ ship[s].inbox # <<>> /\ Open(ship[s]) /\ strayed' = strayed
      BY <1>8 DEF Read, Runs, Alive, Dies, Open
    <2>2. ship[s].inbox \in Seq(Item)
      BY <1>3 DEF TypeOK, ShipType
    <2>3. 1 \in DOMAIN ship[s].inbox /\ Head(ship[s].inbox) = ship[s].inbox[1]
      BY <2>1, <2>2, TailAt
    <2>4. ~Talk(ship[s])
      BY <2>1, <2>3 DEF Talk
    <2>5. strayed
      BY <1>3, <2>1, <2>4 DEF Conversation
    <2> QED BY <1>8, <2>1, <2>5 DEF Dies, DeathsExplained
  <1>9. CASE Next
    <2>1. agent' # "id"
      BY <1>3, <1>9, NeverById
    <2>2. ASSUME NEW r \in Requests,
                 Body(r) \/ ClientReads(r) \/ ReturnTour(r) \/ Arrive(r) \/ TooLong(r) \/ Disconnect(r)
          PROVE  DeathsExplained'
      <3>1. CASE Body(r) \/ ReturnTour(r) \/ Arrive(r) \/ TooLong(r)
        <4>1. agent' = "up" \/ agent' = "id"
          BY <3>1 DEF Body, ReturnTour, Arrive, TooLong, Runs, Fault, Alive, Dies
        <4> QED BY <1>1, <2>1, <4>1
      <3>2. CASE ClientReads(r) \/ Disconnect(r)
        <4>1. agent' = "up" \/ Dies("resume")
          BY <3>2 DEF ClientReads, Disconnect, Runs, Fault, Alive
        <4> QED BY <1>1, <1>4, <3>2, <4>1
      <3> QED BY <2>2, <3>1, <3>2
    <2>3. ASSUME NEW s \in Ships,
                 \/ Connected(s) \/ Write(s) \/ UpAnswers(s) \/ Read(s) \/ TimesOut(s) \/ Closed(s)
                 \/ ConnectFails(s) \/ UpCloses(s) \/ UpStray(s)
          PROVE  DeathsExplained'
      <3>1. CASE Connected(s) \/ UpAnswers(s) \/ TimesOut(s) \/ ConnectFails(s) \/ UpCloses(s) \/ UpStray(s)
        <4>1. agent' = "up" \/ agent' = "id"
          BY <3>1 DEF Connected, UpAnswers, TimesOut, ConnectFails, UpCloses, UpStray, Runs, Fault, Alive, Dies
        <4> QED BY <1>1, <2>1, <4>1
      <3>2. CASE Write(s)
        <4>1. agent' = "up" \/ Dies("consumed")
          BY <3>2 DEF Write, Runs, Alive
        <4> QED BY <1>1, <1>6, <3>2, <4>1
      <3>3. CASE Read(s)
        <4>1. agent' = "up" \/ agent' = "id" \/ Dies("stray")
          BY <3>3 DEF Read, Runs, Alive, Dies
        <4> QED BY <1>1, <1>8, <2>1, <3>3, <4>1
      <3>4. CASE Closed(s)
        <4>1. agent' = "up" \/ agent' = "id" \/ Dies("consumed")
          BY <3>4 DEF Closed, Runs, Alive, Dies
        <4> QED BY <1>1, <1>7, <2>1, <3>4, <4>1
      <3> QED BY <2>3, <3>1, <3>2, <3>3, <3>4
    <2> QED BY <1>9, <2>2, <2>3 DEF Next, Internal, External
  <1> QED BY <1>2, <1>9

(* The agent ends only for the reasons that are named: no order of         *)
(* answers, timeouts, disconnects and closes makes a handler raise in any  *)
(* other way, and the checks of a stale ship or tour id always pass        *)
(* (DeathsExplained).                                                      *)
THEOREM DeathsStayExplained == Spec => []DeathsExplained
  <1>1. Init => DeathsExplained
    BY DEF Init, DeathsExplained
  <1> QED BY <1>1, EndInit, EndStep, DeathsStep, PTL DEF Spec

-----------------------------------------------------------------------------
(* Nobody waits for what nobody will do.                                   *)

(* The end of the content of r.                                            *)
BodyOf(r) == [kind |-> "body", of |-> r]

(* A connection that is being made is not kept; one whose backend is gone  *)
(* has that still to read; a kept one reads, and expects a header.         *)
Ready(x) ==
  /\ x.conn = "connecting" => ~x.keeping /\ ~x.gone
  /\ x.conn = "up" /\ x.gone => x.inbox # <<>> /\ Last(x.inbox).kind = "eof"
  /\ x.conn = "up" /\ x.keeping => "read" \in x.armed /\ x.state = "header"

(* Of a reused connection, the header of the request it serves: it waits   *)
(* to be written, and only its body behind it; its backend owes or has     *)
(* said an answer, and waits for no other header; the backend has taken it *)
(* for a part of the body it waits for.                                    *)
HeaderWaits(x) ==
  \E i \in DOMAIN x.units :
    /\ IsHeader(x.units[i]) /\ x.units[i].of = x.serves /\ x.heard # x.serves
    /\ \A j \in DOMAIN x.units :
         /\ j < i => x.units[j].of # x.serves
         /\ i < j => x.units[j] = BodyOf(x.serves)
AnswerComes(x) ==
  /\ x.owes \/ x.inbox # <<>>
  /\ \A i \in DOMAIN x.units : ~IsHeader(x.units[i])
HeaderTaken(x) ==
  /\ ~x.whole /\ x.heard # x.serves
  /\ \A i \in DOMAIN x.units : x.units[i] = BodyOf(x.serves)

(* What a request on a reused connection waits for is one of these.        *)
Attended(x) ==
  x.conn = "up" /\ x.keeping /\ x.serves # None =>
    /\ x.units # <<>> => "write" \in x.armed
    /\ HeaderWaits(x) \/ AnswerComes(x) \/ HeaderTaken(x)

(* The requests that connection and backend know of.                       *)
Named(x) == {x.heard} \cup {x.units[i].of : i \in DOMAIN x.units}

(* Every connection is in order in this way, and names no request that has *)
(* not come yet.                                                           *)
Waiting == \A s \in Ships : Ready(ship[s]) /\ Attended(ship[s])
NoneNew == \A s \in Ships : \A r \in Requests : r \in Named(ship[s]) => req[r].phase # "new"

(* The inductive invariant behind NothingLeftUndone.                       *)
WaitInv == StoreInv /\ Waiting /\ NoneNew

(* When no step is left, a request without an end has lost its header.     *)
LEMMA QuietIsSwallowed == ASSUME WaitInv PROVE NothingLeftUndone
  <1> SUFFICES ASSUME Quiet, NEW r \in Requests, req[r].phase = "arrived"
               PROVE  Swallowed(req[r].via)
    BY DEF NothingLeftUndone
  <1>1. PICK s \in Ships : s = req[r].via /\ ship[s].serves = r /\ r # None
                           /\ ship[s].conn \in {"connecting", "up", "closing"}
    BY ItsShip, NoneIsNoShip DEF WaitInv
  <1>2. ship[s].conn = "up" /\ ship[s].keeping /\ ~(ship[s].owes /\ ~ship[s].gone)
        /\ ("write" \in ship[s].armed => ship[s].units = <<>>)
        /\ ("read" \in ship[s].armed => ship[s].inbox = <<>>)
    BY <1>1 DEF Quiet, ShipCan
  <1>3. Ready(ship[s]) /\ Attended(ship[s])
    BY DEF WaitInv, Waiting
  <1>4. ship[s].inbox = <<>> /\ ~ship[s].gone /\ ~ship[s].owes
    BY <1>2, <1>3 DEF Ready
  <1>5. ship[s].units = <<>>
    BY <1>1, <1>2, <1>3 DEF Attended
  <1>6. DOMAIN ship[s].units = {}
    BY <1>5
  <1>7. ~HeaderWaits(ship[s]) /\ ~AnswerComes(ship[s])
    BY <1>4, <1>6 DEF HeaderWaits, AnswerComes
  <1>8. ~ship[s].whole
    BY <1>1, <1>2, <1>3, <1>7 DEF Attended, HeaderTaken
  <1> QED BY <1>1, <1>2, <1>8 DEF Swallowed

(* What is neither being made nor up waits for nothing.                    *)
LEMMA ShutWaits ==
  ASSUME NEW x, x.conn \notin {"connecting", "up"}
  PROVE  Ready(x) /\ Attended(x)
  BY DEF Ready, Attended

(* What only reads more, or less when it is not kept, waits as before.     *)
LEMMA SameWaits ==
  ASSUME NEW x, NEW y, Ready(x), Attended(x), SameTalk(x, y),
         y.conn = x.conn, y.keeping = x.keeping, y.state = x.state, y.gone = x.gone,
         y.whole = x.whole, x.keeping => x.armed \subseteq y.armed
  PROVE  Ready(y) /\ Attended(y)
  <1>1. Ready(y)
    BY DEF Ready, SameTalk
  <1>2. /\ HeaderWaits(x) => HeaderWaits(y)
        /\ AnswerComes(x) => AnswerComes(y)
        /\ HeaderTaken(x) => HeaderTaken(y)
    BY DEF HeaderWaits, AnswerComes, HeaderTaken, SameTalk
  <1>3. Attended(y)
    BY <1>2 DEF Attended, SameTalk
  <1> QED BY <1>1, <1>3

(* A request is posted on a new or a kept connection.                      *)
LEMMA StartWaits ==
  ASSUME NEW x \in ShipType, NEW y, Ready(x), x.serves = None,
         NEW u \in Unit, IsHeader(u), u.of = y.serves, u.of \notin Named(x),
         y.units = Append(x.units, u), y.inbox = x.inbox, y.heard = x.heard,
         y.keeping = x.keeping, y.gone = x.gone, y.state = x.state,
         \/ x = NewShip /\ y.conn = "connecting"
         \/ x.conn = "up" /\ y.conn = "up" /\ y.armed = x.armed \cup {"write"}
  PROVE  Ready(y) /\ Attended(y)
  <1>1. Ready(y)
    BY DEF Ready, NewShip
  <1>2. x.units \in Seq(Unit)
    BY DEF ShipType
  <1>3. /\ Len(x.units) \in Nat /\ DOMAIN y.units = 1 .. Len(x.units) + 1
        /\ \A i \in 1 .. Len(x.units) : y.units[i] = x.units[i] /\ i \in DOMAIN x.units
        /\ y.units[Len(x.units) + 1] = u
    BY <1>2, AppendAt
  <1>4. \A i \in 1 .. Len(x.units) : x.units[i].of # u.of
    BY <1>3 DEF Named
  <1>5. HeaderWaits(y)
    <2>1. PICK n \in Nat : n = Len(x.units)
      BY <1>3
    <2>2. n + 1 \in DOMAIN y.units /\ y.units[n + 1] = u /\ y.heard # y.serves
      BY <1>3, <2>1 DEF Named
    <2>3. \A j \in DOMAIN y.units : j < n + 1 => y.units[j].of # y.serves
      BY <1>3, <1>4, <2>1
    <2>4. \A j \in DOMAIN y.units : ~(n + 1 < j)
      BY <1>3, <2>1
    <2> QED BY <2>2, <2>3, <2>4 DEF HeaderWaits
  <1>6. Attended(y)
    BY <1>5 DEF Attended
  <1> QED BY <1>1, <1>6

(* The body of the request that is served is posted behind its header.     *)
LEMMA BodyWaits ==
  ASSUME NEW x \in ShipType, NEW y, Ready(x), Attended(x),
         y.serves = x.serves, y.units = Append(x.units, BodyOf(x.serves)), BodyOf(x.serves) \in Unit,
         y.inbox = x.inbox, y.heard = x.heard, y.owes = x.owes, y.whole = x.whole,
         y.conn = x.conn, y.keeping = x.keeping, y.gone = x.gone, y.state = x.state,
         x.armed \subseteq y.armed, x.conn = "up" => "write" \in y.armed
  PROVE  Ready(y) /\ Attended(y)
  <1>1. Ready(y)
    BY DEF Ready
  <1>2. x.units \in Seq(Unit)
    BY DEF ShipType
  <1>3. PICK b \in Unit : b = BodyOf(x.serves)
    OBVIOUS
  <1>4. ~IsHeader(b)
    BY <1>3 DEF BodyOf, IsHeader
  <1>5. PICK n \in Nat : n = Len(x.units)
    BY <1>2, AppendAt, <1>3
  <1>6. /\ DOMAIN x.units = 1 .. n /\ DOMAIN y.units = 1 .. n + 1
        /\ \A i \in 1 .. n : y.units[i] = x.units[i]
        /\ y.units[n + 1] = b
        /\ \A i \in 1 .. n + 1 : i \in 1 .. n \/ i = n + 1
    BY <1>2, <1>3, <1>5, AppendAt
  <1>7. HeaderWaits(x) => HeaderWaits(y)
    <2> SUFFICES ASSUME HeaderWaits(x) PROVE HeaderWaits(y)
      OBVIOUS
    <2>1. PICK i \in 1 .. n :
             /\ IsHeader(x.units[i]) /\ x.units[i].of = x.serves /\ x.heard # x.serves
             /\ \A j \in 1 .. n : /\ j < i => x.units[j].of # x.serves
                                  /\ i < j => x.units[j] = BodyOf(x.serves)
      BY <1>6 DEF HeaderWaits
    <2>2. i \in DOMAIN y.units /\ y.units[i] = x.units[i] /\ ~(n + 1 < i)
      BY <1>6
    <2>3. \A j \in DOMAIN y.units : /\ j < i => y.units[j].of # y.serves
                                    /\ i < j => y.units[j] = BodyOf(y.serves)
      BY <1>3, <1>6, <2>1, <2>2
    <2> QED BY <2>1, <2>2, <2>3 DEF HeaderWaits
  <1>8. AnswerComes(x) => AnswerComes(y)
    BY <1>4, <1>6 DEF AnswerComes
  <1>9. HeaderTaken(x) => HeaderTaken(y)
    BY <1>3, <1>6 DEF HeaderTaken
  <1>10. Attended(y)
    BY <1>7, <1>8, <1>9 DEF Attended
  <1> QED BY <1>1, <1>10

(* One unit is written: the header comes to the front, is heard or taken   *)
(* for a part of a body, and the body behind it is not what the backend    *)
(* waits for.                                                              *)
LEMMA TakeWaits ==
  ASSUME NEW x \in ShipType, NEW y, Ready(x), Attended(x), x.conn = "up", x.units # <<>>,
         NEW t, t = Take(x, Head(x.units)),
         y.conn = x.conn, y.serves = x.serves, y.units = Tail(x.units), y.inbox = x.inbox,
         y.keeping = x.keeping, y.gone = x.gone, y.state = x.state,
         y.heard = t.heard, y.whole = t.whole, y.owes = t.owes,
         "read" \in x.armed => "read" \in y.armed,
         y.units # <<>> => "write" \in y.armed \/ "write" \notin x.armed
  PROVE  Ready(y) /\ Attended(y)
  <1> DEFINE u == Head(x.units)
  <1>1. Ready(y)
    BY DEF Ready
  <1>2. x.units \in Seq(Unit)
    BY DEF ShipType
  <1>3. /\ 1 \in DOMAIN x.units /\ u = x.units[1] /\ u \in Unit
        /\ \A i \in DOMAIN y.units : /\ i \in Nat /\ i + 1 \in DOMAIN x.units
                                     /\ y.units[i] = x.units[i + 1] /\ 1 < i + 1
        /\ \A i \in DOMAIN x.units : i \in Nat /\ (1 < i => i - 1 \in DOMAIN y.units)
    <2>1. DOMAIN Tail(x.units) = 1 .. Len(x.units) - 1
      BY <1>2, TailAt
    <2>2. u \in Unit
      BY <1>2, HeadTailProperties
    <2> QED BY <1>2, <2>1, <2>2, TailAt
  <1>4. /\ IsHeader(u) /\ x.whole => t.heard = u.of /\ t.owes
        /\ IsHeader(u) /\ ~x.whole => t = x
        /\ ~IsHeader(u) => t.heard = x.heard /\ t.owes = x.owes
        /\ ~IsHeader(u) /\ x.heard # u.of => t = x
    BY <1>3 DEF Take, IsHeader, ShipType
  <1> HIDE DEF u
  <1> SUFFICES ASSUME x.keeping, x.serves # None
               PROVE  HeaderWaits(y) \/ AnswerComes(y) \/ HeaderTaken(y)
    <2>1. y.conn = "up" /\ y.keeping /\ y.serves # None => "write" \in x.armed
      BY DEF Attended
    <2> QED BY <1>1, <2>1 DEF Attended
  <1>5. HeaderWaits(x) \/ AnswerComes(x) \/ HeaderTaken(x)
    BY DEF Attended
  <1>6. CASE HeaderWaits(x)
    <2>1. PICK i \in DOMAIN x.units :
             /\ IsHeader(x.units[i]) /\ x.units[i].of = x.serves /\ x.heard # x.serves
             /\ \A j \in DOMAIN x.units : /\ j < i => x.units[j].of # x.serves
                                          /\ i < j => x.units[j] = BodyOf(x.serves)
      BY <1>6 DEF HeaderWaits
    <2>2. CASE 1 < i
      <3>1. i - 1 \in DOMAIN y.units /\ y.units[i - 1] = x.units[i] /\ i \in Nat
        BY <1>3, <2>2
      <3>2. u.of # x.serves
        BY <1>3, <2>1, <2>2
      <3>3. t.heard # x.serves
        BY <1>4, <2>1, <3>2
      <3>4. \A j \in DOMAIN y.units : /\ j < i - 1 => y.units[j].of # y.serves
                                      /\ i - 1 < j => y.units[j] = BodyOf(y.serves)
        <4> SUFFICES ASSUME NEW j \in DOMAIN y.units
                     PROVE  /\ j < i - 1 => y.units[j].of # y.serves
                            /\ i - 1 < j => y.units[j] = BodyOf(y.serves)
          OBVIOUS
        <4>1. j \in Nat /\ j + 1 \in DOMAIN x.units /\ y.units[j] = x.units[j + 1]
          BY <1>3
        <4>2. (j < i - 1 => j + 1 < i) /\ (i - 1 < j => i < j + 1)
          BY <3>1, <4>1
        <4> QED BY <2>1, <4>1, <4>2
      <3> QED BY <2>1, <3>1, <3>3, <3>4 DEF HeaderWaits
    <2>3. CASE ~(1 < i)
      <3>1. i = 1 /\ x.units[i] = u
        <4>1. i \in 1 .. Len(x.units)
          BY <1>2, LenProperties
        <4> QED BY <1>3, <2>3, <4>1
      <3>2. \A j \in DOMAIN y.units : y.units[j] = BodyOf(x.serves)
        BY <1>3, <2>1, <3>1
      <3>3. CASE x.whole
        BY <1>4, <2>1, <3>1, <3>2, <3>3 DEF AnswerComes, IsHeader, BodyOf
      <3>4. CASE ~x.whole
        BY <1>4, <2>1, <3>1, <3>2, <3>4 DEF HeaderTaken
      <3> QED BY <3>3, <3>4
    <2> QED BY <2>2, <2>3
  <1>7. CASE AnswerComes(x)
    BY <1>3, <1>4, <1>7 DEF AnswerComes
  <1>8. CASE HeaderTaken(x)
    <2>1. u = BodyOf(x.serves) /\ \A i \in DOMAIN y.units : y.units[i] = BodyOf(x.serves)
      BY <1>3, <1>8 DEF HeaderTaken
    <2>2. t = x
      BY <1>4, <1>8, <2>1 DEF HeaderTaken, IsHeader, BodyOf
    <2> QED BY <1>8, <2>1, <2>2 DEF HeaderTaken
  <1> QED BY <1>5, <1>6, <1>7, <1>8

(* What the backend says is not nothing, and ends as it says.              *)
LEMMA SaysEnds ==
  ASSUME TypeOK, NEW s \in Ships, NEW r \in Requests \cup {None},
         NEW kinds \in Seq(Kinds), kinds # <<>>
  PROVE  Says(s, kinds, r) # <<>> /\ Last(Says(s, kinds, r)).kind = Last(kinds)
  <1> DEFINE said == [i \in DOMAIN kinds |-> [kind |-> kinds[i], to |-> r]]
             old == ship[s].inbox
  <1>1. Len(kinds) \in Nat /\ DOMAIN kinds = 1 .. Len(kinds) /\ Len(kinds) > 0
        /\ \A i \in DOMAIN kinds : kinds[i] \in Kinds
    BY LenProperties, ElementOfSeq, EmptySeq
  <1>2. said \in [1 .. Len(kinds) -> Item]
    BY <1>1 DEF Item, Kinds
  <1>3. said \in Seq(Item) /\ DOMAIN said = 1 .. Len(kinds)
    BY <1>1, <1>2, SeqDef
  <1>4. old \in Seq(Item)
    BY DEF TypeOK, ShipType
  <1>5. Len(kinds) \in DOMAIN said /\ said[Len(kinds)].kind = kinds[Len(kinds)]
    BY <1>1
  <1>6. Len(said) = Len(kinds)
    BY <1>1, <1>3, LenProperties, SMTT(20)
  <1> HIDE DEF said, old
  <1>7. PICK n \in Nat, m \in Nat : n = Len(old) /\ m = Len(said) /\ m > 0
    BY <1>1, <1>3, <1>4, <1>6, LenProperties
  <1>8. DOMAIN (old \o said) = 1 .. n + m /\ (old \o said)[n + m] = said[m]
        /\ old \o said \in Seq(Item) /\ Len(old \o said) = n + m
    <2>1. n + m \in n + 1 .. n + m /\ n + m - n = m
      BY <1>7
    <2> QED BY <1>3, <1>4, <1>7, <2>1, ConcatAt, ConcatProperties
  <1>9. Says(s, kinds, r) = old \o said
    BY DEF Says, old, said
  <1>10. old \o said # <<>>
    BY <1>7, <1>8, EmptySeq
  <1> QED BY <1>5, <1>6, <1>7, <1>8, <1>9, <1>10 DEF Last

(* The backend says something: who waits for it has it coming.             *)
LEMMA SaysWaits ==
  ASSUME TypeOK, NEW s \in Ships, NEW r \in Requests \cup {None},
         NEW kinds \in Seq(Kinds), kinds # <<>>,
         NEW x, x = ship[s], Ready(x), Attended(x), x.conn = "up", ~x.gone,
         NEW y, y.inbox = Says(s, kinds, r),
         y.conn = x.conn, y.keeping = x.keeping, y.state = x.state, y.armed = x.armed,
         y.serves = x.serves, y.units = x.units, y.heard = x.heard, y.whole = x.whole,
         y.gone => Last(kinds) = "eof"
  PROVE  Ready(y) /\ Attended(y)
  <1>1. y.inbox # <<>> /\ Last(y.inbox).kind = Last(kinds)
    BY SaysEnds
  <1>2. Ready(y)
    BY <1>1 DEF Ready
  <1>3. /\ HeaderWaits(x) => HeaderWaits(y)
        /\ AnswerComes(x) => AnswerComes(y)
        /\ HeaderTaken(x) => HeaderTaken(y)
    BY <1>1 DEF HeaderWaits, AnswerComes, HeaderTaken
  <1>4. Attended(y)
    BY <1>3 DEF Attended
  <1> QED BY <1>2, <1>4

(* What is left of what a backend that is gone has said ends as it did.    *)
LEMMA TailEnds ==
  ASSUME NEW q \in Seq(Item), q # <<>>, Last(q).kind = "eof", Head(q).kind # "eof"
  PROVE  Tail(q) # <<>> /\ Last(Tail(q)).kind = "eof"
  <1>1. PICK n \in Nat : n = Len(q) /\ 1 <= n
    BY LenProperties, EmptySeq, TailAt
  <1>2. Head(q) = q[1] /\ Last(q) = q[n] /\ n # 1
    BY <1>1, TailAt DEF Last
  <1>3. Tail(q) \in Seq(Item) /\ Len(Tail(q)) = n - 1 /\ n - 1 \in DOMAIN Tail(q)
    BY <1>1, <1>2, HeadTailProperties, TailAt, LenProperties
  <1>4. Tail(q)[n - 1] = q[n]
    BY <1>1, <1>3, TailAt
  <1>5. Len(Tail(q)) # 0
    BY <1>1, <1>2, <1>3
  <1>6. Tail(q) # <<>>
    BY <1>5, EmptySeq
  <1> QED BY <1>2, <1>3, <1>4, <1>6 DEF Last

(* Reading the last of an answer keeps the connection, and reading another *)
(* part of one leaves it as it is, when it is not kept already.            *)
LEMMA ReadWaits ==
  ASSUME NEW x \in ShipType, NEW y, Ready(x), x.conn \in {"up", "closing"},
         x.inbox # <<>>, Head(x.inbox).kind # "eof", y.inbox = Tail(x.inbox),
         y.conn = x.conn, y.gone = x.gone,
         \/ ~y.keeping
         \/ y.serves = None /\ y.state = "header" /\ "read" \in y.armed
  PROVE  Ready(y) /\ Attended(y)
  <1>1. x.inbox \in Seq(Item)
    BY DEF ShipType
  <1>2. y.conn = "up" /\ y.gone => y.inbox # <<>> /\ Last(y.inbox).kind = "eof"
    BY <1>1, TailEnds DEF Ready
  <1> QED BY <1>2 DEF Ready, Attended

(* A step of one connection keeps all of them in order when that one is.   *)
LEMMA OneWaits ==
  ASSUME WaitInv, [Next]_vars, NEW s, \A t \in Ships : t # s => ship'[t] = ship[t],
         s \in Ships => /\ Ready(ship'[s]) /\ Attended(ship'[s])
                       /\ \A r \in Requests : r \in Named(ship'[s]) =>
                            r \in Named(ship[s]) \/ req'[r].phase # "new"
  PROVE  Waiting' /\ NoneNew'
  <1>1. \A r \in Requests : req[r].phase # "new" => req'[r].phase # "new"
    BY ViaStays DEF WaitInv
  <1>2. Waiting'
    BY DEF Waiting, WaitInv
  <1>3. NoneNew'
    BY <1>1 DEF NoneNew, WaitInv
  <1> QED BY <1>2, <1>3

(* A connection that is shut names nobody it did not name.                 *)
LEMMA ShutNames ==
  ASSUME WaitInv, [Next]_vars, NEW s \in Ships, \A t \in Ships : t # s => ship'[t] = ship[t],
         ship'[s].conn \in {"closing", "closed"},
         \/ ship'[s].units = ship[s].units /\ ship'[s].heard = ship[s].heard
         \/ ship'[s] = [NewShip EXCEPT !.conn = "closed"]
  PROVE  Waiting' /\ NoneNew'
  <1>1. Ready(ship'[s]) /\ Attended(ship'[s])
    BY ShutWaits
  <1>2. \A r \in Requests : r \in Named(ship'[s]) => r \in Named(ship[s])
    <2>1. CASE ship'[s].units = ship[s].units /\ ship'[s].heard = ship[s].heard
      BY <2>1 DEF Named
    <2>2. CASE ship'[s] = [NewShip EXCEPT !.conn = "closed"]
      <3>1. ship'[s].heard = None /\ DOMAIN ship'[s].units = {}
        BY <2>2 DEF NewShip
      <3> QED BY <3>1, NoneIsNoShip DEF Named
    <2> QED BY <2>1, <2>2
  <1> QED BY <1>1, <1>2, OneWaits

(* A request comes, on a connection which does not know it yet.            *)
LEMMA ArriveWaits ==
  ASSUME WaitInv, [Next]_vars, NEW r \in Requests, Arrive(r)
  PROVE  Waiting' /\ NoneNew'
  <1>1. TypeOK /\ keep \in Seq(Ships) /\ ship \in [Ships -> ShipType]
        /\ req \in [Requests -> RequestType] /\ StoreInv
    BY DEF WaitInv, StoreInv, StoreKept, TypeOK
  <1>2. ASSUME NEW s \in Ships, NEW rest, Start(r, s, rest), ship[s].serves = None,
               \/ ship[s].conn = "up"
               \/ ship[s] = NewShip
        PROVE  Waiting' /\ NoneNew'
    <2>1. PICK u : u = [kind |-> IF method[r] = "post" THEN "header" ELSE "whole", of |-> r]
      OBVIOUS
    <2>2. u \in Unit /\ IsHeader(u) /\ u.of = r
      BY <2>1 DEF Unit, IsHeader
    <2>3. PICK x \in ShipType : x = ship[s]
      BY <1>1
    <2>4. PICK y : y = ship'[s]
      OBVIOUS
    <2>5. x.conn = "up" \/ (x = NewShip /\ x.conn = "none")
      BY <1>2, <2>3 DEF NewShip
    <2>6. /\ y.serves = r /\ y.units = Append(x.units, u)
          /\ y.inbox = x.inbox /\ y.heard = x.heard
          /\ y.keeping = x.keeping /\ y.gone = x.gone /\ y.state = x.state
          /\ y.conn = IF x.conn = "none" THEN "connecting" ELSE x.conn
          /\ x.conn # "none" => y.armed = x.armed \cup {"write"}
          /\ \A t \in Ships : t # s => ship'[t] = ship[t]
      BY <1>1, <1>2, <2>1, <2>3, <2>4 DEF Start, ShipType
    <2>7. r \notin Named(x) /\ Ready(x)
      <3>1. req[r].phase = "new"
        BY DEF Arrive
      <3> QED BY <2>3, <3>1 DEF WaitInv, NoneNew, Waiting
    <2>8. Ready(y) /\ Attended(y)
      BY <1>2, <2>2, <2>3, <2>5, <2>6, <2>7, StartWaits
    <2>9. req'[r].phase # "new"
      BY <1>1, <1>2 DEF Start, RequestType
    <2>10. \A q \in Requests : q \in Named(y) => q \in Named(x) \/ req'[q].phase # "new"
      <3>1. x.units \in Seq(Unit)
        BY DEF ShipType
      <3>2. \A i \in DOMAIN y.units : (i \in DOMAIN x.units /\ y.units[i] = x.units[i]) \/ y.units[i] = u
        BY <2>2, <2>6, <3>1, AppendAt
      <3> QED BY <2>2, <2>6, <2>9, <3>2 DEF Named
    <2> QED BY <2>3, <2>4, <2>6, <2>8, <2>10, OneWaits
  <1>3. CASE UNCHANGED ship
    <2>1. PICK s : s \notin Ships
      BY NoneIsNoShip
    <2> QED BY <1>3, <2>1, OneWaits
  <1>4. ASSUME NEW i \in Usable, Start(r, keep[i], RemoveAt(keep, i))
        PROVE  Waiting' /\ NoneNew'
    <2>1. i \in DOMAIN keep /\ keep[i] \in Ships /\ keep[i] \in ToSet(keep) /\ ship[keep[i]].conn = "up"
      BY <1>1, ElementOfSeq, LenProperties DEF Usable, ToSet
    <2>2. ship[keep[i]].serves = None
      BY <1>1, <2>1 DEF StoreInv, StoreKept, StoreConsistent
    <2> QED BY <1>2, <1>4, <2>1, <2>2
  <1>5. ASSUME NEW s \in Ships, Unused(s), Start(r, s, keep)
        PROVE  Waiting' /\ NoneNew'
    <2>1. ship[s] = NewShip
      BY <1>1, <1>5 DEF Unused, StoreInv, Listings
    <2>2. ship[s].serves = None
      BY <2>1 DEF NewShip
    <2> QED BY <1>2, <1>5, <2>1, <2>2
  <1> QED BY <1>3, <1>4, <1>5 DEF Arrive

(* A connection is made or fails: the new one has not been kept.           *)
LEMMA ConnectWaits ==
  ASSUME WaitInv, [Next]_vars, NEW s \in Ships, (Connected(s) /\ ~Dies("id")) \/ ConnectFails(s)
  PROVE  Waiting' /\ NoneNew'
  <1>1. TypeOK /\ ship \in [Ships -> ShipType] /\ ship[s] \in ShipType
    BY DEF WaitInv, StoreInv, StoreKept, TypeOK
  <1>2. CASE Connected(s) /\ ~Dies("id")
    <2>1. ship[s].conn = "connecting"
          /\ ship' = [ship EXCEPT ![s] = [ship[s] EXCEPT !.conn = "up", !.armed = {"write"}]]
      BY <1>1, <1>2 DEF Connected
    <2>2. /\ ship'[s].conn = "up" /\ ship'[s].keeping = ship[s].keeping
          /\ ship'[s].gone = ship[s].gone
          /\ ship'[s].units = ship[s].units /\ ship'[s].heard = ship[s].heard
          /\ \A t \in Ships : t # s => ship'[t] = ship[t]
      BY <1>1, <2>1 DEF ShipType
    <2>3. ~ship[s].keeping /\ ~ship[s].gone
      BY <2>1 DEF WaitInv, Waiting, Ready
    <2>4. Ready(ship'[s]) /\ Attended(ship'[s])
      BY <2>2, <2>3 DEF Ready, Attended
    <2>5. Named(ship'[s]) = Named(ship[s])
      BY <2>2 DEF Named
    <2> QED BY <2>2, <2>4, <2>5, OneWaits
  <1>3. CASE ConnectFails(s)
    <2>1. ship' = [ship EXCEPT ![s] = Gone(s)]
      BY <1>3 DEF ConnectFails
    <2>2. /\ ship'[s].conn = "closing" /\ ship'[s].units = ship[s].units
          /\ ship'[s].heard = ship[s].heard
          /\ \A t \in Ships : t # s => ship'[t] = ship[t]
      BY <1>1, <2>1 DEF Gone, ShipType
    <2> QED BY <2>2, ShutNames
  <1> QED BY <1>2, <1>3

(* The body of a request comes.                                            *)
LEMMA PostWaits ==
  ASSUME WaitInv, [Next]_vars, NEW r \in Requests, Body(r), ~Dies("id")
  PROVE  Waiting' /\ NoneNew'
  <1>1. PICK s \in Ships : s = req[r].via /\ ship[s].conn \in {"connecting", "up", "closing"}
                           /\ ship[s].serves = r
    BY ItsShip DEF Body, WaitInv
  <1>2. ship \in [Ships -> ShipType] /\ ship[s] \in ShipType
    BY DEF WaitInv, StoreInv, StoreKept, TypeOK
  <1>3. BodyOf(r) \in Unit
    BY DEF BodyOf, Unit
  <1>4. PICK a : /\ ship' = [ship EXCEPT ![s].units = Append(@, BodyOf(r)), ![s].armed = a]
                 /\ a = IF ship[s].conn = "up" THEN ship[s].armed \cup {"write"} ELSE ship[s].armed
    BY <1>1, <1>2 DEF Body, BodyOf
  <1>5. PICK x \in ShipType, y \in {ship'[s]} : x = ship[s] /\ y = ship'[s]
    BY <1>2
  <1>6. /\ y.serves = x.serves /\ y.units = Append(x.units, BodyOf(r)) /\ y.inbox = x.inbox
        /\ y.heard = x.heard /\ y.owes = x.owes /\ y.whole = x.whole /\ y.conn = x.conn
        /\ y.keeping = x.keeping /\ y.gone = x.gone /\ y.state = x.state /\ y.armed = a
        /\ \A t \in Ships : t # s => ship'[t] = ship[t]
    BY <1>2, <1>4, <1>5 DEF ShipType
  <1>7. Ready(x) /\ Attended(x) /\ x.serves = r
    BY <1>1, <1>5 DEF WaitInv, Waiting
  <1>8. Ready(y) /\ Attended(y)
    <2>1. x.armed \subseteq y.armed /\ (x.conn = "up" => "write" \in y.armed)
      BY <1>4, <1>5, <1>6
    <2> QED BY <1>3, <1>6, <1>7, <2>1, BodyWaits
  <1>9. \A q \in Requests : q \in Named(y) => q \in Named(x) \/ q = r
    <2>1. x.units \in Seq(Unit) /\ BodyOf(r).of = r
      BY DEF ShipType, BodyOf
    <2>2. \A i \in DOMAIN y.units :
            (i \in DOMAIN x.units /\ y.units[i] = x.units[i]) \/ y.units[i] = BodyOf(r)
      BY <1>3, <1>6, <2>1, AppendAt
    <2> QED BY <1>6, <2>1, <2>2 DEF Named
  <1>10. req'[r].phase # "new"
    <2>1. req[r].phase = "arrived"
      BY DEF Body
    <2> QED BY <2>1, ViaStays DEF WaitInv
  <1> QED BY <1>5, <1>6, <1>8, <1>9, <1>10, OneWaits

(* What a client does shuts a connection or lets it read on.               *)
LEMMA ClientWaits ==
  ASSUME WaitInv, [Next]_vars, NEW r \in Requests,
         \/ TooLong(r) /\ ~Dies("id")
         \/ ClientReads(r) /\ ~Dies("resume")
         \/ ReturnTour(r)
         \/ Disconnect(r) /\ ~Dies("resume")
  PROVE  Waiting' /\ NoneNew'
  <1>1. TypeOK /\ ship \in [Ships -> ShipType] /\ StoreInv
    BY DEF WaitInv, StoreInv, StoreKept, TypeOK
  <1>2. PICK s : s = req[r].via
    OBVIOUS
  <1>3. \/ ship' = ship
        \/ ship' = [ship EXCEPT ![s] = ResumeRead(r, @)]
        \/ req[r].phase = "arrived" /\ ship' = [ship EXCEPT ![s] = Gone(s)]
    <2>1. CASE TooLong(r) /\ ~Dies("id")
      BY <1>2, <2>1 DEF TooLong
    <2>2. CASE ClientReads(r) /\ ~Dies("resume")
      BY <1>2, <2>2 DEF ClientReads
    <2>3. CASE ReturnTour(r)
      BY <2>3 DEF ReturnTour
    <2>4. CASE Disconnect(r) /\ ~Dies("resume")
      <3>1. ship' = IF s = None THEN ship
                    ELSE [ship EXCEPT ![s] =
                            IF req[r].phase = "arrived" /\ method[r] = "post"
                            THEN Gone(s) ELSE ResumeRead(r, @)]
        BY <1>2, <2>4 DEF Disconnect
      <3> QED BY <3>1
    <2> QED BY <2>1, <2>2, <2>3, <2>4
  <1>4. CASE ship' = ship
    <2>1. PICK t : t \notin Ships
      BY NoneIsNoShip
    <2> QED BY <1>4, <2>1, OneWaits
  <1>5. CASE ship' = [ship EXCEPT ![s] = ResumeRead(r, @)]
    <2>1. /\ \A t \in Ships : t # s => ship'[t] = ship[t]
          /\ s \in Ships => ship'[s] = ResumeRead(r, ship[s])
      BY <1>1, <1>5
    <2>2. ASSUME s \in Ships
          PROVE  Ready(ship'[s]) /\ Attended(ship'[s]) /\ Named(ship'[s]) = Named(ship[s])
      <3>1. PICK x \in ShipType, y \in {ship'[s]} : x = ship[s] /\ y = ship'[s]
        BY <1>1, <2>2
      <3>2. SameTalk(x, y)
        BY <2>1, <2>2, <3>1, ResumedTalks
      <3>3. /\ y.conn = x.conn /\ y.keeping = x.keeping /\ y.state = x.state /\ y.gone = x.gone
            /\ y.whole = x.whole /\ x.armed \subseteq y.armed
        BY <2>1, <2>2, <3>1 DEF ResumeRead, ShipType
      <3>4. Ready(x) /\ Attended(x)
        BY <2>2, <3>1 DEF WaitInv, Waiting
      <3>5. Ready(y) /\ Attended(y)
        BY <3>2, <3>3, <3>4, SameWaits
      <3>6. Named(y) = Named(x)
        BY <3>2 DEF SameTalk, Named
      <3> QED BY <3>1, <3>5, <3>6
    <2> QED BY <2>1, <2>2, OneWaits
  <1>6. CASE req[r].phase = "arrived" /\ ship' = [ship EXCEPT ![s] = Gone(s)]
    <2>1. s \in Ships
      BY <1>1, <1>2, <1>6, ItsShip
    <2>2. ship'[s] = Gone(s) /\ \A t \in Ships : t # s => ship'[t] = ship[t]
      BY <1>1, <1>6, <2>1
    <2>3. /\ ship'[s].conn = "closing" /\ ship'[s].units = ship[s].units
          /\ ship'[s].heard = ship[s].heard
      BY <1>1, <2>1, <2>2 DEF Gone, ShipType
    <2> QED BY <2>1, <2>2, <2>3, ShutNames
  <1> QED BY <1>3, <1>4, <1>5, <1>6

(* A unit is written.                                                      *)
LEMMA WriteWaits ==
  ASSUME WaitInv, [Next]_vars, NEW s \in Ships, Write(s), ~Dies("consumed")
  PROVE  Waiting' /\ NoneNew'
  <1>1. ship \in [Ships -> ShipType]
    BY DEF WaitInv, StoreInv, StoreKept, TypeOK
  <1>2. PICK x \in ShipType, y \in {ship'[s]} : x = ship[s] /\ y = ship'[s]
    BY <1>1
  <1>3. PICK u : u = Head(x.units)
    OBVIOUS
  <1>4. PICK t : t = Take(x, u)
    OBVIOUS
  <1>5. PICK ops : ops = IF u.kind # "header" THEN x.armed \cup {"read"} ELSE x.armed
    OBVIOUS
  <1>6. PICK left : left = IF Tail(x.units) = <<>> THEN ops \ {"write"} ELSE ops
    OBVIOUS
  <1>7. /\ x.conn = "up" /\ x.units # <<>> /\ "write" \in x.armed
        /\ ship' = [ship EXCEPT ![s] = [t EXCEPT !.units = Tail(x.units), !.armed = left]]
    BY <1>2, <1>3, <1>4, <1>5, <1>6 DEF Write
  <1>8. x.units \in Seq(Unit)
    BY DEF ShipType
  <1>9. u \in Unit
    BY <1>3, <1>7, <1>8, HeadTailProperties
  <1>10. t \in ShipType /\ t.conn = x.conn /\ t.serves = x.serves /\ t.state = x.state
         /\ t.inbox = x.inbox /\ t.keeping = x.keeping /\ t.gone = x.gone
    <2>1. t.keeping = x.keeping /\ t.gone = x.gone
      BY <1>4, <1>9 DEF Take, ShipType
    <2> QED BY <1>4, <1>9, <2>1, TakeOf
  <1>11. /\ y.conn = x.conn /\ y.serves = x.serves /\ y.units = Tail(x.units) /\ y.inbox = x.inbox
         /\ y.keeping = x.keeping /\ y.gone = x.gone /\ y.state = x.state
         /\ y.heard = t.heard /\ y.whole = t.whole /\ y.owes = t.owes /\ y.armed = left
         /\ \A q \in Ships : q # s => ship'[q] = ship[q]
    BY <1>1, <1>2, <1>7, <1>10 DEF ShipType
  <1>12. /\ "read" \in x.armed => "read" \in y.armed
         /\ y.units # <<>> => "write" \in y.armed
    BY <1>5, <1>6, <1>7, <1>11
  <1>13. Ready(x) /\ Attended(x)
    BY <1>2 DEF WaitInv, Waiting
  <1>14. Ready(y) /\ Attended(y)
    BY <1>3, <1>4, <1>7, <1>11, <1>12, <1>13, TakeWaits
  <1>15. \A r \in Requests : r \in Named(y) => r \in Named(x)
    <2>1. 1 \in DOMAIN x.units /\ u = x.units[1]
          /\ \A i \in DOMAIN y.units : i + 1 \in DOMAIN x.units /\ y.units[i] = x.units[i + 1]
      BY <1>3, <1>7, <1>8, <1>11, TailAt
    <2>2. t.heard \in {x.heard, u.of}
      BY <1>4, <1>9 DEF Take, ShipType
    <2> QED BY <1>11, <2>1, <2>2 DEF Named
  <1> QED BY <1>2, <1>11, <1>14, <1>15, OneWaits

(* The backend says something or closes.                                   *)
LEMMA UpWaits ==
  ASSUME WaitInv, [Next]_vars, NEW s \in Ships, UpAnswers(s) \/ UpCloses(s) \/ UpStray(s)
  PROVE  Waiting' /\ NoneNew'
  <1>1. TypeOK /\ ship \in [Ships -> ShipType]
    BY DEF WaitInv, StoreInv, StoreKept, TypeOK
  <1>2. PICK x \in ShipType, y \in {ship'[s]} : x = ship[s] /\ y = ship'[s]
    BY <1>1
  <1>3. x.conn = "up" /\ ~x.gone /\ x.heard \in Requests \cup {None}
    BY <1>2 DEF UpAnswers, UpCloses, UpStray, ShipType
  <1>4. PICK r \in Requests \cup {None}, kinds \in Seq(Kinds) :
          /\ kinds # <<>> /\ y.inbox = Says(s, kinds, r)
          /\ y.conn = x.conn /\ y.keeping = x.keeping /\ y.state = x.state /\ y.armed = x.armed
          /\ y.serves = x.serves /\ y.units = x.units /\ y.heard = x.heard /\ y.whole = x.whole
          /\ y.gone => Last(kinds) = "eof"
          /\ \A t \in Ships : t # s => ship'[t] = ship[t]
    <2>1. CASE UpAnswers(s)
      <3>1. PICK a \in Answers(x.heard) :
              ship' = [ship EXCEPT ![s].owes = FALSE, ![s].inbox = Says(s, a, x.heard),
                                   ![s].gone = Last(a) = "eof"]
        BY <1>2, <2>1 DEF UpAnswers
      <3>2. a \in Seq(Kinds) /\ a # <<>>
        <4>1. \/ a = <<"head">> \/ a = <<"empty">> \/ a = <<"head", "data", "last">>
              \/ a = <<"head", "over">> \/ a = <<"head", "data", "eof">>
          BY DEF Answers
        <4>2. 1 \in DOMAIN a
          BY <4>1
        <4>3. a \in Seq(Kinds)
          BY AnswersOf
        <4> QED BY <4>2, <4>3
      <3>3. PICK p : p = Last(a)
        OBVIOUS
      <3>4. PICK i : i = Says(s, a, x.heard)
        OBVIOUS
      <3>5. ship' = [ship EXCEPT ![s] = [x EXCEPT !.owes = FALSE, !.inbox = i, !.gone = (p = "eof")]]
        BY <1>1, <1>2, <3>1, <3>3, <3>4
      <3>6. /\ y.inbox = i /\ y.conn = x.conn /\ y.keeping = x.keeping /\ y.state = x.state
            /\ y.armed = x.armed /\ y.serves = x.serves /\ y.units = x.units
            /\ y.heard = x.heard /\ y.whole = x.whole /\ (y.gone => p = "eof")
            /\ \A t \in Ships : t # s => ship'[t] = ship[t]
        BY <1>1, <1>2, <3>5 DEF ShipType
      <3> QED BY <1>3, <3>2, <3>3, <3>4, <3>6
    <2>2. CASE UpCloses(s)
      <3>1. ship' = [ship EXCEPT ![s].inbox = Says(s, <<"eof">>, None), ![s].gone = TRUE]
        BY <2>2 DEF UpCloses
      <3>2. PICK i : i = Says(s, <<"eof">>, None)
        OBVIOUS
      <3>3. /\ y.inbox = i /\ y.conn = x.conn /\ y.keeping = x.keeping /\ y.state = x.state
            /\ y.armed = x.armed /\ y.serves = x.serves /\ y.units = x.units
            /\ y.heard = x.heard /\ y.whole = x.whole
            /\ \A t \in Ships : t # s => ship'[t] = ship[t]
        BY <1>1, <1>2, <3>1, <3>2 DEF ShipType
      <3>4. <<"eof">> # <<>> /\ Last(<<"eof">>) = "eof"
        BY DEF Last
      <3> QED BY <3>2, <3>3, <3>4, KindsOf
    <2>3. CASE UpStray(s)
      <3>1. ship' = [ship EXCEPT ![s].inbox = Says(s, <<"empty">>, None)]
        BY <2>3 DEF UpStray
      <3>2. PICK i : i = Says(s, <<"empty">>, None)
        OBVIOUS
      <3>3. /\ y.inbox = i /\ y.conn = x.conn /\ y.keeping = x.keeping /\ y.state = x.state
            /\ y.armed = x.armed /\ y.serves = x.serves /\ y.units = x.units
            /\ y.heard = x.heard /\ y.whole = x.whole /\ y.gone = x.gone
            /\ \A t \in Ships : t # s => ship'[t] = ship[t]
        BY <1>1, <1>2, <3>1, <3>2 DEF ShipType
      <3>4. <<"empty">> # <<>>
        OBVIOUS
      <3> QED BY <1>3, <3>2, <3>3, <3>4, KindsOf
    <2> QED BY <2>1, <2>2, <2>3
  <1>5. Ready(x) /\ Attended(x)
    BY <1>2 DEF WaitInv, Waiting
  <1>6. Ready(y) /\ Attended(y)
    BY <1>1, <1>2, <1>3, <1>4, <1>5, SaysWaits
  <1>7. Named(y) = Named(x)
    BY <1>4 DEF Named
  <1> QED BY <1>2, <1>4, <1>6, <1>7, OneWaits

(* A dropped connection is shut.                                           *)
LEMMA DropWaits ==
  ASSUME WaitInv, [Next]_vars, NEW s \in Ships, NEW sh \in ShipType,
         sh.units = ship[s].units, sh.heard = ship[s].heard,
         NEW r, NEW q, DropShip(s, sh, r, q)
  PROVE  Waiting' /\ NoneNew'
  <1>1. ship \in [Ships -> ShipType]
    BY DEF WaitInv, StoreInv, StoreKept, TypeOK
  <1>2. /\ ship'[s].conn = "closing" /\ ship'[s].units = ship[s].units
        /\ ship'[s].heard = ship[s].heard
        /\ \A t \in Ships : t # s => ship'[t] = ship[t]
    BY <1>1 DEF DropShip, ShipType
  <1> QED BY <1>2, ShutNames

(* One item is read: the end of an answer lets the connection be kept, its *)
(* header ends the keeping.                                                *)
LEMMA ReadStepWaits ==
  ASSUME WaitInv, [Next]_vars, NEW s \in Ships, Read(s), ~Dies("stray"), ~Dies("id")
  PROVE  Waiting' /\ NoneNew'
  <1>1. TypeOK /\ ship \in [Ships -> ShipType] /\ ship[s] \in ShipType
        /\ ship[s].serves \in Requests \cup {None}
    BY DEF WaitInv, StoreInv, StoreKept, TypeOK, ShipType
  <1>2. ship[s].inbox # <<>> /\ "read" \in ship[s].armed /\ ship[s].conn \in {"up", "closing"}
    BY DEF Read
  <1>3. PICK x \in ShipType : x = ship[s] /\ Ready(x)
    BY <1>1 DEF WaitInv, Waiting
  <1>4. PICK r : r = ship[s].serves
    OBVIOUS
  <1>5. PICK sh : sh = [ship[s] EXCEPT !.inbox = Tail(@)]
    OBVIOUS
  <1>6. PICK item : item = Head(ship[s].inbox)
    OBVIOUS
  <1>7. sh \in ShipType
    BY <1>1, <1>4, <1>5, ReadShapes
  <1>8. sh.units = ship[s].units /\ sh.heard = ship[s].heard /\ sh.conn = x.conn
        /\ sh.armed = x.armed /\ sh.gone = x.gone /\ sh.inbox = Tail(x.inbox)
        /\ sh.keeping = x.keeping /\ sh.state = x.state
    BY <1>1, <1>3, <1>5 DEF ShipType
  <1>9. CASE r = None
    <2>1. DropShip(s, sh, r, NewRequest)
      BY <1>1, <1>4, <1>5, <1>9, NoneIsNoShip, ReadShapes
    <2> QED BY <1>7, <1>8, <2>1, DropWaits
  <1>10. CASE r # None
    <2>1. r \in Requests
      BY <1>1, <1>4, <1>10
    <2>2. ReadCase(s, sh, r, item)
      BY <1>1, <1>4, <1>5, <1>6, <2>1, ReadCases
    <2>3. ASSUME NEW y, ship'[s] = y, \A t \in Ships : t # s => ship'[t] = ship[t],
                 item.kind # "eof", y.inbox = sh.inbox, y.conn = sh.conn, y.gone = sh.gone,
                 y.units = sh.units, y.heard = sh.heard,
                 \/ y.conn # "up" \/ ~y.keeping
                 \/ y.serves = None /\ y.state = "header" /\ "read" \in y.armed
          PROVE  Waiting' /\ NoneNew'
      <3>1. Ready(y) /\ Attended(y)
        <4>1. CASE y.conn # "up"
          BY <1>2, <1>3, <1>8, <2>3, <4>1, ShutWaits
        <4>2. CASE y.conn = "up"
          BY <1>2, <1>3, <1>6, <1>8, <2>3, <4>2, ReadWaits
        <4> QED BY <4>1, <4>2
      <3>2. Named(y) = Named(ship[s])
        BY <1>8, <2>3 DEF Named
      <3> QED BY <2>3, <3>1, <3>2, OneWaits
    <2>4. ASSUME NEW q, KeepShip(s, sh, r, q), item.kind # "eof"
          PROVE  Waiting' /\ NoneNew'
      <3>1. PICK y : y = Kept(sh)
        OBVIOUS
      <3>2. /\ y.inbox = sh.inbox /\ y.conn = sh.conn /\ y.gone = sh.gone
            /\ y.units = sh.units /\ y.heard = sh.heard
            /\ y.serves = None /\ y.state = "header" /\ y.armed = sh.armed
        BY <1>7, <3>1 DEF Kept, ShipType
      <3>3. ship'[s] = y /\ \A t \in Ships : t # s => ship'[t] = ship[t]
        BY <1>1, <2>4, <3>1 DEF KeepShip
      <3>4. "read" \in y.armed
        BY <1>2, <1>3, <1>8, <3>2
      <3> QED BY <2>3, <2>4, <3>2, <3>3, <3>4
    <2>5. CASE item.kind # "eof" /\ GoesOn(s, Answering(sh), r, Headed(r, item))
      <3>1. PICK y : y = Answering(sh)
        OBVIOUS
      <3>2. /\ y.inbox = sh.inbox /\ y.conn = sh.conn /\ y.gone = sh.gone
            /\ y.units = sh.units /\ y.heard = sh.heard /\ ~y.keeping
        BY <1>7, <3>1 DEF Answering, ShipType
      <3>3. ship'[s] = y /\ \A t \in Ships : t # s => ship'[t] = ship[t]
        BY <1>1, <2>5, <3>1 DEF GoesOn
      <3> QED BY <2>3, <2>5, <3>2, <3>3
    <2>6. CASE DropShip(s, sh, r, EofAnswer(r)) \/ DropShip(s, sh, r, Failed(r))
      BY <1>7, <1>8, <2>6, DropWaits
    <2>7. CASE item.kind = "empty" /\ KeepShip(s, sh, r, Headed(r, item))
      BY <2>4, <2>7
    <2>8. ASSUME NEW full, item.kind = "last", KeepShip(s, sh, r, Fed(r, full))
          PROVE  Waiting' /\ NoneNew'
      BY <2>4, <2>8
    <2>9. ASSUME NEW full, item.kind # "eof", sh.state = "content",
                 GoesOn(s, IF full THEN [sh EXCEPT !.armed = {}] ELSE sh, r, Fed(r, full))
          PROVE  Waiting' /\ NoneNew'
      <3>1. PICK y : y = IF full THEN [sh EXCEPT !.armed = {}] ELSE sh
        OBVIOUS
      <3>2. /\ y.inbox = sh.inbox /\ y.conn = sh.conn /\ y.gone = sh.gone
            /\ y.units = sh.units /\ y.heard = sh.heard /\ y.keeping = sh.keeping
        BY <1>7, <3>1 DEF ShipType
      <3>3. ship'[s] = y /\ \A t \in Ships : t # s => ship'[t] = ship[t]
        BY <1>1, <2>9, <3>1 DEF GoesOn
      <3>4. y.conn # "up" \/ ~y.keeping
        BY <1>3, <1>8, <2>9, <3>2 DEF Ready
      <3> QED BY <2>3, <2>9, <3>2, <3>3, <3>4
    <2> QED BY <2>2, <2>5, <2>6, <2>7, <2>8, <2>9 DEF ReadCase
  <1> QED BY <1>9, <1>10

(* What times out or is closed is shut.                                    *)
LEMMA PartWaits ==
  ASSUME WaitInv, [Next]_vars, NEW s \in Ships,
         TimesOut(s) \/ (Closed(s) /\ ~Dies("consumed") /\ ~Dies("id"))
  PROVE  Waiting' /\ NoneNew'
  <1>1. ship \in [Ships -> ShipType] /\ ship[s] \in ShipType
    BY DEF WaitInv, StoreInv, StoreKept, TypeOK
  <1>2. CASE TimesOut(s)
    <2>1. PICK r, q : DropShip(s, ship[s], r, q)
      BY <1>2 DEF TimesOut
    <2> QED BY <1>1, <2>1, DropWaits
  <1>3. CASE Closed(s) /\ ~Dies("consumed") /\ ~Dies("id")
    <2>1. ship' = [ship EXCEPT ![s] = [NewShip EXCEPT !.conn = "closed"]]
      BY <1>3 DEF Closed
    <2>2. /\ ship'[s] = [NewShip EXCEPT !.conn = "closed"] /\ ship'[s].conn = "closed"
          /\ \A t \in Ships : t # s => ship'[t] = ship[t]
      BY <1>1, <2>1 DEF NewShip
    <2> QED BY <2>2, ShutNames
  <1> QED BY <1>2, <1>3

(* Nothing is waited for at first.                                         *)
LEMMA WaitInit == Init => WaitInv
  <1> SUFFICES ASSUME Init PROVE WaitInv
    OBVIOUS
  <1>1. \A s \in Ships : ship[s] = NewShip
    BY DEF Init
  <1>2. NewShip.conn = "none" /\ NewShip.heard = None /\ DOMAIN NewShip.units = {}
    BY DEF NewShip
  <1>3. Waiting
    BY <1>1, <1>2, ShutWaits DEF Waiting
  <1>4. NoneNew
    BY <1>1, <1>2, NoneIsNoShip DEF NoneNew, Named
  <1> QED BY <1>3, <1>4, StoreInit DEF WaitInv

(* Every step keeps the connections in order in this way.                  *)
LEMMA WaitStep == ASSUME WaitInv, [Next]_vars PROVE WaitInv'
  <1>1. StoreInv'
    BY StoreStep DEF WaitInv
  <1>2. CASE UNCHANGED ship
    <2>1. PICK t : t \notin Ships
      BY NoneIsNoShip
    <2>2. Waiting' /\ NoneNew'
      BY <1>2, <2>1, OneWaits
    <2> QED BY <1>1, <2>2 DEF WaitInv
  <1>3. CASE Dies("id") \/ Dies("resume") \/ Dies("consumed") \/ Dies("stray") \/ UNCHANGED vars
    BY <1>2, <1>3 DEF Dies, vars
  <1>4. CASE ~Dies("id") /\ ~Dies("resume") /\ ~Dies("consumed") /\ ~Dies("stray") /\ Next
    <2>1. ASSUME NEW r \in Requests,
                 Body(r) \/ ClientReads(r) \/ ReturnTour(r) \/ Arrive(r) \/ TooLong(r) \/ Disconnect(r)
          PROVE  Waiting' /\ NoneNew'
      BY <1>4, <2>1, PostWaits, ClientWaits, ArriveWaits
    <2>2. ASSUME NEW s \in Ships,
                 \/ Connected(s) \/ Write(s) \/ UpAnswers(s) \/ Read(s) \/ TimesOut(s) \/ Closed(s)
                 \/ ConnectFails(s) \/ UpCloses(s) \/ UpStray(s)
          PROVE  Waiting' /\ NoneNew'
      BY <1>4, <2>2, ConnectWaits, WriteWaits, UpWaits, ReadStepWaits, PartWaits
    <2>3. Waiting' /\ NoneNew'
      BY <1>4, <2>1, <2>2 DEF Next, Internal, External
    <2> QED BY <1>1, <2>3 DEF WaitInv
  <1> QED BY <1>3, <1>4

(* A request that has no end when nothing is left to happen is always one  *)
(* whose header the backend took for the body of the request before it on  *)
(* a reused connection, which check_timeout spares because it is still     *)
(* keeping: no other order of early answers, full buffers, closes and      *)
(* reuse leaves a request waiting (NothingLeftUndone).                     *)
THEOREM NothingStaysUndone == Spec => []NothingLeftUndone
  <1> QED BY WaitInit, WaitStep, QuietIsSwallowed, PTL DEF Spec
====
