---------------------------- MODULE InboundProofs ---------------------------
(* Proofs about one multiplexed inbound connection.  The part the three    *)
(* protocols share comes first: what the steps of the handlers do to the   *)
(* tour of one key, to the queue of ends and to the tours of the other     *)
(* keys; then one inductive invariant for each protocol.                   *)
EXTENDS MCInbound, TLAPS

USE DEF Kinds

(* The records a tour can be.                                              *)
TourSet == [state : {"none", "preparing", "reading", "running", "ended"},
            kind : Kinds, declared : 0..MaxLength, handler : BOOLEAN,
            error : BOOLEAN, posted : Nat, limit : 0..MaxLength,
            ended : BOOLEAN, full : BOOLEAN,
            prod : {"none", "busy", "killed", "killedLate"}]
Ends == [key : Keys, keep : BOOLEAN]
Asking == [count : Nat, declared : 0..MaxLength, body : Nat, ended : BOOLEAN]

(* TypeOK, in the names of this module.                                    *)
LEMMA Types ==
  /\ TypeOK => /\ tour \in [Keys -> TourSet] /\ writes \in Seq(Ends)
               /\ asked \in [Keys -> Asking] /\ answered \in [Keys -> Nat]
               /\ marks \subseteq Marks /\ events \in 0..MaxEvents
               /\ hnd \in [state : {"preface", "frames", "begin", "params", "stdin", "forward", "data"},
                           key : Keys \cup {0}, env : BOOLEAN]
               /\ conn \in {"open", "closing", "gone"} /\ reads \in {"on", "last", "off"}
  /\ MaxLength \in Nat /\ MaxEvents \in Nat
BY InboundAssumption DEF TypeOK, TourSet, Ends, Asking, InboundAssumption

(* A field that a step gives a value leaves the type as it was.            *)
LEMMA TypesKept ==
  ASSUME TypeOK,
         cause' \in {"none", "noTours", "continuation", "handlerSet", "notReading",
                     "tooLong", "resume", "endedTwice", "returnedTwice", "params",
                     "traceback", "noUri", "unexpected", "shutdown", "staleProducer"},
         conn' \in {"open", "closing", "gone"}, reads' \in {"on", "last", "off"},
         tour' \in [Keys -> TourSet], writes' \in Seq(Ends),
         hnd' \in [state : {"preface", "frames", "begin", "params", "stdin", "forward", "data"},
                   key : Keys \cup {0}, env : BOOLEAN],
         asked' \in [Keys -> Asking], answered' \in [Keys -> Nat],
         marks' \subseteq Marks, events' \in 0..MaxEvents
  PROVE  TypeOK'
BY DEF TypeOK, TourSet, Ends, Asking

-----------------------------------------------------------------------------
(* The queue of ends.                                                      *)

(* The end of a response waits once.                                       *)
NoneTwice == \A i, j \in DOMAIN writes : writes[i].key = writes[j].key => i = j

(* An end of the key k is put last: k waits, the others as before, and     *)
(* none waits twice when k did not wait.                                   *)
LEMMA QueueAppend ==
  ASSUME NEW k \in Keys, NEW keep \in BOOLEAN, writes \in Seq(Ends),
         writes' = Append(writes, [key |-> k, keep |-> keep])
  PROVE  /\ writes' \in Seq(Ends)
         /\ Queued(k)'
         /\ \A j \in Keys \ {k} : Queued(j)' <=> Queued(j)
         /\ NoneTwice /\ ~Queued(k) => NoneTwice'
<1>1. /\ writes' \in Seq(Ends) /\ Len(writes') = Len(writes) + 1 /\ Len(writes) \in Nat
      /\ writes'[Len(writes) + 1] = [key |-> k, keep |-> keep]
      /\ \A i \in 1..Len(writes) : writes'[i] = writes[i]
      /\ DOMAIN writes = 1..Len(writes) /\ DOMAIN writes' = 1..(Len(writes) + 1)
  BY DEF Ends
<1>2. Queued(k)'
  BY <1>1 DEF Queued
<1>3. \A j \in Keys \ {k} : Queued(j)' <=> Queued(j)
  BY <1>1 DEF Queued
<1>4. NoneTwice /\ ~Queued(k) => NoneTwice'
  BY <1>1 DEF Queued, NoneTwice
<1> QED BY <1>1, <1>2, <1>3, <1>4

(* The first end is written: the other keys wait as before, and its own    *)
(* waits no more when none waited twice.                                   *)
LEMMA QueueTail ==
  ASSUME writes \in Seq(Ends), writes # <<>>, writes' = Tail(writes),
         NEW k, k = Head(writes).key
  PROVE  /\ writes' \in Seq(Ends)
         /\ k \in Keys /\ Head(writes).keep \in BOOLEAN /\ Queued(k)
         /\ \A j \in Keys \ {k} : Queued(j)' <=> Queued(j)
         /\ \A j \in Keys : Queued(j)' => Queued(j)
         /\ NoneTwice => NoneTwice' /\ ~Queued(k)'
<1>1. /\ writes' \in Seq(Ends) /\ Len(writes) \in Nat \ {0} /\ Len(writes') = Len(writes) - 1
      /\ writes[1].key = k /\ Head(writes) \in Ends
      /\ \A i \in 1..(Len(writes) - 1) : writes'[i] = writes[i + 1]
      /\ DOMAIN writes = 1..Len(writes) /\ DOMAIN writes' = 1..(Len(writes) - 1)
  OBVIOUS
<1>2. Queued(k) /\ k \in Keys /\ Head(writes).keep \in BOOLEAN
  BY <1>1 DEF Queued, Ends
<1>3. \A j \in Keys : Queued(j)' => Queued(j)
  BY <1>1 DEF Queued
<1>4. ASSUME NEW j \in Keys \ {k}, Queued(j) PROVE Queued(j)'
  <2>1. PICK i \in 1..Len(writes) : writes[i].key = j
    BY <1>4, <1>1 DEF Queued
  <2>2. i # 1 /\ i - 1 \in 1..(Len(writes) - 1) /\ writes'[i - 1] = writes[i]
    BY <2>1, <1>1
  <2> QED BY <2>1, <2>2, <1>1 DEF Queued
<1>5. NoneTwice => NoneTwice'
  BY <1>1 DEF NoneTwice
<1>6. NoneTwice => ~Queued(k)'
  BY <1>1 DEF NoneTwice, Queued
<1> QED BY <1>1, <1>2, <1>3, <1>4, <1>5, <1>6

(* Nothing waits in a queue that is empty.                                 *)
LEMMA QueueEmpty ==
  /\ writes = <<>> => NoneTwice /\ \A j \in Keys : ~Queued(j)
  /\ writes' = <<>> => writes' \in Seq(Ends) /\ NoneTwice' /\ \A j \in Keys : ~Queued(j)'
<1>1. <<>> \in Seq(Ends) /\ DOMAIN << >> = {}
  OBVIOUS
<1>2. writes = <<>> => NoneTwice /\ \A j \in Keys : ~Queued(j)
  BY <1>1 DEF Queued, NoneTwice
<1>3. writes' = <<>> => NoneTwice' /\ \A j \in Keys : ~Queued(j)'
  BY <1>1 DEF Queued, NoneTwice
<1> QED BY <1>1, <1>2, <1>3

(* A queue that is left alone.                                             *)
LEMMA QueueSame ==
  ASSUME writes' = writes
  PROVE  (NoneTwice' <=> NoneTwice) /\ \A j \in Keys : Queued(j)' <=> Queued(j)
BY DEF Queued, NoneTwice

-----------------------------------------------------------------------------
(* The steps the handlers are made of.                                     *)

(* A tour is stored under its key, and the others stay.                    *)
LEMMA SetSteps ==
  ASSUME TypeOK, NEW k \in Keys, NEW t \in TourSet, Set(k, t)
  PROVE  /\ tour' \in [Keys -> TourSet] /\ tour'[k] = t
         /\ \A j \in Keys \ {k} : tour'[j] = tour[j]
BY Types DEF Set

(* A request is asked for under its key.                                   *)
LEMMA AskSteps ==
  ASSUME TypeOK, NEW k \in Keys, NEW declared \in 0..MaxLength, Asks(k, declared)
  PROVE  /\ asked' \in [Keys -> Asking]
         /\ asked'[k].count = asked[k].count + 1 /\ asked'[k].declared = declared
         /\ asked'[k].body = 0 /\ asked'[k].ended = FALSE
         /\ \A j \in Keys \ {k} : asked'[j] = asked[j]
<1>1. asked \in [Keys -> Asking] /\ asked[k] \in Asking /\ asked[k].count + 1 \in Nat
  BY Types DEF Asking
<1> DEFINE a == [count |-> asked[k].count + 1, declared |-> declared, body |-> 0, ended |-> FALSE]
<1>2. /\ a \in Asking /\ a.count = asked[k].count + 1 /\ a.declared = declared
      /\ a.body = 0 /\ a.ended = FALSE
  BY <1>1, Types DEF Asking
<1>3. asked' = [asked EXCEPT ![k] = a]
  BY DEF Asks
<1> HIDE DEF a
<1> QED BY <1>1, <1>2, <1>3

(* A chunk of the body arrives.                                            *)
LEMMA BodySteps ==
  ASSUME TypeOK, NEW k \in Keys, NEW n \in Nat, asked' = [asked EXCEPT ![k].body = @ + n]
  PROVE  /\ asked' \in [Keys -> Asking] /\ asked[k] \in Asking
         /\ asked'[k].count = asked[k].count /\ asked'[k].declared = asked[k].declared
         /\ asked'[k].body = asked[k].body + n /\ asked'[k].ended = asked[k].ended
         /\ \A j \in Keys \ {k} : asked'[j] = asked[j]
<1>1. asked \in [Keys -> Asking] /\ asked[k] \in Asking /\ asked[k].body + n \in Nat
  BY Types DEF Asking
<1>2. [asked[k] EXCEPT !.body = @ + n] \in Asking
  BY <1>1 DEF Asking
<1>3. asked' = [asked EXCEPT ![k] = [asked[k] EXCEPT !.body = @ + n]]
  OBVIOUS
<1> QED BY <1>1, <1>2, <1>3 DEF Asking

(* The response of the key ends.                                           *)
LEMMA AnswerSteps ==
  ASSUME TypeOK, NEW k \in Keys, NEW t \in TourSet, NEW keep \in BOOLEAN, Answer(k, t, keep)
  PROVE  /\ tour' \in [Keys -> TourSet] /\ writes' \in Seq(Ends) /\ answered' \in [Keys -> Nat]
         /\ tour'[k] = [t EXCEPT !.state = "ended"]
         /\ \A j \in Keys \ {k} : /\ tour'[j] = tour[j] /\ answered'[j] = answered[j]
                                  /\ Queued(j)' <=> Queued(j)
         /\ t.state = "ended" => /\ answered'[k] = answered[k] /\ (Queued(k)' <=> Queued(k))
                                 /\ NoneTwice' <=> NoneTwice
         /\ t.state # "ended" => /\ answered'[k] = answered[k] + 1 /\ Queued(k)'
                                 /\ NoneTwice /\ ~Queued(k) => NoneTwice'
<1>1. CASE t.state = "ended"
  <2>1. Set(k, t) /\ writes' = writes /\ answered' = answered
    BY <1>1 DEF Answer
  <2>2. t = [t EXCEPT !.state = "ended"]
    BY <1>1 DEF TourSet
  <2> QED BY <1>1, <2>1, <2>2, SetSteps, QueueSame, Types
<1>2. CASE t.state # "ended"
  <2>1. /\ Set(k, [t EXCEPT !.state = "ended"])
        /\ writes' = Append(writes, [key |-> k, keep |-> keep])
        /\ answered' = [answered EXCEPT ![k] = @ + 1]
    BY <1>2 DEF Answer
  <2>2. [t EXCEPT !.state = "ended"] \in TourSet
    BY DEF TourSet
  <2>3. /\ tour' \in [Keys -> TourSet] /\ tour'[k] = [t EXCEPT !.state = "ended"]
        /\ \A j \in Keys \ {k} : tour'[j] = tour[j]
    BY <2>1, <2>2, SetSteps
  <2>4. /\ answered' \in [Keys -> Nat] /\ answered'[k] = answered[k] + 1
        /\ \A j \in Keys \ {k} : answered'[j] = answered[j]
    BY <2>1, Types
  <2> QED BY <1>2, <2>1, <2>3, <2>4, QueueAppend, Types
<1> QED BY <1>1, <1>2

-----------------------------------------------------------------------------
(* The operators on the record of a tour.                                  *)

(* What a tour is, whatever the protocol: before it enters the city it has *)
(* no handler and no error; only what has a handler has a producer, a file *)
(* or a process; only a process leaves a buffer full or is killed; until   *)
(* its response has ended a process is there; an error is of a request     *)
(* that was refused; a body is declared as long as it is.                  *)
Sound(t) ==
  /\ t.state \in {"none", "preparing"} => ~t.handler /\ ~t.error
  /\ ~t.handler => t.prod = "none" /\ ~t.full
  /\ t.prod # "none" => t.kind \in {"file", "slow"}
  /\ t.full \/ t.prod \in {"killed", "killedLate"} => t.kind = "slow"
  /\ t.state \in {"reading", "running"} /\ t.kind # "nowhere" => t.handler
  /\ t.state \in {"reading", "running"} /\ t.kind = "slow" => t.prod # "none"
  /\ t.error => t.kind = "nowhere"
  /\ t.state = "reading" => t.limit = t.declared /\ t.declared > 0
  /\ t.state = "running" => t.declared = 0

(* A tour that is not there, or was just rented.                           *)
LEMMA NoTourFields ==
  /\ NoTour \in TourSet /\ Sound(NoTour)
  /\ NoTour.state = "none" /\ NoTour.kind = "file" /\ NoTour.declared = 0
  /\ NoTour.posted = 0 /\ NoTour.limit = 0 /\ NoTour.prod = "none"
  /\ ~NoTour.full /\ ~NoTour.handler /\ ~NoTour.error /\ ~NoTour.ended
BY Types DEF NoTour, TourSet, Sound

Fresh(kind, declared) == [Rented EXCEPT !.kind = kind, !.declared = declared]

LEMMA RentedFields ==
  ASSUME NEW kind \in Kinds, NEW declared \in 0..MaxLength
  PROVE  LET t == Fresh(kind, declared) IN
         /\ t \in TourSet /\ Sound(t)
         /\ t.state = "preparing" /\ t.kind = kind /\ t.declared = declared
         /\ t.posted = 0 /\ t.limit = 0 /\ t.prod = "none"
         /\ ~t.handler /\ ~t.error /\ ~t.ended /\ ~t.full
<1>1. /\ Rented \in TourSet
      /\ Rented.state = "preparing" /\ Rented.posted = 0 /\ Rented.limit = 0 /\ Rented.prod = "none"
      /\ ~Rented.handler /\ ~Rented.error /\ ~Rented.ended /\ ~Rented.full
  BY NoTourFields DEF Rented, TourSet
<1> DEFINE t == [Rented EXCEPT !.kind = kind, !.declared = declared]
<1>2. /\ t \in TourSet
      /\ t.state = Rented.state /\ t.kind = kind /\ t.declared = declared
      /\ t.posted = Rented.posted /\ t.limit = Rented.limit /\ t.prod = Rented.prod
      /\ t.handler = Rented.handler /\ t.error = Rented.error
      /\ t.ended = Rented.ended /\ t.full = Rented.full
  BY <1>1 DEF TourSet
<1> QED BY <1>1, <1>2 DEF Sound, Fresh

(* get_tour.                                                               *)
LEMMA GetTourFields ==
  ASSUME TypeOK, NEW k \in Keys, Sound(tour[k])
  PROVE  LET t == GetTour(k) IN
         /\ t \in TourSet /\ Sound(t) /\ t.state # "none"
         /\ Live(k) => t = tour[k]
         /\ ~Live(k) => /\ t.state = "preparing" /\ t.kind = "file" /\ t.declared = 0
                        /\ t.posted = 0 /\ t.limit = 0 /\ t.prod = "none"
                        /\ ~t.handler /\ ~t.error /\ ~t.ended /\ ~t.full
<1>1. CASE Live(k)
  BY <1>1, Types DEF GetTour, Live
<1>2. CASE ~Live(k)
  <2>1. GetTour(k) = Rented
    BY <1>2 DEF GetTour
  <2>2. /\ Rented \in TourSet
        /\ Rented.state = "preparing" /\ Rented.kind = "file" /\ Rented.declared = 0
        /\ Rented.posted = 0 /\ Rented.limit = 0 /\ Rented.prod = "none"
        /\ ~Rented.handler /\ ~Rented.error /\ ~Rented.ended /\ ~Rented.full
    BY NoTourFields DEF Rented, TourSet
  <2> QED BY <1>2, <2>1, <2>2 DEF Sound
<1> QED BY <1>1, <1>2

(* Tour.go and what a tour is once the city has given it a docker.         *)
LEMMA GoFields ==
  ASSUME NEW t \in TourSet
  PROVE  LET u == Go(t) IN
         /\ u \in TourSet
         /\ u.kind = t.kind /\ u.declared = t.declared /\ u.handler = t.handler
         /\ u.error = t.error /\ u.ended = t.ended /\ u.full = t.full /\ u.prod = t.prod
         /\ t.declared > 0 => u.state = "reading" /\ u.limit = t.declared /\ u.posted = 0
         /\ t.declared = 0 => u.state = "running" /\ u.limit = t.limit /\ u.posted = t.posted
<1>0. ASSUME NEW state \in {"reading", "running"}, NEW limit \in 0..MaxLength, NEW posted \in Nat
      PROVE  LET u == [t EXCEPT !.state = state, !.limit = limit, !.posted = posted] IN
             /\ u \in TourSet /\ u.state = state /\ u.limit = limit /\ u.posted = posted
             /\ u.kind = t.kind /\ u.declared = t.declared /\ u.handler = t.handler
             /\ u.error = t.error /\ u.ended = t.ended /\ u.full = t.full /\ u.prod = t.prod
  BY DEF TourSet
<1>1. CASE t.declared > 0
  <2>1. Go(t) = [t EXCEPT !.state = "reading", !.limit = t.declared, !.posted = 0]
    BY <1>1 DEF Go, TourSet
  <2>2. t.declared \in 0..MaxLength /\ t.declared # 0
    BY <1>1, Types DEF TourSet
  <2> DEFINE u == [t EXCEPT !.state = "reading", !.limit = t.declared, !.posted = 0]
  <2>3. /\ u \in TourSet /\ u.state = "reading" /\ u.limit = t.declared /\ u.posted = 0
        /\ u.kind = t.kind /\ u.declared = t.declared /\ u.handler = t.handler
        /\ u.error = t.error /\ u.ended = t.ended /\ u.full = t.full /\ u.prod = t.prod
    BY <1>0, <2>2
  <2>4. Go(t) = u
    BY <2>1
  <2> HIDE DEF u
  <2> QED BY <2>2, <2>3, <2>4
<1>2. CASE t.declared = 0
  <2>1. Go(t) = [t EXCEPT !.state = "running", !.limit = t.limit, !.posted = t.posted]
    BY <1>2 DEF Go, TourSet
  <2>2. [t EXCEPT !.state = "running", !.limit = t.limit, !.posted = t.posted]
          = [t EXCEPT !.state = "running"]
    BY DEF TourSet
  <2>3. [t EXCEPT !.state = "running"] \in TourSet
    BY DEF TourSet
  <2> QED BY <1>2, <2>1, <2>2, <2>3 DEF TourSet
<1> QED BY <1>1, <1>2, Types DEF TourSet

LEMMA EnteredFields ==
  ASSUME NEW t \in TourSet
  PROVE  LET u == Entered(t) IN
         /\ u \in TourSet
         /\ u.kind = t.kind /\ u.declared = t.declared /\ u.handler
         /\ u.error = t.error /\ u.ended = t.ended /\ u.full = t.full
         /\ u.prod = IF t.kind = "slow" THEN "busy" ELSE "none"
         /\ t.declared > 0 => u.state = "reading" /\ u.limit = t.declared /\ u.posted = 0
         /\ t.declared = 0 => u.state = "running" /\ u.limit = t.limit /\ u.posted = t.posted
<1> DEFINE u == Go(t)
<1>1. u \in TourSet
  BY GoFields
<1>2. Entered(t) = [u EXCEPT !.handler = TRUE, !.prod = IF t.kind = "slow" THEN "busy" ELSE "none"]
  BY DEF Entered
<1>3. /\ [u EXCEPT !.handler = TRUE, !.prod = IF t.kind = "slow" THEN "busy" ELSE "none"] \in TourSet
      /\ Entered(t).kind = u.kind /\ Entered(t).declared = u.declared /\ Entered(t).handler
      /\ Entered(t).error = u.error /\ Entered(t).ended = u.ended /\ Entered(t).full = u.full
      /\ Entered(t).state = u.state /\ Entered(t).limit = u.limit /\ Entered(t).posted = u.posted
      /\ Entered(t).prod = IF t.kind = "slow" THEN "busy" ELSE "none"
  BY <1>1, <1>2 DEF TourSet
<1> QED BY <1>2, <1>3, GoFields

(* A refused request, its error kept until the body has been read.         *)
LEMMA RefusedFields ==
  ASSUME NEW t \in TourSet, NEW handler \in BOOLEAN
  PROVE  LET u == [Go(t) EXCEPT !.error = TRUE, !.handler = handler] IN
         /\ u \in TourSet
         /\ u.kind = t.kind /\ u.declared = t.declared /\ u.handler = handler
         /\ u.error /\ u.ended = t.ended /\ u.full = t.full /\ u.prod = t.prod
         /\ t.declared > 0 => u.state = "reading" /\ u.limit = t.declared /\ u.posted = 0
         /\ t.declared = 0 => u.state = "running"
<1> DEFINE v == Go(t)
<1>1. v \in TourSet
  BY GoFields
<1> DEFINE u == [v EXCEPT !.error = TRUE, !.handler = handler]
<1>2. v.kind = t.kind /\ v.declared = t.declared /\ v.ended = t.ended /\ v.full = t.full
      /\ v.prod = t.prod
      /\ (t.declared > 0 => v.state = "reading" /\ v.limit = t.declared /\ v.posted = 0)
      /\ (t.declared = 0 => v.state = "running")
  BY GoFields
<1> HIDE DEF v
<1>3. /\ u \in TourSet /\ u.kind = v.kind /\ u.declared = v.declared /\ u.handler = handler
      /\ u.error /\ u.ended = v.ended /\ u.full = v.full /\ u.prod = v.prod
      /\ u.state = v.state /\ u.limit = v.limit /\ u.posted = v.posted
  BY <1>1 DEF TourSet
<1>4. u = [Go(t) EXCEPT !.error = TRUE, !.handler = handler]
  BY DEF v
<1> HIDE DEF u
<1> QED BY <1>2, <1>3, <1>4

(* post_req_content.                                                       *)
LEMMA PostFields ==
  ASSUME NEW t \in TourSet, NEW n \in Nat, NEW fills \in BOOLEAN
  PROVE  LET u == Post(t, n, fills) IN
         /\ u \in TourSet
         /\ u.state = t.state /\ u.kind = t.kind /\ u.declared = t.declared
         /\ u.handler = t.handler /\ u.error = t.error /\ u.limit = t.limit
         /\ u.ended = t.ended /\ u.prod = t.prod /\ u.posted = t.posted + n
         /\ t.full => u.full
         /\ u.full => t.full \/ /\ t.kind = "slow" /\ t.state = "reading" /\ t.handler
                                /\ ~t.error /\ t.posted + n <= t.limit
<1> DEFINE passed == fills /\ n > 0 /\ t.kind = "slow" /\ Posting(t, n) = "passed"
           full == t.full \/ passed
           u == [t EXCEPT !.posted = t.posted + n, !.full = full]
<1>1. Post(t, n, fills) = u
  BY DEF Post, TourSet
<1>2. full \in BOOLEAN /\ t.full \in BOOLEAN /\ t.posted + n \in Nat
  BY DEF TourSet
<1>3. passed => t.kind = "slow" /\ t.state = "reading" /\ t.handler /\ ~t.error /\ t.posted + n <= t.limit
  BY Types DEF Posting, TourSet
<1>4. full <=> t.full \/ passed
  OBVIOUS
<1> HIDE DEF passed, full
<1>5. /\ u \in TourSet
      /\ u.state = t.state /\ u.kind = t.kind /\ u.declared = t.declared
      /\ u.handler = t.handler /\ u.error = t.error /\ u.limit = t.limit
      /\ u.ended = t.ended /\ u.prod = t.prod /\ u.posted = t.posted + n
      /\ u.full = full
  BY <1>2 DEF TourSet
<1> QED BY <1>1, <1>2, <1>3, <1>4, <1>5

(* What becomes of a chunk.                                                *)
LEMMA PostingIs ==
  ASSUME NEW t \in TourSet, NEW n \in Nat
  PROVE  /\ Posting(t, n) = "notReading" => ~t.error /\ t.state # "reading"
         /\ Posting(t, n) = "tooLong" => /\ ~t.error /\ t.state = "reading" /\ t.handler
                                         /\ t.posted + n > t.limit
         /\ Posting(t, n) \notin {"notReading", "tooLong"} =>
              \/ t.error
              \/ t.state = "reading" /\ (~t.handler \/ t.posted + n <= t.limit)
BY Types DEF Posting, TourSet

(* end_content.                                                            *)
LEMMA EndFields ==
  ASSUME NEW t \in TourSet
  PROVE  /\ LET u == EndContent(t) IN
            /\ u \in TourSet
            /\ u.state = t.state /\ u.kind = t.kind /\ u.declared = t.declared
            /\ u.handler = t.handler /\ u.error = t.error /\ u.posted = t.posted
            /\ u.limit = t.limit /\ u.full = t.full /\ u.ended
            /\ u.prod = IF t.handler /\ t.kind = "file" THEN "busy" ELSE t.prod
         /\ EndOf(t) = "http" <=> ~t.ended /\ t.posted = t.limit /\ t.handler /\ t.kind = "missing"
         /\ EndOf(t) = "endedTwice" => t.ended
         /\ EndOf(t) = "invalid" => t.posted # t.limit
         /\ EndOf(t) \in {"endedTwice", "invalid", "http", "ok"}
         /\ EndOf(t) = "ok" => ~t.ended /\ t.posted = t.limit /\ ~(t.handler /\ t.kind = "missing")
BY Types DEF EndContent, EndOf, TourSet

(* on_abort_req, for a process.                                            *)
LEMMA KillFields ==
  ASSUME NEW t \in TourSet
  PROVE  LET u == Kill(t) IN
         /\ u \in TourSet
         /\ u.state = t.state /\ u.kind = t.kind /\ u.declared = t.declared
         /\ u.handler = t.handler /\ u.error = t.error /\ u.posted = t.posted
         /\ u.limit = t.limit /\ u.full = t.full /\ u.ended = t.ended
         /\ u.prod = "none" <=> t.prod = "none"
         /\ u.prod # t.prod => t.kind = "slow"
         /\ u.prod = "killed" /\ t.prod # "killed" => conn = "open"
BY Types DEF Kill, TourSet

(* The response has ended.                                                 *)
LEMMA EndedFields ==
  ASSUME NEW t \in TourSet
  PROVE  LET u == [t EXCEPT !.state = "ended"] IN
         /\ u \in TourSet /\ u.state = "ended"
         /\ u.kind = t.kind /\ u.declared = t.declared
         /\ u.handler = t.handler /\ u.error = t.error /\ u.posted = t.posted
         /\ u.limit = t.limit /\ u.full = t.full /\ u.ended = t.ended /\ u.prod = t.prod
BY Types DEF TourSet

-----------------------------------------------------------------------------
(* HTTP/2.                                                                 *)

(* Of a stream: only a request that was not refused has a handler, and it  *)
(* keeps it; a response that ended waits to be written, and by then its    *)
(* producer is gone; a connection that is gone leaves only tours that have *)
(* a producer; a stream that was asked for has a tour or was answered.     *)
H2Rules(k) ==
  LET t == tour[k] IN
  /\ t.handler => t.kind # "nowhere"
  /\ t.state = "reading" /\ t.kind = "nowhere" => t.error
  /\ t.state = "ended" => Queued(k) /\ (t.kind # "nowhere" => t.handler)
  /\ t.state = "running" => t.prod # "none"
  /\ Queued(k) => answered[k] >= 1 /\ t.prod = "none" /\ (t.full => "unread" \in marks)
  /\ conn = "gone" => t.state # "preparing" /\ (t.state = "reading" => t.prod # "none")
  /\ t.state = "preparing" /\ conn = "open" => asked[k].count = 0
  /\ asked[k].count > 0 /\ conn = "open" => Live(k) \/ answered[k] >= 1
  /\ asked[k].count \in 0 .. 1
  /\ Queued(k) \/ t.state \in {"reading", "running", "ended"} => asked[k].count = 1
  /\ Queued(k) /\ t.state \in {"reading", "running"} => t.kind = "nowhere"

(* As long as no request that was refused has had trailers: the end that   *)
(* waits is of the tour that is there, a tour being read or running is not *)
(* answered, and what it was posted is what the client sent.               *)
H2Untrailed(k) ==
  LET t == tour[k] IN
  /\ answered[k] <= asked[k].count
  /\ Queued(k) => t.state = "ended"
  /\ t.state \in {"reading", "running"} => answered[k] = 0 /\ asked[k].count = 1
  /\ t.state = "reading" => /\ t.posted = asked[k].body /\ t.declared = asked[k].declared
                            /\ t.posted >= t.declared => t.prod # "none"
                            /\ t.ended => t.posted >= t.declared

H2Hangs ==
  reads # "on" /\ conn = "open" =>
    marks \cap {"empty", "unread"} # {} \/ \E k \in Keys : tour[k].full

H2Inv ==
  /\ TypeOK /\ H2DeathsExplained
  /\ \A k \in Keys : Sound(tour[k]) /\ H2Rules(k)
  /\ "trailers" \notin marks => NoneTwice /\ \A k \in Keys : H2Untrailed(k)
  /\ "staleProducer" \notin marks
  /\ H2Hangs

(* The connection may begin to close in a step.                            *)
Closing == conn' = conn \/ (conn = "open" /\ conn' = "closing")

(* What a step that touches one stream has to show.                        *)
LEMMA H2Keeps ==
  ASSUME H2Inv, NEW k \in Keys, cause' = "none", Closing,
         reads' \in {"on", "last", "off"}, tour' \in [Keys -> TourSet], writes' \in Seq(Ends),
         asked' \in [Keys -> Asking], answered' \in [Keys -> Nat], events' \in 0..MaxEvents,
         hnd' \in [state : {"preface", "frames", "begin", "params", "stdin", "forward", "data"},
                   key : Keys \cup {0}, env : BOOLEAN],
         marks \subseteq marks', marks' \subseteq Marks \ {"staleProducer"},
         \A j \in Keys \ {k} : /\ tour'[j] = tour[j] /\ asked'[j] = asked[j]
                               /\ answered'[j] = answered[j] /\ (Queued(j)' <=> Queued(j)),
         Sound(tour'[k]), H2Rules(k)',
         "trailers" \notin marks' => NoneTwice' /\ H2Untrailed(k)',
         \/ reads' = reads /\ (tour[k].full => tour'[k].full \/ "unread" \in marks')
         \/ conn' # "open" \/ marks' \cap {"empty", "unread"} # {} \/ tour'[k].full
  PROVE  H2Inv'
<1>1. TypeOK'
  BY TypesKept DEF H2Inv, Closing, TypeOK
<1>2. H2DeathsExplained'
  BY DEF H2DeathsExplained
<1>3. ASSUME NEW j \in Keys PROVE Sound(tour'[j]) /\ H2Rules(j)'
  <2>1. CASE j = k
    BY <2>1
  <2>2. CASE j # k
    <3>1. Sound(tour[j]) /\ H2Rules(j)
      BY DEF H2Inv
    <3>2. Live(j)' <=> Live(j)
      BY <2>2 DEF Live
    <3>3. /\ tour'[j] = tour[j] /\ asked'[j] = asked[j] /\ answered'[j] = answered[j]
          /\ Queued(j)' <=> Queued(j)
      BY <2>2
    <3> QED BY <3>1, <3>2, <3>3 DEF H2Rules, Closing
  <2> QED BY <2>1, <2>2
<1>4. ASSUME "trailers" \notin marks', NEW j \in Keys PROVE H2Untrailed(j)'
  <2>1. CASE j = k
    BY <1>4, <2>1
  <2>2. CASE j # k
    <3>1. H2Untrailed(j)
      BY <1>4 DEF H2Inv
    <3>2. /\ tour'[j] = tour[j] /\ asked'[j] = asked[j] /\ answered'[j] = answered[j]
          /\ Queued(j)' <=> Queued(j)
      BY <2>2
    <3> QED BY <3>1, <3>2 DEF H2Untrailed
  <2> QED BY <2>1, <2>2
<1>5. H2Hangs'
  <2>1. SUFFICES ASSUME reads' # "on", conn' = "open", marks' \cap {"empty", "unread"} = {},
                        ~tour'[k].full
                 PROVE  \E j \in Keys : tour'[j].full
    BY DEF H2Hangs
  <2>2. reads # "on" /\ conn = "open" /\ marks \cap {"empty", "unread"} = {}
    BY <2>1 DEF Closing
  <2>3. PICK j \in Keys : tour[j].full
    BY <2>2 DEF H2Inv, H2Hangs
  <2> QED BY <2>1, <2>3
<1> QED BY <1>1, <1>2, <1>3, <1>4, <1>5 DEF H2Inv

(* What a step that only closes or stops reading has to show.              *)
LEMMA H2KeepsAll ==
  ASSUME H2Inv, cause' = "none", Closing, reads' \in {"on", "last", "off"},
         hnd' \in [state : {"preface", "frames", "begin", "params", "stdin", "forward", "data"},
                   key : Keys \cup {0}, env : BOOLEAN],
         UNCHANGED <<tour, writes, asked, answered>>, events' \in 0..MaxEvents,
         marks \subseteq marks', marks' \subseteq Marks \ {"staleProducer"},
         "trailers" \in marks' => "trailers" \in marks,
         (reads # "on" \/ reads' = "on") \/ conn' # "open" \/ marks' \cap {"empty", "unread"} # {}
  PROVE  H2Inv'
<1>1. TypeOK'
  BY TypesKept, Types DEF H2Inv, Closing, TypeOK
<1>2. H2DeathsExplained'
  BY DEF H2DeathsExplained
<1>3. (NoneTwice' <=> NoneTwice) /\ \A j \in Keys : Queued(j)' <=> Queued(j)
  BY QueueSame
<1>4. ASSUME NEW j \in Keys PROVE Sound(tour'[j]) /\ H2Rules(j)'
  <2>1. Sound(tour[j]) /\ H2Rules(j) /\ (Live(j)' <=> Live(j))
    BY DEF H2Inv, Live
  <2> QED BY <1>3, <2>1 DEF H2Rules, Closing
<1>5. ASSUME "trailers" \notin marks', NEW j \in Keys PROVE H2Untrailed(j)'
  <2>1. H2Untrailed(j)
    BY <1>5 DEF H2Inv
  <2> QED BY <1>3, <2>1 DEF H2Untrailed
<1>6. H2Hangs'
  BY DEF H2Inv, H2Hangs, Closing
<1> QED BY <1>1, <1>2, <1>3, <1>4, <1>5, <1>6 DEF H2Inv

(* What a command that kills the agent has to show.                        *)
LEMMA H2Dies ==
  ASSUME H2Inv, NEW why, Dies(why), events' \in 0..MaxEvents,
         why \in {"noTours", "continuation", "handlerSet", "noUri",
                  "notReading", "tooLong", "resume", "returnedTwice"},
         why = "notReading" => \E k \in Keys : tour[k].state \in {"preparing", "ended"},
         why = "returnedTwice" => "trailers" \in marks,
         why = "resume" => \E k \in Keys : tour[k].kind = "slow"
  PROVE  H2Inv'
<1>1. cause' = why /\ UNCHANGED <<conn, reads, tour, writes, hnd, asked, answered, marks>>
  BY DEF Dies
<1>2. TypeOK'
  BY <1>1, TypesKept, Types DEF H2Inv
<1>3. H2DeathsExplained'
  BY <1>1 DEF H2DeathsExplained
<1>4. (NoneTwice' <=> NoneTwice) /\ \A j \in Keys : Queued(j)' <=> Queued(j)
  BY <1>1, QueueSame
<1>5. ASSUME NEW j \in Keys PROVE Sound(tour'[j]) /\ H2Rules(j)'
  <2>1. Sound(tour[j]) /\ H2Rules(j) /\ (Live(j)' <=> Live(j))
    BY <1>1 DEF H2Inv, Live
  <2> QED BY <1>1, <1>4, <2>1 DEF H2Rules
<1>6. ASSUME "trailers" \notin marks', NEW j \in Keys PROVE H2Untrailed(j)'
  <2>1. H2Untrailed(j)
    BY <1>1, <1>6 DEF H2Inv
  <2> QED BY <1>1, <1>4, <2>1 DEF H2Untrailed
<1>7. H2Hangs'
  BY <1>1 DEF H2Inv, H2Hangs
<1> QED BY <1>1, <1>2, <1>3, <1>4, <1>5, <1>6, <1>7 DEF H2Inv

(* What the invariant says of one stream.                                  *)
LEMMA H2Stream ==
  ASSUME H2Inv, NEW k \in Keys
  PROVE  /\ TypeOK /\ tour[k] \in TourSet /\ asked[k] \in Asking /\ answered[k] \in Nat
         /\ marks \subseteq Marks \ {"staleProducer"}
         /\ Sound(tour[k]) /\ H2Rules(k)
         /\ "trailers" \notin marks => NoneTwice /\ H2Untrailed(k)
BY Types DEF H2Inv

(* A received command.                                                     *)
LEMMA ReceiveFields ==
  ASSUME TypeOK, Receive
  PROVE  events' \in 0..MaxEvents /\ cause = "none" /\ conn # "gone" /\ reads # "off"
BY Types DEF Receive, Alive

LEMMA H2Quiet ==
  ASSUME H2Inv, Preface \/ Ignored \/ Rejected \/ StopReading \/ CloseRequest
  PROVE  H2Inv'
<1>1. TypeOK /\ marks \subseteq Marks \ {"staleProducer"} /\ conn \in {"open", "closing", "gone"}
      /\ events \in 0..MaxEvents
  BY Types DEF H2Inv
<1>2. CASE Preface
  <2>1. hnd' \in [state : {"preface", "frames", "begin", "params", "stdin", "forward", "data"},
                  key : Keys \cup {0}, env : BOOLEAN]
    BY <1>1, <1>2, Types DEF Preface
  <2> QED BY <1>1, <1>2, <2>1, H2KeepsAll, ReceiveFields, Types DEF Preface, Closing, Receive, Alive
<1>3. CASE Ignored
  BY <1>1, <1>3, H2KeepsAll, ReceiveFields, Types DEF Ignored, Frame, Closing, Receive, Alive, H2Inv, H2Hangs
<1>4. CASE Rejected
  BY <1>1, <1>4, H2KeepsAll, ReceiveFields, Types DEF Rejected, Frame, Closes, Closing, Receive, Alive
<1>5. CASE StopReading
  BY <1>1, <1>5, H2KeepsAll, Types DEF StopReading, Closing, Alive
<1>6. CASE CloseRequest
  BY <1>1, <1>6, H2KeepsAll, Types DEF CloseRequest, Closing, Alive, Idle
<1> QED BY <1>2, <1>3, <1>4, <1>5, <1>6

LEMMA H2HeadersGoOn ==
  ASSUME H2Inv, NEW k \in Keys, NEW kind \in Kinds, NEW declared \in 0..MaxLength,
         HeadersGoOn(k, kind, declared)
  PROVE  H2Inv'
<1> DEFINE t == Fresh(kind, declared)
<1>1. /\ t \in TourSet /\ Sound(t) /\ t.state = "preparing" /\ t.prod = "none"
      /\ ~t.handler /\ ~t.error /\ ~t.full
  BY RentedFields
<1>2. Set(k, t)
  BY DEF HeadersGoOn, Fresh
<1> HIDE DEF t
<1>3. /\ Receive /\ ~Live(k) /\ asked[k].count = 0
      /\ UNCHANGED <<cause, conn, reads, writes, hnd, asked, answered, marks>>
  BY DEF HeadersGoOn, Frame
<1>4. /\ tour' \in [Keys -> TourSet] /\ tour'[k] = t
      /\ \A j \in Keys \ {k} : tour'[j] = tour[j]
  BY <1>1, <1>2, SetSteps, H2Stream
<1>5. (NoneTwice' <=> NoneTwice) /\ \A j \in Keys : Queued(j)' <=> Queued(j)
  BY <1>3, QueueSame
<1>6. tour[k].state = "none" /\ ~tour[k].full
  BY <1>3, H2Stream DEF Live, Sound
<1>7. H2Rules(k)'
  BY <1>1, <1>3, <1>4, <1>5, H2Stream, ReceiveFields DEF H2Rules
<1>8. "trailers" \notin marks' => NoneTwice' /\ H2Untrailed(k)'
  BY <1>1, <1>3, <1>4, <1>5, <1>6, H2Stream DEF H2Untrailed
<1> QED BY <1>1, <1>3, <1>4, <1>5, <1>6, <1>7, <1>8, H2Keeps, H2Stream, Types, ReceiveFields DEF Closing

LEMMA H2HeadersKeep ==
  ASSUME H2Inv, NEW k \in Keys, NEW kind \in Kinds, NEW declared \in 0..MaxLength,
         Headers(k, kind, declared)
  PROVE  H2Inv'
<1> DEFINE t == Fresh(kind, declared)
<1>1. /\ t \in TourSet /\ Sound(t) /\ t.state = "preparing" /\ t.prod = "none" /\ t.kind = kind
      /\ t.declared = declared /\ t.posted = 0 /\ t.limit = 0
      /\ ~t.handler /\ ~t.error /\ ~t.full /\ ~t.ended
  BY RentedFields
<1>2. Enter(k, t)
  BY DEF Headers, Fresh
<1> HIDE DEF t
<1>3. /\ Receive /\ ~Live(k) /\ asked[k].count = 0 /\ Asks(k, declared) /\ marks' = marks
  BY DEF Headers, Frame
<1>4. /\ asked' \in [Keys -> Asking] /\ asked'[k].count = 1 /\ asked'[k].declared = declared
      /\ asked'[k].body = 0 /\ \A j \in Keys \ {k} : asked'[j] = asked[j]
  <2>1. TypeOK
    BY H2Stream
  <2>2. /\ asked' \in [Keys -> Asking] /\ asked'[k].count = asked[k].count + 1
        /\ asked'[k].declared = declared /\ asked'[k].body = 0
        /\ \A j \in Keys \ {k} : asked'[j] = asked[j]
    BY <1>3, <2>1, AskSteps
  <2> QED BY <1>3, <2>2
<1>5. tour[k].state = "none" /\ ~tour[k].full /\ TypeOK /\ answered[k] \in Nat
  BY <1>3, H2Stream DEF Live, Sound
<1>6. "trailers" \notin marks => NoneTwice /\ ~Queued(k) /\ answered[k] = 0
  BY <1>3, <1>5, H2Stream DEF H2Untrailed
<1>7. declared \in Nat
  BY Types
<1>8. CASE kind = "nowhere" /\ declared = 0
  <2>1. Answer(k, Go(t), TRUE) /\ UNCHANGED <<cause, conn, reads, hnd>>
    BY <1>1, <1>2, <1>8 DEF Enter
  <2>2. /\ Go(t) \in TourSet /\ Go(t).state = "running" /\ Go(t).kind = kind /\ Go(t).prod = "none"
        /\ Go(t).declared = 0 /\ ~Go(t).handler /\ ~Go(t).error /\ ~Go(t).full
    BY <1>1, <1>8, GoFields
  <2> DEFINE u == [Go(t) EXCEPT !.state = "ended"]
  <2>3. /\ u \in TourSet /\ u.state = "ended" /\ u.kind = "nowhere" /\ u.prod = "none"
        /\ u.declared = 0 /\ ~u.handler /\ ~u.error /\ ~u.full
    BY <1>8, <2>2, EndedFields
  <2>4. /\ tour' \in [Keys -> TourSet] /\ writes' \in Seq(Ends) /\ answered' \in [Keys -> Nat]
        /\ tour'[k] = u
        /\ \A j \in Keys \ {k} : /\ tour'[j] = tour[j] /\ answered'[j] = answered[j]
                                 /\ Queued(j)' <=> Queued(j)
        /\ answered'[k] = answered[k] + 1 /\ Queued(k)'
        /\ NoneTwice /\ ~Queued(k) => NoneTwice'
    BY <1>5, <2>1, <2>2, AnswerSteps
  <2> HIDE DEF u
  <2>5. Sound(tour'[k]) /\ H2Rules(k)'
    BY <1>3, <1>4, <1>5, <2>1, <2>3, <2>4, ReceiveFields DEF Sound, H2Rules, Live
  <2>6. "trailers" \notin marks' => NoneTwice' /\ H2Untrailed(k)'
    BY <1>3, <1>4, <1>5, <1>6, <2>3, <2>4 DEF H2Untrailed
  <2> QED BY <1>3, <1>4, <1>5, <2>1, <2>4, <2>5, <2>6, H2Keeps, H2Stream, Types, ReceiveFields DEF Closing
<1>9. ASSUME NEW u \in TourSet, Set(k, u), UNCHANGED <<cause, conn, reads, writes, hnd, answered>>,
             u.state \in {"reading", "running"}, Sound(u), ~u.full,
             u.handler => u.kind # "nowhere",
             u.state = "reading" => /\ u.kind = "nowhere" => u.error
                                    /\ u.posted = 0 /\ u.declared = declared /\ ~u.ended,
             u.state = "running" => u.prod # "none"
      PROVE  H2Inv'
  <2>1. /\ tour' \in [Keys -> TourSet] /\ tour'[k] = u
        /\ \A j \in Keys \ {k} : tour'[j] = tour[j]
    BY <1>5, <1>9, SetSteps
  <2>2. (NoneTwice' <=> NoneTwice) /\ \A j \in Keys : Queued(j)' <=> Queued(j)
    BY <1>9, QueueSame
  <2>3. ~Live(k) /\ H2Rules(k) /\ Sound(tour[k])
    BY <1>3, H2Stream
  <2>4. Live(k)' /\ u.state # "none"
    BY <1>9, <2>1 DEF Live
  <2>5. H2Rules(k)'
    BY <1>3, <1>4, <1>5, <1>9, <2>1, <2>2, <2>3, <2>4, ReceiveFields DEF H2Rules
  <2>6. "trailers" \notin marks' => NoneTwice' /\ H2Untrailed(k)'
    BY <1>3, <1>4, <1>5, <1>6, <1>7, <1>9, <2>1, <2>2 DEF H2Untrailed, Sound
  <2> QED BY <1>3, <1>4, <1>5, <1>9, <2>1, <2>2, <2>5, <2>6, H2Keeps, H2Stream, Types, ReceiveFields DEF Closing
<1>10. CASE kind = "nowhere" /\ declared # 0
  <2> DEFINE u == [Go(t) EXCEPT !.error = TRUE]
  <2>1. Set(k, u) /\ UNCHANGED <<cause, conn, reads, writes, hnd, answered>>
    BY <1>1, <1>2, <1>10 DEF Enter
  <2>2. /\ Go(t) \in TourSet /\ Go(t).state = "reading" /\ Go(t).kind = kind /\ Go(t).prod = "none"
        /\ Go(t).declared = declared /\ Go(t).limit = declared /\ Go(t).posted = 0
        /\ ~Go(t).handler /\ ~Go(t).ended /\ ~Go(t).full
    BY <1>1, <1>7, <1>10, GoFields
  <2>3. /\ u \in TourSet /\ u.state = "reading" /\ u.kind = "nowhere" /\ u.prod = "none" /\ u.error
        /\ u.declared = declared /\ u.limit = declared /\ u.posted = 0
        /\ ~u.handler /\ ~u.ended /\ ~u.full
    BY <1>10, <2>2 DEF TourSet
  <2> HIDE DEF u
  <2>4. Sound(u)
    BY <1>7, <1>10, <2>3 DEF Sound
  <2> QED BY <1>9, <2>1, <2>3, <2>4
<1>11. CASE kind # "nowhere"
  <2> DEFINE e == Entered(t)
  <2>1. /\ e \in TourSet /\ e.kind = kind /\ e.declared = declared /\ e.handler
        /\ ~e.error /\ ~e.ended /\ ~e.full
        /\ e.prod = IF kind = "slow" THEN "busy" ELSE "none"
        /\ declared > 0 => e.state = "reading" /\ e.limit = declared /\ e.posted = 0
        /\ declared = 0 => e.state = "running" /\ e.limit = 0 /\ e.posted = 0
    BY <1>1, EnteredFields
  <2>2. t.kind # "nowhere" /\ ~t.handler /\ (t.declared > 0 <=> declared > 0)
    BY <1>1, <1>11
  <2>3. CASE declared > 0
    <3>1. Set(k, e) /\ UNCHANGED <<cause, conn, reads, writes, hnd, answered>>
      BY <1>2, <2>2, <2>3 DEF Enter
    <3> HIDE DEF e
    <3>2. Sound(e)
      BY <1>11, <2>1, <2>3 DEF Sound
    <3> QED BY <1>7, <1>9, <1>11, <2>1, <2>3, <3>1, <3>2
  <2>4. CASE declared = 0 /\ EndOf(e) = "http"
    <3> DEFINE u == [e EXCEPT !.state = "ended"]
    <3>1. e.kind = "missing" /\ e.prod = "none"
      BY <2>1, <2>4, EndFields
    <3>2. /\ u \in TourSet /\ u.state = "ended" /\ u.kind = "missing" /\ u.prod = "none"
          /\ u.declared = 0 /\ u.handler /\ ~u.error /\ ~u.full
      BY <2>1, <2>4, <3>1, EndedFields
    <3>3. Answer(k, e, TRUE) /\ UNCHANGED <<cause, conn, reads, hnd>>
      <4>1. ~(t.declared > 0)
        BY <2>2, <2>4
      <4> QED BY <1>2, <2>2, <2>4, <4>1, Zenon DEF Enter
    <3> HIDE DEF e
    <3>4. /\ tour' \in [Keys -> TourSet] /\ writes' \in Seq(Ends) /\ answered' \in [Keys -> Nat]
          /\ tour'[k] = u
          /\ \A j \in Keys \ {k} : /\ tour'[j] = tour[j] /\ answered'[j] = answered[j]
                                   /\ Queued(j)' <=> Queued(j)
          /\ answered'[k] = answered[k] + 1 /\ Queued(k)'
          /\ NoneTwice /\ ~Queued(k) => NoneTwice'
      BY <1>5, <2>1, <2>4, <3>3, AnswerSteps
    <3> HIDE DEF u
    <3>5. Sound(tour'[k]) /\ H2Rules(k)'
      BY <1>3, <1>4, <1>5, <3>2, <3>3, <3>4, ReceiveFields DEF Sound, H2Rules, Live
    <3>6. "trailers" \notin marks' => NoneTwice' /\ H2Untrailed(k)'
      BY <1>3, <1>4, <1>5, <1>6, <3>2, <3>4 DEF H2Untrailed
    <3> QED BY <1>3, <1>4, <1>5, <3>3, <3>4, <3>5, <3>6, H2Keeps, H2Stream, Types, ReceiveFields DEF Closing
  <2>5. CASE declared = 0 /\ EndOf(e) # "http"
    <3> DEFINE u == EndContent(e)
    <3>1. e.kind # "missing"
      BY <2>1, <2>5, EndFields
    <3>2. /\ u \in TourSet /\ u.state = "running" /\ u.kind = kind /\ u.handler /\ ~u.error /\ ~u.full
          /\ u.declared = 0 /\ u.prod = "busy"
      BY <1>11, <2>1, <2>5, <3>1, EndFields
    <3>3. Set(k, u) /\ UNCHANGED <<cause, conn, reads, writes, hnd, answered>>
      BY <1>2, <2>2, <2>5 DEF Enter
    <3> HIDE DEF u, e
    <3>4. Sound(u)
      BY <1>11, <2>1, <3>1, <3>2 DEF Sound
    <3> QED BY <1>9, <1>11, <3>2, <3>3, <3>4
  <2> QED BY <1>7, <2>3, <2>4, <2>5
<1> QED BY <1>8, <1>10, <1>11

LEMMA H2TrailersKeep ==
  ASSUME H2Inv, NEW k \in Keys, Trailers(k)
  PROVE  H2Inv'
<1> DEFINE t == tour[k]
<1>1. /\ Receive /\ Live(k) /\ t.state # "preparing" /\ Enter(k, t) /\ asked' = asked
      /\ marks' = IF t.kind = "nowhere" THEN marks \cup {"trailers"} ELSE marks
  BY DEF Trailers, Frame
<1>2. /\ TypeOK /\ t \in TourSet /\ Sound(t) /\ H2Rules(k) /\ t.state # "none"
      /\ asked[k] \in Asking /\ answered[k] \in Nat
  BY <1>1, H2Stream DEF Live
<1>3. /\ cause = "none" /\ conn # "gone" /\ events' \in 0..MaxEvents
      /\ asked' \in [Keys -> Asking] /\ t.declared \in Nat
      /\ marks' \subseteq Marks \ {"staleProducer"} /\ marks \subseteq marks'
  BY <1>1, <1>2, ReceiveFields, H2Stream, Types DEF Marks, TourSet
<1>4. CASE t.kind = "nowhere"
  <2>1. /\ ~t.handler /\ t.prod = "none" /\ ~t.full /\ "trailers" \in marks'
        /\ asked[k].count = 1
    BY <1>1, <1>2, <1>4 DEF Sound, H2Rules, TourSet
  <2>2. CASE t.declared = 0
    <3> DEFINE g == Go(t)
               u == [g EXCEPT !.state = "ended"]
    <3>1. Answer(k, g, TRUE) /\ UNCHANGED <<cause, conn, reads, hnd>>
      BY <1>1, <1>4, <2>2 DEF Enter
    <3>2. /\ g \in TourSet /\ g.state = "running" /\ g.kind = "nowhere" /\ g.prod = "none"
          /\ g.declared = 0 /\ ~g.handler /\ ~g.full
      BY <1>2, <1>4, <2>1, <2>2, GoFields
    <3> HIDE DEF g
    <3>3. /\ u \in TourSet /\ u.state = "ended" /\ u.kind = "nowhere" /\ u.prod = "none"
          /\ u.declared = 0 /\ ~u.handler /\ ~u.full
      BY <3>2, EndedFields
    <3>4. /\ tour' \in [Keys -> TourSet] /\ writes' \in Seq(Ends) /\ answered' \in [Keys -> Nat]
          /\ tour'[k] = u
          /\ \A j \in Keys \ {k} : /\ tour'[j] = tour[j] /\ answered'[j] = answered[j]
                                   /\ Queued(j)' <=> Queued(j)
          /\ answered'[k] = answered[k] + 1 /\ Queued(k)'
      BY <1>2, <3>1, <3>2, AnswerSteps
    <3> HIDE DEF u
    <3>5. Sound(tour'[k]) /\ H2Rules(k)'
      BY <1>1, <1>2, <1>3, <2>1, <3>1, <3>3, <3>4 DEF Sound, H2Rules, Live
    <3> QED BY <1>1, <1>2, <1>3, <2>1, <3>1, <3>4, <3>5, H2Keeps, Types DEF Closing
  <2>3. CASE t.declared # 0
    <3> DEFINE u == [Go(t) EXCEPT !.error = TRUE]
    <3>1. Set(k, u) /\ UNCHANGED <<cause, conn, reads, writes, hnd, answered>>
      BY <1>1, <1>4, <2>3 DEF Enter
    <3>2. /\ Go(t) \in TourSet /\ Go(t).state = "reading" /\ Go(t).kind = "nowhere" /\ Go(t).prod = "none"
          /\ Go(t).declared = t.declared /\ Go(t).limit = t.declared
          /\ ~Go(t).handler /\ ~Go(t).full
      BY <1>2, <1>3, <1>4, <2>1, <2>3, GoFields
    <3>3. /\ u \in TourSet /\ u.state = "reading" /\ u.kind = "nowhere" /\ u.prod = "none" /\ u.error
          /\ u.declared = t.declared /\ u.limit = t.declared /\ ~u.handler /\ ~u.full
      BY <3>2 DEF TourSet
    <3> HIDE DEF u
    <3>4. Sound(u)
      BY <1>3, <2>3, <3>3 DEF Sound
    <3>5. /\ tour' \in [Keys -> TourSet] /\ tour'[k] = u
          /\ \A j \in Keys \ {k} : tour'[j] = tour[j]
      BY <1>2, <3>1, <3>3, SetSteps
    <3>6. (NoneTwice' <=> NoneTwice) /\ \A j \in Keys : Queued(j)' <=> Queued(j)
      BY <3>1, QueueSame
    <3>7. H2Rules(k)'
      BY <1>1, <1>2, <1>3, <2>1, <3>1, <3>3, <3>5, <3>6 DEF H2Rules, Live
    <3> QED BY <1>1, <1>2, <1>3, <2>1, <3>1, <3>4, <3>5, <3>6, <3>7, H2Keeps, Types DEF Closing
  <2> QED BY <2>2, <2>3
<1>5. CASE t.kind # "nowhere"
  <2>1. t.handler
    BY <1>1, <1>2, <1>5 DEF Sound, H2Rules, TourSet
  <2>2. Dies("handlerSet")
    BY <1>1, <1>5, <2>1, Zenon DEF Enter
  <2> QED BY <1>3, <2>2, H2Dies
<1> QED BY <1>4, <1>5

LEMMA H2Deaths ==
  ASSUME H2Inv, NEW k \in Keys,
         Continuation(k) \/ TrailersLate(k) \/ H2NoTours(k) \/ H2Consumed(k) \/ StaleProducer
  PROVE  H2Inv'
<1>1. TypeOK /\ Sound(tour[k]) /\ tour[k] \in TourSet /\ events \in 0..MaxEvents
  BY H2Stream, Types
<1>2. CASE Continuation(k)
  BY <1>1, <1>2, H2Dies, ReceiveFields DEF Continuation, Frame
<1>3. CASE TrailersLate(k)
  BY <1>1, <1>3, H2Dies, ReceiveFields DEF TrailersLate, Frame
<1>4. CASE H2NoTours(k)
  BY <1>1, <1>4, H2Dies, ReceiveFields DEF H2NoTours, Frame
<1>5. CASE H2Consumed(k)
  <2>1. tour[k].kind = "slow" /\ Dies("resume") /\ events' \in 0..MaxEvents
    BY <1>1, <1>5 DEF H2Consumed, Sound
  <2> QED BY <2>1, H2Dies
<1>6. CASE StaleProducer
  BY <1>6 DEF StaleProducer, H2Inv
<1> QED BY <1>2, <1>3, <1>4, <1>5, <1>6

LEMMA H2DataUnexpectedKeeps ==
  ASSUME H2Inv, NEW k \in Keys, DataUnexpected(k)
  PROVE  H2Inv'
<1> DEFINE t == GetTour(k)
<1>1. /\ Receive /\ Set(k, t) /\ Closes /\ UNCHANGED <<cause, writes, hnd, asked, answered, marks>>
  BY DEF DataUnexpected, Refuse, Frame
<1>2. /\ TypeOK /\ Sound(tour[k]) /\ H2Rules(k) /\ tour[k] \in TourSet
      /\ marks \subseteq Marks \ {"staleProducer"}
      /\ "trailers" \notin marks => NoneTwice /\ H2Untrailed(k)
  BY H2Stream
<1>3. /\ t \in TourSet /\ Sound(t) /\ t.state # "none"
      /\ Live(k) => t = tour[k]
      /\ ~Live(k) => t.state = "preparing" /\ t.prod = "none" /\ ~t.handler /\ ~t.error /\ ~t.full
  BY <1>2, GetTourFields
<1> HIDE DEF t
<1>4. /\ tour' \in [Keys -> TourSet] /\ tour'[k] = t
      /\ \A j \in Keys \ {k} : tour'[j] = tour[j]
  BY <1>1, <1>2, <1>3, SetSteps
<1>5. (NoneTwice' <=> NoneTwice) /\ \A j \in Keys : Queued(j)' <=> Queued(j)
  BY <1>1, QueueSame
<1>6. events' \in 0..MaxEvents /\ cause = "none" /\ conn # "gone" /\ conn' = "closing" /\ reads' = "off" /\ Closing
  BY <1>1, <1>2, ReceiveFields, Types DEF Closes, Closing
<1>7. H2Rules(k)'
  BY <1>1, <1>2, <1>3, <1>4, <1>5, <1>6 DEF H2Rules, Live
<1>8. "trailers" \notin marks' => NoneTwice' /\ H2Untrailed(k)'
  BY <1>1, <1>2, <1>3, <1>4, <1>5 DEF H2Untrailed, Live
<1> QED BY <1>1, <1>2, <1>3, <1>4, <1>5, <1>6, <1>7, <1>8, H2Keeps, Types

LEMMA H2DataEmptyKeeps ==
  ASSUME H2Inv, NEW k \in Keys, DataEmpty(k)
  PROVE  H2Inv'
<1>1. /\ Receive /\ reads' = "last" /\ marks' = marks \cup {"empty"}
      /\ UNCHANGED <<cause, conn, tour, writes, hnd, asked, answered>>
  BY DEF DataEmpty, Frame
<1>2. TypeOK /\ marks \subseteq Marks \ {"staleProducer"}
  BY H2Stream
<1>3. marks' \subseteq Marks \ {"staleProducer"} /\ marks' \cap {"empty", "unread"} # {}
      /\ ("trailers" \in marks' => "trailers" \in marks)
  BY <1>1, <1>2 DEF Marks
<1> QED BY <1>1, <1>2, <1>3, H2KeepsAll, ReceiveFields, Types DEF Closing

LEMMA H2DataKeeps ==
  ASSUME H2Inv, NEW k \in Keys, NEW n \in 1..MaxLength, NEW fills \in BOOLEAN, H2Data(k, n, fills)
  PROVE  H2Inv'
<1> DEFINE o == tour[k]
           t == Post(o, n, fills)
           complete == t.posted >= t.declared
           failed == complete /\ (t.error \/ EndOf(t) = "http")
<1>1. /\ TypeOK /\ o \in TourSet /\ Sound(o) /\ H2Rules(k) /\ n \in Nat /\ n > 0
      /\ marks \subseteq Marks \ {"staleProducer"} /\ asked[k] \in Asking
      /\ "trailers" \notin marks => NoneTwice /\ H2Untrailed(k)
  BY H2Stream, Types
<1>2. Receive /\ o.state # "none" /\ o.declared > 0
  BY DEF H2Data, Frame, Live
<1>3. events' \in 0..MaxEvents /\ cause = "none" /\ conn # "gone"
  BY <1>1, <1>2, ReceiveFields
<1>4. CASE Posting(o, n) \in {"notReading", "tooLong"}
  <2>1. Dies(Posting(o, n))
    BY <1>4 DEF H2Data
  <2>2. Posting(o, n) = "notReading" => o.state \in {"preparing", "ended"}
    BY <1>1, <1>2, PostingIs DEF Sound, TourSet
  <2> QED BY <1>1, <1>3, <1>4, <2>1, <2>2, H2Dies
<1>5. CASE Posting(o, n) \notin {"notReading", "tooLong"}
  <2>1. /\ t \in TourSet /\ t.state = o.state /\ t.kind = o.kind /\ t.declared = o.declared
        /\ t.handler = o.handler /\ t.error = o.error /\ t.limit = o.limit
        /\ t.ended = o.ended /\ t.prod = o.prod /\ t.posted = o.posted + n
        /\ o.full => t.full
        /\ t.full => o.full \/ (t.kind = "slow" /\ t.state = "reading" /\ t.handler)
    BY <1>1, PostFields
  <2>2. t.error \/ (t.state = "reading" /\ (t.handler => t.posted <= t.limit))
    BY <1>1, <1>5, <2>1, PostingIs
  <2>3. /\ asked' = [asked EXCEPT ![k].body = @ + n]
        /\ reads' = IF t.full /\ ~failed THEN "last" ELSE reads
        /\ failed => Answer(k, t, TRUE)
        /\ ~failed => Set(k, IF complete THEN EndContent(t) ELSE t) /\ UNCHANGED <<writes, answered>>
        /\ UNCHANGED <<cause, conn, hnd, marks>>
    BY <1>5 DEF H2Data
  <2>4. /\ asked' \in [Keys -> Asking] /\ asked'[k].count = asked[k].count
        /\ asked'[k].declared = asked[k].declared /\ asked'[k].body = asked[k].body + n
        /\ \A j \in Keys \ {k} : asked'[j] = asked[j]
    BY <1>1, <2>3, BodySteps
  <2>5. EndOf(t) = "http" <=> ~t.ended /\ t.posted = t.limit /\ t.handler /\ t.kind = "missing"
    BY <2>1, EndFields
  <2>6. reads' \in {"on", "last", "off"} /\ Closing
    BY <1>1, <2>3, Types DEF Closing
  <2>7. /\ t.posted \in Nat /\ t.declared \in Nat /\ o.posted \in Nat /\ t.limit \in Nat
        /\ asked[k].body \in Nat
    BY <1>1, <2>1, Types DEF TourSet, Asking
  <2> HIDE DEF t
  <2>8. CASE failed
    <3> DEFINE u == [t EXCEPT !.state = "ended"]
    <3>1. /\ u \in TourSet /\ u.state = "ended" /\ u.kind = t.kind /\ u.prod = t.prod
          /\ u.handler = t.handler /\ u.error = t.error /\ u.full = t.full
      BY <2>1, EndedFields
    <3>2. t.kind \in {"nowhere", "missing"} /\ t.prod = "none" /\ ~t.full
      BY <1>1, <2>1, <2>5, <2>8 DEF Sound
    <3>3. /\ tour' \in [Keys -> TourSet] /\ writes' \in Seq(Ends) /\ answered' \in [Keys -> Nat]
          /\ tour'[k] = u
          /\ \A j \in Keys \ {k} : /\ tour'[j] = tour[j] /\ answered'[j] = answered[j]
                                   /\ Queued(j)' <=> Queued(j)
          /\ t.state = "ended" => /\ answered'[k] = answered[k] /\ (Queued(k)' <=> Queued(k))
                                  /\ NoneTwice' <=> NoneTwice
          /\ t.state # "ended" => /\ answered'[k] = answered[k] + 1 /\ Queued(k)'
                                  /\ NoneTwice /\ ~Queued(k) => NoneTwice'
      BY <1>1, <2>1, <2>3, <2>8, AnswerSteps
    <3>4. t.state \in {"reading", "ended", "preparing"} /\ (t.state = "preparing" => FALSE)
      BY <1>1, <1>2, <2>1, <2>5, <2>8 DEF Sound, TourSet
    <3>5. answered[k] \in Nat /\ answered'[k] \in Nat
      BY <1>1, <3>3, Types
    <3> HIDE DEF u, failed
    <3>6. Sound(tour'[k])
      BY <1>1, <2>1, <3>1, <3>2, <3>3, <3>4 DEF Sound
    <3>7. H2Rules(k)'
      <4>1. CASE t.state = "ended"
        BY <1>1, <1>3, <2>1, <2>3, <2>4, <3>1, <3>2, <3>3, <4>1 DEF H2Rules, Live
      <4>2. CASE t.state = "reading"
        BY <1>1, <1>3, <2>1, <2>3, <2>4, <3>1, <3>2, <3>3, <3>5, <4>2 DEF H2Rules, Live, Sound
      <4> QED BY <3>4, <4>1, <4>2
    <3>8. "trailers" \notin marks' => NoneTwice' /\ H2Untrailed(k)'
      BY <1>1, <2>1, <2>3, <2>4, <3>1, <3>3, <3>4 DEF H2Untrailed
    <3>9. reads' = reads /\ ~o.full
      BY <2>1, <2>3, <2>8, <3>2
    <3> QED BY <1>1, <1>3, <2>3, <2>4, <2>6, <3>3, <3>6, <3>7, <3>8, <3>9, H2Keeps, Types
  <2>9. CASE ~failed
    <3> DEFINE u == IF complete THEN EndContent(t) ELSE t
    <3>1. /\ u \in TourSet /\ u.state = t.state /\ u.kind = t.kind /\ u.declared = t.declared
          /\ u.handler = t.handler /\ u.error = t.error /\ u.posted = t.posted
          /\ u.limit = t.limit /\ u.full = t.full
          /\ t.prod # "none" => u.prod # "none"
          /\ u.prod # t.prod => complete /\ t.handler /\ t.kind = "file" /\ u.prod = "busy"
          /\ u.ended => complete \/ t.ended
          /\ complete /\ t.handler /\ t.kind = "file" => u.prod = "busy"
      BY <2>1, EndFields
    <3>2. Set(k, u) /\ UNCHANGED <<writes, answered>>
      BY <2>3, <2>9
    <3> HIDE DEF u
    <3>3. /\ tour' \in [Keys -> TourSet] /\ tour'[k] = u
          /\ \A j \in Keys \ {k} : tour'[j] = tour[j]
      BY <1>1, <3>1, <3>2, SetSteps
    <3>4. (NoneTwice' <=> NoneTwice) /\ \A j \in Keys : Queued(j)' <=> Queued(j)
      BY <3>2, QueueSame
    <3>5. complete => t.state = "reading" /\ ~t.error /\ (t.kind = "missing" => t.ended \/ t.posted # t.limit)
      BY <1>1, <2>1, <2>2, <2>5, <2>9 DEF Sound
    <3>6. Sound(u)
      BY <1>1, <2>1, <3>1, <3>5 DEF Sound
    <3>7. u.prod # t.prod => t.state = "reading"
      BY <3>1, <3>5
    <3>8. H2Rules(k)'
      <4>1. Live(k) /\ Live(k)' /\ tour'[k] = u
        BY <1>2, <2>1, <3>1, <3>3 DEF Live
      <4>2. t.full /\ Queued(k) => "unread" \in marks
        BY <1>1, <2>1 DEF H2Rules, Sound
      <4>3. u.prod # t.prod => ~Queued(k)
        BY <1>1, <2>1, <3>1, <3>5 DEF H2Rules, Sound
      <4> QED BY <1>1, <1>3, <2>1, <2>3, <2>4, <3>1, <3>2, <3>4, <4>1, <4>2, <4>3 DEF H2Rules
    <3>9. "trailers" \notin marks' => NoneTwice' /\ H2Untrailed(k)'
      <4>1. SUFFICES ASSUME "trailers" \notin marks PROVE NoneTwice' /\ H2Untrailed(k)'
        BY <2>3
      <4>2. NoneTwice /\ H2Untrailed(k)
        BY <1>1, <4>1
      <4>3. u.state = "reading" =>
              /\ u.posted = asked'[k].body /\ u.declared = asked'[k].declared
              /\ u.posted >= u.declared => u.prod # "none"
              /\ u.ended => u.posted >= u.declared
        <5>1. SUFFICES ASSUME u.state = "reading" PROVE
                /\ u.posted = asked'[k].body /\ u.declared = asked'[k].declared
                /\ u.posted >= u.declared => u.prod # "none"
                /\ u.ended => u.posted >= u.declared
          OBVIOUS
        <5>2. u.posted = asked'[k].body /\ u.declared = asked'[k].declared
          BY <2>1, <2>4, <3>1, <4>2, <5>1 DEF H2Untrailed
        <5>3. u.ended => u.posted >= u.declared
          BY <2>1, <2>7, <3>1, <4>2, <5>1 DEF H2Untrailed
        <5>4. ASSUME u.posted >= u.declared PROVE u.prod # "none"
          <6>1. complete /\ ~t.error
            BY <3>1, <3>5, <5>4
          <6>2. t.kind # "nowhere" /\ t.handler /\ t.posted <= t.limit /\ t.limit = t.declared
            BY <1>1, <2>1, <2>2, <3>1, <5>1, <6>1 DEF H2Rules, Sound
          <6>3. t.posted = t.limit
            BY <2>7, <6>1, <6>2
          <6>4. CASE t.kind = "missing"
            <7>1. o.ended
              BY <2>1, <3>5, <6>1, <6>3, <6>4
            <7>2. o.posted >= o.declared
              BY <2>1, <3>1, <4>2, <5>1, <7>1 DEF H2Untrailed
            <7> QED BY <1>1, <2>1, <2>7, <6>2, <6>3, <7>2
          <6>5. CASE t.kind # "missing"
            BY <1>1, <2>1, <3>1, <5>1, <6>1, <6>2, <6>5 DEF Sound, TourSet
          <6> QED BY <6>4, <6>5
        <5> QED BY <5>2, <5>3, <5>4
      <4> QED BY <2>1, <2>4, <3>1, <3>2, <3>3, <3>4, <4>2, <4>3 DEF H2Untrailed
    <3>10. \/ reads' = reads /\ (o.full => u.full)
           \/ u.full
      BY <2>1, <2>3, <3>1
    <3> QED BY <1>1, <1>3, <2>3, <2>4, <2>6, <3>2, <3>3, <3>4, <3>6, <3>8, <3>9, <3>10, H2Keeps, Types
  <2> QED BY <2>8, <2>9
<1> QED BY <1>4, <1>5

LEMMA H2ProducesKeeps ==
  ASSUME H2Inv, NEW k \in Keys, NEW keep \in BOOLEAN, Produces(k, keep)
  PROVE  H2Inv'
<1> DEFINE o == tour[k]
           t == [o EXCEPT !.prod = "none"]
<1>1. /\ TypeOK /\ o \in TourSet /\ Sound(o) /\ H2Rules(k)
      /\ marks \subseteq Marks \ {"staleProducer"}
      /\ "trailers" \notin marks => NoneTwice /\ H2Untrailed(k)
  BY H2Stream
<1>2. /\ cause = "none" /\ o.prod # "none" /\ UNCHANGED <<cause, conn, reads, hnd, asked, events>>
  BY DEF Produces, Idle, Alive
<1>3. o.state \in {"reading", "running"} /\ ~Queued(k)
  BY <1>1, <1>2 DEF Sound, H2Rules, TourSet
<1>4. CASE conn = "gone"
  <2>1. Set(k, NoTour) /\ UNCHANGED <<writes, answered, marks>>
    BY <1>4 DEF Produces
  <2>2. /\ tour' \in [Keys -> TourSet] /\ tour'[k] = NoTour
        /\ \A j \in Keys \ {k} : tour'[j] = tour[j]
    BY <1>1, <2>1, SetSteps, NoTourFields
  <2>3. (NoneTwice' <=> NoneTwice) /\ \A j \in Keys : Queued(j)' <=> Queued(j)
    BY <2>1, QueueSame
  <2>4. Sound(tour'[k]) /\ H2Rules(k)'
    BY <1>1, <1>2, <1>3, <1>4, <2>2, <2>3, NoTourFields DEF H2Rules
  <2>5. "trailers" \notin marks' => NoneTwice' /\ H2Untrailed(k)'
    BY <1>1, <1>2, <1>3, <2>1, <2>2, <2>3, NoTourFields DEF H2Untrailed
  <2> QED BY <1>1, <1>2, <1>4, <2>1, <2>2, <2>3, <2>4, <2>5, H2Keeps, Types DEF Closing
<1>5. CASE conn # "gone"
  <2>1. Answer(k, t, keep) /\ marks' = IF t.full THEN marks \cup {"unread"} ELSE marks
    BY <1>5 DEF Produces
  <2>2. /\ t \in TourSet /\ t.state = o.state /\ t.kind = o.kind /\ t.handler = o.handler
        /\ t.error = o.error /\ t.full = o.full /\ t.prod = "none" /\ t.declared = o.declared
    BY <1>1 DEF TourSet
  <2> HIDE DEF t
  <2> DEFINE u == [t EXCEPT !.state = "ended"]
  <2>3. /\ u \in TourSet /\ u.state = "ended" /\ u.kind = o.kind /\ u.prod = "none"
        /\ u.handler = o.handler /\ u.error = o.error /\ u.full = o.full
    BY <2>2, EndedFields
  <2>4. /\ tour' \in [Keys -> TourSet] /\ writes' \in Seq(Ends) /\ answered' \in [Keys -> Nat]
        /\ tour'[k] = u
        /\ \A j \in Keys \ {k} : /\ tour'[j] = tour[j] /\ answered'[j] = answered[j]
                                 /\ Queued(j)' <=> Queued(j)
        /\ answered'[k] = answered[k] + 1 /\ Queued(k)'
        /\ NoneTwice => NoneTwice'
    BY <1>1, <1>3, <2>1, <2>2, AnswerSteps
  <2>5. /\ marks \subseteq marks' /\ marks' \subseteq Marks \ {"staleProducer"}
        /\ o.full => "unread" \in marks'
        /\ "trailers" \in marks' => "trailers" \in marks
    BY <1>1, <2>1, <2>2 DEF Marks
  <2>6. answered[k] \in Nat
    BY <1>1, Types
  <2> HIDE DEF u
  <2>7. Sound(tour'[k])
    BY <1>1, <1>3, <2>3, <2>4 DEF Sound
  <2>8. H2Rules(k)'
    BY <1>1, <1>2, <1>3, <1>5, <2>3, <2>4, <2>5, <2>6 DEF H2Rules, Sound, Live
  <2>9. "trailers" \notin marks' => NoneTwice' /\ H2Untrailed(k)'
    BY <1>1, <1>2, <1>3, <2>3, <2>4, <2>5 DEF H2Untrailed
  <2> QED BY <1>1, <1>2, <2>3, <2>4, <2>5, <2>7, <2>8, <2>9, H2Keeps, Types DEF Closing
<1> QED BY <1>4, <1>5

(* The steps of the queue that need no more than what the three protocols  *)
(* have in common.                                                         *)
LEMMA WroteSteps ==
  ASSUME TypeOK, Wrote
  PROVE  /\ cause = "none" /\ conn # "gone" /\ events' = events
         /\ \E k \in Keys :
              /\ Queued(k) /\ ~Dying(k)
              /\ \/ ~Live(k) /\ Dies("returnedTwice")
                 \/ /\ Live(k) /\ tour' \in [Keys -> TourSet] /\ tour'[k] = NoTour
                    /\ \A j \in Keys \ {k} : tour'[j] = tour[j] /\ (Queued(j)' <=> Queued(j))
                    /\ writes' \in Seq(Ends)
                    /\ Queued(k)' => Queued(k)
                    /\ NoneTwice => NoneTwice' /\ ~Queued(k)'
                    /\ Closing /\ (conn' = conn \/ conn' = "closing")
                    /\ marks' = IF tour[k].prod # "none" THEN marks \cup {"staleProducer"} ELSE marks
                    /\ UNCHANGED <<cause, reads, hnd, asked, answered>>
<1> DEFINE k == Head(writes).key
<1>1. /\ cause = "none" /\ conn # "gone" /\ events' = events /\ writes # <<>> /\ ~Dying(k)
  BY DEF Wrote, Idle, Alive
<1>2. k \in Keys /\ Queued(k)
  <2>1. writes \in Seq(Ends) /\ writes # <<>>
    BY <1>1, Types
  <2>2. writes[1] \in Ends /\ Head(writes) = writes[1] /\ 1 \in DOMAIN writes
    BY <2>1
  <2> QED BY <2>2 DEF Queued, Ends
<1>3. CASE ~Live(k)
  <2>1. Dies("returnedTwice")
    BY <1>3 DEF Wrote
  <2> QED BY <1>1, <1>2, <1>3, <2>1
<1>4. CASE Live(k)
  <2>1. /\ Set(k, NoTour) /\ writes' = Tail(writes)
        /\ conn' = IF Head(writes).keep THEN conn ELSE "closing"
        /\ marks' = Outlived({k}) /\ UNCHANGED <<cause, reads, hnd, asked, answered>>
    BY <1>4 DEF Wrote
  <2>2. conn' = conn \/ conn' = "closing"
    BY <2>1
  <2>3. Closing
    BY <1>1, <2>2, Types DEF Closing
  <2>4. marks' = IF tour[k].prod # "none" THEN marks \cup {"staleProducer"} ELSE marks
    BY <2>1 DEF Outlived
  <2>5. writes \in Seq(Ends) /\ writes # <<>> /\ writes' = Tail(writes)
    BY <1>1, <2>1, Types
  <2>6. PICK kk : kk = k
    OBVIOUS
  <2>7. /\ writes' \in Seq(Ends)
        /\ \A j \in Keys \ {kk} : Queued(j)' <=> Queued(j)
        /\ \A j \in Keys : Queued(j)' => Queued(j)
        /\ NoneTwice => NoneTwice' /\ ~Queued(kk)'
    BY <2>5, <2>6, QueueTail
  <2>8. kk \in Keys /\ Queued(kk) /\ ~Dying(kk) /\ Live(kk) /\ Set(kk, NoTour)
        /\ marks' = IF tour[kk].prod # "none" THEN marks \cup {"staleProducer"} ELSE marks
    BY <1>1, <1>2, <1>4, <2>1, <2>4, <2>6
  <2> HIDE DEF k
  <2>9. /\ tour' \in [Keys -> TourSet] /\ tour'[kk] = NoTour
        /\ \A j \in Keys \ {kk} : tour'[j] = tour[j]
    BY <2>8, SetSteps, NoTourFields
  <2>10. UNCHANGED <<cause, reads, hnd, asked, answered>>
    BY <2>1
  <2> QED BY <1>1, <2>2, <2>3, <2>7, <2>8, <2>9, <2>10
<1> QED BY <1>3, <1>4

LEMMA H2WroteKeeps ==
  ASSUME H2Inv, Wrote
  PROVE  H2Inv'
<1>1. TypeOK
  BY H2Stream DEF H2Inv
<1>2. /\ cause = "none" /\ conn # "gone" /\ events' = events /\ events \in 0..MaxEvents
  BY <1>1, WroteSteps, Types
<1>3. PICK k \in Keys :
              /\ Queued(k) /\ ~Dying(k)
              /\ \/ ~Live(k) /\ Dies("returnedTwice")
                 \/ /\ Live(k) /\ tour' \in [Keys -> TourSet] /\ tour'[k] = NoTour
                    /\ \A j \in Keys \ {k} : tour'[j] = tour[j] /\ (Queued(j)' <=> Queued(j))
                    /\ writes' \in Seq(Ends)
                    /\ Queued(k)' => Queued(k)
                    /\ NoneTwice => NoneTwice' /\ ~Queued(k)'
                    /\ Closing /\ (conn' = conn \/ conn' = "closing")
                    /\ marks' = IF tour[k].prod # "none" THEN marks \cup {"staleProducer"} ELSE marks
                    /\ UNCHANGED <<cause, reads, hnd, asked, answered>>
  BY <1>1, WroteSteps
<1>4. /\ Sound(tour[k]) /\ H2Rules(k) /\ marks \subseteq Marks \ {"staleProducer"}
      /\ "trailers" \notin marks => NoneTwice /\ H2Untrailed(k)
  BY H2Stream
<1>5. tour[k].prod = "none" /\ answered[k] >= 1 /\ (tour[k].full => "unread" \in marks)
  BY <1>3, <1>4 DEF H2Rules
<1>6. CASE ~Live(k)
  <2>1. "trailers" \in marks
    BY <1>3, <1>4, <1>6 DEF H2Untrailed, Live
  <2> QED BY <1>2, <1>3, <1>6, <2>1, H2Dies
<1>7. CASE Live(k)
  <2>1. Sound(tour'[k])
    BY <1>3, <1>7, NoTourFields
  <2>2. H2Rules(k)'
    BY <1>2, <1>3, <1>4, <1>5, <1>7, NoTourFields DEF H2Rules
  <2>3. "trailers" \notin marks' => NoneTwice' /\ H2Untrailed(k)'
    BY <1>3, <1>4, <1>5, <1>7, NoTourFields DEF H2Untrailed
  <2> QED BY <1>1, <1>2, <1>3, <1>4, <1>5, <1>7, <2>1, <2>2, <2>3, H2Keeps, Types
<1> QED BY <1>6, <1>7

(* The connection is gone: what is left of each tour.                      *)
LEMMA ClosedSteps ==
  ASSUME TypeOK, OnClosed
  PROVE  /\ cause = "none" /\ conn = "closing" /\ events' = events
         /\ \A k \in Keys : tour[k].prod # "killed"
         /\ \/ /\ Dies("returnedTwice")
               /\ ~NoneTwice \/ \E k \in Keys : Queued(k) /\ ~Live(k)
            \/ /\ conn' = "gone" /\ reads' = "off" /\ writes' \in Seq(Ends) /\ NoneTwice'
               /\ \A k \in Keys : ~Queued(k)'
               /\ tour' \in [Keys -> TourSet]
               /\ \A k \in Keys : tour'[k] = IF Queued(k) \/ Abandons(tour[k]) THEN NoTour
                                             ELSE Kill(tour[k])
               /\ marks \subseteq marks' /\ marks' \subseteq marks \cup {"staleProducer"}
               /\ "staleProducer" \in marks' =>
                    "staleProducer" \in marks \/ \E k \in Keys : Queued(k) /\ tour[k].prod # "none"
               /\ UNCHANGED <<cause, hnd, asked, answered>>
<1> DEFINE drained == {k \in Keys : Queued(k)}
           aborted == {k \in Keys \ drained : Abandons(tour[k])}
<1>1. /\ cause = "none" /\ conn = "closing" /\ events' = events
      /\ \A k \in Keys : tour[k].prod # "killed"
  BY DEF OnClosed, Idle, Alive
<1>2. CASE \/ \E k \in drained : ~Live(k)
           \/ \E i, j \in DOMAIN writes : i # j /\ writes[i].key = writes[j].key
  <2>1. Dies("returnedTwice")
    BY <1>2 DEF OnClosed
  <2>2. ~NoneTwice \/ \E k \in Keys : Queued(k) /\ ~Live(k)
    BY <1>2 DEF NoneTwice
  <2> QED BY <1>1, <2>1, <2>2
<1>3. CASE ~ \/ \E k \in drained : ~Live(k)
             \/ \E i, j \in DOMAIN writes : i # j /\ writes[i].key = writes[j].key
  <2>1. /\ conn' = "gone" /\ reads' = "off" /\ writes' = <<>>
        /\ tour' = [k \in Keys |-> IF k \in drained \cup aborted THEN NoTour ELSE Kill(tour[k])]
        /\ marks' = Outlived(drained)
        /\ UNCHANGED <<cause, hnd, asked, answered>>
    BY <1>3 DEF OnClosed
  <2>2. \A k \in Keys : tour'[k] = IF Queued(k) \/ Abandons(tour[k]) THEN NoTour ELSE Kill(tour[k])
    BY <2>1
  <2>3. tour' \in [Keys -> TourSet]
    <3>1. \A k \in Keys : Kill(tour[k]) \in TourSet
      BY Types, KillFields
    <3> QED BY <2>1, <3>1, NoTourFields
  <2>4. /\ marks \subseteq marks' /\ marks' \subseteq marks \cup {"staleProducer"}
        /\ "staleProducer" \in marks' =>
             "staleProducer" \in marks \/ \E k \in Keys : Queued(k) /\ tour[k].prod # "none"
    BY <2>1 DEF Outlived
  <2> QED BY <1>1, <2>1, <2>2, <2>3, <2>4, QueueEmpty
<1> QED BY <1>2, <1>3

LEMMA H2OnClosedKeeps ==
  ASSUME H2Inv, OnClosed
  PROVE  H2Inv'
<1>1. TypeOK /\ \A k \in Keys : tour[k] \in TourSet /\ Sound(tour[k]) /\ H2Rules(k)
  BY H2Stream DEF H2Inv
<1>2. cause = "none" /\ conn = "closing" /\ events' = events /\ events \in 0..MaxEvents
  BY <1>1, ClosedSteps, Types
<1>3. CASE Dies("returnedTwice") /\ (~NoneTwice \/ \E k \in Keys : Queued(k) /\ ~Live(k))
  <2>1. "trailers" \in marks
    BY <1>3 DEF H2Inv, H2Untrailed, Live
  <2> QED BY <1>2, <1>3, <2>1, H2Dies
<1>4. CASE /\ conn' = "gone" /\ reads' = "off" /\ writes' \in Seq(Ends) /\ NoneTwice'
           /\ \A k \in Keys : ~Queued(k)'
           /\ tour' \in [Keys -> TourSet]
           /\ \A k \in Keys : tour'[k] = IF Queued(k) \/ Abandons(tour[k]) THEN NoTour
                                         ELSE Kill(tour[k])
           /\ marks \subseteq marks' /\ marks' \subseteq marks \cup {"staleProducer"}
           /\ "staleProducer" \in marks' =>
                "staleProducer" \in marks \/ \E k \in Keys : Queued(k) /\ tour[k].prod # "none"
           /\ UNCHANGED <<cause, hnd, asked, answered>>
  <2>1. marks' = marks /\ marks \subseteq Marks \ {"staleProducer"}
    <3>1. "staleProducer" \notin marks /\ marks \subseteq Marks
      BY <1>1, Types DEF H2Inv
    <3>2. \A k \in Keys : Queued(k) => tour[k].prod = "none"
      BY <1>1 DEF H2Rules
    <3> QED BY <1>4, <3>1, <3>2
  <2>2. TypeOK' /\ H2DeathsExplained' /\ H2Hangs'
    BY <1>1, <1>2, <1>4, <2>1, TypesKept, Types DEF H2DeathsExplained, H2Hangs
  <2>3. ASSUME NEW k \in Keys PROVE
          /\ tour'[k].state = "none" \/ /\ tour'[k].state = tour[k].state /\ ~Queued(k)
                                        /\ tour[k].state \in {"reading", "running"}
                                        /\ tour[k].prod # "none" /\ tour'[k].prod # "none"
                                        /\ tour'[k].kind = tour[k].kind
                                        /\ tour'[k].handler = tour[k].handler
                                        /\ tour'[k].error = tour[k].error
                                        /\ tour'[k].posted = tour[k].posted
                                        /\ tour'[k].declared = tour[k].declared
                                        /\ tour'[k].ended = tour[k].ended
          /\ Sound(tour'[k])
    <3>1. CASE Queued(k) \/ Abandons(tour[k]) \/ tour[k].state = "none"
      <4>1. CASE Queued(k) \/ Abandons(tour[k])
        BY <1>4, <4>1, NoTourFields
      <4>2. CASE ~(Queued(k) \/ Abandons(tour[k]))
        BY <1>1, <1>4, <3>1, <4>2, KillFields DEF Sound
      <4> QED BY <4>1, <4>2
    <3>2. CASE ~(Queued(k) \/ Abandons(tour[k]) \/ tour[k].state = "none")
      <4>1. tour'[k] = Kill(tour[k])
        BY <1>4, <3>2
      <4>2. tour[k].state \in {"reading", "running"} /\ tour[k].prod # "none"
        BY <1>1, <3>2 DEF H2Rules, Sound, Abandons, TourSet
      <4> QED BY <1>1, <3>2, <4>1, <4>2, KillFields DEF Sound
    <3> QED BY <3>1, <3>2
  <2>4. ASSUME NEW k \in Keys PROVE H2Rules(k)'
    BY <1>1, <1>4, <2>1, <2>3 DEF H2Rules, Sound
  <2>5. ASSUME "trailers" \notin marks', NEW k \in Keys PROVE H2Untrailed(k)'
    <3>1. H2Untrailed(k)
      BY <2>1, <2>5, H2Stream
    <3> QED BY <1>4, <2>1, <2>3, <3>1 DEF H2Untrailed
  <2> QED BY <1>4, <2>1, <2>2, <2>3, <2>4, <2>5 DEF H2Inv
<1> QED BY <1>1, <1>3, <1>4, ClosedSteps

(* What every step under HTTP/2 keeps.                                     *)
LEMMA H2Step ==
  ASSUME H2Inv, H2Next
  PROVE  H2Inv'
<1>1. CASE \E k \in Keys, kind \in Kinds, declared \in 0..MaxLength :
             HeadersGoOn(k, kind, declared) \/ Headers(k, kind, declared)
  BY <1>1, H2HeadersGoOn, H2HeadersKeep
<1>2. CASE \E k \in Keys : Continuation(k) \/ Trailers(k) \/ TrailersLate(k) \/ H2NoTours(k)
  BY <1>2, H2TrailersKeep, H2Deaths
<1>3. CASE \E k \in Keys : DataUnexpected(k) \/ DataEmpty(k) \/ H2Consumed(k)
  BY <1>3, H2DataUnexpectedKeeps, H2DataEmptyKeeps, H2Deaths
<1>4. CASE \E k \in Keys, n \in 1..MaxLength, fills \in BOOLEAN : H2Data(k, n, fills)
  BY <1>4, H2DataKeeps
<1>5. CASE H2Rest
  <2>1. 1 \in Keys
    BY InboundAssumption DEF InboundAssumption
  <2> QED BY <1>5, <2>1, H2Quiet, H2ProducesKeeps, H2Deaths, H2WroteKeeps, H2OnClosedKeeps
          DEF H2Rest, Surroundings
<1> QED BY <1>1, <1>2, <1>3, <1>4, <1>5, H2Quiet DEF H2Next

(* The start.                                                              *)
LEMMA InitTypes ==
  ASSUME NEW state \in {"preface", "begin", "forward"}, InitWith(state)
  PROVE  /\ TypeOK /\ NoneTwice /\ \A k \in Keys : ~Queued(k)
         /\ \A k \in Keys : tour[k] = NoTour /\ asked[k] = NotAsked /\ answered[k] = 0
         /\ NotAsked.count = 0 /\ NotAsked.body = 0 /\ NotAsked.declared = 0 /\ NotAsked.ended = FALSE
<1>1. /\ NotAsked \in Asking /\ NotAsked.count = 0 /\ NotAsked.body = 0
      /\ NotAsked.declared = 0 /\ NotAsked.ended = FALSE
  BY Types DEF NotAsked, Asking
<1>2. /\ tour = [k \in Keys |-> NoTour] /\ asked = [k \in Keys |-> NotAsked]
      /\ answered = [k \in Keys |-> 0] /\ writes = <<>> /\ marks = {} /\ events = 0
      /\ cause = "none" /\ conn = "open" /\ reads = "on"
      /\ hnd = [state |-> state, key |-> 0, env |-> FALSE]
  BY DEF InitWith
<1>3. tour \in [Keys -> TourSet] /\ asked \in [Keys -> Asking] /\ answered \in [Keys -> Nat]
  BY <1>1, <1>2, NoTourFields
<1>4. writes \in Seq(Ends) /\ NoneTwice /\ \A k \in Keys : ~Queued(k)
  BY <1>2, QueueEmpty
<1>5. TypeOK
  BY <1>2, <1>3, <1>4, Types DEF TypeOK, TourSet, Asking, Ends, Marks
<1> QED BY <1>1, <1>2, <1>4, <1>5

LEMMA H2Starts ==
  ASSUME H2Init
  PROVE  H2Inv
<1>1. InitWith("preface") /\ marks = {} /\ cause = "none" /\ conn = "open" /\ reads = "on"
  BY DEF H2Init, InitWith
<1>2. \A k \in Keys : Sound(tour[k]) /\ H2Rules(k) /\ H2Untrailed(k)
  BY <1>1, InitTypes, NoTourFields DEF H2Rules, H2Untrailed
<1> QED BY <1>1, <1>2, InitTypes DEF H2Inv, H2DeathsExplained, H2Hangs

(* What the invariant gives.                                               *)
LEMMA H2Promises ==
  ASSUME H2Inv
  PROVE  TypeOK /\ H2TourHasEnd /\ H2AnsweredOnce /\ H2DeathsExplained /\ H2NothingLeftUndone
<1>1. TypeOK /\ H2DeathsExplained
  BY DEF H2Inv
<1>2. H2TourHasEnd
  <2> SUFFICES ASSUME NEW k \in Keys, Live(k)
               PROVE  Ending(k) \/ (conn # "gone" /\ tour[k].state \in {"preparing", "reading"})
    BY DEF H2TourHasEnd
  <2> QED BY H2Stream DEF H2Rules, Live, Ending, TourSet
<1>3. H2AnsweredOnce
  BY H2Stream DEF H2AnsweredOnce, H2Untrailed
<1>4. H2NothingLeftUndone
  <2>1. SUFFICES ASSUME Quiet
                 PROVE  /\ \A k \in Keys : asked[k].count > 0 /\ asked[k].body >= asked[k].declared =>
                             answered[k] >= 1 \/ "trailers" \in marks
                        /\ reads = "off" => \/ marks \cap {"empty", "unread"} # {}
                                            \/ \E k \in Keys : tour[k].full
    BY DEF H2NothingLeftUndone
  <2>2. conn = "open" /\ (\A k \in Keys : ~Queued(k)) /\ \A k \in Keys : tour[k].prod = "none"
    BY <2>1, QueueEmpty DEF Quiet
  <2>3. ASSUME NEW k \in Keys, asked[k].count > 0, asked[k].body >= asked[k].declared,
               "trailers" \notin marks
        PROVE  answered[k] >= 1
    <3>1. tour[k] \in TourSet /\ H2Rules(k) /\ H2Untrailed(k) /\ asked[k] \in Asking
      BY <2>3, H2Stream
    <3>2. tour[k].state # "reading"
      BY <2>2, <2>3, <3>1 DEF H2Untrailed
    <3>3. tour[k].state \notin {"ended", "running"}
      BY <2>2, <3>1 DEF H2Rules
    <3>4. tour[k].state # "preparing"
      BY <2>2, <2>3, <3>1 DEF H2Rules
    <3>5. ~Live(k)
      BY <3>1, <3>2, <3>3, <3>4 DEF Live, TourSet
    <3> QED BY <2>2, <2>3, <3>1, <3>5 DEF H2Rules
  <2> QED BY <2>2, <2>3 DEF H2Inv, H2Hangs
<1> QED BY <1>1, <1>2, <1>3, <1>4

-----------------------------------------------------------------------------
(* FastCGI and AJP: the end that waits is of the tour that is there; a     *)
(* tour being read or running has a handler and is not answered; once the  *)
(* connection is gone only a refused request is read with no producer.     *)
RecordRules(k) ==
  LET t == tour[k] IN
  /\ Queued(k) <=> t.state = "ended"
  /\ t.handler /\ t.kind = "nowhere" => t.error
  /\ t.state \in {"reading", "running"} => t.handler /\ answered[k] < asked[k].count
  /\ conn = "gone" => t.state # "ended" /\ (t.state = "reading" => t.error \/ t.prod # "none")
  /\ answered[k] <= asked[k].count

HandlerSet == [state : {"preface", "frames", "begin", "params", "stdin", "forward", "data"},
               key : Keys \cup {0}, env : BOOLEAN]

-----------------------------------------------------------------------------
(* FastCGI.                                                                *)

(* Of a request id: while the names are read its tour waits and what was   *)
(* asked before is answered; a tour that is not read any more has a        *)
(* producer; one that is gone was answered, or its error dropped; and the  *)
(* body of a tour ends before it is read only if its own was quicker.      *)
FcgRules(k) ==
  LET t == tour[k] IN
  /\ hnd.state = "params" /\ hnd.key = k /\ reads = "on" =>
       t.state \in {"none", "preparing"} /\ answered[k] = asked[k].count
  /\ hnd.state = "stdin" /\ hnd.key = k /\ reads = "on" => t.state # "preparing"
  /\ conn # "gone" /\ t.state \in {"reading", "running"} /\ hnd.key # k => t.prod # "none"
  /\ conn = "gone" => t.state # "preparing"
  /\ t.state \in {"reading", "running"} => answered[k] + 1 = asked[k].count
  /\ t.state = "ended" => answered[k] = asked[k].count
  /\ ~Live(k) /\ conn # "gone" => answered[k] = asked[k].count \/ "dropped" \in marks
  /\ asked[k].ended /\ conn # "gone" => \/ answered[k] = asked[k].count \/ "dropped" \in marks
                                        \/ t.prod # "none"
  /\ t.ended /\ (t.state = "preparing" \/ hnd.key = k) => "phantom" \in marks

FcgHandler ==
  /\ hnd.state \in {"begin", "params", "stdin"} /\ (hnd.state = "begin" <=> hnd.key = 0)
  /\ ~hnd.env => \A k \in Keys : asked[k].count = 0
  /\ reads # "last" /\ (conn = "open" => reads = "on")

FcgInv ==
  /\ TypeOK /\ FcgDeathsExplained /\ NoneTwice
  /\ \A k \in Keys : Sound(tour[k]) /\ RecordRules(k) /\ FcgRules(k)
  /\ FcgHandler

(* What the invariant says of one request id.                              *)
LEMMA FcgRequest ==
  ASSUME FcgInv, NEW k \in Keys
  PROVE  /\ TypeOK /\ tour[k] \in TourSet /\ asked[k] \in Asking /\ answered[k] \in Nat
         /\ asked[k].count \in Nat /\ hnd \in HandlerSet /\ marks \subseteq Marks
         /\ NoneTwice /\ Sound(tour[k]) /\ RecordRules(k) /\ FcgRules(k) /\ FcgHandler
         /\ k # 0 /\ events \in 0..MaxEvents
BY Types, InboundAssumption DEF FcgInv, Asking, HandlerSet, InboundAssumption

(* What a step that touches one request id has to show.                    *)
LEMMA FcgKeeps ==
  ASSUME FcgInv, NEW k \in Keys, cause' = "none", Closing,
         tour' \in [Keys -> TourSet], writes' \in Seq(Ends), NoneTwice',
         asked' \in [Keys -> Asking], answered' \in [Keys -> Nat], events' \in 0..MaxEvents,
         hnd' \in HandlerSet, marks \subseteq marks', marks' \subseteq Marks,
         \A j \in Keys \ {k} : /\ tour'[j] = tour[j] /\ asked'[j] = asked[j]
                               /\ answered'[j] = answered[j] /\ (Queued(j)' <=> Queued(j)),
         reads' = reads \/ (reads' = "off" /\ conn' # "open"),
         hnd' = hnd \/ (hnd.key \in {0, k} /\ hnd'.key \in {0, k}),
         hnd'.state \in {"begin", "params", "stdin"}, hnd'.state = "begin" <=> hnd'.key = 0,
         hnd.env => hnd'.env, ~hnd'.env => asked'[k].count = 0,
         Sound(tour'[k]), RecordRules(k)', FcgRules(k)'
  PROVE  FcgInv'
<1>0. TypeOK /\ FcgHandler /\ reads \in {"on", "last", "off"} /\ conn \in {"open", "closing", "gone"}
  BY Types DEF FcgInv
<1>1. TypeOK'
  BY <1>0, TypesKept DEF Closing, HandlerSet
<1>2. FcgDeathsExplained'
  BY DEF FcgDeathsExplained
<1>3. ASSUME NEW j \in Keys PROVE Sound(tour'[j]) /\ RecordRules(j)' /\ FcgRules(j)'
  <2>1. CASE j = k
    BY <2>1
  <2>2. CASE j # k
    <3>1. /\ Sound(tour[j]) /\ RecordRules(j) /\ FcgRules(j) /\ j # 0
      BY FcgRequest
    <3>2. /\ tour'[j] = tour[j] /\ asked'[j] = asked[j] /\ answered'[j] = answered[j]
          /\ Queued(j)' <=> Queued(j)
          /\ Live(j)' <=> Live(j)
      BY <2>2 DEF Live
    <3>3. /\ hnd'.key = j => hnd' = hnd
          /\ hnd.key = j => hnd' = hnd
          /\ reads' = "on" => reads = "on"
          /\ conn' = "gone" <=> conn = "gone"
      BY <1>0, <2>2, <3>1 DEF Closing
    <3>4. RecordRules(j)'
      BY <3>1, <3>2, <3>3 DEF RecordRules
    <3>5. FcgRules(j)'
      BY <3>1, <3>2, <3>3 DEF FcgRules
    <3> QED BY <3>1, <3>2, <3>4, <3>5
  <2> QED BY <2>1, <2>2
<1>4. FcgHandler'
  <2>1. ~hnd'.env => \A j \in Keys : asked'[j].count = 0
    BY <1>0 DEF FcgHandler
  <2>2. reads' # "last" /\ (conn' = "open" => reads' = "on")
    BY <1>0 DEF FcgHandler, Closing
  <2> QED BY <2>1, <2>2 DEF FcgHandler
<1> QED BY <1>1, <1>2, <1>3, <1>4 DEF FcgInv

(* What a step that only closes has to show.                               *)
LEMMA FcgKeepsAll ==
  ASSUME FcgInv, cause' = "none", Closing, UNCHANGED <<tour, writes, hnd, asked, answered, marks>>,
         events' \in 0..MaxEvents, reads' = reads \/ (reads' = "off" /\ conn' # "open")
  PROVE  FcgInv'
<1>1. PICK k \in Keys : TRUE
  BY InboundAssumption DEF InboundAssumption
<1>2. (NoneTwice' <=> NoneTwice) /\ \A j \in Keys : Queued(j)' <=> Queued(j)
  BY QueueSame
<1>3. /\ TypeOK /\ NoneTwice /\ Sound(tour[k]) /\ RecordRules(k) /\ FcgRules(k) /\ FcgHandler
      /\ reads \in {"on", "last", "off"} /\ conn \in {"open", "closing", "gone"}
  BY FcgRequest, Types
<1>4. RecordRules(k)' /\ FcgRules(k)'
  BY <1>2, <1>3 DEF RecordRules, FcgRules, Live, Closing
<1> QED BY <1>2, <1>3, <1>4, FcgKeeps, Types DEF FcgHandler, HandlerSet

(* What a command that kills the agent has to show.                        *)
LEMMA FcgDies ==
  ASSUME FcgInv, NEW why, Dies(why), events' \in 0..MaxEvents,
         why \in {"noTours", "params", "traceback", "endedTwice", "staleProducer"},
         why = "params" => \A k \in Keys : asked[k].count = 0,
         why = "traceback" => \E k \in Keys : tour[k].error,
         why = "endedTwice" => "phantom" \in marks
  PROVE  FcgInv'
<1>1. cause' = why /\ UNCHANGED <<conn, reads, tour, writes, hnd, asked, answered, marks>>
  BY DEF Dies
<1>2. TypeOK'
  BY <1>1, TypesKept, Types DEF FcgInv
<1>3. FcgDeathsExplained'
  BY <1>1 DEF FcgDeathsExplained
<1>4. (NoneTwice' <=> NoneTwice) /\ \A j \in Keys : Queued(j)' <=> Queued(j)
  BY <1>1, QueueSame
<1>5. ASSUME NEW j \in Keys PROVE Sound(tour'[j]) /\ RecordRules(j)' /\ FcgRules(j)'
  <2>1. Sound(tour[j]) /\ RecordRules(j) /\ FcgRules(j) /\ (Live(j)' <=> Live(j))
    BY <1>1, FcgRequest DEF Live
  <2> QED BY <1>1, <1>4, <2>1 DEF RecordRules, FcgRules
<1>6. FcgHandler'
  BY <1>1 DEF FcgInv, FcgHandler
<1> QED BY <1>1, <1>2, <1>3, <1>4, <1>5, <1>6 DEF FcgInv

(* A response ends, under the protocols of records.                        *)
LEMMA RecordAnswers ==
  ASSUME TypeOK, NoneTwice, NEW k \in Keys, NEW t \in TourSet, Sound(t), NEW keep \in BOOLEAN,
         t.state = "ended" <=> Queued(k), Answer(k, t, keep)
  PROVE  /\ tour' \in [Keys -> TourSet] /\ writes' \in Seq(Ends) /\ answered' \in [Keys -> Nat]
         /\ NoneTwice' /\ Queued(k)'
         /\ \A j \in Keys \ {k} : /\ tour'[j] = tour[j] /\ answered'[j] = answered[j]
                                  /\ Queued(j)' <=> Queued(j)
         /\ Sound(tour'[k]) /\ tour'[k].state = "ended"
         /\ tour'[k].kind = t.kind /\ tour'[k].handler = t.handler /\ tour'[k].error = t.error
         /\ tour'[k].posted = t.posted /\ tour'[k].declared = t.declared
         /\ tour'[k].limit = t.limit /\ tour'[k].ended = t.ended
         /\ tour'[k].full = t.full /\ tour'[k].prod = t.prod
         /\ answered'[k] = IF t.state = "ended" THEN answered[k] ELSE answered[k] + 1
<1> DEFINE u == [t EXCEPT !.state = "ended"]
<1>1. /\ u \in TourSet /\ u.state = "ended" /\ u.kind = t.kind /\ u.declared = t.declared
      /\ u.handler = t.handler /\ u.error = t.error /\ u.posted = t.posted
      /\ u.limit = t.limit /\ u.full = t.full /\ u.ended = t.ended /\ u.prod = t.prod
  BY EndedFields
<1>2. /\ tour' \in [Keys -> TourSet] /\ writes' \in Seq(Ends) /\ answered' \in [Keys -> Nat]
      /\ tour'[k] = u
      /\ \A j \in Keys \ {k} : /\ tour'[j] = tour[j] /\ answered'[j] = answered[j]
                               /\ Queued(j)' <=> Queued(j)
      /\ t.state = "ended" => /\ answered'[k] = answered[k] /\ (Queued(k)' <=> Queued(k))
                              /\ NoneTwice' <=> NoneTwice
      /\ t.state # "ended" => /\ answered'[k] = answered[k] + 1 /\ Queued(k)'
                              /\ NoneTwice /\ ~Queued(k) => NoneTwice'
  BY AnswerSteps
<1> HIDE DEF u
<1>3. Sound(u)
  BY <1>1 DEF Sound
<1> QED BY <1>1, <1>2, <1>3

LEMMA FcgQuiet ==
  ASSUME FcgInv, Misplaced \/ StopReading \/ CloseRequest
  PROVE  FcgInv'
<1>1. /\ TypeOK /\ FcgHandler /\ reads \in {"on", "last", "off"} /\ conn \in {"open", "closing", "gone"}
      /\ events \in 0..MaxEvents
  BY Types DEF FcgInv
<1>2. CASE Misplaced
  BY <1>1, <1>2, FcgKeepsAll, ReceiveFields DEF Misplaced, Closes, Closing
<1>3. CASE StopReading
  BY <1>1, <1>3 DEF StopReading, FcgHandler
<1>4. CASE CloseRequest
  BY <1>1, <1>4, FcgKeepsAll DEF CloseRequest, Closing, Idle, Alive
<1> QED BY <1>2, <1>3, <1>4

(* What a command finds.                                                   *)
LEMMA FcgReceives ==
  ASSUME FcgInv, Receive
  PROVE  /\ events' \in 0..MaxEvents /\ cause = "none" /\ conn # "gone" /\ reads = "on"
         /\ conn \in {"open", "closing"}
BY ReceiveFields, Types DEF FcgInv, FcgHandler

LEMMA FcgBegins ==
  ASSUME FcgInv, NEW k \in Keys, BeginRequest(k)
  PROVE  FcgInv'
<1> DEFINE t == GetTour(k)
<1>1. /\ Receive /\ hnd.state = "begin" /\ answered[k] = asked[k].count /\ ~Queued(k) /\ Set(k, t)
      /\ hnd' = [hnd EXCEPT !.state = "params", !.key = k]
      /\ UNCHANGED <<cause, conn, reads, writes, asked, answered, marks>>
  BY DEF BeginRequest, Unused
<1>2. /\ TypeOK /\ tour[k] \in TourSet /\ asked[k].count \in Nat /\ answered[k] \in Nat
      /\ hnd \in HandlerSet /\ marks \subseteq Marks
      /\ NoneTwice /\ Sound(tour[k]) /\ RecordRules(k) /\ FcgRules(k) /\ FcgHandler /\ k # 0
  BY FcgRequest
<1>3. /\ events' \in 0..MaxEvents /\ cause = "none" /\ conn # "gone" /\ reads = "on"
  BY <1>1, FcgReceives
<1>4. /\ t \in TourSet /\ Sound(t) /\ t.state # "none"
      /\ Live(k) => t = tour[k]
      /\ ~Live(k) => t.state = "preparing" /\ t.prod = "none" /\ ~t.ended /\ ~t.handler
  BY <1>2, GetTourFields
<1>5. t.state = "preparing"
  BY <1>1, <1>2, <1>4 DEF RecordRules, TourSet
<1> HIDE DEF t
<1>6. /\ tour' \in [Keys -> TourSet] /\ tour'[k] = t
      /\ \A j \in Keys \ {k} : tour'[j] = tour[j]
  BY <1>1, <1>2, <1>4, SetSteps
<1>7. (NoneTwice' <=> NoneTwice) /\ \A j \in Keys : Queued(j)' <=> Queued(j)
  BY <1>1, QueueSame
<1>8. hnd' \in HandlerSet /\ hnd'.state = "params" /\ hnd'.key = k /\ hnd'.env = hnd.env /\ hnd.key = 0
  BY <1>1, <1>2 DEF HandlerSet, FcgHandler
<1>9. RecordRules(k)'
  BY <1>1, <1>2, <1>3, <1>4, <1>5, <1>6, <1>7 DEF RecordRules, Sound
<1>10. FcgRules(k)'
  BY <1>1, <1>2, <1>3, <1>4, <1>5, <1>6, <1>8 DEF FcgRules, Live
<1>11. ~hnd'.env => asked'[k].count = 0
  BY <1>1, <1>2, <1>8 DEF FcgHandler
<1> QED BY <1>1, <1>2, <1>3, <1>4, <1>6, <1>7, <1>8, <1>9, <1>10, <1>11, FcgKeeps, Types DEF Closing

LEMMA FcgParamsKeep ==
  ASSUME FcgInv, NEW k \in Keys, NEW whole \in BOOLEAN, Params(k, whole)
  PROVE  FcgInv'
<1> DEFINE t == GetTour(k)
<1>1. /\ Receive /\ hnd.state = "params" /\ hnd.key = k
  BY DEF Params, Reading
<1>2. /\ TypeOK /\ tour[k] \in TourSet /\ asked[k].count \in Nat /\ answered[k] \in Nat
      /\ hnd \in HandlerSet /\ marks \subseteq Marks
      /\ NoneTwice /\ Sound(tour[k]) /\ RecordRules(k) /\ FcgRules(k) /\ FcgHandler /\ k # 0
  BY FcgRequest
<1>3. /\ events' \in 0..MaxEvents /\ cause = "none" /\ conn # "gone" /\ reads = "on"
  BY <1>1, FcgReceives
<1>4. CASE ~whole /\ ~hnd.env
  BY <1>2, <1>3, <1>4, FcgDies DEF Params, FcgHandler
<1>5. CASE ~(~whole /\ ~hnd.env)
  <2>1. /\ Set(k, t) /\ hnd' = [hnd EXCEPT !.env = TRUE]
        /\ UNCHANGED <<cause, conn, reads, writes, asked, answered, marks>>
    BY <1>5 DEF Params
  <2>2. /\ t \in TourSet /\ Sound(t) /\ t.state # "none"
        /\ Live(k) => t = tour[k]
        /\ ~Live(k) => t.state = "preparing" /\ t.prod = "none" /\ ~t.ended /\ ~t.handler
    BY <1>2, GetTourFields
  <2>3. t.state = "preparing" /\ answered[k] = asked[k].count /\ ~Queued(k)
    BY <1>1, <1>2, <1>3, <2>2 DEF FcgRules, RecordRules, Live
  <2> HIDE DEF t
  <2>4. /\ tour' \in [Keys -> TourSet] /\ tour'[k] = t
        /\ \A j \in Keys \ {k} : tour'[j] = tour[j]
    BY <1>2, <2>1, <2>2, SetSteps
  <2>5. (NoneTwice' <=> NoneTwice) /\ \A j \in Keys : Queued(j)' <=> Queued(j)
    BY <2>1, QueueSame
  <2>6. hnd' \in HandlerSet /\ hnd'.state = "params" /\ hnd'.key = k /\ hnd'.env = TRUE
    BY <1>1, <1>2, <2>1 DEF HandlerSet
  <2>7. RecordRules(k)'
    BY <1>2, <1>3, <2>1, <2>2, <2>3, <2>4, <2>5 DEF RecordRules, Sound
  <2>8. FcgRules(k)'
    BY <1>1, <1>2, <1>3, <2>1, <2>2, <2>3, <2>4, <2>6 DEF FcgRules, Live
  <2> QED BY <1>1, <1>2, <1>3, <2>1, <2>2, <2>4, <2>5, <2>6, <2>7, <2>8, FcgKeeps, Types DEF Closing
<1> QED BY <1>4, <1>5

LEMMA FcgParamsEndKeeps ==
  ASSUME FcgInv, NEW k \in Keys, NEW kind \in Kinds, NEW declared \in 0..MaxLength,
         ParamsEnd(k, kind, declared)
  PROVE  FcgInv'
<1> DEFINE g == GetTour(k)
           t == [g EXCEPT !.kind = kind, !.declared = declared]
<1>1. /\ Receive /\ hnd.state = "params" /\ hnd.key = k
  BY DEF ParamsEnd, Reading
<1>2. /\ TypeOK /\ tour[k] \in TourSet /\ asked[k].count \in Nat /\ answered[k] \in Nat
      /\ hnd \in HandlerSet /\ marks \subseteq Marks
      /\ NoneTwice /\ Sound(tour[k]) /\ RecordRules(k) /\ FcgRules(k) /\ FcgHandler /\ k # 0
  BY FcgRequest
<1>3. /\ events' \in 0..MaxEvents /\ cause = "none" /\ conn # "gone" /\ reads = "on"
  BY <1>1, FcgReceives
<1>4. /\ g \in TourSet /\ Sound(g) /\ g.state # "none"
      /\ Live(k) => g = tour[k]
      /\ ~Live(k) => g.state = "preparing" /\ g.prod = "none" /\ ~g.ended /\ ~g.handler
  BY <1>2, GetTourFields
<1>5. g.state = "preparing" /\ answered[k] = asked[k].count /\ ~Queued(k)
  BY <1>1, <1>2, <1>3, <1>4 DEF FcgRules, RecordRules, Live
<1>6. g.ended => "phantom" \in marks
  BY <1>1, <1>2, <1>4 DEF FcgRules
<1>7. /\ t \in TourSet /\ t.state = "preparing" /\ t.kind = kind /\ t.declared = declared
      /\ ~t.handler /\ ~t.error /\ t.prod = "none" /\ ~t.full /\ t.ended = g.ended
  <2> HIDE DEF g
  <2> QED BY <1>4, <1>5 DEF TourSet, Sound
<1>8. declared \in Nat
  BY Types
<1>9. CASE ~hnd.env
  <2>1. Dies("params")
    BY <1>9 DEF ParamsEnd
  <2> QED BY <1>2, <1>3, <1>9, <2>1, FcgDies DEF FcgHandler
<1>10. CASE hnd.env
  <2>1. /\ Asks(k, declared) /\ hnd' = [hnd EXCEPT !.state = "stdin"]
        /\ kind # "nowhere" => Set(k, Entered(t)) /\ UNCHANGED <<writes, answered>>
        /\ kind = "nowhere" /\ declared = 0 => Answer(k, Go(t), TRUE)
        /\ kind = "nowhere" /\ declared # 0 =>
             /\ Set(k, [Go(t) EXCEPT !.error = TRUE, !.handler = TRUE])
             /\ UNCHANGED <<writes, answered>>
        /\ UNCHANGED <<cause, conn, reads, marks>>
    BY <1>7, <1>10 DEF ParamsEnd
  <2> HIDE DEF t
  <2>2. /\ asked' \in [Keys -> Asking] /\ asked'[k].count = asked[k].count + 1
        /\ asked'[k].declared = declared /\ asked'[k].body = 0 /\ asked'[k].ended = FALSE
        /\ \A j \in Keys \ {k} : asked'[j] = asked[j]
    BY <1>2, <2>1, AskSteps
  <2>3. hnd' \in HandlerSet /\ hnd'.state = "stdin" /\ hnd'.key = k /\ hnd'.env = TRUE
    BY <1>1, <1>2, <1>10, <2>1 DEF HandlerSet
  <2>4. ASSUME NEW u \in TourSet, Sound(u), Set(k, u), UNCHANGED <<writes, answered>>,
               u.state \in {"reading", "running"}, u.handler, u.ended = g.ended,
               u.kind = "nowhere" => u.error
        PROVE  FcgInv'
    <3>1. /\ tour' \in [Keys -> TourSet] /\ tour'[k] = u
          /\ \A j \in Keys \ {k} : tour'[j] = tour[j]
      BY <1>2, <2>4, SetSteps
    <3>2. (NoneTwice' <=> NoneTwice) /\ \A j \in Keys : Queued(j)' <=> Queued(j)
      BY <2>4, QueueSame
    <3>3. RecordRules(k)'
      BY <1>2, <1>3, <1>5, <2>1, <2>2, <2>4, <3>1, <3>2 DEF RecordRules
    <3>4. FcgRules(k)'
      BY <1>2, <1>3, <1>5, <1>6, <2>1, <2>2, <2>3, <2>4, <3>1 DEF FcgRules, Live
    <3> QED BY <1>1, <1>2, <1>3, <2>1, <2>2, <2>3, <2>4, <3>1, <3>2, <3>3, <3>4, FcgKeeps, Types DEF Closing
  <2>5. CASE kind # "nowhere"
    <3> DEFINE u == Entered(t)
    <3>1. /\ u \in TourSet /\ u.kind = kind /\ u.declared = declared /\ u.handler
          /\ ~u.error /\ u.ended = g.ended /\ ~u.full
          /\ u.prod = IF kind = "slow" THEN "busy" ELSE "none"
          /\ declared > 0 => u.state = "reading" /\ u.limit = declared
          /\ declared = 0 => u.state = "running"
      BY <1>7, EnteredFields
    <3>2. Set(k, u) /\ UNCHANGED <<writes, answered>>
      BY <2>1, <2>5
    <3> HIDE DEF u
    <3>3. Sound(u) /\ u.state \in {"reading", "running"}
      BY <1>8, <2>5, <3>1 DEF Sound
    <3> QED BY <2>4, <2>5, <3>1, <3>2, <3>3
  <2>6. CASE kind = "nowhere" /\ declared # 0
    <3> DEFINE u == [Go(t) EXCEPT !.error = TRUE, !.handler = TRUE]
    <3>1. /\ u \in TourSet /\ u.kind = kind /\ u.declared = declared /\ u.handler
          /\ u.error /\ u.ended = g.ended /\ ~u.full /\ u.prod = "none"
          /\ declared > 0 => u.state = "reading" /\ u.limit = declared
      BY <1>7, RefusedFields
    <3>2. Set(k, u) /\ UNCHANGED <<writes, answered>>
      BY <2>1, <2>6
    <3> HIDE DEF u
    <3>3. Sound(u) /\ u.state \in {"reading", "running"}
      BY <1>8, <2>6, <3>1 DEF Sound
    <3> QED BY <2>4, <2>6, <3>1, <3>2, <3>3
  <2>7. CASE kind = "nowhere" /\ declared = 0
    <3> DEFINE v == Go(t)
    <3>1. /\ v \in TourSet /\ v.kind = "nowhere" /\ v.declared = 0 /\ ~v.handler
          /\ ~v.error /\ v.ended = g.ended /\ ~v.full /\ v.prod = "none" /\ v.state = "running"
      BY <1>7, <2>7, GoFields
    <3>2. Answer(k, v, TRUE)
      BY <2>1, <2>7
    <3> HIDE DEF v
    <3>3. Sound(v)
      BY <3>1 DEF Sound
    <3>4. /\ tour' \in [Keys -> TourSet] /\ writes' \in Seq(Ends) /\ answered' \in [Keys -> Nat]
          /\ NoneTwice' /\ Queued(k)'
          /\ \A j \in Keys \ {k} : /\ tour'[j] = tour[j] /\ answered'[j] = answered[j]
                                   /\ Queued(j)' <=> Queued(j)
          /\ Sound(tour'[k]) /\ tour'[k].state = "ended" /\ ~tour'[k].handler /\ tour'[k].ended = g.ended
          /\ answered'[k] = answered[k] + 1
      BY <1>2, <1>5, <3>1, <3>2, <3>3, RecordAnswers
    <3>5. RecordRules(k)'
      BY <1>2, <1>3, <1>5, <2>1, <2>2, <3>4 DEF RecordRules
    <3>6. FcgRules(k)'
      BY <1>2, <1>3, <1>5, <1>6, <2>1, <2>2, <2>3, <3>4 DEF FcgRules, Live
    <3> QED BY <1>1, <1>2, <1>3, <2>1, <2>2, <2>3, <3>4, <3>5, <3>6, FcgKeeps, Types DEF Closing
  <2> QED BY <2>5, <2>6, <2>7
<1> QED BY <1>9, <1>10

(* An HttpException while the body is read.                                *)
LEMMA FcgRejectsKeep ==
  ASSUME FcgInv, NEW k \in Keys, Receive, hnd.state = "stdin", hnd.key = k,
         FcgRejects(k, GetTour(k))
  PROVE  FcgInv'
<1> DEFINE t == GetTour(k)
<1>1. /\ hnd' = ResetState(hnd) /\ UNCHANGED <<cause, conn, reads, asked>>
  BY DEF FcgRejects
<1>2. /\ TypeOK /\ tour[k] \in TourSet /\ asked[k].count \in Nat /\ answered[k] \in Nat
      /\ hnd \in HandlerSet /\ marks \subseteq Marks
      /\ NoneTwice /\ Sound(tour[k]) /\ RecordRules(k) /\ FcgRules(k) /\ FcgHandler /\ k # 0
  BY FcgRequest
<1>3. /\ events' \in 0..MaxEvents /\ cause = "none" /\ conn # "gone" /\ reads = "on"
  BY FcgReceives
<1>4. /\ t \in TourSet /\ Sound(t) /\ t.state # "none"
      /\ Live(k) => t = tour[k]
      /\ ~Live(k) => t.state = "preparing" /\ t.prod = "none" /\ ~t.ended /\ ~t.handler
  BY <1>2, GetTourFields
<1>5. hnd' \in HandlerSet /\ hnd'.state = "begin" /\ hnd'.key = 0 /\ hnd'.env = hnd.env
  BY <1>1, <1>2 DEF HandlerSet, ResetState
<1>6. ~hnd'.env => asked'[k].count = 0
  BY <1>1, <1>2, <1>5 DEF FcgHandler
<1>7. CASE Abandons(t)
  <2>1. Set(k, NoTour) /\ marks' = marks \cup {"dropped"} /\ UNCHANGED <<writes, answered>>
    BY <1>7 DEF FcgRejects
  <2>2. ~Queued(k)
    BY <1>2, <1>4, <1>7 DEF Abandons, RecordRules, Live
  <2> HIDE DEF t
  <2>3. /\ tour' \in [Keys -> TourSet] /\ tour'[k] = NoTour
        /\ \A j \in Keys \ {k} : tour'[j] = tour[j]
    BY <1>2, <2>1, SetSteps, NoTourFields
  <2>4. (NoneTwice' <=> NoneTwice) /\ \A j \in Keys : Queued(j)' <=> Queued(j)
    BY <2>1, QueueSame
  <2>5. marks' \subseteq Marks /\ marks \subseteq marks' /\ "dropped" \in marks'
    BY <1>2, <2>1 DEF Marks
  <2>6. RecordRules(k)'
    BY <1>1, <1>2, <1>3, <2>1, <2>2, <2>3, <2>4, NoTourFields DEF RecordRules
  <2>7. FcgRules(k)'
    BY <1>1, <1>2, <1>3, <1>5, <2>3, <2>5, NoTourFields DEF FcgRules, Live
  <2> QED BY <1>1, <1>2, <1>3, <1>5, <1>6, <2>1, <2>3, <2>4, <2>5, <2>6, <2>7, NoTourFields,
             FcgKeeps, Types DEF Closing
<1>8. CASE ~Abandons(t)
  <2> DEFINE v == Kill(t)
  <2>1. Answer(k, v, TRUE) /\ marks' = marks
    BY <1>8 DEF FcgRejects
  <2>2. t = tour[k] /\ t.state \in {"reading", "running", "ended"}
    BY <1>4, <1>8 DEF Abandons, TourSet
  <2>3. /\ v \in TourSet /\ v.state = t.state /\ v.kind = t.kind /\ v.declared = t.declared
        /\ v.handler = t.handler /\ v.error = t.error /\ v.posted = t.posted
        /\ v.limit = t.limit /\ v.full = t.full /\ v.ended = t.ended
        /\ v.prod = "none" <=> t.prod = "none"
        /\ v.prod # t.prod => t.kind = "slow"
    BY <1>4, KillFields
  <2> HIDE DEF v, t
  <2>4. Sound(v)
    BY <1>4, <2>3 DEF Sound
  <2>5. /\ tour' \in [Keys -> TourSet] /\ writes' \in Seq(Ends) /\ answered' \in [Keys -> Nat]
        /\ NoneTwice' /\ Queued(k)'
        /\ \A j \in Keys \ {k} : /\ tour'[j] = tour[j] /\ answered'[j] = answered[j]
                                 /\ Queued(j)' <=> Queued(j)
        /\ Sound(tour'[k]) /\ tour'[k].state = "ended" /\ tour'[k].handler = t.handler
        /\ tour'[k].kind = t.kind /\ tour'[k].error = t.error
        /\ answered'[k] = IF t.state = "ended" THEN answered[k] ELSE answered[k] + 1
    <3>1. v.state = "ended" <=> Queued(k)
      BY <1>2, <2>2, <2>3 DEF RecordRules
    <3> QED BY <1>2, <2>1, <2>3, <2>4, <3>1, RecordAnswers
  <2>6. answered'[k] = asked[k].count
    BY <1>2, <2>2, <2>5 DEF FcgRules
  <2>7. RecordRules(k)'
    BY <1>1, <1>2, <1>3, <2>2, <2>5, <2>6 DEF RecordRules
  <2>8. FcgRules(k)'
    BY <1>1, <1>2, <1>3, <1>5, <2>1, <2>5, <2>6 DEF FcgRules, Live
  <2> QED BY <1>1, <1>2, <1>3, <1>5, <1>6, <2>1, <2>5, <2>7, <2>8, FcgKeeps, Types DEF Closing
<1> QED BY <1>7, <1>8

LEMMA FcgStdInKeeps ==
  ASSUME FcgInv, NEW k \in Keys, NEW n \in 1..MaxLength, NEW fills \in BOOLEAN, StdIn(k, n, fills)
  PROVE  FcgInv'
<1> DEFINE t == GetTour(k)
           u == Post(t, n, fills)
<1>1. Receive /\ hnd.state = "stdin" /\ hnd.key = k
  BY DEF StdIn, Reading
<1>2. /\ TypeOK /\ tour[k] \in TourSet /\ asked[k].count \in Nat /\ answered[k] \in Nat
      /\ hnd \in HandlerSet /\ marks \subseteq Marks /\ n \in Nat
      /\ NoneTwice /\ Sound(tour[k]) /\ RecordRules(k) /\ FcgRules(k) /\ FcgHandler /\ k # 0
  BY FcgRequest, Types
<1>3. /\ events' \in 0..MaxEvents /\ cause = "none" /\ conn # "gone" /\ reads = "on"
  BY <1>1, FcgReceives
<1>4. CASE Posting(t, n) \in {"notReading", "tooLong"}
  <2>1. FcgRejects(k, t)
    BY <1>4 DEF StdIn
  <2> QED BY <1>1, <2>1, FcgRejectsKeep
<1>5. CASE Posting(t, n) \notin {"notReading", "tooLong"}
  <2>1. /\ Set(k, u) /\ asked' = [asked EXCEPT ![k].body = @ + n]
        /\ UNCHANGED <<cause, conn, reads, writes, hnd, answered, marks>>
    BY <1>5 DEF StdIn
  <2>2. /\ t \in TourSet /\ Sound(t) /\ t.state # "none"
        /\ Live(k) => t = tour[k]
        /\ ~Live(k) => t.state = "preparing" /\ ~t.error
    BY <1>2, GetTourFields
  <2>3. t = tour[k] /\ Live(k)
    BY <1>2, <1>5, <2>2, PostingIs
  <2>4. /\ u \in TourSet /\ u.state = t.state /\ u.kind = t.kind /\ u.declared = t.declared
        /\ u.handler = t.handler /\ u.error = t.error /\ u.limit = t.limit
        /\ u.ended = t.ended /\ u.prod = t.prod
        /\ u.full => t.full \/ (t.kind = "slow" /\ t.state = "reading" /\ t.handler)
    BY <1>2, <2>2, PostFields
  <2> HIDE DEF t, u
  <2>5. Sound(u)
    BY <2>2, <2>4 DEF Sound
  <2>6. /\ tour' \in [Keys -> TourSet] /\ tour'[k] = u
        /\ \A j \in Keys \ {k} : tour'[j] = tour[j]
    BY <1>2, <2>1, <2>4, SetSteps
  <2>7. (NoneTwice' <=> NoneTwice) /\ \A j \in Keys : Queued(j)' <=> Queued(j)
    BY <2>1, QueueSame
  <2>8. /\ asked' \in [Keys -> Asking] /\ asked'[k].count = asked[k].count
        /\ asked'[k].ended = asked[k].ended
        /\ \A j \in Keys \ {k} : asked'[j] = asked[j]
    BY <1>2, <2>1, BodySteps
  <2>9. RecordRules(k)'
    BY <1>2, <1>3, <2>1, <2>3, <2>4, <2>6, <2>7, <2>8 DEF RecordRules
  <2>10. FcgRules(k)'
    BY <1>1, <1>2, <1>3, <2>1, <2>3, <2>4, <2>6, <2>8 DEF FcgRules, Live
  <2> QED BY <1>1, <1>2, <1>3, <2>1, <2>5, <2>6, <2>7, <2>8, <2>9, <2>10, FcgKeeps, Types
          DEF Closing, FcgHandler
<1> QED BY <1>4, <1>5

LEMMA FcgStdInEndKeeps ==
  ASSUME FcgInv, NEW k \in Keys, StdInEnd(k)
  PROVE  FcgInv'
<1> DEFINE t == GetTour(k)
<1>1. Receive /\ hnd.state = "stdin" /\ hnd.key = k
  BY DEF StdInEnd, Reading
<1>2. /\ TypeOK /\ tour[k] \in TourSet /\ asked[k].count \in Nat /\ answered[k] \in Nat
      /\ asked[k] \in Asking /\ hnd \in HandlerSet /\ marks \subseteq Marks
      /\ NoneTwice /\ Sound(tour[k]) /\ RecordRules(k) /\ FcgRules(k) /\ FcgHandler /\ k # 0
  BY FcgRequest
<1>3. /\ events' \in 0..MaxEvents /\ cause = "none" /\ conn # "gone" /\ reads = "on"
      /\ conn \in {"open", "closing"}
  BY <1>1, FcgReceives
<1>4. /\ t \in TourSet /\ Sound(t) /\ t.state # "none"
      /\ Live(k) => t = tour[k]
      /\ ~Live(k) => t.state = "preparing" /\ t.prod = "none" /\ ~t.ended /\ ~t.handler /\ ~t.error
  BY <1>2, GetTourFields
<1>5. CASE t.error
  <2>1. Dies("traceback")
    BY <1>5 DEF StdInEnd
  <2>2. tour[k].error
    BY <1>4, <1>5
  <2> QED BY <1>3, <2>1, <2>2, FcgDies
<1>6. CASE ~t.error /\ EndOf(t) = "endedTwice"
  <2>1. Dies("endedTwice")
    BY <1>6 DEF StdInEnd
  <2>2. t.ended
    BY <1>4, <1>6, EndFields
  <2>3. "phantom" \in marks
    BY <1>1, <1>2, <1>4, <2>2 DEF FcgRules
  <2> QED BY <1>3, <2>1, <2>3, FcgDies
<1>7. CASE ~t.error /\ EndOf(t) = "invalid"
  <2>1. Refused(k)
    BY <1>7 DEF StdInEnd
  <2>2. /\ Set(k, t) /\ conn' = "closing" /\ reads' = "off"
        /\ UNCHANGED <<cause, writes, hnd, asked, answered, marks>>
    BY <2>1 DEF Refused, Closes
  <2> HIDE DEF t
  <2>3. /\ tour' \in [Keys -> TourSet] /\ tour'[k] = t
        /\ \A j \in Keys \ {k} : tour'[j] = tour[j]
    BY <1>2, <1>4, <2>2, SetSteps
  <2>4. (NoneTwice' <=> NoneTwice) /\ \A j \in Keys : Queued(j)' <=> Queued(j)
    BY <2>2, QueueSame
  <2>5. RecordRules(k)'
    BY <1>2, <1>3, <1>4, <2>2, <2>3, <2>4 DEF RecordRules, Sound, Live
  <2>6. FcgRules(k)'
    BY <1>1, <1>2, <1>3, <1>4, <2>2, <2>3 DEF FcgRules, Live
  <2> QED BY <1>1, <1>2, <1>3, <1>4, <2>2, <2>3, <2>4, <2>5, <2>6, FcgKeeps, Types
          DEF Closing, FcgHandler
<1>8. CASE ~t.error /\ EndOf(t) = "http"
  <2>1. FcgRejects(k, t)
    BY <1>8 DEF StdInEnd
  <2> QED BY <1>1, <2>1, FcgRejectsKeep
<1>9. CASE ~t.error /\ EndOf(t) = "ok"
  <2> DEFINE u == EndContent(t)
  <2>1. /\ Set(k, u) /\ hnd' = ResetState(hnd)
        /\ asked' = [asked EXCEPT ![k].ended = TRUE]
        /\ marks' = IF Live(k) THEN marks ELSE marks \cup {"phantom"}
        /\ UNCHANGED <<cause, conn, reads, writes, answered>>
    BY <1>9 DEF StdInEnd
  <2>2. /\ u \in TourSet /\ u.state = t.state /\ u.kind = t.kind /\ u.declared = t.declared
        /\ u.handler = t.handler /\ u.error = t.error /\ u.limit = t.limit
        /\ u.full = t.full /\ u.ended
        /\ u.prod = IF t.handler /\ t.kind = "file" THEN "busy" ELSE t.prod
        /\ ~(t.handler /\ t.kind = "missing")
    BY <1>4, <1>9, EndFields
  <2> HIDE DEF t, u
  <2>3. Sound(u)
    BY <1>4, <2>2 DEF Sound
  <2>4. /\ tour' \in [Keys -> TourSet] /\ tour'[k] = u
        /\ \A j \in Keys \ {k} : tour'[j] = tour[j]
    BY <1>2, <2>1, <2>2, SetSteps
  <2>5. (NoneTwice' <=> NoneTwice) /\ \A j \in Keys : Queued(j)' <=> Queued(j)
    BY <2>1, QueueSame
  <2>6. hnd' \in HandlerSet /\ hnd'.state = "begin" /\ hnd'.key = 0 /\ hnd'.env = hnd.env
    BY <1>2, <2>1 DEF HandlerSet, ResetState
  <2>7. /\ asked' \in [Keys -> Asking] /\ asked'[k].count = asked[k].count
        /\ \A j \in Keys \ {k} : asked'[j] = asked[j]
    BY <1>2, <2>1, Types DEF Asking
  <2>8. marks' \subseteq Marks /\ marks \subseteq marks' /\ (~Live(k) => "phantom" \in marks')
    BY <1>2, <2>1 DEF Marks
  <2>9. u.state \in {"reading", "running"} => u.prod # "none" /\ Live(k)
    BY <1>2, <1>4, <1>9, <2>2 DEF RecordRules, Sound, TourSet
  <2>10. RecordRules(k)'
    BY <1>2, <1>3, <1>4, <2>1, <2>2, <2>4, <2>5, <2>7 DEF RecordRules, Live
  <2>11. u.state = "preparing" => ~Live(k)
    BY <1>1, <1>2, <1>3, <1>4, <2>2 DEF FcgRules
  <2>12. answered[k] = asked[k].count \/ "dropped" \in marks' \/ u.prod # "none"
    BY <1>2, <1>3, <1>4, <2>2, <2>8, <2>9, <2>11 DEF FcgRules, TourSet
  <2>13. FcgRules(k)'
    BY <1>2, <1>3, <1>4, <2>1, <2>2, <2>4, <2>6, <2>7, <2>8, <2>9, <2>11, <2>12 DEF FcgRules, Live
  <2>14. ~hnd'.env => asked'[k].count = 0
    BY <1>2, <2>6, <2>7 DEF FcgHandler
  <2> QED BY <1>1, <1>2, <1>3, <2>1, <2>3, <2>4, <2>5, <2>6, <2>7, <2>8, <2>10, <2>13, <2>14,
             FcgKeeps, Types DEF Closing
<1> QED BY <1>4, <1>5, <1>6, <1>7, <1>8, <1>9, EndFields

LEMMA FcgDeaths ==
  ASSUME FcgInv, NEW k \in Keys, FcgNoTours(k) \/ StaleProducer
  PROVE  FcgInv'
<1>1. events \in 0..MaxEvents
  BY FcgRequest
<1>2. CASE FcgNoTours(k)
  BY <1>2, FcgDies, FcgReceives DEF FcgNoTours
<1>3. CASE StaleProducer
  BY <1>1, <1>3, FcgDies DEF StaleProducer
<1> QED BY <1>2, <1>3

LEMMA FcgConsumedKeeps ==
  ASSUME FcgInv, NEW k \in Keys, FcgConsumed(k)
  PROVE  FcgInv'
<1> DEFINE t == tour[k]
           u == [t EXCEPT !.full = FALSE]
<1>1. /\ cause = "none" /\ Set(k, u)
      /\ UNCHANGED <<cause, conn, reads, writes, hnd, asked, answered, marks, events>>
  BY DEF FcgConsumed, Idle, Alive
<1>2. /\ TypeOK /\ t \in TourSet /\ hnd \in HandlerSet /\ marks \subseteq Marks /\ events \in 0..MaxEvents
      /\ NoneTwice /\ Sound(t) /\ RecordRules(k) /\ FcgRules(k) /\ FcgHandler
  BY FcgRequest
<1>3. /\ u \in TourSet /\ u.state = t.state /\ u.kind = t.kind /\ u.declared = t.declared
      /\ u.handler = t.handler /\ u.error = t.error /\ u.limit = t.limit
      /\ u.ended = t.ended /\ u.prod = t.prod /\ ~u.full
  BY <1>2 DEF TourSet
<1> HIDE DEF u
<1>4. /\ tour' \in [Keys -> TourSet] /\ tour'[k] = u
      /\ \A j \in Keys \ {k} : tour'[j] = tour[j]
  BY <1>1, <1>2, <1>3, SetSteps
<1>5. (NoneTwice' <=> NoneTwice) /\ \A j \in Keys : Queued(j)' <=> Queued(j)
  BY <1>1, QueueSame
<1>6. Sound(u) /\ RecordRules(k)'
  BY <1>1, <1>2, <1>3, <1>4, <1>5 DEF Sound, RecordRules
<1>7. FcgRules(k)'
  BY <1>1, <1>2, <1>3, <1>4 DEF FcgRules, Live
<1> QED BY <1>1, <1>2, <1>4, <1>5, <1>6, <1>7, FcgKeeps, Types DEF Closing, FcgHandler

LEMMA FcgProducesKeeps ==
  ASSUME FcgInv, NEW k \in Keys, NEW keep \in BOOLEAN, Produces(k, keep)
  PROVE  FcgInv'
<1> DEFINE o == tour[k]
           t == [o EXCEPT !.prod = "none"]
<1>1. /\ TypeOK /\ o \in TourSet /\ asked[k].count \in Nat /\ answered[k] \in Nat
      /\ hnd \in HandlerSet /\ marks \subseteq Marks /\ events \in 0..MaxEvents
      /\ NoneTwice /\ Sound(o) /\ RecordRules(k) /\ FcgRules(k) /\ FcgHandler
  BY FcgRequest
<1>2. /\ cause = "none" /\ o.prod # "none" /\ UNCHANGED <<cause, conn, reads, hnd, asked, events>>
  BY DEF Produces, Idle, Alive
<1>3. o.handler /\ o.state \in {"reading", "running", "ended"}
  BY <1>1, <1>2 DEF Sound, TourSet
<1>4. CASE conn = "gone"
  <2>1. Set(k, NoTour) /\ UNCHANGED <<writes, answered, marks>>
    BY <1>4 DEF Produces
  <2>2. /\ tour' \in [Keys -> TourSet] /\ tour'[k] = NoTour
        /\ \A j \in Keys \ {k} : tour'[j] = tour[j]
    BY <1>1, <2>1, SetSteps, NoTourFields
  <2>3. (NoneTwice' <=> NoneTwice) /\ \A j \in Keys : Queued(j)' <=> Queued(j)
    BY <2>1, QueueSame
  <2>4. Sound(tour'[k]) /\ RecordRules(k)'
    BY <1>1, <1>2, <1>4, <2>1, <2>2, <2>3, NoTourFields DEF RecordRules
  <2>5. FcgRules(k)'
    BY <1>1, <1>2, <1>3, <1>4, <2>1, <2>2, NoTourFields DEF FcgRules, FcgHandler
  <2> QED BY <1>1, <1>2, <2>1, <2>2, <2>3, <2>4, <2>5, FcgKeeps, Types DEF Closing, FcgHandler
<1>5. CASE conn # "gone"
  <2>1. Answer(k, t, keep) /\ marks' = IF t.full THEN marks \cup {"unread"} ELSE marks
    BY <1>5 DEF Produces
  <2>2. /\ t \in TourSet /\ t.state = o.state /\ t.kind = o.kind /\ t.handler = o.handler
        /\ t.error = o.error /\ t.full = o.full /\ t.prod = "none" /\ t.declared = o.declared
        /\ t.limit = o.limit /\ t.ended = o.ended
    BY <1>1 DEF TourSet
  <2>3. marks \subseteq marks' /\ marks' \subseteq Marks
    BY <1>1, <2>1 DEF Marks
  <2> HIDE DEF t
  <2> DEFINE w == [t EXCEPT !.state = "ended"]
  <2>4. /\ tour' \in [Keys -> TourSet] /\ writes' \in Seq(Ends) /\ answered' \in [Keys -> Nat]
        /\ tour'[k] = w
        /\ \A j \in Keys \ {k} : /\ tour'[j] = tour[j] /\ answered'[j] = answered[j]
                                 /\ Queued(j)' <=> Queued(j)
        /\ t.state = "ended" => /\ answered'[k] = answered[k] /\ (Queued(k)' <=> Queued(k))
                                /\ NoneTwice' <=> NoneTwice
        /\ t.state # "ended" => /\ answered'[k] = answered[k] + 1 /\ Queued(k)'
                                /\ NoneTwice /\ ~Queued(k) => NoneTwice'
    BY <1>1, <2>1, <2>2, AnswerSteps
  <2>5. /\ w.state = "ended" /\ w.kind = o.kind /\ w.prod = "none" /\ w.handler = o.handler
        /\ w.error = o.error /\ w.full = o.full /\ w.ended = o.ended
    BY <2>2, EndedFields
  <2> HIDE DEF w
  <2>6. NoneTwice' /\ Queued(k)' /\ answered'[k] = asked[k].count
    BY <1>1, <1>3, <2>2, <2>4 DEF RecordRules, FcgRules
  <2>7. Sound(tour'[k])
    BY <1>1, <1>3, <2>4, <2>5 DEF Sound
  <2>8. RecordRules(k)'
    BY <1>1, <1>2, <1>5, <2>4, <2>5, <2>6 DEF RecordRules
  <2>9. FcgRules(k)'
    BY <1>1, <1>2, <1>3, <1>5, <2>3, <2>4, <2>5, <2>6 DEF FcgRules, Live
  <2> QED BY <1>1, <1>2, <2>3, <2>4, <2>6, <2>7, <2>8, <2>9, FcgKeeps, Types DEF Closing, FcgHandler
<1> QED BY <1>4, <1>5

LEMMA FcgWroteKeeps ==
  ASSUME FcgInv, Wrote
  PROVE  FcgInv'
<1>1. /\ TypeOK /\ FcgHandler /\ reads \in {"on", "last", "off"}
      /\ cause = "none" /\ conn # "gone" /\ events' = events /\ events \in 0..MaxEvents
  BY WroteSteps, Types DEF FcgInv
<1>2. PICK k \in Keys :
              /\ Queued(k) /\ ~Dying(k)
              /\ \/ ~Live(k) /\ Dies("returnedTwice")
                 \/ /\ Live(k) /\ tour' \in [Keys -> TourSet] /\ tour'[k] = NoTour
                    /\ \A j \in Keys \ {k} : tour'[j] = tour[j] /\ (Queued(j)' <=> Queued(j))
                    /\ writes' \in Seq(Ends)
                    /\ Queued(k)' => Queued(k)
                    /\ NoneTwice => NoneTwice' /\ ~Queued(k)'
                    /\ Closing /\ (conn' = conn \/ conn' = "closing")
                    /\ marks' = IF tour[k].prod # "none" THEN marks \cup {"staleProducer"} ELSE marks
                    /\ UNCHANGED <<cause, reads, hnd, asked, answered>>
  BY <1>1, WroteSteps
<1>3. /\ NoneTwice /\ Sound(tour[k]) /\ RecordRules(k) /\ FcgRules(k) /\ marks \subseteq Marks
      /\ hnd \in HandlerSet
  BY FcgRequest
<1>4. tour[k].state = "ended" /\ Live(k) /\ answered[k] = asked[k].count
  BY <1>2, <1>3 DEF RecordRules, FcgRules, Live
<1>5. marks \subseteq marks' /\ marks' \subseteq Marks
  BY <1>2, <1>3, <1>4 DEF Marks
<1>6. RecordRules(k)'
  BY <1>1, <1>2, <1>3, <1>4, NoTourFields DEF RecordRules
<1>7. FcgRules(k)'
  BY <1>1, <1>2, <1>3, <1>4, <1>5, NoTourFields DEF FcgRules
<1> QED BY <1>1, <1>2, <1>3, <1>4, <1>5, <1>6, <1>7, NoTourFields, FcgKeeps, Types DEF FcgHandler

LEMMA FcgOnClosedKeeps ==
  ASSUME FcgInv, OnClosed
  PROVE  FcgInv'
<1>1. /\ TypeOK /\ NoneTwice /\ FcgHandler /\ marks \subseteq Marks /\ events \in 0..MaxEvents
      /\ \A k \in Keys : tour[k] \in TourSet /\ Sound(tour[k]) /\ RecordRules(k) /\ FcgRules(k)
  BY FcgRequest, Types DEF FcgInv
<1>2. cause = "none" /\ conn = "closing" /\ events' = events
  BY <1>1, ClosedSteps
<1>3. \A k \in Keys : Queued(k) => Live(k)
  BY <1>1 DEF RecordRules, Live
<1>4. /\ conn' = "gone" /\ reads' = "off" /\ writes' \in Seq(Ends) /\ NoneTwice'
      /\ \A k \in Keys : ~Queued(k)'
      /\ tour' \in [Keys -> TourSet]
      /\ \A k \in Keys : tour'[k] = IF Queued(k) \/ Abandons(tour[k]) THEN NoTour
                                    ELSE Kill(tour[k])
      /\ marks \subseteq marks' /\ marks' \subseteq marks \cup {"staleProducer"}
      /\ UNCHANGED <<cause, hnd, asked, answered>>
  BY <1>1, <1>3, ClosedSteps
<1>5. marks' \subseteq Marks
  BY <1>1, <1>4 DEF Marks
<1>6. TypeOK' /\ FcgDeathsExplained' /\ FcgHandler'
  BY <1>1, <1>2, <1>4, <1>5, TypesKept, Types DEF FcgDeathsExplained, FcgHandler
<1>7. ASSUME NEW k \in Keys PROVE Sound(tour'[k]) /\ RecordRules(k)' /\ FcgRules(k)'
  <2>1. CASE Queued(k) \/ Abandons(tour[k])
    <3>1. tour'[k] = NoTour
      BY <1>4, <2>1
    <3> QED BY <1>1, <1>2, <1>4, <3>1, NoTourFields DEF RecordRules, FcgRules
  <2>2. CASE ~(Queued(k) \/ Abandons(tour[k]))
    <3> DEFINE t == tour[k]
               u == tour'[k]
    <3>1. /\ u.state = t.state /\ u.kind = t.kind /\ u.declared = t.declared
          /\ u.handler = t.handler /\ u.error = t.error
          /\ u.limit = t.limit /\ u.full = t.full /\ u.ended = t.ended
          /\ u.prod = "none" <=> t.prod = "none"
          /\ u.prod # t.prod => t.kind = "slow"
      <4>1. u = Kill(t)
        BY <1>4, <2>2
      <4> HIDE DEF u
      <4> QED BY <1>1, <4>1, KillFields
    <3>2. t.state \notin {"preparing", "ended"} /\ (t.state = "reading" => t.error \/ t.prod # "none")
      BY <1>1, <2>2 DEF Abandons, RecordRules, Sound, TourSet
    <3>3. Sound(t) /\ RecordRules(k) /\ FcgRules(k)
      BY <1>1
    <3> HIDE DEF t, u
    <3>4. Sound(u)
      BY <3>1, <3>3 DEF Sound
    <3>5. RecordRules(k)'
      BY <1>2, <1>4, <2>2, <3>1, <3>2, <3>3 DEF RecordRules, t, u
    <3>6. FcgRules(k)'
      BY <1>2, <1>4, <3>1, <3>2, <3>3 DEF FcgRules, t, u
    <3> QED BY <3>4, <3>5, <3>6 DEF u
  <2> QED BY <2>1, <2>2
<1> QED BY <1>4, <1>6, <1>7 DEF FcgInv

(* What every step under FastCGI keeps.                                    *)
LEMMA FcgStep ==
  ASSUME FcgInv, FcgNext
  PROVE  FcgInv'
<1>1. CASE \E k \in Keys : BeginRequest(k) \/ FcgNoTours(k) \/ StdInEnd(k) \/ FcgConsumed(k)
  BY <1>1, FcgBegins, FcgDeaths, FcgStdInEndKeeps, FcgConsumedKeeps
<1>2. CASE \E k \in Keys, whole \in BOOLEAN : Params(k, whole)
  BY <1>2, FcgParamsKeep
<1>3. CASE \E k \in Keys, kind \in Kinds, declared \in 0..MaxLength : ParamsEnd(k, kind, declared)
  BY <1>3, FcgParamsEndKeeps
<1>4. CASE \E k \in Keys, n \in 1..MaxLength, fills \in BOOLEAN : StdIn(k, n, fills)
  BY <1>4, FcgStdInKeeps
<1>5. CASE FcgRest
  <2>1. 1 \in Keys
    BY InboundAssumption DEF InboundAssumption
  <2> QED BY <1>5, <2>1, FcgQuiet, FcgProducesKeeps, FcgDeaths, FcgWroteKeeps, FcgOnClosedKeeps
          DEF FcgRest, Surroundings
<1> QED BY <1>1, <1>2, <1>3, <1>4, <1>5, FcgQuiet DEF FcgNext

LEMMA FcgStarts ==
  ASSUME FcgInit
  PROVE  FcgInv
<1>1. /\ InitWith("begin") /\ marks = {} /\ cause = "none" /\ conn = "open" /\ reads = "on"
      /\ hnd.state = "begin" /\ hnd.key = 0 /\ hnd.env = FALSE
  BY DEF FcgInit, InitWith
<1>2. \A k \in Keys : Sound(tour[k]) /\ RecordRules(k) /\ FcgRules(k)
  BY <1>1, InitTypes, NoTourFields DEF RecordRules, FcgRules
<1> QED BY <1>1, <1>2, InitTypes DEF FcgInv, FcgDeathsExplained, FcgHandler

(* What the invariant gives.                                               *)
LEMMA FcgPromises ==
  ASSUME FcgInv
  PROVE  TypeOK /\ FcgTourHasEnd /\ FcgAnsweredOnce /\ FcgDeathsExplained /\ FcgNothingLeftUndone
<1>1. TypeOK /\ FcgDeathsExplained
  BY DEF FcgInv
<1>2. FcgTourHasEnd
  <2> SUFFICES ASSUME NEW k \in Keys, Live(k)
               PROVE  \/ Ending(k)
                      \/ conn # "gone" /\ (hnd.key = k \/ tour[k].state = "preparing")
                      \/ conn = "gone" /\ (tour[k].error \/ tour[k].state = "running")
    BY DEF FcgTourHasEnd
  <2> QED BY FcgRequest DEF RecordRules, FcgRules, Live, Ending, TourSet
<1>3. FcgAnsweredOnce
  BY FcgRequest DEF FcgAnsweredOnce, RecordRules
<1>4. FcgNothingLeftUndone
  BY FcgRequest DEF FcgNothingLeftUndone, Quiet, FcgRules, FcgInv, FcgHandler
<1> QED BY <1>1, <1>2, <1>3, <1>4

-----------------------------------------------------------------------------
(* AJP.                                                                    *)

(* Of the one tour: it enters the city at once; while it is read it has a  *)
(* producer or the body is not whole, and what it was posted is what the   *)
(* client sent; unless an error was dropped, it alone is not answered.     *)
AjpRules(k) ==
  LET t == tour[k] IN
  /\ t.state # "preparing"
  /\ t.state = "running" => t.prod # "none"
  /\ t.state = "reading" /\ conn # "gone" =>
       \/ t.prod # "none"
       \/ hnd.state = "data" /\ t.posted # t.limit
  /\ t.state = "reading" => t.posted = asked[k].body /\ t.declared = asked[k].declared
  /\ t.full /\ t.state = "ended" => marks \cap {"unread", "writeOff"} # {}
  /\ "dropped" \notin marks =>
       /\ t.state \in {"reading", "running"} => answered[k] + 1 = asked[k].count
       /\ t.state = "ended" \/ (~Live(k) /\ conn # "gone") => answered[k] = asked[k].count
  /\ hnd.state = "data" => ~t.ended

AjpHangs ==
  reads # "on" /\ conn = "open" =>
    marks \cap {"writeOff", "unread"} # {} \/ \E k \in Keys : tour[k].full

AjpInv ==
  /\ TypeOK /\ AjpDeathsExplained /\ NoneTwice
  /\ Sound(tour[DUMMY_KEY]) /\ RecordRules(DUMMY_KEY) /\ AjpRules(DUMMY_KEY)
  /\ \A k \in Keys \ {DUMMY_KEY} : /\ tour[k] = NoTour /\ ~Queued(k)
                                   /\ asked[k] = NotAsked /\ answered[k] = 0
  /\ hnd.state \in {"forward", "data"}
  /\ AjpHangs

LEMMA DummyKey == DUMMY_KEY \in Keys
BY InboundAssumption DEF InboundAssumption, DUMMY_KEY

(* What the invariant says of the one tour.                                *)
LEMMA AjpTour ==
  ASSUME AjpInv, NEW k, k = DUMMY_KEY
  PROVE  /\ k \in Keys /\ tour[k] \in TourSet /\ asked[k] \in Asking /\ answered[k] \in Nat
         /\ asked[k].count \in Nat /\ asked[k].body \in Nat
         /\ TypeOK /\ hnd \in HandlerSet /\ marks \subseteq Marks /\ NoneTwice
         /\ Sound(tour[k]) /\ RecordRules(k) /\ AjpRules(k)
         /\ hnd.state \in {"forward", "data"} /\ events \in 0..MaxEvents
         /\ reads \in {"on", "last", "off"} /\ conn \in {"open", "closing", "gone"}
BY DummyKey, Types DEF AjpInv, Asking, HandlerSet

(* A hang is explained by a mark or by that tour.                          *)
LEMMA AjpHangsAt ==
  ASSUME AjpInv, NEW k, k = DUMMY_KEY
  PROVE  \/ reads = "on" \/ conn # "open" \/ marks \cap {"writeOff", "unread"} # {}
         \/ tour[k].full
BY NoTourFields DEF AjpInv, AjpHangs

(* What a step has to show.                                                *)
LEMMA AjpKeeps ==
  ASSUME AjpInv, NEW k, k = DUMMY_KEY, cause' = "none",
         conn' \in {"open", "closing", "gone"}, reads' \in {"on", "last", "off"},
         tour' \in [Keys -> TourSet], writes' \in Seq(Ends), NoneTwice',
         asked' \in [Keys -> Asking], answered' \in [Keys -> Nat], events' \in 0..MaxEvents,
         hnd' \in HandlerSet, hnd'.state \in {"forward", "data"}, marks' \subseteq Marks,
         \A j \in Keys \ {k} : /\ tour'[j] = tour[j] /\ asked'[j] = asked[j]
                               /\ answered'[j] = answered[j] /\ (Queued(j)' <=> Queued(j)),
         Sound(tour'[k]), RecordRules(k)', AjpRules(k)',
         \/ reads' = "on" \/ conn' # "open" \/ marks' \cap {"writeOff", "unread"} # {}
         \/ tour'[k].full
  PROVE  AjpInv'
<1>1. TypeOK /\ TypeOK'
  BY TypesKept DEF HandlerSet, AjpInv
<1>2. AjpDeathsExplained'
  BY DEF AjpDeathsExplained
<1>3. \A j \in Keys \ {DUMMY_KEY} : /\ tour'[j] = NoTour /\ ~Queued(j)'
                                    /\ asked'[j] = NotAsked /\ answered'[j] = 0
  BY DEF AjpInv
<1>4. AjpHangs'
  BY DummyKey DEF AjpHangs
<1>5. Sound(tour'[DUMMY_KEY]) /\ RecordRules(DUMMY_KEY)' /\ AjpRules(DUMMY_KEY)'
  BY DEF RecordRules, AjpRules, Live, Queued, DUMMY_KEY
<1> QED BY <1>1, <1>2, <1>3, <1>4, <1>5 DEF AjpInv, DUMMY_KEY

(* What a command that kills the agent has to show.                        *)
LEMMA AjpDies ==
  ASSUME AjpInv, NEW why, Dies(why), events' \in 0..MaxEvents,
         why \in {"noTours", "unexpected", "shutdown", "staleProducer"}
  PROVE  AjpInv'
<1>1. cause' = why /\ UNCHANGED <<conn, reads, tour, writes, hnd, asked, answered, marks>>
  BY DEF Dies
<1>2. TypeOK'
  BY <1>1, TypesKept, Types DEF AjpInv
<1>3. AjpDeathsExplained'
  BY <1>1 DEF AjpDeathsExplained
<1>4. (NoneTwice' <=> NoneTwice) /\ \A j \in Keys : Queued(j)' <=> Queued(j)
  BY <1>1, QueueSame
<1>5. PICK k \in Keys : k = DUMMY_KEY
  BY DummyKey
<1>6. RecordRules(k)' /\ AjpRules(k)'
  <2>1. RecordRules(k) /\ AjpRules(k) /\ (Live(k)' <=> Live(k))
    BY <1>1, <1>5, AjpTour DEF Live
  <2> QED BY <1>1, <1>4, <2>1 DEF RecordRules, AjpRules
<1>7. Sound(tour'[DUMMY_KEY]) /\ RecordRules(DUMMY_KEY)' /\ AjpRules(DUMMY_KEY)'
  BY <1>1, <1>5, <1>6 DEF AjpInv, RecordRules, AjpRules, Live, Queued, DUMMY_KEY
<1>8. AjpHangs'
  BY <1>1 DEF AjpInv, AjpHangs
<1>9. \A j \in Keys \ {DUMMY_KEY} : /\ tour'[j] = NoTour /\ ~Queued(j)'
                                    /\ asked'[j] = NotAsked /\ answered'[j] = 0
  BY <1>1, <1>4 DEF AjpInv
<1> QED BY <1>1, <1>2, <1>3, <1>4, <1>7, <1>8, <1>9 DEF AjpInv, DUMMY_KEY

LEMMA AjpDeaths ==
  ASSUME AjpInv, AjpNoTours \/ Unexpected \/ Shutdown \/ StaleProducer
  PROVE  AjpInv'
<1>1. TypeOK /\ events \in 0..MaxEvents
  BY AjpTour
<1>2. CASE AjpNoTours
  BY <1>1, <1>2, AjpDies, ReceiveFields DEF AjpNoTours
<1>3. CASE Unexpected
  BY <1>1, <1>3, AjpDies, ReceiveFields DEF Unexpected
<1>4. CASE Shutdown
  BY <1>1, <1>4, AjpDies, ReceiveFields DEF Shutdown
<1>5. CASE StaleProducer
  BY <1>1, <1>5, AjpDies DEF StaleProducer
<1> QED BY <1>2, <1>3, <1>4, <1>5

LEMMA AjpQuiet ==
  ASSUME AjpInv, StopReading \/ CloseRequest
  PROVE  AjpInv'
<1>1. PICK k : k = DUMMY_KEY
  OBVIOUS
<1>2. /\ k \in Keys /\ TypeOK /\ hnd \in HandlerSet /\ marks \subseteq Marks /\ NoneTwice
      /\ Sound(tour[k]) /\ RecordRules(k) /\ AjpRules(k)
      /\ hnd.state \in {"forward", "data"} /\ events \in 0..MaxEvents
      /\ reads \in {"on", "last", "off"} /\ conn \in {"open", "closing", "gone"}
  BY <1>1, AjpTour
<1>3. /\ cause' = "none" /\ UNCHANGED <<tour, writes, hnd, asked, answered, marks, events>>
      /\ conn' = conn \/ (conn = "open" /\ conn' = "closing")
      /\ reads' = reads \/ (reads = "last" /\ reads' = "off")
  BY DEF StopReading, CloseRequest, Idle, Alive
<1>4. (NoneTwice' <=> NoneTwice) /\ \A j \in Keys : Queued(j)' <=> Queued(j)
  BY <1>3, QueueSame
<1>5. RecordRules(k)' /\ AjpRules(k)'
  BY <1>2, <1>3, <1>4 DEF RecordRules, AjpRules, Live
<1>6. AjpHangs'
  BY <1>3 DEF AjpInv, AjpHangs
<1>7. TypeOK'
  BY <1>2, <1>3, TypesKept, Types
<1>8. AjpDeathsExplained' /\ Sound(tour'[DUMMY_KEY])
  BY <1>1, <1>2, <1>3 DEF AjpDeathsExplained
<1>9. \A j \in Keys \ {DUMMY_KEY} : /\ tour'[j] = NoTour /\ ~Queued(j)'
                                    /\ asked'[j] = NotAsked /\ answered'[j] = 0
  BY <1>3, <1>4 DEF AjpInv
<1>10. RecordRules(DUMMY_KEY)' /\ AjpRules(DUMMY_KEY)'
  BY <1>1, <1>5 DEF RecordRules, AjpRules, Live, Queued, DUMMY_KEY
<1> QED BY <1>2, <1>3, <1>4, <1>6, <1>7, <1>8, <1>9, <1>10 DEF AjpInv, DUMMY_KEY

LEMMA AjpForwards ==
  ASSUME AjpInv, NEW kind \in Kinds, NEW declared \in 0..MaxLength, NEW keep \in BOOLEAN,
         Forward(kind, declared, keep)
  PROVE  AjpInv'
<1>1. PICK k : k = DUMMY_KEY
  OBVIOUS
<1> DEFINE t == Fresh(kind, declared)
<1>2. /\ k \in Keys /\ TypeOK /\ tour[k] \in TourSet /\ asked[k].count \in Nat /\ answered[k] \in Nat
      /\ hnd \in HandlerSet /\ marks \subseteq Marks /\ NoneTwice
      /\ Sound(tour[k]) /\ RecordRules(k) /\ AjpRules(k)
      /\ reads \in {"on", "last", "off"} /\ conn \in {"open", "closing", "gone"}
  BY <1>1, AjpTour
<1>3. /\ t \in TourSet /\ Sound(t) /\ t.state = "preparing" /\ t.kind = kind /\ t.declared = declared
      /\ t.posted = 0 /\ t.limit = 0 /\ t.prod = "none" /\ ~t.handler /\ ~t.error /\ ~t.ended /\ ~t.full
  BY RentedFields
<1>4. /\ Receive /\ hnd.state = "forward" /\ ~Live(k) /\ Asks(k, declared) /\ UNCHANGED <<cause, conn>>
      /\ declared > 0 =>
           /\ Set(k, IF kind = "nowhere"
                     THEN [Go(t) EXCEPT !.error = TRUE, !.handler = TRUE] ELSE Entered(t))
           /\ Becomes("data") /\ UNCHANGED <<reads, writes, answered, marks>>
      /\ ~(declared > 0) /\ kind \in {"nowhere", "missing"} =>
           Answer(k, Go(t), keep) /\ Write /\ UNCHANGED hnd
      /\ ~(declared > 0) /\ kind \notin {"nowhere", "missing"} =>
           Set(k, EndContent(Entered(t))) /\ UNCHANGED <<reads, writes, hnd, answered, marks>>
  BY <1>1 DEF Forward, Fresh
<1> HIDE DEF t
<1>5. /\ events' \in 0..MaxEvents /\ cause = "none" /\ conn # "gone" /\ reads # "off"
  BY <1>2, <1>4, ReceiveFields
<1>6. /\ asked' \in [Keys -> Asking] /\ asked'[k].count = asked[k].count + 1
      /\ asked'[k].declared = declared /\ asked'[k].body = 0
      /\ \A j \in Keys \ {k} : asked'[j] = asked[j]
  BY <1>2, <1>4, AskSteps
<1>7. ~Queued(k) /\ declared \in Nat /\ tour[k].state = "none" /\ ~tour[k].full
  BY <1>2, <1>4, Types DEF RecordRules, Live, Sound
<1>8. answered[k] <= asked[k].count /\ ("dropped" \notin marks => answered[k] = asked[k].count)
  BY <1>2, <1>4, <1>5 DEF RecordRules, AjpRules
<1>9. ASSUME NEW u \in TourSet, Sound(u), Set(k, u), UNCHANGED <<writes, answered, reads, marks>>,
             u.handler, u.kind = "nowhere" => u.error, ~u.full,
             hnd' \in HandlerSet, hnd'.state \in {"forward", "data"}, hnd'.state = "data" => ~u.ended,
             \/ u.state = "running" /\ u.prod # "none"
             \/ /\ u.state = "reading" /\ u.posted = 0 /\ u.declared = declared
                /\ u.limit # 0 /\ hnd'.state = "data"
      PROVE  AjpInv'
  <2>1. /\ tour' \in [Keys -> TourSet] /\ tour'[k] = u
        /\ \A j \in Keys \ {k} : tour'[j] = tour[j]
    BY <1>2, <1>9, SetSteps
  <2>2. (NoneTwice' <=> NoneTwice) /\ \A j \in Keys : Queued(j)' <=> Queued(j)
    BY <1>9, QueueSame
  <2>3. RecordRules(k)'
    BY <1>2, <1>4, <1>5, <1>6, <1>7, <1>8, <1>9, <2>1, <2>2 DEF RecordRules
  <2>4. AjpRules(k)'
    BY <1>2, <1>4, <1>5, <1>6, <1>7, <1>8, <1>9, <2>1 DEF AjpRules, Live
  <2>5. reads' = "on" \/ conn' # "open" \/ marks' \cap {"writeOff", "unread"} # {}
    BY <1>1, <1>4, <1>7, <1>9, AjpHangsAt
  <2> QED BY <1>1, <1>2, <1>4, <1>5, <1>6, <1>9, <2>1, <2>2, <2>3, <2>4, <2>5, AjpKeeps, Types
<1>10. CASE declared > 0
  <2>1. hnd' \in HandlerSet /\ hnd'.state = "data"
    BY <1>2, <1>4, <1>10 DEF Becomes, HandlerSet
  <2>2. CASE kind = "nowhere"
    <3> DEFINE u == [Go(t) EXCEPT !.error = TRUE, !.handler = TRUE]
    <3>1. /\ u \in TourSet /\ u.kind = kind /\ u.declared = declared /\ u.handler
          /\ u.error /\ ~u.ended /\ ~u.full /\ u.prod = "none"
          /\ declared > 0 => u.state = "reading" /\ u.limit = declared /\ u.posted = 0
      BY <1>3, RefusedFields
    <3>2. Set(k, u) /\ UNCHANGED <<writes, answered, reads, marks>>
      BY <1>4, <1>10, <2>2
    <3> HIDE DEF u
    <3>3. Sound(u)
      BY <1>7, <1>10, <2>2, <3>1 DEF Sound
    <3> QED BY <1>7, <1>9, <1>10, <2>1, <3>1, <3>2, <3>3
  <2>3. CASE kind # "nowhere"
    <3> DEFINE u == Entered(t)
    <3>1. /\ u \in TourSet /\ u.kind = kind /\ u.declared = declared /\ u.handler
          /\ ~u.error /\ ~u.ended /\ ~u.full /\ u.prod = IF kind = "slow" THEN "busy" ELSE "none"
          /\ declared > 0 => u.state = "reading" /\ u.limit = declared /\ u.posted = 0
      BY <1>3, EnteredFields
    <3>2. Set(k, u) /\ UNCHANGED <<writes, answered, reads, marks>>
      BY <1>4, <1>10, <2>3
    <3> HIDE DEF u
    <3>3. Sound(u)
      BY <1>7, <1>10, <2>3, <3>1 DEF Sound
    <3> QED BY <1>7, <1>9, <1>10, <2>1, <2>3, <3>1, <3>2, <3>3
  <2> QED BY <2>2, <2>3
<1>11. CASE ~(declared > 0) /\ kind \notin {"nowhere", "missing"}
  <2> DEFINE e == Entered(t)
             u == EndContent(e)
  <2>1. /\ e \in TourSet /\ e.kind = kind /\ e.declared = declared /\ e.handler
        /\ ~e.error /\ ~e.full /\ e.prod = IF kind = "slow" THEN "busy" ELSE "none"
        /\ declared = 0 => e.state = "running"
    BY <1>3, EnteredFields
  <2>2. Set(k, u) /\ UNCHANGED <<reads, writes, hnd, answered, marks>>
    BY <1>4, <1>11
  <2> HIDE DEF e
  <2>3. declared = 0
    BY <1>7, <1>11
  <2>4. /\ u \in TourSet /\ u.state = "running" /\ u.kind = kind /\ u.declared = 0 /\ u.handler
        /\ ~u.error /\ ~u.full /\ u.prod = "busy"
    BY <1>11, <2>1, <2>3, EndFields
  <2> HIDE DEF u
  <2>5. Sound(u)
    BY <1>11, <2>4 DEF Sound
  <2> QED BY <1>2, <1>4, <1>9, <1>11, <2>2, <2>4, <2>5
<1>12. CASE ~(declared > 0) /\ kind \in {"nowhere", "missing"}
  <2> DEFINE v == Go(t)
  <2>1. Answer(k, v, keep) /\ Write /\ UNCHANGED hnd
    BY <1>4, <1>12
  <2>2. declared = 0
    BY <1>7, <1>12
  <2>3. /\ v \in TourSet /\ v.state = "running" /\ v.kind = kind /\ v.declared = 0 /\ ~v.handler
        /\ ~v.error /\ ~v.full /\ v.prod = "none" /\ ~v.ended
    BY <1>3, <2>2, GoFields
  <2> HIDE DEF v
  <2>4. [v EXCEPT !.state = "ended"] \in TourSet /\ v.state # "ended"
    BY <2>3 DEF TourSet
  <2> DEFINE u == [v EXCEPT !.state = "ended"]
  <2>5. /\ tour' \in [Keys -> TourSet] /\ writes' \in Seq(Ends) /\ answered' \in [Keys -> Nat]
        /\ tour'[k] = u
        /\ \A j \in Keys \ {k} : /\ tour'[j] = tour[j] /\ answered'[j] = answered[j]
                                 /\ Queued(j)' <=> Queued(j)
        /\ answered'[k] = answered[k] + 1 /\ Queued(k)'
        /\ NoneTwice'
    BY <1>2, <1>7, <2>1, <2>3, AnswerSteps
  <2>6. /\ u.state = "ended" /\ u.kind = kind /\ u.prod = "none" /\ ~u.handler /\ ~u.error /\ ~u.full
        /\ ~u.ended /\ u.declared = 0
    BY <2>3, EndedFields
  <2> HIDE DEF u
  <2>7. reads' = "off" /\ marks' \subseteq Marks /\ "writeOff" \in marks' /\ marks' = marks \cup {"writeOff"}
    BY <1>2, <2>1 DEF Write, Marks
  <2>8. Sound(tour'[k]) /\ RecordRules(k)'
    BY <1>2, <1>4, <1>5, <1>6, <1>8, <2>5, <2>6 DEF Sound, RecordRules
  <2>9. AjpRules(k)'
    BY <1>4, <1>6, <1>8, <2>1, <2>5, <2>6, <2>7 DEF AjpRules, Live
  <2> QED BY <1>1, <1>2, <1>4, <1>5, <1>6, <2>1, <2>5, <2>7, <2>8, <2>9, AjpKeeps, Types
<1> QED BY <1>10, <1>11, <1>12

LEMMA AjpDataKeeps ==
  ASSUME AjpInv, NEW n \in 0..MaxLength, NEW fills \in BOOLEAN, NEW keep \in BOOLEAN,
         AjpData(n, fills, keep)
  PROVE  AjpInv'
<1>1. PICK k : k = DUMMY_KEY
  OBVIOUS
<1> DEFINE g == GetTour(k)
           t == Post(g, n, fills)
<1>2. /\ k \in Keys /\ TypeOK /\ tour[k] \in TourSet /\ asked[k].count \in Nat /\ answered[k] \in Nat
      /\ hnd \in HandlerSet /\ marks \subseteq Marks /\ NoneTwice
      /\ Sound(tour[k]) /\ RecordRules(k) /\ AjpRules(k) /\ n \in Nat
      /\ reads \in {"on", "last", "off"} /\ conn \in {"open", "closing", "gone"}
  BY <1>1, AjpTour, Types
<1>3. /\ Receive /\ hnd.state = "data" /\ UNCHANGED <<cause, conn>>
      /\ Posting(g, n) \in {"notReading", "tooLong"} => AjpRejects(k, g, keep)
      /\ Posting(g, n) \notin {"notReading", "tooLong"} =>
           /\ asked' = [asked EXCEPT ![k].body = @ + n]
           /\ t.posted # t.limit =>
                /\ Set(k, t) /\ reads' = IF t.full THEN "last" ELSE reads
                /\ UNCHANGED <<writes, hnd, answered, marks>>
           /\ t.posted = t.limit =>
                /\ Becomes("forward")
                /\ t.error \/ EndOf(t) = "http" => Answer(k, t, keep) /\ Write
                /\ ~(t.error \/ EndOf(t) = "http") =>
                     Set(k, EndContent(t)) /\ UNCHANGED <<reads, writes, answered, marks>>
  BY <1>1 DEF AjpData
<1>4. /\ events' \in 0..MaxEvents /\ cause = "none" /\ conn # "gone" /\ reads # "off"
  BY <1>2, <1>3, ReceiveFields
<1>5. /\ g \in TourSet /\ Sound(g) /\ g.state # "none"
      /\ Live(k) => g = tour[k]
      /\ ~Live(k) => g.state = "preparing" /\ g.prod = "none" /\ ~g.handler /\ ~g.error
  BY <1>2, GetTourFields
<1>6. \/ reads = "on" \/ conn # "open" \/ marks \cap {"writeOff", "unread"} # {}
      \/ tour[k].full
  BY <1>1, AjpHangsAt
<1>7. CASE Posting(g, n) \in {"notReading", "tooLong"}
  <2>1. /\ AjpRejects(k, g, keep)
        /\ reads' = "off" /\ Becomes("forward") /\ asked' = asked
    BY <1>3, <1>7 DEF AjpRejects
  <2>2. hnd' \in HandlerSet /\ hnd'.state = "forward"
    BY <1>2, <2>1 DEF Becomes, HandlerSet
  <2>3. CASE Abandons(g)
    <3>1. Set(k, NoTour) /\ UNCHANGED <<writes, answered>> /\ marks' = marks \cup {"writeOff", "dropped"}
      BY <2>1, <2>3 DEF AjpRejects
    <3>2. ~Queued(k)
      BY <1>2, <1>5, <2>3 DEF Abandons, RecordRules, Live
    <3> HIDE DEF g, t
    <3>3. /\ tour' \in [Keys -> TourSet] /\ tour'[k] = NoTour
          /\ \A j \in Keys \ {k} : tour'[j] = tour[j]
      BY <1>2, <3>1, SetSteps, NoTourFields
    <3>4. (NoneTwice' <=> NoneTwice) /\ \A j \in Keys : Queued(j)' <=> Queued(j)
      BY <3>1, QueueSame
    <3>5. marks' \subseteq Marks /\ "writeOff" \in marks' /\ "dropped" \in marks'
      BY <1>2, <3>1 DEF Marks
    <3>6. RecordRules(k)' /\ AjpRules(k)' /\ Sound(tour'[k])
      BY <1>2, <1>3, <1>4, <2>1, <2>2, <3>1, <3>2, <3>3, <3>4, <3>5, NoTourFields DEF RecordRules, AjpRules
    <3> QED BY <1>1, <1>2, <1>3, <1>4, <2>1, <2>2, <3>1, <3>3, <3>4, <3>5, <3>6, AjpKeeps, Types
  <2>4. CASE ~Abandons(g)
    <3> DEFINE v == Kill(g)
    <3>1. Answer(k, v, keep) /\ marks' = marks \cup {"writeOff"}
      BY <2>1, <2>4 DEF AjpRejects
    <3>2. g = tour[k] /\ g.state \in {"reading", "running", "ended"}
      BY <1>5, <2>4 DEF Abandons, TourSet
    <3>3. /\ v \in TourSet /\ v.state = g.state /\ v.kind = g.kind /\ v.declared = g.declared
          /\ v.handler = g.handler /\ v.error = g.error /\ v.posted = g.posted
          /\ v.limit = g.limit /\ v.full = g.full /\ v.ended = g.ended
          /\ v.prod = "none" <=> g.prod = "none"
          /\ v.prod # g.prod => g.kind = "slow"
      BY <1>5, KillFields
    <3> HIDE DEF v, g, t
    <3>4. Sound(v)
      BY <1>5, <3>3 DEF Sound
    <3>5. v.state = "ended" <=> Queued(k)
      BY <1>2, <3>2, <3>3 DEF RecordRules
    <3>6. /\ tour' \in [Keys -> TourSet] /\ writes' \in Seq(Ends) /\ answered' \in [Keys -> Nat]
          /\ NoneTwice' /\ Queued(k)'
          /\ \A j \in Keys \ {k} : /\ tour'[j] = tour[j] /\ answered'[j] = answered[j]
                                   /\ Queued(j)' <=> Queued(j)
          /\ Sound(tour'[k]) /\ tour'[k].state = "ended" /\ tour'[k].handler = g.handler
          /\ tour'[k].kind = g.kind /\ tour'[k].error = g.error
          /\ answered'[k] = IF g.state = "ended" THEN answered[k] ELSE answered[k] + 1
      BY <1>2, <3>1, <3>3, <3>4, <3>5, RecordAnswers
    <3>7. answered'[k] <= asked[k].count /\ ("dropped" \notin marks => answered'[k] = asked[k].count)
      BY <1>2, <3>2, <3>6 DEF RecordRules, AjpRules
    <3>8. marks' \subseteq Marks /\ "writeOff" \in marks' /\ ("dropped" \in marks' <=> "dropped" \in marks)
      BY <1>2, <3>1 DEF Marks
    <3>9. RecordRules(k)'
      BY <1>2, <1>3, <1>4, <2>1, <3>2, <3>6, <3>7 DEF RecordRules
    <3>10. AjpRules(k)'
      BY <2>1, <2>2, <3>6, <3>7, <3>8 DEF AjpRules, Live
    <3> QED BY <1>1, <1>2, <1>3, <1>4, <2>1, <2>2, <3>6, <3>8, <3>9, <3>10, AjpKeeps, Types
  <2> QED BY <2>3, <2>4
<1>8. CASE Posting(g, n) \notin {"notReading", "tooLong"}
  <2>1. g = tour[k] /\ Live(k) /\ (g.error \/ g.state = "reading")
    BY <1>2, <1>5, <1>8, PostingIs
  <2>2. /\ t \in TourSet /\ t.state = g.state /\ t.kind = g.kind /\ t.declared = g.declared
        /\ t.handler = g.handler /\ t.error = g.error /\ t.limit = g.limit
        /\ t.ended = g.ended /\ t.prod = g.prod /\ t.posted = g.posted + n
        /\ g.full => t.full
        /\ t.full => g.full \/ (t.kind = "slow" /\ t.state = "reading" /\ t.handler)
    <3>1. g \in TourSet /\ n \in Nat
      BY <1>2, <1>5
    <3> HIDE DEF g
    <3> QED BY <3>1, PostFields
  <2>3. /\ asked' \in [Keys -> Asking] /\ asked'[k].count = asked[k].count
        /\ asked'[k].declared = asked[k].declared /\ asked'[k].body = asked[k].body + n
        /\ \A j \in Keys \ {k} : asked'[j] = asked[j]
    <3>1. asked' = [asked EXCEPT ![k].body = @ + n]
      BY <1>3, <1>8
    <3> QED BY <1>2, <3>1, BodySteps
  <2>4. ~t.ended
    BY <1>2, <1>3, <2>1, <2>2 DEF AjpRules
  <2>5. CASE t.posted # t.limit
    <3>1. /\ Set(k, t) /\ reads' = IF t.full THEN "last" ELSE reads
          /\ UNCHANGED <<writes, hnd, answered, marks>>
      BY <1>3, <1>8, <2>5
    <3> HIDE DEF g, t
    <3>2. /\ tour' \in [Keys -> TourSet] /\ tour'[k] = t
          /\ \A j \in Keys \ {k} : tour'[j] = tour[j]
      BY <1>2, <2>2, <3>1, SetSteps
    <3>3. (NoneTwice' <=> NoneTwice) /\ \A j \in Keys : Queued(j)' <=> Queued(j)
      BY <3>1, QueueSame
    <3>4. Sound(t)
      BY <1>5, <2>2 DEF Sound
    <3>5. RecordRules(k)'
      BY <1>2, <1>3, <1>4, <2>1, <2>2, <2>3, <3>1, <3>2, <3>3 DEF RecordRules
    <3>6. AjpRules(k)'
      BY <1>2, <1>3, <1>4, <2>1, <2>2, <2>3, <2>5, <3>1, <3>2 DEF AjpRules, Live
    <3>7. reads' \in {"on", "last", "off"}
          /\ (reads' = "on" \/ conn' # "open" \/ marks' \cap {"writeOff", "unread"} # {} \/ tour'[k].full)
      BY <1>2, <1>3, <1>6, <2>1, <2>2, <3>1, <3>2
    <3> QED BY <1>1, <1>2, <1>3, <1>4, <2>3, <3>1, <3>2, <3>3, <3>4, <3>5, <3>6, <3>7, AjpTour, AjpKeeps, Types
  <2>6. CASE t.posted = t.limit /\ (t.error \/ EndOf(t) = "http")
    <3>1. Becomes("forward") /\ Answer(k, t, keep) /\ reads' = "off" /\ marks' = marks \cup {"writeOff"}
      BY <1>3, <1>8, <2>6 DEF Write
    <3>2. hnd' \in HandlerSet /\ hnd'.state = "forward"
      BY <1>2, <3>1 DEF Becomes, HandlerSet
    <3>3. Sound(t) /\ (t.state = "ended" <=> Queued(k))
      BY <1>2, <1>5, <2>1, <2>2 DEF Sound, RecordRules
    <3> HIDE DEF g, t
    <3>4. /\ tour' \in [Keys -> TourSet] /\ writes' \in Seq(Ends) /\ answered' \in [Keys -> Nat]
          /\ NoneTwice' /\ Queued(k)'
          /\ \A j \in Keys \ {k} : /\ tour'[j] = tour[j] /\ answered'[j] = answered[j]
                                   /\ Queued(j)' <=> Queued(j)
          /\ Sound(tour'[k]) /\ tour'[k].state = "ended" /\ tour'[k].handler = t.handler
          /\ tour'[k].kind = t.kind /\ tour'[k].error = t.error
          /\ answered'[k] = IF t.state = "ended" THEN answered[k] ELSE answered[k] + 1
      BY <1>2, <2>2, <3>1, <3>3, RecordAnswers
    <3>5. t.state \in {"reading", "running", "ended"}
      BY <1>5, <2>1, <2>2 DEF Sound, TourSet
    <3>6. answered'[k] <= asked[k].count /\ ("dropped" \notin marks => answered'[k] = asked[k].count)
      BY <1>2, <2>1, <2>2, <3>4, <3>5 DEF RecordRules, AjpRules
    <3>7. marks' \subseteq Marks /\ "writeOff" \in marks' /\ ("dropped" \in marks' <=> "dropped" \in marks)
      BY <1>2, <3>1 DEF Marks
    <3>8. RecordRules(k)'
      BY <1>2, <1>3, <1>4, <2>1, <2>2, <2>3, <3>4, <3>6 DEF RecordRules
    <3>9. AjpRules(k)'
      BY <2>3, <3>2, <3>4, <3>6, <3>7 DEF AjpRules, Live
    <3> QED BY <1>1, <1>2, <1>3, <1>4, <2>3, <3>1, <3>2, <3>4, <3>7, <3>8, <3>9, AjpKeeps, Types
  <2>7. CASE t.posted = t.limit /\ ~(t.error \/ EndOf(t) = "http")
    <3> DEFINE u == EndContent(t)
    <3>1. Becomes("forward") /\ Set(k, u) /\ UNCHANGED <<reads, writes, answered, marks>>
      BY <1>3, <1>8, <2>7
    <3>2. hnd' \in HandlerSet /\ hnd'.state = "forward"
      BY <1>2, <3>1 DEF Becomes, HandlerSet
    <3>3. /\ u \in TourSet /\ u.state = "reading" /\ t.state = "reading" /\ u.kind = t.kind /\ u.declared = t.declared
          /\ u.handler = t.handler /\ u.error = t.error /\ u.posted = t.posted
          /\ u.limit = t.limit /\ u.full = t.full
          /\ u.prod = IF t.handler /\ t.kind = "file" THEN "busy" ELSE t.prod
          /\ ~(t.handler /\ t.kind = "missing")
      BY <2>1, <2>2, <2>4, <2>7, EndFields
    <3> HIDE DEF g, t, u
    <3>4. u.handler /\ u.prod # "none" /\ Sound(u)
      BY <1>2, <1>5, <2>1, <2>2, <2>7, <3>3 DEF RecordRules, Sound, TourSet
    <3>5. /\ tour' \in [Keys -> TourSet] /\ tour'[k] = u
          /\ \A j \in Keys \ {k} : tour'[j] = tour[j]
      BY <1>2, <3>1, <3>3, SetSteps
    <3>6. (NoneTwice' <=> NoneTwice) /\ \A j \in Keys : Queued(j)' <=> Queued(j)
      BY <3>1, QueueSame
    <3>7. RecordRules(k)'
      BY <1>2, <1>3, <1>4, <2>1, <2>2, <2>3, <3>1, <3>3, <3>4, <3>5, <3>6 DEF RecordRules
    <3>8. AjpRules(k)'
      BY <1>2, <1>3, <1>4, <2>1, <2>2, <2>3, <2>7, <3>1, <3>2, <3>3, <3>4, <3>5 DEF AjpRules, Live
    <3>9. reads' = "on" \/ conn' # "open" \/ marks' \cap {"writeOff", "unread"} # {} \/ tour'[k].full
      BY <1>3, <1>6, <2>1, <2>2, <3>1, <3>3, <3>5
    <3> QED BY <1>1, <1>2, <1>3, <1>4, <2>3, <3>1, <3>2, <3>4, <3>5, <3>6, <3>7, <3>8, <3>9, AjpKeeps, Types
  <2> QED BY <2>5, <2>6, <2>7
<1> QED BY <1>7, <1>8

LEMMA AjpConsumedKeeps ==
  ASSUME AjpInv, AjpConsumed
  PROVE  AjpInv'
<1>1. PICK k : k = DUMMY_KEY
  OBVIOUS
<1> DEFINE t == tour[k]
           u == [t EXCEPT !.full = FALSE]
<1>2. /\ k \in Keys /\ TypeOK /\ t \in TourSet /\ hnd \in HandlerSet /\ marks \subseteq Marks
      /\ NoneTwice /\ Sound(t) /\ RecordRules(k) /\ AjpRules(k)
      /\ hnd.state \in {"forward", "data"} /\ events \in 0..MaxEvents
      /\ reads \in {"on", "last", "off"} /\ conn \in {"open", "closing", "gone"}
  BY <1>1, AjpTour
<1>3. /\ cause = "none" /\ Set(k, u) /\ reads' = IF conn = "open" THEN "on" ELSE reads
      /\ UNCHANGED <<cause, conn, writes, hnd, asked, answered, marks, events>>
  BY <1>1 DEF AjpConsumed, Idle, Alive
<1>4. /\ u \in TourSet /\ u.state = t.state /\ u.kind = t.kind /\ u.declared = t.declared
      /\ u.handler = t.handler /\ u.error = t.error /\ u.limit = t.limit /\ u.posted = t.posted
      /\ u.ended = t.ended /\ u.prod = t.prod /\ ~u.full
  BY <1>2 DEF TourSet
<1> HIDE DEF u
<1>5. /\ tour' \in [Keys -> TourSet] /\ tour'[k] = u
      /\ \A j \in Keys \ {k} : tour'[j] = tour[j]
  BY <1>2, <1>3, <1>4, SetSteps
<1>6. (NoneTwice' <=> NoneTwice) /\ \A j \in Keys : Queued(j)' <=> Queued(j)
  BY <1>3, QueueSame
<1>7. Sound(u) /\ RecordRules(k)'
  BY <1>2, <1>3, <1>4, <1>5, <1>6 DEF Sound, RecordRules
<1>8. AjpRules(k)'
  BY <1>2, <1>3, <1>4, <1>5 DEF AjpRules, Live
<1>9. reads' \in {"on", "last", "off"} /\ (reads' = "on" \/ conn' # "open")
  BY <1>2, <1>3
<1> QED BY <1>1, <1>2, <1>3, <1>5, <1>6, <1>7, <1>8, <1>9, AjpKeeps, Types

LEMMA AjpProducesKeeps ==
  ASSUME AjpInv, NEW j \in Keys, NEW keep \in BOOLEAN, Produces(j, keep)
  PROVE  AjpInv'
<1>1. PICK k : k = DUMMY_KEY
  OBVIOUS
<1> DEFINE o == tour[k]
           t == [o EXCEPT !.prod = "none"]
<1>2. /\ k \in Keys /\ TypeOK /\ o \in TourSet /\ asked[k].count \in Nat /\ answered[k] \in Nat
      /\ hnd \in HandlerSet /\ marks \subseteq Marks /\ events \in 0..MaxEvents
      /\ NoneTwice /\ Sound(o) /\ RecordRules(k) /\ AjpRules(k) /\ hnd.state \in {"forward", "data"}
      /\ reads \in {"on", "last", "off"} /\ conn \in {"open", "closing", "gone"}
  BY <1>1, AjpTour
<1>3. j = k
  BY <1>1, NoTourFields DEF AjpInv, Produces
<1>4. /\ cause = "none" /\ o.prod # "none" /\ UNCHANGED <<cause, conn, reads, hnd, asked, events>>
  BY <1>3 DEF Produces, Idle, Alive
<1>5. o.handler /\ o.state \in {"reading", "running", "ended"}
  BY <1>2, <1>4 DEF Sound, TourSet
<1>6. CASE conn = "gone"
  <2>1. Set(k, NoTour) /\ UNCHANGED <<writes, answered, marks>>
    BY <1>3, <1>6 DEF Produces
  <2>2. /\ tour' \in [Keys -> TourSet] /\ tour'[k] = NoTour
        /\ \A i \in Keys \ {k} : tour'[i] = tour[i]
    BY <1>2, <2>1, SetSteps, NoTourFields
  <2>3. (NoneTwice' <=> NoneTwice) /\ \A i \in Keys : Queued(i)' <=> Queued(i)
    BY <2>1, QueueSame
  <2>4. Sound(tour'[k]) /\ RecordRules(k)'
    BY <1>2, <1>4, <1>6, <2>1, <2>2, <2>3, NoTourFields DEF RecordRules
  <2>5. AjpRules(k)'
    BY <1>2, <1>4, <1>6, <2>1, <2>2, NoTourFields DEF AjpRules, Live
  <2> QED BY <1>1, <1>2, <1>4, <1>6, <2>1, <2>2, <2>3, <2>4, <2>5, AjpKeeps, Types
<1>7. CASE conn # "gone"
  <2>1. Answer(k, t, keep) /\ marks' = IF t.full THEN marks \cup {"unread"} ELSE marks
    BY <1>3, <1>7 DEF Produces
  <2>2. /\ t \in TourSet /\ t.state = o.state /\ t.kind = o.kind /\ t.handler = o.handler
        /\ t.error = o.error /\ t.full = o.full /\ t.prod = "none" /\ t.declared = o.declared
        /\ t.limit = o.limit /\ t.ended = o.ended
    BY <1>2 DEF TourSet
  <2>3. /\ marks \subseteq marks' /\ marks' \subseteq Marks /\ (o.full => "unread" \in marks')
        /\ ("dropped" \in marks' <=> "dropped" \in marks)
    BY <1>2, <2>1, <2>2 DEF Marks
  <2> HIDE DEF t
  <2> DEFINE w == [t EXCEPT !.state = "ended"]
  <2>4. /\ tour' \in [Keys -> TourSet] /\ writes' \in Seq(Ends) /\ answered' \in [Keys -> Nat]
        /\ tour'[k] = w
        /\ \A i \in Keys \ {k} : /\ tour'[i] = tour[i] /\ answered'[i] = answered[i]
                                 /\ Queued(i)' <=> Queued(i)
        /\ t.state = "ended" => /\ answered'[k] = answered[k] /\ (Queued(k)' <=> Queued(k))
                                /\ NoneTwice' <=> NoneTwice
        /\ t.state # "ended" => /\ answered'[k] = answered[k] + 1 /\ Queued(k)'
                                /\ NoneTwice /\ ~Queued(k) => NoneTwice'
    BY <1>2, <2>1, <2>2, AnswerSteps
  <2>5. /\ w.state = "ended" /\ w.kind = o.kind /\ w.prod = "none" /\ w.handler = o.handler
        /\ w.error = o.error /\ w.full = o.full /\ w.ended = o.ended
    BY <2>2, EndedFields
  <2> HIDE DEF w
  <2>6. NoneTwice' /\ Queued(k)' /\ answered'[k] <= asked[k].count
        /\ ("dropped" \notin marks => answered'[k] = asked[k].count)
    BY <1>2, <1>5, <2>2, <2>4 DEF RecordRules, AjpRules
  <2>7. Sound(tour'[k])
    BY <1>2, <1>5, <2>4, <2>5 DEF Sound
  <2>8. RecordRules(k)'
    BY <1>2, <1>4, <1>7, <2>4, <2>5, <2>6 DEF RecordRules
  <2>9. AjpRules(k)'
    BY <1>2, <1>4, <1>7, <2>3, <2>4, <2>5, <2>6 DEF AjpRules, Live
  <2>10. reads' = "on" \/ conn' # "open" \/ marks' \cap {"writeOff", "unread"} # {} \/ tour'[k].full
    <3>1. \/ reads = "on" \/ conn # "open" \/ marks \cap {"writeOff", "unread"} # {} \/ o.full
      BY <1>1, AjpHangsAt
    <3> QED BY <1>4, <2>3, <3>1
  <2> QED BY <1>1, <1>2, <1>4, <2>3, <2>4, <2>6, <2>7, <2>8, <2>9, <2>10, AjpKeeps, Types
<1> QED BY <1>6, <1>7

LEMMA AjpWroteKeeps ==
  ASSUME AjpInv, Wrote
  PROVE  AjpInv'
<1>1. /\ TypeOK /\ cause = "none" /\ conn # "gone" /\ events' = events /\ events \in 0..MaxEvents
  BY WroteSteps, Types DEF AjpInv
<1>2. PICK k \in Keys :
              /\ Queued(k) /\ ~Dying(k)
              /\ \/ ~Live(k) /\ Dies("returnedTwice")
                 \/ /\ Live(k) /\ tour' \in [Keys -> TourSet] /\ tour'[k] = NoTour
                    /\ \A j \in Keys \ {k} : tour'[j] = tour[j] /\ (Queued(j)' <=> Queued(j))
                    /\ writes' \in Seq(Ends)
                    /\ Queued(k)' => Queued(k)
                    /\ NoneTwice => NoneTwice' /\ ~Queued(k)'
                    /\ Closing /\ (conn' = conn \/ conn' = "closing")
                    /\ marks' = IF tour[k].prod # "none" THEN marks \cup {"staleProducer"} ELSE marks
                    /\ UNCHANGED <<cause, reads, hnd, asked, answered>>
  BY <1>1, WroteSteps
<1>3. k = DUMMY_KEY
  BY <1>2 DEF AjpInv
<1>4. /\ NoneTwice /\ Sound(tour[k]) /\ RecordRules(k) /\ AjpRules(k) /\ marks \subseteq Marks
      /\ hnd \in HandlerSet /\ hnd.state \in {"forward", "data"} /\ reads \in {"on", "last", "off"}
      /\ conn \in {"open", "closing", "gone"}
  BY <1>3, AjpTour
<1>5. tour[k].state = "ended" /\ Live(k)
  BY <1>2, <1>4 DEF RecordRules, Live
<1>6. marks \subseteq marks' /\ marks' \subseteq Marks /\ ("dropped" \in marks' <=> "dropped" \in marks)
  BY <1>2, <1>4, <1>5 DEF Marks
<1>7. RecordRules(k)'
  BY <1>1, <1>2, <1>4, <1>5, NoTourFields DEF RecordRules
<1>8. AjpRules(k)'
  BY <1>1, <1>2, <1>4, <1>5, <1>6, NoTourFields DEF AjpRules
<1>9. reads' = "on" \/ conn' # "open" \/ marks' \cap {"writeOff", "unread"} # {}
  <2>1. \/ reads = "on" \/ conn # "open" \/ marks \cap {"writeOff", "unread"} # {} \/ tour[k].full
    BY <1>3, AjpHangsAt
  <2>2. tour[k].full => marks \cap {"writeOff", "unread"} # {}
    BY <1>4, <1>5 DEF AjpRules
  <2> QED BY <1>2, <1>5, <1>6, <2>1, <2>2 DEF Closing
<1> QED BY <1>1, <1>2, <1>3, <1>4, <1>5, <1>6, <1>7, <1>8, <1>9, NoTourFields, AjpKeeps, Types DEF Closing

LEMMA AjpOnClosedKeeps ==
  ASSUME AjpInv, OnClosed
  PROVE  AjpInv'
<1>1. PICK k : k = DUMMY_KEY
  OBVIOUS
<1>2. /\ k \in Keys /\ TypeOK /\ tour[k] \in TourSet /\ hnd \in HandlerSet /\ marks \subseteq Marks
      /\ NoneTwice /\ Sound(tour[k]) /\ RecordRules(k) /\ AjpRules(k)
      /\ hnd.state \in {"forward", "data"} /\ events \in 0..MaxEvents
  BY <1>1, AjpTour
<1>3. cause = "none" /\ conn = "closing" /\ events' = events
  BY <1>2, ClosedSteps
<1>4. \A j \in Keys : Queued(j) => Live(j)
  BY <1>1, <1>2 DEF AjpInv, RecordRules, Live
<1>5. /\ conn' = "gone" /\ reads' = "off" /\ writes' \in Seq(Ends) /\ NoneTwice'
      /\ \A j \in Keys : ~Queued(j)'
      /\ tour' \in [Keys -> TourSet]
      /\ \A j \in Keys : tour'[j] = IF Queued(j) \/ Abandons(tour[j]) THEN NoTour
                                    ELSE Kill(tour[j])
      /\ marks \subseteq marks' /\ marks' \subseteq marks \cup {"staleProducer"}
      /\ UNCHANGED <<cause, hnd, asked, answered>>
  BY <1>2, <1>4, ClosedSteps
<1>6. marks' \subseteq Marks /\ ("dropped" \in marks' <=> "dropped" \in marks)
  BY <1>2, <1>5 DEF Marks
<1>7. \A j \in Keys \ {k} : tour'[j] = tour[j] /\ (Queued(j)' <=> Queued(j))
  <2>1. ASSUME NEW j \in Keys \ {k} PROVE tour'[j] = tour[j] /\ (Queued(j)' <=> Queued(j))
    <3>1. tour[j] = NoTour /\ ~Queued(j)
      BY <1>1 DEF AjpInv
    <3>2. Kill(NoTour) = NoTour
      BY NoTourFields DEF Kill, TourSet
    <3> QED BY <1>5, <3>1, <3>2
  <2> QED BY <2>1
<1>8. Sound(tour'[k]) /\ RecordRules(k)' /\ AjpRules(k)'
  <2>1. CASE Queued(k) \/ Abandons(tour[k])
    <3>1. tour'[k] = NoTour
      BY <1>2, <1>5, <2>1
    <3> QED BY <1>2, <1>3, <1>5, <3>1, NoTourFields DEF RecordRules, AjpRules
  <2>2. CASE ~(Queued(k) \/ Abandons(tour[k]))
    <3> DEFINE t == tour[k]
               u == tour'[k]
    <3>1. /\ u.state = t.state /\ u.kind = t.kind /\ u.declared = t.declared
          /\ u.handler = t.handler /\ u.error = t.error /\ u.posted = t.posted
          /\ u.limit = t.limit /\ u.full = t.full /\ u.ended = t.ended
          /\ u.prod = "none" <=> t.prod = "none"
          /\ u.prod # t.prod => t.kind = "slow"
      <4>1. u = Kill(t)
        BY <1>2, <1>5, <2>2
      <4> HIDE DEF u
      <4> QED BY <1>2, <4>1, KillFields
    <3>2. t.state # "ended" /\ (t.state = "reading" => t.error \/ t.prod # "none")
      BY <1>2, <2>2 DEF Abandons, RecordRules, Sound, TourSet
    <3>3. Sound(u)
      <4>1. Sound(t)
        BY <1>2
      <4> HIDE DEF t, u
      <4> QED BY <3>1, <4>1 DEF Sound
    <3>4. RecordRules(k)'
      BY <1>2, <1>5, <2>2, <3>1, <3>2 DEF RecordRules
    <3>5. AjpRules(k)'
      BY <1>2, <1>5, <1>6, <3>1, <3>2 DEF AjpRules, Live
    <3> QED BY <3>3, <3>4, <3>5
  <2> QED BY <2>1, <2>2
<1> QED BY <1>1, <1>2, <1>3, <1>5, <1>6, <1>7, <1>8, AjpKeeps, Types

(* What every step under AJP keeps.                                        *)
LEMMA AjpStep ==
  ASSUME AjpInv, AjpNext
  PROVE  AjpInv'
<1>1. CASE \E kind \in Kinds, declared \in 0..MaxLength, keep \in BOOLEAN : Forward(kind, declared, keep)
  BY <1>1, AjpForwards
<1>2. CASE \E n \in 0..MaxLength, fills, keep \in BOOLEAN : AjpData(n, fills, keep)
  BY <1>2, AjpDataKeeps
<1>3. CASE AjpNoTours \/ Unexpected \/ Shutdown \/ AjpConsumed
  BY <1>3, AjpDeaths, AjpConsumedKeeps
<1>4. CASE AjpRest
  BY <1>4, AjpQuiet, AjpProducesKeeps, AjpDeaths, AjpWroteKeeps, AjpOnClosedKeeps
     DEF AjpRest, Surroundings
<1> QED BY <1>1, <1>2, <1>3, <1>4 DEF AjpNext

LEMMA AjpStarts ==
  ASSUME AjpInit
  PROVE  AjpInv
<1>1. /\ InitWith("forward") /\ marks = {} /\ cause = "none" /\ conn = "open" /\ reads = "on"
      /\ hnd.state = "forward"
  BY DEF AjpInit, InitWith
<1>2. RecordRules(DUMMY_KEY) /\ AjpRules(DUMMY_KEY) /\ Sound(tour[DUMMY_KEY])
  BY <1>1, InitTypes, NoTourFields, DummyKey DEF RecordRules, AjpRules
<1> QED BY <1>1, <1>2, InitTypes DEF AjpInv, AjpDeathsExplained, AjpHangs

(* What the invariant gives.                                               *)
LEMMA AjpPromises ==
  ASSUME AjpInv
  PROVE  TypeOK /\ AjpTourHasEnd /\ AjpAnsweredOnce /\ AjpDeathsExplained /\ AjpNothingLeftUndone
<1>1. PICK k : k = DUMMY_KEY
  OBVIOUS
<1>2. /\ k \in Keys /\ tour[k] \in TourSet /\ Sound(tour[k]) /\ RecordRules(k) /\ AjpRules(k)
      /\ asked[k].body \in Nat /\ answered[k] \in Nat
  BY <1>1, AjpTour
<1>3. /\ \A j \in Keys \ {k} : tour[j] = NoTour /\ asked[j] = NotAsked /\ answered[j] = 0
      /\ NotAsked.count = 0
  BY <1>1 DEF AjpInv, NotAsked
<1>4. TypeOK /\ AjpDeathsExplained
  BY DEF AjpInv
<1>5. AjpTourHasEnd
  <2> SUFFICES ASSUME NEW j \in Keys, Live(j)
               PROVE  Ending(j) \/ (tour[j].state = "reading" /\ (conn # "gone" \/ tour[j].error))
    BY DEF AjpTourHasEnd
  <2>1. j = k
    BY <1>3, NoTourFields DEF Live
  <2> QED BY <1>2, <2>1 DEF RecordRules, AjpRules, Live, Ending, TourSet
<1>6. AjpAnsweredOnce
  <2> SUFFICES ASSUME NEW j \in Keys PROVE answered[j] <= asked[j].count
    BY DEF AjpAnsweredOnce
  <2> QED BY <1>2, <1>3 DEF RecordRules
<1>7. AjpNothingLeftUndone
  <2> SUFFICES ASSUME Quiet
               PROVE  /\ \A j \in Keys : asked[j].body = asked[j].declared =>
                           answered[j] = asked[j].count \/ "dropped" \in marks
                      /\ reads = "off" => \/ marks \cap {"writeOff", "unread"} # {}
                                          \/ \E j \in Keys : tour[j].full
    BY DEF AjpNothingLeftUndone
  <2>1. conn = "open" /\ (\A j \in Keys : ~Queued(j)) /\ \A j \in Keys : tour[j].prod = "none"
    BY QueueEmpty DEF Quiet
  <2>2. ASSUME asked[k].body = asked[k].declared, "dropped" \notin marks
        PROVE  answered[k] = asked[k].count
    <3>1. tour[k].state \notin {"ended", "running", "preparing"}
      BY <1>2, <2>1 DEF RecordRules, AjpRules
    <3>2. tour[k].state # "reading"
      BY <1>2, <2>1, <2>2 DEF AjpRules, Sound
    <3>3. ~Live(k)
      BY <1>2, <3>1, <3>2 DEF Live, TourSet
    <3> QED BY <1>2, <2>1, <2>2, <3>3 DEF AjpRules
  <2> QED BY <1>3, <2>1, <2>2 DEF AjpInv, AjpHangs
<1> QED BY <1>4, <1>5, <1>6, <1>7

-----------------------------------------------------------------------------
(* One connection of one of the three protocols.                           *)
InboundInv ==
  /\ which \in {"h2", "fcg", "ajp"}
  /\ which = "h2" => H2Inv
  /\ which = "fcg" => FcgInv
  /\ which = "ajp" => AjpInv

LEMMA InboundStarts == MCInit => InboundInv
BY H2Starts, FcgStarts, AjpStarts DEF MCInit, InboundInv

(* Nothing happens: each protocol's invariant stays.                       *)
LEMMA SameAll ==
  ASSUME UNCHANGED vars
  PROVE  /\ UNCHANGED <<cause, conn, reads, tour, writes, hnd, asked, answered, marks, events>>
         /\ TypeOK => TypeOK'
         /\ NoneTwice' <=> NoneTwice
         /\ \A j \in Keys : (Queued(j)' <=> Queued(j)) /\ (Live(j)' <=> Live(j))
<1>1. UNCHANGED <<cause, conn, reads, tour, writes, hnd, asked, answered, marks, events>>
  BY DEF vars
<1>2. ASSUME TypeOK PROVE TypeOK'
  BY <1>1, <1>2 DEF TypeOK
<1>3. (NoneTwice' <=> NoneTwice) /\ \A j \in Keys : Queued(j)' <=> Queued(j)
  BY <1>1, QueueSame
<1> QED BY <1>1, <1>2, <1>3 DEF Live

LEMMA H2Same ==
  ASSUME H2Inv, UNCHANGED vars
  PROVE  H2Inv'
<1>1. ASSUME NEW j \in Keys PROVE Sound(tour'[j]) /\ H2Rules(j)'
  <2>1. Sound(tour[j]) /\ H2Rules(j)
    BY DEF H2Inv
  <2> QED BY SameAll, <2>1 DEF H2Rules
<1>2. ASSUME "trailers" \notin marks', NEW j \in Keys PROVE H2Untrailed(j)'
  <2>1. H2Untrailed(j)
    BY <1>2, SameAll DEF H2Inv
  <2> QED BY SameAll, <2>1 DEF H2Untrailed
<1>3. H2DeathsExplained' /\ H2Hangs'
  BY SameAll DEF H2Inv, H2DeathsExplained, H2Hangs
<1>4. TypeOK' /\ ("trailers" \notin marks' => NoneTwice') /\ "staleProducer" \notin marks'
  BY SameAll DEF H2Inv
<1> QED BY <1>1, <1>2, <1>3, <1>4 DEF H2Inv

LEMMA FcgSame ==
  ASSUME FcgInv, UNCHANGED vars
  PROVE  FcgInv'
<1>1. ASSUME NEW j \in Keys PROVE Sound(tour'[j]) /\ RecordRules(j)' /\ FcgRules(j)'
  <2>1. Sound(tour[j]) /\ RecordRules(j) /\ FcgRules(j)
    BY FcgRequest
  <2> QED BY SameAll, <2>1 DEF RecordRules, FcgRules
<1>2. FcgDeathsExplained' /\ FcgHandler'
  BY SameAll DEF FcgInv, FcgDeathsExplained, FcgHandler
<1>3. TypeOK' /\ NoneTwice'
  BY SameAll DEF FcgInv
<1> QED BY <1>1, <1>2, <1>3 DEF FcgInv

LEMMA AjpSame ==
  ASSUME AjpInv, UNCHANGED vars
  PROVE  AjpInv'
<1>1. PICK k : k = DUMMY_KEY
  OBVIOUS
<1>2. RecordRules(k)' /\ AjpRules(k)'
  <2>1. k \in Keys /\ RecordRules(k) /\ AjpRules(k)
    BY <1>1, AjpTour
  <2> QED BY SameAll, <2>1 DEF RecordRules, AjpRules
<1>3. Sound(tour'[DUMMY_KEY]) /\ RecordRules(DUMMY_KEY)' /\ AjpRules(DUMMY_KEY)'
  BY <1>1, <1>2, SameAll DEF AjpInv, RecordRules, AjpRules, Live, Queued, DUMMY_KEY
<1>4. AjpDeathsExplained' /\ AjpHangs'
  BY SameAll DEF AjpInv, AjpDeathsExplained, AjpHangs
<1>5. \A j \in Keys \ {DUMMY_KEY} : /\ tour'[j] = NoTour /\ ~Queued(j)'
                                    /\ asked'[j] = NotAsked /\ answered'[j] = 0
  BY SameAll DEF AjpInv
<1>6. TypeOK' /\ NoneTwice' /\ hnd'.state \in {"forward", "data"}
  BY SameAll DEF AjpInv
<1> QED BY <1>3, <1>4, <1>5, <1>6 DEF AjpInv, DUMMY_KEY

LEMMA InboundSame ==
  ASSUME InboundInv, UNCHANGED <<which, vars>>
  PROVE  InboundInv'
<1>1. which' = which /\ UNCHANGED vars
  OBVIOUS
<1> QED BY <1>1, H2Same, FcgSame, AjpSame DEF InboundInv

LEMMA InboundStep ==
  ASSUME InboundInv, [MCNext]_<<which, vars>>
  PROVE  InboundInv'
<1>1. CASE MCNext
  <2>1. CASE which = "h2" /\ H2Next
    BY <1>1, <2>1, H2Step DEF InboundInv, MCNext
  <2>2. CASE which = "fcg" /\ FcgNext
    BY <1>1, <2>2, FcgStep DEF InboundInv, MCNext
  <2>3. CASE which = "ajp" /\ AjpNext
    BY <1>1, <2>3, AjpStep DEF InboundInv, MCNext
  <2> QED BY <1>1, <2>1, <2>2, <2>3 DEF MCNext
<1>2. CASE UNCHANGED <<which, vars>>
  BY <1>2, InboundSame
<1> QED BY <1>1, <1>2

(* The inductive invariant of the connection.                              *)
THEOREM InboundInvariant == MCSpec => []InboundInv
<1>1. InboundInv /\ [MCNext]_<<which, vars>> => InboundInv'
  BY InboundStep
<1> QED BY <1>1, InboundStarts, PTL DEF MCSpec

(* H2InboundHandler, FcgInboundHandler, AjpInboundHandler: whatever the    *)
(* commands of the client and however the response races them, every tour  *)
(* has something that ends it, but for those each module names.            *)
THEOREM TourHasEndAlways == MCSpec => []TourHasEnd
<1>1. InboundInv => TourHasEnd
  BY H2Promises, FcgPromises, AjpPromises DEF InboundInv, TourHasEnd
<1> QED BY <1>1, InboundInvariant, PTL

(* The same handlers: a command kills the agent only in the ways each      *)
(* module names.                                                           *)
THEOREM DeathsExplainedAlways == MCSpec => []DeathsExplained
<1>1. InboundInv => DeathsExplained
  BY H2Promises, FcgPromises, AjpPromises DEF InboundInv, DeathsExplained
<1> QED BY <1>1, InboundInvariant, PTL

(* end_res_content: no request is answered twice, and in a quiet server    *)
(* every complete one has its answer, but for the hangs each module names. *)
THEOREM AnsweredAlways == MCSpec => []Answered
<1>1. InboundInv => Answered
  BY H2Promises, FcgPromises, AjpPromises DEF InboundInv, Answered
<1> QED BY <1>1, InboundInvariant, PTL
=============================================================================
