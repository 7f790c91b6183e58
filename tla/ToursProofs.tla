----------------------------- MODULE ToursProofs -----------------------------
(* Machine-checked facts about Tours, for every set of ships and tours.    *)
EXTENDS Tours, SequenceTheorems, TLAPS

(* A tour that is not live is as reset left it.                            *)
BlankIsReset == \A t \in Pool : ~Live(t) => tour[t] = ResetTour

(* Whoever refers to a tour by id got the id from tour_id_counter.         *)
IdsAreOld ==
  /\ \A t \in Pool : Live(t) => tour[t].id \in 1..(nextTour - 1)
  /\ \A p \in producers : p.id \in 1..(nextTour - 1)
  /\ \A s \in Ships : cur[s] # NoCur =>
       cur[s].tour \in Pool /\ cur[s].id \in 1..(nextTour - 1)

(* The current tour of a handler, as long as it is the same tour, is one   *)
(* of its own ship.                                                        *)
CurIsOwn ==
  \A s \in Ships :
    /\ s \in body => cur[s] # NoCur
    /\ cur[s] # NoCur /\ tour[cur[s].tour].id = cur[s].id => tour[cur[s].tour].ship = s

(* PoolConsistent alone is not inductive: a callback returns the tour of   *)
(* its unit, so units must be of live tours of their own ship; content is  *)
(* posted to cur_tour, so an id that matches must mean the same tour.      *)
PoolInv ==
  /\ TypeOK
  /\ PoolConsistent
  /\ EndedOnce
  /\ BlankIsReset
  /\ IdsAreOld
  /\ CurIsOwn

LEMMA ResetTypes ==
  /\ ResetTour \in TourType /\ ResetTour.state = "uninitialized"
  /\ ResetTour.id = 0 /\ ResetShip \in ShipType /\ ResetShip.tours = {}
  /\ ResetShip.conn = "none" /\ ResetShip.id = 0
  BY DEF ResetTour, ResetShip, TourType, ShipType, TourState

(* What TypeOK says of one tour, ship or unit.                             *)
LEMMA Types ==
  ASSUME TypeOK
  PROVE  /\ ship \in [Ships -> ShipType] /\ tour \in [Pool -> TourType]
         /\ \A t \in Pool : tour[t] \in TourType
         /\ \A s \in Ships : ship[s] \in ShipType /\ writes[s] \in Seq(UnitType)
         /\ \A s \in Ships : \A i \in DOMAIN writes[s] :
              writes[s][i] \in UnitType /\ writes[s][i].tour \in Pool
  <1>1. /\ ship \in [Ships -> ShipType] /\ tour \in [Pool -> TourType]
        /\ writes \in [Ships -> Seq(UnitType)]
    BY DEF TypeOK
  <1>2. \A s \in Ships : writes[s] \in Seq(UnitType)
    BY <1>1
  <1>3. \A q \in Seq(UnitType) : \A i \in DOMAIN q : q[i] \in UnitType
    OBVIOUS
  <1>4. \A u \in UnitType : u.tour \in Pool
    BY DEF UnitType
  <1> QED BY <1>1, <1>2, <1>3, <1>4

(* Renting a free tour for a ship that is connected.                       *)
LEMMA RentKeeps ==
  ASSUME PoolInv, NEW s \in Ships, NEW t \in Pool, Connected(s),
         NEW state \in {"reading", "running", "ended"},
         NEW handler \in {"none", "file", "process"},
         NEW error \in BOOLEAN, NEW reads \in BOOLEAN,
         Rent(s, t, state, handler, error, reads)
  PROVE  /\ tour' \in [Pool -> TourType] /\ ship' \in [Ships -> ShipType]
         /\ held' \in [Pool -> Nat \X Nat]
         /\ nextTour' = nextTour + 1 /\ nextTour \in Nat \ {0}
         /\ ~Live(t) /\ tour'[t].state = state /\ tour'[t].ship = s
         /\ tour'[t].id = nextTour
         /\ \A x \in Pool \ {t} : tour'[x] = tour[x]
         /\ PoolConsistent' /\ BlankIsReset'
  <1> USE DEF PoolInv
  <1>1. /\ ship \in [Ships -> ShipType] /\ tour \in [Pool -> TourType]
        /\ nextTour \in Nat \ {0} /\ held \in [Pool -> Nat \X Nat]
    BY Types DEF TypeOK
  <1>2. ~Live(t)
    BY DEF PoolConsistent, Rent
  <1>3. tour' = [tour EXCEPT ![t] = [state |-> state, id |-> nextTour, ship |-> s,
                                     handler |-> handler, error |-> error]]
    BY DEF Rent
  <1>4. [state |-> state, id |-> nextTour, ship |-> s, handler |-> handler,
         error |-> error] \in TourType
    BY <1>1 DEF TourType, TourState
  <1>5. tour' \in [Pool -> TourType]
    BY <1>1, <1>3, <1>4
  <1>6. /\ tour'[t].state = state /\ tour'[t].ship = s /\ tour'[t].id = nextTour
        /\ \A x \in Pool \ {t} : tour'[x] = tour[x]
    BY <1>1, <1>3
  <1>7. ship' = [ship EXCEPT ![s] = [ship[s] EXCEPT !.tours = @ \cup {t}, !.reading = reads]]
    BY <1>1 DEF Rent, ShipType
  <1>8. /\ [ship[s] EXCEPT !.tours = @ \cup {t}, !.reading = reads] \in ShipType
        /\ [ship[s] EXCEPT !.tours = @ \cup {t}, !.reading = reads].id = ship[s].id
        /\ [ship[s] EXCEPT !.tours = @ \cup {t}, !.reading = reads].conn = ship[s].conn
        /\ [ship[s] EXCEPT !.tours = @ \cup {t}, !.reading = reads].tours = ship[s].tours \cup {t}
    BY <1>1 DEF ShipType
  <1>9. /\ ship' \in [Ships -> ShipType]
        /\ \A q \in Ships : ship'[q].id = ship[q].id /\ ship'[q].conn = ship[q].conn
        /\ ship'[s].tours = ship[s].tours \cup {t}
        /\ \A q \in Ships \ {s} : ship'[q].tours = ship[q].tours
    BY <1>1, <1>7, <1>8
  <1>10. ship[s].id \in Nat
    BY <1>1 DEF ShipType
  <1>11. held' = [held EXCEPT ![t] = <<ship[s].id, nextTour>>]
    BY DEF Rent, Key
  <1>12. /\ held' \in [Pool -> Nat \X Nat]
         /\ held'[t] = <<ship[s].id, nextTour>>
         /\ \A x \in Pool \ {t} : held'[x] = held[x]
    BY <1>1, <1>10, <1>11
  <1>13. BlankIsReset'
    BY <1>6 DEF BlankIsReset, Live
  <1>14. \A q \in Ships : t \notin ship[q].tours
    BY <1>2 DEF PoolConsistent
  <1>15. PoolConsistent'
    <2>1. \A x \in Pool :
            IF tour'[x].state # "uninitialized"
            THEN /\ tour'[x].ship \in Ships
                 /\ held'[x] = <<ship'[tour'[x].ship].id, tour'[x].id>>
                 /\ held'[x] # <<0, 0>>
                 /\ x \in ship'[tour'[x].ship].tours
            ELSE held'[x] = <<0, 0>>
      <3>1. TAKE x \in Pool
      <3>2. CASE x = t
        BY <3>2, <1>1, <1>6, <1>9, <1>12
      <3>3. CASE x # t
        BY <3>3, <1>6, <1>9, <1>12 DEF PoolConsistent, Live, Key, Free
      <3> QED BY <3>2, <3>3
    <2>2. \A q \in Ships : \A x \in ship'[q].tours :
            tour'[x].state # "uninitialized" /\ tour'[x].ship = q
      <3>1. TAKE q \in Ships
      <3>2. TAKE x \in ship'[q].tours
      <3>3. CASE x = t
        BY <3>3, <1>6, <1>9, <1>14
      <3>4. CASE x # t
        <4>1. x \in ship[q].tours
          BY <3>2, <3>4, <1>9
        <4>2. x \in Pool
          BY <4>1, <1>1 DEF ShipType
        <4> QED BY <3>4, <4>1, <4>2, <1>6 DEF PoolConsistent, Live
      <3> QED BY <3>3, <3>4
    <2>3. \A q \in Ships : ship'[q].conn = "none" => ship'[q].tours = {}
      BY <1>9 DEF PoolConsistent, Connected
    <2> QED BY <2>1, <2>2, <2>3 DEF PoolConsistent, Live, Key, Free
  <1> QED BY <1>1, <1>2, <1>5, <1>6, <1>9, <1>12, <1>13, <1>15 DEF Rent

(* A new end in the queue of a tour that had not ended.                    *)
LEMMA AppendKeeps ==
  ASSUME PoolInv, NEW s \in Ships, NEW new \in UnitType,
         tour[new.tour].state # "ended",
         tour'[new.tour].state = "ended", tour'[new.tour].ship = s,
         new.id \in {NoCheck, tour'[new.tour].id},
         \A x \in Pool \ {new.tour} : tour'[x] = tour[x],
         writes' = [writes EXCEPT ![s] = Append(@, new)]
  PROVE  writes' \in [Ships -> Seq(UnitType)] /\ EndedOnce'
  <1> DEFINE t == new.tour
             id == new.id
  <1>1. new \in UnitType /\ new.tour = t /\ new.id = id /\ t \in Pool
    BY DEF UnitType
  <1>2. writes \in [Ships -> Seq(UnitType)]
    BY DEF PoolInv, TypeOK
  <1>3. writes[s] \in Seq(UnitType)
    BY <1>2
  <1>4. writes' = [writes EXCEPT ![s] = Append(writes[s], new)]
    OBVIOUS
  <1>5. Append(writes[s], new) \in Seq(UnitType)
    BY <1>1, <1>3
  <1>6. writes' \in [Ships -> Seq(UnitType)]
    BY <1>2, <1>4, <1>5
  <1>7. \A q \in Ships : \A i \in DOMAIN writes[q] :
          /\ writes[q][i].tour \in Pool \ {t}
          /\ tour[writes[q][i].tour].state = "ended"
          /\ tour[writes[q][i].tour].ship = q
    <2>1. TAKE q \in Ships
    <2>2. TAKE i \in DOMAIN writes[q]
    <2>3. writes[q][i].tour \in Pool /\ tour[writes[q][i].tour].state = "ended"
          /\ tour[writes[q][i].tour].ship = q
      BY Types DEF PoolInv, EndedOnce
    <2> QED BY <2>3
  <1>8. SUFFICES ASSUME NEW q \in Ships, NEW i \in DOMAIN writes'[q]
        PROVE  LET u == writes'[q][i] IN
               /\ tour'[u.tour].state = "ended" /\ tour'[u.tour].ship = q
               /\ (u.id = NoCheck \/ tour'[u.tour].id = u.id)
               /\ \A j \in DOMAIN writes'[q] : writes'[q][j].tour = u.tour => i = j
    BY <1>6 DEF EndedOnce, Fits
  <1>9. CASE q # s
    <2>1. writes'[q] = writes[q]
      BY <1>2, <1>4, <1>9
    <2>2. LET u == writes[q][i] IN
            /\ tour[u.tour].state = "ended" /\ tour[u.tour].ship = q
            /\ (u.id = NoCheck \/ tour[u.tour].id = u.id)
            /\ \A j \in DOMAIN writes[q] : writes[q][j].tour = u.tour => i = j
      BY <2>1 DEF PoolInv, EndedOnce, Fits
    <2>3. tour'[writes[q][i].tour] = tour[writes[q][i].tour]
      BY <1>7, <2>1
    <2> QED BY <2>1, <2>2, <2>3
  <1>10. CASE q = s
    <2>1. /\ writes'[q] = Append(writes[s], new)
          /\ DOMAIN writes'[q] = 1..(Len(writes[s]) + 1)
          /\ DOMAIN writes[s] = 1..Len(writes[s]) /\ Len(writes[s]) \in Nat
          /\ writes'[q][Len(writes[s]) + 1] = new
          /\ \A j \in 1..Len(writes[s]) : writes'[q][j] = writes[s][j]
      BY <1>1, <1>2, <1>3, <1>4, <1>10
    <2>2. CASE i = Len(writes[s]) + 1
      <3>1. \A j \in DOMAIN writes'[q] : writes'[q][j].tour = t => i = j
        BY <1>7, <1>10, <2>1, <2>2
      <3> QED BY <3>1, <1>1, <1>10, <2>1, <2>2
    <2>3. CASE i \in 1..Len(writes[s])
      <3>1. /\ tour[writes[s][i].tour].state = "ended" /\ tour[writes[s][i].tour].ship = s
            /\ (writes[s][i].id = NoCheck \/ tour[writes[s][i].tour].id = writes[s][i].id)
            /\ \A j \in DOMAIN writes[s] : writes[s][j].tour = writes[s][i].tour => i = j
        BY <2>1, <2>3 DEF PoolInv, EndedOnce, Fits
      <3>2. tour'[writes[s][i].tour] = tour[writes[s][i].tour] /\ writes[s][i].tour # t
        <4>1. writes[s][i].tour \in Pool \ {t}
          BY <1>7, <2>1, <2>3
        <4> QED BY <4>1
      <3>3. \A j \in DOMAIN writes'[q] : writes'[q][j].tour = writes[s][i].tour => i = j
        <4>1. TAKE j \in DOMAIN writes'[q]
        <4>2. j \in 1..Len(writes[s]) \/ j = Len(writes[s]) + 1
          BY <2>1
        <4>3. CASE j \in 1..Len(writes[s])
          BY <4>3, <3>1, <2>1
        <4>4. CASE j = Len(writes[s]) + 1
          <5>1. writes'[q][j].tour = t
            BY <4>4, <2>1, <1>1
          <5> QED BY <5>1, <3>2
        <4> QED BY <4>2, <4>3, <4>4
      <3>4. writes'[q][i] = writes[s][i]
        BY <2>1, <2>3
      <3> QED BY <3>1, <3>2, <3>3, <3>4, <1>10
    <2> QED BY <2>1, <2>2, <2>3
  <1> QED BY <1>9, <1>10

(* The queues stay and so do the tours that have ended.                    *)
LEMMA SameWritesKeep ==
  ASSUME PoolInv, writes' = writes,
         \A x \in Pool : tour[x].state = "ended" => tour'[x] = tour[x]
  PROVE  EndedOnce'
  <1>1. \A q \in Ships : \A i \in DOMAIN writes[q] :
          LET u == writes[q][i] IN
            /\ tour[u.tour].state = "ended" /\ tour[u.tour].ship = q
            /\ (u.id = NoCheck \/ tour[u.tour].id = u.id)
            /\ \A j \in DOMAIN writes[q] : writes[q][j].tour = u.tour => i = j
            /\ u.tour \in Pool
    BY Types DEF PoolInv, EndedOnce, Fits
  <1> QED BY <1>1 DEF EndedOnce, Fits

(* Returning tours of one ship, which may end with them.                   *)
LEMMA ReturnKeeps ==
  ASSUME PoolInv, NEW s \in Ships, NEW R, R \subseteq ship[s].tours, Returned(R),
         NEW ended \in ShipType, ship' = [ship EXCEPT ![s] = ended],
         ended.tours = ship[s].tours \ R,
         ended.id = ship[s].id \/ ended.tours = {},
         ended.conn = "none" => ended.tours = {}
  PROVE  /\ tour' \in [Pool -> TourType] /\ ship' \in [Ships -> ShipType]
         /\ held' \in [Pool -> Nat \X Nat]
         /\ R \subseteq Pool
         /\ \A x \in R : tour'[x] = ResetTour
         /\ \A x \in Pool \ R : tour'[x] = tour[x]
         /\ PoolConsistent' /\ BlankIsReset'
  <1>1. /\ ship \in [Ships -> ShipType] /\ tour \in [Pool -> TourType]
        /\ held \in [Pool -> Nat \X Nat]
    BY Types DEF TypeOK, PoolInv
  <1>2. \A q \in Ships : ship[q].tours \subseteq Pool
    BY <1>1 DEF ShipType
  <1>3. R \subseteq Pool
    BY <1>2
  <1>4. /\ \A x \in R : tour'[x] = ResetTour /\ held'[x] = Free
        /\ \A x \in Pool \ R : tour'[x] = tour[x] /\ held'[x] = held[x]
    BY <1>3 DEF Returned
  <1>5. /\ tour' \in [Pool -> TourType] /\ held' \in [Pool -> Nat \X Nat]
    BY <1>1, ResetTypes DEF Returned, Free
  <1>6. /\ ship' \in [Ships -> ShipType] /\ ship'[s] = ended
        /\ \A q \in Ships \ {s} : ship'[q] = ship[q]
    BY <1>1
  <1>7. BlankIsReset'
    BY <1>4, ResetTypes DEF PoolInv, BlankIsReset, Live
  <1>8. \A q \in Ships \ {s} : ship[q].tours \cap R = {}
    BY DEF PoolInv, PoolConsistent
  <1>9. PoolConsistent'
    <2>1. ASSUME NEW x \in Pool
          PROVE  IF tour'[x].state # "uninitialized"
                 THEN /\ tour'[x].ship \in Ships
                      /\ held'[x] = <<ship'[tour'[x].ship].id, tour'[x].id>>
                      /\ held'[x] # Free
                      /\ x \in ship'[tour'[x].ship].tours
                 ELSE held'[x] = Free
      <3>1. CASE x \in R
        BY <3>1, <1>4, ResetTypes
      <3>2. CASE x \notin R /\ tour[x].state = "uninitialized"
        BY <3>2, <1>4 DEF PoolInv, PoolConsistent, Live
      <3>3. CASE x \notin R /\ tour[x].state # "uninitialized"
        <4>1. /\ tour[x].ship \in Ships
              /\ held[x] = <<ship[tour[x].ship].id, tour[x].id>>
              /\ held[x] # Free /\ x \in ship[tour[x].ship].tours
              /\ tour'[x] = tour[x] /\ held'[x] = held[x]
          BY <3>3, <1>4 DEF PoolInv, PoolConsistent, Live, Key
        <4>2. CASE tour[x].ship = s
          <5>1. x \in ended.tours
            BY <4>1, <4>2, <3>3
          <5> QED BY <5>1, <4>1, <4>2, <3>3, <1>6
        <4>3. CASE tour[x].ship # s
          BY <4>1, <4>3, <3>3, <1>6
        <4> QED BY <4>2, <4>3
      <3> QED BY <3>1, <3>2, <3>3
    <2>2. ASSUME NEW q \in Ships, NEW x \in ship'[q].tours
          PROVE  tour'[x].state # "uninitialized" /\ tour'[x].ship = q
      <3>1. x \in ship[q].tours /\ x \notin R
        BY <1>6, <1>8
      <3>2. tour'[x] = tour[x]
        BY <3>1, <1>2, <1>4
      <3> QED BY <3>1, <3>2 DEF PoolInv, PoolConsistent, Live
    <2>3. \A q \in Ships : ship'[q].conn = "none" => ship'[q].tours = {}
      BY <1>6 DEF PoolInv, PoolConsistent
    <2> QED BY <2>1, <2>2, <2>3 DEF PoolConsistent, Live, Key
  <1> QED BY <1>3, <1>4, <1>5, <1>6, <1>7, <1>9

(* The units that stay in the queues when tours of a ship are returned:    *)
(* none of theirs is left in the queue of that ship.                       *)
LEMMA LeftWritesKeep ==
  ASSUME PoolInv, NEW s \in Ships, NEW R, R \subseteq ship[s].tours,
         \A x \in Pool \ R : tour'[x] = tour[x],
         \/ writes' = writes /\ \A x \in R : tour[x].state # "ended"
         \/ writes' = [writes EXCEPT ![s] = <<>>]
         \/ /\ writes[s] # <<>> /\ R = {Head(writes[s]).tour}
            /\ writes' = [writes EXCEPT ![s] = Tail(writes[s])]
  PROVE  writes' \in [Ships -> Seq(UnitType)] /\ EndedOnce'
  <1>1. writes \in [Ships -> Seq(UnitType)]
    BY DEF PoolInv, TypeOK
  <1>2. \A q \in Ships : \A i \in DOMAIN writes[q] :
          LET u == writes[q][i] IN
            /\ tour[u.tour].state = "ended" /\ tour[u.tour].ship = q
            /\ (u.id = NoCheck \/ tour[u.tour].id = u.id)
            /\ \A j \in DOMAIN writes[q] : writes[q][j].tour = u.tour => i = j
            /\ u.tour \in Pool
    BY Types DEF PoolInv, EndedOnce, Fits
  <1>3. \A x \in R : tour[x].ship = s
    BY DEF PoolInv, PoolConsistent
  <1>4. SUFFICES /\ writes' \in [Ships -> Seq(UnitType)]
                 /\ \A q \in Ships : \A i \in DOMAIN writes'[q] :
                      LET u == writes'[q][i] IN
                        /\ tour'[u.tour].state = "ended" /\ tour'[u.tour].ship = q
                        /\ (u.id = NoCheck \/ tour'[u.tour].id = u.id)
                        /\ \A j \in DOMAIN writes'[q] : writes'[q][j].tour = u.tour => i = j
    BY DEF EndedOnce, Fits
  <1>5. CASE writes' = writes /\ \A x \in R : tour[x].state # "ended"
    BY <1>1, <1>2, <1>5
  <1>6. CASE writes' = [writes EXCEPT ![s] = <<>>]
    <2>1. writes' \in [Ships -> Seq(UnitType)] /\ writes'[s] = <<>>
          /\ \A q \in Ships \ {s} : writes'[q] = writes[q]
      BY <1>1, <1>6
    <2>2. DOMAIN writes'[s] = {}
      BY <2>1
    <2> QED BY <2>1, <2>2, <1>2, <1>3
  <1>7. CASE /\ writes[s] # <<>> /\ R = {Head(writes[s]).tour}
             /\ writes' = [writes EXCEPT ![s] = Tail(writes[s])]
    <2>1. writes[s] \in Seq(UnitType)
      BY <1>1
    <2>2. /\ Tail(writes[s]) \in Seq(UnitType) /\ Head(writes[s]) = writes[s][1]
          /\ Len(writes[s]) \in Nat \ {0} /\ DOMAIN writes[s] = 1..Len(writes[s])
          /\ DOMAIN Tail(writes[s]) = 1..(Len(writes[s]) - 1)
          /\ \A i \in 1..(Len(writes[s]) - 1) : Tail(writes[s])[i] = writes[s][i + 1]
      BY <2>1, <1>7
    <2>3. writes' \in [Ships -> Seq(UnitType)] /\ writes'[s] = Tail(writes[s])
          /\ \A q \in Ships \ {s} : writes'[q] = writes[q]
      BY <1>1, <1>7, <2>2
    <2>4. ASSUME NEW i \in DOMAIN writes'[s]
          PROVE  LET u == writes'[s][i] IN
                   /\ tour'[u.tour].state = "ended" /\ tour'[u.tour].ship = s
                   /\ (u.id = NoCheck \/ tour'[u.tour].id = u.id)
                   /\ \A j \in DOMAIN writes'[s] : writes'[s][j].tour = u.tour => i = j
      <3>1. /\ i + 1 \in DOMAIN writes[s] /\ 1 \in DOMAIN writes[s]
            /\ writes'[s][i] = writes[s][i + 1] /\ i \in Nat /\ i + 1 # 1
        BY <2>2, <2>3
      <3>2. writes[s][i + 1].tour # writes[s][1].tour
        BY <1>2, <3>1
      <3>3. tour'[writes[s][i + 1].tour] = tour[writes[s][i + 1].tour]
        BY <3>1, <3>2, <1>2, <1>7, <2>2
      <3>4. \A j \in DOMAIN writes'[s] :
              writes'[s][j].tour = writes[s][i + 1].tour => i = j
        <4>1. TAKE j \in DOMAIN writes'[s]
        <4>2. j \in Nat /\ j + 1 \in DOMAIN writes[s] /\ writes'[s][j] = writes[s][j + 1]
          BY <2>2, <2>3
        <4>3. writes[s][j + 1].tour = writes[s][i + 1].tour => i + 1 = j + 1
          BY <4>2, <3>1, <1>2
        <4> QED BY <4>2, <4>3, <3>1
      <3>5. /\ tour[writes[s][i + 1].tour].state = "ended"
            /\ tour[writes[s][i + 1].tour].ship = s
            /\ (writes[s][i + 1].id = NoCheck
                 \/ tour[writes[s][i + 1].tour].id = writes[s][i + 1].id)
        BY <3>1, <1>2
      <3> QED BY <3>1, <3>3, <3>4, <3>5
    <2>5. ASSUME NEW q \in Ships \ {s}, NEW i \in DOMAIN writes'[q]
          PROVE  LET u == writes'[q][i] IN
                   /\ tour'[u.tour].state = "ended" /\ tour'[u.tour].ship = q
                   /\ (u.id = NoCheck \/ tour'[u.tour].id = u.id)
                   /\ \A j \in DOMAIN writes'[q] : writes'[q][j].tour = u.tour => i = j
      <3>1. writes'[q] = writes[q]
        BY <2>3
      <3>2. writes[q][i].tour \in Pool \ R
        BY <3>1, <1>2, <1>3
      <3> QED BY <3>1, <3>2, <1>2
    <2> QED BY <2>3, <2>4, <2>5
  <1> QED BY <1>5, <1>6, <1>7

(* References by id stay old, and those of the handlers stay their own.    *)
LEMMA RefsKeep ==
  ASSUME PoolInv, nextTour' \in {nextTour, nextTour + 1},
         \A x \in Pool :
           \/ tour'[x] \in {ResetTour, tour[x]}
           \/ Live(x) /\ tour'[x].id = tour[x].id /\ tour'[x].ship = tour[x].ship
           \/ nextTour' = nextTour + 1 /\ tour'[x].id = nextTour,
         \A p \in producers' :
           \/ \E o \in producers : p.id = o.id
           \/ \E x \in Pool : Live(x) /\ p.id = tour[x].id
           \/ nextTour' = nextTour + 1 /\ p.id = nextTour,
         \A q \in Ships :
           \/ cur'[q] \in {NoCur, cur[q]}
           \/ /\ nextTour' = nextTour + 1 /\ cur'[q].id = nextTour
              /\ cur'[q].tour \in Pool /\ tour'[cur'[q].tour].ship = q,
         \A q \in body' : q \in Ships => cur'[q] # NoCur
  PROVE  IdsAreOld' /\ CurIsOwn'
  <1>1. nextTour \in Nat \ {0} /\ nextTour' \in Nat
    BY DEF PoolInv, TypeOK
  <1>2. \A x \in Pool : Live(x)' => tour'[x].id \in 1..(nextTour' - 1)
    BY <1>1, ResetTypes DEF PoolInv, IdsAreOld, Live
  <1>3. \A p \in producers' : p.id \in 1..(nextTour' - 1)
    BY <1>1 DEF PoolInv, IdsAreOld
  <1>4. \A q \in Ships : cur'[q] # NoCur =>
          cur'[q].tour \in Pool /\ cur'[q].id \in 1..(nextTour' - 1)
    BY <1>1 DEF PoolInv, IdsAreOld
  <1>5. \A q \in Ships : cur'[q] # NoCur /\ tour'[cur'[q].tour].id = cur'[q].id
                           => tour'[cur'[q].tour].ship = q
    <2>1. SUFFICES ASSUME NEW q \in Ships, cur'[q] # NoCur,
                          tour'[cur'[q].tour].id = cur'[q].id, cur'[q] = cur[q]
                   PROVE  tour'[cur'[q].tour].ship = q
      OBVIOUS
    <2>2. cur[q].tour \in Pool /\ cur[q].id \in 1..(nextTour - 1)
      BY <2>1 DEF PoolInv, IdsAreOld
    <2>3. tour'[cur[q].tour].id # 0 /\ tour'[cur[q].tour].id # nextTour
      BY <2>1, <2>2, <1>1
    <2>4. tour'[cur[q].tour].id = tour[cur[q].tour].id
          /\ tour'[cur[q].tour].ship = tour[cur[q].tour].ship
      BY <2>2, <2>3, ResetTypes
    <2> QED BY <2>1, <2>4 DEF PoolInv, CurIsOwn
  <1> QED BY <1>2, <1>3, <1>4, <1>5 DEF IdsAreOld, CurIsOwn

-----------------------------------------------------------------------------
(* The shapes of the steps: rent, end, return, fail.                       *)

(* What a step may do to the current tour of the handler of s.             *)
CurStays == UNCHANGED <<cur, body>>

LEMMA ResetStateKeeps ==
  ASSUME PoolInv, NEW s \in Ships, CurStays \/ ResetState(s)
  PROVE  /\ cur' \in [Ships -> [tour : Pool \cup {NoTour}, id : Nat]]
         /\ body' \subseteq Ships
         /\ \A q \in Ships : cur'[q] \in {NoCur, cur[q]}
         /\ \A q \in body' : q \in Ships => cur'[q] # NoCur
  <1>1. /\ cur \in [Ships -> [tour : Pool \cup {NoTour}, id : Nat]]
        /\ body \subseteq Ships
        /\ \A q \in body : cur[q] # NoCur
    BY DEF PoolInv, TypeOK, CurIsOwn
  <1>2. NoCur \in [tour : Pool \cup {NoTour}, id : Nat]
    BY DEF NoCur
  <1>3. CASE CurStays
    BY <1>1, <1>3 DEF CurStays
  <1>4. CASE ResetState(s)
    <2>1. cur' = [cur EXCEPT ![s] = NoCur] /\ body' = body \ {s}
      BY <1>4 DEF ResetState
    <2>2. cur'[s] = NoCur /\ \A q \in Ships \ {s} : cur'[q] = cur[q]
      BY <2>1, <1>1
    <2> QED BY <2>1, <2>2, <1>1, <1>2
  <1> QED BY <1>3, <1>4

LEMMA RentStep ==
  ASSUME PoolInv, NEW s \in Ships, NEW t \in Pool, Connected(s),
         NEW state \in {"reading", "running", "ended"},
         NEW handler \in {"none", "file", "process"},
         NEW error \in BOOLEAN, NEW reads \in BOOLEAN,
         Rent(s, t, state, handler, error, reads),
         \/ writes' = writes
         \/ state = "ended" /\ \E id \in {NoCheck, nextTour}, keep \in BOOLEAN :
              writes' = [writes EXCEPT ![s] = Append(@, Unit(t, id, keep))],
         producers' = producers \/ Starts(t, nextTour),
         \/ CurStays
         \/ ResetState(s)
         \/ /\ cur' = [cur EXCEPT ![s] = [tour |-> t, id |-> nextTour]]
            /\ body' \in {body, body \cup {s}},
         cause' \in {"none"}, UNCHANGED <<nextShip, unanswered>>
  PROVE  PoolInv'
  <1>1. /\ tour' \in [Pool -> TourType] /\ ship' \in [Ships -> ShipType]
        /\ held' \in [Pool -> Nat \X Nat]
        /\ nextTour' = nextTour + 1 /\ nextTour \in Nat \ {0}
        /\ ~Live(t) /\ tour'[t].state = state /\ tour'[t].ship = s
        /\ tour'[t].id = nextTour
        /\ \A x \in Pool \ {t} : tour'[x] = tour[x]
        /\ PoolConsistent' /\ BlankIsReset'
    BY RentKeeps
  <1>2. tour[t].state # "ended"
    BY <1>1 DEF Live
  <1>3. writes' \in [Ships -> Seq(UnitType)] /\ EndedOnce'
    <2>1. CASE writes' = writes
      BY <2>1, <1>1, <1>2, SameWritesKeep DEF PoolInv, TypeOK
    <2>2. CASE state = "ended" /\ \E id \in {NoCheck, nextTour}, keep \in BOOLEAN :
                 writes' = [writes EXCEPT ![s] = Append(@, Unit(t, id, keep))]
      <3>1. PICK id \in {NoCheck, nextTour}, keep \in BOOLEAN :
              writes' = [writes EXCEPT ![s] = Append(@, Unit(t, id, keep))]
        BY <2>2
      <3>2. id \in Nat /\ (id = NoCheck \/ id = tour'[t].id)
        BY <3>1, <1>1 DEF NoCheck
      <3> DEFINE new == Unit(t, id, keep)
      <3>3. new \in UnitType /\ new.tour = t /\ new.id = id
        BY <3>2 DEF Unit, UnitType
      <3>4. writes' = [writes EXCEPT ![s] = Append(@, new)]
        BY <3>1
      <3> HIDE DEF new
      <3>5. /\ tour[new.tour].state # "ended"
            /\ tour'[new.tour].state = "ended" /\ tour'[new.tour].ship = s
            /\ new.id \in {NoCheck, tour'[new.tour].id}
            /\ \A x \in Pool \ {new.tour} : tour'[x] = tour[x]
        BY <3>2, <3>3, <2>2, <1>1, <1>2
      <3> QED BY <3>3, <3>4, <3>5, AppendKeeps
    <2> QED BY <2>1, <2>2
  <1>4. /\ cur' \in [Ships -> [tour : Pool \cup {NoTour}, id : Nat]]
        /\ body' \subseteq Ships
        /\ \A q \in Ships :
             \/ cur'[q] \in {NoCur, cur[q]}
             \/ /\ cur'[q].id = nextTour /\ cur'[q].tour \in Pool
                /\ tour'[cur'[q].tour].ship = q
        /\ \A q \in body' : q \in Ships => cur'[q] # NoCur
    <2>1. CASE CurStays \/ ResetState(s)
      BY <2>1, ResetStateKeeps
    <2>2. CASE /\ cur' = [cur EXCEPT ![s] = [tour |-> t, id |-> nextTour]]
               /\ body' \in {body, body \cup {s}}
      <3>1. /\ cur \in [Ships -> [tour : Pool \cup {NoTour}, id : Nat]]
            /\ body \subseteq Ships
            /\ \A q \in body : cur[q] # NoCur
        BY DEF PoolInv, TypeOK, CurIsOwn
      <3>2. /\ [tour |-> t, id |-> nextTour] \in [tour : Pool \cup {NoTour}, id : Nat]
            /\ [tour |-> t, id |-> nextTour] # NoCur
        BY <1>1 DEF NoCur
      <3>3. /\ cur' \in [Ships -> [tour : Pool \cup {NoTour}, id : Nat]]
            /\ cur'[s] = [tour |-> t, id |-> nextTour]
            /\ \A q \in Ships \ {s} : cur'[q] = cur[q]
        BY <2>2, <3>1, <3>2
      <3>4. cur'[s].id = nextTour /\ cur'[s].tour = t
        BY <3>3
      <3> QED BY <2>2, <3>1, <3>2, <3>3, <3>4, <1>1
    <2> QED BY <2>1, <2>2
  <1>5. /\ producers' \subseteq ProducerType
        /\ \A p \in producers' : (\E o \in producers : p.id = o.id) \/ p.id = nextTour
    BY <1>1 DEF PoolInv, TypeOK, Starts, Producer, ProducerType
  <1>6. \A x \in Pool : tour'[x] = tour[x] \/ tour'[x].id = nextTour
    BY <1>1
  <1>7. IdsAreOld' /\ CurIsOwn'
    BY <1>1, <1>4, <1>5, <1>6, RefsKeep
  <1>8. TypeOK'
    BY <1>1, <1>3, <1>4, <1>5 DEF PoolInv, TypeOK
  <1> QED BY <1>1, <1>3, <1>7, <1>8 DEF PoolInv

LEMMA EndStep ==
  ASSUME PoolInv, NEW s \in Ships, NEW t \in Pool, Live(t),
         NEW id \in {NoCheck, tour[t].id}, NEW keep \in BOOLEAN,
         EndResContent(t, id, keep), producers' \subseteq ProducerType,
         \A p \in producers' : \E o \in producers : p.id = o.id,
         CurStays \/ ResetState(s),
         UNCHANGED <<cause, ship, held, nextTour, nextShip, unanswered>>
  PROVE  PoolInv'
  <1>1. /\ tour \in [Pool -> TourType] /\ tour[t] \in TourType
        /\ tour[t].ship \in Ships /\ id \in Nat
    BY Types DEF PoolInv, PoolConsistent, TourType, NoCheck
  <1>2. /\ tour' \in [Pool -> TourType]
        /\ \A x \in Pool : /\ tour'[x].id = tour[x].id /\ tour'[x].ship = tour[x].ship
                           /\ (tour'[x].state = "uninitialized") <=> ~Live(x)
                           /\ ~Live(x) => tour'[x] = tour[x]
        /\ writes' \in [Ships -> Seq(UnitType)] /\ EndedOnce'
    <2>1. CASE Ended(t)
      BY <2>1, <1>1, SameWritesKeep DEF EndResContent, PoolInv, TypeOK, Live
    <2>2. CASE ~Ended(t)
      <3>1. /\ tour' = [tour EXCEPT ![t] = [tour[t] EXCEPT !.state = "ended"]]
            /\ writes' = [writes EXCEPT ![tour[t].ship] = Append(@, Unit(t, id, keep))]
        BY <2>2, <1>1 DEF EndResContent, TourType
      <3>2. /\ [tour[t] EXCEPT !.state = "ended"] \in TourType
            /\ [tour[t] EXCEPT !.state = "ended"].state = "ended"
            /\ [tour[t] EXCEPT !.state = "ended"].id = tour[t].id
            /\ [tour[t] EXCEPT !.state = "ended"].ship = tour[t].ship
        BY <1>1 DEF TourType, TourState
      <3>3. /\ tour' \in [Pool -> TourType] /\ tour'[t].state = "ended"
            /\ tour'[t].id = tour[t].id /\ tour'[t].ship = tour[t].ship
            /\ \A x \in Pool \ {t} : tour'[x] = tour[x]
        BY <3>1, <3>2, <1>1
      <3>4. writes' \in [Ships -> Seq(UnitType)] /\ EndedOnce'
        <4> DEFINE new == Unit(t, id, keep)
                   o == tour[t].ship
        <4>1. new \in UnitType /\ new.tour = t /\ new.id = id
          BY <1>1 DEF Unit, UnitType
        <4>2. writes' = [writes EXCEPT ![o] = Append(@, new)]
          BY <3>1
        <4>3. o \in Ships /\ tour'[t].ship = o
          BY <1>1, <3>3
        <4> HIDE DEF new, o
        <4>4. /\ tour[new.tour].state # "ended"
              /\ tour'[new.tour].state = "ended" /\ tour'[new.tour].ship = o
              /\ new.id \in {NoCheck, tour'[new.tour].id}
              /\ \A x \in Pool \ {new.tour} : tour'[x] = tour[x]
          BY <4>1, <4>3, <3>3, <2>2 DEF Ended
        <4> QED BY <4>1, <4>2, <4>3, <4>4, AppendKeeps
      <3> QED BY <3>3, <3>4 DEF Live
    <2> QED BY <2>1, <2>2
  <1>3. PoolConsistent'
    BY <1>2, Types DEF PoolInv, PoolConsistent, Live, Key, Free, ShipType
  <1>4. BlankIsReset'
    BY <1>2 DEF PoolInv, BlankIsReset, Live
  <1>5. /\ cur' \in [Ships -> [tour : Pool \cup {NoTour}, id : Nat]]
        /\ body' \subseteq Ships
        /\ \A q \in Ships : cur'[q] \in {NoCur, cur[q]}
        /\ \A q \in body' : q \in Ships => cur'[q] # NoCur
    BY ResetStateKeeps
  <1>6. \A x \in Pool : \/ tour'[x] = tour[x]
                        \/ Live(x) /\ tour'[x].id = tour[x].id
                                   /\ tour'[x].ship = tour[x].ship
    BY <1>2
  <1>7. IdsAreOld' /\ CurIsOwn'
    BY <1>5, <1>6, RefsKeep
  <1>8. TypeOK'
    BY <1>2, <1>5 DEF PoolInv, TypeOK
  <1> QED BY <1>2, <1>3, <1>4, <1>7, <1>8 DEF PoolInv

LEMMA ReturnStep ==
  ASSUME PoolInv, NEW s \in Ships, NEW R, R \subseteq ship[s].tours, Returned(R),
         NEW ended \in ShipType, ship' = [ship EXCEPT ![s] = ended],
         ended.tours = ship[s].tours \ R,
         ended.id = ship[s].id \/ ended.tours = {},
         ended.conn = "none" => ended.tours = {},
         \/ writes' = writes /\ \A x \in R : tour[x].state # "ended"
         \/ writes' = [writes EXCEPT ![s] = <<>>]
         \/ /\ writes[s] # <<>> /\ R = {Head(writes[s]).tour}
            /\ writes' = [writes EXCEPT ![s] = Tail(writes[s])],
         producers' \subseteq ProducerType,
         \A p \in producers' : \E o \in producers : p.id = o.id,
         CurStays \/ ResetState(s), unanswered' \subseteq Nat,
         UNCHANGED <<cause, nextTour, nextShip>>
  PROVE  PoolInv'
  <1>1. /\ tour' \in [Pool -> TourType] /\ ship' \in [Ships -> ShipType]
        /\ held' \in [Pool -> Nat \X Nat]
        /\ R \subseteq Pool
        /\ \A x \in R : tour'[x] = ResetTour
        /\ \A x \in Pool \ R : tour'[x] = tour[x]
        /\ PoolConsistent' /\ BlankIsReset'
    BY ReturnKeeps
  <1>2. writes' \in [Ships -> Seq(UnitType)] /\ EndedOnce'
    BY <1>1, LeftWritesKeep
  <1>3. /\ cur' \in [Ships -> [tour : Pool \cup {NoTour}, id : Nat]]
        /\ body' \subseteq Ships
        /\ \A q \in Ships : cur'[q] \in {NoCur, cur[q]}
        /\ \A q \in body' : q \in Ships => cur'[q] # NoCur
    BY ResetStateKeeps
  <1>4. \A x \in Pool : tour'[x] \in {ResetTour, tour[x]}
    BY <1>1
  <1>5. IdsAreOld' /\ CurIsOwn'
    BY <1>3, <1>4, RefsKeep
  <1>6. TypeOK'
    BY <1>1, <1>2, <1>3 DEF PoolInv, TypeOK
  <1> QED BY <1>1, <1>2, <1>5, <1>6 DEF PoolInv

LEMMA FailStep ==
  ASSUME PoolInv, cause' \in {"noTours", "staleContent", "staleProducer",
                              "staleTour", "staleUnit"},
         UNCHANGED <<ship, tour, held, producers, writes, nextTour, nextShip,
                     unanswered>>,
         NEW s \in Ships, CurStays \/ ResetState(s)
  PROVE  PoolInv'
  <1>1. /\ cur' \in [Ships -> [tour : Pool \cup {NoTour}, id : Nat]]
        /\ body' \subseteq Ships
        /\ \A q \in Ships : cur'[q] \in {NoCur, cur[q]}
        /\ \A q \in body' : q \in Ships => cur'[q] # NoCur
    BY ResetStateKeeps
  <1>2. IdsAreOld' /\ CurIsOwn'
    BY <1>1, RefsKeep
  <1>3. TypeOK'
    BY <1>1 DEF PoolInv, TypeOK
  <1>4. PoolConsistent' /\ EndedOnce' /\ BlankIsReset'
    BY DEF PoolInv, PoolConsistent, EndedOnce, BlankIsReset, Live, Key, Fits
  <1> QED BY <1>2, <1>3, <1>4 DEF PoolInv

-----------------------------------------------------------------------------
(* The actions.                                                            *)

LEMMA InitInv == Init => PoolInv
  <1> SUFFICES ASSUME Init PROVE PoolInv
    OBVIOUS
  <1>1. TypeOK
    BY ResetTypes DEF Init, TypeOK, NoCur, Free
  <1>2. PoolConsistent
    BY ResetTypes DEF Init, PoolConsistent, Live
  <1>3. EndedOnce /\ BlankIsReset /\ IdsAreOld /\ CurIsOwn
    BY DEF Init, EndedOnce, BlankIsReset, IdsAreOld, CurIsOwn, Live, ResetTour
  <1> QED BY <1>1, <1>2, <1>3 DEF PoolInv

LEMMA AcceptInv ==
  ASSUME PoolInv, NEW s \in Ships, Accept(s)
  PROVE  PoolInv'
  <1> DEFINE new == [ship[s] EXCEPT !.id = nextShip, !.conn = "open", !.reading = TRUE]
  <1>1. /\ ship \in [Ships -> ShipType] /\ ship[s] \in ShipType
        /\ nextShip \in Nat \ {0} /\ ship[s].conn = "none"
    BY Types DEF PoolInv, TypeOK, Accept
  <1>2. ship[s].tours = {}
    BY <1>1 DEF PoolInv, PoolConsistent
  <1>3. new \in ShipType /\ new.tours = {} /\ new.conn = "open"
    BY <1>1, <1>2 DEF ShipType
  <1>4. ship' = [ship EXCEPT ![s] = new]
    BY <1>1 DEF Accept, ShipType
  <1> HIDE DEF new
  <1>5. /\ ship' \in [Ships -> ShipType] /\ ship'[s] = new
        /\ \A q \in Ships \ {s} : ship'[q] = ship[q]
    BY <1>1, <1>3, <1>4
  <1>6. \A x \in Pool : Live(x) => tour[x].ship \in Ships \ {s}
    BY <1>2 DEF PoolInv, PoolConsistent
  <1>7. PoolConsistent'
    BY <1>3, <1>5, <1>6 DEF PoolInv, PoolConsistent, Accept, Live, Key
  <1>8. TypeOK'
    BY <1>1, <1>5 DEF PoolInv, TypeOK, Accept
  <1>9. (EndedOnce /\ BlankIsReset /\ IdsAreOld /\ CurIsOwn)'
    BY DEF PoolInv, EndedOnce, BlankIsReset, IdsAreOld, CurIsOwn, Accept, Live, Fits
  <1> QED BY <1>7, <1>8, <1>9 DEF PoolInv

LEMMA HeaderInv ==
  ASSUME PoolInv, NEW s \in Ships, NEW t \in Pool, NEW handler \in Handlers,
         NEW keep \in BOOLEAN,
         \/ HeaderGet(s, t, handler) \/ HeaderPost(s, t, handler)
         \/ HeaderGetRefused(s, t, keep) \/ HeaderPostRefused(s, t)
         \/ HeaderInvalid(s, t)
  PROVE  PoolInv'
  <1>1. Connected(s) /\ cause = "none" /\ handler \in {"none", "file", "process"}
    BY DEF HeaderGet, HeaderPost, HeaderGetRefused, HeaderPostRefused, HeaderInvalid,
           ReadsHeader, Alive, Handlers
  <1>2. CASE HeaderGet(s, t, handler)
    BY <1>1, <1>2, RentStep DEF HeaderGet, CurStays
  <1>3. CASE HeaderPost(s, t, handler)
    <2>1. producers' = producers \/ Starts(t, nextTour)
      BY <1>3 DEF HeaderPost
    <2> QED BY <1>1, <1>3, <2>1, RentStep DEF HeaderPost
  <1>4. CASE HeaderGetRefused(s, t, keep)
    BY <1>1, <1>4, RentStep DEF HeaderGetRefused, CurStays
  <1>5. CASE HeaderPostRefused(s, t)
    BY <1>1, <1>5, RentStep DEF HeaderPostRefused
  <1>6. CASE HeaderInvalid(s, t)
    BY <1>1, <1>6, RentStep DEF HeaderInvalid
  <1> QED BY <1>2, <1>3, <1>4, <1>5, <1>6

LEMMA HeaderUnexpectedInv ==
  ASSUME PoolInv, NEW s \in Ships, HeaderUnexpected(s)
  PROVE  PoolInv'
  <1>1. Connected(s) /\ cause = "none" /\ ResetState(s)
    BY DEF HeaderUnexpected, ReadsHeader, Alive
  <1>2. CASE \E t \in Pool :
               /\ Rent(s, t, "ended", "none", FALSE, TRUE)
               /\ writes' = [writes EXCEPT ![s] = Append(@, Unit(t, NoCheck, FALSE))]
               /\ UNCHANGED <<cause, producers, nextShip, unanswered>>
    BY <1>1, <1>2, RentStep
  <1>3. CASE /\ cause' = "noTours"
             /\ UNCHANGED <<ship, tour, held, producers, writes, nextTour, nextShip,
                            unanswered>>
    BY <1>1, <1>3, FailStep
  <1> QED BY <1>2, <1>3 DEF HeaderUnexpected

(* The upcalls that fail change nothing but cause.                         *)
LEMMA FailInv ==
  ASSUME PoolInv, NEW s \in Ships,
         NEW why \in {"noTours", "staleContent", "staleProducer", "staleTour", "staleUnit"},
         Fail(why)
  PROVE  PoolInv'
  BY FailStep DEF Fail, CurStays

(* The current tour while its content is read.                             *)
LEMMA ContentOfTour ==
  ASSUME PoolInv, NEW s \in Ships, ContentOf(s)
  PROVE  /\ cur[s].tour \in Pool /\ Live(cur[s].tour)
         /\ cur[s].id = tour[cur[s].tour].id
         /\ tour[cur[s].tour].ship = s
         /\ cur[s].tour \in ship[s].tours
         /\ Connected(s)
  <1>1. s \in body /\ tour[cur[s].tour].id = cur[s].id /\ Connected(s)
    BY DEF ContentOf, ReadsContent
  <1>2. cur[s].tour \in Pool /\ cur[s].id # 0 /\ tour[cur[s].tour].ship = s
    BY <1>1 DEF PoolInv, CurIsOwn, IdsAreOld, TypeOK
  <1>3. Live(cur[s].tour)
    BY <1>1, <1>2, ResetTypes DEF PoolInv, BlankIsReset
  <1> QED BY <1>1, <1>2, <1>3 DEF PoolInv, PoolConsistent

(* What return_tour makes of the record of its ship.                       *)
LEMMA WithoutShape ==
  ASSUME PoolInv, NEW s \in Ships, NEW R, R \subseteq ship[s].tours
  PROVE  /\ Without(s, R) \in ShipType
         /\ Without(s, R).tours = ship[s].tours \ R
         /\ Without(s, R).id = ship[s].id \/ Without(s, R).tours = {}
         /\ Without(s, R).conn = "none" => Without(s, R).tours = {}
  <1>1. ship[s] \in ShipType
    BY Types DEF PoolInv
  <1>2. ship[s].conn = "none" => ship[s].tours = {}
    BY DEF PoolInv, PoolConsistent
  <1>3. /\ [ship[s] EXCEPT !.tours = @ \ R] \in ShipType
        /\ [ship[s] EXCEPT !.tours = @ \ R].tours = ship[s].tours \ R
        /\ [ship[s] EXCEPT !.tours = @ \ R].id = ship[s].id
        /\ [ship[s] EXCEPT !.tours = @ \ R].conn = ship[s].conn
    BY <1>1 DEF ShipType
  <1>4. CASE ship[s].needEnd /\ ship[s].tours \subseteq R
    BY <1>4, ResetTypes DEF Without
  <1>5. CASE ~(ship[s].needEnd /\ ship[s].tours \subseteq R)
    BY <1>2, <1>3, <1>5 DEF Without
  <1> QED BY <1>4, <1>5

LEMMA KilledShape ==
  ASSUME PoolInv, NEW R, NEW status \in {"killed", "killedLate"}
  PROVE  /\ Killed(R, status) \subseteq ProducerType
         /\ \A p \in Killed(R, status) : \E o \in producers : p.id = o.id
  BY DEF PoolInv, TypeOK, Killed, Producer, ProducerType

LEMMA ContentInv ==
  ASSUME PoolInv, NEW s \in Ships, NEW keep \in BOOLEAN,
         ContentIgnored(s) \/ ContentRefused(s, keep) \/ ContentEnds(s)
  PROVE  PoolInv'
  <1> DEFINE t == cur[s].tour
  <1>1. /\ t \in Pool /\ Live(t) /\ cur[s].id = tour[t].id /\ ResetState(s)
    BY ContentOfTour DEF ContentIgnored, ContentRefused, ContentEnds
  <1>2. producers \subseteq ProducerType
    BY DEF PoolInv, TypeOK
  <1>3. CASE ContentRefused(s, keep)
    <2>1. cur[s].id \in {NoCheck, tour[t].id}
      BY <1>1
    <2>2. EndResContent(t, cur[s].id, keep) /\ producers' = producers
      BY <1>3 DEF ContentRefused
    <2> QED BY <1>1, <1>2, <1>3, <2>1, <2>2, EndStep DEF ContentRefused
  <1>4. CASE ContentIgnored(s) \/ ContentEnds(s)
    <2>1. /\ UNCHANGED <<cause, ship, tour, held, writes, nextTour, nextShip, unanswered>>
          /\ producers' = producers \/ Starts(t, tour[t].id)
      BY <1>4 DEF ContentIgnored, ContentEnds
    <2>2. /\ cur' \in [Ships -> [tour : Pool \cup {NoTour}, id : Nat]]
          /\ body' \subseteq Ships
          /\ \A q \in Ships : cur'[q] \in {NoCur, cur[q]}
          /\ \A q \in body' : q \in Ships => cur'[q] # NoCur
      BY <1>1, ResetStateKeeps
    <2>3. tour[t].id \in Nat
      BY <1>1, Types DEF PoolInv, TourType
    <2>4. /\ producers' \subseteq ProducerType
          /\ \A p \in producers' : \/ \E o \in producers : p.id = o.id
                                  \/ \E x \in Pool : Live(x) /\ p.id = tour[x].id
      BY <1>1, <1>2, <2>1, <2>3 DEF Starts, Producer, ProducerType
    <2>5. IdsAreOld' /\ CurIsOwn'
      BY <2>1, <2>2, <2>4, RefsKeep
    <2>6. TypeOK'
      BY <2>1, <2>2, <2>4 DEF PoolInv, TypeOK
    <2>7. (PoolConsistent /\ EndedOnce /\ BlankIsReset)'
      BY <2>1 DEF PoolInv, PoolConsistent, EndedOnce, BlankIsReset, Live, Key, Fits
    <2> QED BY <2>5, <2>6, <2>7 DEF PoolInv
  <1> QED BY <1>3, <1>4

LEMMA ContentRejectedInv ==
  ASSUME PoolInv, NEW s \in Ships, NEW keep \in BOOLEAN, ContentRejected(s, keep)
  PROVE  PoolInv'
  <1> DEFINE t == cur[s].tour
             status == IF ship[s].conn = "open" THEN "killed" ELSE "killedLate"
  <1>1. /\ t \in Pool /\ Live(t) /\ cur[s].id = tour[t].id
        /\ t \in ship[s].tours /\ tour[t].state = "reading"
    BY ContentOfTour DEF ContentRejected
  <1>2. ResetState(s) /\ UNCHANGED <<cause, nextTour, nextShip>>
    BY DEF ContentRejected
  <1>3. CASE Abandons(t)
    <2>1. /\ Returned({t}) /\ ship' = [ship EXCEPT ![s] = Without(s, {t})]
          /\ unanswered' = unanswered \cup {tour[t].id}
          /\ UNCHANGED <<producers, writes>>
      BY <1>3 DEF ContentRejected
    <2>2. unanswered' \subseteq Nat
      BY <2>1, <1>1, Types DEF PoolInv, TypeOK, TourType
    <2>3. producers' \subseteq ProducerType
          /\ \A p \in producers' : \E o \in producers : p.id = o.id
      BY <2>1 DEF PoolInv, TypeOK
    <2>4. \A x \in {t} : tour[x].state # "ended"
      BY <1>1
    <2>5. {t} \subseteq ship[s].tours
      BY <1>1
    <2>6. /\ Without(s, {t}) \in ShipType
          /\ Without(s, {t}).tours = ship[s].tours \ {t}
          /\ Without(s, {t}).id = ship[s].id \/ Without(s, {t}).tours = {}
          /\ Without(s, {t}).conn = "none" => Without(s, {t}).tours = {}
      BY <2>5, WithoutShape
    <2> HIDE DEF t
    <2> QED BY <1>2, <2>1, <2>2, <2>3, <2>4, <2>5, <2>6, ReturnStep
  <1>4. CASE ~Abandons(t)
    <2>1. /\ producers' = Killed({t}, status) /\ EndResContent(t, cur[s].id, keep)
          /\ UNCHANGED <<ship, held, unanswered>>
      BY <1>4 DEF ContentRejected
    <2>2. status \in {"killed", "killedLate"}
      OBVIOUS
    <2>3. producers' \subseteq ProducerType
          /\ \A p \in producers' : \E o \in producers : p.id = o.id
      BY <2>1, <2>2, KilledShape
    <2>4. cur[s].id \in {NoCheck, tour[t].id}
      BY <1>1
    <2> QED BY <1>1, <1>2, <2>1, <2>3, <2>4, EndStep
  <1> QED BY <1>3, <1>4

(* The end of a live tour's response, whatever its connection.             *)
LEMMA EndTourInv ==
  ASSUME PoolInv, NEW t \in Pool, Live(t), NEW id \in {NoCheck, tour[t].id},
         NEW keep \in BOOLEAN, EndTour(t, id, keep), producers' \subseteq producers,
         UNCHANGED <<cause, nextTour, nextShip, unanswered>>
  PROVE  PoolInv'
  <1> DEFINE s == tour[t].ship
  <1>1. /\ s \in Ships /\ t \in ship[s].tours
    BY DEF PoolInv, PoolConsistent
  <1>2. /\ producers' \subseteq ProducerType
        /\ \A p \in producers' : \E o \in producers : p.id = o.id
        /\ unanswered' \subseteq Nat
    BY DEF PoolInv, TypeOK
  <1>3. CASE Connected(s) \/ Ended(t)
    <2>1. EndResContent(t, id, keep) /\ CurStays /\ UNCHANGED <<ship, held>>
      BY <1>3 DEF EndTour, CurStays
    <2> QED BY <1>1, <1>2, <2>1, EndStep
  <1>4. CASE ~(Connected(s) \/ Ended(t))
    <2> DEFINE ended == Without(s, {t})
    <2>1. /\ Returned({t}) /\ ship' = [ship EXCEPT ![s] = ended]
          /\ EndShip(s, ended) /\ writes' = writes
      BY <1>4 DEF EndTour
    <2>2. CurStays \/ ResetState(s)
      BY <2>1 DEF EndShip, CurStays
    <2>3. {t} \subseteq ship[s].tours /\ \A x \in {t} : tour[x].state # "ended"
      BY <1>1, <1>4 DEF Ended
    <2>4. /\ ended \in ShipType
          /\ ended.tours = ship[s].tours \ {t}
          /\ ended.id = ship[s].id \/ ended.tours = {}
          /\ ended.conn = "none" => ended.tours = {}
      BY <1>1, <2>3, WithoutShape
    <2> HIDE DEF s, ended
    <2> QED BY <1>1, <1>2, <2>1, <2>2, <2>3, <2>4, ReturnStep
  <1> QED BY <1>3, <1>4

LEMMA ProducerEndsInv ==
  ASSUME PoolInv, NEW p \in producers, NEW keep \in BOOLEAN, ProducerEnds(p, keep)
  PROVE  PoolInv'
  <1>1. p.tour \in Pool /\ p.id # 0
    BY DEF PoolInv, TypeOK, IdsAreOld, ProducerType
  <1>2. CASE tour[p.tour].id # p.id
    <2>1. Fail("staleProducer")
      BY <1>2 DEF ProducerEnds
    <2>2. IdsAreOld' /\ CurIsOwn'
      BY <2>1 DEF Fail, PoolInv, IdsAreOld, CurIsOwn, Live
    <2>3. TypeOK'
      BY <2>1 DEF Fail, PoolInv, TypeOK
    <2>4. (PoolConsistent /\ EndedOnce /\ BlankIsReset)'
      BY <2>1 DEF Fail, PoolInv, PoolConsistent, EndedOnce, BlankIsReset, Live, Key, Fits
    <2> QED BY <2>2, <2>3, <2>4 DEF PoolInv
  <1>3. CASE tour[p.tour].id = p.id
    <2>1. Live(p.tour)
      BY <1>1, <1>3, ResetTypes DEF PoolInv, BlankIsReset
    <2>2. /\ producers' = producers \ {p} /\ EndTour(p.tour, p.id, keep)
          /\ UNCHANGED <<cause, nextTour, nextShip, unanswered>>
      BY <1>3 DEF ProducerEnds
    <2>3. p.id \in {NoCheck, tour[p.tour].id} /\ producers' \subseteq producers
      BY <1>3, <2>2
    <2> QED BY <1>1, <2>1, <2>2, <2>3, EndTourInv
  <1> QED BY <1>2, <1>3

LEMMA HeaderMalformedInv ==
  ASSUME PoolInv, NEW s \in Ships, NEW keep \in BOOLEAN, HeaderMalformed(s, keep)
  PROVE  PoolInv'
  <1> DEFINE t == cur[s].tour
  <1>1. t \in Pool
    BY DEF HeaderMalformed, PoolInv, IdsAreOld
  <1>2. CASE Live(t)
    <2>1. EndTour(t, NoCheck, keep) /\ producers' \subseteq producers
          /\ UNCHANGED <<cause, nextTour, nextShip, unanswered>>
      BY <1>2 DEF HeaderMalformed
    <2>2. NoCheck \in {NoCheck, tour[t].id}
      OBVIOUS
    <2> QED BY <1>1, <1>2, <2>1, <2>2, EndTourInv
  <1>3. CASE ~Live(t)
    BY <1>3, FailInv DEF HeaderMalformed
  <1> QED BY <1>2, <1>3

(* The tours of the units of a ship are active tours of that ship.         *)
LEMMA UnitTours ==
  ASSUME PoolInv, NEW s \in Ships, NEW i \in DOMAIN writes[s]
  PROVE  /\ writes[s][i].tour \in ship[s].tours
         /\ tour[writes[s][i].tour].state = "ended"
  <1>1. /\ tour[writes[s][i].tour].state = "ended" /\ tour[writes[s][i].tour].ship = s
        /\ writes[s][i].tour \in Pool
    BY Types DEF PoolInv, EndedOnce
  <1> QED BY <1>1 DEF PoolInv, PoolConsistent, Live

LEMMA WroteInv ==
  ASSUME PoolInv, NEW s \in Ships, Wrote(s)
  PROVE  PoolInv'
  <1> DEFINE u == Head(writes[s])
             R == {u.tour}
             left == Without(s, R)
             ended == [left EXCEPT
                         !.reading = IF u.keep /\ ship[s].conn = "open" THEN TRUE ELSE @,
                         !.conn = IF u.keep THEN @ ELSE "closing"]
  <1>1. /\ writes[s] \in Seq(UnitType) /\ writes[s] # <<>>
        /\ 1 \in DOMAIN writes[s] /\ u = writes[s][1] /\ u \in UnitType
    <2>1. writes[s] \in Seq(UnitType) /\ writes[s] # <<>>
      BY Types DEF PoolInv, Wrote
    <2> QED BY <2>1
  <1>2. R \subseteq ship[s].tours
    BY <1>1, UnitTours
  <1>3. CASE Fits(u)
    <2>1. /\ Returned(R) /\ ship' = [ship EXCEPT ![s] = ended]
          /\ writes' = [writes EXCEPT ![s] = Tail(writes[s])]
          /\ UNCHANGED <<cause, producers, nextTour, nextShip, unanswered>> /\ CurStays
      BY <1>3 DEF Wrote, CurStays
    <2>2. /\ left \in ShipType /\ left.tours = ship[s].tours \ R
          /\ left.id = ship[s].id \/ left.tours = {}
          /\ left.conn = "none" => left.tours = {}
      BY <1>2, WithoutShape
    <2>3. u.keep \in BOOLEAN
      BY <1>1 DEF UnitType
    <2>4. /\ ended \in ShipType /\ ended.tours = left.tours /\ ended.id = left.id
          /\ ended.conn \in {left.conn, "closing"}
      <3> HIDE DEF left, u
      <3>1. CASE u.keep
        BY <3>1, <2>2 DEF ShipType
      <3>2. CASE ~u.keep
        BY <3>2, <2>2 DEF ShipType
      <3> QED BY <3>1, <3>2
    <2>5. /\ ended.tours = ship[s].tours \ R
          /\ ended.id = ship[s].id \/ ended.tours = {}
          /\ ended.conn = "none" => ended.tours = {}
      BY <2>2, <2>4
    <2>6. /\ producers' \subseteq ProducerType /\ unanswered' \subseteq Nat
          /\ \A p \in producers' : \E o \in producers : p.id = o.id
      BY <2>1 DEF PoolInv, TypeOK
    <2>7. R = {Head(writes[s]).tour}
      OBVIOUS
    <2> HIDE DEF ended, left, R
    <2> QED BY <1>1, <1>2, <2>1, <2>4, <2>5, <2>6, <2>7, ReturnStep
  <1>4. CASE ~Fits(u)
    BY <1>4, FailInv DEF Wrote
  <1> QED BY <1>3, <1>4

LEMMA CloseRequestInv ==
  ASSUME PoolInv, NEW s \in Ships, CloseRequest(s)
  PROVE  PoolInv'
  <1> DEFINE new == [ship[s] EXCEPT !.conn = "closing"]
  <1>1. /\ ship \in [Ships -> ShipType] /\ ship[s] \in ShipType
    BY Types DEF PoolInv
  <1>2. new \in ShipType /\ new.tours = ship[s].tours /\ new.id = ship[s].id
        /\ new.conn = "closing"
    BY <1>1 DEF ShipType
  <1>3. ship' = [ship EXCEPT ![s] = new]
    BY <1>1 DEF CloseRequest, ShipType
  <1> HIDE DEF new
  <1>4. /\ ship' \in [Ships -> ShipType] /\ ship'[s] = new
        /\ \A q \in Ships \ {s} : ship'[q] = ship[q]
    BY <1>1, <1>2, <1>3
  <1>5. \A q \in Ships : /\ ship'[q].tours = ship[q].tours /\ ship'[q].id = ship[q].id
                         /\ ship'[q].conn = "none" => ship[q].conn = "none"
    BY <1>2, <1>4
  <1>6. PoolConsistent'
    BY <1>5 DEF PoolInv, PoolConsistent, CloseRequest, Live, Key
  <1>7. TypeOK'
    BY <1>4 DEF PoolInv, TypeOK, CloseRequest
  <1>8. (EndedOnce /\ BlankIsReset /\ IdsAreOld /\ CurIsOwn)'
    BY DEF PoolInv, EndedOnce, BlankIsReset, IdsAreOld, CurIsOwn, CloseRequest, Live, Fits
  <1> QED BY <1>6, <1>7, <1>8 DEF PoolInv

LEMMA OnClosedInv ==
  ASSUME PoolInv, NEW s \in Ships, OnClosed(s)
  PROVE  PoolInv'
  <1> DEFINE units == {writes[s][i] : i \in DOMAIN writes[s]}
             drained == {u.tour : u \in units}
             aborted == {t \in ship[s].tours \ drained : Abandons(t)}
             killed == {t \in ship[s].tours \ (drained \cup aborted) :
                          tour[t].state = "reading" /\ tour[t].handler = "process"}
             R == drained \cup aborted
             left == ship[s].tours \ R
             ended == IF left = {} THEN ResetShip
                      ELSE [ship[s] EXCEPT !.conn = "gone", !.reading = FALSE,
                                           !.needEnd = TRUE, !.tours = left]
  <1>1. R \subseteq ship[s].tours
    BY UnitTours
  <1>2. CASE \A u \in units : Fits(u)
    <2>1. /\ Returned(R) /\ producers' = Killed(killed, "killed")
          /\ writes' = [writes EXCEPT ![s] = <<>>]
          /\ ship' = [ship EXCEPT ![s] = ended] /\ EndShip(s, ended)
          /\ UNCHANGED <<cause, nextTour, nextShip, unanswered>>
      BY <1>2 DEF OnClosed
    <2>2. CurStays \/ ResetState(s)
      BY <2>1 DEF EndShip, CurStays
    <2>3. /\ producers' \subseteq ProducerType
          /\ \A p \in producers' : \E o \in producers : p.id = o.id
          /\ unanswered' \subseteq Nat
      BY <2>1, KilledShape DEF PoolInv, TypeOK
    <2>4. ship[s] \in ShipType
      BY Types DEF PoolInv
    <2> HIDE DEF R
    <2>5. /\ ended \in ShipType /\ ended.tours = left
          /\ ended.id = ship[s].id \/ ended.tours = {}
          /\ ended.conn = "none" => ended.tours = {}
      <3>1. CASE left = {}
        BY <3>1, ResetTypes
      <3>2. CASE left # {}
        BY <3>2, <2>4 DEF ShipType
      <3> QED BY <3>1, <3>2
    <2> HIDE DEF ended
    <2> QED BY <1>1, <2>1, <2>2, <2>3, <2>5, ReturnStep
  <1>3. CASE ~(\A u \in units : Fits(u))
    BY <1>3, FailInv DEF OnClosed
  <1> QED BY <1>2, <1>3

LEMMA StepInv == PoolInv /\ [Next]_vars => PoolInv'
  <1> SUFFICES ASSUME PoolInv, [Next]_vars PROVE PoolInv'
    OBVIOUS
  <1>1. CASE UNCHANGED vars
    BY <1>1 DEF vars, PoolInv, TypeOK, PoolConsistent, EndedOnce, BlankIsReset,
                IdsAreOld, CurIsOwn, Live, Key, Fits
  <1>2. ASSUME NEW s \in Ships, Accept(s) \/ Wrote(s) \/ CloseRequest(s) \/ OnClosed(s)
        PROVE  PoolInv'
    BY <1>2, AcceptInv, WroteInv, CloseRequestInv, OnClosedInv
  <1>3. ASSUME NEW s \in Ships, Reading(s)
        PROVE  PoolInv'
    <2>1. CASE HeaderWithoutTour(s)
      BY <2>1, FailInv DEF HeaderWithoutTour
    <2>2. ASSUME NEW t \in Pool, NEW h \in Handlers, HeaderGet(s, t, h) \/ HeaderPost(s, t, h)
          PROVE  PoolInv'
      BY <2>2, HeaderInv
    <2>3. ASSUME NEW t \in Pool, NEW keep \in BOOLEAN, HeaderGetRefused(s, t, keep)
          PROVE  PoolInv'
      <3>1. "file" \in Handlers
        BY DEF Handlers
      <3> QED BY <2>3, <3>1, HeaderInv
    <2>4. ASSUME NEW t \in Pool, HeaderPostRefused(s, t) \/ HeaderInvalid(s, t)
          PROVE  PoolInv'
      <3>1. "file" \in Handlers /\ TRUE \in BOOLEAN
        BY DEF Handlers
      <3> QED BY <2>4, <3>1, HeaderInv
    <2>5. CASE HeaderUnexpected(s)
      BY <2>5, HeaderUnexpectedInv
    <2>6. ASSUME NEW keep \in BOOLEAN, HeaderMalformed(s, keep)
          PROVE  PoolInv'
      BY <2>6, HeaderMalformedInv
    <2>7. CASE ContentStale(s)
      BY <2>7, FailInv DEF ContentStale
    <2>8. CASE ContentIgnored(s) \/ ContentEnds(s)
      <3>1. TRUE \in BOOLEAN
        OBVIOUS
      <3> QED BY <2>8, <3>1, ContentInv
    <2>9. ASSUME NEW keep \in BOOLEAN, ContentRefused(s, keep) \/ ContentRejected(s, keep)
          PROVE  PoolInv'
      BY <2>9, ContentInv, ContentRejectedInv
    <2> QED BY <1>3, <2>1, <2>2, <2>3, <2>4, <2>5, <2>6, <2>7, <2>8, <2>9 DEF Reading
  <1>4. ASSUME NEW t \in Pool, Ends(t)
        PROVE  PoolInv'
    BY <1>4, ProducerEndsInv DEF Ends
  <1> QED BY <1>1, <1>2, <1>3, <1>4 DEF Next

-----------------------------------------------------------------------------
(* The inductive invariant holds.                                          *)
THEOREM PoolSafe == Spec => []PoolInv
  <1> QED BY InitInv, StepInv, PTL DEF Spec

(* TourStore, Tour and InboundShip always agree on which tours are active, *)
(* for whom and under which key, whatever the number of ships and tours    *)
(* and however requests, ends of responses and closes interleave.          *)
THEOREM PoolAgrees == Spec => []PoolConsistent
  <1>1. PoolInv => PoolConsistent
    BY DEF PoolInv
  <1> QED BY <1>1, PoolSafe, PTL

(* Every end of a response in a write queue is the only one of a tour that *)
(* is still the one it was sent for: check_tour_id in its callback, which  *)
(* would end the agent, never fails.                                       *)
THEOREM NoSecondEnd == Spec => []EndedOnce
  <1>1. PoolInv => EndedOnce
    BY DEF PoolInv
  <1> QED BY <1>1, PoolSafe, PTL

-----------------------------------------------------------------------------
(* Every active tour has something that will end it.                       *)

(* Its body is being read.                                                 *)
InBody(t) == /\ tour[t].ship \in body
             /\ cur[tour[t].ship] = [tour |-> t, id |-> tour[t].id]
(* A file or a process will end it.                                        *)
Produced(t) == \E p \in producers : p.tour = t /\ p.id = tour[t].id
(* Its end is in the write queue of its ship.                              *)
Queued(t) == \E i \in DOMAIN writes[tour[t].ship] : writes[tour[t].ship][i].tour = t

(* Which of the three it is depends on the state of the tour; a process    *)
(* runs while the body is read.                                            *)
HasEnd(t) ==
  /\ tour[t].state = "reading" => InBody(t) \/ Produced(t)
  /\ tour[t].state = "reading" /\ tour[t].handler # "file" /\ ~tour[t].error => Produced(t)
  /\ tour[t].state = "running" => Produced(t)
  /\ tour[t].state = "ended" => Queued(t)
HaveEnds == \A t \in Pool : HasEnd(t)

(* An id means one tour, to whatever refers to it.                         *)
OneId == \A t, x \in Pool : Live(t) /\ Live(x) /\ tour[t].id = tour[x].id => t = x
ProducersOwn == \A p \in producers, x \in Pool : Live(x) /\ p.id = tour[x].id => p.tour = x

EndsInv == PoolInv /\ HaveEnds /\ OneId /\ ProducersOwn /\ DroppedAreGone /\ 0 \notin unanswered

(* An id that was given is below the counter after the next, too.          *)
LEMMA Below ==
  ASSUME NEW i \in Nat, NEW n \in Nat, NEW m \in {n, n + 1}, i # 0, i < n
  PROVE  i \in 1 .. m - 1
  OBVIOUS

(* The ids of tours and producers after a step: t is the tour that was     *)
(* rented, if one was; y the one that was dropped.                         *)
LEMMA RefsOwn ==
  ASSUME EndsInv, PoolInv', nextTour' \in {nextTour, nextTour + 1}, NEW t,
         \A x \in Pool : Live(x)' =>
           \/ Live(x) /\ tour'[x].id = tour[x].id
           \/ nextTour' = nextTour + 1 /\ tour'[x].id = nextTour /\ x = t,
         \A p \in producers' :
           \/ \E o \in producers : p.tour = o.tour /\ p.id = o.id
           \/ p.tour \in Pool /\ Live(p.tour) /\ p.id = tour[p.tour].id
           \/ nextTour' = nextTour + 1 /\ p.id = nextTour /\ p.tour = t,
         \A id \in unanswered' \ unanswered : \E y \in Pool :
           /\ Live(y) /\ id = tour[y].id /\ ~Live(y)'
           /\ \A p \in producers' : p.id # id
  PROVE  OneId' /\ ProducersOwn' /\ DroppedAreGone' /\ (0 \notin unanswered)'
  <1>1. nextTour \in Nat \ {0} /\ nextTour' \in Nat /\ unanswered \subseteq Nat
    BY DEF EndsInv, PoolInv, TypeOK
  <1>2. /\ \A x \in Pool : Live(x) => tour[x].id \in 1 .. nextTour - 1
        /\ \A p \in producers : p.id \in 1 .. nextTour - 1
    BY DEF EndsInv, PoolInv, IdsAreOld
  <1>3. nextTour \notin 1 .. nextTour - 1
    BY <1>1
  <1>4. OneId'
    BY <1>2, <1>3 DEF OneId, EndsInv
  <1>5. ProducersOwn'
    <2>1. SUFFICES ASSUME NEW p \in producers', NEW x \in Pool, Live(x)', p.id = tour'[x].id
                   PROVE  p.tour = x
      BY DEF ProducersOwn
    <2>2. CASE Live(x) /\ tour'[x].id = tour[x].id
      <3>1. p.id \in 1 .. nextTour - 1
        BY <1>2, <2>1, <2>2
      <3>2. p.id # nextTour
        BY <3>1, <1>3
      <3>3. CASE \E o \in producers : p.tour = o.tour /\ p.id = o.id
        BY <2>1, <2>2, <3>3 DEF EndsInv, ProducersOwn
      <3>4. CASE p.tour \in Pool /\ Live(p.tour) /\ p.id = tour[p.tour].id
        BY <2>1, <2>2, <3>4 DEF EndsInv, OneId
      <3> QED BY <3>2, <3>3, <3>4
    <2>3. CASE tour'[x].id = nextTour /\ x = t
      BY <2>1, <2>3, <1>2, <1>3
    <2> QED BY <2>1, <2>2, <2>3
  <1>6. \A id \in unanswered' :
          /\ id \in 1 .. nextTour' - 1
          /\ \A x \in Pool : Live(x)' => tour'[x].id # id
          /\ \A p \in producers' : p.id # id
    <2>1. TAKE id \in unanswered'
    <2>2. CASE id \in unanswered
      <3>1. /\ id \in Nat /\ id # 0 /\ id < nextTour
            /\ \A x \in Pool : Live(x) => tour[x].id # id
            /\ \A p \in producers : p.id # id
        BY <2>2, <1>1 DEF EndsInv, DroppedAreGone
      <3>2. id # nextTour
        BY <3>1, <1>1
      <3>3. id \in 1 .. nextTour' - 1
        BY <3>1, <1>1, Below
      <3> QED BY <3>1, <3>2, <3>3
    <2>3. CASE id \notin unanswered
      <3>1. PICK y \in Pool : /\ Live(y) /\ id = tour[y].id /\ ~Live(y)'
                              /\ \A p \in producers' : p.id # id
        BY <2>3
      <3>2. id \in 1 .. nextTour - 1
        BY <3>1, <1>2
      <3>3. id # nextTour /\ id \in 1 .. nextTour' - 1
        BY <3>2, <1>1
      <3>4. \A x \in Pool : Live(x)' => tour'[x].id # id
        BY <3>1, <3>3 DEF EndsInv, OneId
      <3> QED BY <3>1, <3>3, <3>4
    <2> QED BY <2>2, <2>3
  <1>7. (0 \notin unanswered)'
    BY <1>6
  <1>8. \A q \in Ships : \A i \in DOMAIN writes'[q] :
          /\ writes'[q][i].tour \in Pool
          /\ tour'[writes'[q][i].tour].state # "uninitialized"
          /\ writes'[q][i].id = 0 \/ tour'[writes'[q][i].tour].id = writes'[q][i].id
    <2>1. /\ writes' \in [Ships -> Seq(UnitType)]
          /\ EndedOnce'
      BY DEF PoolInv, TypeOK
    <2>2. \A q \in Ships : writes'[q] \in Seq(UnitType)
      BY <2>1
    <2>3. \A w \in Seq(UnitType) : \A i \in DOMAIN w : w[i] \in UnitType
      OBVIOUS
    <2>4. \A u \in UnitType : u.tour \in Pool
      BY DEF UnitType
    <2>5. \A q \in Ships : \A i \in DOMAIN writes'[q] : writes'[q][i].tour \in Pool
      BY <2>2, <2>3, <2>4
    <2>6. \A q \in Ships : \A i \in DOMAIN writes'[q] :
            /\ tour'[writes'[q][i].tour].state = "ended"
            /\ writes'[q][i].id = 0 \/ tour'[writes'[q][i].tour].id = writes'[q][i].id
      BY <2>1 DEF EndedOnce, Fits, NoCheck
    <2> QED BY <2>5, <2>6
  <1>9. DroppedAreGone'
    <2>1. \A id \in unanswered' : \A q \in Ships : \A i \in DOMAIN writes'[q] :
            writes'[q][i].id # id
      <3>1. TAKE id \in unanswered'
      <3>2. TAKE q \in Ships
      <3>3. TAKE i \in DOMAIN writes'[q]
      <3>4. \A x \in Pool : tour'[x].state # "uninitialized" => tour'[x].id # id
        BY <1>6 DEF Live
      <3>5. id # 0
        BY <1>7
      <3> QED BY <1>8, <3>4, <3>5
    <2>2. \A id \in unanswered' : id < nextTour'
      BY <1>1, <1>6
    <2> QED BY <1>6, <2>1, <2>2 DEF DroppedAreGone
  <1> QED BY <1>4, <1>5, <1>7, <1>9

(* What goes on being true of a tour that the step is not about.           *)
LEMMA ReadStays ==
  ASSUME EndsInv, NEW s \in Ships, NEW x \in Pool, Live(x), tour'[x] = tour[x], InBody(x),
         tour[x].ship # s,
         \/ CurStays
         \/ ResetState(s)
         \/ /\ \E c : cur' = [cur EXCEPT ![s] = c]
            /\ body' \in {body, body \cup {s}}
  PROVE  InBody(x)'
  <1>1. tour[x].ship \in Ships /\ cur \in [Ships -> [tour : Pool \cup {NoTour}, id : Nat]]
    BY DEF EndsInv, PoolInv, PoolConsistent, TypeOK
  <1>2. cur'[tour[x].ship] = cur[tour[x].ship]
    BY <1>1 DEF CurStays, ResetState
  <1>3. tour[x].ship \in body'
    BY <1>1 DEF CurStays, ResetState, InBody
  <1> QED BY <1>2, <1>3 DEF InBody

(* The queue after a unit has been appended holds what it held.            *)
LEMMA QueueGrows ==
  ASSUME EndsInv, NEW s \in Ships, NEW new \in UnitType,
         writes' = [writes EXCEPT ![s] = Append(@, new)]
  PROVE  /\ \E i \in DOMAIN writes'[s] : writes'[s][i] = new
         /\ \A x \in Pool : Live(x) /\ tour'[x].ship = tour[x].ship /\ Queued(x) => Queued(x)'
  <1>1. writes \in [Ships -> Seq(UnitType)] /\ writes[s] \in Seq(UnitType)
    BY Types DEF EndsInv, PoolInv, TypeOK
  <1>2. writes'[s] = Append(writes[s], new) /\ \A q \in Ships \ {s} : writes'[q] = writes[q]
    BY <1>1
  <1>3. /\ DOMAIN Append(writes[s], new) = 1 .. Len(writes[s]) + 1
        /\ DOMAIN writes[s] = 1 .. Len(writes[s]) /\ Len(writes[s]) \in Nat
        /\ Append(writes[s], new)[Len(writes[s]) + 1] = new
        /\ \A j \in 1 .. Len(writes[s]) : Append(writes[s], new)[j] = writes[s][j]
    BY <1>1, AppendProperties, LenProperties
  <1>4. /\ Len(writes[s]) + 1 \in DOMAIN Append(writes[s], new)
        /\ DOMAIN writes[s] \subseteq DOMAIN Append(writes[s], new)
    BY <1>3
  <1>5. \A x \in Pool : Live(x) => tour[x].ship \in Ships
    BY DEF EndsInv, PoolInv, PoolConsistent
  <1>6. ASSUME NEW x \in Pool, Live(x), tour'[x].ship = tour[x].ship, Queued(x)
        PROVE  Queued(x)'
    <2>1. PICK i \in DOMAIN writes[tour[x].ship] : writes[tour[x].ship][i].tour = x
      BY <1>6 DEF Queued
    <2>2. i \in DOMAIN writes'[tour[x].ship] /\ writes'[tour[x].ship][i] = writes[tour[x].ship][i]
      BY <1>2, <1>3, <1>4, <1>5, <1>6, <2>1
    <2> QED BY <1>6, <2>1, <2>2 DEF Queued
  <1> QED BY <1>2, <1>3, <1>4, <1>6

(* The queue of s after the tours of R have left it.                       *)
LEMMA QueueShrinks ==
  ASSUME EndsInv, NEW s \in Ships, NEW R, NEW x \in Pool \ R, Live(x), tour'[x] = tour[x],
         \/ writes' = writes
         \/ /\ writes' = [writes EXCEPT ![s] = <<>>]
            /\ \A i \in DOMAIN writes[s] : writes[s][i].tour \in R
         \/ /\ writes[s] # <<>> /\ R = {Head(writes[s]).tour}
            /\ writes' = [writes EXCEPT ![s] = Tail(writes[s])],
         Queued(x)
  PROVE  Queued(x)'
  <1>1. writes \in [Ships -> Seq(UnitType)] /\ writes[s] \in Seq(UnitType)
    BY Types DEF EndsInv, PoolInv, TypeOK
  <1>2. PICK i \in DOMAIN writes[tour[x].ship] : writes[tour[x].ship][i].tour = x
    BY DEF Queued
  <1>3. tour[x].ship \in Ships
    BY DEF EndsInv, PoolInv, PoolConsistent
  <1>4. CASE writes' = writes
    BY <1>2, <1>4 DEF Queued
  <1>5. CASE /\ writes' = [writes EXCEPT ![s] = <<>>]
             /\ \A j \in DOMAIN writes[s] : writes[s][j].tour \in R
    <2>1. tour[x].ship # s
      BY <1>2, <1>5
    <2>2. writes'[tour[x].ship] = writes[tour[x].ship]
      BY <1>1, <1>3, <1>5, <2>1
    <2> QED BY <1>2, <2>2 DEF Queued
  <1>6. CASE /\ writes[s] # <<>> /\ R = {Head(writes[s]).tour}
             /\ writes' = [writes EXCEPT ![s] = Tail(writes[s])]
    <2>1. CASE tour[x].ship # s
      <3>1. writes'[tour[x].ship] = writes[tour[x].ship]
        BY <1>1, <1>3, <1>6, <2>1
      <3> QED BY <1>2, <3>1 DEF Queued
    <2>2. CASE tour[x].ship = s
      <3>1. /\ Head(writes[s]) = writes[s][1]
            /\ Len(writes[s]) \in Nat \ {0} /\ DOMAIN writes[s] = 1 .. Len(writes[s])
            /\ DOMAIN Tail(writes[s]) = 1 .. Len(writes[s]) - 1
            /\ \A j \in 1 .. Len(writes[s]) - 1 : Tail(writes[s])[j] = writes[s][j + 1]
        BY <1>1, <1>6, HeadTailProperties
      <3>2. i # 1 /\ i \in 1 .. Len(writes[s])
        BY <1>2, <1>6, <2>2, <3>1
      <3>3. i - 1 \in 1 .. Len(writes[s]) - 1 /\ (i - 1) + 1 = i
        BY <3>1, <3>2
      <3>4. writes'[s] = Tail(writes[s])
        BY <1>1, <1>6
      <3>5. i - 1 \in DOMAIN writes'[s] /\ writes'[s][i - 1] = writes[s][i]
        BY <3>1, <3>3, <3>4
      <3> QED BY <1>2, <2>2, <3>5 DEF Queued
    <2> QED BY <2>1, <2>2
  <1> QED BY <1>4, <1>5, <1>6

(* Renting: the tour that is rented has what its state requires, nobody    *)
(* else is disturbed.                                                      *)
LEMMA RentEnds ==
  ASSUME EndsInv, PoolInv', NEW s \in Ships, NEW t \in Pool, Connected(s), s \notin body,
         NEW state \in {"reading", "running", "ended"},
         NEW handler \in {"none", "file", "process"},
         NEW error \in BOOLEAN, NEW reads \in BOOLEAN,
         Rent(s, t, state, handler, error, reads),
         \/ writes' = writes /\ state # "ended"
         \/ \E keep \in BOOLEAN :
              writes' = [writes EXCEPT ![s] = Append(@, Unit(t, NoCheck, keep))],
         \/ /\ producers' = producers /\ state # "running"
            /\ state = "reading" => error \/ handler = "file"
         \/ Starts(t, nextTour),
         \/ CurStays /\ state # "reading"
         \/ ResetState(s) /\ state # "reading"
         \/ /\ cur' = [cur EXCEPT ![s] = [tour |-> t, id |-> nextTour]]
            /\ (body' = body /\ state # "reading") \/ body' = body \cup {s},
         UNCHANGED unanswered
  PROVE  EndsInv'
  <1>1. /\ nextTour' = nextTour + 1 /\ nextTour \in Nat \ {0}
        /\ ~Live(t) /\ tour'[t].state = state /\ tour'[t].ship = s
        /\ tour'[t].id = nextTour
        /\ \A x \in Pool \ {t} : tour'[x] = tour[x]
    BY RentKeeps DEF EndsInv
  <1>7. tour'[t].handler = handler /\ tour'[t].error = error
    <2>1. tour \in [Pool -> TourType]
      BY DEF EndsInv, PoolInv, TypeOK
    <2> QED BY <2>1 DEF Rent
  <1>2. /\ \A p \in producers : p \in producers'
        /\ \A p \in producers' : p \in producers \/ (p.tour = t /\ p.id = nextTour)
    BY DEF Starts, Producer
  <1>3. OneId' /\ ProducersOwn' /\ DroppedAreGone' /\ (0 \notin unanswered)'
    <2>1. \A x \in Pool : Live(x)' =>
            \/ Live(x) /\ tour'[x].id = tour[x].id
            \/ nextTour' = nextTour + 1 /\ tour'[x].id = nextTour /\ x = t
      BY <1>1 DEF Live
    <2> QED BY <1>1, <1>2, <2>1, RefsOwn
  <1>4. ASSUME NEW x \in Pool, Live(x), x # t
        PROVE  HasEnd(x)'
    <2>1. tour'[x] = tour[x] /\ HasEnd(x)
      BY <1>1, <1>4 DEF EndsInv, HaveEnds
    <2>2. Produced(x) => Produced(x)'
      BY <1>2, <2>1 DEF Produced
    <2>3. Queued(x) => Queued(x)'
      <3>1. CASE writes' = writes
        BY <2>1, <3>1 DEF Queued
      <3>2. ASSUME NEW keep \in BOOLEAN,
                   writes' = [writes EXCEPT ![s] = Append(@, Unit(t, NoCheck, keep))]
            PROVE  Queued(x) => Queued(x)'
        <4>1. Unit(t, NoCheck, keep) \in UnitType
          BY DEF Unit, UnitType, NoCheck
        <4> QED BY <1>4, <2>1, <3>2, <4>1, QueueGrows
      <3> QED BY <3>1, <3>2
    <2>4. InBody(x) => InBody(x)'
      <3>1. InBody(x) => tour[x].ship # s
        BY DEF InBody
      <3>2. \/ CurStays \/ ResetState(s)
            \/ /\ \E c : cur' = [cur EXCEPT ![s] = c]
               /\ body' \in {body, body \cup {s}}
        OBVIOUS
      <3> QED BY <1>4, <2>1, <3>1, <3>2, ReadStays
    <2> QED BY <2>1, <2>2, <2>3, <2>4 DEF HasEnd
  <1>5. HasEnd(t)'
    <2>1. Starts(t, nextTour) => Produced(t)'
      <3>1. Starts(t, nextTour) => Producer(t, nextTour, "busy") \in producers'
        BY DEF Starts
      <3>2. Producer(t, nextTour, "busy").tour = t /\ Producer(t, nextTour, "busy").id = nextTour
        BY DEF Producer
      <3> QED BY <1>1, <3>1, <3>2 DEF Produced
    <2>2. state = "ended" => Queued(t)'
      <3>1. SUFFICES ASSUME NEW keep \in BOOLEAN,
                            writes' = [writes EXCEPT ![s] = Append(@, Unit(t, NoCheck, keep))]
                     PROVE  Queued(t)'
        OBVIOUS
      <3>2. PICK new \in UnitType : new = Unit(t, NoCheck, keep)
        BY DEF Unit, UnitType, NoCheck
      <3>3. \E i \in DOMAIN writes'[s] : writes'[s][i] = new
        BY <3>1, <3>2, QueueGrows
      <3> QED BY <1>1, <3>2, <3>3 DEF Queued, Unit
    <2>3. state = "reading" => InBody(t)'
      <3>1. SUFFICES ASSUME cur' = [cur EXCEPT ![s] = [tour |-> t, id |-> nextTour]],
                            body' = body \cup {s}
                     PROVE  InBody(t)'
        OBVIOUS
      <3>2. cur \in [Ships -> [tour : Pool \cup {NoTour}, id : Nat]]
        BY DEF EndsInv, PoolInv, TypeOK
      <3>3. cur'[s] = [tour |-> t, id |-> nextTour] /\ s \in body'
        BY <3>1, <3>2
      <3> QED BY <1>1, <3>3 DEF InBody
    <2> QED BY <1>1, <1>7, <2>1, <2>2, <2>3 DEF HasEnd
  <1>6. ASSUME NEW x \in Pool, ~Live(x), x # t
        PROVE  HasEnd(x)'
    BY <1>1, <1>6 DEF Live, HasEnd
  <1> QED BY <1>3, <1>4, <1>5, <1>6 DEF EndsInv, HaveEnds

(* An end of the response of t: t has its end queued, or had it.           *)
LEMMA EndingEnds ==
  ASSUME EndsInv, PoolInv', NEW s \in Ships, NEW t \in Pool, Live(t),
         NEW id \in {NoCheck, tour[t].id}, NEW keep \in BOOLEAN,
         EndResContent(t, id, keep),
         \A p \in producers' : \E o \in producers : p.tour = o.tour /\ p.id = o.id,
         \A o \in producers : o.tour # t => \E p \in producers' : p.tour = o.tour /\ p.id = o.id,
         CurStays \/ (ResetState(s) /\ (s \in body => cur[s].tour = t)),
         UNCHANGED <<nextTour, unanswered>>
  PROVE  EndsInv'
  <1>1. /\ tour \in [Pool -> TourType] /\ tour[t] \in TourType
        /\ tour[t].ship \in Ships /\ id \in Nat
    BY Types DEF EndsInv, PoolInv, PoolConsistent, TourType, NoCheck
  <1>2. /\ tour'[t].state = "ended" /\ tour'[t].id = tour[t].id /\ tour'[t].ship = tour[t].ship
        /\ \A x \in Pool \ {t} : tour'[x] = tour[x]
        /\ \A x \in Pool : Live(x) /\ Queued(x) => Queued(x)'
        /\ Queued(t)'
    <2>1. CASE Ended(t)
      <3>1. tour' = tour /\ writes' = writes /\ Queued(t)
        BY <2>1 DEF EndResContent, EndsInv, HaveEnds, HasEnd, Ended
      <3> QED BY <2>1, <3>1 DEF Ended, Queued
    <2>2. CASE ~Ended(t)
      <3>1. /\ tour' = [tour EXCEPT ![t] = [tour[t] EXCEPT !.state = "ended"]]
            /\ writes' = [writes EXCEPT ![tour[t].ship] = Append(@, Unit(t, id, keep))]
        BY <2>2, <1>1 DEF EndResContent, TourType
      <3>2. /\ [tour[t] EXCEPT !.state = "ended"].state = "ended"
            /\ [tour[t] EXCEPT !.state = "ended"].id = tour[t].id
            /\ [tour[t] EXCEPT !.state = "ended"].ship = tour[t].ship
        BY <1>1 DEF TourType
      <3>3. /\ tour'[t].state = "ended" /\ tour'[t].id = tour[t].id /\ tour'[t].ship = tour[t].ship
            /\ \A x \in Pool \ {t} : tour'[x] = tour[x]
        BY <3>1, <3>2, <1>1
      <3>4. PICK new \in UnitType : new = Unit(t, id, keep)
        BY <1>1 DEF Unit, UnitType
      <3>5. PICK o \in Ships : o = tour[t].ship
        BY <1>1
      <3>6. /\ \E i \in DOMAIN writes'[o] : writes'[o][i] = new
            /\ \A x \in Pool : Live(x) /\ tour'[x].ship = tour[x].ship /\ Queued(x) => Queued(x)'
        BY <3>1, <3>4, <3>5, QueueGrows
      <3>7. \A x \in Pool : tour'[x].ship = tour[x].ship
        BY <3>3
      <3>8. Queued(t)'
        BY <3>3, <3>4, <3>5, <3>6 DEF Queued, Unit
      <3> QED BY <3>3, <3>6, <3>7, <3>8
    <2> QED BY <2>1, <2>2
  <1>3. OneId' /\ ProducersOwn' /\ DroppedAreGone' /\ (0 \notin unanswered)'
    <2>1. \A x \in Pool : Live(x)' => Live(x) /\ tour'[x].id = tour[x].id
      BY <1>2 DEF Live
    <2> QED BY <2>1, RefsOwn
  <1>4. ASSUME NEW x \in Pool, Live(x), x # t
        PROVE  HasEnd(x)'
    <2>1. tour'[x] = tour[x] /\ HasEnd(x)
      BY <1>2, <1>4 DEF EndsInv, HaveEnds
    <2>2. Produced(x) => Produced(x)'
      BY <1>4, <2>1 DEF Produced
    <2>3. Queued(x) => Queued(x)'
      BY <1>2, <1>4
    <2>4. InBody(x) => InBody(x)'
      <3>1. CASE CurStays
        BY <2>1, <3>1 DEF CurStays, InBody
      <3>2. CASE ResetState(s) /\ (s \in body => cur[s].tour = t)
        <4>1. InBody(x) => tour[x].ship # s
          BY <1>4, <3>2 DEF InBody
        <4> QED BY <1>4, <2>1, <3>2, <4>1, ReadStays
      <3> QED BY <3>1, <3>2
    <2> QED BY <2>1, <2>2, <2>3, <2>4 DEF HasEnd
  <1>5. HasEnd(t)'
    BY <1>2 DEF HasEnd
  <1>6. ASSUME NEW x \in Pool, ~Live(x), x # t
        PROVE  HasEnd(x)'
    BY <1>2, <1>6 DEF Live, HasEnd
  <1> QED BY <1>3, <1>4, <1>5, <1>6 DEF EndsInv, HaveEnds

(* Returning the tours of R, all of one ship: who stays keeps its end.     *)
LEMMA ReturningEnds ==
  ASSUME EndsInv, PoolInv', NEW s \in Ships, NEW R, R \subseteq Pool, Returned(R),
         \A x \in R : Live(x),
         \/ writes' = writes
         \/ /\ writes' = [writes EXCEPT ![s] = <<>>]
            /\ \A i \in DOMAIN writes[s] : writes[s][i].tour \in R
         \/ /\ writes[s] # <<>> /\ R = {Head(writes[s]).tour}
            /\ writes' = [writes EXCEPT ![s] = Tail(writes[s])],
         \A p \in producers' : \E o \in producers : p.tour = o.tour /\ p.id = o.id,
         \A o \in producers : o.tour \notin R => \E p \in producers' : p.tour = o.tour /\ p.id = o.id,
         \A x \in Pool \ R : Live(x) /\ InBody(x) => Produced(x) \/ InBody(x)',
         \/ UNCHANGED unanswered
         \/ \E y \in R : /\ unanswered' = unanswered \cup {tour[y].id}
                         /\ \A p \in producers' : p.id # tour[y].id,
         UNCHANGED nextTour
  PROVE  EndsInv'
  <1>1. /\ \A x \in R : tour'[x] = ResetTour /\ ~Live(x)'
        /\ \A x \in Pool \ R : tour'[x] = tour[x]
    BY ResetTypes DEF Returned, Live
  <1>2. OneId' /\ ProducersOwn' /\ DroppedAreGone' /\ (0 \notin unanswered)'
    <2>1. \A x \in Pool : Live(x)' => Live(x) /\ tour'[x].id = tour[x].id
      BY <1>1 DEF Live
    <2>2. \A id \in unanswered' \ unanswered : \E y \in Pool :
            /\ Live(y) /\ id = tour[y].id /\ ~Live(y)'
            /\ \A p \in producers' : p.id # id
      BY <1>1
    <2> QED BY <2>1, <2>2, RefsOwn
  <1>3. ASSUME NEW x \in Pool \ R, Live(x)
        PROVE  HasEnd(x)'
    <2>1. tour'[x] = tour[x] /\ HasEnd(x)
      BY <1>1, <1>3 DEF EndsInv, HaveEnds
    <2>2. Produced(x) => Produced(x)'
      BY <1>3, <2>1 DEF Produced
    <2>3. Queued(x) => Queued(x)'
      BY <1>3, <2>1, QueueShrinks
    <2>4. InBody(x) => Produced(x)' \/ InBody(x)'
      BY <1>3, <2>2
    <2> QED BY <2>1, <2>2, <2>3, <2>4 DEF HasEnd
  <1>4. ASSUME NEW x \in Pool, ~Live(x) \/ x \in R
        PROVE  HasEnd(x)'
    <2>1. tour'[x].state = "uninitialized"
      BY <1>1, <1>4, ResetTypes DEF Live
    <2> QED BY <2>1 DEF HasEnd
  <1> QED BY <1>2, <1>3, <1>4 DEF EndsInv, HaveEnds

(* A request that arrives.                                                 *)
LEMMA HeaderEnds ==
  ASSUME EndsInv, PoolInv', NEW s \in Ships, NEW t \in Pool, NEW handler \in Handlers,
         NEW keep \in BOOLEAN,
         \/ HeaderGet(s, t, handler) \/ HeaderPost(s, t, handler)
         \/ HeaderGetRefused(s, t, keep) \/ HeaderPostRefused(s, t)
         \/ HeaderInvalid(s, t)
  PROVE  EndsInv'
  <1>1. Connected(s) /\ s \notin body /\ handler \in {"none", "file", "process"}
    BY DEF HeaderGet, HeaderPost, HeaderGetRefused, HeaderPostRefused, HeaderInvalid,
           ReadsHeader, Handlers
  <1>2. CASE HeaderGet(s, t, handler)
    BY <1>1, <1>2, RentEnds DEF HeaderGet, CurStays
  <1>3. CASE HeaderPost(s, t, handler)
    <2>1. (producers' = producers /\ handler = "file") \/ Starts(t, nextTour)
      BY <1>3 DEF HeaderPost, Handlers
    <2> QED BY <1>1, <1>3, <2>1, RentEnds DEF HeaderPost
  <1>4. CASE HeaderGetRefused(s, t, keep)
    BY <1>1, <1>4, RentEnds DEF HeaderGetRefused, CurStays
  <1>5. CASE HeaderPostRefused(s, t)
    BY <1>1, <1>5, RentEnds DEF HeaderPostRefused
  <1>6. CASE HeaderInvalid(s, t)
    BY <1>1, <1>6, RentEnds DEF HeaderInvalid
  <1> QED BY <1>2, <1>3, <1>4, <1>5, <1>6

(* Nothing but cause, and the handler of a ship that reads no body.        *)
LEMMA StillEnds ==
  ASSUME EndsInv, PoolInv', UNCHANGED <<tour, producers, writes, nextTour, unanswered>>,
         \/ CurStays
         \/ \E s \in Ships \ body : ResetState(s)
  PROVE  EndsInv'
  <1>1. OneId' /\ ProducersOwn' /\ DroppedAreGone' /\ (0 \notin unanswered)'
    BY RefsOwn DEF Live
  <1>2. ASSUME NEW x \in Pool, Live(x), InBody(x)
        PROVE  InBody(x)'
    <2>1. CASE CurStays
      BY <1>2, <2>1 DEF CurStays, InBody
    <2>2. ASSUME NEW s \in Ships \ body, ResetState(s)
          PROVE  InBody(x)'
      <3>1. tour[x].ship # s
        BY <1>2 DEF InBody
      <3> QED BY <1>2, <2>2, <3>1, ReadStays
    <2> QED BY <2>1, <2>2
  <1>3. ASSUME NEW x \in Pool PROVE HasEnd(x)'
    <2>1. HasEnd(x) /\ tour'[x] = tour[x]
      BY DEF EndsInv, HaveEnds
    <2>2. (Produced(x) => Produced(x)') /\ (Queued(x) => Queued(x)')
      BY <2>1 DEF Produced, Queued
    <2> QED BY <1>2, <2>1, <2>2 DEF HasEnd, Live
  <1> QED BY <1>1, <1>3 DEF EndsInv, HaveEnds

(* An upcall that raises leaves everything but cause.                      *)
LEMMA FailEnds ==
  ASSUME EndsInv, PoolInv', NEW why, Fail(why)
  PROVE  EndsInv'
  BY StillEnds DEF Fail, CurStays

(* The error is sent through a tour of its own, and no body is being read. *)
LEMMA HeaderUnexpectedEnds ==
  ASSUME EndsInv, PoolInv', NEW s \in Ships, HeaderUnexpected(s)
  PROVE  EndsInv'
  <1>1. Connected(s) /\ s \notin body /\ ResetState(s)
    BY DEF HeaderUnexpected, ReadsHeader
  <1>2. ASSUME NEW t \in Pool, Rent(s, t, "ended", "none", FALSE, TRUE),
               writes' = [writes EXCEPT ![s] = Append(@, Unit(t, NoCheck, FALSE))],
               UNCHANGED <<cause, producers, nextShip, unanswered>>
        PROVE  EndsInv'
    BY <1>1, <1>2, RentEnds
  <1>3. CASE UNCHANGED <<ship, tour, held, producers, writes, nextTour, nextShip, unanswered>>
    BY <1>1, <1>3, StillEnds
  <1> QED BY <1>2, <1>3 DEF HeaderUnexpected

(* The steps that take the current tour's body.                            *)
LEMMA ContentStepEnds ==
  ASSUME EndsInv, PoolInv', NEW s \in Ships, NEW keep \in BOOLEAN,
         ContentIgnored(s) \/ ContentRefused(s, keep) \/ ContentEnds(s)
  PROVE  EndsInv'
  <1>4. PICK t : t = cur[s].tour
    OBVIOUS
  <1>1. /\ t \in Pool /\ Live(t) /\ cur[s].id = tour[t].id /\ ResetState(s)
        /\ tour[t].ship = s
    BY <1>4, ContentOfTour DEF ContentIgnored, ContentRefused, ContentEnds, EndsInv
  <1>2. CASE ContentRefused(s, keep)
    <2>1. cur[s].id \in {NoCheck, tour[t].id}
      BY <1>1
    <2>2. EndResContent(t, cur[s].id, keep) /\ UNCHANGED <<producers, nextTour, unanswered>>
      BY <1>2, <1>4 DEF ContentRefused
    <2> QED BY <1>1, <1>4, <2>1, <2>2, EndingEnds
  <1>3. CASE ContentIgnored(s) \/ ContentEnds(s)
    <2>1. /\ UNCHANGED <<tour, writes, nextTour, unanswered>>
          /\ producers' = producers \/ Starts(t, tour[t].id)
      BY <1>3, <1>4 DEF ContentIgnored, ContentEnds
    <2>2. \A p \in producers' :
            p \in producers \/ (p.tour \in Pool /\ Live(p.tour) /\ p.id = tour[p.tour].id)
      BY <1>1, <2>1 DEF Starts, Producer
    <2>3. OneId' /\ ProducersOwn' /\ DroppedAreGone' /\ (0 \notin unanswered)'
      BY <2>1, <2>2, RefsOwn DEF Live
    <2>4. ASSUME NEW x \in Pool, x # t PROVE HasEnd(x)'
      <3>1. HasEnd(x) /\ tour'[x] = tour[x]
        BY <2>1 DEF EndsInv, HaveEnds
      <3>2. (Produced(x) => Produced(x)') /\ (Queued(x) => Queued(x)')
        BY <2>1, <3>1 DEF Produced, Queued, Starts
      <3>3. Live(x) /\ InBody(x) => InBody(x)'
        <4>1. InBody(x) => tour[x].ship # s
          BY <1>4, <2>4 DEF InBody
        <4> QED BY <1>1, <3>1, <4>1, ReadStays
      <3> QED BY <3>1, <3>2, <3>3 DEF HasEnd, Live
    <2>5. HasEnd(t)'
      <3>1. HasEnd(t) /\ tour'[t] = tour[t] /\ (Produced(t) => Produced(t)') /\ (Queued(t) => Queued(t)')
        BY <1>1, <2>1 DEF EndsInv, HaveEnds, Produced, Queued, Starts
      <3>2. CASE ContentIgnored(s)
        <4>1. tour[t].state # "reading"
          BY <1>4, <3>2 DEF ContentIgnored
        <4> QED BY <3>1, <4>1 DEF HasEnd
      <3>3. CASE ContentEnds(s)
        <4>1. tour[t].state = "reading" /\ ~tour[t].error
          BY <1>4, <3>3 DEF ContentEnds
        <4>2. CASE Starts(t, tour[t].id)
          <5>1. Producer(t, tour[t].id, "busy") \in producers'
            BY <4>2 DEF Starts
          <5>2. Produced(t)'
            BY <3>1, <5>1 DEF Produced, Producer
          <5> QED BY <3>1, <4>1, <5>2 DEF HasEnd
        <4>3. CASE tour[t].handler # "file"
          BY <3>1, <4>1, <4>3 DEF HasEnd
        <4> QED BY <1>4, <3>3, <4>2, <4>3 DEF ContentEnds
      <3> QED BY <1>3, <3>2, <3>3
    <2> QED BY <2>3, <2>4, <2>5 DEF EndsInv, HaveEnds
  <1> QED BY <1>2, <1>3

(* The steps that kill a process leave its tour and its id as they were.   *)
LEMMA KilledSame ==
  ASSUME NEW R, NEW status
  PROVE  /\ \A p \in Killed(R, status) : \E o \in producers : p.tour = o.tour /\ p.id = o.id
         /\ \A o \in producers : \E p \in Killed(R, status) : p.tour = o.tour /\ p.id = o.id
  <1>1. \A o \in producers :
          (IF o.tour \in R /\ o.id = tour[o.tour].id
           THEN Producer(o.tour, o.id, status) ELSE o) \in Killed(R, status)
    BY DEF Killed
  <1>2. \A o : Producer(o.tour, o.id, status).tour = o.tour /\ Producer(o.tour, o.id, status).id = o.id
    BY DEF Producer
  <1> QED BY <1>1, <1>2 DEF Killed

(* An abandoned tour is returned and nothing refers to its id; a killed    *)
(* one has its end queued.                                                 *)
LEMMA ContentRejectedEnds ==
  ASSUME EndsInv, PoolInv', NEW s \in Ships, NEW keep \in BOOLEAN, ContentRejected(s, keep)
  PROVE  EndsInv'
  <1>1. PICK t : t = cur[s].tour
    OBVIOUS
  <1>2. /\ t \in Pool /\ Live(t) /\ cur[s].id = tour[t].id /\ tour[t].ship = s
        /\ tour[t].state = "reading" /\ ResetState(s) /\ nextTour' = nextTour
    BY <1>1, ContentOfTour DEF ContentRejected, EndsInv
  <1>3. CASE Abandons(t)
    <2>1. /\ Returned({t}) /\ unanswered' = unanswered \cup {tour[t].id}
          /\ UNCHANGED <<producers, writes>>
      BY <1>1, <1>3 DEF ContentRejected
    <2>2. \A p \in producers' : p.id # tour[t].id
      <3>1. \A p \in producers : p.id = tour[t].id => p.tour = t
        BY <1>2 DEF EndsInv, ProducersOwn
      <3> QED BY <2>1, <3>1, <1>3 DEF Abandons
    <2>3. \A x \in Pool \ {t} : Live(x) /\ InBody(x) => InBody(x)'
      <3>1. TAKE x \in Pool \ {t}
      <3>2. SUFFICES ASSUME Live(x), InBody(x) PROVE InBody(x)'
        OBVIOUS
      <3>3. tour[x].ship # s
        BY <1>1, <3>2 DEF InBody
      <3>4. tour'[x] = tour[x]
        BY <2>1 DEF Returned
      <3> QED BY <1>2, <3>2, <3>3, <3>4, ReadStays
    <2>4. {t} \subseteq Pool /\ \A x \in {t} : Live(x)
      BY <1>2
    <2> QED BY <1>2, <2>1, <2>2, <2>3, <2>4, ReturningEnds
  <1>4. CASE ~Abandons(t)
    <2>1. PICK status : producers' = Killed({t}, status)
      BY <1>1, <1>4 DEF ContentRejected
    <2>2. EndResContent(t, cur[s].id, keep) /\ unanswered' = unanswered
      BY <1>1, <1>4 DEF ContentRejected
    <2>3. cur[s].id \in {NoCheck, tour[t].id}
      BY <1>2
    <2> QED BY <1>1, <1>2, <2>1, <2>2, <2>3, KilledSame, EndingEnds
  <1> QED BY <1>3, <1>4

(* The end of a live tour's response, whatever its connection.             *)
LEMMA EndTourEnds ==
  ASSUME EndsInv, PoolInv', NEW t \in Pool, Live(t), NEW id \in {NoCheck, tour[t].id},
         NEW keep \in BOOLEAN, EndTour(t, id, keep), producers' \subseteq producers,
         \A o \in producers \ producers' : o.tour = t,
         UNCHANGED <<nextTour, unanswered>>
  PROVE  EndsInv'
  <1>1. PICK s : s = tour[t].ship
    OBVIOUS
  <1>2. s \in Ships /\ t \in ship[s].tours
    BY <1>1 DEF EndsInv, PoolInv, PoolConsistent
  <1>3. /\ \A p \in producers' : \E o \in producers : p.tour = o.tour /\ p.id = o.id
        /\ \A o \in producers : o.tour # t => \E p \in producers' : p.tour = o.tour /\ p.id = o.id
    OBVIOUS
  <1>4. CASE Connected(s) \/ Ended(t)
    <2>1. EndResContent(t, id, keep) /\ CurStays
      BY <1>1, <1>4 DEF EndTour, CurStays
    <2> QED BY <1>2, <1>3, <2>1, EndingEnds
  <1>5. CASE ~(Connected(s) \/ Ended(t))
    <2>1. /\ Returned({t}) /\ EndShip(s, Without(s, {t})) /\ writes' = writes
      BY <1>1, <1>5 DEF EndTour
    <2>2. \A x \in Pool \ {t} : Live(x) /\ InBody(x) => InBody(x)'
      <3>1. TAKE x \in Pool \ {t}
      <3>2. SUFFICES ASSUME Live(x), InBody(x) PROVE InBody(x)'
        OBVIOUS
      <3>3. tour'[x] = tour[x]
        BY <2>1 DEF Returned
      <3>4. CASE CurStays
        BY <3>2, <3>3, <3>4 DEF CurStays, InBody
      <3>5. CASE ResetState(s) /\ Without(s, {t}).conn = "none"
        <4>1. ship[s] \in ShipType /\ (ship[s].conn = "none" => ship[s].tours = {})
          BY <1>2, Types DEF EndsInv, PoolInv, PoolConsistent
        <4>2. [ship[s] EXCEPT !.tours = @ \ {t}].conn = ship[s].conn
          BY <4>1 DEF ShipType
        <4>3. ship[s].tours \subseteq {t}
          BY <1>2, <3>5, <4>1, <4>2 DEF Without
        <4>4. x \in ship[tour[x].ship].tours
          BY <3>2 DEF EndsInv, PoolInv, PoolConsistent
        <4>5. tour[x].ship # s
          BY <4>3, <4>4
        <4> QED BY <1>2, <3>2, <3>3, <3>5, <4>5, ReadStays
      <3> QED BY <2>1, <3>4, <3>5 DEF EndShip, CurStays
    <2>3. {t} \subseteq Pool /\ \A x \in {t} : Live(x)
      OBVIOUS
    <2> QED BY <1>2, <1>3, <2>1, <2>2, <2>3, ReturningEnds
  <1> QED BY <1>4, <1>5

(* The producer that ends is the one its tour waits for.                   *)
LEMMA ProducerEndsEnds ==
  ASSUME EndsInv, PoolInv', NEW p \in producers, NEW keep \in BOOLEAN, ProducerEnds(p, keep)
  PROVE  EndsInv'
  <1>1. p.tour \in Pool /\ p.id # 0
    BY DEF EndsInv, PoolInv, TypeOK, IdsAreOld, ProducerType
  <1>2. CASE tour[p.tour].id # p.id
    BY <1>2, FailEnds DEF ProducerEnds
  <1>3. CASE tour[p.tour].id = p.id
    <2>1. Live(p.tour)
      BY <1>1, <1>3, ResetTypes DEF EndsInv, PoolInv, BlankIsReset
    <2>2. /\ producers' = producers \ {p} /\ EndTour(p.tour, p.id, keep)
          /\ UNCHANGED <<nextTour, unanswered>>
      BY <1>3 DEF ProducerEnds
    <2>3. p.id \in {NoCheck, tour[p.tour].id} /\ \A o \in producers \ producers' : o.tour = p.tour
      BY <1>3, <2>2
    <2> QED BY <1>1, <2>1, <2>2, <2>3, EndTourEnds
  <1> QED BY <1>2, <1>3

(* The error goes to cur_tour, whoever has it by now.                      *)
LEMMA HeaderMalformedEnds ==
  ASSUME EndsInv, PoolInv', NEW s \in Ships, NEW keep \in BOOLEAN, HeaderMalformed(s, keep)
  PROVE  EndsInv'
  <1>1. PICK t : t = cur[s].tour
    OBVIOUS
  <1>2. t \in Pool
    BY <1>1 DEF HeaderMalformed, EndsInv, PoolInv, IdsAreOld
  <1>3. CASE Live(t)
    <2>1. EndTour(t, NoCheck, keep) /\ producers' = producers /\ UNCHANGED <<nextTour, unanswered>>
      BY <1>1, <1>3 DEF HeaderMalformed
    <2> QED BY <1>2, <1>3, <2>1, EndTourEnds
  <1>4. CASE ~Live(t)
    BY <1>1, <1>4, FailEnds DEF HeaderMalformed
  <1> QED BY <1>3, <1>4

(* A written end returns its tour.                                         *)
LEMMA WroteEnds ==
  ASSUME EndsInv, PoolInv', NEW s \in Ships, Wrote(s)
  PROVE  EndsInv'
  <1>1. PICK u : u = Head(writes[s])
    OBVIOUS
  <1>2. u.tour \in Pool /\ Live(u.tour) /\ writes[s] # <<>>
    <2>1. writes[s] \in Seq(UnitType) /\ writes[s] # <<>>
      BY Types DEF EndsInv, PoolInv, Wrote
    <2>2. 1 \in DOMAIN writes[s] /\ u = writes[s][1]
      BY <1>1, <2>1
    <2>3. u.tour \in Pool /\ tour[u.tour].state = "ended"
      BY <2>2, UnitTours, Types DEF EndsInv, PoolInv
    <2> QED BY <2>1, <2>3 DEF Live
  <1>3. CASE Fits(u)
    <2>1. /\ Returned({u.tour}) /\ writes' = [writes EXCEPT ![s] = Tail(writes[s])]
          /\ UNCHANGED <<cur, body, producers, nextTour, unanswered>>
      BY <1>1, <1>3 DEF Wrote
    <2>2. \A x \in Pool \ {u.tour} : Live(x) /\ InBody(x) => InBody(x)'
      BY <2>1 DEF Returned, InBody
    <2>3. {u.tour} \subseteq Pool /\ \A x \in {u.tour} : Live(x)
      BY <1>2
    <2>4. {u.tour} = {Head(writes[s]).tour}
      BY <1>1
    <2> QED BY <1>2, <2>1, <2>2, <2>3, <2>4, ReturningEnds
  <1>4. CASE ~Fits(u)
    BY <1>1, <1>4, FailEnds DEF Wrote
  <1> QED BY <1>3, <1>4

(* What notify_close leaves has a producer: the rest was drained or        *)
(* abandoned.                                                              *)
LEMMA OnClosedEnds ==
  ASSUME EndsInv, PoolInv', NEW s \in Ships, OnClosed(s)
  PROVE  EndsInv'
  <1>1. PICK units : units = {writes[s][i] : i \in DOMAIN writes[s]}
    OBVIOUS
  <1>2. PICK drained : drained = {u.tour : u \in units}
    OBVIOUS
  <1>3. PICK aborted : aborted = {t \in ship[s].tours \ drained : Abandons(t)}
    OBVIOUS
  <1>4. PICK left : left = ship[s].tours \ (drained \cup aborted)
    OBVIOUS
  <1>5. CASE \A u \in units : Fits(u)
    <2>1. PICK killed, ended :
            /\ Returned(drained \cup aborted) /\ producers' = Killed(killed, "killed")
            /\ writes' = [writes EXCEPT ![s] = <<>>] /\ EndShip(s, ended)
            /\ ended.conn = "none" => left = {}
            /\ UNCHANGED <<nextTour, unanswered>>
      <3>1. PICK ended : ended = IF left = {} THEN ResetShip
                                 ELSE [ship[s] EXCEPT !.conn = "gone", !.reading = FALSE,
                                                      !.needEnd = TRUE, !.tours = left]
        OBVIOUS
      <3>2. ship[s] \in ShipType
        BY Types DEF EndsInv, PoolInv
      <3>3. ended.conn = "none" => left = {}
        BY <3>1, <3>2 DEF ShipType
      <3>4. PICK killed : killed = {t \in ship[s].tours \ (drained \cup aborted) :
                                      tour[t].state = "reading" /\ tour[t].handler = "process"}
        OBVIOUS
      <3> QED BY <1>1, <1>2, <1>3, <1>4, <1>5, <3>1, <3>3, <3>4 DEF OnClosed
    <2>2. PICK R : R = drained \cup aborted
      OBVIOUS
    <2>3. /\ \A i \in DOMAIN writes[s] : writes[s][i].tour \in R
          /\ R \subseteq ship[s].tours
      <3>1. \A i \in DOMAIN writes[s] : writes[s][i].tour \in ship[s].tours
        BY UnitTours DEF EndsInv
      <3>2. \A i \in DOMAIN writes[s] : writes[s][i].tour \in drained
        BY <1>1, <1>2
      <3>3. drained \subseteq ship[s].tours
        BY <1>1, <1>2, <3>1
      <3> QED BY <1>3, <2>2, <3>2, <3>3
    <2>4. R \subseteq Pool /\ \A x \in R : Live(x)
      BY <2>3, Types DEF EndsInv, PoolInv, PoolConsistent, ShipType
    <2>5. \A x \in Pool \ R : Live(x) /\ InBody(x) => Produced(x) \/ InBody(x)'
      <3>1. TAKE x \in Pool \ R
      <3>2. SUFFICES ASSUME Live(x), InBody(x), ~Produced(x) PROVE InBody(x)'
        OBVIOUS
      <3>3. tour'[x] = tour[x]
        BY <2>1, <2>2 DEF Returned
      <3>4. CASE tour[x].ship # s
        BY <2>1, <3>2, <3>3, <3>4, ReadStays DEF EndShip, CurStays
      <3>5. CASE tour[x].ship = s
        <4>1. x \in left
          BY <1>4, <2>2, <3>2, <3>5 DEF EndsInv, PoolInv, PoolConsistent
        <4>2. CurStays
          BY <2>1, <4>1 DEF EndShip, CurStays
        <4> QED BY <3>2, <3>3, <4>2 DEF CurStays, InBody
      <3> QED BY <3>4, <3>5
    <2>6. /\ \A p \in producers' : \E o \in producers : p.tour = o.tour /\ p.id = o.id
          /\ \A o \in producers : \E p \in producers' : p.tour = o.tour /\ p.id = o.id
      BY <2>1, KilledSame
    <2> QED BY <2>1, <2>2, <2>3, <2>4, <2>5, <2>6, ReturningEnds
  <1>6. CASE ~(\A u \in units : Fits(u))
    BY <1>1, <1>6, FailEnds DEF OnClosed
  <1> QED BY <1>5, <1>6

(* Every step.                                                             *)
LEMMA StepEnds == EndsInv /\ [Next]_vars => EndsInv'
  <1> SUFFICES ASSUME EndsInv, [Next]_vars PROVE EndsInv'
    OBVIOUS
  <1>0. PoolInv'
    BY StepInv DEF EndsInv
  <1>1. CASE UNCHANGED vars
    BY <1>0, <1>1, StillEnds DEF vars, CurStays
  <1>2. ASSUME NEW s \in Ships, Accept(s) \/ CloseRequest(s) \/ Wrote(s) \/ OnClosed(s)
        PROVE  EndsInv'
    <2>1. CASE Accept(s) \/ CloseRequest(s)
      BY <1>0, <2>1, StillEnds DEF Accept, CloseRequest, CurStays
    <2> QED BY <1>0, <1>2, <2>1, WroteEnds, OnClosedEnds
  <1>3. ASSUME NEW s \in Ships, Reading(s)
        PROVE  EndsInv'
    <2>1. CASE HeaderWithoutTour(s) \/ ContentStale(s)
      BY <1>0, <2>1, FailEnds DEF HeaderWithoutTour, ContentStale
    <2>2. "file" \in Handlers /\ TRUE \in BOOLEAN
      BY DEF Handlers
    <2>3. ASSUME NEW t \in Pool, NEW h \in Handlers, NEW keep \in BOOLEAN,
                 \/ HeaderGet(s, t, h) \/ HeaderPost(s, t, h) \/ HeaderGetRefused(s, t, keep)
                 \/ HeaderPostRefused(s, t) \/ HeaderInvalid(s, t)
          PROVE  EndsInv'
      BY <1>0, <2>3, HeaderEnds
    <2>4. CASE HeaderUnexpected(s) \/ \E keep \in BOOLEAN : HeaderMalformed(s, keep)
      BY <1>0, <2>4, HeaderUnexpectedEnds, HeaderMalformedEnds
    <2>5. ASSUME NEW keep \in BOOLEAN,
                 ContentIgnored(s) \/ ContentRefused(s, keep) \/ ContentEnds(s) \/ ContentRejected(s, keep)
          PROVE  EndsInv'
      BY <1>0, <2>5, ContentStepEnds, ContentRejectedEnds
    <2> QED BY <1>3, <2>1, <2>2, <2>3, <2>4, <2>5 DEF Reading
  <1>4. ASSUME NEW t \in Pool, Ends(t)
        PROVE  EndsInv'
    BY <1>0, <1>4, ProducerEndsEnds DEF Ends
  <1> QED BY <1>1, <1>2, <1>3, <1>4 DEF Next

(* No tour is active.                                                      *)
LEMMA InitEnds == Init => EndsInv
  <1> SUFFICES ASSUME Init PROVE EndsInv
    OBVIOUS
  <1>1. PoolInv
    BY InitInv
  <1>2. \A t \in Pool : tour[t].state = "uninitialized"
    BY ResetTypes DEF Init
  <1> QED BY <1>1, <1>2 DEF Init, EndsInv, HaveEnds, HasEnd, OneId, ProducersOwn, DroppedAreGone, Live

(* Every active tour is being read by its own ship, or has a file or a     *)
(* process that will end it, or has its end in the write queue of its own  *)
(* ship; of a request whose error was dropped nothing is left that a later *)
(* one could meet (InboundHandler, TourStore, Tour).                       *)
THEOREM NoOrphans == Spec => []ToursHaveEnds
  <1>1. EndsInv => ToursHaveEnds
    <2> SUFFICES ASSUME EndsInv PROVE ToursHaveEnds
      OBVIOUS
    <2>1. NoTourIsOrphaned
      <3>1. SUFFICES ASSUME NEW t \in Pool, Live(t)
                     PROVE  InBody(t) \/ Produced(t) \/ Queued(t)
        BY DEF NoTourIsOrphaned, InBody, Produced, Queued
      <3>2. tour[t].state \in TourState
        BY Types DEF EndsInv, PoolInv, TourType
      <3> QED BY <3>1, <3>2 DEF EndsInv, HaveEnds, HasEnd, Live, TourState
    <2> QED BY <2>1 DEF EndsInv, PoolInv, ToursHaveEnds
  <1> QED BY <1>1, InitEnds, StepEnds, PTL DEF Spec
=============================================================================
