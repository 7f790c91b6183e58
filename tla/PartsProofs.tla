----------------------------- MODULE PartsProofs ----------------------------
(* Proofs about the parts that share a run.  The pools of an agent are     *)
(* proved for any number of sockets and requests: first what renting and   *)
(* returning do to a store, then who holds which object, then the units in *)
(* the write queues and the packets they hold.                             *)
(* The access log is proved for any number of taxis and lines, the records *)
(* of a backend for any number of requests and failures.                   *)
EXTENDS MCParts, FiniteSetTheorems, SequenceTheorems, TLAPS

-----------------------------------------------------------------------------
(* ObjectStore.                                                            *)
Stores == [free : Seq(Nat), active : SUBSET Nat, made : Nat]

LEMMA EmptyStore == Empty \in Stores /\ StoreOK(Empty) /\ Empty.active = {} /\ Empty.made = 0
<1>1. Empty \in Stores /\ Empty.active = {} /\ Empty.made = 0 /\ Empty.free = <<>>
  BY DEF Empty, Stores
<1>2. IsInjective(Empty.free) /\ ToSet(Empty.free) = {}
  BY <1>1 DEF IsInjective, ToSet
<1>3. 1..0 = {}
  OBVIOUS
<1> QED  BY <1>1, <1>2, <1>3 DEF StoreOK

(* What is taken off the end of a sequence without repetition.             *)
LEMMA FrontOf ==
  ASSUME NEW q \in Seq(Nat), q # <<>>, IsInjective(q)
  PROVE  /\ Front(q) \in Seq(Nat) /\ IsInjective(Front(q))
         /\ Last(q) \in ToSet(q) /\ Last(q) \in Nat
         /\ ToSet(Front(q)) = ToSet(q) \ {Last(q)}
<1>1. Len(q) \in Nat /\ Len(q) > 0 /\ DOMAIN q = 1..Len(q)
  OBVIOUS
<1> DEFINE n == Len(q)
<1>9. Len(q) \in 1..Len(q) /\ \A i \in 1..(Len(q) - 1) : i \in 1..Len(q) /\ i # Len(q)
  <2>1. n \in Nat /\ n > 0
    BY <1>1
  <2> HIDE DEF n
  <2>2. n \in 1..n /\ \A i \in 1..(n - 1) : i \in 1..n /\ i # n
    BY <2>1
  <2> QED  BY <2>2 DEF n
<1>2. /\ Front(q) \in Seq(Nat) /\ DOMAIN Front(q) = 1..(Len(q) - 1)
      /\ \A i \in 1..(Len(q) - 1) : Front(q)[i] = q[i]
  BY <1>1 DEF Front
<1>3. Last(q) \in ToSet(q) /\ Last(q) \in Nat
  BY <1>1 DEF Last, ToSet
<1>4. IsInjective(Front(q))
  <2> SUFFICES ASSUME NEW i \in 1..(Len(q) - 1), NEW j \in 1..(Len(q) - 1), q[i] = q[j]
               PROVE  i = j
    BY <1>2 DEF IsInjective
  <2>1. i \in 1..Len(q) /\ j \in 1..Len(q)
    BY <1>1
  <2> QED  BY <1>1, <2>1 DEF IsInjective
<1>5. ToSet(Front(q)) = ToSet(q) \ {Last(q)}
  <2>1. ASSUME NEW x \in ToSet(Front(q))  PROVE  x \in ToSet(q) \ {Last(q)}
    <3>1. PICK i \in 1..(Len(q) - 1) : x = q[i]
      BY <1>2 DEF ToSet
    <3>2. i \in 1..Len(q) /\ Len(q) \in 1..Len(q) /\ i # Len(q)
      BY <1>9, Zenon
    <3>3. q[i] # q[Len(q)]
      BY <1>1, <3>2 DEF IsInjective
    <3> QED  BY <1>1, <3>1, <3>2, <3>3 DEF ToSet, Last
  <2>2. ASSUME NEW x \in ToSet(q), x # Last(q)  PROVE  x \in ToSet(Front(q))
    <3>1. PICK i \in 1..Len(q) : x = q[i]
      BY <1>1 DEF ToSet
    <3>2. i \in 1..(Len(q) - 1)
      BY <1>1, <2>2, <3>1 DEF Last
    <3> QED  BY <1>2, <3>1, <3>2 DEF ToSet
  <2> QED  BY <2>1, <2>2, Zenon
<1> QED  BY <1>2, <1>3, <1>4, <1>5

(* What is put at the end of one.                                          *)
LEMMA AppendOf ==
  ASSUME NEW S, NEW q \in Seq(S), NEW x \in S
  PROVE  /\ Append(q, x) \in Seq(S) /\ ToSet(Append(q, x)) = ToSet(q) \cup {x}
         /\ IsInjective(q) /\ x \notin ToSet(q) => IsInjective(Append(q, x))
<1>1. /\ Append(q, x) \in Seq(S) /\ Len(q) \in Nat /\ DOMAIN q = 1..Len(q)
      /\ DOMAIN Append(q, x) = 1..(Len(q) + 1) /\ Append(q, x)[Len(q) + 1] = x
      /\ \A i \in 1..Len(q) : Append(q, x)[i] = q[i]
  OBVIOUS
<1>2. ToSet(Append(q, x)) = ToSet(q) \cup {x}
  <2>1. ASSUME NEW y \in ToSet(Append(q, x))  PROVE  y \in ToSet(q) \cup {x}
    BY <1>1 DEF ToSet
  <2>2. ASSUME NEW y \in ToSet(q)  PROVE  y \in ToSet(Append(q, x))
    <3>1. PICK i \in 1..Len(q) : y = q[i]
      BY <1>1 DEF ToSet
    <3> QED  BY <1>1, <3>1 DEF ToSet
  <2>3. x \in ToSet(Append(q, x))
    <3>1. Len(q) + 1 \in DOMAIN Append(q, x)
      BY <1>1
    <3> QED  BY <1>1, <3>1 DEF ToSet
  <2> QED  BY <2>1, <2>2, <2>3
<1>3. ASSUME IsInjective(q), x \notin ToSet(q)  PROVE  IsInjective(Append(q, x))
  <2>1. \A i \in 1..Len(q) : q[i] # x
    BY <1>1, <1>3 DEF ToSet
  <2> SUFFICES ASSUME NEW i \in 1..(Len(q) + 1), NEW j \in 1..(Len(q) + 1),
                      Append(q, x)[i] = Append(q, x)[j]
               PROVE  i = j
    BY <1>1 DEF IsInjective
  <2>2. CASE i \in 1..Len(q) /\ j \in 1..Len(q)
    BY <1>1, <1>3, <2>2 DEF IsInjective
  <2>3. CASE i = Len(q) + 1 \/ j = Len(q) + 1
    BY <1>1, <2>1, <2>3
  <2> QED  BY <1>1, <2>2, <2>3
<1> QED  BY <1>1, <1>2, <1>3

(* rent: what is lent was not in use, and a new object is made only when   *)
(* all are.                                                                *)
LEMMA RentStore ==
  ASSUME NEW s \in Stores, StoreOK(s)
  PROVE  /\ Rent(s) \in Stores /\ StoreOK(Rent(s))
         /\ Rented(s) \in Nat \ {0} /\ Rented(s) \notin s.active /\ Rented(s) <= Rent(s).made
         /\ Rent(s).active = s.active \cup {Rented(s)}
         /\ \/ Rent(s).made = s.made
            \/ Rent(s).made = s.made + 1 /\ Rented(s) = s.made + 1 /\ s.active = 1..s.made
<1>1. s.free \in Seq(Nat) /\ s.made \in Nat /\ s.active \subseteq 1..s.made
      /\ ToSet(s.free) = 1..s.made \ s.active /\ IsInjective(s.free)
  BY DEF Stores, StoreOK
<1>2. CASE s.free = <<>>
  <2>1. ToSet(s.free) = {}
    BY <1>2 DEF ToSet
  <2>2. s.active = 1..s.made
    BY <1>1, <2>1
  <2>3. Rented(s) = s.made + 1 /\ Rent(s) = [s EXCEPT !.made = s.made + 1, !.active = s.active \cup {s.made + 1}]
    BY <1>2 DEF Rented, Rent
  <2>4. /\ Rent(s) \in Stores /\ Rent(s).free = s.free
        /\ Rent(s).made = s.made + 1 /\ Rent(s).active = s.active \cup {s.made + 1}
    <3>1. s.made + 1 \in Nat /\ s.active \cup {s.made + 1} \in SUBSET Nat
      BY <1>1 DEF Stores
    <3> QED  BY <2>3, <3>1 DEF Stores
  <2>5. 1..(s.made + 1) = (1..s.made) \cup {s.made + 1} /\ s.made + 1 \notin 1..s.made
    BY <1>1
  <2>6. StoreOK(Rent(s))
    BY <1>1, <2>1, <2>2, <2>4, <2>5 DEF StoreOK
  <2> QED  BY <1>1, <2>2, <2>3, <2>4, <2>5, <2>6
<1>3. CASE s.free # <<>>
  <2>1. /\ Front(s.free) \in Seq(Nat) /\ IsInjective(Front(s.free))
        /\ Last(s.free) \in ToSet(s.free) /\ Last(s.free) \in Nat
        /\ ToSet(Front(s.free)) = ToSet(s.free) \ {Last(s.free)}
    BY <1>1, <1>3, FrontOf
  <2>2. Rented(s) = Last(s.free)
        /\ Rent(s) = [s EXCEPT !.free = Front(s.free), !.active = s.active \cup {Last(s.free)}]
    BY <1>3 DEF Rented, Rent
  <2>3. /\ Rent(s) \in Stores /\ Rent(s).free = Front(s.free)
        /\ Rent(s).made = s.made /\ Rent(s).active = s.active \cup {Last(s.free)}
    <3>1. s.active \cup {Last(s.free)} \in SUBSET Nat
      BY <2>1 DEF Stores
    <3> QED  BY <2>1, <2>2, <3>1 DEF Stores
  <2>4. Last(s.free) \in 1..s.made /\ Last(s.free) \notin s.active
    BY <1>1, <2>1
  <2>5. StoreOK(Rent(s))
    BY <1>1, <2>1, <2>3, <2>4 DEF StoreOK
  <2> QED  BY <1>1, <2>2, <2>3, <2>4, <2>5
<1> QED  BY <1>2, <1>3

(* Return: what is in use is not in the free list, so it can be put there. *)
LEMMA ReturnStore ==
  ASSUME NEW s \in Stores, StoreOK(s), NEW o \in s.active
  PROVE  /\ Returnable(s, o)
         /\ Return(s, o) \in Stores /\ StoreOK(Return(s, o))
         /\ Return(s, o).active = s.active \ {o} /\ Return(s, o).made = s.made
<1>1. s.free \in Seq(Nat) /\ s.made \in Nat /\ s.active \subseteq 1..s.made /\ o \in Nat
      /\ ToSet(s.free) = 1..s.made \ s.active /\ IsInjective(s.free)
  BY DEF Stores, StoreOK
<1>2. o \notin ToSet(s.free) /\ o \in 1..s.made
  BY <1>1
<1>3. Returnable(s, o)
  BY <1>1, <1>2 DEF Returnable, Contains, ToSet
<1>4. /\ Append(s.free, o) \in Seq(Nat) /\ ToSet(Append(s.free, o)) = ToSet(s.free) \cup {o}
      /\ IsInjective(Append(s.free, o))
  BY <1>1, <1>2, AppendOf
<1>5. /\ Return(s, o) \in Stores /\ Return(s, o).free = Append(s.free, o)
      /\ Return(s, o).active = s.active \ {o} /\ Return(s, o).made = s.made
  BY <1>1, <1>4 DEF Return, Stores
<1>6. StoreOK(Return(s, o))
  BY <1>1, <1>2, <1>4, <1>5 DEF StoreOK
<1> QED  BY <1>3, <1>5, <1>6

-----------------------------------------------------------------------------
(* The invariant.  A ship, a handler and a packet are followed from the    *)
(* store that lends them to whoever holds them, and back.                  *)
Kinds == {"h1", "h2"}
Number == {0} \cup Objects
ShipSet == [conn : Conns \cup {Nobody}, id : Nat, hnd : Kinds \X Number, needEnd : BOOLEAN]
TourSet == [ship : Number, state : {"none", "reading", "running", "ended"}]
Units == [pkt : Nat, via : Kinds \X Objects, sid : Nat, keep : BOOLEAN, tour : Tours]

(* The ships and the handlers: what is lent is what serves, a ship and its *)
(* handler refer to each other, and no connection has two.                 *)
HeldTypes ==
  /\ ships \in Stores /\ StoreOK(ships) /\ ships.made <= Cardinality(Conns)
  /\ hands \in [Kinds -> Stores]
  /\ \A p \in Kinds : StoreOK(hands[p]) /\ hands[p].made <= Cardinality(Conns)
  /\ hnd \in [Kinds \X Objects -> Number] /\ ship \in [Objects -> ShipSet]
  /\ unfit \subseteq Objects
Lent ==
  /\ ships.active = Serving \cup unfit /\ Serving \cap unfit = {}
  /\ \A p \in Kinds : hands[p].active = {n \in Objects : \E o \in Serving : ship[o].hnd = <<p, n>>}
Paired ==
  /\ \A o \in Serving : ship[o].hnd \in Kinds \X Objects /\ hnd[ship[o].hnd] = o
  /\ \A h \in Kinds \X Objects : hnd[h] # 0 => hnd[h] \in Serving /\ ship[hnd[h]].hnd = h
  /\ \A o, q \in Serving : ship[o].conn = ship[q].conn => o = q
Held == HeldTypes /\ Lent /\ Paired

(* The connections and the tours: a ship serves as long as its connection  *)
(* is there or has tours left, which the ship knows by needEnd.            *)
LivesTypes ==
  /\ cause \in {"none", "secondRead", "noShip", "staleShip"} /\ listening \in BOOLEAN
  /\ phase \in [Conns -> {"away", "open", "closing", "draining", "gone"}]
  /\ tour \in [Tours -> TourSet] /\ requests \in 0..MaxRequests /\ nextId \in Nat
Live(c) == phase[c] \in {"open", "closing", "draining"}
Attended ==
  /\ \A c \in Conns : Live(c) => \E o \in Serving : ship[o].conn = c
  /\ \A o \in Serving : phase[ship[o].conn] # "away"
  /\ \A o \in Objects : ship[o].needEnd <=> o \in Serving /\ phase[ship[o].conn] = "gone"
  /\ listening => unfit = {}
  /\ Cardinality(unfit) <= 1
Toured ==
  /\ \A o \in Serving : phase[ship[o].conn] = "gone" => ToursOf(o) # {}
  /\ \A t \in Tours : IF tour[t].state = "none" THEN tour[t] = NoTour ELSE tour[t].ship \in Serving
  /\ \A t \in Tours : t > requests => tour[t] = NoTour
Lives == LivesTypes /\ Attended /\ Toured

(* The units of the write queues: each ends a tour of its connection, by   *)
(* the handler its connection has unless that has changed, and holds a     *)
(* packet of its own.                                                      *)
SentTypes == queue \in [Conns -> Seq(Units)] /\ packets \in Stores /\ StoreOK(packets) /\ early \subseteq Conns
Fits(c, u) ==
  /\ Live(c) /\ tour[u.tour].state = "ended" /\ ship[tour[u.tour].ship].conn = c
  /\ c \notin early => u.via = ship[tour[u.tour].ship].hnd /\ u.sid = ship[tour[u.tour].ship].id
OnePerTour(q) == \A i, j \in DOMAIN q : q[i].tour = q[j].tour => i = j
Sent ==
  /\ SentTypes
  /\ \A c \in Conns : OnePerTour(queue[c]) /\ \A u \in ToSet(queue[c]) : Fits(c, u)
  /\ \A u, v \in Queued : u.pkt = v.pkt => u = v
  /\ packets.active = {u.pkt : u \in Queued}
Crossings == crossed \in BOOLEAN /\ ((crossed \/ cause \in {"noShip", "staleShip"}) => early # {})

PoolsInv == Held /\ Lives /\ Sent /\ Crossings

LEMMA Sizes == /\ IsFiniteSet(Conns) /\ Cardinality(Conns) \in Nat /\ Nobody \notin Conns
               /\ MaxRequests \in Nat /\ Objects \subseteq Nat /\ 0 \notin Objects
               /\ IsFiniteSet(Objects) /\ Cardinality(Objects) = Cardinality(Conns)
<1>1. IsFiniteSet(Conns) /\ Nobody \notin Conns /\ MaxRequests \in Nat
  BY PoolsAssumption DEF PoolsAssumption, Nobody
<1>2. Cardinality(Conns) \in Nat
  BY <1>1, FS_CardinalityType
<1>3. IsFiniteSet(1..Cardinality(Conns)) /\ Cardinality(1..Cardinality(Conns)) = Cardinality(Conns)
  BY <1>2, FS_Interval
<1> QED  BY <1>1, <1>2, <1>3 DEF Objects

(* What the pools promise follows.                                         *)
LEMMA InvPromises == ASSUME PoolsInv  PROVE  PoolsKept
<1>1. TypeOK
  BY DEF PoolsInv, Held, HeldTypes, Lives, LivesTypes, Sent, SentTypes, TypeOK, Kinds, Number
<1>2. ServesOne
  BY DEF PoolsInv, Held, Paired, Lives, Attended, Live, ServesOne
<1>3. NothingLost
  BY DEF PoolsInv, Held, Lent, Lives, Attended, Toured, Sent, NothingLost, Kinds
<1>4. FindsItsConnection
  <2>1. ASSUME NEW c \in Conns \ early, NEW i \in DOMAIN queue[c]
        PROVE  hnd[queue[c][i].via] \in Serving /\ ship[hnd[queue[c][i].via]].conn = c
    <3> DEFINE u == queue[c][i]  o == tour[u.tour].ship
    <3>1. Fits(c, u) /\ u \in Units
      BY DEF PoolsInv, Sent, SentTypes, ToSet
    <3>2. tour[u.tour].state # "none" /\ u.tour \in Tours
      BY <3>1 DEF Fits, Units
    <3>3. o \in Serving
      BY <3>2 DEF PoolsInv, Lives, Toured
    <3>4. hnd[u.via] = o /\ ship[o].conn = c
      BY <3>1, <3>3 DEF Fits, PoolsInv, Held, Paired
    <3> QED  BY <3>3, <3>4
  <2> QED  BY <2>1 DEF PoolsInv, Crossings, FindsItsConnection
<1> QED  BY <1>1, <1>2, <1>3, <1>4 DEF PoolsKept

-----------------------------------------------------------------------------
(* Room: there is an object left for a connection that has none.           *)
LEMMA OneMore ==
  ASSUME NEW m \in Nat, NEW T, IsFiniteSet(T), NEW x \in T, NEW f \in [1..m -> T \ {x}],
         \A i, j \in 1..m : f[i] = f[j] => i = j
  PROVE  m + 1 <= Cardinality(T)
<1> DEFINE S == 1..m  R == T \ {x}
<1>1. f \in Injection(S, R)
  BY DEF Injection, IsInjective
<1>2. IsFiniteSet(R) /\ Cardinality(R) = Cardinality(T) - 1
  BY FS_RemoveElement
<1>3. Cardinality(S) = m
  BY FS_Interval
<1>4. Cardinality(T) \in Nat
  BY FS_CardinalityType
<1> HIDE DEF S, R
<1>5. Cardinality(S) <= Cardinality(R)
  BY <1>1, <1>2, FS_Injection
<1> QED  BY <1>2, <1>3, <1>4, <1>5

(* A handler that is lent has a ship, which has it.                        *)
LEMMA LentServes ==
  ASSUME Held, NEW p \in Kinds, NEW n \in hands[p].active
  PROVE  n \in Objects /\ hnd[<<p, n>>] \in Serving /\ ship[hnd[<<p, n>>]].hnd = <<p, n>>
<1>1. n \in Objects /\ \E o \in Serving : ship[o].hnd = <<p, n>>
  BY DEF Held, Lent
<1>2. PICK o \in Serving : ship[o].hnd = <<p, n>>
  BY <1>1
<1>3. hnd[<<p, n>>] = o
  BY <1>2 DEF Held, Paired
<1> QED  BY <1>1, <1>2, <1>3

(* What a store lends next is an object of the pools when it has room.     *)
LEMMA RentsObject ==
  ASSUME NEW s \in Stores, StoreOK(s), s.made <= Cardinality(Conns),
         s.active = 1..s.made => s.made + 1 <= Cardinality(Conns)
  PROVE  Rented(s) \in Objects /\ Rent(s).made <= Cardinality(Conns)
<1>1. /\ Rented(s) \in Nat \ {0} /\ Rented(s) <= Rent(s).made /\ Rent(s).made \in Nat
      /\ \/ Rent(s).made = s.made
         \/ Rent(s).made = s.made + 1 /\ s.active = 1..s.made
  BY RentStore DEF Stores
<1>2. Rent(s).made <= Cardinality(Conns)
  BY <1>1
<1>3. Cardinality(Conns) \in Nat
  BY Sizes
<1> QED  BY <1>1, <1>2, <1>3 DEF Objects

(* The next ship and the next handler of HTTP/1, for a connection that has *)
(* no ship.                                                                *)
LEMMA RoomForOne ==
  ASSUME Held, unfit = {}, NEW c \in Conns, \A o \in Serving : ship[o].conn # c
  PROVE  /\ Rented(ships) \in Objects \ Serving /\ Rent(ships).made <= Cardinality(Conns)
         /\ Rented(hands["h1"]) \in Objects /\ Rent(hands["h1"]).made <= Cardinality(Conns)
<1>1. \A o \in Serving : o \in Objects /\ ship[o].conn \in Conns \ {c}
  BY DEF Held, HeldTypes, ShipSet, Serving
<1>2. ships.active = 1..ships.made => ships.made + 1 <= Cardinality(Conns)
  <2> SUFFICES ASSUME ships.active = 1..ships.made  PROVE  ships.made + 1 <= Cardinality(Conns)
    OBVIOUS
  <2> DEFINE m == ships.made  f == [o \in 1..m |-> ship[o].conn]
  <2>1. m \in Nat
    BY DEF Held, HeldTypes, Stores
  <2>2. \A o \in 1..m : o \in Serving
    BY DEF Held, Lent
  <2>3. f \in [1..m -> Conns \ {c}]
    BY <1>1, <2>2
  <2>4. \A i, j \in 1..m : f[i] = f[j] => i = j
    BY <2>2 DEF Held, Paired
  <2> HIDE DEF f
  <2> QED  BY <2>1, <2>3, <2>4, Sizes, OneMore
<1>3. hands["h1"].active = 1..hands["h1"].made => hands["h1"].made + 1 <= Cardinality(Conns)
  <2> SUFFICES ASSUME hands["h1"].active = 1..hands["h1"].made
               PROVE  hands["h1"].made + 1 <= Cardinality(Conns)
    OBVIOUS
  <2> DEFINE m == hands["h1"].made  f == [n \in 1..m |-> ship[hnd[<<"h1", n>>]].conn]
  <2>1. m \in Nat
    BY DEF Held, HeldTypes, Stores, Kinds
  <2>2. \A n \in 1..m : hnd[<<"h1", n>>] \in Serving /\ ship[hnd[<<"h1", n>>]].hnd = <<"h1", n>>
    BY LentServes DEF Kinds
  <2>3. f \in [1..m -> Conns \ {c}]
    BY <1>1, <2>2
  <2>4. \A i, j \in 1..m : f[i] = f[j] => i = j
    <3> SUFFICES ASSUME NEW i \in 1..m, NEW j \in 1..m, f[i] = f[j]  PROVE  i = j
      OBVIOUS
    <3>1. hnd[<<"h1", i>>] = hnd[<<"h1", j>>]
      BY <2>2 DEF Held, Paired
    <3>2. <<"h1", i>> = <<"h1", j>>
      BY <2>2, <3>1
    <3> QED  BY <3>2
  <2> HIDE DEF f
  <2> QED  BY <2>1, <2>3, <2>4, Sizes, OneMore
<1>4. /\ ships \in Stores /\ StoreOK(ships) /\ ships.made <= Cardinality(Conns) /\ ships.made \in Nat
      /\ hands["h1"] \in Stores /\ StoreOK(hands["h1"]) /\ hands["h1"].made <= Cardinality(Conns)
      /\ hands["h1"].made \in Nat
  BY DEF Held, HeldTypes, Kinds, Stores
<1>5. Rented(ships) \in Objects /\ Rent(ships).made <= Cardinality(Conns)
  BY <1>2, <1>4, RentsObject
<1>6. Rented(hands["h1"]) \in Objects /\ Rent(hands["h1"]).made <= Cardinality(Conns)
  BY <1>3, <1>4, RentsObject
<1>7. Rented(ships) \notin Serving
  BY <1>4, RentStore DEF Held, Lent
<1> QED  BY <1>5, <1>6, <1>7

(* The next handler of HTTP/2, for a ship that has one of HTTP/1.          *)
LEMMA RoomForHandler ==
  ASSUME Held, NEW o \in Serving, ship[o].hnd[1] = "h1"
  PROVE  Rented(hands["h2"]) \in Objects /\ Rent(hands["h2"]).made <= Cardinality(Conns)
<1>1. hands["h2"].active = 1..hands["h2"].made => hands["h2"].made + 1 <= Cardinality(Conns)
  <2> SUFFICES ASSUME hands["h2"].active = 1..hands["h2"].made
               PROVE  hands["h2"].made + 1 <= Cardinality(Conns)
    OBVIOUS
  <2> DEFINE m == hands["h2"].made  f == [n \in 1..m |-> hnd[<<"h2", n>>]]
  <2>1. m \in Nat
    BY DEF Held, HeldTypes, Stores, Kinds
  <2>2. \A n \in 1..m : hnd[<<"h2", n>>] \in Serving /\ ship[hnd[<<"h2", n>>]].hnd = <<"h2", n>>
    BY LentServes DEF Kinds
  <2>3. ASSUME NEW n \in 1..m  PROVE  hnd[<<"h2", n>>] # o
    <3>1. ship[o].hnd # <<"h2", n>>
      OBVIOUS
    <3> QED  BY <2>2, <3>1
  <2>4. f \in [1..m -> Objects \ {o}]
    BY <2>2, <2>3 DEF Serving
  <2>5. \A i, j \in 1..m : f[i] = f[j] => i = j
    <3> SUFFICES ASSUME NEW i \in 1..m, NEW j \in 1..m, f[i] = f[j]  PROVE  i = j
      OBVIOUS
    <3>1. <<"h2", i>> = <<"h2", j>>
      BY <2>2
    <3> QED  BY <3>1
  <2>6. o \in Objects
    BY DEF Serving
  <2> HIDE DEF f
  <2> QED  BY <2>1, <2>4, <2>5, <2>6, Sizes, OneMore
<1>2. /\ hands["h2"] \in Stores /\ StoreOK(hands["h2"]) /\ hands["h2"].made <= Cardinality(Conns)
      /\ hands["h2"].made \in Nat
  BY DEF Held, HeldTypes, Kinds, Stores
<1> QED  BY <1>1, <1>2, RentsObject

-----------------------------------------------------------------------------
(* What the steps do to ships and handlers.                                *)

(* Nothing, when only other fields of a ship change.                       *)
LEMMA HeldSame ==
  ASSUME Held, ships' = ships, hands' = hands, hnd' = hnd, unfit' = unfit,
         ship' \in [Objects -> ShipSet],
         \A o \in Objects : ship'[o].conn = ship[o].conn /\ ship'[o].hnd = ship[o].hnd
  PROVE  Held' /\ Serving' = Serving
<1>1. Serving' = Serving
  BY DEF Serving
<1>2. \A o \in Serving : o \in Objects
  BY DEF Serving
<1>3. Lent'
  BY <1>1, <1>2 DEF Held, Lent
<1>4. Paired'
  BY <1>1, <1>2 DEF Held, Paired
<1>5. HeldTypes'
  BY DEF Held, HeldTypes
<1> QED  BY <1>1, <1>3, <1>4, <1>5 DEF Held

(* end_ship: both go back, and nobody else's.                              *)
LEMMA EndShipHeld ==
  ASSUME Held, NEW o \in Serving, EndShip(o), unfit' = unfit
  PROVE  /\ Held' /\ Serving' = Serving \ {o} /\ cause' = cause
         /\ ship' \in [Objects -> ShipSet] /\ ~ship'[o].needEnd
         /\ \A q \in Objects \ {o} : ship'[q] = ship[q]
<1>1. o \in Objects /\ ship[o].conn \in Conns /\ ship[o] \in ShipSet
  BY DEF Serving, Held, HeldTypes, ShipSet
<1>2. ship[o].hnd \in Kinds \X Objects /\ hnd[ship[o].hnd] = o
  BY DEF Held, Paired
<1>3. PICK p \in Kinds, n \in Objects : ship[o].hnd = <<p, n>>
  BY <1>2
<1>4. ship[o].hnd[1] = p /\ ship[o].hnd[2] = n
  BY <1>3
<1>5. /\ hands' = [hands EXCEPT ![p] = Return(hands[p], n)] /\ hnd' = [hnd EXCEPT ![<<p, n>>] = 0]
      /\ ships' = Return(ships, o) /\ ship' = Reset(o)
      /\ cause' = IF Returnable(hands[p], n) /\ Returnable(ships, o) THEN cause ELSE "returned"
  BY <1>3, <1>4 DEF EndShip
<1>6. n \in hands[p].active /\ o \in ships.active
  BY <1>1, <1>3 DEF Held, Lent
<1>7. /\ ships \in Stores /\ StoreOK(ships) /\ hands[p] \in Stores /\ StoreOK(hands[p])
  BY DEF Held, HeldTypes
<1>8. /\ Returnable(hands[p], n) /\ hands'[p] \in Stores /\ StoreOK(hands'[p])
      /\ hands'[p].active = hands[p].active \ {n} /\ hands'[p].made = hands[p].made
  <2>1. hands'[p] = Return(hands[p], n)
    BY <1>5 DEF Held, HeldTypes
  <2> QED  BY <1>6, <1>7, <2>1, ReturnStore
<1>9. /\ Returnable(ships, o) /\ ships' \in Stores /\ StoreOK(ships')
      /\ ships'.active = ships.active \ {o} /\ ships'.made = ships.made
  BY <1>5, <1>6, <1>7, ReturnStore
<1>10. \A r \in Kinds \ {p} : hands'[r] = hands[r]
  BY <1>5 DEF Held, HeldTypes
<1>11. hands' \in [Kinds -> Stores]
  BY <1>5, <1>6, <1>7, ReturnStore DEF Held, HeldTypes
<1>12. /\ ship'[o] = [ship[o] EXCEPT !.conn = Nobody, !.id = 0, !.needEnd = FALSE]
       /\ \A q \in Objects \ {o} : ship'[q] = ship[q]
  BY <1>1, <1>5 DEF Reset, Held, HeldTypes
<1>13. /\ ship'[o] \in ShipSet /\ ship'[o].conn = Nobody /\ ~ship'[o].needEnd
  <2>1. ship[o] = [conn |-> ship[o].conn, id |-> ship[o].id, hnd |-> ship[o].hnd, needEnd |-> ship[o].needEnd]
        /\ ship[o].hnd \in Kinds \X Number
    BY <1>1 DEF ShipSet
  <2>2. ship'[o] = [conn |-> Nobody, id |-> 0, hnd |-> ship[o].hnd, needEnd |-> FALSE]
    BY <1>12, <2>1
  <2> QED  BY <2>1, <2>2 DEF ShipSet
<1>14. ship' \in [Objects -> ShipSet]
  BY <1>1, <1>5, <1>12, <1>13 DEF Reset, Held, HeldTypes
<1>15. Serving' = Serving \ {o}
  BY <1>12, <1>13 DEF Serving
<1>16. /\ hnd' \in [Kinds \X Objects -> Number] /\ hnd'[<<p, n>>] = 0
       /\ \A h \in Kinds \X Objects : h # <<p, n>> => hnd'[h] = hnd[h]
  BY <1>5 DEF Held, HeldTypes, Number
<1>17. HeldTypes'
  <2>1. \A r \in Kinds : StoreOK(hands'[r]) /\ hands'[r].made <= Cardinality(Conns)
    BY <1>8, <1>10 DEF Held, HeldTypes
  <2> QED  BY <1>9, <1>11, <1>14, <1>16, <2>1 DEF Held, HeldTypes
<1>18. \A q \in Serving \ {o} : q \in Objects /\ ship'[q] = ship[q] /\ ship[q].hnd # <<p, n>>
  BY <1>2, <1>3, <1>12 DEF Serving, Held, Paired
<1>19. Lent'
  <2>1. ships'.active = Serving' \cup unfit' /\ Serving' \cap unfit' = {}
    BY <1>9, <1>15 DEF Held, Lent
  <2>2. ASSUME NEW r \in Kinds, NEW k \in Objects
        PROVE  k \in hands'[r].active <=> \E q \in Serving' : ship'[q].hnd = <<r, k>>
    <3>1. k \in hands[r].active <=> \E q \in Serving : ship[q].hnd = <<r, k>>
      BY DEF Held, Lent
    <3>2. k \in hands'[r].active <=> k \in hands[r].active /\ <<r, k>> # <<p, n>>
      BY <1>8, <1>10
    <3> QED  BY <1>3, <1>15, <1>18, <3>1, <3>2
  <2>3. \A r \in Kinds : hands'[r].active \subseteq Objects
    BY <1>8, <1>10 DEF Held, Lent
  <2>4. ASSUME NEW r \in Kinds
        PROVE  hands'[r].active = {k \in Objects : \E q \in Serving' : ship'[q].hnd = <<r, k>>}
    BY <2>2, <2>3
  <2> QED  BY <2>1, <2>4 DEF Lent
<1>20. Paired'
  <2>1. \A q \in Serving' : ship'[q].hnd \in Kinds \X Objects /\ hnd'[ship'[q].hnd] = q
    BY <1>15, <1>16, <1>18 DEF Held, Paired
  <2>2. \A h \in Kinds \X Objects : hnd'[h] # 0 => hnd'[h] \in Serving' /\ ship'[hnd'[h]].hnd = h
    <3> SUFFICES ASSUME NEW h \in Kinds \X Objects, hnd'[h] # 0
                 PROVE  hnd'[h] \in Serving' /\ ship'[hnd'[h]].hnd = h
      OBVIOUS
    <3>1. h # <<p, n>> /\ hnd'[h] = hnd[h]
      BY <1>16
    <3>2. hnd[h] \in Serving /\ ship[hnd[h]].hnd = h
      BY <3>1 DEF Held, Paired
    <3>3. hnd[h] # o
      BY <1>3, <3>1, <3>2
    <3> QED  BY <1>15, <1>18, <3>1, <3>2, <3>3
  <2>3. \A q, r \in Serving' : ship'[q].conn = ship'[r].conn => q = r
    BY <1>15, <1>18 DEF Held, Paired
  <2> QED  BY <2>1, <2>2, <2>3 DEF Paired
<1> QED  BY <1>5, <1>8, <1>9, <1>12, <1>13, <1>14, <1>15, <1>17, <1>19, <1>20 DEF Held

(* on_connected: a ship and a handler of HTTP/1 that nobody has.           *)
LEMMA AcceptHeld ==
  ASSUME Held, unfit = {}, nextId \in Nat, NEW c \in Conns, \A q \in Serving : ship[q].conn # c,
         OnConnected(c)
  PROVE  /\ Held' /\ cause' = cause /\ ship' \in [Objects -> ShipSet]
         /\ \E o \in Objects \ Serving :
              /\ Serving' = Serving \cup {o} /\ ship'[o].conn = c
              /\ ship'[o].needEnd = ship[o].needEnd
              /\ \A q \in Objects \ {o} : ship'[q] = ship[q]
<1> DEFINE o == Rented(ships)  n == Rented(hands["h1"])  h == <<"h1", n>>
<1>1. /\ o \in Objects \ Serving /\ Rent(ships).made <= Cardinality(Conns)
      /\ n \in Objects /\ Rent(hands["h1"]).made <= Cardinality(Conns)
  BY RoomForOne
<1>2. /\ ships \in Stores /\ StoreOK(ships) /\ hands["h1"] \in Stores /\ StoreOK(hands["h1"])
  BY DEF Held, HeldTypes, Kinds
<1>3. /\ ships' = Rent(ships) /\ hands' = [hands EXCEPT !["h1"] = Rent(hands["h1"])]
      /\ ship' = [ship EXCEPT ![o] = [ship[o] EXCEPT !.conn = c, !.id = nextId, !.hnd = h]]
      /\ hnd' = [hnd EXCEPT ![h] = o] /\ unfit' = unfit
      /\ IF ship[o].conn # Nobody THEN cause' = "alreadyInitialized" ELSE UNCHANGED cause
  BY DEF OnConnected, history
<1>4. /\ ships' \in Stores /\ StoreOK(ships') /\ ships'.active = ships.active \cup {o}
      /\ ships'.made <= Cardinality(Conns) /\ o \notin ships.active
  BY <1>1, <1>2, <1>3, RentStore
<1>5. /\ hands'["h1"] \in Stores /\ StoreOK(hands'["h1"])
      /\ hands'["h1"].active = hands["h1"].active \cup {n} /\ n \notin hands["h1"].active
      /\ hands'["h1"].made <= Cardinality(Conns)
      /\ hands'["h2"] = hands["h2"] /\ hands' \in [Kinds -> Stores]
  <2>1. hands'["h1"] = Rent(hands["h1"])
    BY <1>3 DEF Held, HeldTypes, Kinds
  <2>2. Rent(hands["h1"]) \in Stores
    BY <1>2, RentStore
  <2>3. hands'["h2"] = hands["h2"] /\ hands' \in [Kinds -> Stores]
    BY <1>3, <2>2 DEF Held, HeldTypes, Kinds
  <2> QED  BY <1>1, <1>2, <2>1, <2>3, RentStore
<1>6. h \in Kinds \X Objects /\ h \in Kinds \X Number
  BY <1>1 DEF Kinds, Number
<1> HIDE DEF o, n
<1>7. /\ ship'[o] = [ship[o] EXCEPT !.conn = c, !.id = nextId, !.hnd = h]
      /\ \A q \in Objects \ {o} : ship'[q] = ship[q]
  BY <1>1, <1>3 DEF Held, HeldTypes
<1>8. /\ ship'[o] \in ShipSet /\ ship'[o].conn = c /\ ship'[o].hnd = h /\ ship'[o].needEnd = ship[o].needEnd
  <2>1. ship[o] \in ShipSet
    BY <1>1 DEF Held, HeldTypes
  <2>2. ship'[o] = [conn |-> c, id |-> nextId, hnd |-> h, needEnd |-> ship[o].needEnd]
    BY <1>7, <2>1 DEF ShipSet
  <2> QED  BY <1>6, <2>1, <2>2 DEF ShipSet
<1>9. ship' \in [Objects -> ShipSet]
  BY <1>3, <1>7, <1>8 DEF Held, HeldTypes
<1>10. Serving' = Serving \cup {o}
  <2>1. c # Nobody
    BY Sizes
  <2> QED  BY <1>1, <1>7, <1>8, <2>1 DEF Serving
<1>11. /\ hnd' \in [Kinds \X Objects -> Number] /\ hnd'[h] = o
       /\ \A k \in Kinds \X Objects : k # h => hnd'[k] = hnd[k]
  BY <1>1, <1>3, <1>6 DEF Held, HeldTypes, Number
<1>12. \A q \in Serving : q \in Objects /\ q # o /\ ship'[q] = ship[q] /\ ship[q].hnd # h
  <2>1. \A q \in Serving : ship[q].hnd # h
    BY <1>1, <1>5 DEF Held, Lent, Kinds
  <2> QED  BY <1>1, <1>7, <2>1 DEF Serving
<1>13. HeldTypes'
  <2>1. \A r \in Kinds : StoreOK(hands'[r]) /\ hands'[r].made <= Cardinality(Conns)
    BY <1>5 DEF Held, HeldTypes, Kinds
  <2> QED  BY <1>3, <1>4, <1>5, <1>9, <1>11, <2>1 DEF Held, HeldTypes
<1>14. Lent'
  <2>1. ships'.active = Serving' \cup unfit' /\ Serving' \cap unfit' = {}
    BY <1>3, <1>4, <1>10 DEF Held, Lent
  <2>2. ASSUME NEW r \in Kinds, NEW k \in Objects
        PROVE  k \in hands'[r].active <=> \E q \in Serving' : ship'[q].hnd = <<r, k>>
    <3>1. k \in hands[r].active <=> \E q \in Serving : ship[q].hnd = <<r, k>>
      BY DEF Held, Lent
    <3>2. k \in hands'[r].active <=> k \in hands[r].active \/ <<r, k>> = h
      BY <1>5 DEF Kinds
    <3> QED  BY <1>8, <1>10, <1>12, <3>1, <3>2
  <2>3. \A r \in Kinds : hands'[r].active \subseteq Objects
    BY <1>1, <1>5 DEF Held, Lent, Kinds
  <2>4. ASSUME NEW r \in Kinds
        PROVE  hands'[r].active = {k \in Objects : \E q \in Serving' : ship'[q].hnd = <<r, k>>}
    BY <2>2, <2>3
  <2> QED  BY <2>1, <2>4 DEF Lent
<1>15. Paired'
  <2>1. \A q \in Serving' : ship'[q].hnd \in Kinds \X Objects /\ hnd'[ship'[q].hnd] = q
    <3>1. \A q \in Serving : ship'[q].hnd \in Kinds \X Objects /\ hnd'[ship'[q].hnd] = q
      BY <1>11, <1>12 DEF Held, Paired
    <3> QED  BY <1>6, <1>8, <1>10, <1>11, <3>1
  <2>2. \A k \in Kinds \X Objects : hnd'[k] # 0 => hnd'[k] \in Serving' /\ ship'[hnd'[k]].hnd = k
    BY <1>8, <1>10, <1>11, <1>12 DEF Held, Paired
  <2>3. \A q, r \in Serving' : ship'[q].conn = ship'[r].conn => q = r
    BY <1>8, <1>10, <1>12 DEF Held, Paired
  <2> QED  BY <2>1, <2>2, <2>3 DEF Paired
<1>16. cause' = cause
  BY <1>1, <1>3 DEF Serving
<1> QED  BY <1>1, <1>7, <1>8, <1>9, <1>10, <1>13, <1>14, <1>15, <1>16 DEF Held

(* A socket that cannot be wrapped leaves its ship behind.                 *)
LEMMA UnfitHeld ==
  ASSUME Held, unfit = {}, NEW c \in Conns, \A q \in Serving : ship[q].conn # c, CannotWrap(c)
  PROVE  Held' /\ Serving' = Serving /\ Cardinality(unfit') = 1
<1> DEFINE o == Rented(ships)
<1>1. /\ o \in Objects \ Serving /\ Rent(ships).made <= Cardinality(Conns)
  BY RoomForOne
<1>2. /\ ships' = Rent(ships) /\ unfit' = {o} /\ hands' = hands /\ ship' = ship /\ hnd' = hnd
  BY DEF CannotWrap
<1>3. /\ ships' \in Stores /\ StoreOK(ships') /\ ships'.active = ships.active \cup {o}
  BY <1>2, RentStore DEF Held, HeldTypes
<1> HIDE DEF o
<1>4. Serving' = Serving
  BY <1>2 DEF Serving
<1>5. HeldTypes' /\ Lent' /\ Paired'
  BY <1>1, <1>2, <1>3, <1>4 DEF Held, HeldTypes, Lent, Paired
<1> QED  BY <1>2, <1>4, <1>5, FS_Singleton DEF Held

(* PRI * HTTP/2.0: the ship changes its handler.                           *)
LEMMA UpgradeHeld ==
  ASSUME Held, NEW o \in Serving, ship[o].hnd[1] = "h1",
         hands' = [h1 |-> Return(hands["h1"], ship[o].hnd[2]), h2 |-> Rent(hands["h2"])],
         hnd' = [hnd EXCEPT ![ship[o].hnd] = 0, ![<<"h2", Rented(hands["h2"])>>] = o],
         ship' = [ship EXCEPT ![o].hnd = <<"h2", Rented(hands["h2"])>>],
         ships' = ships, unfit' = unfit
  PROVE  /\ Held' /\ Serving' = Serving
         /\ \A q \in Objects : /\ ship'[q].conn = ship[q].conn /\ ship'[q].needEnd = ship[q].needEnd
                               /\ ship'[q].id = ship[q].id
                               /\ q # o => ship'[q] = ship[q]
<1> DEFINE n == Rented(hands["h2"])  g == <<"h2", n>>
<1>1. n \in Objects /\ Rent(hands["h2"]).made <= Cardinality(Conns)
  BY RoomForHandler
<1>2. o \in Objects /\ ship[o] \in ShipSet
  BY DEF Serving, Held, HeldTypes
<1>3. PICK p \in Kinds, m \in Objects : ship[o].hnd = <<p, m>>
  BY DEF Held, Paired
<1>4. p = "h1" /\ ship[o].hnd[2] = m /\ ship[o].hnd = <<"h1", m>>
  BY <1>3
<1>5. hands["h1"] \in Stores /\ StoreOK(hands["h1"]) /\ hands["h2"] \in Stores /\ StoreOK(hands["h2"])
  BY DEF Held, HeldTypes, Kinds
<1>6. m \in hands["h1"].active
  BY <1>2, <1>4 DEF Held, Lent, Kinds
<1>7. /\ hands'["h1"] \in Stores /\ StoreOK(hands'["h1"])
      /\ hands'["h1"].active = hands["h1"].active \ {m} /\ hands'["h1"].made = hands["h1"].made
  <2>1. hands'["h1"] = Return(hands["h1"], m)
    BY <1>4
  <2> QED  BY <1>5, <1>6, <2>1, ReturnStore
<1>8. /\ hands'["h2"] \in Stores /\ StoreOK(hands'["h2"])
      /\ hands'["h2"].active = hands["h2"].active \cup {n} /\ n \notin hands["h2"].active
      /\ hands'["h2"].made <= Cardinality(Conns)
  <2>1. hands'["h2"] = Rent(hands["h2"])
    OBVIOUS
  <2> QED  BY <1>1, <1>5, <2>1, RentStore
<1>9. hands' \in [Kinds -> Stores]
  <2>1. /\ hands' = [x \in {"h1", "h2"} |-> hands'[x]]
    OBVIOUS
  <2> QED  BY <1>7, <1>8, <2>1 DEF Kinds
<1>10. g \in Kinds \X Objects /\ g \in Kinds \X Number /\ g # ship[o].hnd
  BY <1>1, <1>4 DEF Kinds, Number
<1>11. /\ hnd' = [hnd EXCEPT ![ship[o].hnd] = 0, ![g] = o] /\ ship' = [ship EXCEPT ![o].hnd = g]
  OBVIOUS
<1> HIDE DEF n
<1>12. /\ ship'[o] = [ship[o] EXCEPT !.hnd = g]
       /\ \A q \in Objects \ {o} : ship'[q] = ship[q]
  BY <1>2, <1>11 DEF Held, HeldTypes
<1>13. /\ ship'[o] \in ShipSet /\ ship'[o].hnd = g /\ ship'[o].conn = ship[o].conn
       /\ ship'[o].needEnd = ship[o].needEnd /\ ship'[o].id = ship[o].id
  <2>1. ship'[o] = [conn |-> ship[o].conn, id |-> ship[o].id, hnd |-> g, needEnd |-> ship[o].needEnd]
    BY <1>2, <1>12 DEF ShipSet
  <2> QED  BY <1>2, <1>10, <2>1 DEF ShipSet
<1>14. ship' \in [Objects -> ShipSet]
  BY <1>11, <1>12, <1>13 DEF Held, HeldTypes
<1>15. Serving' = Serving
  BY <1>2, <1>12, <1>13 DEF Serving
<1>16. /\ hnd' \in [Kinds \X Objects -> Number] /\ hnd'[g] = o /\ hnd'[ship[o].hnd] = 0
       /\ \A k \in Kinds \X Objects : k # g /\ k # ship[o].hnd => hnd'[k] = hnd[k]
  <2>1. ship[o].hnd \in Kinds \X Objects
    BY DEF Held, Paired
  <2>2. hnd \in [Kinds \X Objects -> Number]
    BY DEF Held, HeldTypes
  <2>3. /\ hnd'[g] = o /\ hnd'[ship[o].hnd] = 0
        /\ \A k \in Kinds \X Objects : k # g /\ k # ship[o].hnd => hnd'[k] = hnd[k]
    BY <1>10, <1>11, <2>1, <2>2
  <2>4. hnd' \in [Kinds \X Objects -> Number]
    BY <1>2, <1>10, <1>11, <2>1, <2>2 DEF Number
  <2> QED  BY <2>3, <2>4
<1>17. \A q \in Serving : /\ q \in Objects
                          /\ q # o => ship'[q] = ship[q] /\ ship[q].hnd # ship[o].hnd
                          /\ ship[q].hnd # g
  <2>1. \A q \in Serving : ship[q].hnd # g
    BY <1>1, <1>8 DEF Held, Lent, Kinds
  <2> QED  BY <1>12, <2>1 DEF Serving, Held, Paired
<1>18. HeldTypes'
  <2>1. \A r \in Kinds : StoreOK(hands'[r]) /\ hands'[r].made <= Cardinality(Conns)
    BY <1>7, <1>8 DEF Held, HeldTypes, Kinds
  <2> QED  BY <1>9, <1>14, <1>16, <2>1 DEF Held, HeldTypes
<1>19. Lent'
  <2>1. ships'.active = Serving' \cup unfit' /\ Serving' \cap unfit' = {}
    BY <1>15 DEF Held, Lent
  <2>2. ASSUME NEW r \in Kinds, NEW k \in Objects
        PROVE  k \in hands'[r].active <=> \E q \in Serving' : ship'[q].hnd = <<r, k>>
    <3>1. k \in hands[r].active <=> \E q \in Serving : ship[q].hnd = <<r, k>>
      BY DEF Held, Lent
    <3>2. k \in hands'[r].active <=>
            \/ k \in hands[r].active /\ <<r, k>> # ship[o].hnd
            \/ <<r, k>> = g
      BY <1>4, <1>7, <1>8 DEF Kinds
    <3> QED  BY <1>10, <1>13, <1>15, <1>17, <3>1, <3>2
  <2>3. \A r \in Kinds : hands'[r].active \subseteq Objects
    BY <1>1, <1>7, <1>8 DEF Held, Lent, Kinds
  <2>4. ASSUME NEW r \in Kinds
        PROVE  hands'[r].active = {k \in Objects : \E q \in Serving' : ship'[q].hnd = <<r, k>>}
    BY <2>2, <2>3
  <2> QED  BY <2>1, <2>4 DEF Lent
<1>20. Paired'
  <2>1. \A q \in Serving : ship'[q].hnd \in Kinds \X Objects /\ hnd'[ship'[q].hnd] = q
    <3>1. \A q \in Serving \ {o} : ship'[q].hnd \in Kinds \X Objects /\ hnd'[ship'[q].hnd] = q
      BY <1>16, <1>17 DEF Held, Paired
    <3> QED  BY <1>10, <1>13, <1>16, <3>1
  <2>2. ASSUME NEW k \in Kinds \X Objects, hnd'[k] # 0
        PROVE  hnd'[k] \in Serving /\ ship'[hnd'[k]].hnd = k
    <3>1. CASE k = g
      BY <1>13, <1>16, <3>1
    <3>2. CASE k # g
      <4>1. k # ship[o].hnd /\ hnd'[k] = hnd[k]
        BY <1>16, <2>2, <3>2
      <4>2. hnd[k] \in Serving /\ ship[hnd[k]].hnd = k
        BY <2>2, <4>1 DEF Held, Paired
      <4> QED  BY <1>17, <4>1, <4>2
    <3> QED  BY <3>1, <3>2
  <2>3. \A q, r \in Serving : ship'[q].conn = ship'[r].conn => q = r
    BY <1>13, <1>17 DEF Held, Paired
  <2>4. /\ \A q \in Serving' : ship'[q].hnd \in Kinds \X Objects /\ hnd'[ship'[q].hnd] = q
        /\ \A q, r \in Serving' : ship'[q].conn = ship'[r].conn => q = r
    BY <1>15, <2>1, <2>3
  <2>5. \A k \in Kinds \X Objects : hnd'[k] # 0 => hnd'[k] \in Serving' /\ ship'[hnd'[k]].hnd = k
    BY <1>15, <2>2
  <2> QED  BY <2>4, <2>5 DEF Paired
<1> QED  BY <1>12, <1>13, <1>15, <1>18, <1>19, <1>20 DEF Held

-----------------------------------------------------------------------------
(* What the steps do to connections and tours.                             *)
SamePhases == \A x \in Conns : (Live(x)' <=> Live(x)) /\ (phase'[x] = "gone" <=> phase[x] = "gone")

LEMMA Served == ASSUME Held, NEW o \in Serving
                PROVE  o \in Objects /\ ship[o].conn \in Conns /\ ship[o] \in ShipSet
BY DEF Serving, Held, HeldTypes, ShipSet

(* post_close of the open ones among cs.                                   *)
LEMMA CloseSame ==
  ASSUME LivesTypes, NEW cs, Close(cs)
  PROVE  /\ phase' \in [Conns -> {"away", "open", "closing", "draining", "gone"}] /\ SamePhases
         /\ \A x \in Conns : phase'[x] = phase[x] \/ (phase[x] = "open" /\ phase'[x] = "closing")
<1>1. \A x \in Conns : /\ phase[x] \in {"away", "open", "closing", "draining", "gone"}
                       /\ phase'[x] = IF x \in cs /\ phase[x] = "open" THEN "closing" ELSE phase[x]
  BY DEF LivesTypes, Close
<1>2. phase' \in [Conns -> {"away", "open", "closing", "draining", "gone"}]
  BY <1>1 DEF Close
<1>3. ASSUME NEW x \in Conns  PROVE  phase'[x] = phase[x] \/ (phase[x] = "open" /\ phase'[x] = "closing")
  <2>1. CASE x \in cs /\ phase[x] = "open"
    BY <1>1, <2>1
  <2>2. CASE ~(x \in cs /\ phase[x] = "open")
    BY <1>1, <2>2
  <2> QED  BY <2>1, <2>2
<1>4. SamePhases
  BY <1>1, <1>3 DEF SamePhases, Live
<1> QED  BY <1>2, <1>3, <1>4

LEMMA AttendedSame ==
  ASSUME Held, LivesTypes, LivesTypes', Attended, SamePhases, unfit' = unfit, listening' => listening,
         \A o \in Objects : ship'[o].conn = ship[o].conn /\ ship'[o].needEnd = ship[o].needEnd
  PROVE  Attended'
<1>1. Serving' = Serving
  BY DEF Serving
<1>2. \A x \in Conns : phase'[x] = "away" <=> phase[x] = "away"
  BY DEF LivesTypes, SamePhases, Live
<1>3. \A o \in Serving : o \in Objects /\ ship[o].conn \in Conns
  BY Served
<1> QED  BY <1>1, <1>2, <1>3 DEF Attended, SamePhases

LEMMA TouredSame ==
  ASSUME Held, Toured, SamePhases, tour' = tour, requests' = requests,
         \A o \in Objects : ship'[o].conn = ship[o].conn
  PROVE  Toured'
<1>1. Serving' = Serving /\ \A o : ToursOf(o)' = ToursOf(o)
  BY DEF Serving, ToursOf
<1>2. \A o \in Serving : o \in Objects /\ ship[o].conn \in Conns
  BY Served
<1> QED  BY <1>1, <1>2 DEF Toured, SamePhases

(* A ship is ended whose connection is gone and whose tours are returned.  *)
LEMMA EndShipLives ==
  ASSUME Held, Lives, NEW o \in Serving, EndShip(o), unfit' = unfit, listening' = listening,
         requests' = requests, nextId' = nextId,
         phase' \in [Conns -> {"away", "open", "closing", "draining", "gone"}],
         phase'[ship[o].conn] = "gone",
         \A x \in Conns \ {ship[o].conn} : (Live(x)' <=> Live(x)) /\ (phase'[x] = "gone" <=> phase[x] = "gone"),
         tour' \in [Tours -> TourSet],
         \A t \in Tours : tour'[t] = IF tour[t].ship = o THEN NoTour ELSE tour[t]
  PROVE  Held' /\ Lives'
<1>1. /\ Held' /\ Serving' = Serving \ {o} /\ cause' = cause
      /\ ship' \in [Objects -> ShipSet] /\ ~ship'[o].needEnd
      /\ \A q \in Objects \ {o} : ship'[q] = ship[q]
  BY EndShipHeld
<1>2. \A q \in Serving \ {o} : /\ q \in Objects /\ ship[q].conn \in Conns \ {ship[o].conn}
                               /\ ship'[q] = ship[q]
  BY <1>1, Served DEF Held, Paired
<1>3. LivesTypes'
  BY <1>1 DEF Lives, LivesTypes
<1>4. \A x \in Conns \ {ship[o].conn} : phase'[x] = "away" <=> phase[x] = "away"
  BY DEF Lives, LivesTypes, Live
<1>5. Attended'
  <2>1. \A x \in Conns : Live(x)' => \E q \in Serving' : ship'[q].conn = x
    <3> SUFFICES ASSUME NEW x \in Conns, Live(x)'  PROVE  \E q \in Serving' : ship'[q].conn = x
      OBVIOUS
    <3>1. x # ship[o].conn /\ Live(x)
      BY DEF Live
    <3>2. PICK q \in Serving : ship[q].conn = x
      BY <3>1 DEF Lives, Attended
    <3> QED  BY <1>1, <1>2, <3>1, <3>2
  <2>2. \A q \in Serving' : phase'[ship'[q].conn] # "away"
    BY <1>1, <1>2, <1>4 DEF Lives, Attended
  <2>3. \A q \in Objects : ship'[q].needEnd <=> q \in Serving' /\ phase'[ship'[q].conn] = "gone"
    BY <1>1, <1>2 DEF Lives, Attended
  <2> QED  BY <2>1, <2>2, <2>3 DEF Lives, Attended
<1>6. Toured'
  <2>1. 0 \notin Objects /\ o \in Objects
    BY Sizes, Served
  <2>2. \A q \in Serving' : phase'[ship'[q].conn] = "gone" => ToursOf(q)' # {}
    <3> SUFFICES ASSUME NEW q \in Serving', phase'[ship'[q].conn] = "gone"
                 PROVE  \E t \in Tours : tour'[t].ship = q
      BY DEF ToursOf
    <3>1. q \in Serving /\ q # o /\ phase[ship[q].conn] = "gone"
      BY <1>1, <1>2
    <3>2. PICK t \in Tours : tour[t].ship = q
      BY <3>1 DEF Lives, Toured, ToursOf
    <3> QED  BY <3>1, <3>2
  <2>3. \A t \in Tours : IF tour'[t].state = "none" THEN tour'[t] = NoTour ELSE tour'[t].ship \in Serving'
    BY <1>1 DEF Lives, Toured, NoTour
  <2>4. \A t \in Tours : t > requests' => tour'[t] = NoTour
    BY DEF Lives, Toured
  <2> QED  BY <2>2, <2>3, <2>4 DEF Toured
<1> QED  BY <1>1, <1>3, <1>5, <1>6 DEF Lives

(* return_tour: the last tour of a connection that is gone ends its ship.  *)
LEMMA ReturnTourLives ==
  ASSUME Held, Lives, NEW t \in Tours, tour[t].state # "none", ReturnTour(t),
         unfit' = unfit, listening' = listening, requests' = requests, nextId' = nextId,
         phase' \in [Conns -> {"away", "open", "closing", "draining", "gone"}], SamePhases
  PROVE  /\ Held' /\ Lives' /\ cause' = cause /\ tour' = [tour EXCEPT ![t] = NoTour]
         /\ \A q \in Objects \ {tour[t].ship} : ship'[q] = ship[q]
         /\ phase[ship[tour[t].ship].conn] # "gone" => UNCHANGED <<ships, hands, ship, hnd>>
<1> DEFINE o == tour[t].ship
<1>1. o \in Serving /\ o \in Objects /\ ship[o].conn \in Conns
  BY Served DEF Lives, Toured
<1>2. tour' = [tour EXCEPT ![t] = NoTour] /\ NoTour \in TourSet
  BY DEF ReturnTour, NoTour, TourSet, Number
<1>3. /\ tour' \in [Tours -> TourSet] /\ tour'[t] = NoTour /\ \A s \in Tours \ {t} : tour'[s] = tour[s]
  BY <1>2 DEF Lives, LivesTypes
<1>4. CASE ship[o].needEnd /\ ToursOf(o) = {t}
  <2>1. EndShip(o)
    BY <1>4 DEF ReturnTour
  <2>2. phase[ship[o].conn] = "gone"
    BY <1>1, <1>4 DEF Lives, Attended
  <2>3. \A s \in Tours : tour'[s] = IF tour[s].ship = o THEN NoTour ELSE tour[s]
    BY <1>3, <1>4 DEF ToursOf
  <2> HIDE DEF o
  <2>4. Held' /\ Lives'
    BY <1>1, <1>3, <2>1, <2>2, <2>3, EndShipLives DEF SamePhases
  <2>5. cause' = cause /\ \A q \in Objects \ {o} : ship'[q] = ship[q]
    BY <1>1, <2>1, EndShipHeld
  <2> QED  BY <1>2, <2>2, <2>4, <2>5 DEF o
<1>5. CASE ~(ship[o].needEnd /\ ToursOf(o) = {t})
  <2>1. UNCHANGED <<ships, hands, ship, hnd>> /\ cause' = cause
    BY <1>5 DEF ReturnTour, pools
  <2>2. Held' /\ Serving' = Serving
    BY <2>1, HeldSame DEF Held, HeldTypes
  <2>3. LivesTypes'
    BY <1>3, <2>1 DEF Lives, LivesTypes
  <2>4. Attended'
    BY <2>1, <2>3, AttendedSame DEF Lives
  <2>5. \A q \in Serving' : phase'[ship'[q].conn] = "gone" => ToursOf(q)' # {}
    <3> SUFFICES ASSUME NEW q \in Serving, phase'[ship[q].conn] = "gone"
                 PROVE  \E s \in Tours : tour'[s].ship = q
      BY <2>1, <2>2 DEF ToursOf
    <3>1. phase[ship[q].conn] = "gone" /\ q \in Objects
      BY Served DEF SamePhases
    <3>2. ToursOf(q) # {} /\ ship[q].needEnd
      BY <3>1 DEF Lives, Toured, Attended
    <3>3. \E s \in ToursOf(q) : s # t
      <4>1. CASE q = o
        <5>1. t \in ToursOf(o)
          BY DEF ToursOf
        <5> QED  BY <1>5, <3>2, <4>1, <5>1
      <4>2. CASE q # o
        BY <3>2, <4>2 DEF ToursOf
      <4> QED  BY <4>1, <4>2
    <3> QED  BY <1>3, <3>3 DEF ToursOf
  <2>6. Toured'
    BY <1>3, <2>2, <2>5 DEF Lives, Toured, NoTour
  <2> QED  BY <1>2, <2>1, <2>2, <2>3, <2>4, <2>6 DEF Lives
<1> QED  BY <1>4, <1>5

(* The callback of a unit: it kills the agent, or returns the unit's tour. *)
LEMMA BackLives ==
  ASSUME Held, Lives, NEW c \in Conns, NEW u \in Units, tour[u.tour].state # "none", CalledBack(c, u),
         crossed \in BOOLEAN, unfit' = unfit, listening' = listening, requests' = requests, nextId' = nextId
  PROVE  /\ Held' /\ Lives' /\ SamePhases /\ crossed' \in BOOLEAN
         /\ \/ tour' = tour /\ cause' \in {"noShip", "staleShip"}
            \/ tour' = [tour EXCEPT ![u.tour] = NoTour] /\ cause' = cause
         /\ \A q \in Objects \ {tour[u.tour].ship} : ship'[q] = ship[q]
         /\ phase[ship[tour[u.tour].ship].conn] # "gone" => ship' = ship
         /\ hnd[u.via] = tour[u.tour].ship /\ ship[tour[u.tour].ship].id = u.sid
              /\ ship[tour[u.tour].ship].conn = c
            => cause' = cause /\ crossed' = crossed
<1> DEFINE s == hnd[u.via]
<1>1. u.tour \in Tours /\ u.via \in Kinds \X Objects /\ u.keep \in BOOLEAN
  BY DEF Units
<1>2. u.via[1] \in {"h1", "h2"}
  BY <1>1 DEF Kinds
<1>3. tour[u.tour].ship \in Serving /\ tour[u.tour].ship \in Objects
  BY <1>1, Served DEF Lives, Toured
<1>4. 0 \notin Objects
  BY Sizes
<1>5. ASSUME NEW why \in {"noShip", "staleShip"}, Dies(c, why), Close({})
      PROVE  /\ Held' /\ Lives' /\ SamePhases /\ tour' = tour /\ cause' = why
             /\ ship' = ship /\ crossed' = crossed
  <2>1. UNCHANGED <<ships, hands, ship, hnd, crossed>> /\ tour' = tour /\ cause' = why
    BY <1>5 DEF Dies, pools
  <2>2. Held' /\ Serving' = Serving
    BY <2>1, HeldSame DEF Held, HeldTypes
  <2>3. phase' \in [Conns -> {"away", "open", "closing", "draining", "gone"}] /\ SamePhases
    BY <1>5, CloseSame DEF Lives
  <2>4. LivesTypes'
    BY <2>1, <2>3 DEF Lives, LivesTypes
  <2>5. Attended' /\ Toured'
    BY <2>1, <2>3, <2>4, AttendedSame, TouredSame DEF Lives
  <2> QED  BY <2>1, <2>2, <2>3, <2>4, <2>5 DEF Lives
<1>6. ASSUME NEW cs, ReturnTour(u.tour), Close(cs)
      PROVE  /\ Held' /\ Lives' /\ SamePhases /\ cause' = cause
             /\ tour' = [tour EXCEPT ![u.tour] = NoTour]
             /\ \A q \in Objects \ {tour[u.tour].ship} : ship'[q] = ship[q]
             /\ phase[ship[tour[u.tour].ship].conn] # "gone" => ship' = ship
  <2>1. phase' \in [Conns -> {"away", "open", "closing", "draining", "gone"}] /\ SamePhases
    BY <1>6, CloseSame DEF Lives
  <2> QED  BY <1>1, <1>6, <2>1, ReturnTourLives
<1>7. CASE u.via[1] = "h2"
  <2>1. ReturnTour(u.tour) /\ crossed' = crossed /\ Close({})
    BY <1>7 DEF CalledBack
  <2> QED  BY <1>6, <2>1
<1>8. CASE u.via[1] = "h1" /\ s = 0
  <2>1. Dies(c, "noShip") /\ Close({})
    BY <1>8 DEF CalledBack
  <2> QED  BY <1>3, <1>4, <1>5, <1>8, <2>1
<1>9. CASE u.via[1] = "h1" /\ s # 0 /\ u.keep /\ ship[s].id # u.sid
  <2>1. Dies(c, "staleShip") /\ Close({})
    BY <1>9 DEF CalledBack
  <2> QED  BY <1>5, <1>9, <2>1
<1>10. CASE u.via[1] = "h1" /\ s # 0 /\ u.keep /\ ship[s].id = u.sid
  <2>1. ReturnTour(u.tour) /\ crossed' = crossed /\ Close({})
    BY <1>10 DEF CalledBack
  <2> QED  BY <1>6, <2>1
<1>11. CASE u.via[1] = "h1" /\ s # 0 /\ ~u.keep
  <2>1. ReturnTour(u.tour) /\ crossed' = (crossed \/ ship[s].conn # c) /\ Close({ship[s].conn})
    BY <1>11 DEF CalledBack
  <2>2. crossed' \in BOOLEAN /\ (ship[s].conn = c => crossed' = crossed)
    BY <2>1
  <2> QED  BY <1>6, <2>1, <2>2
<1> QED  BY <1>1, <1>2, <1>7, <1>8, <1>9, <1>10, <1>11

-----------------------------------------------------------------------------
(* What the steps do to the write queues and the packets.                  *)
LEMMA FirstOf ==
  ASSUME NEW S, NEW q \in Seq(S), q # <<>>, OnePerTour(q)
  PROVE  /\ Head(q) \in S /\ Head(q) \in ToSet(q) /\ Tail(q) \in Seq(S) /\ OnePerTour(Tail(q))
         /\ ToSet(Tail(q)) = ToSet(q) \ {Head(q)}
<1> DEFINE n == Len(q)
<1>1. n \in Nat /\ n > 0 /\ DOMAIN q = 1..n /\ Head(q) = q[1] /\ Head(q) \in S
  OBVIOUS
<1>2. /\ Tail(q) \in Seq(S) /\ DOMAIN Tail(q) = 1..(n - 1)
      /\ \A i \in 1..(n - 1) : Tail(q)[i] = q[i + 1]
  OBVIOUS
<1> HIDE DEF n
<1>3. 1 \in 1..n /\ (\A i \in 1..(n - 1) : i + 1 \in 1..n /\ i + 1 # 1)
      /\ \A i \in 1..n : i # 1 => i - 1 \in 1..(n - 1) /\ (i - 1) + 1 = i
  BY <1>1
<1>4. Head(q) \in ToSet(q)
  BY <1>1, <1>3 DEF ToSet
<1>5. OnePerTour(Tail(q))
  <2> SUFFICES ASSUME NEW i \in 1..(n - 1), NEW j \in 1..(n - 1), q[i + 1].tour = q[j + 1].tour
               PROVE  i = j
    BY <1>2 DEF OnePerTour
  <2>1. i + 1 = j + 1
    BY <1>1, <1>3 DEF OnePerTour
  <2> QED  BY <1>1, <2>1
<1>6. ASSUME NEW x \in ToSet(Tail(q))  PROVE  x \in ToSet(q) \ {Head(q)}
  <2>1. PICK i \in 1..(n - 1) : x = q[i + 1]
    BY <1>2, <1>6 DEF ToSet
  <2>2. x \in ToSet(q)
    BY <1>1, <1>3, <2>1 DEF ToSet
  <2>3. q[i + 1].tour # q[1].tour
    BY <1>1, <1>3 DEF OnePerTour
  <2> QED  BY <1>1, <2>1, <2>2, <2>3
<1>7. ASSUME NEW x \in ToSet(q), x # Head(q)  PROVE  x \in ToSet(Tail(q))
  <2>1. PICK i \in 1..n : x = q[i]
    BY <1>1, <1>7 DEF ToSet
  <2>2. i # 1
    BY <1>1, <1>7, <2>1
  <2>3. i - 1 \in DOMAIN Tail(q) /\ Tail(q)[i - 1] = x
    BY <1>2, <1>3, <2>1, <2>2
  <2> QED  BY <2>3 DEF ToSet
<1> QED  BY <1>1, <1>2, <1>4, <1>5, <1>6, <1>7

(* A unit ends a tour of the ship of its connection, which is there.       *)
LEMMA UnitFits ==
  ASSUME Held, Lives, Sent, NEW c \in Conns, NEW u \in ToSet(queue[c])
  PROVE  /\ u \in Units /\ u \in Queued /\ u.tour \in Tours /\ Fits(c, u)
         /\ tour[u.tour].ship \in Serving /\ tour[u.tour].ship \in Objects
         /\ ship[tour[u.tour].ship].conn = c
<1>1. u \in Units
  <2>1. queue[c] \in Seq(Units)
    BY DEF Sent, SentTypes
  <2> QED  BY <2>1 DEF ToSet
<1>2. Fits(c, u)
  BY DEF Sent
<1>3. u.tour \in Tours /\ tour[u.tour].state # "none"
  BY <1>1, <1>2 DEF Units, Fits
<1>4. tour[u.tour].ship \in Serving
  BY <1>3 DEF Lives, Toured
<1> QED  BY <1>1, <1>2, <1>3, <1>4, Served DEF Fits, Queued

LEMMA SentSame ==
  ASSUME Sent, queue' = queue, early' \subseteq Conns,
         packets' \in Stores, StoreOK(packets'), packets'.active = packets.active,
         \A x \in Conns : \A v \in ToSet(queue[x]) : Fits(x, v)'
  PROVE  Sent'
<1>1. Queued' = Queued
  BY DEF Queued
<1> QED  BY <1>1 DEF Sent, SentTypes

(* The message of a unit has been written, or dropped.                     *)
LEMMA SentDone ==
  ASSUME Held, Lives, Sent, NEW c \in Conns, queue[c] # <<>>, early' \subseteq Conns,
         packets' = Return(packets, Head(queue[c]).pkt), queue' = [queue EXCEPT ![c] = Tail(@)],
         \A x \in Conns : \A v \in ToSet(queue[x]) : v # Head(queue[c]) => Fits(x, v)'
  PROVE  Sent'
<1> DEFINE u == Head(queue[c])
<1>1. queue \in [Conns -> Seq(Units)] /\ queue[c] \in Seq(Units) /\ OnePerTour(queue[c])
  BY DEF Sent, SentTypes
<1>2. /\ u \in Units /\ u \in ToSet(queue[c]) /\ Tail(queue[c]) \in Seq(Units) /\ OnePerTour(Tail(queue[c]))
      /\ ToSet(Tail(queue[c])) = ToSet(queue[c]) \ {u}
  BY <1>1, FirstOf
<1>3. /\ queue' \in [Conns -> Seq(Units)] /\ queue'[c] = Tail(queue[c])
      /\ \A x \in Conns \ {c} : queue'[x] = queue[x]
  BY <1>1, <1>2
<1>4. u \in Queued
  BY <1>2 DEF Queued
<1>5. \A x \in Conns \ {c} : u \notin ToSet(queue[x])
  <2>1. ship[tour[u.tour].ship].conn = c
    BY <1>2, UnitFits
  <2>2. \A x \in Conns : u \in ToSet(queue[x]) => ship[tour[u.tour].ship].conn = x
    BY UnitFits
  <2> QED  BY <2>1, <2>2
<1> HIDE DEF u
<1>6. \A x \in Conns : ToSet(queue'[x]) = ToSet(queue[x]) \ {u}
  <2> SUFFICES ASSUME NEW x \in Conns  PROVE  ToSet(queue'[x]) = ToSet(queue[x]) \ {u}
    OBVIOUS
  <2>1. CASE x = c
    BY <1>2, <1>3, <2>1
  <2>2. CASE x # c
    <3>1. queue'[x] = queue[x]
      BY <1>3, <2>2
    <3> QED  BY <1>5, <2>2, <3>1
  <2> QED  BY <2>1, <2>2
<1>7. Queued' = Queued \ {u}
  <2>1. \A v : v \in Queued' <=> \E x \in Conns : v \in ToSet(queue'[x])
    BY DEF Queued
  <2>2. \A v : v \in Queued <=> \E x \in Conns : v \in ToSet(queue[x])
    BY DEF Queued
  <2>3. ASSUME NEW v  PROVE  v \in Queued' <=> v \in Queued /\ v # u
    <3>1. \A x \in Conns : v \in ToSet(queue'[x]) <=> v \in ToSet(queue[x]) /\ v # u
      BY <1>6
    <3> QED  BY <2>1, <2>2, <3>1
  <2> QED  BY <2>3
<1>8. u.pkt \in packets.active
  BY <1>4 DEF Sent
<1>9. packets' \in Stores /\ StoreOK(packets') /\ packets'.active = packets.active \ {u.pkt}
  BY <1>8, ReturnStore DEF Sent, SentTypes, u
<1>10. packets'.active = {v.pkt : v \in Queued'}
  BY <1>4, <1>7, <1>9 DEF Sent
<1>11. \A x \in Conns : OnePerTour(queue'[x]) /\ \A v \in ToSet(queue'[x]) : Fits(x, v)'
  <2>1. \A x \in Conns : OnePerTour(queue'[x])
    <3>1. \A x \in Conns \ {c} : OnePerTour(queue'[x])
      BY <1>3 DEF Sent
    <3> QED  BY <1>2, <1>3, <3>1
  <2> QED  BY <1>6, <2>1 DEF u
<1>12. \A v, w \in Queued' : v.pkt = w.pkt => v = w
  BY <1>7 DEF Sent
<1> QED  BY <1>3, <1>9, <1>10, <1>11, <1>12 DEF Sent, SentTypes

(* A message is queued whose tour has none there.                          *)
LEMMA SentPost ==
  ASSUME Held, Lives, Sent, NEW c \in Conns, NEW u \in Units, early' \subseteq Conns,
         tour[u.tour].state # "ended", u.pkt = Rented(packets),
         packets' = Rent(packets), queue' = [queue EXCEPT ![c] = Append(@, u)],
         Fits(c, u)', \A x \in Conns : \A v \in ToSet(queue[x]) : Fits(x, v)'
  PROVE  Sent'
<1>1. queue \in [Conns -> Seq(Units)] /\ queue[c] \in Seq(Units) /\ OnePerTour(queue[c])
  BY DEF Sent, SentTypes
<1>2. Append(queue[c], u) \in Seq(Units) /\ ToSet(Append(queue[c], u)) = ToSet(queue[c]) \cup {u}
  BY <1>1, AppendOf
<1>3. \A x \in Conns : \A v \in ToSet(queue[x]) : v.tour # u.tour /\ v \in Queued
  BY UnitFits DEF Fits
<1>4. OnePerTour(Append(queue[c], u))
  <2> DEFINE q == queue[c]  n == Len(q)
  <2>1. /\ n \in Nat /\ DOMAIN q = 1..n /\ DOMAIN Append(q, u) = 1..(n + 1)
        /\ Append(q, u)[n + 1] = u /\ \A i \in 1..n : Append(q, u)[i] = q[i]
    BY <1>1
  <2>2. \A i \in 1..n : q[i].tour # u.tour
    BY <1>3, <2>1 DEF ToSet
  <2>3. \A i, j \in 1..n : q[i].tour = q[j].tour => i = j
    BY <1>1, <2>1 DEF OnePerTour
  <2> HIDE DEF q, n
  <2> SUFFICES ASSUME NEW i \in 1..(n + 1), NEW j \in 1..(n + 1),
                      Append(q, u)[i].tour = Append(q, u)[j].tour
               PROVE  i = j
    BY <2>1 DEF OnePerTour, q
  <2>4. (i \in 1..n \/ i = n + 1) /\ (j \in 1..n \/ j = n + 1)
    BY <2>1
  <2> QED  BY <2>1, <2>2, <2>3, <2>4
<1>5. /\ queue' \in [Conns -> Seq(Units)] /\ queue'[c] = Append(queue[c], u)
      /\ \A x \in Conns \ {c} : queue'[x] = queue[x]
  BY <1>1, <1>2
<1>6. /\ ToSet(queue'[c]) = ToSet(queue[c]) \cup {u}
      /\ \A x \in Conns \ {c} : ToSet(queue'[x]) = ToSet(queue[x])
  BY <1>2, <1>5
<1>7. Queued' = Queued \cup {u}
  BY <1>6 DEF Queued
<1>8. /\ packets' \in Stores /\ StoreOK(packets') /\ packets'.active = packets.active \cup {u.pkt}
      /\ u.pkt \notin packets.active
  BY RentStore DEF Sent, SentTypes
<1>9. packets'.active = {v.pkt : v \in Queued'}
  BY <1>7, <1>8 DEF Sent
<1>10. \A v, w \in Queued' : v.pkt = w.pkt => v = w
  BY <1>7, <1>8 DEF Sent
<1>11. \A x \in Conns : OnePerTour(queue'[x]) /\ \A v \in ToSet(queue'[x]) : Fits(x, v)'
  <2>1. \A x \in Conns \ {c} : OnePerTour(queue'[x]) /\ \A v \in ToSet(queue'[x]) : Fits(x, v)'
    BY <1>5, <1>6 DEF Sent
  <2>2. OnePerTour(queue'[c]) /\ \A v \in ToSet(queue'[c]) : Fits(c, v)'
    BY <1>4, <1>5, <1>6
  <2> QED  BY <2>1, <2>2
<1> QED  BY <1>5, <1>8, <1>9, <1>10, <1>11 DEF Sent, SentTypes

(* A unit goes on to fit when its tour and its ship are left alone.        *)
LEMMA FitsKept ==
  ASSUME Held, Lives, Sent, NEW x \in Conns, NEW v \in ToSet(queue[x]), Live(x)', early \subseteq early',
         tour'[v.tour] = tour[v.tour], ship'[tour[v.tour].ship] = ship[tour[v.tour].ship]
  PROVE  Fits(x, v)'
BY UnitFits DEF Fits

LEMMA PacketsTyped == ASSUME Sent  PROVE packets \in Stores /\ StoreOK(packets) /\ early \subseteq Conns
BY DEF Sent, SentTypes

(* The ship of a connection that is there.                                 *)
LEMMA ShipOfServes ==
  ASSUME Held, Lives, NEW c \in Conns, Live(c)
  PROVE  /\ ShipOf(c) \in Serving /\ ShipOf(c) \in Objects /\ ship[ShipOf(c)].conn = c
         /\ ~ship[ShipOf(c)].needEnd
         /\ \A q \in Serving : ship[q].conn = c => q = ShipOf(c)
<1>1. \E o \in Objects : ship[o].conn = c
  BY Served DEF Lives, Attended
<1>2. ShipOf(c) \in Objects /\ ship[ShipOf(c)].conn = c
  BY <1>1 DEF ShipOf
<1>3. ShipOf(c) \in Serving
  BY <1>2, Sizes DEF Serving
<1>4. \A q \in Serving : ship[q].conn = c => q = ShipOf(c)
  BY <1>2, <1>3 DEF Held, Paired
<1>5. ~ship[ShipOf(c)].needEnd
  BY <1>2 DEF Lives, Attended, Live
<1> QED  BY <1>2, <1>3, <1>4, <1>5

-----------------------------------------------------------------------------
(* The initial state, and one step after the other.                        *)
LEMMA PoolsInit == ASSUME Init  PROVE PoolsInv
<1>1. \A o \in Objects : ship[o] = NoShip
  BY DEF Init
<1>2. Serving = {}
  BY <1>1 DEF Serving, NoShip
<1>3. NoShip \in ShipSet /\ NoTour \in TourSet /\ 0 \in Number
  BY DEF NoShip, NoTour, ShipSet, TourSet, Kinds, Number
<1>4. HeldTypes
  <2>1. 0 <= Cardinality(Conns)
    BY Sizes
  <2> QED  BY <1>3, <2>1, EmptyStore DEF Init, HeldTypes, Kinds
<1>5. Lent
  <2>1. \A p \in Kinds : hands[p].active = {}
    BY EmptyStore DEF Init, Kinds
  <2> QED  BY <1>2, <2>1, EmptyStore DEF Init, Lent
<1>6. Paired
  BY <1>2 DEF Init, Paired, Kinds
<1>7. LivesTypes
  BY <1>3, Sizes DEF Init, LivesTypes
<1>8. Attended
  <2>1. Cardinality({}) <= 1
    BY FS_EmptySet
  <2> QED  BY <1>1, <1>2, <2>1 DEF Init, Attended, Live, NoShip
<1>9. Toured
  BY <1>2 DEF Init, Toured, NoTour
<1>10. \A c \in Conns : queue[c] = <<>>
  BY DEF Init
<1>11. ToSet(<<>>) = {} /\ OnePerTour(<<>>)
  BY DEF ToSet, OnePerTour
<1>12. Queued = {}
  BY <1>10, <1>11 DEF Queued
<1>13. SentTypes
  BY EmptyStore DEF Init, SentTypes
<1>14. Sent
  BY <1>10, <1>11, <1>12, <1>13, EmptyStore DEF Init, Sent
<1>15. Crossings
  BY DEF Init, Crossings
<1> QED  BY <1>4, <1>5, <1>6, <1>7, <1>8, <1>9, <1>14, <1>15 DEF PoolsInv, Held, Lives

(* A socket that came and went: no ship is its own.                        *)
LEMMA AwayGone ==
  ASSUME Held, Lives, Sent, NEW c \in Conns, phase[c] = "away", phase' = [phase EXCEPT ![c] = "gone"],
         ship' = ship, tour' = tour, requests' = requests, nextId' = nextId, cause' = cause,
         listening' = FALSE, Cardinality(unfit') <= 1,
         queue' = queue, packets' = packets, early' = early
  PROVE  Lives' /\ Sent'
<1>1. phase \in [Conns -> {"away", "open", "closing", "draining", "gone"}]
  BY DEF Lives, LivesTypes
<1>2. /\ phase' \in [Conns -> {"away", "open", "closing", "draining", "gone"}] /\ phase'[c] = "gone"
      /\ \A x \in Conns \ {c} : phase'[x] = phase[x]
  BY <1>1
<1>3. \A q \in Serving : q \in Objects /\ ship[q].conn \in Conns \ {c}
  BY Served DEF Lives, Attended
<1>4. Serving' = Serving /\ \A q : ToursOf(q)' = ToursOf(q)
  BY DEF Serving, ToursOf
<1>5. \A x \in Conns : Live(x)' <=> Live(x)
  BY <1>2 DEF Live
<1>6. LivesTypes'
  BY <1>2 DEF Lives, LivesTypes
<1>7. Attended'
  BY <1>2, <1>3, <1>4, <1>5 DEF Lives, Attended
<1>8. Toured'
  BY <1>2, <1>3, <1>4 DEF Lives, Toured
<1>9. \A x \in Conns : \A v \in ToSet(queue[x]) : Fits(x, v)'
  <2> SUFFICES ASSUME NEW x \in Conns, NEW v \in ToSet(queue[x])  PROVE  Fits(x, v)'
    OBVIOUS
  <2>1. Live(x)'
    BY <1>5, UnitFits DEF Fits
  <2> QED  BY <2>1, FitsKept
<1>10. Sent'
  BY <1>9, PacketsTyped, SentSame
<1> QED  BY <1>6, <1>7, <1>8, <1>10 DEF Lives

LEMMA RefuseSocketKeeps ==
  ASSUME PoolsInv, NEW c \in Conns, RefuseSocket(c)  PROVE PoolsInv'
<1>1. /\ phase[c] = "away" /\ phase' = [phase EXCEPT ![c] = "gone"] /\ listening' = FALSE
      /\ UNCHANGED <<ships, hands, ship, hnd, cause, queue, packets, nextId, tour, requests, early, unfit, crossed>>
  BY DEF RefuseSocket, pools, history
<1>2. Held'
  BY <1>1, HeldSame DEF PoolsInv, Held, HeldTypes
<1>3. Lives' /\ Sent'
  <2>1. Cardinality(unfit') <= 1
    BY <1>1 DEF PoolsInv, Lives, Attended
  <2> QED  BY <1>1, <2>1, AwayGone DEF PoolsInv
<1> QED  BY <1>1, <1>2, <1>3 DEF PoolsInv, Crossings

LEMMA CannotWrapKeeps ==
  ASSUME PoolsInv, NEW c \in Conns, CannotWrap(c)  PROVE PoolsInv'
<1>1. /\ phase[c] = "away" /\ phase' = [phase EXCEPT ![c] = "gone"] /\ listening /\ listening' = FALSE
      /\ UNCHANGED <<ship, cause, queue, packets, nextId, tour, requests, early, crossed>>
  BY DEF CannotWrap
<1>2. unfit = {} /\ \A q \in Serving : ship[q].conn # c
  BY <1>1 DEF PoolsInv, Lives, Attended
<1>3. Held' /\ Cardinality(unfit') = 1
  BY <1>2, UnfitHeld DEF PoolsInv
<1>4. Lives' /\ Sent'
  <2>1. Cardinality(unfit') <= 1
    BY <1>3
  <2> QED  BY <1>1, <2>1, AwayGone DEF PoolsInv
<1> QED  BY <1>1, <1>3, <1>4 DEF PoolsInv, Crossings

LEMMA OnConnectedKeeps ==
  ASSUME PoolsInv, NEW c \in Conns, OnConnected(c)  PROVE PoolsInv'
<1>1. /\ phase[c] = "away" /\ phase' = [phase EXCEPT ![c] = "open"] /\ listening /\ nextId' = nextId + 1
      /\ UNCHANGED <<listening, queue, packets, tour, requests, early, unfit, crossed>>
  BY DEF OnConnected, history
<1>2. /\ unfit = {} /\ nextId \in Nat
      /\ \A q \in Serving : q \in Objects /\ ship[q].conn \in Conns \ {c}
  BY <1>1, Served DEF PoolsInv, Lives, LivesTypes, Attended
<1>3. /\ Held' /\ cause' = cause /\ ship' \in [Objects -> ShipSet]
      /\ \E o \in Objects \ Serving :
           /\ Serving' = Serving \cup {o} /\ ship'[o].conn = c
           /\ ship'[o].needEnd = ship[o].needEnd
           /\ \A q \in Objects \ {o} : ship'[q] = ship[q]
  BY <1>2, AcceptHeld DEF PoolsInv
<1>4. PICK o \in Objects \ Serving :
           /\ Serving' = Serving \cup {o} /\ ship'[o].conn = c
           /\ ship'[o].needEnd = ship[o].needEnd
           /\ \A q \in Objects \ {o} : ship'[q] = ship[q]
  BY <1>3
<1>5. \A q \in Serving : q \in Objects /\ ship'[q] = ship[q] /\ q # o
  BY <1>2, <1>4
<1>6. /\ phase' \in [Conns -> {"away", "open", "closing", "draining", "gone"}] /\ phase'[c] = "open"
      /\ \A x \in Conns \ {c} : phase'[x] = phase[x]
  BY <1>1 DEF PoolsInv, Lives, LivesTypes
<1>7. LivesTypes'
  BY <1>1, <1>2, <1>3, <1>6 DEF PoolsInv, Lives, LivesTypes
<1>8. Attended'
  <2>1. \A x \in Conns : Live(x)' => \E q \in Serving' : ship'[q].conn = x
    <3> SUFFICES ASSUME NEW x \in Conns, Live(x)'  PROVE  \E q \in Serving' : ship'[q].conn = x
      OBVIOUS
    <3>1. CASE x = c
      BY <1>4, <3>1
    <3>2. CASE x # c
      <4>1. Live(x)
        BY <1>6, <3>2 DEF Live
      <4>2. PICK q \in Serving : ship[q].conn = x
        BY <4>1 DEF PoolsInv, Lives, Attended
      <4> QED  BY <1>4, <1>5, <4>2
    <3> QED  BY <3>1, <3>2
  <2>2. \A q \in Serving' : phase'[ship'[q].conn] # "away"
    BY <1>2, <1>4, <1>5, <1>6 DEF PoolsInv, Lives, Attended
  <2>3. \A q \in Objects : ship'[q].needEnd <=> q \in Serving' /\ phase'[ship'[q].conn] = "gone"
    <3>1. ~ship'[o].needEnd
      BY <1>4 DEF PoolsInv, Lives, Attended
    <3>2. \A q \in Objects \ {o} : ship'[q].needEnd <=> q \in Serving /\ phase'[ship[q].conn] = "gone"
      BY <1>2, <1>4, <1>6 DEF PoolsInv, Lives, Attended
    <3> QED  BY <1>4, <1>6, <3>1, <3>2
  <2> QED  BY <1>1, <1>2, <2>1, <2>2, <2>3 DEF PoolsInv, Lives, Attended
<1>9. Toured'
  <2>1. \A q : ToursOf(q)' = ToursOf(q)
    BY <1>1 DEF ToursOf
  <2>2. \A q \in Serving' : phase'[ship'[q].conn] = "gone" => ToursOf(q)' # {}
    BY <1>2, <1>4, <1>5, <1>6, <2>1 DEF PoolsInv, Lives, Toured
  <2> QED  BY <1>1, <1>4, <2>2 DEF PoolsInv, Lives, Toured
<1>10. \A x \in Conns : \A v \in ToSet(queue[x]) : Fits(x, v)'
  <2> SUFFICES ASSUME NEW x \in Conns, NEW v \in ToSet(queue[x])  PROVE  Fits(x, v)'
    OBVIOUS
  <2>1. Live(x)'
    BY <1>6, UnitFits DEF PoolsInv, Fits, Live
  <2>2. ship'[tour[v.tour].ship] = ship[tour[v.tour].ship]
    BY <1>5, UnitFits DEF PoolsInv
  <2> QED  BY <1>1, <2>1, <2>2, FitsKept DEF PoolsInv
<1>11. Sent'
  BY <1>1, <1>10, PacketsTyped, SentSame DEF PoolsInv
<1> QED  BY <1>1, <1>3, <1>7, <1>8, <1>9, <1>11 DEF PoolsInv, Lives, Crossings

(* A step that touches one tour only, which no unit ends and which belongs *)
(* to a ship before and after.                                             *)
LEMMA OneTourKeeps ==
  ASSUME PoolsInv, UNCHANGED <<cause, listening, phase, queue, ships, hands, ship, hnd, packets, nextId,
                               early, unfit, crossed>>,
         NEW t \in Tours, NEW w \in TourSet, tour' = [tour EXCEPT ![t] = w],
         tour[t].state # "ended", w.state # "none", w.ship \in Serving,
         tour[t].state # "none" => w.ship = tour[t].ship,
         requests' \in 0..MaxRequests, requests <= requests', t <= requests'
  PROVE  PoolsInv'
<1>1. Held' /\ Serving' = Serving
  BY HeldSame DEF PoolsInv, Held, HeldTypes
<1>2. /\ tour' \in [Tours -> TourSet] /\ tour'[t] = w /\ \A s \in Tours \ {t} : tour'[s] = tour[s]
  BY DEF PoolsInv, Lives, LivesTypes
<1>3. LivesTypes'
  BY <1>2 DEF PoolsInv, Lives, LivesTypes
<1>4. SamePhases
  BY DEF SamePhases, Live
<1>5. Attended'
  BY <1>3, <1>4, AttendedSame DEF PoolsInv, Lives
<1>6. Toured'
  <2>1. \A q \in Serving : ToursOf(q) # {} => ToursOf(q)' # {}
    <3> SUFFICES ASSUME NEW q \in Serving, NEW s \in Tours, tour[s].ship = q
                 PROVE  \E r \in Tours : tour'[r].ship = q
      BY DEF ToursOf
    <3>1. q # 0
      BY Served, Sizes DEF PoolsInv
    <3>2. CASE s = t
      <4>1. tour[t].state # "none"
        BY <3>1, <3>2 DEF PoolsInv, Lives, Toured, NoTour
      <4> QED  BY <1>2, <3>2, <4>1
    <3>3. CASE s # t
      BY <1>2, <3>3
    <3> QED  BY <3>2, <3>3
  <2>2. \A s \in Tours : IF tour'[s].state = "none" THEN tour'[s] = NoTour ELSE tour'[s].ship \in Serving'
    BY <1>1, <1>2 DEF PoolsInv, Lives, Toured
  <2>3. \A s \in Tours : s > requests' => tour'[s] = NoTour
    <3>1. requests \in Nat /\ requests' \in Nat /\ Tours \subseteq Nat
      BY Sizes DEF PoolsInv, Lives, LivesTypes, Tours
    <3> QED  BY <1>2, <3>1 DEF PoolsInv, Lives, Toured
  <2> QED  BY <1>1, <2>1, <2>2, <2>3 DEF PoolsInv, Lives, Toured
<1>7. \A x \in Conns : \A v \in ToSet(queue[x]) : Fits(x, v)'
  <2> SUFFICES ASSUME NEW x \in Conns, NEW v \in ToSet(queue[x])  PROVE  Fits(x, v)'
    OBVIOUS
  <2>1. Fits(x, v) /\ v.tour \in Tours
    BY UnitFits DEF PoolsInv
  <2>2. tour'[v.tour] = tour[v.tour]
    BY <1>2, <2>1 DEF Fits
  <2> QED  BY <2>1, <2>2, FitsKept DEF PoolsInv, Fits, Live
<1>8. Sent'
  BY <1>7, PacketsTyped, SentSame DEF PoolsInv
<1> QED  BY <1>1, <1>3, <1>5, <1>6, <1>8 DEF PoolsInv, Lives, Crossings

LEMMA StartsKeeps ==
  ASSUME PoolsInv, NEW c \in Conns, NEW s \in {"running", "reading"}, Starts(c, s)  PROVE PoolsInv'
<1>1. /\ Live(c) /\ requests < MaxRequests /\ requests' = requests + 1
      /\ tour' = [tour EXCEPT ![requests + 1] = [ship |-> ShipOf(c), state |-> s]]
      /\ UNCHANGED <<cause, listening, phase, queue, ships, hands, ship, hnd, packets, nextId, early, unfit, crossed>>
  BY DEF Starts, Reads, Live, pools, history
<1>2. ShipOf(c) \in Serving /\ ShipOf(c) \in Objects
  BY <1>1, ShipOfServes DEF PoolsInv
<1> DEFINE t == requests + 1  w == [ship |-> ShipOf(c), state |-> s]
<1>3. w \in TourSet /\ w.ship \in Serving /\ w.state # "none"
  BY <1>2 DEF TourSet, Number
<1>4. /\ t \in Tours /\ t > requests /\ t <= requests' /\ requests <= requests' /\ requests' \in 0..MaxRequests
  BY <1>1, Sizes DEF PoolsInv, Lives, LivesTypes, Tours
<1>5. tour[t].state = "none"
  BY <1>4 DEF PoolsInv, Lives, Toured, NoTour
<1> HIDE DEF t, w
<1>6. tour' = [tour EXCEPT ![t] = w]
  BY <1>1 DEF t, w
<1> QED  BY <1>1, <1>3, <1>4, <1>5, <1>6, OneTourKeeps

LEMMA HandleContentKeeps ==
  ASSUME PoolsInv, NEW c \in Conns, HandleContent(c)  PROVE PoolsInv'
<1>1. PICK t \in ToursOf(ShipOf(c)) : tour[t].state = "reading" /\ tour' = [tour EXCEPT ![t].state = "running"]
  BY DEF HandleContent
<1>2. UNCHANGED <<cause, listening, phase, queue, ships, hands, ship, hnd, packets, nextId, requests, early, unfit, crossed>>
  BY DEF HandleContent, pools, history
<1> DEFINE w == [tour[t] EXCEPT !.state = "running"]
<1>3. t \in Tours /\ tour \in [Tours -> TourSet] /\ tour[t] \in TourSet
  BY DEF ToursOf, PoolsInv, Lives, LivesTypes
<1>4. w \in TourSet /\ w.ship = tour[t].ship /\ w.state = "running" /\ w.ship \in Serving
  BY <1>1, <1>3 DEF TourSet, PoolsInv, Lives, Toured
<1>5. t <= requests /\ requests \in 0..MaxRequests
  <2>1. t \in Nat /\ requests \in Nat
    BY <1>3, Sizes DEF Tours, PoolsInv, Lives, LivesTypes
  <2> QED  BY <1>1, <1>3, <2>1 DEF PoolsInv, Lives, LivesTypes, Toured, NoTour
<1>6. tour' = [tour EXCEPT ![t] = w]
  BY <1>1, <1>3
<1> HIDE DEF w
<1>7. requests <= requests'
  BY <1>2, <1>5
<1> QED  BY <1>1, <1>2, <1>3, <1>4, <1>5, <1>6, <1>7, OneTourKeeps

LEMMA UpgradeKeeps ==
  ASSUME PoolsInv, NEW c \in Conns, NEW whole \in BOOLEAN, phase[c] = "open", Upgrade(c, whole)
  PROVE  PoolsInv'
<1> DEFINE o == ShipOf(c)
<1>1. /\ o \in Serving /\ o \in Objects /\ ship[o].conn = c
      /\ \A q \in Serving : ship[q].conn = c => q = o
  BY ShipOfServes DEF PoolsInv, Live
<1>2. /\ hands' = [h1 |-> Return(hands["h1"], ship[o].hnd[2]), h2 |-> Rent(hands["h2"])]
      /\ hnd' = [hnd EXCEPT ![ship[o].hnd] = 0, ![<<"h2", Rented(hands["h2"])>>] = o]
      /\ ship' = [ship EXCEPT ![o].hnd = <<"h2", Rented(hands["h2"])>>]
      /\ ship[o].hnd[1] = "h1"
  BY DEF Upgrade, Speaks
<1>3. /\ early' = IF ToursOf(o) = {} THEN early ELSE early \cup {c}
      /\ cause' = IF whole THEN cause ELSE "secondRead"
      /\ UNCHANGED <<listening, phase, queue, ships, packets, nextId, tour, requests, unfit, crossed>>
  BY DEF Upgrade
<1> HIDE DEF o
<1>4. /\ Held' /\ Serving' = Serving
      /\ \A q \in Objects : /\ ship'[q].conn = ship[q].conn /\ ship'[q].needEnd = ship[q].needEnd
                            /\ ship'[q].id = ship[q].id
                            /\ q # o => ship'[q] = ship[q]
  BY <1>1, <1>2, <1>3, UpgradeHeld DEF PoolsInv
<1>5. SamePhases
  BY <1>3 DEF SamePhases, Live
<1>6. LivesTypes'
  BY <1>3 DEF PoolsInv, Lives, LivesTypes
<1>7. Attended' /\ Toured'
  BY <1>3, <1>4, <1>5, <1>6, AttendedSame, TouredSame DEF PoolsInv, Lives
<1>8. early \subseteq early' /\ early' \subseteq Conns
  BY <1>3, PacketsTyped DEF PoolsInv
<1>9. \A x \in Conns : \A v \in ToSet(queue[x]) : Fits(x, v)'
  <2> SUFFICES ASSUME NEW x \in Conns, NEW v \in ToSet(queue[x])  PROVE  Fits(x, v)'
    OBVIOUS
  <2>1. /\ Fits(x, v) /\ v.tour \in Tours /\ tour[v.tour].ship \in Objects
        /\ ship[tour[v.tour].ship].conn = x /\ tour[v.tour].ship \in Serving
    BY UnitFits DEF PoolsInv
  <2>2. CASE x = c
    <3>1. tour[v.tour].ship = o
      BY <1>1, <2>1, <2>2
    <3>2. v.tour \in ToursOf(o)
      BY <2>1, <3>1 DEF ToursOf
    <3>3. c \in early'
      BY <1>3, <3>2
    <3> QED  BY <1>3, <1>4, <2>1, <2>2, <3>3 DEF Fits, Live
  <2>3. CASE x # c
    <3>1. ship'[tour[v.tour].ship] = ship[tour[v.tour].ship]
      BY <1>1, <1>4, <2>1, <2>3
    <3> QED  BY <1>3, <1>8, <2>1, <3>1, FitsKept DEF PoolsInv, Fits, Live
  <2> QED  BY <2>2, <2>3
<1>10. Sent'
  BY <1>3, <1>8, <1>9, PacketsTyped, SentSame DEF PoolsInv
<1>11. Crossings'
  BY <1>3, <1>8 DEF PoolsInv, Crossings
<1> QED  BY <1>4, <1>6, <1>7, <1>10, <1>11 DEF PoolsInv, Lives

(* A callback that finds the connection of its unit, or one of a           *)
(* connection that changed protocol early: the units it leaves fit.        *)
LEMMA CalledBackKeeps ==
  ASSUME PoolsInv, NEW c \in Conns, NEW u \in Units, tour[u.tour].state # "none", CalledBack(c, u),
         UNCHANGED <<listening, nextId, requests, early, unfit>>,
         ship[tour[u.tour].ship].conn = c,
         c \notin early => u.via = ship[tour[u.tour].ship].hnd /\ u.sid = ship[tour[u.tour].ship].id
  PROVE  /\ Held' /\ Lives' /\ Crossings'
         /\ \A x \in Conns : \A v \in ToSet(queue[x]) : v.tour # u.tour => Fits(x, v)'
<1> DEFINE o == tour[u.tour].ship
<1>1. u.tour \in Tours /\ o \in Serving /\ o \in Objects
  <2>1. u.tour \in Tours
    BY DEF Units
  <2> QED  BY <2>1, Served DEF PoolsInv, Lives, Toured
<1>2. /\ Held' /\ Lives' /\ SamePhases /\ crossed' \in BOOLEAN
      /\ \/ tour' = tour /\ cause' \in {"noShip", "staleShip"}
         \/ tour' = [tour EXCEPT ![u.tour] = NoTour] /\ cause' = cause
      /\ \A q \in Objects \ {o} : ship'[q] = ship[q]
      /\ phase[ship[o].conn] # "gone" => ship' = ship
      /\ hnd[u.via] = o /\ ship[o].id = u.sid /\ ship[o].conn = c => cause' = cause /\ crossed' = crossed
  BY BackLives DEF PoolsInv, Crossings
<1>3. \A s \in Tours : s # u.tour => tour'[s] = tour[s]
  BY <1>1, <1>2 DEF PoolsInv, Lives, LivesTypes
<1>4. Crossings'
  <2>1. CASE c \in early
    BY <1>2, <2>1 DEF Crossings
  <2>2. CASE c \notin early
    <3>1. hnd[u.via] = o
      BY <1>1, <2>2 DEF PoolsInv, Held, Paired
    <3> QED  BY <1>2, <2>2, <3>1 DEF PoolsInv, Crossings
  <2> QED  BY <2>1, <2>2
<1>5. ASSUME NEW x \in Conns, NEW v \in ToSet(queue[x]), v.tour # u.tour  PROVE  Fits(x, v)'
  <2>1. /\ Fits(x, v) /\ v.tour \in Tours /\ tour[v.tour].ship \in Objects
        /\ ship[tour[v.tour].ship].conn = x
    BY UnitFits DEF PoolsInv
  <2>2. Live(x)' /\ phase[x] # "gone"
    BY <1>2, <2>1 DEF Fits, SamePhases, Live
  <2>3. ship'[tour[v.tour].ship] = ship[tour[v.tour].ship]
    <3>1. CASE tour[v.tour].ship = o
      BY <1>2, <2>1, <2>2, <3>1
    <3>2. CASE tour[v.tour].ship # o
      BY <1>2, <2>1, <3>2
    <3> QED  BY <3>1, <3>2
  <2>4. tour'[v.tour] = tour[v.tour]
    BY <1>3, <1>5, <2>1
  <2> QED  BY <2>2, <2>3, <2>4, FitsKept DEF PoolsInv
<1> QED  BY <1>2, <1>4, <1>5

LEMMA PostKeeps ==
  ASSUME PoolsInv, NEW t \in Tours, NEW keep \in BOOLEAN, Post(t, keep)  PROVE PoolsInv'
<1>1. tour[t].state = "running" /\ UNCHANGED <<listening, nextId, requests, early, unfit>>
  BY DEF Post
<1>7. PICK o \in Objects : o = tour[t].ship /\ o \in Serving
  BY <1>1, Served DEF PoolsInv, Lives, Toured
<1>8. PICK c \in Conns : c = ship[o].conn
  BY <1>7, Served DEF PoolsInv
<1>2. o \in Serving /\ o \in Objects /\ ship[o].conn = c /\ ship[o] \in ShipSet /\ tour[t].ship = o
  BY <1>7, <1>8, Served DEF PoolsInv
<1>3. /\ Rented(packets) \in Nat /\ Rented(packets) \in Rent(packets).active
      /\ Rented(packets) \notin packets.active
      /\ Rent(packets) \in Stores /\ StoreOK(Rent(packets))
      /\ Rent(packets).active = packets.active \cup {Rented(packets)}
  BY PacketsTyped, RentStore DEF PoolsInv
<1>9. PICK u \in Units : u = Unit(t, keep)
  <2>1. ship[o].hnd \in Kinds \X Objects /\ ship[o].id \in Nat
    BY <1>2 DEF PoolsInv, Held, Paired, ShipSet
  <2> QED  BY <1>2, <1>3, <2>1 DEF Unit, Units
<1>4. /\ u.tour = t /\ u.pkt = Rented(packets) /\ u.via = ship[o].hnd /\ u.sid = ship[o].id
  BY <1>2, <1>9 DEF Unit
<1>5. CASE /\ phase[c] \in {"open", "closing"}
           /\ packets' = Rent(packets)
           /\ queue' = [queue EXCEPT ![c] = Append(@, u)]
           /\ tour' = [tour EXCEPT ![t].state = "ended"]
           /\ UNCHANGED <<cause, phase, reading, pools, crossed>>
  <2>1. /\ packets' = Rent(packets) /\ queue' = [queue EXCEPT ![c] = Append(@, u)]
        /\ UNCHANGED <<cause, phase, ships, hands, ship, hnd, crossed>> /\ Live(c)
    BY <1>5 DEF pools, Live
  <2> DEFINE w == [tour[t] EXCEPT !.state = "ended"]
  <2>2. tour[t] \in TourSet /\ tour' = [tour EXCEPT ![t] = w] /\ tour \in [Tours -> TourSet]
    BY <1>5 DEF PoolsInv, Lives, LivesTypes
  <2>3. w \in TourSet /\ w.state = "ended" /\ w.ship = o
    BY <1>2, <2>2 DEF TourSet
  <2> HIDE DEF w
  <2>4. /\ tour' \in [Tours -> TourSet] /\ tour'[t] = w /\ \A s \in Tours \ {t} : tour'[s] = tour[s]
    BY <2>2, <2>3
  <2>5. Held' /\ Serving' = Serving
    BY <1>1, <2>1, HeldSame DEF PoolsInv, Held, HeldTypes
  <2>6. SamePhases
    BY <2>1 DEF SamePhases, Live
  <2>7. LivesTypes'
    BY <1>1, <2>1, <2>4 DEF PoolsInv, Lives, LivesTypes
  <2>8. Attended'
    BY <1>1, <2>1, <2>6, <2>7, AttendedSame DEF PoolsInv, Lives
  <2>9. Toured'
    <3>1. \A s \in Tours : tour'[s].ship = tour[s].ship
      BY <1>2, <2>3, <2>4
    <3>2. \A q : ToursOf(q)' = ToursOf(q)
      BY <3>1 DEF ToursOf
    <3>3. \A s \in Tours : s > requests => tour'[s] = NoTour
      <4>1. ~(t > requests)
        BY <1>1 DEF PoolsInv, Lives, Toured, NoTour
      <4> QED  BY <2>4, <4>1 DEF PoolsInv, Lives, Toured
    <3>4. \A s \in Tours : IF tour'[s].state = "none" THEN tour'[s] = NoTour ELSE tour'[s].ship \in Serving
      BY <1>2, <2>3, <2>4 DEF PoolsInv, Lives, Toured
    <3> QED  BY <1>1, <2>1, <2>5, <3>2, <3>3, <3>4 DEF PoolsInv, Lives, Toured
  <2>10. \A x \in Conns : \A v \in ToSet(queue[x]) : Fits(x, v)'
    <3> SUFFICES ASSUME NEW x \in Conns, NEW v \in ToSet(queue[x])  PROVE  Fits(x, v)'
      OBVIOUS
    <3>1. Fits(x, v) /\ v.tour \in Tours
      BY UnitFits DEF PoolsInv
    <3>2. tour'[v.tour] = tour[v.tour]
      BY <1>1, <2>4, <3>1 DEF Fits
    <3> QED  BY <1>1, <2>1, <3>1, <3>2, FitsKept DEF PoolsInv, Fits, Live
  <2>11. Fits(c, u)'
    BY <1>2, <1>4, <2>1, <2>3, <2>4 DEF Fits, Live
  <2>12. Sent'
    BY <1>1, <1>2, <1>4, <2>1, <2>10, <2>11, PacketsTyped, SentPost DEF PoolsInv
  <2> QED  BY <1>1, <2>1, <2>5, <2>7, <2>8, <2>9, <2>12 DEF PoolsInv, Lives, Crossings
<1>6. CASE /\ phase[c] = "gone"
           /\ packets' = Return(Rent(packets), Rented(packets))
           /\ CalledBack(c, u)
           /\ UNCHANGED queue
  <2>1. packets' \in Stores /\ StoreOK(packets') /\ packets'.active = packets.active
    <3> DEFINE s == Rent(packets)
    <3>1. s \in Stores /\ StoreOK(s) /\ Rented(packets) \in s.active
      BY <1>3
    <3> HIDE DEF s
    <3>2. /\ Return(s, Rented(packets)) \in Stores /\ StoreOK(Return(s, Rented(packets)))
          /\ Return(s, Rented(packets)).active = s.active \ {Rented(packets)}
      BY <3>1, ReturnStore
    <3> QED  BY <1>3, <1>6, <3>2 DEF s
  <2>2. /\ Held' /\ Lives' /\ Crossings'
        /\ \A x \in Conns : \A v \in ToSet(queue[x]) : v.tour # u.tour => Fits(x, v)'
    BY <1>1, <1>2, <1>4, <1>6, CalledBackKeeps
  <2>3. \A x \in Conns : \A v \in ToSet(queue[x]) : v.tour # u.tour
    BY <1>1, <1>4, UnitFits DEF PoolsInv, Fits
  <2>4. Sent'
    BY <1>1, <1>6, <2>1, <2>2, <2>3, PacketsTyped, SentSame DEF PoolsInv
  <2> QED  BY <2>2, <2>4 DEF PoolsInv
<1> QED  BY <1>2, <1>5, <1>6, <1>9, Zenon DEF Post

LEMMA DoneKeeps ==
  ASSUME PoolsInv, NEW c \in Conns, Done(c)  PROVE PoolsInv'
<1> DEFINE u == Head(queue[c])  o == tour[u.tour].ship
<1>1. /\ queue[c] # <<>> /\ packets' = Return(packets, u.pkt) /\ queue' = [queue EXCEPT ![c] = Tail(@)]
      /\ CalledBack(c, u) /\ UNCHANGED <<listening, nextId, requests, early, unfit>>
  BY DEF Done
<1>2. u \in ToSet(queue[c])
  <2>1. queue[c] \in Seq(Units) /\ OnePerTour(queue[c])
    BY DEF PoolsInv, Sent, SentTypes
  <2> QED  BY <1>1, <2>1, FirstOf
<1>3. /\ u \in Units /\ Fits(c, u) /\ u.tour \in Tours
  BY <1>2, UnitFits DEF PoolsInv
<1>4. \A x \in Conns : \A v \in ToSet(queue[x]) : v # u => v.tour # u.tour
  <2> SUFFICES ASSUME NEW x \in Conns, NEW v \in ToSet(queue[x]), v.tour = u.tour  PROVE  v = u
    OBVIOUS
  <2>1. x = c
    BY <1>3, UnitFits DEF PoolsInv, Fits
  <2>2. \A i, j \in DOMAIN queue[c] : queue[c][i].tour = queue[c][j].tour => i = j
    BY DEF PoolsInv, Sent, OnePerTour
  <2>3. v \in ToSet(queue[c])
    BY <2>1
  <2> HIDE DEF u
  <2>4. PICK i \in DOMAIN queue[c], j \in DOMAIN queue[c] : v = queue[c][i] /\ u = queue[c][j]
    BY <1>2, <2>3 DEF ToSet
  <2> QED  BY <2>2, <2>4
<1>5. /\ Held' /\ Lives' /\ Crossings'
      /\ \A x \in Conns : \A v \in ToSet(queue[x]) : v.tour # u.tour => Fits(x, v)'
  <2> HIDE DEF u
  <2> QED  BY <1>1, <1>3, CalledBackKeeps DEF Fits
<1>6. \A x \in Conns : \A v \in ToSet(queue[x]) : v # u => Fits(x, v)'
  BY <1>4, <1>5
<1>7. Sent'
  BY <1>1, <1>6, PacketsTyped, SentDone DEF PoolsInv
<1> QED  BY <1>5, <1>7 DEF PoolsInv

(* The steps that only move a connection on.                               *)
LEMMA PhaseKeeps ==
  ASSUME PoolsInv, phase' \in [Conns -> {"away", "open", "closing", "draining", "gone"}], SamePhases,
         UNCHANGED <<cause, listening, queue, ships, hands, ship, hnd, packets, nextId, tour, requests,
                     early, unfit, crossed>>
  PROVE  PoolsInv'
<1>1. Held'
  BY HeldSame DEF PoolsInv, Held, HeldTypes
<1>2. LivesTypes'
  BY DEF PoolsInv, Lives, LivesTypes
<1>3. Attended' /\ Toured'
  BY <1>2, AttendedSame, TouredSame DEF PoolsInv, Lives
<1>4. \A x \in Conns : \A v \in ToSet(queue[x]) : Fits(x, v)'
  <2> SUFFICES ASSUME NEW x \in Conns, NEW v \in ToSet(queue[x])  PROVE  Fits(x, v)'
    OBVIOUS
  <2>1. Live(x)'
    BY UnitFits DEF PoolsInv, Fits, SamePhases
  <2> QED  BY <2>1, FitsKept DEF PoolsInv
<1>5. Sent'
  BY <1>4, PacketsTyped, SentSame DEF PoolsInv
<1> QED  BY <1>1, <1>2, <1>3, <1>5 DEF PoolsInv, Lives, Crossings

LEMMA ReqCloseKeeps == ASSUME PoolsInv, NEW c \in Conns, ReqClose(c)  PROVE PoolsInv'
<1>1. Close({c}) /\ UNCHANGED <<cause, listening, queue, ships, hands, ship, hnd, packets, nextId, tour, requests,
                                early, unfit, crossed>>
  BY DEF ReqClose, pools, history
<1> QED  BY <1>1, CloseSame, PhaseKeeps DEF PoolsInv, Lives

LEMMA OnClosedKeeps == ASSUME PoolsInv, NEW c \in Conns, OnClosed(c)  PROVE PoolsInv'
<1>1. /\ phase[c] = "closing" /\ phase' = [phase EXCEPT ![c] = "draining"]
      /\ UNCHANGED <<cause, listening, queue, ships, hands, ship, hnd, packets, nextId, tour, requests,
                     early, unfit, crossed>>
  BY DEF OnClosed, pools, history
<1>2. /\ phase' \in [Conns -> {"away", "open", "closing", "draining", "gone"}] /\ SamePhases
  BY <1>1 DEF PoolsInv, Lives, LivesTypes, SamePhases, Live
<1> QED  BY <1>1, <1>2, PhaseKeeps

LEMMA NotifyCloseKeeps == ASSUME PoolsInv, NEW c \in Conns, NotifyClose(c)  PROVE PoolsInv'
<1> DEFINE o == ShipOf(c)
<1>1. /\ phase[c] = "draining" /\ queue[c] = <<>> /\ phase' = [phase EXCEPT ![c] = "gone"]
      /\ UNCHANGED <<listening, queue, packets, nextId, requests, early, unfit, crossed>>
  BY DEF NotifyClose, history
<1>2. PICK aborted \in SUBSET {t \in ToursOf(o) : tour[t].state = "reading"} :
       /\ tour' = [t \in Tours |->
                     IF t \in aborted THEN NoTour
                     ELSE IF tour[t].ship = o THEN [tour[t] EXCEPT !.state = "running"] ELSE tour[t]]
       /\ IF aborted = ToursOf(o) THEN EndShip(o)
          ELSE ship' = [ship EXCEPT ![o].needEnd = TRUE] /\ UNCHANGED <<cause, ships, hands, hnd>>
  BY DEF NotifyClose
<1>3. /\ o \in Serving /\ o \in Objects /\ ship[o].conn = c
      /\ \A q \in Serving : ship[q].conn = c => q = o
  BY <1>1, ShipOfServes DEF PoolsInv, Live
<1> HIDE DEF o
<1>4. /\ phase' \in [Conns -> {"away", "open", "closing", "draining", "gone"}] /\ phase'[c] = "gone"
      /\ \A x \in Conns \ {c} : phase'[x] = phase[x]
  BY <1>1 DEF PoolsInv, Lives, LivesTypes
<1>5. \A x \in Conns \ {c} : (Live(x)' <=> Live(x)) /\ (phase'[x] = "gone" <=> phase[x] = "gone")
  BY <1>4 DEF Live
<1>6. \A t \in Tours : tour[t] \in TourSet /\ NoTour \in TourSet
  BY DEF PoolsInv, Lives, LivesTypes, NoTour, TourSet, Number
<1>7. tour' \in [Tours -> TourSet]
  <2>1. \A t \in Tours : [tour[t] EXCEPT !.state = "running"] \in TourSet
    BY <1>6 DEF TourSet
  <2> QED  BY <1>2, <1>6, <2>1
<1>8. \A t \in Tours : tour[t].ship # o => tour'[t] = tour[t]
  BY <1>2 DEF ToursOf
<1>9. \A t \in Tours : tour[t].ship = o =>
        tour'[t] = IF t \in aborted THEN NoTour ELSE [tour[t] EXCEPT !.state = "running"]
  BY <1>2
<1>10. /\ \A q \in Serving \ {o} : q \in Objects /\ ship[q].conn \in Conns \ {c}
       /\ \A x \in Conns : \A v \in ToSet(queue[x]) :
            /\ x # c /\ v.tour \in Tours /\ tour[v.tour].ship \in Objects \ {o}
            /\ Fits(x, v)
  <2>1. \A q \in Serving \ {o} : q \in Objects /\ ship[q].conn \in Conns \ {c}
    BY <1>3, Served DEF PoolsInv
  <2>2. ToSet(queue[c]) = {}
    BY <1>1 DEF ToSet
  <2> QED  BY <1>3, <2>1, <2>2, UnitFits DEF PoolsInv
<1>11. ASSUME \A q \in Objects \ {o} : ship'[q] = ship[q]
       PROVE  Sent'
  <2>1. \A x \in Conns : \A v \in ToSet(queue[x]) : Fits(x, v)'
    <3> SUFFICES ASSUME NEW x \in Conns, NEW v \in ToSet(queue[x])  PROVE  Fits(x, v)'
      OBVIOUS
    <3>1. Live(x)'
      BY <1>5, <1>10 DEF Fits
    <3> QED  BY <1>1, <1>8, <1>10, <1>11, <3>1, FitsKept DEF PoolsInv
  <2> QED  BY <1>1, <2>1, PacketsTyped, SentSame DEF PoolsInv
<1>12. CASE aborted = ToursOf(o)
  <2>1. EndShip(o)
    BY <1>2, <1>12
  <2>2. \A t \in Tours : tour'[t] = IF tour[t].ship = o THEN NoTour ELSE tour[t]
    BY <1>8, <1>9, <1>12 DEF ToursOf
  <2>3. Held' /\ Lives'
    BY <1>1, <1>3, <1>4, <1>5, <1>7, <2>1, <2>2, EndShipLives DEF PoolsInv
  <2>4. cause' = cause /\ \A q \in Objects \ {o} : ship'[q] = ship[q]
    BY <1>1, <1>3, <2>1, EndShipHeld DEF PoolsInv
  <2>5. Sent'
    BY <1>11, <2>4
  <2> QED  BY <1>1, <2>3, <2>4, <2>5 DEF PoolsInv, Crossings
<1>13. CASE aborted # ToursOf(o)
  <2>1. ship' = [ship EXCEPT ![o].needEnd = TRUE] /\ UNCHANGED <<cause, ships, hands, hnd>>
    BY <1>2, <1>13
  <2>2. /\ ship' \in [Objects -> ShipSet] /\ ship'[o].needEnd /\ \A q \in Objects \ {o} : ship'[q] = ship[q]
        /\ ship'[o].conn = ship[o].conn /\ ship'[o].hnd = ship[o].hnd
    <3>1. ship[o] \in ShipSet /\ ship \in [Objects -> ShipSet]
      BY <1>3 DEF PoolsInv, Held, HeldTypes
    <3>2. ship' = [ship EXCEPT ![o] = [ship[o] EXCEPT !.needEnd = TRUE]]
      BY <1>3, <2>1, <3>1
    <3>3. [ship[o] EXCEPT !.needEnd = TRUE] \in ShipSet
      BY <3>1 DEF ShipSet
    <3> QED  BY <1>3, <3>1, <3>2, <3>3 DEF ShipSet
  <2>3. Held' /\ Serving' = Serving
    BY <1>1, <2>1, <2>2, HeldSame DEF PoolsInv
  <2>4. LivesTypes'
    BY <1>1, <1>4, <1>7, <2>1 DEF PoolsInv, Lives, LivesTypes
  <2>5. Attended'
    <3>1. \A x \in Conns : Live(x)' => \E q \in Serving' : ship'[q].conn = x
      <4> SUFFICES ASSUME NEW x \in Conns, Live(x)'  PROVE  \E q \in Serving : ship'[q].conn = x
        BY <2>3
      <4>1. x # c /\ Live(x)
        BY <1>4, <1>5 DEF Live
      <4>2. PICK q \in Serving : ship[q].conn = x
        BY <4>1 DEF PoolsInv, Lives, Attended
      <4> QED  BY <1>3, <1>10, <2>2, <4>1, <4>2
    <3>2. \A q \in Serving' : phase'[ship'[q].conn] # "away"
      <4>1. \A q \in Serving \ {o} : phase'[ship'[q].conn] # "away"
        BY <1>4, <1>10, <2>2 DEF PoolsInv, Lives, Attended
      <4> QED  BY <1>3, <1>4, <2>2, <2>3, <4>1
    <3>3. \A q \in Objects : ship'[q].needEnd <=> q \in Serving' /\ phase'[ship'[q].conn] = "gone"
      <4>1. \A q \in Objects \ {o} : ship'[q].needEnd <=> q \in Serving /\ phase'[ship[q].conn] = "gone"
        BY <1>5, <1>10, <2>2 DEF PoolsInv, Lives, Attended
      <4> QED  BY <1>3, <1>4, <2>2, <2>3, <4>1
    <3> QED  BY <1>1, <3>1, <3>2, <3>3 DEF PoolsInv, Lives, Attended
  <2>6. Toured'
    <3>1. \A q \in Serving' : phase'[ship'[q].conn] = "gone" => ToursOf(q)' # {}
      <4> SUFFICES ASSUME NEW q \in Serving, phase'[ship'[q].conn] = "gone"
                   PROVE  \E t \in Tours : tour'[t].ship = q
        BY <2>3 DEF ToursOf
      <4>1. CASE q = o
        <5>1. PICK t \in ToursOf(o) : t \notin aborted
          BY <1>13
        <5>2. tour'[t] = [tour[t] EXCEPT !.state = "running"] /\ t \in Tours /\ tour[t].ship = o
          BY <1>9, <5>1 DEF ToursOf
        <5>3. tour'[t].ship = o
          BY <1>6, <5>2 DEF TourSet
        <5> QED  BY <4>1, <5>2, <5>3
      <4>2. CASE q # o
        <5>1. phase[ship[q].conn] = "gone"
          BY <1>4, <1>10, <2>2, <4>2
        <5>2. PICK t \in Tours : tour[t].ship = q
          BY <5>1 DEF PoolsInv, Lives, Toured, ToursOf
        <5> QED  BY <1>8, <4>2, <5>2
      <4> QED  BY <4>1, <4>2
    <3>2. \A t \in Tours : IF tour'[t].state = "none" THEN tour'[t] = NoTour ELSE tour'[t].ship \in Serving'
      <4> SUFFICES ASSUME NEW t \in Tours
                   PROVE  IF tour'[t].state = "none" THEN tour'[t] = NoTour ELSE tour'[t].ship \in Serving
        BY <2>3
      <4>1. CASE tour[t].ship # o
        BY <1>8, <4>1 DEF PoolsInv, Lives, Toured
      <4>2. CASE tour[t].ship = o /\ t \in aborted
        <5>1. tour'[t] = NoTour
          BY <1>9, <4>2
        <5> QED  BY <5>1 DEF NoTour
      <4>3. CASE tour[t].ship = o /\ t \notin aborted
        <5>1. tour'[t] = [tour[t] EXCEPT !.state = "running"] /\ tour[t] \in TourSet
          BY <1>6, <1>9, <4>3
        <5>2. tour'[t].ship = o /\ tour'[t].state = "running"
          BY <4>3, <5>1 DEF TourSet
        <5> QED  BY <1>3, <5>2
      <4> QED  BY <4>1, <4>2, <4>3
    <3>3. \A t \in Tours : t > requests => tour'[t] = NoTour
      <4>1. \A t \in Tours : t > requests => tour[t].ship # o
        BY <1>3, Sizes DEF PoolsInv, Lives, Toured, NoTour
      <4> QED  BY <1>8, <4>1 DEF PoolsInv, Lives, Toured
    <3> QED  BY <1>1, <3>1, <3>2, <3>3 DEF Toured
  <2>7. Sent'
    BY <1>11, <2>2
  <2> QED  BY <1>1, <2>1, <2>3, <2>4, <2>5, <2>6, <2>7 DEF PoolsInv, Lives, Crossings
<1> QED  BY <1>12, <1>13

LEMMA PoolsNext == ASSUME PoolsInv, Next  PROVE PoolsInv'
<1>1. ASSUME NEW c \in Conns, RefuseSocket(c) \/ CannotWrap(c) \/ OnConnected(c)  PROVE PoolsInv'
  BY <1>1, RefuseSocketKeeps, CannotWrapKeeps, OnConnectedKeeps
<1>2. ASSUME NEW c \in Conns, HandleHeader(c) \/ HandleHeaders(c)  PROVE PoolsInv'
  <2>1. \E s \in {"running", "reading"} : Starts(c, s)
    BY <1>2 DEF HandleHeader, HandleHeaders
  <2> QED  BY <2>1, StartsKeeps
<1>3. ASSUME NEW c \in Conns, HandleContent(c)  PROVE PoolsInv'
  BY <1>3, HandleContentKeeps
<1>4. ASSUME NEW c \in Conns, NEW whole \in BOOLEAN, phase[c] = "open", Upgrade(c, whole)  PROVE PoolsInv'
  BY <1>4, UpgradeKeeps
<1>5. ASSUME NEW c \in Conns, OnWrote(c) \/ ConsumeOldestUnit(c)  PROVE PoolsInv'
  BY <1>5, DoneKeeps DEF OnWrote, ConsumeOldestUnit
<1>6. ASSUME NEW c \in Conns, ReqClose(c) \/ OnClosed(c) \/ NotifyClose(c)  PROVE PoolsInv'
  BY <1>6, ReqCloseKeeps, OnClosedKeeps, NotifyCloseKeeps
<1>7. ASSUME NEW t \in Tours, NEW keep \in BOOLEAN, Post(t, keep)  PROVE PoolsInv'
  BY <1>7, PostKeeps
<1> QED  BY <1>1, <1>2, <1>3, <1>4, <1>5, <1>6, <1>7 DEF Next

LEMMA PoolsSame == ASSUME PoolsInv, UNCHANGED vars  PROVE PoolsInv'
<1>1. /\ phase' = phase
      /\ UNCHANGED <<cause, listening, queue, ships, hands, ship, hnd, packets, nextId, tour, requests,
                     early, unfit, crossed>>
  BY DEF vars
<1>2. phase' \in [Conns -> {"away", "open", "closing", "draining", "gone"}] /\ SamePhases
  BY <1>1 DEF PoolsInv, Lives, LivesTypes, SamePhases, Live
<1> QED  BY <1>1, <1>2, PhaseKeeps

(* The invariant of the pools, where a behaviour of the run is theirs: for *)
(* any number of sockets and requests, an object lent by a store serves    *)
(* one connection, and is back in its store when nobody serves by it.      *)
THEOREM PoolsInvariant == MCSpec => [](which = "pools" => PoolsInv)
<1> DEFINE I == which = "pools" => PoolsInv
<1>1. MCInit => I
  BY PoolsInit DEF MCInit
<1>2. I /\ [MCNext]_allVars => I'
  <2> SUFFICES ASSUME I, [MCNext]_allVars, which' = "pools"  PROVE PoolsInv'
    OBVIOUS
  <2>1. CASE MCNext
    <3>1. which = "pools" /\ Next
      BY <2>1 DEF MCNext
    <3> QED  BY <3>1, PoolsNext
  <2>2. CASE UNCHANGED allVars
    <3>1. which = "pools" /\ UNCHANGED vars
      BY <2>2 DEF allVars, objects, shared, vars
    <3> QED  BY <3>1, PoolsSame
  <2> QED  BY <2>1, <2>2
<1> QED  BY <1>1, <1>2, PTL DEF MCSpec

(* Ships, protocol handlers and packets serve one connection at a time and *)
(* go back to their pools, and a callback finds the connection it was      *)
(* queued for unless that one changed protocol with a response             *)
(* outstanding.                                                            *)
THEOREM PooledAlways == MCSpec => []Pooled
<1>1. (which = "pools" => PoolsInv) => Pooled
  BY InvPromises DEF Pooled
<1> QED  BY <1>1, PoolsInvariant, PTL

-----------------------------------------------------------------------------
(* The access log.  At most one taxi or letter is under way, so the line   *)
(* that is written next is the head of the queue.                          *)
Line == 1 .. MaxLines
Steps == [pc : {"idle", "found", "queued"}, line : 0 .. MaxLines]

LogTypes ==
  /\ h3 \in BOOLEAN /\ missed \in BOOLEAN /\ broken \in BOOLEAN /\ writing \in BOOLEAN
  /\ format \subseteq {"unknown", "faulty"} /\ dead \subseteq Log!Threads
  /\ up \in {"off", "failed", "up", "shut", "aborted"} /\ state \in {"open", "closing", "closed"}
  /\ at \in [Log!Threads -> Steps] /\ \A t \in Log!Threads : at[t].pc = "found" => at[t].line > 0
  /\ queue \in Seq(Line) /\ order \in Seq(Line) /\ buffer \in Seq(Line) /\ disk \in Seq(Line)

(* What is under way: nothing, a taxi that is posted or writes the oldest  *)
(* line, or what one has reported, and why.                                *)
Free == taxis = <<>> /\ letters = <<>>
Departs == letters = <<>> /\ taxis = <<[pc |-> "posted", line |-> 0]>>
Writes == letters = <<>> /\ taxis = <<[pc |-> "writing", line |-> Head(queue)]>> /\ queue # <<>>
Reports(l) == taxis = <<>> /\ letters = <<l>>
Token ==
  \/ Free
  \/ writing /\ \/ Departs \/ Writes
                \/ Reports("wrote") /\ queue # <<>>
                \/ (Reports("error") \/ Reports("closed")) /\ broken
                \/ Reports("fatal") /\ state # "open"

(* While the file is open it has every line but those that wait.           *)
Waiting == IF letters = <<"wrote">> THEN Tail(queue) ELSE queue
Sound == state = "open" /\ ~broken /\ up # "aborted"
Complete == Sound => order = (disk \o buffer) \o Waiting

(* Somebody writes, or is about to, when there is something to write.      *)
Woken ==
  ~missed /\ ~broken =>
    /\ writing => ~Free
    /\ queue # <<>> => ~Free \/ \E t \in Log!Threads : at[t].pc = "queued"

(* One thread alone starts a taxi only when it has queued a line.          *)
Alone ==
  ~h3 => /\ ~missed /\ (at["agent"].pc = "queued" => queue # <<>>)
         /\ taxis # <<>> => queue # <<>>

Shuts == state # "open" => broken \/ up = "shut"

LogInv == LogTypes /\ Token /\ Log!LinesInOrder /\ Complete /\ Woken /\ Alone /\ Shuts /\ Log!DeathsExplained

(* Sequences of one element.                                               *)
LEMMA Singles ==
  ASSUME NEW x, NEW y
  PROVE  /\ Len(<<x>>) = 1 /\ DOMAIN <<x>> = {1} /\ <<x>>[1] = x /\ <<x>> # <<>>
         /\ Head(<<x>>) = x /\ Tail(<<x>>) = <<>> /\ Append(<<>>, x) = <<x>>
         /\ [<<x>> EXCEPT ![1] = y] = <<y>> /\ Log!RemoveAt(<<x>>, 1) = <<>>
         /\ Append(Tail(<<x>>), y) = <<y>> /\ DOMAIN <<>> = {} /\ Len(<<>>) = 0
<1>1. Log!RemoveAt(<<x>>, 1) = <<>>
  <2>1. SubSeq(<<x>>, 1, 0) = <<>> /\ SubSeq(<<x>>, 2, 1) = <<>>
    OBVIOUS
  <2> QED  BY <2>1 DEF Log!RemoveAt
<1> QED  BY <1>1

(* Prefixes.                                                               *)
LEMMA PrefixOf ==
  ASSUME NEW S, NEW s \in Seq(S), NEW t \in Seq(S)
  PROVE  Log!IsPrefix(s, t) <=> /\ Len(s) <= Len(t)
                            /\ \A i \in 1 .. Len(s) : s[i] = t[i]
BY DEF Log!IsPrefix

LEMMA PrefixKept ==
  ASSUME NEW S, NEW s \in Seq(S), NEW t \in Seq(S), NEW u \in Seq(S)
  PROVE  /\ Log!IsPrefix(s, s \o t)
         /\ Log!IsPrefix(s \o t, u) => Log!IsPrefix(s, u)
         /\ \A x \in S : Log!IsPrefix(s, u) => Log!IsPrefix(s, Append(u, x))
<1>1. /\ Len(s) \in Nat /\ Len(t) \in Nat /\ Len(u) \in Nat
      /\ s \o t \in Seq(S) /\ Len(s \o t) = Len(s) + Len(t)
      /\ \A i \in 1 .. Len(s) : (s \o t)[i] = s[i]
  OBVIOUS
<1>2. Log!IsPrefix(s, s \o t)
  <2> SUFFICES Len(s) <= Len(s \o t) /\ \A i \in 1 .. Len(s) : s[i] = (s \o t)[i]
    BY <1>1, PrefixOf
  <2> QED  BY <1>1
<1>3. ASSUME Log!IsPrefix(s \o t, u)  PROVE Log!IsPrefix(s, u)
  <2>1. Len(s \o t) <= Len(u) /\ \A i \in 1 .. Len(s \o t) : (s \o t)[i] = u[i]
    BY <1>1, <1>3, PrefixOf
  <2>2. Len(s) <= Len(u) /\ \A i \in 1 .. Len(s) : s[i] = u[i]
    BY <1>1, <2>1
  <2> QED  BY <2>2, PrefixOf
<1>4. ASSUME NEW x \in S, Log!IsPrefix(s, u)  PROVE Log!IsPrefix(s, Append(u, x))
  <2>1. Append(u, x) \in Seq(S) /\ Len(Append(u, x)) = Len(u) + 1
        /\ \A i \in 1 .. Len(u) : Append(u, x)[i] = u[i]
    OBVIOUS
  <2>2. Len(s) <= Len(u) /\ \A i \in 1 .. Len(s) : s[i] = u[i]
    BY <1>4, PrefixOf
  <2>3. Len(s) <= Len(Append(u, x)) /\ \A i \in 1 .. Len(s) : s[i] = Append(u, x)[i]
    BY <1>1, <2>1, <2>2
  <2> QED  BY <2>1, <2>3, PrefixOf
<1> QED  BY <1>2, <1>3, <1>4

(* A line goes from the head of the queue to the end of the file; another  *)
(* joins the queue.                                                        *)
LEMMA LineMoves ==
  ASSUME NEW S, NEW f \in Seq(S), NEW q \in Seq(S), q # <<>>
  PROVE  f \o q = Append(f, Head(q)) \o Tail(q)
<1>1. Head(q) \in S /\ Tail(q) \in Seq(S) /\ <<Head(q)>> \in Seq(S)
  BY HeadTailProperties
<1>2. q = <<Head(q)>> \o Tail(q)
  BY <1>1
<1>3. Append(f, Head(q)) = f \o <<Head(q)>>
  BY <1>1, AppendIsConcat
<1> QED  BY <1>1, <1>2, <1>3, ConcatAssociative

LEMMA LineJoins ==
  ASSUME NEW f \in Seq(Line), NEW q \in Seq(Line), NEW x \in Line
  PROVE  Append(f \o q, x) = f \o Append(q, x)
<1>1. <<x>> \in Seq(Line) /\ f \o q \in Seq(Line)
  BY ConcatProperties
<1>2. Append(f \o q, x) = (f \o q) \o <<x>> /\ Append(q, x) = q \o <<x>>
  BY <1>1, AppendIsConcat
<1> QED  BY <1>1, <1>2, ConcatAssociative

LEMMA LogStart == Log!Init => LogInv
<1> SUFFICES ASSUME Log!Init  PROVE LogInv
  OBVIOUS
<1> USE DEF Log!Init
<1>1. at = [t \in Log!Threads |-> [pc |-> "idle", line |-> 0]] /\ [pc |-> "idle", line |-> 0] \in Steps
  BY LogAssumption DEF Log!Idle, Steps, LogAssumption
<1>2. <<>> \in Seq(Line) /\ <<>> \o <<>> = <<>>
  BY EmptySeq, ConcatEmptySeq
<1>3. LogTypes
  <2>1. \A t \in Log!Threads : at[t].pc # "found"
    BY <1>1
  <2> QED  BY <1>1, <1>2, <2>1 DEF LogTypes
<1>4. Log!LinesInOrder
  BY <1>2 DEF Log!LinesInOrder, Log!IsPrefix
<1>5. Complete
  BY <1>2, ConcatEmptySeq DEF Complete, Waiting
<1>6. Woken /\ Alone /\ Shuts /\ Token
  BY <1>1 DEF Woken, Alone, Shuts, Token, Free, Log!Threads
<1> QED  BY <1>3, <1>4, <1>5, <1>6 DEF LogInv, Log!DeathsExplained

-----------------------------------------------------------------------------
(* The threads that log.                                                   *)
LEMMA LogThreads ==
  /\ "agent" \in Log!Threads /\ IsFiniteSet(Log!Threads)
  /\ ~h3 => Log!Threads = {"agent"}
<1>1. IsFiniteSet({"agent"}) /\ IsFiniteSet({"agent"} \cup {"loop"})
  BY FS_EmptySet, FS_AddElement, FS_Singleton
<1>2. {"agent", "loop"} = {"agent"} \cup {"loop"}
  OBVIOUS
<1> QED  BY <1>1, <1>2 DEF Log!Threads

LEMMA LogCounts ==
  ASSUME NEW S, IsFiniteSet(S)
  PROVE  Log!Cardinality(S) \in Nat
<1>1. Log!Cardinality(S) = Cardinality(S)
  BY DEF Log!Cardinality, Cardinality
<1> QED  BY <1>1, FS_CardinalityType

LEMMA LogsALine ==
  ASSUME LogInv, NEW t \in Log!Threads, Log!Log(t)
  PROVE  LogInv'
<1>1. /\ up \in {"up", "shut"} /\ at[t].pc = "idle" /\ at \in [Log!Threads -> Steps]
      /\ t = "agent" => up = "up"
      /\ UNCHANGED <<h3, format, up, state, writing, queue, taxis, letters, buffer, disk, order, broken, missed>>
  BY DEF Log!Log, Log!Rest, Log!Lives, Log!file, Log!past, LogInv, LogTypes
<1>2. Log!Threads' = Log!Threads
  BY <1>1 DEF Log!Threads
<1>3. at' \in [Log!Threads -> Steps] /\ at'[t].pc \in {"idle", "found"}
      /\ (at'[t].pc = "found" => at'[t].line > 0) /\ \A s \in Log!Threads \ {t} : at'[s] = at[s]
  <2>1. CASE Log!Raises(t)
    <3>1. at' = [at EXCEPT ![t] = [pc |-> "idle", line |-> 0]] /\ [pc |-> "idle", line |-> 0] \in Steps
      BY <2>1, LogAssumption DEF Log!Raises, Log!Idle, Steps, LogAssumption
    <3> QED  BY <1>1, <3>1
  <2>2. CASE at' = [at EXCEPT ![t] = [pc |-> "found", line |-> Log!Lines + 1]]
    <3>1. Log!Lines < MaxLines /\ MaxLines \in Nat
      BY LogAssumption DEF Log!Log, LogAssumption
    <3>2. Log!Cardinality({s \in Log!Threads : at[s].pc = "found"}) \in Nat
      BY LogThreads, LogCounts, FS_Subset
    <3>3. Log!Lines \in Nat
      <4>1. Len(order) \in Nat
        BY DEF LogInv, LogTypes
      <4> QED  BY <3>2, <4>1 DEF Log!Lines
    <3>4. [pc |-> "found", line |-> Log!Lines + 1] \in Steps /\ Log!Lines + 1 > 0
      BY <3>1, <3>3 DEF Steps
    <3> QED  BY <1>1, <2>2, <3>4
  <2> QED  BY <2>1, <2>2 DEF Log!Log
<1>4. dead' = dead \/ (dead' = dead \cup {t} /\ ("faulty" \in format \/ up = "shut" \/ state = "closed"))
  BY DEF Log!Log, Log!Raises
<1>5. LogTypes'
  BY <1>1, <1>2, <1>3, <1>4 DEF LogInv, LogTypes
<1>6. Token' /\ Log!LinesInOrder' /\ Complete' /\ Shuts'
  BY <1>1 DEF LogInv, Token, Free, Departs, Writes, Reports, Log!LinesInOrder, Complete, Sound, Waiting, Shuts
<1>7. Woken'
  BY <1>1, <1>2, <1>3 DEF LogInv, Woken, Free
<1>8. Alone'
  BY <1>1, <1>3, LogThreads DEF LogInv, Alone
<1>9. Log!DeathsExplained'
  BY <1>1, <1>4 DEF LogInv, Log!DeathsExplained, Shuts
<1> QED  BY <1>5, <1>6, <1>7, <1>8, <1>9 DEF LogInv

LEMMA QueuesALine ==
  ASSUME LogInv, NEW t \in Log!Threads, Log!Queue(t)
  PROVE  LogInv'
<1> DEFINE l == at[t].line
<1>1. /\ at[t].pc = "found" /\ l \in Line /\ at \in [Log!Threads -> Steps]
      /\ queue' = Append(queue, l) /\ order' = Append(order, l)
      /\ at' = [at EXCEPT ![t].pc = "queued"]
      /\ UNCHANGED <<h3, format, up, dead, state, writing, taxis, letters, buffer, disk, broken, missed>>
  BY DEF Log!Queue, Log!file, LogInv, LogTypes, Steps, Line
<1> HIDE DEF l
<1>2. queue \in Seq(Line) /\ order \in Seq(Line) /\ buffer \in Seq(Line) /\ disk \in Seq(Line)
      /\ disk \o buffer \in Seq(Line)
  BY ConcatProperties DEF LogInv, LogTypes
<1>3. /\ queue' \in Seq(Line) /\ order' \in Seq(Line) /\ queue' # <<>>
      /\ queue # <<>> => Head(queue') = Head(queue) /\ Tail(queue') = Append(Tail(queue), l)
  <2>1. queue' \in Seq(Line) /\ order' \in Seq(Line) /\ queue' # <<>>
    BY <1>1, <1>2, AppendProperties
  <2>2. ASSUME queue # <<>>  PROVE Head(queue') = Head(queue) /\ Tail(queue') = Append(Tail(queue), l)
    BY <1>1, <1>2, <2>2, HeadTailAppend
  <2> QED  BY <2>1, <2>2
<1>4. Log!Threads' = Log!Threads /\ at' \in [Log!Threads -> Steps] /\ at'[t].pc = "queued"
      /\ \A s \in Log!Threads \ {t} : at'[s] = at[s]
  BY <1>1 DEF Log!Threads, Steps
<1>5. LogTypes'
  BY <1>1, <1>3, <1>4 DEF LogInv, LogTypes
<1>6. Token'
  BY <1>1, <1>3 DEF LogInv, Token, Free, Departs, Writes, Reports
<1>7. Log!LinesInOrder'
  BY <1>1, <1>2, PrefixKept DEF LogInv, Log!LinesInOrder
<1>8. Complete'
  <2> SUFFICES ASSUME Sound  PROVE order' = (disk \o buffer) \o Waiting'
    BY <1>1 DEF Complete, Sound
  <2>1. letters = <<"wrote">> => queue # <<>>
    BY DEF LogInv, Token, Free, Departs, Writes, Reports
  <2>2. Waiting \in Seq(Line) /\ Waiting' = Append(Waiting, l)
    BY <1>1, <1>2, <1>3, <2>1, HeadTailProperties DEF Waiting
  <2>3. order = (disk \o buffer) \o Waiting
    BY DEF LogInv, Complete
  <2>4. Append((disk \o buffer) \o Waiting, l) = (disk \o buffer) \o Append(Waiting, l)
    <3>1. PICK f \in Seq(Line), w \in Seq(Line) : f = disk \o buffer /\ w = Waiting
      BY <1>2, <2>2
    <3>2. l \in Line
      BY <1>1
    <3>3. Append(f \o w, l) = f \o Append(w, l)
      BY <3>2, LineJoins
    <3> QED  BY <3>1, <3>3
  <2> QED  BY <1>1, <2>2, <2>3, <2>4
<1>9. Woken' /\ Alone' /\ Shuts' /\ Log!DeathsExplained'
  BY <1>1, <1>3, <1>4 DEF LogInv, Woken, Alone, Shuts, Free, Log!DeathsExplained
<1> QED  BY <1>5, <1>6, <1>7, <1>8, <1>9 DEF LogInv

LEMMA StartsATaxi ==
  ASSUME LogInv, NEW t \in Log!Threads, Log!Start(t)
  PROVE  LogInv'
<1>1. /\ at[t].pc = "queued" /\ at \in [Log!Threads -> Steps]
      /\ at' = [at EXCEPT ![t] = [pc |-> "idle", line |-> 0]] /\ [pc |-> "idle", line |-> 0] \in Steps
      /\ UNCHANGED <<h3, format, up, dead, state, queue, letters, buffer, disk, order, broken, missed>>
  BY LogAssumption DEF Log!Start, Log!Idle, Log!file, Log!past, LogInv, LogTypes, Steps, LogAssumption
<1>2. Log!Threads' = Log!Threads /\ at' \in [Log!Threads -> Steps] /\ at'[t].pc = "idle"
      /\ \A s \in Log!Threads \ {t} : at'[s] = at[s]
  BY <1>1 DEF Log!Threads
<1>3. \/ writing /\ UNCHANGED <<writing, taxis>>
      \/ ~writing /\ Free /\ writing' = TRUE /\ taxis' = <<[pc |-> "posted", line |-> 0]>>
  <2>1. CASE writing
    BY <2>1 DEF Log!Start, Log!IfNotWriting
  <2>2. CASE ~writing
    <3>1. Free
      BY <2>2 DEF LogInv, Token
    <3>2. writing' = TRUE /\ taxis' = Append(<<>>, [pc |-> "posted", line |-> 0])
      BY <2>2, <3>1 DEF Log!Start, Log!IfNotWriting, Log!Posted, Free
    <3> QED  BY <2>2, <3>1, <3>2, Singles
  <2> QED  BY <2>1, <2>2
<1>4. LogTypes'
  BY <1>1, <1>2, <1>3 DEF LogInv, LogTypes
<1>5. Token'
  BY <1>1, <1>3 DEF LogInv, Token, Free, Departs, Writes, Reports
<1>6. Log!LinesInOrder' /\ Complete' /\ Shuts' /\ Log!DeathsExplained'
  BY <1>1 DEF LogInv, Log!LinesInOrder, Complete, Sound, Waiting, Shuts, Log!DeathsExplained
<1>7. Woken'
  <2>1. taxis' = <<[pc |-> "posted", line |-> 0]>> => taxis' # <<>>
    BY Singles
  <2> QED  BY <1>1, <1>2, <1>3, <2>1 DEF LogInv, Woken, Free
<1>8. Alone'
  BY <1>1, <1>2, <1>3, LogThreads DEF LogInv, Alone
<1> QED  BY <1>4, <1>5, <1>6, <1>7, <1>8 DEF LogInv

-----------------------------------------------------------------------------
(* The taxis.  There is one at most.                                       *)
LEMMA OneTaxi ==
  ASSUME LogInv, NEW i \in DOMAIN taxis
  PROVE  /\ i = 1 /\ letters = <<>> /\ writing /\ Log!Without(i) = <<>> /\ taxis # <<>>
         /\ \A x : [taxis EXCEPT ![i] = x] = <<x>>
         /\ \/ taxis[i].pc = "posted"
            \/ taxis[i].pc = "writing" /\ taxis[i].line = Head(queue) /\ queue # <<>>
<1>1. PICK x : /\ taxis = <<x>> /\ letters = <<>> /\ writing
               /\ \/ x.pc = "posted"
                  \/ x.pc = "writing" /\ x.line = Head(queue) /\ queue # <<>>
  BY Singles DEF LogInv, Token, Free, Departs, Writes, Reports
<1> QED  BY <1>1, Singles DEF Log!Without

LEMMA Departing ==
  ASSUME LogInv, NEW i \in DOMAIN taxis, Log!Depart(i)
  PROVE  LogInv'
<1>1. UNCHANGED <<h3, format, up, dead, at, state, writing, queue, letters, buffer, disk, order, broken>>
  BY DEF Log!Depart, Log!file
<1>2. \/ queue = <<>> /\ taxis' = <<>> /\ missed' = TRUE
      \/ /\ queue # <<>> /\ missed' = missed
         /\ taxis' = <<[pc |-> "writing", line |-> Head(queue)]>> /\ taxis' # <<>>
  BY OneTaxi, Singles DEF Log!Depart
<1>3. letters = <<>> /\ writing /\ taxis # <<>> /\ missed' \in BOOLEAN /\ Log!Threads' = Log!Threads
  BY <1>1, <1>2, OneTaxi DEF LogInv, LogTypes, Log!Threads
<1>4. LogTypes'
  BY <1>1, <1>3 DEF LogInv, LogTypes
<1>5. Token'
  BY <1>1, <1>2, <1>3 DEF Token, Free, Writes
<1>6. Log!LinesInOrder' /\ Complete' /\ Shuts' /\ Log!DeathsExplained'
  BY <1>1 DEF LogInv, Log!LinesInOrder, Complete, Sound, Waiting, Shuts, Log!DeathsExplained
<1>7. Woken' /\ Alone'
  BY <1>1, <1>2, <1>3 DEF LogInv, Woken, Alone, Free
<1> QED  BY <1>4, <1>5, <1>6, <1>7 DEF LogInv

LEMMA Writing ==
  ASSUME LogInv, NEW i \in DOMAIN taxis, Log!Write(i)
  PROVE  LogInv'
<1>1. /\ UNCHANGED <<h3, format, up, dead, at, state, writing, queue, order, missed>>
      /\ taxis' = <<>> /\ up \in {"up", "shut"} /\ taxis[i].pc = "writing"
  BY OneTaxi DEF Log!Write, Log!Alive
<1>2. /\ taxis[i].line = Head(queue) /\ queue # <<>> /\ letters = <<>> /\ writing /\ taxis # <<>>
      /\ Log!Threads' = Log!Threads
  BY <1>1, OneTaxi DEF Log!Threads
<1>3. /\ queue \in Seq(Line) /\ order \in Seq(Line) /\ buffer \in Seq(Line) /\ disk \in Seq(Line)
      /\ Head(queue) \in Line /\ Tail(queue) \in Seq(Line) /\ <<>> \in Seq(Line)
  BY <1>2, HeadTailProperties, EmptySeq DEF LogInv, LogTypes
<1>4. ASSUME broken' \in BOOLEAN, buffer' \in Seq(Line), disk' \in Seq(Line), letters' # <<>>,
             broken => broken', NEW l, letters' = <<l>>,
             l = "wrote" \/ (l = "error" /\ broken') \/ (l = "fatal" /\ state # "open"),
             Log!LinesInOrder', Complete'
      PROVE  LogInv'
  <2>1. LogTypes'
    BY <1>1, <1>2, <1>4 DEF LogInv, LogTypes
  <2>2. Token'
    BY <1>1, <1>2, <1>4 DEF Token, Reports
  <2>3. Woken' /\ Alone' /\ Shuts' /\ Log!DeathsExplained'
    BY <1>1, <1>2, <1>4 DEF LogInv, Woken, Alone, Free, Shuts, Log!DeathsExplained
  <2> QED  BY <1>4, <2>1, <2>2, <2>3 DEF LogInv
<1>5. CASE Log!Wrote(i)
  <2>1. state = "open" /\ ~broken /\ broken' = broken /\ letters' = <<"wrote">> /\ letters' # <<>>
    BY <1>2, <1>5, Singles DEF Log!Wrote
  <2>2. PICK f \in Seq(Line), g \in Seq(Line) : f = disk \o buffer /\ g = Append(f, Head(queue))
    BY <1>3, ConcatProperties, AppendProperties
  <2>3. /\ buffer' \in Seq(Line) /\ disk' \in Seq(Line) /\ disk' \o buffer' = g
    <3>1. disk \o Append(buffer, Head(queue)) = g /\ Append(buffer, Head(queue)) \in Seq(Line)
      BY <1>3, <2>2, LineJoins, AppendProperties
    <3>2. CASE buffer' = Append(buffer, Head(queue)) /\ disk' = disk
      BY <1>3, <3>1, <3>2
    <3>3. CASE disk' = disk \o Append(buffer, Head(queue)) /\ buffer' = <<>>
      BY <1>3, <3>1, <3>3, ConcatEmptySeq
    <3> QED  BY <1>2, <1>5, <3>2, <3>3 DEF Log!Wrote
  <2>4. order = g \o Tail(queue)
    <3>1. order = f \o queue
      BY <1>1, <1>2, <2>1, <2>2, Singles DEF LogInv, Complete, Sound, Waiting
    <3> QED  BY <1>2, <1>3, <2>2, <3>1, LineMoves
  <2>5. Log!LinesInOrder'
    <3>1. Log!IsPrefix(g, order)
      BY <1>3, <2>4, PrefixKept
    <3> QED  BY <1>1, <2>3, <3>1 DEF Log!LinesInOrder
  <2>6. Complete'
    BY <1>1, <2>1, <2>3, <2>4 DEF Complete, Waiting
  <2> QED  BY <1>3, <1>4, <2>1, <2>3, <2>5, <2>6 DEF LogInv, LogTypes
<1>6. CASE Log!Fails(i)
  <2>1. broken' /\ letters' = <<"error">> /\ letters' # <<>> /\ buffer' = <<>> /\ disk' = disk
    BY <1>2, <1>6, Singles DEF Log!Fails
  <2>2. Log!LinesInOrder'
    <3>1. Log!IsPrefix(disk, order) /\ disk \o <<>> = disk
      BY <1>3, PrefixKept, ConcatEmptySeq DEF LogInv, Log!LinesInOrder
    <3> QED  BY <1>1, <2>1, <3>1 DEF Log!LinesInOrder
  <2>3. Complete' /\ broken' \in BOOLEAN
    BY <1>6, <2>1 DEF Complete, Sound, Log!Fails
  <2> QED  BY <1>3, <1>4, <2>1, <2>2, <2>3
<1>7. CASE Log!FindsClosed(i)
  <2>1. state # "open" /\ letters' = <<"fatal">> /\ letters' # <<>> /\ UNCHANGED <<buffer, disk, broken>>
    BY <1>2, <1>7, Singles DEF Log!FindsClosed
  <2>2. Log!LinesInOrder' /\ Complete' /\ broken' \in BOOLEAN
    BY <1>1, <2>1 DEF LogInv, LogTypes, Log!LinesInOrder, Complete, Sound
  <2> QED  BY <1>3, <1>4, <2>1, <2>2
<1> QED  BY <1>5, <1>6, <1>7 DEF Log!Write

-----------------------------------------------------------------------------
(* The letters.                                                            *)
LEMMA OneLetter ==
  ASSUME LogInv, letters # <<>>
  PROVE  /\ taxis = <<>> /\ writing /\ Tail(letters) = <<>>
         /\ \A x : Append(Tail(letters), x) = <<x>> /\ <<x>> # <<>> /\ Append(taxis, x) = <<x>>
         /\ \/ letters = <<"wrote">> /\ Head(letters) = "wrote" /\ queue # <<>>
            \/ Head(letters) \in {"error", "closed"} /\ broken
            \/ Head(letters) = "fatal" /\ state # "open"
<1>1. taxis = <<>> /\ writing /\ \E l : letters = <<l>> /\ \/ l = "wrote" /\ queue # <<>>
                                                           \/ l \in {"error", "closed"} /\ broken
                                                           \/ l = "fatal" /\ state # "open"
  BY DEF LogInv, Token, Free, Departs, Writes, Reports
<1> QED  BY <1>1, Singles

LEMMA HandlesALetter ==
  ASSUME LogInv, Log!Letter
  PROVE  LogInv'
<1>1. /\ letters # <<>> /\ up = "up"
      /\ UNCHANGED <<h3, format, up, at, buffer, disk, order, broken, missed>>
      /\ Log!Threads' = Log!Threads
  BY DEF Log!Letter, Log!Rest, Log!Lives, Log!file, Log!past, Log!Threads
<1>2. taxis = <<>> /\ writing /\ Tail(letters) = <<>> /\ at["agent"].pc = "idle"
  BY <1>1, OneLetter DEF Log!Letter, Log!Rest
<1>3. Log!LinesInOrder'
  BY <1>1 DEF LogInv, Log!LinesInOrder
<1>4. CASE Head(letters) = "wrote"
  <2>1. Log!OnWrote /\ letters = <<"wrote">> /\ queue # <<>>
    BY <1>1, <1>4, OneLetter DEF Log!Letter
  <2>2. CASE state = "closed"
    <3>1. UNCHANGED <<dead, state, writing, queue, taxis>> /\ letters' = <<>> /\ broken
      BY <1>1, <1>2, <2>1, <2>2 DEF Log!OnWrote, LogInv, Shuts
    <3>2. LogTypes' /\ Token'
      BY <1>1, <1>2, <3>1 DEF LogInv, LogTypes, Token, Free
    <3>3. Complete' /\ Woken' /\ Alone' /\ Shuts' /\ Log!DeathsExplained'
      BY <1>1, <1>2, <3>1 DEF LogInv, Complete, Sound, Woken, Alone, Shuts, Log!DeathsExplained
    <3> QED  BY <1>3, <3>2, <3>3 DEF LogInv
  <2>3. CASE state # "closed"
    <3>1. /\ queue' = Tail(queue) /\ letters' = <<>> /\ UNCHANGED <<dead, state>>
          /\ \/ queue' = <<>> /\ writing' = FALSE /\ taxis' = <<>>
             \/ /\ queue' # <<>> /\ writing' = TRUE
                /\ taxis' = <<[pc |-> "posted", line |-> 0]>> /\ taxis' # <<>>
      <4>1. /\ queue' = Tail(queue) /\ letters' = <<>> /\ UNCHANGED <<dead, state>>
            /\ IF queue' = <<>> THEN writing' = FALSE /\ UNCHANGED taxis
               ELSE taxis' = Log!Posted /\ UNCHANGED writing
        BY <1>2, <2>1, <2>3 DEF Log!OnWrote
      <4>2. Log!Posted = <<[pc |-> "posted", line |-> 0]>> /\ Log!Posted # <<>>
        BY <1>1, OneLetter DEF Log!Posted
      <4> QED  BY <1>2, <4>1, <4>2
    <3>2. queue' \in Seq(Line) /\ writing' \in BOOLEAN
      BY <2>1, <3>1, HeadTailProperties DEF LogInv, LogTypes
    <3>3. LogTypes'
      BY <1>1, <3>1, <3>2 DEF LogInv, LogTypes
    <3>4. Token'
      BY <1>1, <3>1 DEF Token, Free, Departs
    <3>5. Complete'
      <4>1. Waiting = Tail(queue) /\ Waiting' = queue'
        BY <2>1, <3>1, Singles DEF Waiting
      <4> QED  BY <1>1, <3>1, <4>1 DEF LogInv, Complete, Sound
    <3>6. Woken' /\ Alone' /\ Shuts' /\ Log!DeathsExplained'
      BY <1>1, <1>2, <3>1 DEF LogInv, Woken, Free, Alone, Shuts, Log!DeathsExplained
    <3> QED  BY <1>3, <3>3, <3>4, <3>5, <3>6 DEF LogInv
  <2> QED  BY <2>2, <2>3
<1>5. CASE Head(letters) \in {"error", "closed"}
  <2>1. /\ broken /\ UNCHANGED <<dead, writing, taxis>> /\ state' \in {"open", "closing", "closed"}
        /\ queue' \in Seq(Line) /\ state' # "open"
        /\ letters' = <<>> \/ letters' = <<"closed">>
    <3>1. broken /\ queue \in Seq(Line) /\ <<>> \in Seq(Line) /\ state \in {"open", "closing", "closed"}
      BY <1>1, <1>5, OneLetter, EmptySeq DEF LogInv, LogTypes
    <3>2. CASE Head(letters) = "error"
      BY <1>1, <3>1, <3>2, OneLetter DEF Log!Letter, Log!OnError
    <3>3. CASE Head(letters) = "closed"
      BY <1>1, <3>1, <3>3, OneLetter DEF Log!Letter, Log!OnClosed
    <3> QED  BY <1>5, <3>2, <3>3
  <2>2. LogTypes'
    BY <1>1, <2>1 DEF LogInv, LogTypes
  <2>3. Token'
    BY <1>1, <1>2, <2>1 DEF Token, Free, Reports
  <2>4. Complete' /\ Woken' /\ Alone' /\ Shuts' /\ Log!DeathsExplained'
    BY <1>1, <1>2, <2>1 DEF LogInv, Complete, Sound, Woken, Alone, Shuts, Log!DeathsExplained
  <2> QED  BY <1>3, <2>2, <2>3, <2>4 DEF LogInv
<1>6. CASE Head(letters) = "fatal"
  <2>1. /\ broken /\ dead' = dead \cup {"agent"} /\ letters' = <<>>
        /\ UNCHANGED <<state, writing, queue, taxis>>
    <3>1. state # "open"
      BY <1>1, <1>6, OneLetter
    <3> QED  BY <1>1, <1>2, <1>6, <3>1 DEF LogInv, Shuts, Log!Letter, Log!OnFatal
  <2>2. LogTypes'
    BY <1>1, <2>1, LogThreads DEF LogInv, LogTypes
  <2>3. Token'
    BY <1>1, <1>2, <2>1 DEF Token, Free
  <2>4. Complete' /\ Woken' /\ Alone' /\ Shuts' /\ Log!DeathsExplained'
    BY <1>1, <1>2, <2>1 DEF LogInv, Complete, Sound, Woken, Alone, Shuts, Log!DeathsExplained
  <2> QED  BY <1>3, <2>2, <2>3, <2>4 DEF LogInv
<1> QED  BY <1>1, <1>4, <1>5, <1>6, OneLetter

(* The agent's life.                                                       *)
LEMMA ComesAndGoes ==
  ASSUME LogInv, Log!Open \/ Log!Shutdown \/ Log!Abort
  PROVE  LogInv'
<1>1. /\ UNCHANGED <<h3, format, dead, at, writing, queue, taxis, letters, order, broken, missed>>
      /\ Log!Threads' = Log!Threads /\ <<>> \in Seq(Line)
      /\ up # "shut" /\ up' \in {"up", "failed", "shut", "aborted"}
  BY EmptySeq DEF Log!Open, Log!Shutdown, Log!Abort, Log!past, Log!Rest, Log!Lives, Log!Threads
<1>2. /\ state' \in {"open", "closing", "closed"}
      /\ state' # "open" => state # "open" \/ up' = "shut"
      /\ state # "open" => state' # "open"
      /\ \/ UNCHANGED <<buffer, disk>>
         \/ disk' = disk \o buffer /\ buffer' = <<>>
         \/ disk' = disk /\ buffer' = <<>>
      /\ ~(state' = "open" /\ up' # "aborted") \/ (UNCHANGED <<state, buffer, disk>> /\ up # "aborted")
  BY DEF Log!Open, Log!Shutdown, Log!Abort, Log!file, LogInv, LogTypes
<1>3. /\ buffer \in Seq(Line) /\ disk \in Seq(Line) /\ order \in Seq(Line)
      /\ disk \o buffer \in Seq(Line)
  BY ConcatProperties DEF LogInv, LogTypes
<1>4. buffer' \in Seq(Line) /\ disk' \in Seq(Line) /\ Log!LinesInOrder'
  <2>1. Log!IsPrefix(disk \o buffer, order) /\ Log!IsPrefix(disk, order)
    BY <1>3, PrefixKept DEF LogInv, Log!LinesInOrder
  <2>2. disk \o <<>> = disk /\ (disk \o buffer) \o <<>> = disk \o buffer
    BY <1>3, ConcatEmptySeq
  <2> QED  BY <1>1, <1>2, <1>3, <2>1, <2>2 DEF Log!LinesInOrder
<1>5. LogTypes'
  BY <1>1, <1>2, <1>4 DEF LogInv, LogTypes
<1>6. Token'
  BY <1>1, <1>2 DEF LogInv, Token, Free, Departs, Writes, Reports
<1>7. Complete'
  BY <1>1, <1>2 DEF LogInv, Complete, Sound, Waiting
<1>8. Woken' /\ Alone' /\ Log!DeathsExplained' /\ Shuts'
  <2>1. Shuts'
    BY <1>1, <1>2 DEF LogInv, Shuts
  <2> QED  BY <1>1, <2>1 DEF LogInv, Woken, Free, Alone, Log!DeathsExplained
<1> QED  BY <1>4, <1>5, <1>6, <1>7, <1>8 DEF LogInv

LEMMA LogNext == LogInv /\ Log!Next => LogInv'
<1> SUFFICES ASSUME LogInv, Log!Next  PROVE LogInv'
  OBVIOUS
<1>1. CASE Log!Open \/ Log!Shutdown \/ Log!Abort
  BY <1>1, ComesAndGoes
<1>2. CASE Log!Works
  BY <1>2, QueuesALine, StartsATaxi, Departing, Writing, HandlesALetter DEF Log!Works
<1>3. CASE \E t \in Log!Threads : Log!Log(t)
  BY <1>3, LogsALine
<1> QED  BY <1>1, <1>2, <1>3 DEF Log!Next

LEMMA LogSame == LogInv /\ UNCHANGED Log!vars => LogInv'
<1> SUFFICES ASSUME LogInv, UNCHANGED Log!vars  PROVE LogInv'
  OBVIOUS
<1>1. UNCHANGED <<h3, format, up, dead, at, state, writing, queue, taxis, letters, buffer, disk,
                  order, broken, missed>> /\ Log!Threads' = Log!Threads
  BY DEF Log!vars, Log!file, Log!past, Log!Threads
<1>2. LogTypes' /\ Token' /\ Log!LinesInOrder'
  BY <1>1 DEF LogInv, LogTypes, Token, Free, Departs, Writes, Reports, Log!LinesInOrder
<1>3. Complete' /\ Woken' /\ Alone' /\ Shuts' /\ Log!DeathsExplained'
  BY <1>1 DEF LogInv, Complete, Sound, Waiting, Woken, Free, Alone, Shuts, Log!DeathsExplained
<1> QED  BY <1>2, <1>3 DEF LogInv

(* When nobody can do more nothing is under way, and so nothing waits.     *)
LEMMA LogPromise == LogInv => Log!LogKept
<1> SUFFICES ASSUME LogInv  PROVE Log!LogKept
  OBVIOUS
<1>1. Log!TypeOK
  <2>1. Len(taxis) <= 1
    <3>1. taxis = <<>> \/ \E x : taxis = <<x>>
      BY DEF LogInv, Token, Free, Departs, Writes, Reports
    <3>2. CASE taxis = <<>>
      BY <3>2
    <3>3. CASE \E x : taxis = <<x>>
      <4>1. PICK x : taxis = <<x>>
        BY <3>3
      <4> QED  BY <4>1, Singles
    <3> QED  BY <3>1, <3>2, <3>3
  <2>2. letters \in Seq(Log!Letters)
    <3>1. letters = <<>> \/ \E l \in Log!Letters : letters = <<l>>
      BY DEF LogInv, Token, Free, Departs, Writes, Reports, Log!Letters
    <3>2. <<>> \in Seq(Log!Letters) /\ \A l \in Log!Letters : <<l>> \in Seq(Log!Letters)
      OBVIOUS
    <3> QED  BY <3>1, <3>2
  <2> QED  BY <2>1, <2>2 DEF LogInv, LogTypes, Log!TypeOK, Line, Steps
<1>2. Log!NoLineWaits
  <2>1. missed => h3
    BY DEF LogInv, Alone
  <2>2. ASSUME up = "up", dead = {}, ~broken, ~missed, Log!Quiet  PROVE disk \o buffer = order
    <3>1. \A t \in Log!Threads : at[t].pc = "idle"
      BY <2>2 DEF Log!Quiet, Log!Lives, LogInv, LogTypes, Steps
    <3>2. letters = <<>>
      BY <2>2, <3>1, LogThreads DEF Log!Quiet, Log!Rest, Log!Lives
    <3>3. taxis = <<>>
      <4>1. ASSUME NEW i \in DOMAIN taxis  PROVE FALSE
        <5>1. i = 1 /\ i > MaxTaxis
          BY <2>2, <4>1, OneTaxi DEF Log!Quiet, Log!Alive
        <5> QED  BY <5>1, LogAssumption DEF LogAssumption
      <4>2. taxis = <<>> \/ \E x : taxis = <<x>>
        BY DEF LogInv, Token, Free, Departs, Writes, Reports
      <4> QED  BY <4>1, <4>2, Singles
    <3>4. queue = <<>>
      BY <2>2, <3>1, <3>2, <3>3 DEF LogInv, Woken, Free
    <3>5. order = (disk \o buffer) \o <<>>
      BY <2>2, <3>2, <3>4, Singles DEF LogInv, Shuts, Complete, Sound, Waiting
    <3> QED  BY <3>5, ConcatProperties, ConcatEmptySeq DEF LogInv, LogTypes
  <2> QED  BY <2>1, <2>2 DEF Log!NoLineWaits
<1> QED  BY <1>1, <1>2 DEF LogInv, Log!LogKept

(* The access log's invariant, for any number of taxis and lines: one taxi *)
(* or letter at most is under way, and while the file is open it has every *)
(* line that was queued but those that still wait.                         *)
THEOREM LogInvariant == MCSpec => [](which = "log" => LogInv)
<1> DEFINE I == which = "log" => LogInv
<1>1. MCInit => I
  BY LogStart DEF MCInit
<1>2. I /\ [MCNext]_allVars => I'
  <2> SUFFICES ASSUME I, [MCNext]_allVars, which' = "log"  PROVE LogInv'
    OBVIOUS
  <2>1. CASE MCNext
    <3>1. which = "log" /\ Log!Next
      BY <2>1 DEF MCNext
    <3> QED  BY <3>1, LogNext
  <2>2. CASE UNCHANGED allVars
    <3>1. which = "log" /\ UNCHANGED Log!vars
      BY <2>2 DEF allVars, log, Log!vars, Log!file, Log!past
    <3> QED  BY <3>1, LogSame
  <2> QED  BY <2>1, <2>2
<1> QED  BY <1>1, <1>2, PTL DEF MCSpec

(* The file holds the lines in the order in which they were queued, each   *)
(* once; when nothing is under way it holds them all, but for the causes   *)
(* the module names; and a thread dies of the log only for a reason.       *)
THEOREM LogKeptAlways == MCSpec => []LogKept
<1>1. (which = "log" => LogInv) => LogKept
  BY LogPromise DEF LogKept
<1> QED  BY <1>1, LogInvariant, PTL

-----------------------------------------------------------------------------
(* The records of a backend.  The connection serves one request, whose     *)
(* answer is on its way in one place: its head waits to be written, the    *)
(* backend owes it, or its records wait to be read.                        *)
Asks == Records!Requests
NoAsk == Records!None
AllKinds == {"data", "end", "eof", "foreign", "part", "line", "blank", "drained", "bad",
             "headers", "wants", "final"}
Items == [kind : AllKinds, of : Asks \cup {NoAsk}]
Outgoing == [kind : {"begin", "head", "body", "end"}, of : Asks]
AskRec == [phase : {"new", "arrived", "ended", "returned"}, post : BOOLEAN, sent : BOOLEAN,
           full : BOOLEAN, headed : BOOLEAN, headers : SUBSET Asks,
           of : SUBSET (Asks \cup {NoAsk}), answer : {"none", "given", "error", "bare"}]

RecTypes ==
  /\ proto \in {"fcgi", "ajp"} /\ agent \in {"up", "stray", "unsent", "id", "resume", "consumed"}
  /\ conn \in {"none", "connecting", "up", "closing", "closed", "lost"}
  /\ serves \in Asks \cup {NoAsk} /\ state \in {"header", "content"}
  /\ line \subseteq Asks /\ reading \in BOOLEAN
  /\ units \in Seq(Outgoing) /\ inbox \in Seq(Items)
  /\ \A i \in DOMAIN inbox :
       /\ proto = "fcgi" => inbox[i].kind \notin {"headers", "wants", "final"}
       /\ proto = "ajp" => inbox[i].kind \notin {"part", "line", "blank", "drained", "bad"}
  /\ backend \in [heard : Asks \cup {NoAsk}, whole : BOOLEAN, owes : BOOLEAN, gone : BOOLEAN]
  /\ req \in [Asks -> AskRec]
  /\ cut \subseteq Asks /\ refused \subseteq Asks /\ strayed \in BOOLEAN /\ faults \in 0 .. MaxFaults

(* What a request has been given, when these answers ended within a line,  *)
(* the backend has sent a record unasked and it speaks this protocol.      *)
Given(r, q, ended, unasked, p) ==
  /\ \A o \in q.headers \ {r} : o \in ended \/ (unasked /\ p = "ajp")
  /\ q.of \subseteq {r} \/ (unasked /\ p = "ajp")
  /\ q.answer = "bare" => q.post \/ p = "fcgi"
  /\ q.headed \/ q.phase \in {"ended", "returned"} => q.answer # "none"
  /\ q.full => q.phase # "returned"
AllGiven == \A r \in Asks : Given(r, req[r], cut, strayed, proto)

(* Nobody has heard of a request that has not arrived.                     *)
Unknown(r) ==
  /\ ~req[r].sent /\ ~req[r].full /\ ~req[r].headed
  /\ req[r].headers = {} /\ req[r].of = {} /\ req[r].answer = "none"
  /\ serves # r /\ backend.heard # r /\ r \notin cut /\ r \notin refused
  /\ \A i \in DOMAIN units : units[i].of # r
  /\ \A i \in DOMAIN inbox : inbox[i].of # r
News == \A r \in Asks : req[r].phase = "new" => Unknown(r)

(* The connection serves the one request that still needs its end, or one  *)
(* that was refused while it was being sent.                               *)
Awaited == serves # NoAsk /\ req[serves].phase = "arrived"
Entered ==
  /\ serves # NoAsk => serves \in refused \/ req[serves].phase = "arrived"
  /\ \A r \in Asks : req[r].phase = "arrived" => serves = r /\ conn \in {"connecting", "up"}
  /\ refused # {} => proto = "fcgi"
  /\ conn = "none" => serves = NoAsk /\ units = <<>>
  /\ conn = "connecting" => Awaited
  /\ conn \in {"none", "connecting"} =>
       inbox = <<>> /\ backend = Records!Idle /\ state = "header" /\ ~reading

(* The line that is open is of the request being served, or was left.      *)
OpenLine == line \ {serves} \subseteq cut
HeadedFirst == state = "content" => serves # NoAsk /\ req[serves].headed

(* A FastCGI backend, and an AJP backend as long as it sends nothing       *)
(* unasked, owes an answer to the request being served and to no other.    *)
Asked ==
  ~strayed \/ proto = "fcgi" =>
    /\ \A i \in DOMAIN units : units[i].kind = "head" =>
         /\ units[i].of = serves /\ backend.heard # serves
         /\ \A j \in DOMAIN units : units[j].kind = "head" => i = j
    /\ backend.owes => serves # NoAsk /\ backend.heard = serves
    /\ serves # NoAsk /\ (backend.owes \/ backend.heard # serves) =>
         /\ \A i \in DOMAIN inbox : inbox[i].of # serves
         /\ proto = "fcgi" => state = "header"

(* An answer, and the headers in it, are a request's.                      *)
Named ==
  /\ backend.owes => backend.heard # NoAsk
  /\ \A i \in DOMAIN inbox : inbox[i].kind = "headers" => inbox[i].of # NoAsk

(* A bad record is read as a header.                                       *)
BadHeader ==
  \A i \in DOMAIN inbox : inbox[i].kind = "bad" /\ inbox[i].of = serves /\ serves # NoAsk =>
    /\ state = "header"
    /\ \A j \in 1 .. i - 1 : inbox[j].of = serves => inbox[j].kind = "line"

(* What waits is for the request being served, and nothing follows an end. *)
Matched ==
  ~strayed =>
    \A i \in DOMAIN inbox :
      /\ inbox[i].kind = "eof" \/ (serves # NoAsk /\ inbox[i].of = serves)
      /\ inbox[i].kind \in {"end", "final"} =>
           \A j \in DOMAIN inbox : j > i => inbox[j].kind = "eof"

(* A record after which the request has its end, whatever it is.           *)
LastWords == {"eof", "foreign", "end", "final", "bad"}
Ending(i) ==
  \/ inbox[i].kind \in LastWords
  \/ inbox[i].kind = "headers" /\ IF i = 1 THEN state = "content" ELSE inbox[i - 1].kind = "data"
WillEnd ==
  /\ backend.gone => \E i \in DOMAIN inbox : inbox[i].kind = "eof"
  /\ Awaited => \/ \E i \in DOMAIN units : units[i].kind = "head" /\ units[i].of = serves
                \/ backend.owes
                \/ \E i \in DOMAIN inbox : Ending(i)

(* The answer is read once the request has been sent.                      *)
ReadsOn ==
  Awaited /\ req[serves].sent =>
    /\ proto = "fcgi" => reading \/ \E i \in DOMAIN units : units[i].kind = "end"
    /\ proto = "ajp" /\ conn = "up" /\ req[serves].post => reading \/ req[serves].full

Exchange == OpenLine /\ HeadedFirst /\ Asked /\ Named /\ BadHeader /\ Matched /\ WillEnd /\ ReadsOn
RecInv ==
  /\ RecTypes /\ AllGiven /\ News /\ Records!DeathsExplained
  /\ agent = "up" => Entered /\ (conn \in {"none", "connecting", "up"} => Exchange)

(* Sequences that grow at the end and shrink at the front.                 *)
LEMMA Joined ==
  ASSUME NEW S, NEW s \in Seq(S), NEW t \in Seq(S)
  PROVE  /\ s \o t \in Seq(S) /\ Len(s) \in Nat /\ DOMAIN s = 1 .. Len(s) /\ DOMAIN t = 1 .. Len(t)
         /\ \A i \in DOMAIN s : i \in DOMAIN (s \o t) /\ (s \o t)[i] = s[i] /\ i \in Nat /\ i <= Len(s)
         /\ \A i \in DOMAIN t : Len(s) + i \in DOMAIN (s \o t) /\ (s \o t)[Len(s) + i] = t[i] /\ i \in Nat /\ i > 0
         /\ \A i \in DOMAIN (s \o t) : i \in DOMAIN s \/ \E j \in DOMAIN t : i = Len(s) + j
<1>1. Len(s) \in Nat /\ Len(t) \in Nat /\ DOMAIN s = 1 .. Len(s) /\ DOMAIN t = 1 .. Len(t)
  BY LenProperties
<1>2. /\ s \o t \in Seq(S) /\ Len(s \o t) = Len(s) + Len(t)
      /\ \A i \in 1 .. Len(s) + Len(t) : (s \o t)[i] = IF i <= Len(s) THEN s[i] ELSE t[i - Len(s)]
  BY ConcatProperties
<1>3. DOMAIN (s \o t) = 1 .. Len(s) + Len(t)
  BY <1>2, LenProperties
<1>4. \A i \in DOMAIN (s \o t) : i \in DOMAIN s \/ \E j \in DOMAIN t : i = Len(s) + j
  <2> SUFFICES ASSUME NEW i \in 1 .. Len(s) + Len(t), i > Len(s)
               PROVE  \E j \in DOMAIN t : i = Len(s) + j
    BY <1>1, <1>3
  <2>1. i - Len(s) \in DOMAIN t /\ i = Len(s) + (i - Len(s))
    BY <1>1
  <2> QED  BY <2>1
<1> QED  BY <1>1, <1>2, <1>3, <1>4

LEMMA Shortened ==
  ASSUME NEW S, NEW s \in Seq(S), s # <<>>
  PROVE  /\ Tail(s) \in Seq(S) /\ Head(s) \in S /\ 1 \in DOMAIN s /\ s[1] = Head(s)
         /\ \A i \in DOMAIN s : i \in Nat /\ i > 0 /\ (i > 1 => i - 1 \in DOMAIN Tail(s) /\ Tail(s)[i - 1] = s[i])
         /\ \A i \in DOMAIN Tail(s) : i \in Nat /\ i > 0 /\ i + 1 \in DOMAIN s /\ Tail(s)[i] = s[i + 1]
<1>1. Len(s) \in Nat \ {0} /\ DOMAIN s = 1 .. Len(s)
  BY LenProperties, EmptySeq
<1>2. /\ Head(s) \in S /\ Tail(s) \in Seq(S) /\ Len(Tail(s)) = Len(s) - 1
      /\ \A i \in 1 .. Len(Tail(s)) : Tail(s)[i] = s[i + 1]
  BY HeadTailProperties
<1>3. DOMAIN Tail(s) = 1 .. Len(s) - 1
  BY <1>2, LenProperties
<1>4. Head(s) = s[1]
  OBVIOUS
<1> QED  BY <1>1, <1>2, <1>3, <1>4

LEMMA NoAskIsNone == NoAsk \notin Asks
BY RecordsAssumption DEF NoAsk, Asks, Records!None, Records!Requests, RecordsAssumption

(* What nothing is done about stays so.                                    *)
LEMMA RecSame == ASSUME RecInv, UNCHANGED Records!vars  PROVE RecInv'
<1>1. UNCHANGED <<proto, agent, conn, serves, state, line, reading, units, inbox,
                  backend, req, cut, strayed, refused, faults>>
  BY DEF Records!vars
<1>2. RecTypes' /\ AllGiven' /\ Records!DeathsExplained'
  BY <1>1 DEF RecInv, RecTypes, AllGiven, Records!DeathsExplained, Records!Unheard
<1>3. News'
  BY <1>1 DEF RecInv, News, Unknown
<1>4. Entered = Entered' /\ OpenLine = OpenLine' /\ HeadedFirst = HeadedFirst' /\ Asked = Asked' /\ Named = Named'
  BY <1>1 DEF Entered, Awaited, OpenLine, HeadedFirst, Asked, Named
<1>5. BadHeader = BadHeader' /\ Matched = Matched' /\ WillEnd = WillEnd' /\ ReadsOn = ReadsOn'
  BY <1>1 DEF BadHeader, Matched, WillEnd, Awaited, Ending, ReadsOn
<1> QED  BY <1>1, <1>2, <1>3, <1>4, <1>5 DEF RecInv, Exchange

LEMMA RecStart == ASSUME Records!Init  PROVE RecInv
<1>0. /\ proto \in {"fcgi", "ajp"} /\ agent = "up" /\ conn = "none" /\ serves = NoAsk
      /\ state = "header" /\ line = {} /\ reading = FALSE /\ units = <<>> /\ inbox = <<>>
      /\ backend = [heard |-> NoAsk, whole |-> TRUE, owes |-> FALSE, gone |-> FALSE]
      /\ cut = {} /\ strayed = FALSE /\ refused = {} /\ faults = 0
      /\ backend = Records!Idle
  BY Zenon DEF Records!Init, Records!Idle, NoAsk
<1>1. req = [r \in Asks |-> req[r]] /\
      \A r \in Asks : /\ req[r] \in AskRec /\ req[r].phase = "new" /\ ~req[r].sent /\ ~req[r].full
                      /\ ~req[r].headed /\ req[r].headers = {} /\ req[r].of = {} /\ req[r].answer = "none"
  <2>1. req \in [Asks -> {[Records!NewRequest EXCEPT !.post = p] : p \in BOOLEAN}]
    BY Zenon DEF Records!Init, Asks
  <2>2. ASSUME NEW r \in Asks
        PROVE  \E p \in BOOLEAN : req[r] = [Records!NewRequest EXCEPT !.post = p]
    BY <2>1, Zenon
  <2>3. ASSUME NEW p \in BOOLEAN, NEW q, q = [Records!NewRequest EXCEPT !.post = p]
        PROVE  /\ q \in AskRec /\ q.phase = "new" /\ ~q.sent /\ ~q.full
               /\ ~q.headed /\ q.headers = {} /\ q.of = {} /\ q.answer = "none"
    BY <2>3 DEF AskRec, Records!NewRequest
  <2> QED  BY <2>1, <2>2, <2>3, Zenon
<1>2. req \in [Asks -> AskRec]
  BY <1>1
<1>3. RecTypes
  <2>1. /\ <<>> \in Seq(Outgoing) /\ <<>> \in Seq(Items) /\ DOMAIN <<>> = {} /\ 0 \in 0 .. MaxFaults
        /\ backend \in [heard : Asks \cup {NoAsk}, whole : BOOLEAN, owes : BOOLEAN, gone : BOOLEAN]
    BY <1>0, RecordsAssumption DEF RecordsAssumption
  <2> QED  BY <1>0, <1>2, <2>1 DEF RecTypes
<1>4. AllGiven /\ News
  BY <1>0, <1>1, NoAskIsNone DEF AllGiven, Given, News, Unknown
<1>5. Entered /\ Exchange
  <2>1. Entered
    BY <1>0, <1>1 DEF Entered, Awaited
  <2>2. OpenLine /\ HeadedFirst /\ Asked /\ Named /\ BadHeader /\ Matched
    BY <1>0 DEF OpenLine, HeadedFirst, Asked, Named, BadHeader, Matched
  <2>3. WillEnd /\ ReadsOn
    BY <1>0 DEF WillEnd, ReadsOn, Awaited
  <2> QED  BY <2>1, <2>2, <2>3 DEF Exchange
<1> QED  BY <1>0, <1>3, <1>4, <1>5 DEF RecInv, Records!DeathsExplained

-----------------------------------------------------------------------------
(* What happens to the connection as a whole.  A step that changes one     *)
(* request's record.                                                       *)
LEMMA GivenStays ==
  ASSUME RecInv, proto' = proto, cut \subseteq cut', strayed => strayed',
         NEW r \in Asks, req' = [req EXCEPT ![r] = req'[r]], Given(r, req'[r], cut', strayed', proto)
  PROVE  AllGiven'
<1> SUFFICES ASSUME NEW o \in Asks  PROVE Given(o, req[o], cut, strayed, proto)'
  BY DEF AllGiven
<1>1. CASE o = r
  BY <1>1 DEF Given
<1>2. CASE o # r
  <2>1. req'[o] = req[o] /\ Given(o, req[o], cut, strayed, proto)
    BY <1>2 DEF RecInv, RecTypes, AllGiven
  <2> QED  BY <2>1 DEF Given
<1> QED  BY <1>1, <1>2

LEMMA GivenSame ==
  ASSUME RecInv, proto' = proto, cut' = cut, strayed => strayed', req' = req
  PROVE  AllGiven'
BY DEF RecInv, AllGiven, Given

(* The connection has been closed, or is being closed: nothing is awaited. *)
LEMMA Parting ==
  ASSUME RecInv, agent = "up", agent' = "up",
         conn' \in {"closing", "closed"}, reading' \in BOOLEAN, line' \in {line, {}}, state' \in {state, "header"},
         units' \in {units, <<>>}, inbox' \in {inbox, <<>>} \/ (inbox # <<>> /\ inbox' = Tail(inbox)),
         backend' = backend, proto' = proto, strayed' = strayed, refused' = refused,
         faults' = faults, cut \subseteq cut', cut' \subseteq Asks,
         \A r \in cut' \ cut : req[r].phase # "new",
         \/ /\ serves' \in {serves, NoAsk} /\ req' = req /\ \A r \in Asks : req[r].phase # "arrived"
         \/ /\ serves \in Asks /\ serves' = NoAsk
            /\ \E q \in AskRec : /\ req' = [req EXCEPT ![serves] = q]
                                 /\ q.phase \in {"ended", "returned"} /\ Given(serves, q, cut', strayed, proto)
  PROVE  RecInv'
<1>1. /\ req' \in [Asks -> AskRec] /\ \A r \in Asks : req'[r].phase # "arrived"
      /\ \A r \in Asks : req'[r].phase = "new" => req'[r] = req[r]
      /\ serves' \in {serves, NoAsk} /\ AllGiven'
      /\ serves' # NoAsk => req' = req
  <2>1. CASE req' = req
    <3>1. AllGiven'
      BY <2>1 DEF RecInv, AllGiven, Given
    <3> QED  BY <2>1, <3>1 DEF RecInv, RecTypes, Entered
  <2>2. CASE \E q \in AskRec : /\ serves \in Asks /\ serves' = NoAsk /\ req' = [req EXCEPT ![serves] = q]
                               /\ q.phase \in {"ended", "returned"} /\ Given(serves, q, cut', strayed, proto)
    <3>1. PICK q \in AskRec : /\ serves \in Asks /\ serves' = NoAsk /\ req' = [req EXCEPT ![serves] = q]
                              /\ q.phase \in {"ended", "returned"} /\ Given(serves, q, cut', strayed, proto)
      BY <2>2
    <3>2. req \in [Asks -> AskRec]
      BY DEF RecInv, RecTypes
    <3>3. req'[serves] = q /\ req' \in [Asks -> AskRec] /\ \A o \in Asks \ {serves} : req'[o] = req[o]
      BY <3>1, <3>2
    <3>4. AllGiven'
      <4>1. req' = [req EXCEPT ![serves] = req'[serves]] /\ Given(serves, req'[serves], cut', strayed', proto)
        BY <3>1, <3>3
      <4> QED  BY <3>1, <4>1, GivenStays
    <3>5. \A r \in Asks : req[r].phase = "arrived" => r = serves
      BY DEF RecInv, Entered
    <3>6. \A r \in Asks : req'[r].phase # "arrived" /\ (req'[r].phase = "new" => req'[r] = req[r])
      BY <3>1, <3>3, <3>5
    <3> QED  BY <3>1, <3>3, <3>4, <3>6
  <2> QED  BY <2>1, <2>2
<1>2. /\ units' \in Seq(Outgoing) /\ inbox' \in Seq(Items)
      /\ \A i \in DOMAIN units' : \E j \in DOMAIN units : units'[i] = units[j]
      /\ \A i \in DOMAIN inbox' : \E j \in DOMAIN inbox : inbox'[i] = inbox[j]
  <2>1. units \in Seq(Outgoing) /\ inbox \in Seq(Items) /\ <<>> \in Seq(Outgoing) /\ <<>> \in Seq(Items)
        /\ DOMAIN <<>> = {}
    BY DEF RecInv, RecTypes
  <2>2. units' \in Seq(Outgoing) /\ \A i \in DOMAIN units' : \E j \in DOMAIN units : units'[i] = units[j]
    BY <2>1
  <2>3. CASE inbox' \in {inbox, <<>>}
    BY <2>1, <2>2, <2>3
  <2>4. CASE inbox # <<>> /\ inbox' = Tail(inbox)
    BY <2>1, <2>2, <2>4, Shortened
  <2> QED  BY <2>3, <2>4
<1>3. RecTypes'
  <2>1. \A i \in DOMAIN inbox' : /\ proto = "fcgi" => inbox'[i].kind \notin {"headers", "wants", "final"}
          /\ proto = "ajp" => inbox'[i].kind \notin {"part", "line", "blank", "drained", "bad"}
    BY <1>2 DEF RecInv, RecTypes
  <2> QED  BY <1>1, <1>2, <2>1 DEF RecInv, RecTypes
<1>4. News'
  <2> SUFFICES ASSUME NEW r \in Asks, req'[r].phase = "new"  PROVE Unknown(r)'
    BY DEF News
  <2>1. req'[r] = req[r] /\ req[r].phase = "new" /\ Unknown(r)
    BY <1>1 DEF RecInv, News
  <2> QED  BY <1>1, <1>2, <2>1, NoAskIsNone DEF Unknown
<1>5. Entered'
  BY <1>1 DEF RecInv, Entered, Awaited
<1> QED  BY <1>1, <1>3, <1>4, <1>5 DEF RecInv, Records!DeathsExplained

(* The agent dies.                                                         *)
LEMMA Dying ==
  ASSUME RecInv, agent = "up", NEW why \in {"stray", "id", "resume", "consumed"}, Records!Dies(why),
         why = "stray" => strayed, why = "id" => serves \in refused,
         why = "resume" => conn = "closed" /\ \E r \in Asks : req[r].full /\ req[r].phase = "ended",
         why = "consumed" => \E i \in DOMAIN units : Records!Unheard(units[i]),
         inbox' = inbox \/ (inbox # <<>> /\ inbox' = Tail(inbox)),
         UNCHANGED <<proto, units, backend, strayed, refused, faults>>
  PROVE  RecInv'
<1>1. agent' = why /\ UNCHANGED <<conn, serves, state, line, reading, req, cut>>
  BY DEF Records!Dies
<1>2. inbox' \in Seq(Items) /\ \A i \in DOMAIN inbox' : \E j \in DOMAIN inbox : inbox'[i] = inbox[j]
  <2>1. inbox \in Seq(Items)
    BY DEF RecInv, RecTypes
  <2>2. CASE inbox' = inbox
    BY <2>1, <2>2
  <2>3. CASE inbox # <<>> /\ inbox' = Tail(inbox)
    BY <2>1, <2>3, Shortened
  <2> QED  BY <2>2, <2>3
<1>3. RecTypes'
  <2>1. \A i \in DOMAIN inbox' : /\ proto = "fcgi" => inbox'[i].kind \notin {"headers", "wants", "final"}
          /\ proto = "ajp" => inbox'[i].kind \notin {"part", "line", "blank", "drained", "bad"}
    BY <1>2 DEF RecInv, RecTypes
  <2> QED  BY <1>1, <1>2, <2>1 DEF RecInv, RecTypes
<1>4. AllGiven'
  BY <1>1, GivenSame
<1>5. News'
  BY <1>1, <1>2 DEF RecInv, News, Unknown
<1>6. Records!DeathsExplained'
  <2>1. why = "consumed" => (\E i \in DOMAIN units : Records!Unheard(units[i]))'
    BY <1>1 DEF Records!Unheard
  <2>2. why = "resume" => (conn = "closed" /\ \E r \in Asks : req[r].full /\ req[r].phase = "ended")'
    BY <1>1
  <2> QED  BY <1>1, <2>1, <2>2 DEF Records!DeathsExplained, Asks
<1> QED  BY <1>1, <1>3, <1>4, <1>5, <1>6 DEF RecInv

-----------------------------------------------------------------------------
(* What the backend says.  It stands behind what waits, and it owes        *)
(* nothing after it.                                                       *)
LastOf(t, i) ==
  \/ t[i].kind \in LastWords
  \/ t[i].kind = "headers" /\ i > 1 /\ t[i - 1].kind = "data"

Fitting(k) ==
  /\ proto = "fcgi" => k \notin {"headers", "wants", "final"}
  /\ proto = "ajp" => k \notin {"part", "line", "blank", "drained", "bad"}

Adds(t) == inbox' = inbox \o t
Listens == UNCHANGED <<proto, agent, conn, serves, state, line, reading, units, req, cut, refused>>
Settles(t) ==
  /\ backend' \in [heard : {backend.heard}, whole : BOOLEAN, owes : {FALSE}, gone : BOOLEAN]
  /\ backend'.gone => \E i \in DOMAIN t : t[i].kind = "eof"
  /\ backend.owes => \E i \in DOMAIN t : LastOf(t, i)
  /\ strayed' \in BOOLEAN /\ (strayed => strayed') /\ faults' \in 0 .. MaxFaults
Spoke(t) ==
  \A i \in DOMAIN t :
    /\ Fitting(t[i].kind)
    /\ t[i].of = backend.heard \/ (t[i].of = NoAsk /\ t[i].kind = "eof")
    /\ t[i].kind = "eof" \/ backend.owes \/ strayed'
    /\ t[i].kind \in {"end", "final"} => \A j \in DOMAIN t : j <= i
    /\ t[i].kind = "bad" => backend.owes /\ \A j \in 1 .. i - 1 : t[j].kind = "line"
    /\ t[i].kind = "headers" => backend.owes

LEMMA BackendSays ==
  ASSUME RecInv, agent = "up", conn = "up", ~backend.gone, NEW t \in Seq(Items), Adds(t),
         Listens, Settles(t), Spoke(t)
  PROVE  RecInv'
<1> DEFINE L == Len(inbox)
<1>1. /\ L \in Nat /\ inbox' \in Seq(Items) /\ DOMAIN inbox = 1 .. L /\ DOMAIN t = 1 .. Len(t)
      /\ \A i \in DOMAIN inbox : i \in DOMAIN inbox' /\ inbox'[i] = inbox[i] /\ i \in Nat /\ i <= L
      /\ \A i \in DOMAIN t : L + i \in DOMAIN inbox' /\ inbox'[L + i] = t[i] /\ i \in Nat /\ i > 0
      /\ \A i \in DOMAIN inbox' : i \in DOMAIN inbox \/ \E j \in DOMAIN t : i = L + j
  <2>1. inbox \in Seq(Items)
    BY DEF RecInv, RecTypes
  <2>2. /\ inbox \o t \in Seq(Items) /\ L \in Nat /\ DOMAIN inbox = 1 .. L /\ DOMAIN t = 1 .. Len(t)
        /\ \A i \in DOMAIN inbox : i \in DOMAIN (inbox \o t) /\ (inbox \o t)[i] = inbox[i] /\ i \in Nat /\ i <= L
        /\ \A i \in DOMAIN t : L + i \in DOMAIN (inbox \o t) /\ (inbox \o t)[L + i] = t[i] /\ i \in Nat /\ i > 0
        /\ \A i \in DOMAIN (inbox \o t) : i \in DOMAIN inbox \/ \E j \in DOMAIN t : i = L + j
    BY <2>1, Joined, Zenon
  <2> QED  BY <2>2, Zenon DEF Adds
<1> HIDE DEF L
<1>2. Entered /\ Exchange /\ backend'.heard = backend.heard /\ ~backend'.owes
  BY DEF RecInv, Settles
<1>s. /\ proto' = proto /\ agent' = agent /\ conn' = conn /\ serves' = serves /\ state' = state /\ line' = line
      /\ reading' = reading /\ units' = units /\ req' = req /\ cut' = cut /\ refused' = refused
      /\ (strayed => strayed')
  BY DEF Listens, Settles
<1>t. \A i \in DOMAIN inbox' :
        \/ i \in DOMAIN inbox /\ inbox'[i] = inbox[i]
        \/ \E j \in DOMAIN t : i = L + j /\ inbox'[i] = t[j]
  BY <1>1
<1>3. RecTypes'
  <2>1. \A i \in DOMAIN inbox' : Fitting(inbox'[i].kind)
    BY <1>t DEF RecInv, RecTypes, Spoke, Fitting
  <2>2. backend' \in [heard : Asks \cup {NoAsk}, whole : BOOLEAN, owes : BOOLEAN, gone : BOOLEAN]
    BY DEF RecInv, RecTypes, Settles
  <2>3. strayed' \in BOOLEAN /\ faults' \in 0 .. MaxFaults /\ inbox' \in Seq(Items)
    BY <1>1 DEF Settles
  <2> QED  BY <1>s, <2>1, <2>2, <2>3 DEF RecInv, RecTypes, Fitting
<1>4. AllGiven'
  BY <1>s, GivenSame
<1>5. News'
  <2> SUFFICES ASSUME NEW r \in Asks, req[r].phase = "new"  PROVE Unknown(r)'
    BY <1>s DEF News
  <2>1. Unknown(r)
    BY DEF RecInv, News
  <2>2. \A i \in DOMAIN t : t[i].of # r
    BY <2>1, NoAskIsNone DEF Unknown, Spoke
  <2>3. \A i \in DOMAIN inbox' : inbox'[i].of # r
    BY <1>t, <2>1, <2>2 DEF Unknown
  <2> QED  BY <1>2, <1>s, <2>1, <2>3 DEF Unknown
<1>6. Entered'
  BY <1>2, <1>s DEF Entered, Awaited
<1>7. OpenLine' /\ HeadedFirst' /\ ReadsOn'
  BY <1>2, <1>s DEF Exchange, OpenLine, HeadedFirst, ReadsOn, Awaited
<1>8. Asked'
  <2>1. ASSUME serves # NoAsk, backend.heard # serves, ~strayed \/ proto = "fcgi"
        PROVE  (\A i \in DOMAIN inbox' : inbox'[i].of # serves) /\ (proto = "fcgi" => state = "header")
    <3>1. (\A i \in DOMAIN inbox : inbox[i].of # serves) /\ (proto = "fcgi" => state = "header")
      BY <1>2, <2>1 DEF Exchange, Asked
    <3>2. \A i \in DOMAIN t : t[i].of # serves
      BY <2>1 DEF Spoke
    <3> QED  BY <1>t, <3>1, <3>2
  <2> QED  BY <1>2, <1>s, <2>1 DEF Exchange, Asked
<1>9. BadHeader'
  <2> SUFFICES ASSUME NEW i \in DOMAIN inbox', inbox'[i].kind = "bad", inbox'[i].of = serves, serves # NoAsk
               PROVE  state = "header" /\ \A j \in 1 .. i - 1 : inbox'[j].of = serves => inbox'[j].kind = "line"
    BY <1>s DEF BadHeader
  <2>1. CASE i \in DOMAIN inbox
    <3>1. \A j \in 1 .. i - 1 : j \in DOMAIN inbox
      BY <1>1, <2>1
    <3>2. inbox'[i] = inbox[i] /\ \A j \in 1 .. i - 1 : inbox'[j] = inbox[j]
      BY <1>1, <2>1, <3>1
    <3> QED  BY <1>2, <2>1, <3>2 DEF Exchange, BadHeader
  <2>2. ASSUME NEW k \in DOMAIN t, i = L + k
        PROVE  state = "header" /\ \A j \in 1 .. i - 1 : inbox'[j].of = serves => inbox'[j].kind = "line"
    <3>1. t[k].kind = "bad" /\ backend.owes /\ \A j \in 1 .. k - 1 : t[j].kind = "line"
      BY <1>1, <2>2 DEF Spoke
    <3>2. proto = "fcgi"
      BY <3>1 DEF Spoke, Fitting, RecInv, RecTypes
    <3>3. state = "header" /\ \A j \in DOMAIN inbox : inbox[j].of # serves
      BY <1>2, <3>1, <3>2 DEF Exchange, Asked
    <3>4. ASSUME NEW j \in 1 .. i - 1, inbox'[j].of = serves  PROVE inbox'[j].kind = "line"
      <4>1. j \in Nat /\ k \in 1 .. Len(t) /\ j < L + k
        BY <1>1, <2>2
      <4>2. CASE j \in DOMAIN inbox
        BY <1>1, <3>3, <3>4, <4>2
      <4>3. CASE j \notin DOMAIN inbox
        <5>1. j > L /\ j - L \in 1 .. k - 1 /\ j - L \in DOMAIN t /\ L + (j - L) = j
          BY <1>1, <3>4, <4>1, <4>3
        <5>2. inbox'[j] = t[j - L]
          BY <1>1, <5>1
        <5> QED  BY <3>1, <5>1, <5>2
      <4> QED  BY <4>2, <4>3
    <3> QED  BY <3>3, <3>4
  <2> QED  BY <1>1, <2>1, <2>2
<1>10. Matched'
  <2> SUFFICES ASSUME ~strayed', NEW i \in DOMAIN inbox'
               PROVE  /\ inbox'[i].kind = "eof" \/ (serves # NoAsk /\ inbox'[i].of = serves)
                      /\ inbox'[i].kind \in {"end", "final"} =>
                           \A j \in DOMAIN inbox' : j > i => inbox'[j].kind = "eof"
    BY <1>s DEF Matched
  <2>1. ~strayed /\ Matched /\ Asked
    BY <1>2, <1>s DEF Exchange
  <2>2. CASE backend.owes
    <3>1. serves # NoAsk /\ backend.heard = serves /\ \A j \in DOMAIN inbox : inbox[j].kind = "eof"
      BY <2>1, <2>2 DEF Matched, Asked
    <3>2. CASE i \in DOMAIN inbox
      BY <1>1, <3>1, <3>2
    <3>3. ASSUME NEW k \in DOMAIN t, i = L + k
          PROVE  /\ inbox'[i].kind = "eof" \/ inbox'[i].of = serves
                 /\ inbox'[i].kind \in {"end", "final"} => \A j \in DOMAIN inbox' : j > i => inbox'[j].kind = "eof"
      <4>1. inbox'[i] = t[k] /\ (t[k].kind = "eof" \/ t[k].of = backend.heard)
        BY <1>1, <3>3 DEF Spoke
      <4>2. ASSUME t[k].kind \in {"end", "final"}, NEW j \in DOMAIN inbox', j > i  PROVE FALSE
        <5>1. \A m \in DOMAIN t : m <= k
          BY <4>2 DEF Spoke
        <5>2. CASE j \in DOMAIN inbox
          BY <1>1, <3>3, <4>2, <5>2
        <5>3. ASSUME NEW m \in DOMAIN t, j = L + m  PROVE FALSE
          BY <1>1, <3>3, <4>2, <5>1, <5>3
        <5> QED  BY <1>1, <5>2, <5>3
      <4> QED  BY <3>1, <4>1, <4>2
    <3> QED  BY <1>1, <3>1, <3>2, <3>3
  <2>3. CASE ~backend.owes
    <3>1. \A k \in DOMAIN t : t[k].kind = "eof"
      BY <2>3 DEF Spoke
    <3>2. \A j \in DOMAIN inbox' : inbox'[j].kind = "eof" \/ (j \in DOMAIN inbox /\ inbox'[j] = inbox[j])
      BY <1>t, <3>1
    <3> QED  BY <2>1, <3>2 DEF Matched
  <2> QED  BY <2>2, <2>3
<1>11. WillEnd'
  <2>1. backend'.gone => \E i \in DOMAIN inbox' : inbox'[i].kind = "eof"
    BY <1>1 DEF Settles
  <2>2. ASSUME NEW i \in DOMAIN inbox, Ending(i)  PROVE Ending(i)'
    <3>1. i # 1 => i - 1 \in DOMAIN inbox
      BY <1>1
    <3>2. inbox'[i] = inbox[i] /\ (i # 1 => inbox'[i - 1] = inbox[i - 1])
      BY <1>1, <3>1
    <3> QED  BY <1>s, <2>2, <3>2 DEF Ending
  <2>3. ASSUME NEW i \in DOMAIN t, LastOf(t, i), NEW m \in DOMAIN inbox', m = L + i  PROVE Ending(m)'
    <3>1. CASE t[i].kind \in LastWords
      BY <1>1, <2>3, <3>1 DEF Ending
    <3>2. CASE t[i].kind = "headers" /\ i > 1 /\ t[i - 1].kind = "data"
      <4>1. i \in 1 .. Len(t) /\ i - 1 \in DOMAIN t /\ L + (i - 1) = m - 1 /\ m # 1
        BY <1>1, <2>3, <3>2
      <4>2. inbox'[m].kind = "headers" /\ inbox'[m - 1].kind = "data"
        BY <1>1, <2>3, <3>2, <4>1
      <4> QED  BY <4>1, <4>2 DEF Ending
    <3> QED  BY <2>3, <3>1, <3>2 DEF LastOf
  <2>4. (\E i \in DOMAIN inbox : Ending(i)) \/ backend.owes => \E i \in DOMAIN inbox' : Ending(i)'
    <3>1. backend.owes => \E i \in DOMAIN t : LastOf(t, i)
      BY DEF Settles
    <3>2. (\A i \in DOMAIN inbox : i \in DOMAIN inbox') /\ \A i \in DOMAIN t : L + i \in DOMAIN inbox'
      BY <1>1
    <3> QED  BY <2>2, <2>3, <3>1, <3>2
  <2>5. Awaited' = Awaited /\ WillEnd
    BY <1>2, <1>s DEF Awaited, Exchange
  <2> QED  BY <1>s, <2>1, <2>4, <2>5 DEF WillEnd
<1>12. Records!DeathsExplained'
  BY <1>s DEF Records!DeathsExplained
<1>13. Named'
  BY <1>2, <1>t DEF Exchange, Named, Spoke
<1> QED  BY <1>s, <1>3, <1>4, <1>5, <1>6, <1>7, <1>8, <1>9, <1>10, <1>11, <1>12, <1>13 DEF RecInv, Exchange

(* The records of an answer.                                               *)
LEMMA AnswersEnd ==
  ASSUME proto \in {"fcgi", "ajp"}, NEW a \in Records!Answers
  PROVE  /\ a \in Seq(AllKinds) /\ Len(a) \in Nat \ {0} /\ DOMAIN a = 1 .. Len(a)
         /\ a[Len(a)] \in {"end", "final"} /\ \A i \in DOMAIN a : Fitting(a[i]) /\ a[i] \notin {"eof", "bad"}
         /\ \A i \in 1 .. Len(a) - 1 : a[i] \notin {"end", "final"}
<1> USE DEF AllKinds, Fitting
<1>1. CASE proto = "fcgi" /\ a = <<"part", "line", "blank", "data", "drained", "end">>
  BY <1>1
<1>2. CASE proto = "fcgi" /\ a = <<"line", "blank", "end">>
  BY <1>2
<1>3. CASE proto = "fcgi" /\ a = <<"blank", "data", "end">>
  BY <1>3
<1>4. CASE proto = "fcgi" /\ a = <<"line", "part", "end">>
  BY <1>4
<1>5. CASE proto = "fcgi" /\ a = <<"drained", "end">>
  BY <1>5
<1>6. CASE proto = "ajp" /\ a = <<"headers", "data", "data", "end">>
  BY <1>6
<1>7. CASE proto = "ajp" /\ a = <<"wants", "headers", "end">>
  BY <1>7
<1>8. CASE proto = "ajp" /\ a = <<"end">>
  BY <1>8
<1>9. CASE proto = "ajp" /\ a = <<"data", "final">>
  BY <1>9
<1> QED  BY <1>1, <1>2, <1>3, <1>4, <1>5, <1>6, <1>7, <1>8, <1>9 DEF Records!Answers

Spoken(a) == [i \in DOMAIN a |-> [kind |-> a[i], of |-> backend.heard]]

LEMMA Speech ==
  ASSUME RecInv, NEW n \in Nat, NEW a, DOMAIN a = 1 .. n, \A i \in 1 .. n : a[i] \in AllKinds
  PROVE  /\ Spoken(a) \in Seq(Items) /\ DOMAIN Spoken(a) = 1 .. n /\ Len(Spoken(a)) = n
         /\ \A i \in 1 .. n : Spoken(a)[i].kind = a[i] /\ Spoken(a)[i].of = backend.heard
         /\ Records!Says(a) = inbox \o Spoken(a)
<1>1. \A i \in 1 .. n : [kind |-> a[i], of |-> backend.heard] \in Items
  BY DEF RecInv, RecTypes, Items
<1> QED  BY <1>1 DEF Spoken, Records!Says

LEMMA AnswersKeeps == ASSUME RecInv, Records!UpAnswers  PROVE RecInv'
<1>1. /\ agent = "up" /\ conn = "up" /\ backend.owes /\ ~backend.gone
      /\ backend' = [backend EXCEPT !.owes = FALSE]
      /\ UNCHANGED <<proto, agent, conn, serves, state, line, reading, units, req, cut, refused, strayed, faults>>
  BY DEF Records!UpAnswers, Records!Runs, Records!past
<1>2. PICK a \in Records!Answers : inbox' = Records!Says(a)
  BY DEF Records!UpAnswers
<1>3. proto \in {"fcgi", "ajp"} /\ strayed \in BOOLEAN /\ faults \in 0 .. MaxFaults
      /\ backend' \in [heard : {backend.heard}, whole : BOOLEAN, owes : {FALSE}, gone : BOOLEAN] /\ ~backend'.gone
  BY <1>1 DEF RecInv, RecTypes
<1> DEFINE t == Spoken(a)
<1>4. /\ a \in Seq(AllKinds) /\ Len(a) \in Nat \ {0} /\ DOMAIN a = 1 .. Len(a)
      /\ a[Len(a)] \in {"end", "final"} /\ \A i \in DOMAIN a : Fitting(a[i]) /\ a[i] \notin {"eof", "bad"}
      /\ \A i \in 1 .. Len(a) - 1 : a[i] \notin {"end", "final"}
  BY <1>3, AnswersEnd
<1>5. /\ t \in Seq(Items) /\ DOMAIN t = 1 .. Len(a) /\ inbox' = inbox \o t
      /\ \A i \in 1 .. Len(a) : t[i].kind = a[i] /\ t[i].of = backend.heard
  BY <1>2, <1>4, Speech
<1> HIDE DEF t
<1>6. LastOf(t, Len(a)) /\ Len(a) \in DOMAIN t
  BY <1>4, <1>5 DEF LastOf, LastWords
<1>7. \A i \in DOMAIN t : t[i].kind \in {"end", "final"} => \A j \in DOMAIN t : j <= i
  BY <1>4, <1>5
<1>8. \A i \in DOMAIN t : Fitting(t[i].kind) /\ t[i].kind # "bad"
  BY <1>4, <1>5
<1>9. Adds(t)
  BY <1>5 DEF Adds
<1>10. Listens /\ Settles(t) /\ Spoke(t)
  <2>1. Listens
    BY <1>1 DEF Listens
  <2>2. Settles(t)
    BY <1>1, <1>3, <1>6 DEF Settles
  <2>3. Spoke(t)
    BY <1>1, <1>5, <1>7, <1>8 DEF Spoke
  <2> QED  BY <2>1, <2>2, <2>3
<1> QED  BY <1>1, <1>5, <1>9, <1>10, BackendSays

LEMMA OneMoreWord ==
  ASSUME NEW u \in Seq(Items), NEW e \in Items
  PROVE  /\ Append(inbox \o u, e) = inbox \o Append(u, e) \/ inbox \notin Seq(Items)
         /\ Append(u, e) \in Seq(Items) /\ Len(u) \in Nat /\ DOMAIN Append(u, e) = 1 .. Len(u) + 1
         /\ \A i \in 1 .. Len(u) : Append(u, e)[i] = u[i]
         /\ Append(u, e)[Len(u) + 1] = e
<1>1. Append(u, e) = u \o <<e>> /\ <<e>> \in Seq(Items)
  BY AppendIsConcat
<1>2. ASSUME inbox \in Seq(Items)  PROVE Append(inbox \o u, e) = inbox \o Append(u, e)
  <2>1. inbox \o u \in Seq(Items)
    BY <1>2, ConcatProperties
  <2>2. Append(inbox \o u, e) = (inbox \o u) \o <<e>>
    BY <2>1, AppendIsConcat
  <2> QED  BY <1>1, <1>2, <2>2, ConcatAssociative
<1>3. Append(u, e) \in Seq(Items) /\ Len(Append(u, e)) = Len(u) + 1 /\ Len(u) \in Nat
      /\ (\A i \in 1 .. Len(u) : Append(u, e)[i] = u[i]) /\ Append(u, e)[Len(u) + 1] = e
  BY AppendProperties, LenProperties
<1>4. DOMAIN Append(u, e) = 1 .. Len(u) + 1
  BY <1>3, LenProperties
<1> QED  BY <1>2, <1>3, <1>4

(* The answers that are not whole.                                         *)
LEMMA StopsKeeps == ASSUME RecInv, Records!UpDies \/ Records!UpLeaves  PROVE RecInv'
<1> DEFINE eof == [kind |-> "eof", of |-> NoAsk]
<1>1. /\ agent = "up" /\ conn = "up" /\ ~backend.gone /\ faults' \in 0 .. MaxFaults /\ strayed' = strayed
      /\ backend' \in [heard : {backend.heard}, whole : BOOLEAN, owes : {FALSE}, gone : BOOLEAN] /\ Listens
      /\ strayed \in BOOLEAN /\ inbox \in Seq(Items) /\ eof \in Items /\ proto \in {"fcgi", "ajp"}
  <2>1. RecTypes
    BY DEF RecInv
  <2>2. /\ agent = "up" /\ conn = "up" /\ ~backend.gone /\ faults < MaxFaults /\ faults' = faults + 1
        /\ strayed' = (strayed \/ FALSE) /\ Listens
        /\ backend' = [backend EXCEPT !.owes = FALSE, !.gone = TRUE]
           \/ (~backend.owes /\ backend' = [backend EXCEPT !.gone = TRUE])
    BY DEF Records!UpDies, Records!UpLeaves, Records!Fault, Listens
  <2>3. /\ backend \in [heard : Asks \cup {NoAsk}, whole : BOOLEAN, owes : BOOLEAN, gone : BOOLEAN]
        /\ strayed \in BOOLEAN /\ inbox \in Seq(Items) /\ proto \in {"fcgi", "ajp"} /\ faults \in 0 .. MaxFaults
    BY <2>1 DEF RecTypes
  <2>4. backend' \in [heard : {backend.heard}, whole : BOOLEAN, owes : {FALSE}, gone : BOOLEAN]
    BY <2>2, <2>3
  <2>5. eof \in Items
    BY DEF Items, AllKinds
  <2>6. strayed' = strayed
    BY <2>2, <2>3
  <2>7. faults' \in 0 .. MaxFaults
    BY <2>2, <2>3, RecordsAssumption DEF RecordsAssumption
  <2> QED  BY <2>2, <2>3, <2>4, <2>5, <2>6, <2>7
<1>2. \E u \in Seq(Items) :
        /\ inbox' = Append(inbox \o u, eof) /\ (backend.owes \/ u = <<>>)
        /\ \A i \in 1 .. Len(u) :
             Fitting(u[i].kind) /\ u[i].of = backend.heard /\ u[i].kind \notin {"eof", "bad", "end", "final"}
  <2>1. CASE Records!UpLeaves
    <3>1. inbox' = Append(inbox, eof)
      BY <2>1 DEF Records!UpLeaves, NoAsk
    <3>2. <<>> \in Seq(Items) /\ inbox \o <<>> = inbox /\ Len(<<>>) = 0
      BY <1>1, ConcatEmptySeq
    <3> WITNESS <<>> \in Seq(Items)
    <3> QED  BY <3>1, <3>2
  <2>2. CASE Records!UpDies
    <3>1. PICK a \in Records!Answers, n \in 0 .. 3 :
            n < Len(a) /\ inbox' = Append(Records!Says(SubSeq(a, 1, n)), eof)
      BY <2>2 DEF Records!UpDies, NoAsk
    <3>2. /\ a \in Seq(AllKinds) /\ Len(a) \in Nat \ {0} /\ DOMAIN a = 1 .. Len(a)
          /\ \A i \in DOMAIN a : Fitting(a[i]) /\ a[i] \notin {"eof", "bad"}
          /\ \A i \in 1 .. Len(a) - 1 : a[i] \notin {"end", "final"}
      BY <1>1, AnswersEnd
    <3>3. PICK b : b = SubSeq(a, 1, n)
      OBVIOUS
    <3>4. DOMAIN b = 1 .. n /\ n \in Nat /\ \A i \in 1 .. n : i \in 1 .. Len(a) - 1 /\ b[i] = a[i]
      BY <3>1, <3>2, <3>3
    <3>5. \A i \in 1 .. n : b[i] \in AllKinds /\ Fitting(b[i]) /\ b[i] \notin {"eof", "bad", "end", "final"}
      BY <3>2, <3>4
    <3>6. /\ Spoken(b) \in Seq(Items) /\ Len(Spoken(b)) = n
          /\ \A i \in 1 .. n : Spoken(b)[i].kind = b[i] /\ Spoken(b)[i].of = backend.heard
          /\ Records!Says(b) = inbox \o Spoken(b)
      BY <3>4, <3>5, Speech
    <3>7. \A i \in 1 .. Len(Spoken(b)) :
             Fitting(Spoken(b)[i].kind) /\ Spoken(b)[i].of = backend.heard
             /\ Spoken(b)[i].kind \notin {"eof", "bad", "end", "final"}
      BY <3>5, <3>6
    <3>8. inbox' = Append(inbox \o Spoken(b), eof) /\ backend.owes
      BY <2>2, <3>1, <3>3, <3>6 DEF Records!UpDies
    <3> QED  BY <3>6, <3>7, <3>8
  <2> QED  BY <2>1, <2>2
<1>3. PICK u \in Seq(Items) :
        /\ inbox' = Append(inbox \o u, eof) /\ (backend.owes \/ u = <<>>)
        /\ \A i \in 1 .. Len(u) :
             Fitting(u[i].kind) /\ u[i].of = backend.heard /\ u[i].kind \notin {"eof", "bad", "end", "final"}
  BY <1>2
<1>4. PICK t \in Seq(Items) : /\ t = Append(u, eof) /\ Adds(t) /\ Len(u) \in Nat /\ DOMAIN t = 1 .. Len(u) + 1
                              /\ (\A i \in 1 .. Len(u) : t[i] = u[i]) /\ t[Len(u) + 1] = eof
  <2>1. PICK t : t = Append(u, eof)
    OBVIOUS
  <2>2. /\ t \in Seq(Items) /\ Len(u) \in Nat /\ DOMAIN t = 1 .. Len(u) + 1
        /\ (\A i \in 1 .. Len(u) : t[i] = u[i]) /\ t[Len(u) + 1] = eof
        /\ Append(inbox \o u, eof) = inbox \o t
    BY <1>1, <2>1, OneMoreWord
  <2>3. Adds(t)
    BY <1>3, <2>2 DEF Adds
  <2> QED  BY <2>1, <2>2, <2>3
<1>5. Settles(t)
  <2>1. t[Len(u) + 1].kind = "eof" /\ Len(u) + 1 \in DOMAIN t
    BY <1>4
  <2>2. LastOf(t, Len(u) + 1)
    BY <2>1 DEF LastOf, LastWords
  <2> QED  BY <1>1, <2>1, <2>2 DEF Settles
<1>6. Spoke(t)
  <2> SUFFICES ASSUME NEW i \in DOMAIN t
               PROVE  /\ Fitting(t[i].kind) /\ t[i].kind \notin {"bad", "end", "final"}
                      /\ t[i].of = backend.heard \/ (t[i].of = NoAsk /\ t[i].kind = "eof")
                      /\ t[i].kind = "eof" \/ backend.owes
                      /\ t[i].kind = "headers" => backend.owes
    BY DEF Spoke
  <2>1. CASE i \in 1 .. Len(u)
    <3>1. u # <<>>
      BY <2>1
    <3> QED  BY <1>3, <1>4, <2>1, <3>1
  <2>2. CASE i = Len(u) + 1
    BY <1>4, <2>2 DEF Fitting
  <2> QED  BY <1>4, <2>1, <2>2
<1> QED  BY <1>1, <1>4, <1>5, <1>6, BackendSays

(* The records of a backend that errs, or that nobody asked.               *)
Misleading(n, a) ==
  /\ DOMAIN a = 1 .. n
  /\ \/ n = 1 /\ a[1] = "foreign" /\ backend.owes
     \/ n = 2 /\ a[1] = "line" /\ a[2] = "bad" /\ proto = "fcgi" /\ backend.owes
     \/ n = 2 /\ a[1] = "data" /\ a[2] = "headers" /\ proto = "ajp" /\ backend.owes
     \/ n = 1 /\ a[1] \in {"end", "data"} /\ ~backend.owes
     \/ n = 1 /\ a[1] = "line" /\ proto = "fcgi" /\ ~backend.owes

LEMMA MisleadsKeeps == ASSUME RecInv, Records!UpErrs \/ Records!UpStray  PROVE RecInv'
<1>1. /\ agent = "up" /\ conn = "up" /\ ~backend.gone /\ faults' \in 0 .. MaxFaults
      /\ strayed' \in BOOLEAN /\ (strayed => strayed') /\ (~backend.owes => strayed')
      /\ backend' \in [heard : {backend.heard}, whole : BOOLEAN, owes : {FALSE}, gone : {FALSE}] /\ Listens
      /\ inbox \in Seq(Items) /\ proto \in {"fcgi", "ajp"}
  <2>1. RecTypes
    BY DEF RecInv
  <2>2. /\ agent = "up" /\ conn = "up" /\ ~backend.gone /\ faults < MaxFaults /\ faults' = faults + 1 /\ Listens
        /\ (backend.owes /\ strayed' = (strayed \/ FALSE) /\ backend' = [backend EXCEPT !.owes = FALSE])
           \/ (~backend.owes /\ strayed' = (strayed \/ TRUE) /\ backend' = backend)
    BY DEF Records!UpErrs, Records!UpStray, Records!Fault, Records!wire, Listens
  <2>3. /\ backend \in [heard : Asks \cup {NoAsk}, whole : BOOLEAN, owes : BOOLEAN, gone : BOOLEAN]
        /\ strayed \in BOOLEAN /\ inbox \in Seq(Items) /\ proto \in {"fcgi", "ajp"} /\ faults \in 0 .. MaxFaults
    BY <2>1 DEF RecTypes
  <2>4. backend' \in [heard : {backend.heard}, whole : BOOLEAN, owes : {FALSE}, gone : {FALSE}]
    BY <2>2, <2>3
  <2>6. strayed' \in BOOLEAN /\ (strayed => strayed') /\ (~backend.owes => strayed')
    BY <2>2, <2>3
  <2>7. faults' \in 0 .. MaxFaults
    BY <2>2, <2>3, RecordsAssumption DEF RecordsAssumption
  <2> QED  BY <2>2, <2>3, <2>4, <2>6, <2>7
<1>2. \E n \in {1, 2} : \E a : inbox' = Records!Says(a) /\ Misleading(n, a)
  <2>0. \A x, y : /\ DOMAIN <<x>> = 1 .. 1 /\ <<x>>[1] = x
                  /\ DOMAIN <<x, y>> = 1 .. 2 /\ <<x, y>>[1] = x /\ <<x, y>>[2] = y
    OBVIOUS
  <2>1. CASE Records!UpErrs
    <3>1. backend.owes /\ \/ inbox' = Records!Says(<<"foreign">>)
                          \/ inbox' = Records!Says(<<"line", "bad">>) /\ proto = "fcgi"
                          \/ inbox' = Records!Says(<<"data", "headers">>) /\ proto = "ajp"
      BY <1>1, <2>1 DEF Records!UpErrs
    <3> QED  BY <2>0, <3>1 DEF Misleading
  <2>2. CASE Records!UpStray
    <3>1. ~backend.owes /\ \/ inbox' = Records!Says(<<"end">>)
                           \/ inbox' = Records!Says(<<"line">>) /\ proto = "fcgi"
                           \/ inbox' = Records!Says(<<"data">>)
      BY <1>1, <2>2 DEF Records!UpStray
    <3> QED  BY <2>0, <3>1 DEF Misleading
  <2> QED  BY <2>1, <2>2
<1>n. PICK n \in {1, 2} : \E a : inbox' = Records!Says(a) /\ Misleading(n, a)
  BY <1>2
<1>3. PICK a : inbox' = Records!Says(a) /\ Misleading(n, a)
  BY <1>n
<1>4. \A i \in 1 .. n : a[i] \in AllKinds /\ Fitting(a[i]) /\ a[i] # "eof" /\ i \in {1, 2}
  BY <1>1, <1>3 DEF AllKinds, Fitting, Misleading
<1>5. PICK t \in Seq(Items) : /\ Adds(t) /\ DOMAIN t = 1 .. n
                              /\ \A i \in 1 .. n : t[i].kind = a[i] /\ t[i].of = backend.heard
  <2>1. n \in Nat
    OBVIOUS
  <2> QED  BY <1>3, <1>4, <2>1, Speech DEF Adds, Misleading
<1>6. Settles(t)
  <2>1. backend.owes => \E i \in DOMAIN t : LastOf(t, i)
    <3>1. CASE n = 1 /\ a[1] = "foreign"
      BY <1>5, <3>1 DEF LastOf, LastWords
    <3>2. CASE n = 2 /\ a[2] = "bad"
      BY <1>5, <3>2 DEF LastOf, LastWords
    <3>3. CASE n = 2 /\ a[1] = "data" /\ a[2] = "headers"
      <4>1. 2 \in DOMAIN t /\ t[2].kind = "headers" /\ t[2 - 1].kind = "data"
        BY <1>5, <3>3
      <4> QED  BY <4>1 DEF LastOf
    <3> QED  BY <1>3, <3>1, <3>2, <3>3 DEF Misleading
  <2> QED  BY <1>1, <2>1 DEF Settles
<1>7. Spoke(t)
  <2> SUFFICES ASSUME NEW i \in DOMAIN t
               PROVE  /\ Fitting(t[i].kind) /\ t[i].of = backend.heard /\ (backend.owes \/ strayed')
                      /\ t[i].kind \in {"end", "final"} => \A j \in DOMAIN t : j <= i
                      /\ t[i].kind = "bad" => backend.owes /\ \A j \in 1 .. i - 1 : t[j].kind = "line"
                      /\ t[i].kind = "headers" => backend.owes
    BY DEF Spoke
  <2>0. t[i].kind \in {"end", "final"} => n = 1
    BY <1>3, <1>4, <1>5 DEF Misleading
  <2>1. t[i].kind = "bad" => i = 2 /\ a[1] = "line" /\ backend.owes
    BY <1>3, <1>4, <1>5 DEF Misleading
  <2>2. i = 2 => \A j \in 1 .. i - 1 : j = 1 /\ 1 \in 1 .. n
    BY <1>5
  <2>3. t[i].kind = "headers" => backend.owes
    BY <1>3, <1>4, <1>5 DEF Misleading
  <2> QED  BY <1>1, <1>3, <1>4, <1>5, <2>0, <2>1, <2>2, <2>3
<1> QED  BY <1>1, <1>5, <1>6, <1>7, BackendSays

-----------------------------------------------------------------------------
(* The requests.  A step that writes units for one request.                *)
LEMMA TwoUnits ==
  ASSUME NEW s \in Seq(Outgoing), NEW a \in Outgoing, NEW b \in Outgoing
  PROVE  /\ <<a>> \in Seq(Outgoing) /\ DOMAIN <<a>> = {1} /\ <<a>>[1] = a
         /\ <<a, b>> \in Seq(Outgoing) /\ DOMAIN <<a, b>> = {1, 2} /\ <<a, b>>[1] = a /\ <<a, b>>[2] = b
         /\ (s \o <<a>>) \o <<>> = s \o <<a>> /\ (s \o <<a>>) \o <<b>> = s \o <<a, b>>
<1>1. <<a>> \in Seq(Outgoing) /\ <<b>> \in Seq(Outgoing) /\ <<a, b>> \in Seq(Outgoing)
      /\ DOMAIN <<a>> = {1} /\ DOMAIN <<a, b>> = {1, 2}
  OBVIOUS
<1>2. <<a>> \o <<b>> = <<a, b>>
  <2>1. Len(<<a>>) = 1 /\ Len(<<b>>) = 1 /\ Len(<<a, b>>) = 2 /\ <<a>>[1] = a /\ <<b>>[1] = b
        /\ <<a, b>>[1] = a /\ <<a, b>>[2] = b
    OBVIOUS
  <2>2. PICK u : u = <<a>> \o <<b>>
    OBVIOUS
  <2>3. u \in Seq(Outgoing) /\ Len(u) = 2 /\ \A i \in 1 .. 2 : u[i] = IF i <= 1 THEN <<a>>[i] ELSE <<b>>[i - 1]
    BY <1>1, <2>1, <2>2, ConcatProperties
  <2>4. u[1] = a /\ u[2] = b
    BY <2>1, <2>3
  <2>5. \A i \in 1 .. Len(u) : u[i] = <<a, b>>[i]
    BY <2>1, <2>3, <2>4
  <2> QED  BY <1>1, <2>1, <2>2, <2>3, <2>5, SeqEqual
<1>3. s \o <<a>> \in Seq(Outgoing)
  BY <1>1, ConcatProperties
<1>4. (s \o <<a>>) \o <<>> = s \o <<a>>
  BY <1>3, ConcatEmptySeq
<1>5. (s \o <<a>>) \o <<b>> = s \o <<a, b>>
  <2>1. (s \o <<a>>) \o <<b>> = s \o (<<a>> \o <<b>>)
    BY <1>1, ConcatAssociative
  <2> QED  BY <1>2, <2>1
<1> QED  BY <1>1, <1>4, <1>5

LEMMA OneUnit ==
  ASSUME NEW s \in Seq(Outgoing), NEW a \in Outgoing
  PROVE  <<a>> \in Seq(Outgoing) /\ DOMAIN <<a>> = {1} /\ <<a>>[1] = a /\ (s \o <<a>>) \o <<>> = s \o <<a>>
BY TwoUnits

Posted(t) == units' = units \o t

LEMMA UnitsAdded ==
  ASSUME RecTypes, NEW t \in Seq(Outgoing), Posted(t)
  PROVE  /\ units' \in Seq(Outgoing)
         /\ \A i \in DOMAIN units : i \in DOMAIN units' /\ units'[i] = units[i]
         /\ \A i \in DOMAIN t : \E j \in DOMAIN units' : units'[j] = t[i]
         /\ \A i \in DOMAIN units' :
              \/ i \in DOMAIN units /\ units'[i] = units[i]
              \/ \E j \in DOMAIN t : i = Len(units) + j /\ units'[i] = t[j] /\ Len(units) \in Nat
<1>1. units \in Seq(Outgoing)
  BY DEF RecTypes
<1>2. PICK u : u = units \o t
  OBVIOUS
<1>3. /\ u \in Seq(Outgoing) /\ Len(units) \in Nat
      /\ \A i \in DOMAIN units : i \in DOMAIN u /\ u[i] = units[i]
      /\ \A i \in DOMAIN t : Len(units) + i \in DOMAIN u /\ u[Len(units) + i] = t[i]
      /\ \A i \in DOMAIN u : i \in DOMAIN units \/ \E j \in DOMAIN t : i = Len(units) + j
  BY <1>1, <1>2, Joined
<1>4. units' = u
  BY <1>2 DEF Posted
<1> QED  BY <1>3, <1>4

(* A new request takes the connection.                                     *)
LEMMA TakesConnection ==
  ASSUME RecInv, agent = "up", NEW r \in Asks, req[r].phase = "new", serves = NoAsk, conn \in {"none", "up"}
  PROVE  /\ RecTypes /\ News /\ Unknown(r) /\ Entered /\ Exchange /\ state = "header" /\ line \subseteq cut /\ r # NoAsk
         /\ ~strayed \/ proto = "fcgi" =>
              /\ \A i \in DOMAIN units : units[i].kind # "head"
              /\ ~backend.owes /\ backend.heard # r
         /\ \A i \in DOMAIN inbox : inbox[i].of # r /\ (~strayed => inbox[i].kind = "eof")
<1>1. RecTypes /\ News /\ Unknown(r) /\ Entered /\ Exchange /\ r # NoAsk
  BY NoAskIsNone DEF RecInv, News
<1>2. state = "header" /\ line \subseteq cut
  BY <1>1, NoAskIsNone DEF Exchange, HeadedFirst, OpenLine, RecTypes
<1>3. \A i \in DOMAIN units : units[i].of \in Asks
  <2>1. units \in Seq(Outgoing)
    BY <1>1 DEF RecTypes
  <2>2. \A i \in DOMAIN units : units[i] \in Outgoing
    BY <2>1, LenProperties, ElementOfSeq
  <2> QED  BY <2>2 DEF Outgoing
<1>4. ~strayed \/ proto = "fcgi" =>
        (\A i \in DOMAIN units : units[i].kind # "head") /\ ~backend.owes /\ backend.heard # r
  BY <1>1, <1>3, NoAskIsNone DEF Exchange, Asked, Unknown
<1>5. \A i \in DOMAIN inbox : inbox[i].of # r /\ (~strayed => inbox[i].kind = "eof")
  BY <1>1 DEF Exchange, Matched, Unknown
<1> QED  BY <1>1, <1>2, <1>4, <1>5

LEMMA ArriveKeeps == ASSUME RecInv, NEW r \in Asks, Records!Arrive(r)  PROVE RecInv'
<1>1. /\ agent = "up" /\ req[r].phase = "new" /\ serves = NoAsk /\ conn \in {"none", "up"}
      /\ req' = [req EXCEPT ![r].phase = "arrived", ![r].sent = ~req[r].post]
      /\ serves' = r /\ conn' = (IF conn = "none" THEN "connecting" ELSE conn)
      /\ units' = (units \o (IF proto = "fcgi" THEN Records!FcgiHead(r, FALSE) ELSE Records!AjpHead(r)))
                    \o (IF req[r].post THEN <<>> ELSE Records!EndUnits(r))
      /\ reading' = (reading \/ (~req[r].post /\ Records!EndReads(r)))
      /\ UNCHANGED <<proto, agent, state, line, inbox, backend, cut, strayed, refused, faults>>
  BY DEF Records!Arrive, Records!Runs, Records!past, Records!Free, NoAsk
<1>2. /\ RecTypes /\ News /\ Unknown(r) /\ Entered /\ Exchange /\ state = "header" /\ line \subseteq cut /\ r # NoAsk
      /\ ~strayed \/ proto = "fcgi" =>
              /\ \A i \in DOMAIN units : units[i].kind # "head"
              /\ ~backend.owes /\ backend.heard # r
      /\ \A i \in DOMAIN inbox : inbox[i].of # r /\ (~strayed => inbox[i].kind = "eof")
  BY <1>1, TakesConnection
<1> DEFINE head == [kind |-> "head", of |-> r]
           end == [kind |-> "end", of |-> r]
<1>3. PICK t \in Seq(Outgoing) :
        /\ Posted(t) /\ 1 \in DOMAIN t /\ t[1] = head
        /\ \A i \in DOMAIN t : i = 1 \/ (i = 2 /\ t[i] = end)
        /\ ~req[r].post /\ proto = "fcgi" => 2 \in DOMAIN t
  <2>1. units \in Seq(Outgoing) /\ head \in Outgoing /\ end \in Outgoing
    BY <1>2 DEF RecTypes, Outgoing
  <2>2. units' = (units \o <<head>>) \o (IF req[r].post \/ proto # "fcgi" THEN <<>> ELSE <<end>>)
    BY <1>1 DEF Records!FcgiHead, Records!AjpHead, Records!EndUnits, Records!Unit
  <2>3. CASE req[r].post \/ proto # "fcgi"
    <3>0. units' = (units \o <<head>>) \o <<>>
      BY <2>2, <2>3
    <3>1. <<head>> \in Seq(Outgoing) /\ Posted(<<head>>) /\ DOMAIN <<head>> = {1} /\ <<head>>[1] = head
      BY <2>1, <3>0, OneUnit DEF Posted
    <3> QED  BY <2>3, <3>1
  <2>4. CASE ~(req[r].post \/ proto # "fcgi")
    <3>0. units' = (units \o <<head>>) \o <<end>>
      BY <2>2, <2>4
    <3>1. PICK h \in Outgoing, e \in Outgoing : h = head /\ e = end
      BY <2>1
    <3>2. /\ <<h, e>> \in Seq(Outgoing) /\ DOMAIN <<h, e>> = {1, 2} /\ <<h, e>>[1] = h /\ <<h, e>>[2] = e
          /\ (units \o <<h>>) \o <<e>> = units \o <<h, e>>
      BY <2>1, TwoUnits
    <3>3. Posted(<<h, e>>)
      BY <3>0, <3>1, <3>2 DEF Posted
    <3> QED  BY <2>4, <3>1, <3>2, <3>3
  <2> QED  BY <2>3, <2>4
<1>4. /\ units' \in Seq(Outgoing)
      /\ \A i \in DOMAIN units : i \in DOMAIN units' /\ units'[i] = units[i]
      /\ \A i \in DOMAIN t : \E j \in DOMAIN units' : units'[j] = t[i]
      /\ \A i \in DOMAIN units' :
           \/ i \in DOMAIN units /\ units'[i] = units[i]
           \/ \E j \in DOMAIN t : i = Len(units) + j /\ units'[i] = t[j] /\ Len(units) \in Nat
  BY <1>2, <1>3, UnitsAdded
<1>5. \A i \in DOMAIN units' :
        \/ i \in DOMAIN units /\ units'[i] = units[i]
        \/ i = Len(units) + 1 /\ units'[i] = head
        \/ units'[i] = end
  BY <1>3, <1>4
<1>6. \E i \in DOMAIN units' : units'[i] = head
  BY <1>3, <1>4
<1>7. ~req[r].post /\ proto = "fcgi" => \E i \in DOMAIN units' : units'[i] = end
  BY <1>3, <1>4
<1>8. /\ req' \in [Asks -> AskRec] /\ \A o \in Asks \ {r} : req'[o] = req[o]
      /\ req'[r].phase = "arrived" /\ req'[r].sent = ~req[r].post /\ req'[r].post = req[r].post
      /\ req'[r].headers = {} /\ req'[r].of = {} /\ ~req'[r].headed /\ req'[r].answer = "none"
      /\ req' = [req EXCEPT ![r] = req'[r]]
  <2>1. req \in [Asks -> AskRec]
    BY <1>2 DEF RecTypes
  <2>2. PICK b \in BOOLEAN : b = ~req[r].post /\ req' = [req EXCEPT ![r].phase = "arrived", ![r].sent = b]
    BY <1>1, Zenon
  <2>3. req'[r] \in AskRec /\ \A o \in Asks \ {r} : req'[o] = req[o]
    <3>1. req'[r] = [req[r] EXCEPT !.phase = "arrived", !.sent = b] /\ req[r] \in AskRec
      BY <2>1, <2>2
    <3>2. req'[r] \in AskRec
      BY <3>1 DEF AskRec
    <3> QED  BY <2>1, <2>2, <3>2
  <2>4. req[r].headers = {} /\ req[r].of = {} /\ ~req[r].headed /\ req[r].answer = "none"
    BY <1>2 DEF Unknown
  <2>5. /\ req'[r].phase = "arrived" /\ req'[r].sent = ~req[r].post /\ req'[r].post = req[r].post
        /\ req'[r].headers = {} /\ req'[r].of = {} /\ ~req'[r].headed /\ req'[r].answer = "none"
    BY <2>1, <2>2, <2>4
  <2>6. req' \in [Asks -> AskRec] /\ req' = [req EXCEPT ![r] = req'[r]]
    BY <1>1, <2>1, <2>2, <2>3
  <2> QED  BY <2>3, <2>5, <2>6
<1> HIDE DEF head, end
<1>9. head.kind = "head" /\ head.of = r /\ end.kind = "end" /\ end.of = r
  BY DEF head, end
<1>10. reading' \in BOOLEAN /\ conn' \in {"connecting", "up"} /\ (conn = "none" => reading' = reading)
       /\ (conn = "none" <=> conn' = "connecting")
  BY <1>1, <1>2 DEF RecTypes, Records!EndReads
<1>11. RecTypes'
  BY <1>1, <1>2, <1>4, <1>8, <1>10 DEF RecTypes
<1>12. AllGiven'
  <2>1. Given(r, req'[r], cut', strayed', proto)
    BY <1>8 DEF Given
  <2> QED  BY <1>1, <1>8, <2>1, GivenStays
<1>13. News'
  <2> SUFFICES ASSUME NEW o \in Asks, req'[o].phase = "new"  PROVE Unknown(o)'
    BY DEF News
  <2>1. o # r /\ req'[o] = req[o] /\ Unknown(o)
    BY <1>2, <1>8 DEF News
  <2> QED  BY <1>1, <1>5, <1>9, <2>1 DEF Unknown
<1>14. Entered'
  <2>1. \A o \in Asks : req'[o].phase = "arrived" => o = r
    BY <1>1, <1>2, <1>8, NoAskIsNone DEF Entered
  <2>2. conn' = "connecting" => inbox = <<>> /\ backend = Records!Idle /\ ~reading
    BY <1>2, <1>10 DEF Entered
  <2> QED  BY <1>1, <1>2, <1>8, <1>10, <2>1, <2>2 DEF Entered, Awaited, Records!Idle
<1>15. OpenLine' /\ HeadedFirst' /\ BadHeader' /\ Matched' /\ Named'
  BY <1>1, <1>2 DEF Exchange, Named, OpenLine, HeadedFirst, BadHeader, Matched
<1>16. Asked'
  <2>1. ~strayed \/ proto = "fcgi" =>
          \A i \in DOMAIN units' : units'[i].kind = "head" => i = Len(units) + 1 /\ units'[i].of = r
    BY <1>2, <1>5, <1>9
  <2>2. ASSUME ~strayed \/ proto = "fcgi"
        PROVE  /\ \A i \in DOMAIN inbox : inbox[i].of # r
               /\ backend.heard # r /\ ~backend.owes /\ state = "header"
               /\ \A i, j \in DOMAIN units' : units'[i].kind = "head" /\ units'[j].kind = "head" => i = j
               /\ \A i \in DOMAIN units' : units'[i].kind = "head" => units'[i].of = r
    BY <1>2, <2>1, <2>2
  <2> QED  BY <1>1, <2>2 DEF Asked
<1>17. WillEnd'
  BY <1>1, <1>2, <1>6, <1>9 DEF Exchange, WillEnd
<1>18. ReadsOn'
  BY <1>1, <1>7, <1>8, <1>9 DEF ReadsOn, Awaited
<1> QED  BY <1>1, <1>11, <1>12, <1>13, <1>14, <1>15, <1>16, <1>17, <1>18 DEF RecInv, Exchange, Records!DeathsExplained

LEMMA RefuseAskKeeps == ASSUME RecInv, NEW r \in Asks, Records!Refuse(r)  PROVE RecInv'
<1>1. /\ agent = "up" /\ req[r].phase = "new" /\ serves = NoAsk /\ conn \in {"none", "up"} /\ proto = "fcgi"
      /\ faults < MaxFaults /\ faults' = faults + 1 /\ refused' = refused \cup {r}
      /\ req' = [req EXCEPT ![r].phase = "ended", ![r].answer = "error", ![r].headed = TRUE]
      /\ serves' = r /\ conn' = (IF conn = "none" THEN "lost" ELSE conn)
      /\ units' = units \o <<[kind |-> "begin", of |-> r]>>
      /\ UNCHANGED <<proto, agent, state, line, reading, inbox, backend, cut, strayed>>
  BY DEF Records!Refuse, Records!Free, NoAsk, Records!FcgiHead, Records!Unit
<1>2. /\ RecTypes /\ News /\ Unknown(r) /\ Entered /\ Exchange /\ state = "header" /\ line \subseteq cut /\ r # NoAsk
      /\ ~strayed \/ proto = "fcgi" =>
              /\ \A i \in DOMAIN units : units[i].kind # "head"
              /\ ~backend.owes /\ backend.heard # r
      /\ \A i \in DOMAIN inbox : inbox[i].of # r /\ (~strayed => inbox[i].kind = "eof")
  BY <1>1, TakesConnection
<1> DEFINE begin == [kind |-> "begin", of |-> r]
<1>3. PICK t \in Seq(Outgoing) : Posted(t) /\ \A i \in DOMAIN t : t[i] = begin
  <2>1. begin \in Outgoing /\ units \in Seq(Outgoing)
    BY <1>2 DEF RecTypes, Outgoing
  <2>2. <<begin>> \in Seq(Outgoing) /\ DOMAIN <<begin>> = {1} /\ <<begin>>[1] = begin /\ Posted(<<begin>>)
    BY <1>1, <2>1, TwoUnits DEF Posted
  <2> QED  BY <2>2
<1>4. /\ units' \in Seq(Outgoing)
      /\ \A i \in DOMAIN units : i \in DOMAIN units' /\ units'[i] = units[i]
      /\ \A i \in DOMAIN units' : (i \in DOMAIN units /\ units'[i] = units[i]) \/ units'[i] = begin
  BY <1>2, <1>3, UnitsAdded
<1>5. /\ req' \in [Asks -> AskRec] /\ \A o \in Asks \ {r} : req'[o] = req[o]
      /\ req'[r].phase = "ended" /\ req'[r].headers = {} /\ req'[r].of = {} /\ req'[r].answer = "error"
      /\ req' = [req EXCEPT ![r] = req'[r]]
  <2>1. req \in [Asks -> AskRec]
    BY <1>2 DEF RecTypes
  <2>2. req'[r] = [req[r] EXCEPT !.phase = "ended", !.answer = "error", !.headed = TRUE]
    BY <1>1, <2>1
  <2>3. req'[r] \in AskRec
    BY <2>1, <2>2 DEF AskRec
  <2> QED  BY <1>1, <1>2, <2>1, <2>2, <2>3 DEF Unknown, AskRec
<1> HIDE DEF begin
<1>6. begin.kind = "begin" /\ begin.of = r
  BY DEF begin
<1>7. faults' \in 0 .. MaxFaults /\ conn' \in {"lost", "up"} /\ (conn = "up" <=> conn' = "up")
  BY <1>1, <1>2, RecordsAssumption DEF RecTypes, RecordsAssumption
<1>8. RecTypes'
  BY <1>1, <1>2, <1>4, <1>5, <1>7 DEF RecTypes
<1>9. AllGiven'
  <2>1. Given(r, req'[r], cut', strayed', proto)
    BY <1>5 DEF Given
  <2> QED  BY <1>1, <1>5, <2>1, GivenStays
<1>10. News'
  <2> SUFFICES ASSUME NEW o \in Asks, req'[o].phase = "new"  PROVE Unknown(o)'
    BY DEF News
  <2>1. o # r /\ req'[o] = req[o] /\ Unknown(o)
    BY <1>2, <1>5 DEF News
  <2> QED  BY <1>1, <1>4, <1>6, <2>1 DEF Unknown
<1>11. Entered'
  <2>1. \A o \in Asks : req'[o].phase # "arrived"
    BY <1>1, <1>2, <1>5, NoAskIsNone DEF Entered
  <2> QED  BY <1>1, <1>7, <2>1 DEF Entered, Awaited
<1>12. Exchange'
  <2>1. OpenLine' /\ HeadedFirst' /\ BadHeader' /\ Matched' /\ Named'
    BY <1>1, <1>2 DEF Exchange, Named, OpenLine, HeadedFirst, BadHeader, Matched
  <2>2. Asked'
    BY <1>1, <1>2, <1>4, <1>6 DEF Asked
  <2>3. WillEnd' /\ ReadsOn'
    BY <1>1, <1>2, <1>5 DEF Exchange, WillEnd, ReadsOn, Awaited
  <2> QED  BY <2>1, <2>2, <2>3 DEF Exchange
<1> QED  BY <1>1, <1>8, <1>9, <1>10, <1>11, <1>12 DEF RecInv, Records!DeathsExplained

(* A step that leaves what a request has been given as it is.              *)
Leaves(r) ==
  /\ req' = [req EXCEPT ![r] = req'[r]] /\ req'[r] \in AskRec /\ req[r].phase # "new"
  /\ req'[r].post = req[r].post /\ req'[r].headed = req[r].headed
  /\ req'[r].headers = req[r].headers /\ req'[r].of = req[r].of /\ req'[r].answer = req[r].answer
  /\ req'[r].full => req[r].full
  /\ \/ req'[r].phase = req[r].phase
     \/ req[r].phase = "ended" /\ ~req[r].full /\ req'[r].phase = "returned"

LEMMA LeavesGiven ==
  ASSUME RecInv, NEW r \in Asks, Leaves(r), proto' = proto, cut' = cut, strayed' = strayed,
         serves' = serves, refused' = refused, backend' = backend, inbox' = inbox,
         \A i \in DOMAIN units' : (i \in DOMAIN units /\ units'[i] = units[i]) \/ units'[i].of = r
  PROVE  /\ AllGiven' /\ News' /\ req' \in [Asks -> AskRec] /\ Awaited' = Awaited
         /\ \A o \in Asks \ {r} : req'[o] = req[o]
         /\ \A o \in Asks : req'[o].phase = "arrived" <=> req[o].phase = "arrived"
<1>1. req \in [Asks -> AskRec] /\ serves \in Asks \cup {NoAsk}
  BY DEF RecInv, RecTypes
<1>2. req' \in [Asks -> AskRec] /\ \A o \in Asks \ {r} : req'[o] = req[o]
  BY <1>1 DEF Leaves
<1>3. AllGiven'
  <2>1. Given(r, req[r], cut, strayed, proto)
    BY DEF RecInv, AllGiven
  <2>2. Given(r, req'[r], cut', strayed', proto)
    BY <2>1 DEF Given, Leaves
  <2> QED  BY <2>2, GivenStays DEF Leaves
<1>4. \A o \in Asks : req'[o].phase = "arrived" <=> req[o].phase = "arrived"
  BY <1>2 DEF Leaves
<1>5. News'
  <2> SUFFICES ASSUME NEW o \in Asks, req'[o].phase = "new"  PROVE Unknown(o)'
    BY DEF News
  <2>1. o # r /\ req'[o] = req[o]
    BY <1>2 DEF Leaves
  <2>2. Unknown(o)
    BY <2>1 DEF RecInv, News
  <2> QED  BY <2>1, <2>2 DEF Unknown
<1>6. Awaited' = Awaited
  BY <1>1, <1>4 DEF Awaited
<1> QED  BY <1>2, <1>3, <1>4, <1>5, <1>6

LEMMA ReturnKeeps == ASSUME RecInv, NEW r \in Asks, Records!ReturnTour(r)  PROVE RecInv'
<1>1. /\ agent = "up" /\ req[r].phase = "ended" /\ ~req[r].full /\ req' = [req EXCEPT ![r].phase = "returned"]
      /\ UNCHANGED <<proto, agent, conn, serves, state, line, reading, inbox, units, backend, cut, strayed, refused, faults>>
  BY DEF Records!ReturnTour, Records!Runs, Records!past, Records!wire
<1>2. req \in [Asks -> AskRec]
  BY DEF RecInv, RecTypes
<1>3. req'[r] = [req[r] EXCEPT !.phase = "returned"]
  BY <1>1, <1>2
<1>4. req'[r] \in AskRec /\ req'[r].phase = "returned" /\ req'[r].sent = req[r].sent /\ req'[r].full = req[r].full
      /\ req'[r].post = req[r].post /\ req'[r].headed = req[r].headed
      /\ req'[r].headers = req[r].headers /\ req'[r].of = req[r].of /\ req'[r].answer = req[r].answer
  BY <1>2, <1>3 DEF AskRec
<1>5. Leaves(r)
  BY <1>1, <1>2, <1>3, <1>4 DEF Leaves
<1>6. /\ AllGiven' /\ News' /\ req' \in [Asks -> AskRec] /\ Awaited' = Awaited
      /\ \A o \in Asks \ {r} : req'[o] = req[o]
      /\ \A o \in Asks : req'[o].phase = "arrived" <=> req[o].phase = "arrived"
  BY <1>1, <1>5, LeavesGiven
<1>7. RecTypes'
  BY <1>1, <1>6 DEF RecInv, RecTypes
<1>8. \A o \in Asks : req'[o].headed = req[o].headed /\ req'[o].sent = req[o].sent
                      /\ req'[o].post = req[o].post /\ req'[o].full = req[o].full
  BY <1>4, <1>6
<1>9. Entered'
  BY <1>1, <1>6 DEF RecInv, RecTypes, Entered
<1>10. Exchange => Exchange'
  <2>1. OpenLine = OpenLine' /\ Asked = Asked' /\ BadHeader = BadHeader' /\ Matched = Matched' /\ Named = Named'
    BY <1>1 DEF Named, OpenLine, Asked, BadHeader, Matched
  <2>2. WillEnd = WillEnd' /\ (HeadedFirst => HeadedFirst')
    BY <1>1, <1>6, <1>8 DEF WillEnd, Ending, HeadedFirst, RecInv, RecTypes
  <2>3. ReadsOn => ReadsOn'
    <3>1. Awaited => serves \in Asks
      BY DEF Awaited, RecInv, RecTypes
    <3> QED  BY <1>1, <1>6, <1>8, <3>1 DEF ReadsOn
  <2> QED  BY <2>1, <2>2, <2>3 DEF Exchange
<1> QED  BY <1>1, <1>6, <1>7, <1>9, <1>10 DEF RecInv, Records!DeathsExplained

LEMMA ReadsOnKeeps ==
  ASSUME RecInv, NEW r \in Asks, Records!ClientReads(r), Records!Running(r) \/ conn # "closed"
  PROVE  RecInv'
<1>1. /\ agent = "up" /\ req[r].full /\ req' = [req EXCEPT ![r].full = FALSE]
      /\ reading' = (reading \/ (~Records!Running(r) /\ conn = "up"))
      /\ UNCHANGED <<proto, agent, conn, serves, state, line, inbox, units, backend, cut, strayed, refused, faults>>
  BY DEF Records!ClientReads, Records!Runs, Records!past, Records!wire
<1>2. req \in [Asks -> AskRec] /\ reading \in BOOLEAN
  BY DEF RecInv, RecTypes
<1>3. req'[r] = [req[r] EXCEPT !.full = FALSE]
  BY <1>1, <1>2
<1>4. req'[r] \in AskRec /\ req'[r].phase = req[r].phase /\ req'[r].sent = req[r].sent
      /\ req'[r].post = req[r].post /\ req'[r].headed = req[r].headed /\ ~req'[r].full
      /\ req'[r].headers = req[r].headers /\ req'[r].of = req[r].of /\ req'[r].answer = req[r].answer
  BY <1>2, <1>3 DEF AskRec
<1>5. Leaves(r)
  <2>1. req[r].phase # "new"
    BY <1>1 DEF RecInv, News, Unknown
  <2> QED  BY <1>1, <1>2, <1>3, <1>4, <2>1 DEF Leaves
<1>6. /\ AllGiven' /\ News' /\ req' \in [Asks -> AskRec] /\ Awaited' = Awaited
      /\ \A o \in Asks \ {r} : req'[o] = req[o]
      /\ \A o \in Asks : req'[o].phase = "arrived" <=> req[o].phase = "arrived"
  BY <1>1, <1>5, LeavesGiven
<1>7. reading' \in BOOLEAN /\ (reading => reading') /\ (conn # "up" => reading' = reading)
      /\ (conn = "up" /\ req[r].post => reading')
  BY <1>1, <1>2 DEF Records!Running
<1>8. RecTypes'
  BY <1>1, <1>6, <1>7 DEF RecInv, RecTypes
<1>9. \A o \in Asks : req'[o].headed = req[o].headed /\ req'[o].sent = req[o].sent /\ req'[o].post = req[o].post
  BY <1>4, <1>6
<1>10. Entered'
  BY <1>1, <1>6, <1>7 DEF RecInv, RecTypes, Entered
<1>11. Exchange => Exchange'
  <2>1. OpenLine = OpenLine' /\ Asked = Asked' /\ BadHeader = BadHeader' /\ Matched = Matched' /\ Named = Named'
    BY <1>1 DEF Named, OpenLine, Asked, BadHeader, Matched
  <2>2. WillEnd = WillEnd' /\ (HeadedFirst => HeadedFirst')
    BY <1>1, <1>6, <1>9 DEF WillEnd, Ending, HeadedFirst, RecInv, RecTypes
  <2>3. ReadsOn => ReadsOn'
    <3>1. Awaited => serves \in Asks
      BY DEF Awaited, RecInv, RecTypes
    <3> QED  BY <1>1, <1>6, <1>7, <1>9, <3>1 DEF ReadsOn
  <2> QED  BY <2>1, <2>2, <2>3 DEF Exchange
<1> QED  BY <1>1, <1>6, <1>8, <1>10, <1>11 DEF RecInv, Records!DeathsExplained

(* A listener resumes the reading of a connection that has been closed.    *)
LEMMA ClientKeeps == ASSUME RecInv, NEW r \in Asks, Records!ClientReads(r)  PROVE RecInv'
<1>1. CASE Records!Running(r) \/ conn # "closed"
  BY <1>1, ReadsOnKeeps
<1>2. CASE ~(Records!Running(r) \/ conn # "closed")
  <2>1. /\ agent = "up" /\ conn = "closed" /\ req[r].full /\ Records!Dies("resume")
        /\ UNCHANGED <<proto, inbox, units, backend, strayed, refused, faults>>
    BY <1>2 DEF Records!ClientReads, Records!Runs, Records!past, Records!wire
  <2>2. req[r].phase # "new"
    BY <2>1 DEF RecInv, News, Unknown
  <2>3. req[r].phase # "arrived" /\ req[r].phase # "returned"
    BY <2>1 DEF RecInv, Entered, AllGiven, Given
  <2>4. req[r].phase = "ended"
    <3>1. req[r] \in AskRec
      BY DEF RecInv, RecTypes
    <3> QED  BY <2>2, <2>3, <3>1 DEF AskRec
  <2> QED  BY <2>1, <2>4, Dying
<1> QED  BY <1>1, <1>2

LEMMA BodyKeeps == ASSUME RecInv, NEW r \in Asks, Records!Body(r)  PROVE RecInv'
<1> DEFINE piece == [kind |-> "body", of |-> r]
           end == [kind |-> "end", of |-> r]
<1>1. /\ agent = "up" /\ req[r].phase = "arrived" /\ conn \in {"connecting", "up"}
      /\ req' = [req EXCEPT ![r].sent = TRUE]
      /\ units' = (units \o <<piece>>) \o (IF proto = "fcgi" THEN <<end>> ELSE <<>>)
      /\ reading' = (reading \/ (proto = "ajp" /\ conn = "up"))
      /\ UNCHANGED <<proto, agent, conn, serves, state, line, inbox, backend, cut, strayed, refused, faults>>
  BY DEF Records!Body, Records!Runs, Records!past, Records!EndUnits, Records!EndReads, Records!Unit
<1>2. req \in [Asks -> AskRec] /\ reading \in BOOLEAN /\ units \in Seq(Outgoing) /\ RecTypes /\ proto \in {"fcgi", "ajp"}
  BY DEF RecInv, RecTypes
<1>3. req'[r] = [req[r] EXCEPT !.sent = TRUE]
  BY <1>1, <1>2
<1>4. req'[r] \in AskRec /\ req'[r].phase = req[r].phase /\ req'[r].full = req[r].full
      /\ req'[r].post = req[r].post /\ req'[r].headed = req[r].headed
      /\ req'[r].headers = req[r].headers /\ req'[r].of = req[r].of /\ req'[r].answer = req[r].answer
  <2>1. PICK q \in AskRec : q = req[r]
    BY <1>2
  <2>2. req'[r] = [q EXCEPT !.sent = TRUE]
    BY <1>3, <2>1
  <2>3. [q EXCEPT !.sent = TRUE] \in AskRec
    BY DEF AskRec
  <2> QED  BY <2>1, <2>2, <2>3 DEF AskRec
<1>5. Leaves(r)
  BY <1>1, <1>2, <1>3, <1>4 DEF Leaves
<1>6. PICK b \in Outgoing, e \in Outgoing : b = piece /\ e = end
  BY DEF Outgoing
<1>7. PICK t \in Seq(Outgoing) :
        /\ Posted(t) /\ \A i \in DOMAIN t : t[i] \in {b, e}
        /\ proto = "fcgi" => 2 \in DOMAIN t /\ t[2] = e
  <2>1. CASE proto = "fcgi"
    <3>1. units' = (units \o <<b>>) \o <<e>>
      BY <1>1, <1>6, <2>1
    <3>2. /\ <<b, e>> \in Seq(Outgoing) /\ DOMAIN <<b, e>> = {1, 2} /\ <<b, e>>[1] = b /\ <<b, e>>[2] = e
          /\ (units \o <<b>>) \o <<e>> = units \o <<b, e>>
      BY <1>2, TwoUnits
    <3>3. Posted(<<b, e>>)
      BY <3>1, <3>2 DEF Posted
    <3> QED  BY <3>2, <3>3
  <2>2. CASE proto # "fcgi"
    <3>1. units' = (units \o <<b>>) \o <<>>
      BY <1>1, <1>6, <2>2
    <3>2. <<b>> \in Seq(Outgoing) /\ DOMAIN <<b>> = {1} /\ <<b>>[1] = b /\ (units \o <<b>>) \o <<>> = units \o <<b>>
      BY <1>2, OneUnit
    <3>3. Posted(<<b>>)
      BY <3>1, <3>2 DEF Posted
    <3> QED  BY <2>2, <3>2, <3>3
  <2> QED  BY <2>1, <2>2
<1>8. b.kind = "body" /\ b.of = r /\ e.kind = "end" /\ e.of = r
  BY <1>6
<1> HIDE DEF piece, end
<1>9. /\ units' \in Seq(Outgoing)
      /\ \A i \in DOMAIN units : i \in DOMAIN units' /\ units'[i] = units[i]
      /\ \A i \in DOMAIN t : \E j \in DOMAIN units' : units'[j] = t[i]
      /\ \A i \in DOMAIN units' :
           \/ i \in DOMAIN units /\ units'[i] = units[i]
           \/ \E j \in DOMAIN t : i = Len(units) + j /\ units'[i] = t[j] /\ Len(units) \in Nat
  BY <1>2, <1>7, UnitsAdded
<1>10. \A i \in DOMAIN units' : \/ i \in DOMAIN units /\ units'[i] = units[i]
                                \/ units'[i].of = r /\ units'[i].kind # "head"
  <2>1. \A i \in DOMAIN units' : (i \in DOMAIN units /\ units'[i] = units[i]) \/ units'[i] \in {b, e}
    BY <1>7, <1>9
  <2>2. \A x : x \in {b, e} => x.of = r /\ x.kind # "head"
    BY <1>8
  <2> QED  BY <2>1, <2>2, Zenon
<1>11. /\ AllGiven' /\ News' /\ req' \in [Asks -> AskRec] /\ Awaited' = Awaited
       /\ \A o \in Asks \ {r} : req'[o] = req[o]
       /\ \A o \in Asks : req'[o].phase = "arrived" <=> req[o].phase = "arrived"
  BY <1>1, <1>5, <1>10, LeavesGiven
<1>12. reading' \in BOOLEAN /\ (reading => reading') /\ (conn # "up" => reading' = reading)
       /\ (conn = "up" /\ proto = "ajp" => reading')
  BY <1>1, <1>2
<1>13. RecTypes'
  BY <1>1, <1>2, <1>9, <1>11, <1>12 DEF RecTypes
<1>14. \A o \in Asks : req'[o].headed = req[o].headed /\ req'[o].post = req[o].post
  BY <1>4, <1>11
<1>15. Entered /\ Exchange
  BY <1>1 DEF RecInv
<1>16. Entered'
  BY <1>1, <1>2, <1>11, <1>12, <1>15 DEF RecTypes, Entered
<1>17. Exchange'
  <2>1. OpenLine' /\ BadHeader' /\ Matched' /\ Named'
    BY <1>1, <1>15 DEF Exchange, Named, OpenLine, BadHeader, Matched
  <2>2. HeadedFirst'
    BY <1>1, <1>2, <1>14, <1>15 DEF Exchange, HeadedFirst, RecTypes
  <2>3. Asked'
    <3>1. \A i \in DOMAIN units' : units'[i].kind = "head" => i \in DOMAIN units /\ units'[i] = units[i]
      BY <1>10
    <3>2. Asked
      BY <1>15 DEF Exchange
    <3> SUFFICES ASSUME ~strayed \/ proto = "fcgi"
                 PROVE  /\ \A i \in DOMAIN units' : units'[i].kind = "head" =>
                             /\ units'[i].of = serves /\ backend.heard # serves
                             /\ \A j \in DOMAIN units' : units'[j].kind = "head" => i = j
                        /\ backend.owes => serves # NoAsk /\ backend.heard = serves
                        /\ serves # NoAsk /\ (backend.owes \/ backend.heard # serves) =>
                             /\ \A i \in DOMAIN inbox : inbox[i].of # serves
                             /\ proto = "fcgi" => state = "header"
      BY <1>1 DEF Asked
    <3> QED  BY <3>1, <3>2 DEF Asked
  <2>4. WillEnd'
    <3>1. (\E i \in DOMAIN units : units[i].kind = "head" /\ units[i].of = serves)
            => \E i \in DOMAIN units' : units'[i].kind = "head" /\ units'[i].of = serves
      BY <1>9
    <3> QED  BY <1>1, <1>11, <1>15, <3>1 DEF Exchange, WillEnd, Ending
  <2>5. ReadsOn'
    <3>1. proto = "fcgi" => \E i \in DOMAIN units' : units'[i].kind = "end"
      BY <1>7, <1>8, <1>9
    <3> QED  BY <1>1, <1>12, <3>1 DEF ReadsOn
  <2> QED  BY <2>1, <2>2, <2>3, <2>4, <2>5 DEF Exchange
<1> QED  BY <1>1, <1>11, <1>13, <1>16, <1>17 DEF RecInv, Records!DeathsExplained

(* The connection is made, fails or has been closed.                       *)
LEMMA ConnectedKeeps == ASSUME RecInv, Records!Connected  PROVE RecInv'
<1>1. /\ agent = "up" /\ conn = "connecting" /\ conn' = "up" /\ reading' = (proto = "ajp" /\ req[serves].sent)
      /\ UNCHANGED <<proto, agent, serves, state, line, inbox, units, backend, req, cut, strayed, refused, faults>>
  BY DEF Records!Connected, Records!Runs, Records!past, Records!wire
<1>2. Entered /\ Exchange /\ RecTypes /\ Awaited /\ ~reading
  BY <1>1 DEF RecInv, Entered
<1>3. serves \in Asks /\ req[serves].sent \in BOOLEAN
  BY <1>2 DEF RecTypes, Awaited, AskRec
<1>4. reading' \in BOOLEAN /\ (proto = "ajp" /\ req[serves].sent => reading')
  BY <1>1, <1>3
<1>5. RecTypes' /\ AllGiven'
  BY <1>1, <1>2, <1>4, GivenSame DEF RecTypes
<1>6. News'
  BY <1>1 DEF RecInv, News, Unknown
<1>7. Entered'
  BY <1>1, <1>2 DEF Entered, Awaited
<1>8. OpenLine' /\ HeadedFirst' /\ Asked' /\ Named' /\ BadHeader' /\ Matched' /\ WillEnd'
  BY <1>1, <1>2 DEF Exchange, Named, OpenLine, HeadedFirst, Asked, BadHeader, Matched, WillEnd, Ending, Awaited
<1>9. ReadsOn'
  BY <1>1, <1>2, <1>4 DEF Exchange, ReadsOn, Awaited
<1> QED  BY <1>1, <1>5, <1>6, <1>7, <1>8, <1>9 DEF RecInv, Exchange, Records!DeathsExplained

LEMMA ClosedKeeps == ASSUME RecInv, Records!Closed  PROVE RecInv'
<1>1. /\ agent = "up" /\ conn = "closing"
      /\ UNCHANGED <<proto, backend, cut, strayed, refused, faults>>
  BY DEF Records!Closed, Records!Runs, Records!past
<1>2. CASE \E i \in DOMAIN units : Records!Unheard(units[i])
  <2>1. Records!Dies("consumed") /\ UNCHANGED <<units, inbox>>
    BY <1>2 DEF Records!Closed
  <2> QED  BY <1>1, <1>2, <2>1, Dying
<1>3. CASE ~(\E i \in DOMAIN units : Records!Unheard(units[i]))
  <2>1. /\ conn' = "closed" /\ line' = {} /\ state' = "header" /\ units' = <<>> /\ inbox' = <<>>
        /\ UNCHANGED <<agent, serves, reading, req>>
    BY <1>3 DEF Records!Closed
  <2>2. reading \in BOOLEAN /\ cut \subseteq Asks /\ \A r \in Asks : req[r].phase # "arrived"
    BY <1>1 DEF RecInv, RecTypes, Entered
  <2> QED  BY <1>1, <2>1, <2>2, Parting
<1> QED  BY <1>2, <1>3

(* A failure closes the connection, or finds the tour of a refused request.*)
LEMMA ClosesKeeps ==
  ASSUME RecInv, agent = "up", conn \in {"connecting", "up"}, Records!Closes(serves),
         inbox' = inbox \/ (inbox # <<>> /\ inbox' = Tail(inbox)),
         UNCHANGED <<proto, units, backend, strayed, refused, faults>>
  PROVE  RecInv'
<1>2. CASE Records!Stale(serves)
  <2>1. Records!Dies("id") /\ serves \in refused
    BY <1>2 DEF Records!Closes, Records!Stale, RecInv, Entered, NoAsk
  <2> QED  BY <2>1, Dying
<1>3. CASE ~Records!Stale(serves)
  <2>1. /\ conn' = "closing" /\ serves' = NoAsk /\ reading' = FALSE /\ req' = Records!Failed(serves)
        /\ UNCHANGED <<agent, state, line, cut>> /\ cut \subseteq Asks
    BY <1>3 DEF Records!Closes, NoAsk, RecInv, RecTypes
  <2>2. CASE serves = NoAsk
    <3>1. req' = req /\ \A r \in Asks : req[r].phase # "arrived"
      BY <2>1, <2>2, NoAskIsNone DEF Records!Failed, NoAsk, RecInv, Entered
    <3> QED  BY <2>1, <3>1, Parting
  <2>3. CASE serves # NoAsk
    <3>1. serves \in Asks /\ req \in [Asks -> AskRec] /\ Given(serves, req[serves], cut, strayed, proto)
          /\ proto \in {"fcgi", "ajp"}
      BY <2>3 DEF RecInv, RecTypes, AllGiven
    <3>2. PICK how \in {"error", "bare"} :
            /\ req' = [req EXCEPT ![serves] = Records!Ended(req[serves], how)]
            /\ how = "bare" => req[serves].post \/ proto = "fcgi"
      <4>1. req' = [req EXCEPT ![serves] = Records!Ended(@, IF Records!Running(serves) THEN "error" ELSE "bare")]
        BY <2>1, <2>3 DEF Records!Failed, NoAsk
      <4>2. Records!Running(serves) \/ req[serves].post \/ proto = "fcgi"
        BY <2>3, <3>1 DEF Records!Running, RecInv, Entered
      <4> QED  BY <3>1, <4>1, <4>2
    <3>3. PICK q : q = Records!Ended(req[serves], how)
      OBVIOUS
    <3>4. q \in AskRec /\ q.phase = "ended" /\ Given(serves, q, cut, strayed, proto)
      <4>1. PICK a : a = (IF req[serves].headed THEN req[serves].answer ELSE how)
                     /\ q = [req[serves] EXCEPT !.phase = "ended", !.answer = a]
        BY <3>3 DEF Records!Ended
      <4>2. q \in AskRec /\ q.phase = "ended" /\ q.headed = req[serves].headed /\ q.post = req[serves].post
            /\ q.headers = req[serves].headers /\ q.of = req[serves].of
            /\ q.answer = (IF req[serves].headed THEN req[serves].answer ELSE how)
        <5>1. PICK o \in AskRec : o = req[serves]
          BY <3>1
        <5>2. a \in {"none", "given", "error", "bare"}
          BY <4>1, <5>1 DEF AskRec
        <5> QED  BY <4>1, <5>1, <5>2 DEF AskRec
      <4> QED  BY <3>1, <3>2, <4>2 DEF Given
    <3> QED  BY <2>1, <3>1, <3>2, <3>3, <3>4, Parting
  <2> QED  BY <2>2, <2>3
<1> QED  BY <1>2, <1>3

LEMMA TimesOutKeeps == ASSUME RecInv, Records!TimesOut  PROVE RecInv'
BY ClosesKeeps DEF Records!TimesOut, Records!wire

(* A unit is written.                                                      *)
LEMMA HeardKeeps == ASSUME RecInv, Records!Write, ~Records!Unheard(Head(units))  PROVE RecInv'
<1> DEFINE u == Head(units)
<1>1. /\ agent = "up" /\ conn = "up" /\ units # <<>> /\ units' = Tail(units)
      /\ reading' = (reading \/ u.kind = "end")
      /\ UNCHANGED <<proto, agent, conn, serves, state, line, req, cut, strayed, refused, faults>>
      /\ \/ backend.gone /\ backend' = backend /\ inbox' = inbox
         \/ /\ ~backend.gone /\ proto = "ajp" /\ backend' = [backend EXCEPT !.gone = TRUE]
            /\ inbox' = Append(inbox, [kind |-> "eof", of |-> NoAsk])
         \/ ~backend.gone /\ backend' = Records!Hears(u) /\ inbox' = inbox
  BY DEF Records!Write, Records!Runs, Records!past, NoAsk, Records!Confused
<1>2. RecTypes /\ Entered /\ Exchange
  BY <1>1 DEF RecInv
<1>3. /\ Tail(units) \in Seq(Outgoing) /\ u \in Outgoing /\ 1 \in DOMAIN units /\ units[1] = u
      /\ \A i \in DOMAIN units : i \in Nat /\ i > 0 /\ (i > 1 => i - 1 \in DOMAIN Tail(units) /\ Tail(units)[i - 1] = units[i])
      /\ \A i \in DOMAIN Tail(units) : i \in Nat /\ i > 0 /\ i + 1 \in DOMAIN units /\ Tail(units)[i] = units[i + 1]
  <2>1. units \in Seq(Outgoing)
    BY <1>2 DEF RecTypes
  <2> QED  BY <1>1, <2>1, Shortened
<1> HIDE DEF u
<1>4. /\ units' \in Seq(Outgoing)
      /\ \A i \in DOMAIN units : i = 1 \/ (i - 1 \in DOMAIN units' /\ units'[i - 1] = units[i])
      /\ \A i \in DOMAIN units' : i \in Nat /\ i > 0 /\ i + 1 \in DOMAIN units /\ units'[i] = units[i + 1]
  BY <1>1, <1>3
<1>5. u.of \in Asks /\ u.kind \in {"begin", "head", "body", "end"} /\ req[u.of].phase # "new"
  BY <1>2, <1>3 DEF Outgoing, RecInv, News, Unknown
<1>6. reading' \in BOOLEAN /\ (reading => reading') /\ (u.kind = "end" => reading')
  BY <1>1, <1>2 DEF RecTypes
(* What the backend makes of it: eof at the end, the head, or nothing.     *)
<1>7. \/ /\ backend' \in [heard : {backend.heard}, whole : BOOLEAN, owes : {backend.owes}, gone : BOOLEAN]
         /\ (backend'.gone <=> backend.gone) /\ inbox' = inbox /\ (u.kind # "head" \/ backend.gone)
      \/ /\ backend' \in [heard : {backend.heard}, whole : BOOLEAN, owes : {backend.owes}, gone : {TRUE}]
         /\ proto = "ajp" /\ inbox' = Append(inbox, [kind |-> "eof", of |-> NoAsk])
      \/ /\ backend' \in [heard : {u.of}, whole : BOOLEAN, owes : {TRUE}, gone : {FALSE}]
         /\ inbox' = inbox /\ u.kind = "head" /\ ~backend.gone
  <2>1. PICK o \in [heard : Asks \cup {NoAsk}, whole : BOOLEAN, owes : BOOLEAN, gone : BOOLEAN] : o = backend
    BY <1>2 DEF RecTypes
  <2>2. CASE backend.gone /\ backend' = backend /\ inbox' = inbox
    BY <2>1, <2>2
  <2>3. CASE /\ ~backend.gone /\ proto = "ajp" /\ backend' = [backend EXCEPT !.gone = TRUE]
             /\ inbox' = Append(inbox, [kind |-> "eof", of |-> NoAsk])
    BY <2>1, <2>3
  <2>4. CASE ~backend.gone /\ backend' = Records!Hears(u) /\ inbox' = inbox
    <3>1. Records!Completes(u) \in BOOLEAN
      BY DEF Records!Completes
    <3>2. CASE u.kind = "head"
      <4>1. backend' = [backend EXCEPT !.heard = u.of, !.whole = Records!Completes(u), !.owes = TRUE]
        BY <2>4, <3>2 DEF Records!Hears
      <4> QED  BY <2>1, <2>4, <3>1, <3>2, <4>1
    <3>3. CASE u.kind # "head"
      <4>1. \E w \in BOOLEAN : backend' = [backend EXCEPT !.whole = w] \/ backend' = backend
        <5>1. (backend.whole \/ Records!Completes(u)) \in BOOLEAN
          OBVIOUS
        <5> QED  BY <2>4, <3>3, <5>1 DEF Records!Hears
      <4> QED  BY <2>1, <2>4, <3>3, <4>1
    <3> QED  BY <3>2, <3>3
  <2> QED  BY <1>1, <2>2, <2>3, <2>4
<1>8. /\ inbox' \in Seq(Items)
      /\ \A i \in DOMAIN inbox : i \in DOMAIN inbox' /\ inbox'[i] = inbox[i]
      /\ \A i \in DOMAIN inbox' : (i \in DOMAIN inbox /\ inbox'[i] = inbox[i])
            \/ (inbox'[i].kind = "eof" /\ inbox'[i].of = NoAsk /\ \A j \in DOMAIN inbox : j < i)
      /\ inbox' = inbox \/ \E i \in DOMAIN inbox' : inbox'[i].kind = "eof"
  <2>1. inbox \in Seq(Items)
    BY <1>2 DEF RecTypes
  <2>2. CASE inbox' = inbox
    BY <2>1, <2>2
  <2>3. CASE inbox' = Append(inbox, [kind |-> "eof", of |-> NoAsk])
    <3>1. PICK e \in Items : e = [kind |-> "eof", of |-> NoAsk]
      BY DEF Items, AllKinds
    <3>2. PICK w : w = Append(inbox, e)
      OBVIOUS
    <3>3. /\ w \in Seq(Items) /\ Len(w) = Len(inbox) + 1 /\ Len(inbox) \in Nat
          /\ (\A i \in 1 .. Len(inbox) : w[i] = inbox[i]) /\ w[Len(inbox) + 1] = e
          /\ DOMAIN inbox = 1 .. Len(inbox) /\ DOMAIN w = 1 .. Len(w)
      BY <2>1, <3>2, AppendProperties, LenProperties
    <3>4. inbox' = w
      BY <2>3, <3>1, <3>2
    <3> QED  BY <3>1, <3>3, <3>4
  <2> QED  BY <1>7, <2>2, <2>3
<1>9. RecTypes'
  <2>1. \A i \in DOMAIN inbox' : Fitting(inbox'[i].kind)
    BY <1>2, <1>8 DEF RecTypes, Fitting
  <2>2. backend' \in [heard : Asks \cup {NoAsk}, whole : BOOLEAN, owes : BOOLEAN, gone : BOOLEAN]
    BY <1>2, <1>5, <1>7 DEF RecTypes
  <2> QED  BY <1>1, <1>2, <1>4, <1>6, <1>8, <2>1, <2>2 DEF RecTypes, Fitting
<1>10. AllGiven'
  BY <1>1, GivenSame
<1>11. News'
  <2> SUFFICES ASSUME NEW r \in Asks, req[r].phase = "new"  PROVE Unknown(r)'
    BY <1>1 DEF News
  <2>1. Unknown(r) /\ r # u.of
    BY <1>5 DEF RecInv, News
  <2>2. backend'.heard # r
    BY <1>7, <2>1 DEF Unknown
  <2>3. (\A i \in DOMAIN units' : units'[i].of # r) /\ \A i \in DOMAIN inbox' : inbox'[i].of # r
    BY <1>4, <1>8, <2>1, NoAskIsNone DEF Unknown
  <2> QED  BY <1>1, <2>1, <2>2, <2>3 DEF Unknown
<1>12. Entered'
  BY <1>1, <1>2 DEF Entered, Awaited
<1>13. OpenLine' /\ HeadedFirst'
  BY <1>1, <1>2 DEF Exchange, OpenLine, HeadedFirst
<1>14. Asked'
  <2> SUFFICES ASSUME ~strayed \/ proto = "fcgi"
               PROVE  /\ \A i \in DOMAIN units' : units'[i].kind = "head" =>
                           /\ units'[i].of = serves /\ backend'.heard # serves
                           /\ \A j \in DOMAIN units' : units'[j].kind = "head" => i = j
                      /\ backend'.owes => serves # NoAsk /\ backend'.heard = serves
                      /\ serves # NoAsk /\ (backend'.owes \/ backend'.heard # serves) =>
                           /\ \A i \in DOMAIN inbox' : inbox'[i].of # serves
                           /\ proto = "fcgi" => state = "header"
    BY <1>1 DEF Asked
  <2>1. /\ \A i \in DOMAIN units : units[i].kind = "head" =>
             /\ units[i].of = serves /\ backend.heard # serves
             /\ \A j \in DOMAIN units : units[j].kind = "head" => i = j
        /\ backend.owes => serves # NoAsk /\ backend.heard = serves
        /\ serves # NoAsk /\ (backend.owes \/ backend.heard # serves) =>
             /\ \A i \in DOMAIN inbox : inbox[i].of # serves
             /\ proto = "fcgi" => state = "header"
    BY <1>2 DEF Exchange, Asked
  <2>2. \A i \in DOMAIN units' : units'[i].kind = "head" => units'[i].of = serves /\ backend.heard # serves
    BY <1>4, <2>1
  <2>3. \A i, j \in DOMAIN units' : units'[i].kind = "head" /\ units'[j].kind = "head" => i = j
    <3> SUFFICES ASSUME NEW i \in DOMAIN units', NEW j \in DOMAIN units', units'[i].kind = "head", units'[j].kind = "head"
                 PROVE  i = j
      OBVIOUS
    <3>1. i + 1 = j + 1
      BY <1>4, <2>1
    <3> QED  BY <1>4, <3>1
  <2>4. serves # NoAsk /\ (\A i \in DOMAIN inbox : inbox[i].of # serves) => \A i \in DOMAIN inbox' : inbox'[i].of # serves
    BY <1>8
  <2>5. CASE u.kind = "head" /\ backend'.heard = u.of
    <3>1. u.of = serves /\ backend.heard # serves /\ serves # NoAsk
      BY <1>3, <1>5, <2>1, <2>5, NoAskIsNone
    <3>2. \A i \in DOMAIN units' : units'[i].kind # "head"
      <4> SUFFICES ASSUME NEW i \in DOMAIN units', units'[i].kind = "head"  PROVE FALSE
        OBVIOUS
      <4>1. i + 1 = 1
        BY <1>3, <1>4, <2>1, <2>5
      <4> QED  BY <1>4, <4>1
    <3> QED  BY <2>1, <2>4, <2>5, <3>1, <3>2
  <2>6. CASE backend'.heard = backend.heard /\ backend'.owes = backend.owes
    BY <2>1, <2>2, <2>3, <2>4, <2>6
  <2> QED  BY <1>7, <2>5, <2>6
<1>15. BadHeader'
  <2> SUFFICES ASSUME NEW i \in DOMAIN inbox', inbox'[i].kind = "bad", inbox'[i].of = serves, serves # NoAsk
               PROVE  state = "header" /\ \A j \in 1 .. i - 1 : inbox'[j].of = serves => inbox'[j].kind = "line"
    BY <1>1 DEF BadHeader
  <2>1. proto = "fcgi"
    <3>1. proto \in {"fcgi", "ajp"} /\ proto' = proto /\ (proto' = "ajp" => inbox'[i].kind # "bad")
      BY <1>1, <1>2, <1>9 DEF RecTypes
    <3> QED  BY <3>1
  <2>2. inbox' = inbox
    BY <1>1, <1>7, <2>1
  <2> QED  BY <1>2, <2>2 DEF Exchange, BadHeader
<1>16. Matched'
  <2> SUFFICES ASSUME ~strayed, NEW i \in DOMAIN inbox'
               PROVE  /\ inbox'[i].kind = "eof" \/ (serves # NoAsk /\ inbox'[i].of = serves)
                      /\ inbox'[i].kind \in {"end", "final"} =>
                           \A j \in DOMAIN inbox' : j > i => inbox'[j].kind = "eof"
    BY <1>1 DEF Matched
  <2> QED  BY <1>2, <1>8 DEF Exchange, Matched
<1>17. WillEnd'
  <2>1. Awaited' = Awaited /\ WillEnd
    BY <1>1, <1>2 DEF Awaited, Exchange
  <2>2. backend'.gone => \E i \in DOMAIN inbox' : inbox'[i].kind = "eof"
    <3>1. \/ backend'.gone <=> backend.gone
          \/ inbox' = Append(inbox, [kind |-> "eof", of |-> NoAsk])
      BY <1>7
    <3>2. (\E i \in DOMAIN inbox : inbox[i].kind = "eof") => \E i \in DOMAIN inbox' : inbox'[i].kind = "eof"
      BY <1>8
    <3>3. CASE inbox' = Append(inbox, [kind |-> "eof", of |-> NoAsk])
      <4>1. Len(inbox') = Len(inbox) + 1 /\ Len(inbox) \in Nat
        BY <1>2, <3>3, AppendProperties, LenProperties DEF RecTypes, Items, AllKinds
      <4>2. inbox' # inbox
        BY <4>1
      <4> QED  BY <1>8, <4>2
    <3> QED  BY <2>1, <3>1, <3>2, <3>3 DEF WillEnd
  <2>3. (\E i \in DOMAIN inbox : Ending(i)) => \E i \in DOMAIN inbox' : Ending(i)'
    <3> SUFFICES ASSUME NEW i \in DOMAIN inbox, Ending(i)  PROVE Ending(i)'
      BY <1>8
    <3>1. i # 1 => i - 1 \in DOMAIN inbox
      <4>1. DOMAIN inbox = 1 .. Len(inbox) /\ Len(inbox) \in Nat
        BY <1>2, LenProperties DEF RecTypes
      <4> QED  BY <4>1
    <3>2. inbox'[i] = inbox[i] /\ (i # 1 => inbox'[i - 1] = inbox[i - 1])
      BY <1>8, <3>1
    <3> QED  BY <1>1, <3>2 DEF Ending
  <2>4. (\E i \in DOMAIN inbox' : inbox'[i].kind = "eof") => \E i \in DOMAIN inbox' : Ending(i)'
    BY DEF Ending, LastWords
  <2>5. (\E i \in DOMAIN units : units[i].kind = "head" /\ units[i].of = serves)
          => u.kind = "head" \/ \E i \in DOMAIN units' : units'[i].kind = "head" /\ units'[i].of = serves
    <3> SUFFICES ASSUME NEW i \in DOMAIN units, units[i].kind = "head", units[i].of = serves, u.kind # "head"
                 PROVE  \E j \in DOMAIN units' : units'[j].kind = "head" /\ units'[j].of = serves
      OBVIOUS
    <3>1. i - 1 \in DOMAIN units' /\ units'[i - 1] = units[i]
      BY <1>3, <1>4
    <3> QED  BY <3>1
  <2>6. u.kind = "head" => backend'.gone \/ backend'.owes
    BY <1>7
  <2>7. backend.owes => backend'.owes
    BY <1>7
  <2> QED  BY <1>1, <2>1, <2>2, <2>3, <2>4, <2>5, <2>6, <2>7 DEF WillEnd
<1>18. ReadsOn'
  <2>1. (\E i \in DOMAIN units : units[i].kind = "end")
          => u.kind = "end" \/ \E i \in DOMAIN units' : units'[i].kind = "end"
    <3> SUFFICES ASSUME NEW i \in DOMAIN units, units[i].kind = "end", u.kind # "end"
                 PROVE  \E j \in DOMAIN units' : units'[j].kind = "end"
      OBVIOUS
    <3>1. i - 1 \in DOMAIN units' /\ units'[i - 1] = units[i]
      BY <1>3, <1>4
    <3> QED  BY <3>1
  <2>2. Awaited' = Awaited /\ ReadsOn
    BY <1>1, <1>2 DEF Awaited, Exchange
  <2> QED  BY <1>1, <1>6, <2>1, <2>2 DEF ReadsOn
<1>19. Records!DeathsExplained'
  BY <1>1 DEF Records!DeathsExplained
<1>20. Named'
  BY <1>2, <1>5, <1>7, <1>8, NoAskIsNone DEF Exchange, Named
<1> QED  BY <1>1, <1>9, <1>10, <1>11, <1>12, <1>13, <1>14, <1>15, <1>16, <1>17, <1>18, <1>19, <1>20 DEF RecInv, Exchange

(* The chunk of a body whose tour has been returned, or another unit.      *)
LEMMA WriteUnitKeeps == ASSUME RecInv, Records!Write  PROVE RecInv'
<1>1. CASE Records!Unheard(Head(units))
  <2>1. /\ agent = "up" /\ units # <<>> /\ Records!Dies("consumed")
        /\ UNCHANGED <<proto, inbox, units, backend, strayed, refused, faults>>
    BY <1>1 DEF Records!Write, Records!Runs, Records!past, Records!wire
  <2>2. 1 \in DOMAIN units /\ units[1] = Head(units)
    BY <2>1, Shortened DEF RecInv, RecTypes
  <2> QED  BY <1>1, <2>1, <2>2, Dying
<1> QED  BY <1>1, HeardKeeps

-----------------------------------------------------------------------------
(* What is read: a record that leaves the request its connection.          *)
Takes ==
  /\ agent = "up" /\ conn = "up" /\ reading /\ inbox # <<>> /\ inbox' = Tail(inbox)
  /\ UNCHANGED <<proto, units, backend, strayed, refused, faults>>
Alters ==
  \/ req' = req
  \/ /\ serves \in Asks /\ req' = [req EXCEPT ![serves] = req'[serves]] /\ req'[serves] \in AskRec
     /\ req'[serves].phase = req[serves].phase /\ req'[serves].post = req[serves].post
     /\ req'[serves].sent = req[serves].sent /\ Given(serves, req'[serves], cut, strayed, proto)

LEMMA FirstTaken ==
  ASSUME RecInv, Takes
  PROVE  /\ RecTypes /\ Entered /\ Exchange /\ 1 \in DOMAIN inbox /\ inbox[1] = Head(inbox) /\ Head(inbox) \in Items
         /\ Fitting(Head(inbox).kind) /\ inbox' \in Seq(Items)
         /\ \A i \in DOMAIN inbox : i \in Nat /\ i > 0 /\ (i > 1 => i - 1 \in DOMAIN inbox' /\ inbox'[i - 1] = inbox[i])
         /\ \A i \in DOMAIN inbox' : i \in Nat /\ i > 0 /\ i + 1 \in DOMAIN inbox /\ inbox'[i] = inbox[i + 1]
         /\ \A i \in DOMAIN inbox' : Fitting(inbox'[i].kind)
<1>1. RecTypes /\ Entered /\ Exchange /\ inbox \in Seq(Items)
  BY DEF RecInv, RecTypes, Takes
<1>2. /\ Tail(inbox) \in Seq(Items) /\ Head(inbox) \in Items /\ 1 \in DOMAIN inbox /\ inbox[1] = Head(inbox)
      /\ \A i \in DOMAIN inbox : i \in Nat /\ i > 0 /\ (i > 1 => i - 1 \in DOMAIN Tail(inbox) /\ Tail(inbox)[i - 1] = inbox[i])
      /\ \A i \in DOMAIN Tail(inbox) : i \in Nat /\ i > 0 /\ i + 1 \in DOMAIN inbox /\ Tail(inbox)[i] = inbox[i + 1]
  BY <1>1, Shortened DEF Takes
<1>3. \A i \in DOMAIN inbox : Fitting(inbox[i].kind)
  BY <1>1 DEF RecTypes, Fitting
<1> QED  BY <1>1, <1>2, <1>3 DEF Takes

LEMMA ReadsItem ==
  ASSUME RecInv, Takes, UNCHANGED <<agent, conn, serves, cut>>, Alters,
         line' \subseteq Asks, line' \ {serves} \subseteq cut, reading' \in BOOLEAN, state' \in {"header", "content"},
         state' = "content" => serves # NoAsk /\ req'[serves].headed,
         ~Ending(1), proto = "fcgi" => Head(inbox).of = serves,
         Head(inbox).kind = "data" /\ proto = "ajp" => state' = "content",
         Head(inbox).kind = "line" /\ state = "header" => state' = "header",
         reading' \/ (proto = "ajp" /\ serves # NoAsk /\ req'[serves].full)
  PROVE  RecInv'
<1>1. /\ agent = "up" /\ conn = "up" /\ reading /\ UNCHANGED <<proto, units, backend, strayed, refused, faults>>
  BY DEF Takes
<1>2. /\ RecTypes /\ Entered /\ Exchange /\ 1 \in DOMAIN inbox /\ inbox[1] = Head(inbox) /\ Head(inbox) \in Items
      /\ Fitting(Head(inbox).kind) /\ inbox' \in Seq(Items)
      /\ \A i \in DOMAIN inbox : i \in Nat /\ i > 0 /\ (i > 1 => i - 1 \in DOMAIN inbox' /\ inbox'[i - 1] = inbox[i])
      /\ \A i \in DOMAIN inbox' : i \in Nat /\ i > 0 /\ i + 1 \in DOMAIN inbox /\ inbox'[i] = inbox[i + 1]
      /\ \A i \in DOMAIN inbox' : Fitting(inbox'[i].kind)
  BY FirstTaken
<1>3. /\ req' \in [Asks -> AskRec] /\ AllGiven' /\ Awaited' = Awaited
      /\ \A o \in Asks \ {serves} : req'[o] = req[o]
      /\ \A o \in Asks : /\ req'[o].phase = req[o].phase /\ req'[o].post = req[o].post
                         /\ req'[o].sent = req[o].sent
  <2>1. req \in [Asks -> AskRec] /\ serves \in Asks \cup {NoAsk}
    BY <1>2 DEF RecTypes
  <2>2. CASE req' = req
    <3>1. AllGiven'
      BY <1>1, <2>2, GivenSame
    <3> QED  BY <2>1, <2>2, <3>1 DEF Awaited
  <2>3. CASE req' # req
    <3>1. /\ serves \in Asks /\ req' = [req EXCEPT ![serves] = req'[serves]] /\ req'[serves] \in AskRec
          /\ req'[serves].phase = req[serves].phase /\ req'[serves].post = req[serves].post
          /\ req'[serves].sent = req[serves].sent /\ Given(serves, req'[serves], cut, strayed, proto)
      BY <2>3 DEF Alters
    <3>2. Given(serves, req'[serves], cut', strayed', proto)
      BY <1>1, <3>1 DEF Given
    <3>3. AllGiven'
      BY <1>1, <3>1, <3>2, GivenStays
    <3> QED  BY <2>1, <3>1, <3>3 DEF Awaited
  <2> QED  BY <2>2, <2>3
<1>4. RecTypes'
  BY <1>1, <1>2, <1>3 DEF RecTypes, Fitting
<1>5. News'
  <2> SUFFICES ASSUME NEW o \in Asks, req'[o].phase = "new"  PROVE Unknown(o)'
    BY DEF News
  <2>1. req[o].phase = "new" /\ Unknown(o)
    BY <1>3 DEF RecInv, News
  <2>2. req'[o] = req[o]
    BY <1>3, <2>1 DEF Unknown
  <2> QED  BY <1>1, <1>2, <2>1, <2>2 DEF Unknown
<1>6. Entered'
  BY <1>1, <1>2, <1>3 DEF Entered, RecTypes
<1>7. OpenLine' /\ HeadedFirst'
  BY DEF OpenLine, HeadedFirst
<1>8. Asked'
  <2> SUFFICES ASSUME ~strayed \/ proto = "fcgi", serves # NoAsk, backend.owes \/ backend.heard # serves
               PROVE  (\A i \in DOMAIN inbox' : inbox'[i].of # serves) /\ (proto = "fcgi" => state' = "header")
    BY <1>1, <1>2 DEF Exchange, Asked
  <2>1. \A i \in DOMAIN inbox : inbox[i].of # serves
    BY <1>2 DEF Exchange, Asked
  <2> QED  BY <1>2, <2>1
<1>9. BadHeader'
  <2> SUFFICES ASSUME NEW i \in DOMAIN inbox', inbox'[i].kind = "bad", inbox'[i].of = serves, serves # NoAsk
               PROVE  state' = "header" /\ \A j \in 1 .. i - 1 : inbox'[j].of = serves => inbox'[j].kind = "line"
    BY DEF BadHeader
  <2>1. /\ i \in Nat /\ i > 0 /\ i + 1 \in DOMAIN inbox /\ inbox'[i] = inbox[i + 1] /\ state = "header"
        /\ \A j \in 1 .. (i + 1) - 1 : inbox[j].of = serves => inbox[j].kind = "line"
    BY <1>2 DEF Exchange, BadHeader
  <2>2. proto = "fcgi"
    BY <1>2 DEF Fitting, RecTypes
  <2>3. state' = "header"
    BY <1>2, <2>1, <2>2
  <2>4. ASSUME NEW j \in 1 .. i - 1, inbox'[j].of = serves  PROVE inbox'[j].kind = "line"
    <3>1. j \in DOMAIN inbox' /\ j + 1 \in 1 .. (i + 1) - 1
      <4>1. DOMAIN inbox' = 1 .. Len(inbox') /\ Len(inbox') \in Nat
        BY <1>2, LenProperties
      <4> QED  BY <2>1, <4>1
    <3>2. inbox'[j] = inbox[j + 1]
      BY <1>2, <3>1
    <3> QED  BY <2>1, <2>4, <3>1, <3>2
  <2> QED  BY <2>3, <2>4
<1>10. Matched' /\ Named'
  <2>1. Named'
    BY <1>1, <1>2 DEF Exchange, Named
  <2>2. Matched'
    <3> SUFFICES ASSUME ~strayed, NEW i \in DOMAIN inbox'
                 PROVE  /\ inbox'[i].kind = "eof" \/ (serves # NoAsk /\ inbox'[i].of = serves)
                        /\ inbox'[i].kind \in {"end", "final"} =>
                             \A j \in DOMAIN inbox' : j > i => inbox'[j].kind = "eof"
      BY <1>1 DEF Matched
    <3>1. /\ i \in Nat /\ i + 1 \in DOMAIN inbox /\ inbox'[i] = inbox[i + 1]
          /\ \A j \in DOMAIN inbox' : j \in Nat /\ j + 1 \in DOMAIN inbox /\ inbox'[j] = inbox[j + 1]
      BY <1>2
    <3>2. /\ inbox[i + 1].kind = "eof" \/ (serves # NoAsk /\ inbox[i + 1].of = serves)
          /\ inbox[i + 1].kind \in {"end", "final"} =>
               \A j \in DOMAIN inbox : j > i + 1 => inbox[j].kind = "eof"
      BY <1>2, <3>1 DEF Exchange, Matched
    <3>3. \A j \in DOMAIN inbox' : j > i => j + 1 > i + 1
      BY <3>1
    <3> QED  BY <3>1, <3>2, <3>3
  <2> QED  BY <2>1, <2>2
<1>11. WillEnd'
  <2>1. WillEnd
    BY <1>2 DEF Exchange
  <2>2. Head(inbox).kind \notin LastWords
    BY <1>2 DEF Ending
  <2>3. (\E i \in DOMAIN inbox : inbox[i].kind = "eof") => \E i \in DOMAIN inbox' : inbox'[i].kind = "eof"
    <3> SUFFICES ASSUME NEW i \in DOMAIN inbox, inbox[i].kind = "eof"  PROVE \E j \in DOMAIN inbox' : inbox'[j].kind = "eof"
      OBVIOUS
    <3>1. i # 1
      BY <1>2, <2>2 DEF LastWords
    <3>2. i - 1 \in DOMAIN inbox' /\ inbox'[i - 1] = inbox[i]
      BY <1>2, <3>1
    <3> QED  BY <3>2
  <2>4. ASSUME NEW i \in DOMAIN inbox, Ending(i)  PROVE \E j \in DOMAIN inbox' : Ending(j)'
    <3>1. i # 1
      BY <2>4
    <3>2. PICK k \in DOMAIN inbox' : i = k + 1 /\ inbox'[k] = inbox[k + 1] /\ k \in Nat /\ k > 0
      BY <1>2, <3>1
    <3>3. CASE inbox[i].kind \in LastWords
      BY <3>2, <3>3 DEF Ending
    <3>4. CASE inbox[i].kind = "headers" /\ inbox[i - 1].kind = "data"
      <4>1. CASE k = 1
        <5>1. Head(inbox).kind = "data" /\ inbox'[k].kind = "headers"
          BY <1>2, <3>2, <3>4, <4>1
        <5>2. proto = "ajp"
          BY <1>2, <5>1 DEF RecTypes, Fitting
        <5> QED  BY <4>1, <5>1, <5>2 DEF Ending
      <4>2. CASE k # 1
        <5>1. k - 1 \in DOMAIN inbox'
          BY <1>2, <3>2, <4>2, LenProperties
        <5>2. inbox'[k - 1] = inbox[i - 1]
          BY <1>2, <3>2, <5>1
        <5> QED  BY <3>2, <3>4, <4>2, <5>2 DEF Ending
      <4> QED  BY <4>1, <4>2
    <3> QED  BY <2>4, <3>1, <3>3, <3>4 DEF Ending
  <2> QED  BY <1>1, <1>3, <2>1, <2>3, <2>4 DEF WillEnd
<1>12. ReadsOn'
  <2>1. proto \in {"fcgi", "ajp"}
    BY <1>2 DEF RecTypes
  <2> QED  BY <1>1, <2>1 DEF ReadsOn
<1>13. Records!DeathsExplained'
  BY <1>1 DEF Records!DeathsExplained
<1> QED  BY <1>1, <1>3, <1>4, <1>5, <1>6, <1>7, <1>8, <1>9, <1>10, <1>11, <1>12, <1>13 DEF RecInv, Exchange

(* A record that ends the answer.                                          *)
LEMMA FinishKeeps ==
  ASSUME RecInv, Takes, serves \in Asks, req[serves].phase # "new", NEW q \in AskRec, NEW keep \in BOOLEAN,
         Records!Finishes(serves, q, keep),
         Head(inbox).kind \in {"end", "final"}, proto = "fcgi" => Head(inbox).of = serves,
         Given(serves, q, cut, strayed, proto), q.headed \/ proto = "fcgi"
  PROVE  RecInv'
<1>1. /\ agent = "up" /\ conn = "up" /\ reading /\ UNCHANGED <<proto, units, backend, strayed, refused, faults>>
      /\ inbox # <<>> /\ inbox' = Tail(inbox)
  BY DEF Takes
<1>2. /\ req' = [req EXCEPT ![serves] = Records!Ended(q, "bare")] /\ serves' = NoAsk /\ state' = "header"
      /\ conn' = (IF keep THEN conn ELSE "closing")
      /\ cut' = (IF serves \in line THEN cut \cup {serves} ELSE cut)
      /\ UNCHANGED <<agent, line, reading>>
  BY DEF Records!Finishes, Records!Sends, NoAsk
<1>3. /\ RecTypes /\ Entered /\ Exchange /\ 1 \in DOMAIN inbox /\ inbox[1] = Head(inbox) /\ Head(inbox) \in Items
      /\ Fitting(Head(inbox).kind) /\ inbox' \in Seq(Items)
      /\ \A i \in DOMAIN inbox : i \in Nat /\ i > 0 /\ (i > 1 => i - 1 \in DOMAIN inbox' /\ inbox'[i - 1] = inbox[i])
      /\ \A i \in DOMAIN inbox' : i \in Nat /\ i > 0 /\ i + 1 \in DOMAIN inbox /\ inbox'[i] = inbox[i + 1]
      /\ \A i \in DOMAIN inbox' : Fitting(inbox'[i].kind)
  BY FirstTaken
<1>4. cut \subseteq cut' /\ cut' \subseteq Asks /\ cut' \subseteq cut \cup {serves} /\ (serves \in line => serves \in cut')
  BY <1>2, <1>3 DEF RecTypes
<1>5. PICK e : e = Records!Ended(q, "bare")
  OBVIOUS
<1>6. e \in AskRec /\ e.phase = "ended" /\ Given(serves, e, cut', strayed, proto)
  <2>1. PICK a : a = (IF q.headed THEN q.answer ELSE "bare") /\ e = [q EXCEPT !.phase = "ended", !.answer = a]
    BY <1>5 DEF Records!Ended
  <2>2. e \in AskRec /\ e.phase = "ended" /\ e.headed = q.headed /\ e.post = q.post
        /\ e.headers = q.headers /\ e.of = q.of /\ e.answer = (IF q.headed THEN q.answer ELSE "bare")
    <3>1. a \in {"none", "given", "error", "bare"}
      BY <2>1 DEF AskRec
    <3> QED  BY <2>1, <3>1 DEF AskRec
  <2> QED  BY <1>4, <2>2 DEF Given
<1>7. CASE conn' = "closing"
  <2>1. reading' \in BOOLEAN /\ \A r \in cut' \ cut : req[r].phase # "new"
    BY <1>1, <1>2, <1>4
  <2> QED  BY <1>1, <1>2, <1>4, <1>5, <1>6, <1>7, <2>1, Parting
<1>8. CASE conn' = "up"
  <2>1. /\ req' \in [Asks -> AskRec] /\ \A o \in Asks \ {serves} : req'[o] = req[o]
        /\ req'[serves] = e /\ req' = [req EXCEPT ![serves] = req'[serves]]
    BY <1>2, <1>3, <1>5, <1>6 DEF RecTypes
  <2>2. AllGiven'
    <3>1. Given(serves, req'[serves], cut', strayed', proto)
      BY <1>1, <1>6, <2>1 DEF Given
    <3> QED  BY <1>1, <1>4, <2>1, <3>1, GivenStays
  <2>3. RecTypes'
    BY <1>1, <1>2, <1>3, <1>4, <1>8, <2>1 DEF RecTypes, Fitting
  <2>4. News'
    <3> SUFFICES ASSUME NEW o \in Asks, req'[o].phase = "new"  PROVE Unknown(o)'
      BY DEF News
    <3>1. o # serves /\ req'[o] = req[o] /\ Unknown(o)
      BY <1>6, <2>1 DEF RecInv, News
    <3> QED  BY <1>1, <1>2, <1>3, <1>4, <3>1, NoAskIsNone DEF Unknown
  <2>5. \A o \in Asks : req'[o].phase # "arrived"
    BY <1>3, <1>6, <2>1 DEF Entered
  <2>6. Entered'
    BY <1>1, <1>2, <1>3, <1>8, <2>5 DEF Entered, Awaited
  <2>7. OpenLine' /\ HeadedFirst' /\ BadHeader' /\ ReadsOn'
    BY <1>2, <1>3, <1>4 DEF Exchange, OpenLine, HeadedFirst, BadHeader, ReadsOn, Awaited
  <2>8. Asked' /\ Matched'
    <3>1. ~strayed => Head(inbox).of = serves
      BY <1>3 DEF Exchange, Matched
    <3>2. ASSUME ~strayed \/ proto = "fcgi"
          PROVE  ~backend.owes /\ \A i \in DOMAIN units : units[i].kind # "head"
      BY <1>3, <3>1, <3>2, NoAskIsNone DEF Exchange, Asked
    <3>3. Asked'
      BY <1>1, <1>2, <3>2 DEF Asked
    <3>4. ~strayed => \A j \in DOMAIN inbox : j > 1 => inbox[j].kind = "eof"
      BY <1>3 DEF Exchange, Matched
    <3>5. ~strayed => \A j \in DOMAIN inbox' : inbox'[j].kind = "eof"
      BY <1>3, <3>4
    <3>6. Matched'
      BY <1>1, <3>5 DEF Matched
    <3> QED  BY <3>3, <3>6
  <2>9. Named'
    BY <1>1, <1>3 DEF Exchange, Named
  <2>10. WillEnd'
    <3>1. (\E i \in DOMAIN inbox : inbox[i].kind = "eof") => \E i \in DOMAIN inbox' : inbox'[i].kind = "eof"
      <4> SUFFICES ASSUME NEW i \in DOMAIN inbox, inbox[i].kind = "eof"  PROVE \E j \in DOMAIN inbox' : inbox'[j].kind = "eof"
        OBVIOUS
      <4>1. i # 1
        BY <1>3
      <4>2. i - 1 \in DOMAIN inbox' /\ inbox'[i - 1] = inbox[i]
        BY <1>3, <4>1
      <4> QED  BY <4>2
    <3> QED  BY <1>1, <1>2, <1>3, <3>1 DEF Exchange, WillEnd, Awaited
  <2>11. Records!DeathsExplained'
    BY <1>1, <1>2 DEF Records!DeathsExplained
  <2> QED  BY <1>1, <1>2, <1>8, <2>2, <2>3, <2>4, <2>6, <2>7, <2>8, <2>9, <2>10, <2>11 DEF RecInv, Exchange
<1> QED  BY <1>1, <1>2, <1>7, <1>8

(* The records of an answer, as the handlers take them.                    *)
Mine ==
  /\ serves \in Asks /\ req[serves] \in AskRec /\ req[serves].phase \notin {"new", "returned"}
  /\ Given(serves, req[serves], cut, strayed, proto)
  /\ cut \subseteq Asks /\ line \subseteq Asks /\ line \ {serves} \subseteq cut /\ req \in [Asks -> AskRec]
  /\ Head(inbox).of \in Asks \cup {NoAsk} /\ (proto = "fcgi" => Head(inbox).of = serves)
  /\ Head(inbox).of = serves \/ (strayed /\ proto = "ajp")
  /\ state \in {"header", "content"} /\ (state = "content" => req[serves].headed)
  /\ Head(inbox).kind \notin {"eof", "foreign"} /\ Fitting(Head(inbox).kind)
  /\ Head(inbox).kind \in AllKinds /\ Head(inbox) = inbox[1]
  /\ Head(inbox).kind = "headers" => Head(inbox).of # NoAsk

LEMMA HeadsMine ==
  ASSUME Mine
  PROVE  LET q == Records!Heads(req[serves], Head(inbox).of) IN
         /\ q \in AskRec /\ q.headed /\ q.phase = req[serves].phase /\ q.post = req[serves].post
         /\ q.sent = req[serves].sent /\ q.full = req[serves].full /\ Given(serves, q, cut, strayed, proto)
<1>1. PICK o \in AskRec : o = req[serves]
  BY DEF Mine
<1>2. PICK a, f : /\ a = (IF o.headed THEN o.answer ELSE "given") /\ f = o.of \cup {Head(inbox).of}
  OBVIOUS
<1>3. a \in {"none", "given", "error", "bare"} /\ f \in SUBSET (Asks \cup {NoAsk})
  BY <1>1, <1>2 DEF AskRec, Mine
<1>4. PICK q : q = [o EXCEPT !.headed = TRUE, !.answer = a, !.of = f]
  OBVIOUS
<1>5. /\ q \in AskRec /\ q.headed /\ q.phase = o.phase /\ q.post = o.post /\ q.sent = o.sent /\ q.full = o.full
      /\ q.headers = o.headers /\ q.of = f /\ q.answer = a
  BY <1>3, <1>4 DEF AskRec
<1>6. q = Records!Heads(req[serves], Head(inbox).of)
  BY <1>1, <1>2, <1>4 DEF Records!Heads
<1>7. Given(serves, q, cut, strayed, proto)
  BY <1>1, <1>2, <1>5 DEF Mine, Given
<1> QED  BY <1>1, <1>5, <1>6, <1>7

LEMMA MineHolds ==
  ASSUME RecInv, Takes, Head(inbox).kind \notin {"eof", "foreign"}, Records!TourOf(Head(inbox)) # NoAsk,
         ~Records!Stale(serves)
  PROVE  Mine /\ Records!TourOf(Head(inbox)) = serves
<1>1. serves \in Asks /\ (proto = "fcgi" => Head(inbox).of = serves) /\ Records!TourOf(Head(inbox)) = serves
  BY DEF Records!TourOf, NoAsk, Records!None, RecInv, RecTypes
<1>2. /\ RecTypes /\ Entered /\ Exchange /\ 1 \in DOMAIN inbox /\ inbox[1] = Head(inbox) /\ Head(inbox) \in Items
      /\ Fitting(Head(inbox).kind) /\ News /\ AllGiven
  BY FirstTaken DEF RecInv
<1>3. serves # NoAsk /\ req[serves].phase \notin {"new", "returned"}
  BY <1>1, <1>2, NoAskIsNone DEF Entered, News, Unknown, Records!Stale, NoAsk
<1>4. Head(inbox).of = serves \/ (strayed /\ proto = "ajp")
  BY <1>1, <1>2 DEF Exchange, Matched, RecTypes
<1>5. /\ line \ {serves} \subseteq cut /\ (state = "content" => req[serves].headed)
      /\ Head(inbox).kind = "headers" => Head(inbox).of # NoAsk
  BY <1>2 DEF Exchange, OpenLine, HeadedFirst, Named
<1>6. /\ req[serves] \in AskRec /\ cut \subseteq Asks /\ line \subseteq Asks /\ req \in [Asks -> AskRec]
      /\ state \in {"header", "content"}
  BY <1>1, <1>2 DEF RecTypes
<1>7. Head(inbox).of \in Asks \cup {NoAsk} /\ Head(inbox).kind \in AllKinds
  BY <1>2 DEF Items
<1>8. Given(serves, req[serves], cut, strayed, proto)
  BY <1>1, <1>2 DEF AllGiven
<1> QED  BY <1>1, <1>2, <1>3, <1>4, <1>5, <1>6, <1>7, <1>8 DEF Mine

LEMMA ContentKeeps ==
  ASSUME RecInv, Takes, Mine, serves # NoAsk, Records!Content(serves, Head(inbox).of),
         Head(inbox).kind \notin LastWords, Head(inbox).kind # "headers",
         state = "content" \/ Head(inbox).kind = "data"
  PROVE  RecInv'
<1>1. PICK full \in BOOLEAN :
        /\ req' = [req EXCEPT ![serves] = [Records!Heads(req[serves], Head(inbox).of) EXCEPT !.full = full]]
        /\ reading' = ~(full /\ proto = "ajp") /\ state' = "content" /\ UNCHANGED <<agent, conn, serves, line, cut>>
  BY DEF Mine, Records!Content, Records!Sends, Records!Stays, Records!Suspends
<1>2. PICK h : /\ h = Records!Heads(req[serves], Head(inbox).of)
               /\ h \in AskRec /\ h.headed /\ h.phase = req[serves].phase /\ h.post = req[serves].post
               /\ h.sent = req[serves].sent /\ Given(serves, h, cut, strayed, proto)
  BY HeadsMine
<1>3. PICK q : q = [h EXCEPT !.full = full]
  OBVIOUS
<1>4. /\ q \in AskRec /\ q.headed /\ q.phase = req[serves].phase /\ q.post = req[serves].post /\ q.full = full
      /\ q.sent = req[serves].sent /\ q.headers = h.headers /\ q.of = h.of /\ q.answer = h.answer
  BY <1>2, <1>3 DEF AskRec
<1>5. Given(serves, q, cut, strayed, proto)
  BY <1>2, <1>4 DEF Given, Mine
<1>6. req' = [req EXCEPT ![serves] = q] /\ req'[serves] = q
  BY <1>1, <1>2, <1>3 DEF Mine
<1>7. Alters
  BY <1>4, <1>5, <1>6 DEF Alters, Mine
<1>8. ~Ending(1) /\ proto \in {"fcgi", "ajp"}
  BY DEF Ending, Mine, RecInv, RecTypes
<1>9. reading' \in BOOLEAN /\ (reading' \/ (proto = "ajp" /\ serves # NoAsk /\ req'[serves].full))
  BY <1>1, <1>4, <1>6, <1>8
<1>10. Head(inbox).kind = "line" /\ state = "header" => state' = "header"
  OBVIOUS
<1> QED  BY <1>1, <1>4, <1>6, <1>7, <1>8, <1>9, <1>10, ReadsItem DEF Mine

LEMMA HeaderKeeps ==
  ASSUME RecInv, Takes, Mine, serves # NoAsk, proto = "fcgi", state = "header",
         Records!HeaderBytes(serves, Head(inbox).kind)
  PROVE  RecInv'
<1>1. CASE Head(inbox).kind = "part"
  <2>1. line' = line \cup {serves} /\ UNCHANGED <<agent, conn, serves, state, reading, req, cut>>
    BY <1>1 DEF Records!HeaderBytes, Records!Stays
  <2>2. Alters /\ ~Ending(1) /\ reading
    BY <1>1, <2>1 DEF Alters, Ending, LastWords, Mine, Takes
  <2> QED  BY <1>1, <2>1, <2>2, ReadsItem DEF Mine, RecInv, RecTypes
<1>2. CASE Head(inbox).kind = "line"
  <2>1. /\ req' = [req EXCEPT ![serves] = [req[serves] EXCEPT !.headers = @ \cup line \cup {serves}]]
        /\ line' = {} /\ UNCHANGED <<agent, conn, serves, state, reading, cut>>
    BY <1>2 DEF Records!HeaderBytes, Records!Stays, Records!Sends
  <2>2. PICK o \in AskRec, s \in SUBSET Asks : o = req[serves] /\ s = o.headers \cup line \cup {serves}
    BY DEF Mine, AskRec
  <2>3. PICK q : q = [o EXCEPT !.headers = s]
    OBVIOUS
  <2>4. /\ q \in AskRec /\ q.headed = o.headed /\ q.phase = o.phase /\ q.post = o.post
        /\ q.sent = o.sent /\ q.full = o.full /\ q.headers = s /\ q.of = o.of /\ q.answer = o.answer
    BY <2>3 DEF AskRec
  <2>5. Given(serves, q, cut, strayed, proto)
    BY <2>2, <2>4 DEF Given, Mine
  <2>6. req' = [req EXCEPT ![serves] = q] /\ req'[serves] = q
    BY <2>1, <2>2, <2>3 DEF Mine
  <2>7. Alters /\ ~Ending(1) /\ reading
    BY <1>2, <2>2, <2>4, <2>5, <2>6 DEF Alters, Ending, LastWords, Mine, Takes
  <2> QED  BY <1>2, <2>1, <2>7, ReadsItem DEF Mine, RecInv, RecTypes
<1>3. CASE Head(inbox).kind = "blank" /\ line = {}
  <2>1. /\ req' = [req EXCEPT ![serves] = Records!Heads(req[serves], serves)] /\ state' = "content"
        /\ UNCHANGED <<agent, conn, serves, line, reading, cut>>
    BY <1>3 DEF Records!HeaderBytes, Records!Stays, Records!Sends
  <2>2. PICK h : /\ h = Records!Heads(req[serves], Head(inbox).of)
                 /\ h \in AskRec /\ h.headed /\ h.phase = req[serves].phase /\ h.post = req[serves].post
                 /\ h.sent = req[serves].sent /\ Given(serves, h, cut, strayed, proto)
    BY HeadsMine
  <2>3. req' = [req EXCEPT ![serves] = h] /\ req'[serves] = h
    BY <2>1, <2>2 DEF Mine
  <2>4. Alters /\ ~Ending(1) /\ reading
    BY <1>3, <2>2, <2>3 DEF Alters, Ending, LastWords, Mine, Takes
  <2> QED  BY <1>3, <2>1, <2>2, <2>3, <2>4, ReadsItem DEF Mine, RecInv, RecTypes
<1>4. CASE Head(inbox).kind \notin {"part", "line"} /\ ~(Head(inbox).kind = "blank" /\ line = {})
  <2>1. Records!Closes(serves)
    BY <1>4 DEF Records!HeaderBytes
  <2> QED  BY <2>1, ClosesKeeps DEF Takes
<1> QED  BY <1>1, <1>2, <1>3, <1>4

LEMMA FcgiKeeps ==
  ASSUME RecInv, Takes, Mine, serves # NoAsk, proto = "fcgi", Records!FcgiRecord(serves, Head(inbox))
  PROVE  RecInv'
<1>1. CASE Head(inbox).kind = "end"
  <2>1. Records!Finishes(serves, req[serves], TRUE)
    BY <1>1 DEF Records!FcgiRecord
  <2> QED  BY <1>1, <2>1, FinishKeeps DEF Mine
<1>2. CASE Head(inbox).kind = "drained"
  <2>1. state' = "header" /\ UNCHANGED <<agent, conn, serves, line, reading, req, cut>>
    BY <1>2 DEF Records!FcgiRecord, Records!Stays
  <2>2. Alters /\ ~Ending(1) /\ reading
    BY <1>2, <2>1 DEF Alters, Ending, LastWords, Mine, Takes
  <2> QED  BY <1>2, <2>1, <2>2, ReadsItem DEF Mine, RecInv, RecTypes
<1>3. CASE Head(inbox).kind \notin {"end", "drained"} /\ state = "header"
  <2>1. Records!HeaderBytes(serves, Head(inbox).kind)
    BY <1>3 DEF Records!FcgiRecord
  <2> QED  BY <1>3, <2>1, HeaderKeeps
<1>4. CASE Head(inbox).kind \notin {"end", "drained"} /\ state # "header"
  <2>1. Records!Content(serves, Head(inbox).of)
    BY <1>4 DEF Records!FcgiRecord
  <2>2. state = "content" /\ Head(inbox).kind # "bad"
    BY <1>4, FirstTaken DEF Mine, Exchange, BadHeader
  <2>3. Head(inbox).kind \notin LastWords /\ Head(inbox).kind # "headers"
    BY <1>4, <2>2 DEF Mine, LastWords, Fitting
  <2> QED  BY <2>1, <2>2, <2>3, ContentKeeps
<1> QED  BY <1>1, <1>2, <1>3, <1>4

LEMMA AjpKeeps ==
  ASSUME RecInv, Takes, Mine, serves # NoAsk, proto = "ajp", Records!AjpRecord(serves, Head(inbox))
  PROVE  RecInv'
<1>1. CASE Head(inbox).kind = "headers" /\ state = "header"
  <2>1. /\ req' = [req EXCEPT ![serves] = [req[serves] EXCEPT !.headers = @ \cup {Head(inbox).of}]]
        /\ UNCHANGED <<agent, conn, serves, state, line, reading, cut>>
    BY <1>1 DEF Records!AjpRecord, Records!Stays, Records!Sends
  <2>2. PICK o \in AskRec, s \in SUBSET Asks : o = req[serves] /\ s = o.headers \cup {Head(inbox).of}
    BY <1>1 DEF Mine, AskRec
  <2>3. PICK q : q = [o EXCEPT !.headers = s]
    OBVIOUS
  <2>4. /\ q \in AskRec /\ q.headed = o.headed /\ q.phase = o.phase /\ q.post = o.post
        /\ q.sent = o.sent /\ q.full = o.full /\ q.headers = s /\ q.of = o.of /\ q.answer = o.answer
    BY <2>3 DEF AskRec
  <2>5. Given(serves, q, cut, strayed, proto)
    BY <2>2, <2>4 DEF Given, Mine
  <2>6. req' = [req EXCEPT ![serves] = q] /\ req'[serves] = q
    BY <2>1, <2>2, <2>3 DEF Mine
  <2>7. Alters /\ ~Ending(1) /\ reading
    BY <1>1, <2>2, <2>4, <2>5, <2>6 DEF Alters, Ending, LastWords, Mine, Takes
  <2> QED  BY <1>1, <2>1, <2>7, ReadsItem DEF Mine, RecInv, RecTypes
<1>2. CASE Head(inbox).kind = "headers" /\ state # "header"
  <2>1. Records!Closes(serves)
    BY <1>2 DEF Records!AjpRecord
  <2> QED  BY <2>1, ClosesKeeps DEF Takes
<1>3. CASE Head(inbox).kind = "data"
  <2>1. Records!Content(serves, Head(inbox).of)
    BY <1>3 DEF Records!AjpRecord
  <2> QED  BY <1>3, <2>1, ContentKeeps DEF LastWords
<1>4. CASE Head(inbox).kind = "wants"
  <2>1. UNCHANGED <<agent, conn, serves, state, line, reading, req, cut>>
    BY <1>4 DEF Records!AjpRecord, Records!Stays
  <2>2. Alters /\ ~Ending(1) /\ reading
    BY <1>4, <2>1 DEF Alters, Ending, LastWords, Mine, Takes
  <2> QED  BY <1>4, <2>1, <2>2, ReadsItem DEF Mine, RecInv, RecTypes
<1>5. CASE Head(inbox).kind \notin {"headers", "data", "wants"}
  <2>1. PICK q : q = (IF state = "header" THEN Records!Heads(req[serves], Head(inbox).of) ELSE req[serves])
    OBVIOUS
  <2>2. Records!Finishes(serves, q, Head(inbox).kind = "end")
    BY <1>5, <2>1 DEF Records!AjpRecord
  <2>3. PICK keep \in BOOLEAN : keep = (Head(inbox).kind = "end")
    OBVIOUS
  <2>4. Records!Finishes(serves, q, keep)
    BY <2>2, <2>3, Zenon
  <2>5. Head(inbox).kind \in {"end", "final"}
    BY <1>5 DEF Mine, Fitting, AllKinds
  <2>6. q \in AskRec /\ Given(serves, q, cut, strayed, proto) /\ q.headed
    BY <2>1, HeadsMine DEF Mine
  <2> QED  BY <2>4, <2>5, <2>6, FinishKeeps DEF Mine
<1> QED  BY <1>1, <1>2, <1>3, <1>4, <1>5

LEMMA ReadKeeps == ASSUME RecInv, Records!Read  PROVE RecInv'
<1>1. Takes
  BY DEF Records!Read, Records!wire, Takes
<1>2. agent = "up" /\ conn = "up" /\ reading
  BY <1>1 DEF Takes
<1>3. CASE Head(inbox).kind = "eof"
  <2>1. Records!Eof(serves)
    BY <1>3 DEF Records!Read
  <2>2. CASE Records!Stale(serves)
    <3>1. Records!Dies("id") /\ serves \in refused
      BY <1>2, <2>1, <2>2 DEF Records!Eof, Records!Stale, RecInv, Entered, NoAsk
    <3> QED  BY <1>1, <3>1, Dying DEF Takes
  <2>3. CASE ~Records!Stale(serves)
    <3>1. /\ conn' = "closing" /\ serves' = NoAsk /\ reading' = FALSE
          /\ req' = (IF serves = NoAsk THEN req ELSE [req EXCEPT ![serves] = Records!Ended(@, "error")])
          /\ UNCHANGED <<agent, state, line, cut>> /\ cut \subseteq Asks
      BY <2>1, <2>3 DEF Records!Eof, NoAsk, RecInv, RecTypes
    <3>2. CASE serves = NoAsk
      <4>1. req' = req /\ \A r \in Asks : req[r].phase # "arrived"
        BY <1>2, <3>1, <3>2, NoAskIsNone DEF RecInv, Entered
      <4> QED  BY <1>1, <1>2, <3>1, <4>1, Parting DEF Takes
    <3>3. CASE serves # NoAsk
      <4>1. serves \in Asks /\ Given(serves, req[serves], cut, strayed, proto)
        BY <3>3 DEF RecInv, RecTypes, AllGiven
      <4>2. PICK o \in AskRec : o = req[serves]
        BY <4>1 DEF RecInv, RecTypes
      <4>3. PICK a \in {"none", "given", "error", "bare"} : a = (IF o.headed THEN o.answer ELSE "error")
        BY <4>2 DEF AskRec
      <4>4. PICK q : q = [o EXCEPT !.phase = "ended", !.answer = a]
        OBVIOUS
      <4>5. /\ q \in AskRec /\ q.phase = "ended" /\ q.headed = o.headed /\ q.post = o.post
            /\ q.headers = o.headers /\ q.of = o.of /\ q.answer = a
        BY <4>3, <4>4 DEF AskRec
      <4>6. Given(serves, q, cut, strayed, proto)
        BY <4>1, <4>2, <4>3, <4>5 DEF Given
      <4>7. req' = [req EXCEPT ![serves] = q]
        BY <3>1, <3>3, <4>2, <4>3, <4>4 DEF Records!Ended
      <4> QED  BY <1>1, <1>2, <3>1, <4>1, <4>5, <4>6, <4>7, Parting DEF Takes
    <3> QED  BY <3>2, <3>3
  <2> QED  BY <2>2, <2>3
<1>4. CASE Head(inbox).kind = "foreign"
  <2>1. Records!Closes(serves)
    BY <1>4 DEF Records!Read
  <2> QED  BY <1>1, <2>1, ClosesKeeps DEF Takes
<1>5. CASE Head(inbox).kind = "wants"
  <2>1. UNCHANGED <<agent, conn, serves, state, line, reading, req, cut>>
    BY <1>5 DEF Records!Read, Records!Stays
  <2>2. RecTypes /\ Exchange /\ Fitting(Head(inbox).kind) /\ Head(inbox) = inbox[1]
    BY <1>1, FirstTaken
  <2>3. Alters /\ ~Ending(1) /\ proto # "fcgi"
    BY <1>5, <2>1, <2>2 DEF Alters, Ending, LastWords, Fitting
  <2>4. line \subseteq Asks /\ line \ {serves} \subseteq cut /\ reading \in BOOLEAN /\ state \in {"header", "content"}
        /\ (state = "content" => serves # NoAsk /\ req[serves].headed)
    BY <2>2 DEF RecTypes, Exchange, OpenLine, HeadedFirst
  <2> QED  BY <1>1, <1>2, <1>5, <2>1, <2>3, <2>4, ReadsItem
<1>6. CASE Head(inbox).kind \notin {"eof", "foreign", "wants"} /\ Records!TourOf(Head(inbox)) = NoAsk
  <2>1. Records!Dies("stray")
    BY <1>6 DEF Records!Read, Records!Stale, NoAsk
  <2>2. strayed
    <3>1. ~strayed => serves # NoAsk /\ Head(inbox).of = serves
      BY <1>1, <1>6, FirstTaken DEF Exchange, Matched
    <3> QED  BY <1>6, <3>1 DEF Records!TourOf
  <2> QED  BY <1>1, <1>2, <2>1, <2>2, Dying DEF Takes
<1>7. CASE Head(inbox).kind \notin {"eof", "foreign", "wants"} /\ Records!TourOf(Head(inbox)) # NoAsk
  <2>1. Records!TourOf(Head(inbox)) = serves /\ serves # NoAsk
    BY <1>7 DEF Records!TourOf, NoAsk
  <2>2. CASE Records!Stale(serves)
    <3>1. Records!Dies("id") /\ serves \in refused
      BY <1>2, <1>7, <2>1, <2>2 DEF Records!Read, Records!Stale, RecInv, Entered, NoAsk
    <3> QED  BY <1>1, <1>2, <3>1, Dying DEF Takes
  <2>3. CASE ~Records!Stale(serves)
    <3>1. IF proto = "fcgi" THEN Records!FcgiRecord(serves, Head(inbox)) ELSE Records!AjpRecord(serves, Head(inbox))
      BY <1>7, <2>1, <2>3 DEF Records!Read, NoAsk
    <3>2. proto \in {"fcgi", "ajp"} /\ Mine
      BY <1>1, <1>7, <2>3, MineHolds DEF RecInv, RecTypes
    <3> QED  BY <1>1, <2>1, <3>1, <3>2, FcgiKeeps, AjpKeeps
  <2> QED  BY <2>2, <2>3
<1> QED  BY <1>3, <1>4, <1>5, <1>6, <1>7

LEMMA RecNext == ASSUME RecInv, Records!Next  PROVE RecInv'
<1>1. ASSUME NEW r \in Asks, Records!Body(r) \/ Records!ClientReads(r) \/ Records!ReturnTour(r) \/ Records!Arrive(r) \/ Records!Refuse(r)
      PROVE  RecInv'
  BY <1>1, BodyKeeps, ClientKeeps, ReturnKeeps, ArriveKeeps, RefuseAskKeeps
<1>2. CASE Records!Connected \/ Records!Write \/ Records!Read \/ Records!Closed \/ Records!UpAnswers
  BY <1>2, ConnectedKeeps, WriteUnitKeeps, ReadKeeps, ClosedKeeps, AnswersKeeps
<1>3. CASE Records!UpLeaves \/ Records!UpDies \/ Records!UpErrs \/ Records!UpStray \/ Records!TimesOut
  BY <1>3, StopsKeeps, MisleadsKeeps, TimesOutKeeps
<1> QED  BY <1>1, <1>2, <1>3 DEF Records!Next, Records!Prompt, Asks

(* What the invariant says of the properties.                              *)
LEMMA RecPromise == RecInv => Records!RecordsAnswered /\ Records!StalledForAReason
<1> SUFFICES ASSUME RecInv  PROVE Records!RecordsAnswered /\ Records!StalledForAReason
  OBVIOUS
<1>1. Records!TypeOK
  <2>1. RecTypes
    BY DEF RecInv
  <2>2. \A i \in DOMAIN inbox : inbox[i] \in [kind : Records!Kinds, of : Asks \cup {NoAsk}]
    <3> SUFFICES ASSUME NEW i \in DOMAIN inbox  PROVE inbox[i] \in [kind : Records!Kinds, of : Asks \cup {NoAsk}]
      OBVIOUS
    <3>1. inbox[i] \in Items /\ proto \in {"fcgi", "ajp"} /\ Fitting(inbox[i].kind)
      BY <2>1, ElementOfSeq, LenProperties DEF RecTypes, Fitting
    <3>2. inbox[i].kind \in Records!Kinds
      BY <3>1 DEF Items, AllKinds, Fitting, Records!Kinds
    <3> QED  BY <3>1, <3>2 DEF Items
  <2>3. inbox \in Seq([kind : Records!Kinds, of : Asks \cup {NoAsk}])
    <3>1. inbox \in Seq(Items)
      BY <2>1 DEF RecTypes
    <3>2. PICK S : S = [kind : Records!Kinds, of : Asks \cup {NoAsk}]
      OBVIOUS
    <3>3. Len(inbox) \in Nat /\ inbox \in [1 .. Len(inbox) -> Items]
      BY <3>1, LenProperties
    <3>4. PICK n \in Nat : n = Len(inbox)
      BY <3>3
    <3>5. inbox = [i \in 1 .. n |-> inbox[i]] /\ \A i \in 1 .. n : inbox[i] \in S
      BY <2>2, <3>2, <3>3, <3>4
    <3>6. [i \in 1 .. n |-> inbox[i]] \in Seq(S)
      BY <3>5
    <3> QED  BY <3>2, <3>5, <3>6, Zenon
  <2> QED  BY <2>1, <2>3 DEF RecTypes, Records!TypeOK, Asks, NoAsk, AskRec, Outgoing
<1>2. Records!AnswersMatch /\ Records!DeathsExplained
  BY DEF RecInv, AllGiven, Given, Records!AnswersMatch, Asks
<1>3. Records!StalledForAReason
  <2> SUFFICES ASSUME agent = "up", Records!Quiet, NEW r \in Asks, req[r].phase = "arrived"
               PROVE  proto = "ajp" /\ ~req[r].post /\ ~reading /\ inbox # <<>>
    BY DEF Records!StalledForAReason, Asks
  <2>1. serves = r /\ conn = "up" /\ Awaited /\ Exchange
    BY NoAskIsNone DEF RecInv, Entered, Awaited, Records!Quiet
  <2>2. /\ req[r].sent /\ ~req[r].full /\ units = <<>> /\ (inbox = <<>> \/ ~reading) /\ (~backend.owes \/ backend.gone)
    BY <2>1 DEF Records!Quiet, Asks
  <2>3. DOMAIN <<>> = {}
    OBVIOUS
  <2>4. inbox # <<>>
    BY <2>1, <2>2, <2>3 DEF Exchange, WillEnd
  <2>5. proto \in {"fcgi", "ajp"}
    BY DEF RecInv, RecTypes
  <2> QED  BY <2>1, <2>2, <2>3, <2>4, <2>5 DEF Exchange, ReadsOn
<1> QED  BY <1>1, <1>2, <1>3 DEF Records!RecordsAnswered

(* The invariant of the records, for any number of requests and failures:  *)
(* the backend owes an answer to the request being served and to no other, *)
(* what waits to be read is for it, and its end will come.                 *)
THEOREM RecordsInvariant == MCSpec => [](which = "records" => RecInv)
<1> DEFINE I == which = "records" => RecInv
<1>1. MCInit => I
  BY RecStart DEF MCInit
<1>2. I /\ [MCNext]_allVars => I'
  <2> SUFFICES ASSUME I, [MCNext]_allVars, which' = "records"  PROVE RecInv'
    OBVIOUS
  <2>1. CASE MCNext
    <3>1. which = "records" /\ Records!Next
      BY <2>1 DEF MCNext
    <3> QED  BY <3>1, RecNext
  <2>2. CASE UNCHANGED allVars
    <3>1. which = "records" /\ UNCHANGED Records!vars
      BY <2>2 DEF allVars, records, shared, Records!vars
    <3> QED  BY <3>1, RecSame
  <2> QED  BY <2>1, <2>2
<1> QED  BY <1>1, <1>2, PTL DEF MCSpec

(* What a client is given is the answer to its own request, the agent dies *)
(* of a record only for a reason, and when only a timeout is left to       *)
(* happen a request waits only for the cause the module names.             *)
THEOREM RecordsAnsweredAlways == MCSpec => []RecordsAnswered
<1>1. (which = "records" => RecInv) => RecordsAnswered
  BY RecPromise DEF RecordsAnswered
<1> QED  BY <1>1, RecordsInvariant, PTL
=============================================================================
